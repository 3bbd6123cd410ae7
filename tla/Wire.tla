-------------------------------- MODULE Wire --------------------------------
(***************************************************************************)
(* One native connection seen from the wire: the requests and replies that *)
(* the CubeSQL SDK exchanges for every operation of package cubesql, the   *)
(* error it records on the connection, the error that internal/csdk and    *)
(* package cubesql make of it, and what the database/sql adapter concludes *)
(* about the connection (observeLocked).                                   *)
(*                                                                         *)
(* The link is TCP: bytes arrive in order or the link fails.  A request    *)
(* with a payload of any size can time out half written.  The server       *)
(* answers every complete request, with an error if it likes; its errors   *)
(* have a text, which is represented by the word groups classifyError      *)
(* looks for.  The native connection is used by one call at a time, which  *)
(* CubeCore shows.                                                         *)
(***************************************************************************)
EXTENDS Integers, Sequences

CONSTANTS
    MaxParts, \* partial packets of a cursor
    NValues   \* values of a one-shot bind

ASSUME WireAssumption == MaxParts \in Nat /\ NValues \in Nat

VARIABLES
    op,       \* the operation of package cubesql under way, or NoOp
    call,     \* the SDK call under way, or NoCall
    err,      \* csqldb.errcode and errmsg
    own,      \* err was recorded by the latest native call
    stmt,     \* the prepared statement: see StmtStates
    broken,   \* conn.broken of the adapter
    reply,    \* what the last operation returned
    crossed,  \* a failed SDK call has reported an error that is not its own
    link,     \* "closed": no native connection
    toServer, toClient, \* bytes in flight, as sequences of messages
    server    \* what the server waits for next

wireVars == <<link, toServer, toClient, server>>
vars == <<op, call, err, own, stmt, broken, reply, crossed, wireVars>>

(***************************************************************************)
(* Errors.                                                                 *)
(***************************************************************************)
\* An error code and the word groups its message contains.
Words == {"authentication", "timeout", "socket", "protocol", "permission"}
Error(code, words) == [code |-> code, words |-> words]

NoError == Error(0, {})
Invalid == Error(-10000, {})                     \* CSQLGO_ERR_INVALID
WriteTimeout == Error(810, {"timeout", "socket"})
ReadTimeout == Error(810, {"timeout", "socket"})
\* sock_write; and an errno, taken from the socket.
WriteFaults == {Error(820, {"socket"}), Error(104, {"socket"})}
ReadFaults == {Error(830, {"socket"}), Error(104, {"socket"})}
ServerErrors == {Error(c, ws) : c \in {1, 7056},
                                ws \in {{}} \union {{w} : w \in Words}}
Canceled == Error(0, {"canceled"}) \* ctx.Err(), not an SDK error

\* Fault: the text of a socket error is not looked at.
ClassifyByCode(e) ==
    CASE e.code = 7056 -> "Authentication"
      [] e.code = 810 -> "Timeout"
      [] e.code \in {800, 802, 805, 820, 830, 888, -6, -7, -8} -> "Network"
      [] e.code \in 835..870 \union {-4, -5} -> "Protocol"
      [] e.code > 0 -> "Server"
      [] OTHER -> "Unknown"

\* classifyError, whose tests are made in this order.
ClassifyError(e) ==
    IF e.code = 7056 \/ "authentication" \in e.words THEN "Authentication"
    ELSE IF e.code = 810 \/ "timeout" \in e.words THEN "Timeout"
    ELSE IF \/ e.code \in {800, 802, 805, 820, 830, 888, -6, -7, -8}
            \/ "socket" \in e.words
    THEN "Network"
    ELSE IF \/ e.code \in 835..870 \union {-4, -5}
            \/ "protocol" \in e.words
    THEN "Protocol"
    ELSE IF e.code <= 0 THEN "Unknown"
    ELSE IF "permission" \in e.words THEN "Authorization"
    ELSE "Server"

\* publicError.
PublicError(e) ==
    IF e = NoError THEN "none"
    ELSE IF e = Canceled THEN "context"
    ELSE ClassifyError(e)

\* Fault: the recorded code is never used.
NativeErrorFallback(recorded, fallback) == Error(fallback.code, recorded.words)

\* nativeErrorLocked: what the connection has recorded, else the fallback.
NativeError(recorded, fallback) ==
    IF recorded.code \in {0, Invalid.code}
    THEN Error(fallback.code, recorded.words)
    ELSE recorded

\* Fault: a timeout does not count.
LosesConnectionExceptTimeout(kind) == kind \in {"Network", "Protocol"}

\* observeLocked.
LosesConnection(kind) == kind \in {"Network", "Protocol", "Timeout"}

(***************************************************************************)
(* Operations and the SDK calls they make.  Ping stands for every          *)
(* operation that executes one statement: Begin, Commit, Rollback and      *)
(* SetDatabase.                                                            *)
(***************************************************************************)
\* Two metrics after an execution are those of resultForContext.
Operations ==
    [Ping         |-> <<"execute">>,
     Changes      |-> <<"metric">>,
     Exec         |-> <<"execute", "metric", "metric">>,
     ExecBind     |-> <<"bind", "metric", "metric">>,
     ExecPrepared |-> <<"prepare", "vmbind", "vmexecute", "metric", "metric", "vmclose">>,
     Query        |-> <<"select">>,
     QueryBind    |-> <<"prepare", "vmbind", "vmselect">>,
     RowsClose    |-> <<"vmclose">>,
     Prepare      |-> <<"prepare">>,
     StmtBind     |-> <<"vmbind">>,
     StmtExec     |-> <<"vmexecute", "metric", "metric">>,
     StmtQuery    |-> <<"vmselect">>,
     StmtReset    |-> <<"vmclose", "prepare">>,
     StmtClose    |-> <<"vmclose">>,
     Close        |-> <<"close">>]

\* "hidden": the statement below the rows of QueryBind.
StmtStates == {"none", "open", "hidden"}

\* The children guards of package cubesql.
Permitted(name) ==
    CASE name = "Ping" -> TRUE
      [] name = "RowsClose" -> stmt = "hidden"
      [] name \in {"StmtBind", "StmtExec", "StmtQuery", "StmtReset", "StmtClose"}
           -> stmt = "open"
      [] OTHER -> stmt = "none"

\* usableLocked, except for what only releases.
Usable(name) == ~broken \/ name \in {"RowsClose", "StmtClose", "Close"}

NoOp == [name |-> "none", todo |-> <<>>, err |-> NoError, fault |-> FALSE]
NoCall == [kind |-> "none", step |-> "none", left |-> 0]
NoReply == [kind |-> "none", fault |-> FALSE]

\* Calls whose request can be of any size.
Large(kind) == kind \in {"execute", "select", "prepare", "bind", "vmbind"}
\* Calls that give up when their request cannot be written.
Checked(kind) == kind \in {"execute", "select", "metric", "prepare", "bind"}
\* Fault: metrics do not clear.
ClearsExceptMetric(kind) == kind \notin {"vmbind", "vmclose", "metric"}
\* Calls that begin with cubesql_clear_errors.
Clears(kind) == kind \notin {"vmbind", "vmclose"}
\* Calls whose answer is a cursor.
ReadsCursor(kind) == kind \in {"select", "metric", "vmselect"}

(***************************************************************************)
(* The link.                                                               *)
(***************************************************************************)
Request(kind, whole) == [kind |-> kind, whole |-> whole, old |-> FALSE]
Reply(kind, e) == [kind |-> kind, error |-> e, old |-> FALSE]
Aged(queue) == [i \in DOMAIN queue |-> [queue[i] EXCEPT !.old = TRUE]]

\* What the server waits for next, and the partial packets it has left.
WaitsFor(what, parts) == [waits |-> what, parts |-> parts]

\* csql_socketwrite: the error it records and the bytes then in flight.
Write(queue, kind, large) ==
    IF link = "up"
    THEN {[error |-> NoError, queue |-> Append(queue, Request(kind, TRUE))]}
         \union IF ~large THEN {}
                ELSE {[error |-> WriteTimeout,
                       queue |-> Append(queue, Request(kind, FALSE))]}
    ELSE {[error |-> e, queue |-> queue] : e \in WriteFaults \union {NoError}}

Init ==
    /\ op = NoOp /\ call = NoCall /\ err = NoError /\ own = FALSE
    /\ stmt = "none" /\ broken = FALSE /\ reply = NoReply /\ crossed = FALSE
    /\ link = "closed" /\ toServer = <<>> /\ toClient = <<>> /\ server = WaitsFor("request", 0)

\* csdk.Open: on failure the code is copied before the handle is freed.
Open ==
    /\ link = "closed" /\ op = NoOp
    /\ \E e \in {NoError, ReadTimeout} \union ReadFaults \union ServerErrors :
          /\ link' = IF e = NoError THEN "up" ELSE "closed"
          /\ reply' = [kind |-> PublicError(e), fault |-> FALSE]
    /\ broken' = FALSE /\ err' = NoError /\ own' = FALSE
    /\ toServer' = <<>> /\ toClient' = <<>> /\ server' = WaitsFor("request", 0)
    /\ UNCHANGED <<op, call, stmt, crossed>>

(***************************************************************************)
(* Native calls.                                                           *)
(***************************************************************************)
\* The calls left for an operation that ends early: a statement it has made
\* itself is closed.
Deferred ==
    IF op.name \in {"ExecPrepared", "QueryBind"} /\ stmt # "none"
    THEN <<"vmclose">> ELSE <<>>

StmtAfter(kind, failed) ==
    CASE kind = "vmclose" -> "none"
      [] kind = "prepare" /\ ~failed ->
           IF op.name \in {"ExecPrepared", "QueryBind"} THEN "hidden" ELSE "open"
      [] OTHER -> stmt

\* A native call is over.  failed is what the SDK returned; the error is
\* read from the connection, err' being what it has recorded.  cubesql_vmclose
\* drops its result; the error of a metric goes into the Result.
Return(kind, failed, fault) ==
    LET e == NativeError(err', Invalid)
        bad == \/ kind = "metric" /\ err'.code # 0
               \/ kind \notin {"metric", "vmclose", "close"} /\ failed
        ends == bad /\ (kind # "metric" \/ op.name = "Changes")
    IN /\ call' = NoCall
       /\ stmt' = StmtAfter(kind, bad)
       /\ op' = [op EXCEPT !.todo = IF ends THEN Deferred ELSE Tail(@),
                           !.err = IF ends THEN e ELSE @,
                           !.fault = @ \/ (ends /\ fault)]
       /\ crossed' = (crossed \/ (bad /\ ~own'))

Continue(step, left) ==
    /\ call' = [call EXCEPT !.step = step, !.left = left]
    /\ UNCHANGED <<op, stmt, crossed>>

\* An operation of package cubesql begins.
Begin(name) ==
    /\ link # "closed" /\ op = NoOp /\ Permitted(name) /\ Usable(name)
    /\ op' = [NoOp EXCEPT !.name = name, !.todo = Operations[name]]
    /\ reply' = NoReply
    /\ UNCHANGED <<call, err, own, stmt, broken, crossed, wireVars>>

\* The first request of a call.
StartCall ==
    /\ call = NoCall /\ op.todo # <<>>
    /\ LET kind == Head(op.todo)
           start == IF Clears(kind) THEN NoError ELSE err
       IN \E w \in Write(Aged(toServer), kind, Large(kind)) :
            /\ toServer' = w.queue /\ toClient' = Aged(toClient)
            /\ err' = IF w.error = NoError THEN start ELSE w.error
            /\ own' = (w.error # NoError)
            /\ IF w.error # NoError /\ Checked(kind)
               THEN Return(kind, TRUE, TRUE)
               ELSE /\ call' = [kind |-> kind, left |-> NValues,
                                step |-> IF kind = "bind" THEN "header" ELSE "reply"]
                    /\ UNCHANGED <<op, stmt, crossed>>
    /\ UNCHANGED <<broken, reply, link, server>>

\* The shim refuses a length that does not fit: nothing is sent or cleared,
\* and the error reported can be the one of an earlier call.
RefuseBind ==
    /\ call = NoCall /\ op.todo # <<>> /\ Head(op.todo) = "vmbind"
    /\ op' = [op EXCEPT !.todo = Deferred, !.err = NativeError(err, Invalid)]
    /\ own' = FALSE
    /\ UNCHANGED <<call, err, stmt, broken, reply, crossed, wireVars>>

\* The context is looked at before every call except the ones that release.
Cancel ==
    /\ call = NoCall /\ op.todo # <<>>
    /\ Head(op.todo) \notin {"vmclose", "close", "metric"}
    /\ op' = [op EXCEPT !.todo = Deferred, !.err = Canceled]
    /\ UNCHANGED <<call, err, own, stmt, broken, reply, crossed, wireVars>>

\* Between the execution and its metrics the context only ends the Result.
CancelMetrics ==
    /\ call = NoCall /\ op.todo # <<>> /\ Head(op.todo) = "metric"
    /\ op.name # "Changes"
    /\ op' = [op EXCEPT !.todo = Deferred]
    /\ UNCHANGED <<call, err, own, stmt, broken, reply, crossed, wireVars>>

\* Fault: a partial packet is not acknowledged.
NoAckPart(queue) == {[error |-> NoError, queue |-> queue]}

\* csql_ack(kCHUNK_OK), whose result csql_read_cursor does not look at.
AckPart(queue) == Write(queue, "ack", FALSE)

\* The call goes on and sends another request, looking at the outcome or not.
SendNext(outcomes, step, left, checked) ==
    \E w \in outcomes :
        /\ toServer' = w.queue
        /\ err' = IF w.error = NoError THEN err ELSE w.error
        /\ own' = (own \/ w.error # NoError)
        /\ IF checked /\ w.error # NoError
           THEN Return(call.kind, TRUE, TRUE)
           ELSE Continue(step, left)

\* A reply is read: csql_netread and csql_checkheader, the loop of
\* csql_read_cursor, and the loop of csql_bindexecute.
ReadReply ==
    /\ call # NoCall /\ call.kind # "close" /\ toClient # <<>>
    /\ LET r == Head(toClient) IN
         /\ toClient' = Tail(toClient)
         /\ CASE r.kind = "error" ->
                   /\ err' = r.error /\ own' = ~r.old
                   /\ Return(call.kind, TRUE, FALSE)
                   /\ UNCHANGED toServer
              [] r.kind = "part" ->
                   SendNext(AckPart(toServer), "reply", call.left, FALSE)
              [] r.kind # "error" /\ call.step = "header" ->
                   IF call.left > 0
                   THEN SendNext(Write(toServer, "chunk", TRUE), "header",
                                 call.left - 1, TRUE)
                   ELSE SendNext(Write(toServer, "finalize", FALSE), "reply", 0, FALSE)
              [] OTHER ->
                   /\ UNCHANGED <<err, own, toServer>>
                   /\ Return(call.kind, FALSE, FALSE)
    /\ UNCHANGED <<broken, reply, link, server>>

\* The read fails because the link has.
ReadFails ==
    /\ call # NoCall /\ call.kind # "close" /\ toClient = <<>> /\ link = "down"
    /\ err' \in ReadFaults /\ own' = TRUE
    /\ Return(call.kind, TRUE, TRUE)
    /\ UNCHANGED <<broken, reply, wireVars>>

\* Fault: the reply to CLOSE is awaited without a limit.
DisconnectAfterReply == link = "down" \/ toClient # <<>>

\* cubesql_disconnect waits one second at most for the reply to CLOSE.
DisconnectAfterRead == TRUE

\* The socket is closed and the handle freed, whatever was read.
Disconnect ==
    /\ call.kind = "close" /\ DisconnectAfterRead
    /\ link' = "closed" /\ toServer' = <<>> /\ toClient' = <<>>
    /\ server' = WaitsFor("request", 0) /\ err' = NoError /\ own' = FALSE
    /\ Return("close", FALSE, FALSE)
    /\ UNCHANGED <<broken, reply>>

\* The operation returns, and the adapter observes its error.
Finish ==
    /\ op # NoOp /\ op.todo = <<>> /\ call = NoCall
    /\ reply' = [kind |-> PublicError(op.err), fault |-> op.fault]
    /\ broken' = (broken \/ LosesConnection(PublicError(op.err)))
    /\ op' = NoOp
    /\ UNCHANGED <<call, err, own, stmt, crossed, wireVars>>

(***************************************************************************)
(* The server and the network.                                             *)
(***************************************************************************)
\* What the server can answer, and what it waits for then.  After a partial
\* packet it waits for an acknowledgement.
Answers(kind) ==
    LET done == WaitsFor("request", 0)
        part(n) == IF n = 0 THEN {}
                   ELSE {<<Reply("part", NoError), WaitsFor("ack", n - 1)>>}
    IN {<<Reply("error", e), done>> : e \in ServerErrors} \union
       CASE ReadsCursor(kind) -> {<<Reply("rows", NoError), done>>} \union part(MaxParts)
         [] kind = "ack" -> {<<Reply("end", NoError), done>>} \union part(server.parts)
         [] kind \in {"bind", "chunk"} -> {<<Reply("ok", NoError), WaitsFor("value", 0)>>}
         [] OTHER -> {<<Reply("ok", NoError), done>>}

Expected(kind) ==
    server.waits = CASE kind = "ack" -> "ack"
                     [] kind \in {"chunk", "finalize"} -> "value"
                     [] OTHER -> "request"

\* The server takes a complete request and answers it.
Serve ==
    /\ link = "up" /\ toServer # <<>>
    /\ LET r == Head(toServer) IN
         /\ r.whole /\ Expected(r.kind)
         /\ toServer' = Tail(toServer)
         /\ \E a \in Answers(r.kind) :
               /\ toClient' = Append(toClient, [a[1] EXCEPT !.old = r.old])
               /\ server' = a[2]
    /\ UNCHANGED <<op, call, err, own, stmt, broken, reply, crossed, link>>

\* The link goes down; what has already arrived can still be read, or not.
LinkDown ==
    /\ link = "up"
    /\ link' = "down" /\ toServer' = <<>>
    /\ toClient' \in {toClient, <<>>}
    /\ UNCHANGED <<op, call, err, own, stmt, broken, reply, crossed, server>>

Client ==
    \/ StartCall \/ RefuseBind \/ Cancel \/ CancelMetrics
    \/ ReadReply \/ ReadFails \/ Disconnect \/ Finish

Next ==
    \/ Open \/ (\E name \in DOMAIN Operations : Begin(name))
    \/ Client \/ Serve \/ LinkDown

Spec == Init /\ [][Next]_vars

\* The client's thread runs; the server may fall silent.
FairSpec == Spec /\ WF_vars(Client)

\* The server answers what it has received.
ServerAnswers == WF_vars(Serve)

(***************************************************************************)
(* Properties.                                                             *)
(***************************************************************************)
\* What an SDK call can record, and what an operation can return.
Recorded == {NoError, WriteTimeout} \union WriteFaults \union ReadFaults
            \union ServerErrors
Errors == Recorded \union {Invalid, Canceled}
Classes == {"none", "context", "Authentication", "Timeout", "Network",
            "Protocol", "Unknown", "Authorization", "Server"}
Kinds == {"execute", "select", "metric", "prepare", "bind", "vmbind",
          "vmexecute", "vmselect", "vmclose", "close"}
Requests == Kinds \union {"ack", "chunk", "finalize"}
Replies == {"ok", "error", "rows", "part", "end"}

\* Every variable has its type.
TypeOK ==
    /\ op \in [name : DOMAIN Operations \union {"none"}, todo : Seq(Kinds),
               err : Errors, fault : BOOLEAN]
    /\ call \in [kind : Kinds \union {"none"}, step : {"none", "header", "reply"},
                 left : 0..NValues]
    /\ err \in Recorded /\ own \in BOOLEAN /\ stmt \in StmtStates
    /\ broken \in BOOLEAN /\ reply \in [kind : Classes, fault : BOOLEAN]
    /\ crossed \in BOOLEAN
    /\ link \in {"closed", "up", "down"}
    /\ server \in [waits : {"request", "ack", "value"}, parts : 0..MaxParts]
    /\ toServer \in Seq([kind : Requests, whole : BOOLEAN, old : BOOLEAN])
    /\ toClient \in Seq([kind : Replies, error : Errors, old : BOOLEAN])

\* As long as the adapter holds a live connection for usable, client and
\* server are in step: nothing that belongs to an earlier call is in flight,
\* and between two operations nothing is in flight at all and the server
\* waits for a request.  Otherwise the next operation would take an answer
\* that is not its own.
InStep ==
    link = "up" /\ ~broken =>
        /\ \A i \in DOMAIN toServer : ~toServer[i].old
        /\ \A i \in DOMAIN toClient : ~toClient[i].old
        /\ op = NoOp =>
             toServer = <<>> /\ toClient = <<>> /\ server.waits = "request"

\* A native call that fails in the SDK, or a metric, reports an error that
\* was recorded during that same call.
ErrorsAreOwn == ~crossed

\* An operation that a socket failure has ended takes the connection out of
\* use, whatever code and text the SDK recorded for it.
LostLinkIsSeen == op = NoOp /\ reply.fault => broken

\* What is left of an operation.  Only a statement is closed after a fault,
\* and an operation that makes a statement of its own makes it first.
TodoInv ==
    /\ op.fault => op.todo \in {<<>>, <<"vmclose">>}
                   /\ LosesConnection(PublicError(op.err))
    /\ \A i \in DOMAIN op.todo :
         /\ op.todo[i] = "close" => Len(op.todo) = 1
         /\ op.name \in {"ExecPrepared", "QueryBind"} =>
              /\ op.todo[i] \notin {"execute", "select", "bind"}
              /\ op.todo[i] = "prepare" => i = 1 /\ stmt = "none"
    /\ link = "closed" => op.todo = <<>>

\* A call is the next one of its operation.
CallInv ==
    call = NoCall \/
        /\ op.todo # <<>> /\ call.kind = Head(op.todo) /\ call.step # "none"
        /\ call.step = "header" => call.kind = "bind"
        /\ call.kind = "metric" => err = NoError \/ own

\* The requests and the replies that fit the step a call is at, when the
\* server waits for what is given.
Asks(kind) ==
    \/ call.step = "header" /\ kind = "bind" /\ server.waits = "request"
    \/ call.step = "header" /\ kind = "chunk" /\ server.waits = "value"
    \/ call.step = "reply" /\ kind = call.kind /\ kind # "bind" /\ server.waits = "request"
    \/ call.step = "reply" /\ kind = "ack" /\ server.waits = "ack"
    \/ call.step = "reply" /\ kind = "finalize" /\ server.waits = "value"
Fits(kind, waits) ==
    \/ kind = "error" /\ waits = "request"
    \/ call.step = "header" /\ kind = "ok" /\ waits = "value"
    \/ call.step = "reply" /\ kind = "part" /\ waits = "ack"
    \/ call.step = "reply" /\ kind \in {"ok", "rows", "end"} /\ waits = "request"

\* An exchange is over, has reached the server, has been answered, or is
\* stuck behind a request that was half written.
Silent == toServer = <<>> /\ toClient = <<>> /\ server.waits = "request"
Asked ==
    /\ toClient = <<>>
    /\ \E kind \in Requests : toServer = <<Request(kind, TRUE)>> /\ Asks(kind)
ReplyFor(waits) ==
    \E kind \in Replies, e \in Recorded :
        toClient = <<Reply(kind, e)>> /\ Fits(kind, waits)
Answered == toServer = <<>> /\ ReplyFor(server.waits)
Stuck == toServer # <<>> /\ ~Head(toServer).whole /\ toClient = <<>>
OwnHalf == \E kind \in Requests : toServer = <<Request(kind, FALSE)>>

\* A live link carries one exchange at a time.  One that is stuck belongs to
\* a call that waits, to an operation that fails with it, or to a connection
\* that is out of use.
UpInv ==
    link = "up" =>
        /\ call = NoCall =>
             Silent \/ (Stuck /\ (broken \/ (OwnHalf /\ op.fault /\ op.todo = <<>>)))
        /\ call # NoCall => Asked \/ Answered \/ (Stuck /\ (broken \/ OwnHalf))

\* On a link that is down there is at most a reply to the present call.
DownInv ==
    link # "up" =>
        /\ toServer = <<>>
        /\ call = NoCall => toClient = <<>>
        /\ call # NoCall =>
             toClient = <<>> \/ \E waits \in {"request", "ack", "value"} : ReplyFor(waits)

\* An inductive invariant.  The last reply that a socket failure made is
\* followed by no other while the connection is in use.
WireInv ==
    /\ TypeOK /\ TodoInv /\ CallInv /\ UpInv /\ DownInv
    /\ ErrorsAreOwn /\ (reply.fault => broken)

\* The write that a timeout cut short, in a call that reads on regardless.
Stalled ==
    /\ call # NoCall /\ ~Checked(call.kind)
    /\ \E i \in DOMAIN toServer : ~toServer[i].whole

\* With a server that answers, every operation returns, unless it waits for
\* the answer to a request it has only half written.
OperationsReturn == ServerAnswers => (op # NoOp ~> op = NoOp \/ Stalled)

\* Close returns even if the server never answers again.
CloseReturns == op.name = "Close" ~> op = NoOp

\* A connection the adapter takes for broken has failed or timed out.
BrokenMeansLost == op = NoOp /\ broken => reply.fault \/ link # "up"
=============================================================================
