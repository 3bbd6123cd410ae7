----------------------------- MODULE WireProofs -----------------------------
(***************************************************************************)
(* Proofs about Wire, for any number of partial packets and of values in a *)
(* one-shot bind.                                                          *)
(***************************************************************************)
EXTENDS Wire, TLAPS

(***************************************************************************)
(* Queues of at most one message.                                          *)
(***************************************************************************)
\* A queue with one message, and what is left when it is read.
LEMMA OneMessage ==
    ASSUME NEW r
    PROVE  /\ <<r>> # <<>> /\ Head(<<r>>) = r /\ Tail(<<r>>) = <<>>
           /\ DOMAIN <<r>> = {1} /\ <<r>>[1] = r /\ Append(<<>>, r) = <<r>>
           /\ DOMAIN <<>> = {}
<1>1. <<r>> # <<>> /\ Head(<<r>>) = r /\ Tail(<<r>>) = <<>>
  OBVIOUS
<1>2. DOMAIN <<r>> = {1} /\ <<r>>[1] = r /\ DOMAIN <<>> = {}
  OBVIOUS
<1>3. Append(<<>>, r) = <<r>>
  OBVIOUS
<1> QED BY <1>1, <1>2, <1>3

\* The rest of a sequence.
LEMMA TailFacts ==
    ASSUME NEW S, NEW s \in Seq(S), s # <<>>
    PROVE  /\ Head(s) \in S /\ Head(s) = s[1] /\ 1 \in DOMAIN s /\ Tail(s) \in Seq(S)
           /\ Len(s) = 1 => Tail(s) = <<>>
           /\ \A i \in DOMAIN Tail(s) :
                 i + 1 \in DOMAIN s /\ Tail(s)[i] = s[i + 1] /\ i + 1 # 1
           /\ Len(Tail(s)) = Len(s) - 1
<1>1. Len(s) \in Nat \ {0} /\ DOMAIN s = 1..Len(s)
  OBVIOUS
<1>2. Tail(s) \in Seq(S) /\ Len(Tail(s)) = Len(s) - 1 /\ DOMAIN Tail(s) = 1..(Len(s) - 1)
  BY <1>1
<1>3. \A i \in 1..(Len(s) - 1) : Tail(s)[i] = s[i + 1]
  BY <1>1
<1>4. Len(s) = 1 => Tail(s) = <<>>
  BY <1>2
<1>5. Head(s) \in S /\ Head(s) = s[1]
  BY <1>1
<1> QED BY <1>1, <1>2, <1>3, <1>4, <1>5

ToServerType == [kind : Requests, whole : BOOLEAN, old : BOOLEAN]
ToClientType == [kind : Replies, error : Errors, old : BOOLEAN]

\* The messages in flight age when a call starts.
LEMMA AgedFacts ==
    ASSUME NEW q \in Seq(ToServerType)
    PROVE  /\ Aged(q) \in Seq(ToServerType)
           /\ q # <<>> => Aged(q) # <<>> /\ Head(Aged(q)).whole = Head(q).whole
<1>1. DOMAIN q = 1..Len(q) /\ Len(q) \in Nat
  OBVIOUS
<1>2. \A i \in 1..Len(q) : q[i] \in ToServerType
  OBVIOUS
<1>3. \A i \in 1..Len(q) : [q[i] EXCEPT !.old = TRUE] \in ToServerType
  BY <1>2 DEF ToServerType
<1>4. Aged(q) = [i \in 1..Len(q) |-> [q[i] EXCEPT !.old = TRUE]]
  BY <1>1 DEF Aged
<1>5. Aged(q) \in Seq(ToServerType) /\ Len(Aged(q)) = Len(q)
  BY <1>1, <1>3, <1>4
<1>6. ASSUME q # <<>> PROVE Aged(q) # <<>> /\ Head(Aged(q)).whole = Head(q).whole
  <2>1. Len(q) # 0 /\ 1 \in 1..Len(q)
    BY <1>1, <1>6
  <2>2. Aged(q)[1] = [q[1] EXCEPT !.old = TRUE]
    BY <1>4, <2>1
  <2>3. Aged(q)[1].whole = q[1].whole
    BY <1>2, <2>1, <2>2 DEF ToServerType
  <2>4. Head(Aged(q)) = Aged(q)[1] /\ Head(q) = q[1] /\ Aged(q) # <<>>
    BY <1>5, <2>1
  <2> QED BY <2>3, <2>4
<1> QED BY <1>5, <1>6

\* No messages, none to age.
LEMMA AgedNothing == Aged(<<>>) = <<>>
  BY DEF Aged

(***************************************************************************)
(* Errors.                                                                 *)
(***************************************************************************)
\* The socket's errors are recognised as the loss of the connection, by code
\* or by text, and are reported as they were recorded.
LEMMA FaultsLose ==
    ASSUME NEW e \in WriteFaults \union ReadFaults \union {WriteTimeout}
    PROVE  /\ e \in Recorded /\ e # NoError /\ e # Canceled /\ NativeError(e, Invalid) = e
           /\ LosesConnection(PublicError(e))
<1>1. \/ e = Error(810, {"timeout", "socket"}) \/ e = Error(820, {"socket"})
      \/ e = Error(830, {"socket"}) \/ e = Error(104, {"socket"})
  BY DEF WriteFaults, ReadFaults, WriteTimeout
<1>2. e \in Recorded
  BY DEF Recorded
<1>3. /\ e.code \notin {0, -10000, 7056} /\ "authentication" \notin e.words
      /\ "socket" \in e.words
  BY <1>1 DEF Error
<1>4. e # NoError /\ e # Canceled
  BY <1>3 DEF NoError, Canceled, Error
<1>5. NativeError(e, Invalid) = e
  BY <1>3 DEF NativeError, Invalid, Error
<1>6. ClassifyError(e) \in {"Timeout", "Network"}
  BY <1>3 DEF ClassifyError
<1>7. LosesConnection(PublicError(e))
  BY <1>4, <1>6 DEF LosesConnection, PublicError
<1> QED BY <1>2, <1>4, <1>5, <1>7

\* nativeErrorLocked makes an error an operation can return, and
\* publicError a class.
LEMMA ErrorTypes ==
    ASSUME NEW e \in Recorded
    PROVE  NativeError(e, Invalid) \in Errors
<1>1. CASE e = NoError
  BY <1>1 DEF NativeError, NoError, Invalid, Error, Errors
<1>2. CASE e \in WriteFaults \union ReadFaults \union {WriteTimeout}
  BY <1>2, FaultsLose DEF Errors
<1>3. CASE e \in ServerErrors
  <2>1. e.code \in {1, 7056}
    BY <1>3 DEF ServerErrors, Error
  <2>2. NativeError(e, Invalid) = e
    BY <2>1 DEF NativeError, Invalid, Error
  <2> QED BY <2>2 DEF Errors
<1> QED BY <1>1, <1>2, <1>3 DEF Recorded

\* publicError has a class for every error.
LEMMA PublicTypes ==
    ASSUME NEW e
    PROVE  PublicError(e) \in Classes
  BY DEF PublicError, ClassifyError, Classes

\* An error code is zero only when nothing is recorded.
LEMMA CodesTell ==
    ASSUME NEW e \in Recorded, e.code # 0
    PROVE  e # NoError
  BY DEF NoError, Error

(***************************************************************************)
(* Parts of a step.                                                        *)
(***************************************************************************)
\* csql_socketwrite.
LEMMA WriteFacts ==
    ASSUME NEW q, NEW kind, NEW large \in BOOLEAN, NEW w \in Write(q, kind, large)
    PROVE  /\ w.error \in {NoError, WriteTimeout} \union WriteFaults
           /\ link = "up" =>
                \/ w.error = NoError /\ w.queue = Append(q, Request(kind, TRUE))
                \/ large /\ w.error = WriteTimeout /\ w.queue = Append(q, Request(kind, FALSE))
           /\ link # "up" => w.queue = q
<1>1. CASE link = "up"
  <2>1. CASE w = [error |-> NoError, queue |-> Append(q, Request(kind, TRUE))]
    BY <1>1, <2>1
  <2>2. CASE w = [error |-> WriteTimeout, queue |-> Append(q, Request(kind, FALSE))] /\ large
    BY <1>1, <2>2
  <2> QED BY <1>1, <2>1, <2>2 DEF Write
<1>2. CASE link # "up"
  <2>1. PICK e \in WriteFaults \union {NoError} : w = [error |-> e, queue |-> q]
    BY <1>2 DEF Write
  <2> QED BY <1>2, <2>1
<1> QED BY <1>1, <1>2

\* A write that fails records its error and loses the connection.
Faults == WriteFaults \union ReadFaults \union {WriteTimeout}

\* What is left of an operation that ends early.
LEMMA DeferredFacts ==
    /\ Deferred \in {<<>>, <<"vmclose">>} /\ Deferred \in Seq(Kinds)
    /\ \A i \in DOMAIN Deferred : Deferred[i] = "vmclose"
    /\ op.name \notin {"ExecPrepared", "QueryBind"} \/ stmt = "none" => Deferred = <<>>
<1>1. <<"vmclose">> \in Seq(Kinds) /\ <<>> \in Seq(Kinds)
  BY DEF Kinds
<1>2. \A i \in DOMAIN <<"vmclose">> : <<"vmclose">>[i] = "vmclose"
  BY OneMessage
<1>3. DOMAIN <<>> = {}
  BY OneMessage
<1> QED BY <1>1, <1>2, <1>3 DEF Deferred

\* Return: what a native call leaves when it is over.
LEMMA ReturnStep ==
    ASSUME TypeOK, TodoInv, ErrorsAreOwn, op.todo # <<>>,
           NEW failed \in BOOLEAN, NEW fault \in BOOLEAN,
           Return(Head(op.todo), failed, fault),
           err' \in Recorded, own' \in BOOLEAN,
           failed => own',
           Head(op.todo) = "metric" => err' = NoError \/ own',
           fault => failed /\ err' \in Faults,
           link' = "closed" => Head(op.todo) = "close"
    PROVE  /\ op' \in [name : DOMAIN Operations \union {"none"}, todo : Seq(Kinds),
                       err : Errors, fault : BOOLEAN]
           /\ call' = NoCall /\ stmt' \in StmtStates
           /\ TodoInv' /\ crossed' = FALSE
           /\ fault /\ Checked(Head(op.todo)) /\ Large(Head(op.todo)) =>
                op'.fault /\ op'.todo = <<>>
<1> DEFINE kind == Head(op.todo)
           bad == \/ kind = "metric" /\ err'.code # 0
                  \/ kind \notin {"metric", "vmclose", "close"} /\ failed
           ends == bad /\ (kind # "metric" \/ op.name = "Changes")
           e == NativeError(err', Invalid)
<1>1. /\ op.name \in DOMAIN Operations \union {"none"} /\ op.todo \in Seq(Kinds)
      /\ op.err \in Errors /\ op.fault \in BOOLEAN
      /\ op = [name |-> op.name, todo |-> op.todo, err |-> op.err, fault |-> op.fault]
  BY DEF TypeOK
<1>2. /\ kind \in Kinds /\ kind = op.todo[1] /\ 1 \in DOMAIN op.todo
      /\ Tail(op.todo) \in Seq(Kinds)
      /\ Len(op.todo) = 1 => Tail(op.todo) = <<>>
      /\ Len(Tail(op.todo)) = Len(op.todo) - 1
      /\ \A i \in DOMAIN Tail(op.todo) :
            i + 1 \in DOMAIN op.todo /\ Tail(op.todo)[i] = op.todo[i + 1] /\ i + 1 # 1
  BY <1>1, TailFacts
<1>3. /\ call' = NoCall /\ stmt' = StmtAfter(kind, bad)
      /\ op' = [op EXCEPT !.todo = IF ends THEN Deferred ELSE Tail(@),
                          !.err = IF ends THEN e ELSE @,
                          !.fault = @ \/ (ends /\ fault)]
      /\ crossed' = (crossed \/ (bad /\ ~own'))
  BY DEF Return
<1>4. bad \in BOOLEAN /\ ends \in BOOLEAN
  OBVIOUS
<1>5. e \in Errors /\ (fault /\ ends => LosesConnection(PublicError(e)))
  BY ErrorTypes, FaultsLose DEF Faults
<1>6. bad => own'
  BY CodesTell
<1>7. ends => kind \notin {"vmclose", "close"}
  OBVIOUS
<1>8. fault /\ Checked(kind) /\ Large(kind) => ends /\ kind \in {"execute", "select", "prepare", "bind"}
  BY DEF Checked, Large
<1>9. stmt' \in StmtStates
  BY <1>3 DEF StmtAfter, StmtStates, TypeOK
<1>10. crossed' = FALSE
  BY <1>3, <1>6 DEF ErrorsAreOwn
<1> HIDE DEF kind, bad, e
<1>11. op'.fault \in BOOLEAN /\ (op'.fault <=> op.fault \/ (ends /\ fault))
  <2>1. op'.fault = (op.fault \/ (ends /\ fault))
    BY <1>1, <1>3
  <2> QED BY <2>1
<1>12. /\ op'.name = op.name
       /\ op'.todo = IF ends THEN Deferred ELSE Tail(op.todo)
       /\ op'.err = IF ends THEN e ELSE op.err
       /\ op' = [name |-> op'.name, todo |-> op'.todo, err |-> op'.err, fault |-> op'.fault]
  BY <1>1, <1>3
<1> HIDE DEF ends
<1>13. op' \in [name : DOMAIN Operations \union {"none"}, todo : Seq(Kinds),
                err : Errors, fault : BOOLEAN]
  <2>1. op'.todo \in Seq(Kinds)
    BY <1>2, <1>12, DeferredFacts
  <2>2. op'.err \in Errors
    BY <1>1, <1>5, <1>12
  <2> QED BY <1>1, <1>11, <1>12, <2>1, <2>2
<1>14. op.fault => kind = "vmclose" /\ Len(op.todo) = 1
  BY <1>2, OneMessage DEF TodoInv
<1>15. op'.fault => op'.todo \in {<<>>, <<"vmclose">>} /\ LosesConnection(PublicError(op'.err))
  <2>1. CASE op.fault
    BY <1>2, <1>7, <1>12, <1>14, <2>1 DEF TodoInv
  <2>2. CASE ends /\ fault
    BY <1>5, <1>12, <2>2, DeferredFacts
  <2> QED BY <1>11, <2>1, <2>2
<1>16. ASSUME NEW i \in DOMAIN op'.todo
       PROVE  /\ op'.todo[i] = "close" => Len(op'.todo) = 1
              /\ op'.name \in {"ExecPrepared", "QueryBind"} =>
                   /\ op'.todo[i] \notin {"execute", "select", "bind"}
                   /\ op'.todo[i] # "prepare"
  <2>1. CASE ends
    <3>1. op'.todo[i] = "vmclose"
      BY <1>12, <2>1, DeferredFacts
    <3> QED BY <3>1
  <2>2. CASE ~ends
    <3>1. i + 1 \in DOMAIN op.todo /\ op'.todo[i] = op.todo[i + 1] /\ i + 1 # 1
      BY <1>2, <1>12, <2>2
    <3>2. op.todo[i + 1] # "close"
      <4>1. Len(op.todo) # 1
        BY <1>1, <3>1
      <4> QED BY <3>1, <4>1 DEF TodoInv
    <3> QED BY <1>12, <3>1, <3>2 DEF TodoInv
  <2> QED BY <1>4, <2>1, <2>2
<1>17. link' = "closed" => op'.todo = <<>>
  BY <1>2, <1>7, <1>12 DEF TodoInv, kind
<1>18. TodoInv'
  BY <1>15, <1>16, <1>17 DEF TodoInv
<1>19. fault /\ Checked(kind) /\ Large(kind) => op'.fault /\ op'.todo = <<>>
  <2> SUFFICES ASSUME fault, Checked(kind), Large(kind)
               PROVE  op'.fault /\ op'.todo = <<>>
    OBVIOUS
  <2>1. ends /\ kind \in {"execute", "select", "prepare", "bind"}
    BY <1>8
  <2>2. op.name \notin {"ExecPrepared", "QueryBind"} \/ stmt = "none"
    BY <1>2, <2>1 DEF TodoInv
  <2> QED BY <1>11, <1>12, <2>1, <2>2, DeferredFacts
<1> QED BY <1>3, <1>9, <1>10, <1>13, <1>18, <1>19 DEF kind

\* The state between two calls.
LEMMA BetweenCalls ==
    ASSUME WireInv, call = NoCall
    PROVE  /\ toClient = <<>> /\ toServer \in Seq(ToServerType)
           /\ op.todo \in Seq(Kinds)
           /\ link = "up" /\ op.todo # <<>> =>
                \/ toServer = <<>> /\ server.waits = "request"
                \/ toServer # <<>> /\ ~Head(toServer).whole /\ broken
           /\ link # "up" => toServer = <<>>
           /\ op.todo # <<>> => /\ link # "closed" /\ Head(op.todo) \in Kinds
                                /\ 1 \in DOMAIN op.todo /\ Head(op.todo) = op.todo[1]
<1>1. toServer \in Seq(ToServerType) /\ op.todo \in Seq(Kinds)
  BY DEF WireInv, TypeOK, ToServerType
<1>2. op.todo # <<>> => /\ link # "closed" /\ Head(op.todo) \in Kinds
                        /\ 1 \in DOMAIN op.todo /\ Head(op.todo) = op.todo[1]
  BY <1>1, TailFacts DEF WireInv, TodoInv
<1>3. toClient = <<>>
  BY DEF WireInv, UpInv, DownInv, Silent, Stuck
<1> QED BY <1>1, <1>2, <1>3 DEF WireInv, UpInv, DownInv, Silent, Stuck

\* The first request of a call goes out alone, or behind one that is stuck.
LEMMA FirstRequest ==
    ASSUME WireInv, call = NoCall, op.todo # <<>>, NEW kind \in Kinds,
           NEW large \in BOOLEAN, NEW w \in Write(Aged(toServer), kind, large)
    PROVE  /\ w.queue \in Seq(ToServerType)
           /\ link # "up" => w.queue = <<>>
           /\ link = "up" =>
                \/ w.queue = <<Request(kind, TRUE)>> /\ w.error = NoError /\ server.waits = "request"
                \/ w.queue = <<Request(kind, FALSE)>> /\ w.error = WriteTimeout /\ large
                \/ w.queue # <<>> /\ ~Head(w.queue).whole /\ broken
<1>1. /\ toServer \in Seq(ToServerType)
      /\ Aged(toServer) \in Seq(ToServerType)
      /\ toServer # <<>> => Aged(toServer) # <<>> /\ Head(Aged(toServer)).whole = Head(toServer).whole
  BY BetweenCalls, AgedFacts
<1>2. \A whole \in BOOLEAN : Request(kind, whole) \in ToServerType
  BY DEF Request, ToServerType, Requests
<1>3. CASE link # "up"
  <2>1. w.queue = <<>>
    BY <1>3, BetweenCalls, AgedNothing, WriteFacts
  <2> QED BY <1>3, <2>1
<1>4. CASE link = "up"
  <2>1. PICK whole \in BOOLEAN :
            /\ w.queue = Append(Aged(toServer), Request(kind, whole))
            /\ whole => w.error = NoError
            /\ ~whole => large /\ w.error = WriteTimeout
    <3>1. CASE w.error = NoError /\ w.queue = Append(Aged(toServer), Request(kind, TRUE))
      BY <3>1
    <3>2. CASE large /\ w.error = WriteTimeout /\ w.queue = Append(Aged(toServer), Request(kind, FALSE))
      BY <3>2
    <3>3. \/ w.error = NoError /\ w.queue = Append(Aged(toServer), Request(kind, TRUE))
          \/ large /\ w.error = WriteTimeout /\ w.queue = Append(Aged(toServer), Request(kind, FALSE))
      <4>1. CASE w = [error |-> NoError, queue |-> Append(Aged(toServer), Request(kind, TRUE))]
        BY <4>1
      <4>2. CASE /\ w = [error |-> WriteTimeout, queue |-> Append(Aged(toServer), Request(kind, FALSE))]
                 /\ large
        BY <4>2
      <4> QED BY <1>4, <4>1, <4>2 DEF Write
    <3> QED BY <3>1, <3>2, <3>3
  <2>2. w.queue \in Seq(ToServerType)
    BY <1>1, <1>2, <2>1
  <2>3. CASE toServer = <<>>
    <3>1. w.queue = <<Request(kind, whole)>>
      BY <2>1, <2>3, AgedNothing, OneMessage
    <3>2. server.waits = "request"
      BY <1>4, <2>3, BetweenCalls
    <3> QED BY <1>4, <2>1, <2>2, <3>1, <3>2
  <2>4. CASE toServer # <<>>
    <3>1. ~Head(toServer).whole /\ broken
      BY <1>4, <2>4, BetweenCalls
    <3>2. Aged(toServer) # <<>> /\ ~Head(Aged(toServer)).whole
      BY <1>1, <2>4, <3>1
    <3>3. w.queue # <<>> /\ Head(w.queue) = Head(Aged(toServer))
      BY <1>1, <1>2, <2>1, <3>2
    <3> QED BY <1>4, <2>2, <3>1, <3>2, <3>3
  <2> QED BY <2>3, <2>4
<1> QED BY <1>3, <1>4

\* A request that is half written, as the only one.
LEMMA HalfIsStuck ==
    ASSUME NEW kind \in Requests
    PROVE  /\ <<Request(kind, FALSE)>> # <<>>
           /\ ~Head(<<Request(kind, FALSE)>>).whole
  BY OneMessage DEF Request

\* No call is a call.
LEMMA NoCallType ==
    NoCall \in [kind : Kinds \union {"none"}, step : {"none", "header", "reply"},
                left : 0..NValues]
  BY WireAssumption DEF NoCall

(***************************************************************************)
(* The client's steps.                                                     *)
(***************************************************************************)
\* The first request of a call.
LEMMA StartCallStep ==
    ASSUME WireInv, StartCall
    PROVE  WireInv'
<1>0. call = NoCall /\ op.todo # <<>>
  BY DEF StartCall
<1>1. PICK kind \in Kinds : kind = Head(op.todo)
  BY <1>0, BetweenCalls
<1>2. kind \in Requests /\ link # "closed" /\ toClient = <<>>
  BY <1>0, BetweenCalls DEF Requests
<1> DEFINE start == IF Clears(kind) THEN NoError ELSE err
<1>3. Large(kind) \in BOOLEAN /\ Checked(kind) \in BOOLEAN
  BY DEF Large, Checked
<1>4. PICK w \in Write(Aged(toServer), kind, Large(kind)) :
            /\ toServer' = w.queue /\ toClient' = Aged(toClient)
            /\ err' = IF w.error = NoError THEN start ELSE w.error
            /\ own' = (w.error # NoError)
            /\ w.error # NoError /\ Checked(kind) => Return(kind, TRUE, TRUE)
            /\ ~(w.error # NoError /\ Checked(kind)) =>
                  /\ call' = [kind |-> kind, left |-> NValues,
                              step |-> IF kind = "bind" THEN "header" ELSE "reply"]
                  /\ UNCHANGED <<op, stmt, crossed>>
  BY <1>1, Zenon DEF StartCall
<1>5. UNCHANGED <<broken, reply, link, server>>
  BY DEF StartCall
<1>6. own' \in BOOLEAN /\ (own' <=> w.error # NoError)
  <2>1. own' = (w.error # NoError)
    BY <1>4
  <2> QED BY <2>1
<1>7. w.error \in {NoError, WriteTimeout} \union WriteFaults
  BY <1>3, WriteFacts
<1>8. err' \in Recorded /\ (w.error # NoError => err' = w.error /\ err' \in Faults)
  <2>1. start \in Recorded
    BY DEF Recorded, WireInv, TypeOK
  <2> HIDE DEF start
  <2> QED BY <1>4, <1>7, <2>1 DEF Faults, Recorded
<1>9. kind = "metric" => err' = NoError \/ own'
  BY <1>4, <1>6 DEF Clears
<1>10. toClient' = <<>>
  BY <1>2, <1>4, AgedNothing
<1>11. /\ toServer' \in Seq(ToServerType)
       /\ link # "up" => toServer' = <<>>
       /\ link = "up" =>
            \/ toServer' = <<Request(kind, TRUE)>> /\ w.error = NoError /\ server.waits = "request"
            \/ toServer' = <<Request(kind, FALSE)>> /\ w.error = WriteTimeout /\ Large(kind)
            \/ toServer' # <<>> /\ ~Head(toServer').whole /\ broken
  BY <1>0, <1>2, <1>3, <1>4, FirstRequest
<1> HIDE DEF start
<1>12. <<>> \in Seq(ToClientType)
  OBVIOUS
<1>13. CASE w.error # NoError /\ Checked(kind)
  <2>1. Return(kind, TRUE, TRUE) /\ own' /\ err' \in Faults
    BY <1>4, <1>6, <1>8, <1>13
  <2>2. /\ op' \in [name : DOMAIN Operations \union {"none"}, todo : Seq(Kinds),
                    err : Errors, fault : BOOLEAN]
        /\ call' = NoCall /\ stmt' \in StmtStates
        /\ TodoInv' /\ crossed' = FALSE
        /\ Large(kind) => op'.fault /\ op'.todo = <<>>
    BY <1>0, <1>1, <1>2, <1>5, <1>6, <1>8, <1>9, <1>13, <2>1, ReturnStep DEF WireInv
  <2>3. TypeOK'
    <3>1. /\ call' \in [kind : Kinds \union {"none"}, step : {"none", "header", "reply"},
                        left : 0..NValues]
          /\ toServer' \in Seq([kind : Requests, whole : BOOLEAN, old : BOOLEAN])
          /\ toClient' \in Seq([kind : Replies, error : Errors, old : BOOLEAN])
      BY <1>10, <1>11, <1>12, <2>2, NoCallType DEF ToServerType, ToClientType
    <3>2. crossed' \in BOOLEAN
      BY <2>2
    <3> QED BY <1>5, <1>6, <1>8, <2>2, <3>1, <3>2 DEF WireInv, TypeOK
  <2>4. CallInv' /\ ErrorsAreOwn'
    BY <2>2 DEF CallInv, ErrorsAreOwn
  <2>5. UpInv'
    <3>1. CASE toServer' = <<Request(kind, FALSE)>> /\ Large(kind)
      BY <1>2, <1>10, <2>2, <3>1, HalfIsStuck DEF UpInv, Stuck, OwnHalf
    <3>2. CASE toServer' # <<>> /\ ~Head(toServer').whole /\ broken
      BY <1>5, <1>10, <2>2, <3>2 DEF UpInv, Stuck
    <3> QED BY <1>5, <1>11, <1>13, <3>1, <3>2 DEF UpInv
  <2>6. DownInv'
    BY <1>5, <1>10, <1>11, <2>2 DEF DownInv
  <2> QED BY <1>5, <2>2, <2>3, <2>4, <2>5, <2>6 DEF WireInv
<1>14. CASE ~(w.error # NoError /\ Checked(kind))
  <2>1. /\ call' = [kind |-> kind, left |-> NValues,
                    step |-> IF kind = "bind" THEN "header" ELSE "reply"]
        /\ UNCHANGED <<op, stmt, crossed>>
    BY <1>4, <1>14
  <2>2. /\ call'.kind = kind /\ call' # NoCall
        /\ call'.step = IF kind = "bind" THEN "header" ELSE "reply"
    BY <1>2, <2>1 DEF NoCall, Kinds
  <2>3. call' \in [kind : Kinds \union {"none"}, step : {"none", "header", "reply"},
                   left : 0..NValues]
    BY <1>2, <2>1, WireAssumption
  <2>4. TypeOK'
    BY <1>5, <1>6, <1>8, <1>10, <1>11, <1>12, <2>1, <2>3
       DEF WireInv, TypeOK, ToServerType, ToClientType
  <2>5. TodoInv'
    BY <1>5, <2>1 DEF WireInv, TodoInv
  <2>6. CallInv'
    BY <1>0, <1>1, <1>9, <2>1, <2>2 DEF CallInv
  <2>7. UpInv'
    <3>1. CASE toServer' = <<Request(kind, TRUE)>> /\ server.waits = "request"
      <4>1. Asks(kind)'
        BY <1>5, <2>2, <3>1 DEF Asks
      <4>2. Asked'
        BY <1>2, <1>10, <3>1, <4>1 DEF Asked
      <4> QED BY <2>2, <4>2 DEF UpInv
    <3>2. CASE toServer' = <<Request(kind, FALSE)>>
      BY <1>2, <1>10, <2>2, <3>2, HalfIsStuck DEF UpInv, Stuck, OwnHalf
    <3>3. CASE toServer' # <<>> /\ ~Head(toServer').whole /\ broken
      BY <1>5, <1>10, <2>2, <3>3 DEF UpInv, Stuck
    <3> QED BY <1>5, <1>11, <3>1, <3>2, <3>3 DEF UpInv
  <2>8. DownInv'
    BY <1>5, <1>10, <1>11 DEF DownInv
  <2> QED BY <1>5, <2>1, <2>4, <2>5, <2>6, <2>7, <2>8 DEF WireInv, ErrorsAreOwn
<1> QED BY <1>13, <1>14

\* A queue with one request, or none.
LEMMA OneRequest ==
    /\ \A kind \in Requests, whole \in BOOLEAN : <<Request(kind, whole)>> \in Seq(ToServerType)
    /\ <<>> \in Seq(ToServerType) /\ <<>> \in Seq(ToClientType)
<1>1. \A kind \in Requests, whole \in BOOLEAN : Request(kind, whole) \in ToServerType
  BY DEF Request, ToServerType
<1>2. ASSUME NEW kind \in Requests, NEW whole \in BOOLEAN
      PROVE  <<Request(kind, whole)>> \in Seq(ToServerType)
  <2>1. PICK r \in ToServerType : r = Request(kind, whole)
    BY <1>1
  <2>2. <<r>> \in Seq(ToServerType)
    OBVIOUS
  <2> QED BY <2>1, <2>2
<1> QED BY <1>2

\* A call is over, with nothing more in flight or with a request of its own
\* that is half written.
LEMMA CallReturns ==
    ASSUME WireInv, call # NoCall, NEW failed \in BOOLEAN, NEW fault \in BOOLEAN,
           Return(call.kind, failed, fault),
           err' \in Recorded, own' \in BOOLEAN, failed => own',
           call.kind = "metric" => err' = NoError \/ own',
           fault => failed /\ err' \in Faults,
           UNCHANGED <<broken, reply, link, server>>, toClient' = <<>>,
           link # "up" => toServer' = <<>>,
           \/ toServer' = <<>> /\ (link = "up" => server.waits = "request")
           \/ /\ \E kind \in Requests : toServer' = <<Request(kind, FALSE)>>
              /\ fault /\ Checked(call.kind) /\ Large(call.kind)
    PROVE  WireInv'
<1>1. op.todo # <<>> /\ call.kind = Head(op.todo) /\ link # "closed"
  BY DEF WireInv, CallInv, TodoInv
<1>2. /\ op' \in [name : DOMAIN Operations \union {"none"}, todo : Seq(Kinds),
                  err : Errors, fault : BOOLEAN]
      /\ call' = NoCall /\ stmt' \in StmtStates
      /\ TodoInv' /\ crossed' = FALSE
      /\ fault /\ Checked(call.kind) /\ Large(call.kind) => op'.fault /\ op'.todo = <<>>
  BY <1>1, ReturnStep DEF WireInv
<1>3. toServer' \in Seq(ToServerType) /\ toClient' \in Seq(ToClientType)
  BY OneRequest
<1>4. TypeOK'
  <2>1. /\ call' \in [kind : Kinds \union {"none"}, step : {"none", "header", "reply"},
                      left : 0..NValues]
        /\ toServer' \in Seq([kind : Requests, whole : BOOLEAN, old : BOOLEAN])
        /\ toClient' \in Seq([kind : Replies, error : Errors, old : BOOLEAN])
        /\ crossed' \in BOOLEAN
    BY <1>2, <1>3, NoCallType DEF ToServerType, ToClientType
  <2> QED BY <1>2, <2>1 DEF WireInv, TypeOK
<1>5. CallInv' /\ ErrorsAreOwn'
  BY <1>2 DEF CallInv, ErrorsAreOwn
<1>6. UpInv'
  <2>1. CASE toServer' = <<>> /\ (link = "up" => server.waits = "request")
    BY <1>2, <2>1 DEF UpInv, Silent
  <2>2. CASE /\ \E kind \in Requests : toServer' = <<Request(kind, FALSE)>>
             /\ fault /\ Checked(call.kind) /\ Large(call.kind)
    BY <1>2, <2>2, HalfIsStuck DEF UpInv, Stuck, OwnHalf
  <2> QED BY <2>1, <2>2
<1>7. DownInv'
  BY <1>2 DEF DownInv
<1> QED BY <1>2, <1>4, <1>5, <1>6, <1>7 DEF WireInv

\* A call goes on with another request, which is whole.
LEMMA CallContinues ==
    ASSUME WireInv, call # NoCall, NEW step \in {"header", "reply"}, NEW left \in 0..NValues,
           Continue(step, left), step = "header" => call.kind = "bind",
           err' \in Recorded, own' \in BOOLEAN,
           call.kind = "metric" => err' = NoError \/ own',
           UNCHANGED <<broken, reply, link, server>>, toClient' = <<>>,
           link # "up" => toServer' = <<>>,
           NEW kind \in Requests,
           link = "up" => toServer' = <<Request(kind, TRUE)>>,
           link = "up" => \/ step = "header" /\ kind = "chunk" /\ server.waits = "value"
                          \/ step = "reply" /\ kind = "ack" /\ server.waits = "ack"
                          \/ step = "reply" /\ kind = "finalize" /\ server.waits = "value"
    PROVE  WireInv'
<1>1. /\ call.kind \in Kinds \union {"none"} /\ call.step # "none" /\ op.todo # <<>>
      /\ call.kind = Head(op.todo) /\ call = [kind |-> call.kind, step |-> call.step, left |-> call.left]
      /\ op.todo \in Seq(Kinds)
  BY DEF WireInv, TypeOK, CallInv
<1>2. /\ call' = [kind |-> call.kind, step |-> step, left |-> left]
      /\ UNCHANGED <<op, stmt, crossed>>
  BY <1>1 DEF Continue
<1>3. call'.kind = call.kind /\ call'.step = step /\ call' # NoCall
  BY <1>2 DEF NoCall
<1>4. toServer' \in Seq(ToServerType) /\ toClient' \in Seq(ToClientType)
  BY OneRequest
<1>5. TypeOK'
  <2>1. /\ call' \in [kind : Kinds \union {"none"}, step : {"none", "header", "reply"},
                      left : 0..NValues]
        /\ toServer' \in Seq([kind : Requests, whole : BOOLEAN, old : BOOLEAN])
        /\ toClient' \in Seq([kind : Replies, error : Errors, old : BOOLEAN])
    BY <1>1, <1>2, <1>4 DEF ToServerType, ToClientType
  <2> QED BY <1>2, <2>1 DEF WireInv, TypeOK
<1>6. TodoInv'
  BY <1>2 DEF WireInv, TodoInv
<1>7. CallInv'
  BY <1>1, <1>2, <1>3 DEF CallInv
<1>8. UpInv'
  <2> SUFFICES ASSUME link = "up"
               PROVE  Asked'
    BY <1>3 DEF UpInv
  <2>1. Asks(kind)'
    BY <1>3 DEF Asks
  <2> QED BY <2>1 DEF Asked
<1>9. DownInv'
  BY <1>3 DEF DownInv
<1> QED BY <1>2, <1>5, <1>6, <1>7, <1>8, <1>9 DEF WireInv, ErrorsAreOwn

\* A request inside a call, on an empty queue: one of any size can time out,
\* a small one cannot.
LEMMA NextRequest ==
    ASSUME NEW kind, NEW w,
           w \in Write(<<>>, kind, TRUE) \/ w \in Write(<<>>, kind, FALSE)
    PROVE  /\ w.error \in {NoError, WriteTimeout} \union WriteFaults
           /\ link # "up" => w.queue = <<>>
           /\ link = "up" =>
                \/ w.error = NoError /\ w.queue = <<Request(kind, TRUE)>>
                \/ w.error = WriteTimeout /\ w.queue = <<Request(kind, FALSE)>>
           /\ link = "up" /\ w \in Write(<<>>, kind, FALSE) =>
                w.error = NoError /\ w.queue = <<Request(kind, TRUE)>>
<1>1. \A whole \in BOOLEAN : Append(<<>>, Request(kind, whole)) = <<Request(kind, whole)>>
  BY OneMessage
<1>2. CASE link = "up"
  <2>1. CASE w = [error |-> NoError, queue |-> Append(<<>>, Request(kind, TRUE))]
    BY <1>1, <1>2, <2>1
  <2>2. CASE /\ w = [error |-> WriteTimeout, queue |-> Append(<<>>, Request(kind, FALSE))]
             /\ w \notin Write(<<>>, kind, FALSE)
    BY <1>1, <1>2, <2>2
  <2> QED BY <1>2, <2>1, <2>2 DEF Write
<1>3. CASE link # "up"
  <2>1. PICK e \in WriteFaults \union {NoError} : w = [error |-> e, queue |-> <<>>]
    BY <1>3 DEF Write
  <2> QED BY <1>3, <2>1
<1> QED BY <1>2, <1>3

\* The reply that a call reads fits its step, and leaves nothing in flight.
LEMMA ReplyFacts ==
    ASSUME WireInv, call # NoCall, toClient # <<>>
    PROVE  /\ toServer = <<>>
           /\ \E kind \in Replies, e \in Recorded, waits \in {"request", "ack", "value"} :
                 /\ toClient = <<Reply(kind, e)>> /\ Fits(kind, waits)
                 /\ link = "up" => server.waits = waits
<1>1. CASE link = "up"
  <2>1. Answered
    BY <1>1 DEF WireInv, UpInv, Asked, Stuck
  <2>2. server.waits \in {"request", "ack", "value"}
    BY DEF WireInv, TypeOK
  <2> QED BY <2>1, <2>2 DEF Answered, ReplyFor
<1>2. CASE link # "up"
  BY <1>2 DEF WireInv, DownInv, ReplyFor
<1> QED BY <1>1, <1>2

\* A call that sends another request on an empty queue: the acknowledgement
\* of a part, a value of a bind, or its end.
LEMMA SendNextStep ==
    ASSUME WireInv, call # NoCall, toServer = <<>>,
           NEW kind \in Requests, NEW outcomes,
           outcomes \in {Write(<<>>, kind, TRUE), Write(<<>>, kind, FALSE)},
           NEW step \in {"header", "reply"}, NEW left \in 0..NValues, NEW checked \in BOOLEAN,
           SendNext(outcomes, step, left, checked),
           UNCHANGED <<broken, reply, link, server>>, toClient' = <<>>,
           step = "header" => call.kind = "bind",
           checked => call.kind = "bind",
           outcomes = Write(<<>>, kind, FALSE) \/ checked,
           link = "up" => \/ step = "header" /\ kind = "chunk" /\ server.waits = "value"
                          \/ step = "reply" /\ kind = "ack" /\ server.waits = "ack"
                          \/ step = "reply" /\ kind = "finalize" /\ server.waits = "value"
    PROVE  WireInv'
<1>1. PICK w \in outcomes :
          /\ toServer' = w.queue
          /\ err' = IF w.error = NoError THEN err ELSE w.error
          /\ own' = (own \/ w.error # NoError)
          /\ checked /\ w.error # NoError => Return(call.kind, TRUE, TRUE)
          /\ ~(checked /\ w.error # NoError) => Continue(step, left)
  BY Zenon DEF SendNext
<1>2. /\ w.error \in {NoError, WriteTimeout} \union WriteFaults
      /\ link # "up" => w.queue = <<>>
      /\ link = "up" =>
           \/ w.error = NoError /\ w.queue = <<Request(kind, TRUE)>>
           \/ w.error = WriteTimeout /\ w.queue = <<Request(kind, FALSE)>>
      /\ link = "up" /\ w \in Write(<<>>, kind, FALSE) =>
           w.error = NoError /\ w.queue = <<Request(kind, TRUE)>>
  BY NextRequest
<1>3. own \in BOOLEAN /\ err \in Recorded
  BY DEF WireInv, TypeOK
<1>4. own' \in BOOLEAN /\ (own' <=> own \/ w.error # NoError)
  <2>1. own' = (own \/ w.error # NoError)
    BY <1>1
  <2> QED BY <2>1
<1>5. err' \in Recorded /\ (w.error # NoError => err' \in Faults /\ own')
  BY <1>1, <1>2, <1>3, <1>4 DEF Recorded, Faults
<1>6. call.kind = "metric" => err' = NoError \/ own'
  BY <1>1, <1>4, <1>5 DEF WireInv, CallInv
<1>7. CASE checked /\ w.error # NoError
  <2>1. Return(call.kind, TRUE, TRUE) /\ call.kind = "bind"
    BY <1>1, <1>7
  <2>2. Checked(call.kind) /\ Large(call.kind)
    BY <2>1 DEF Checked, Large
  <2>3. link # "up" => toServer' = <<>>
    BY <1>1, <1>2
  <2>4. \/ toServer' = <<>> /\ (link = "up" => server.waits = "request")
        \/ \E k \in Requests : toServer' = <<Request(k, FALSE)>>
    BY <1>1, <1>2, <1>7
  <2> QED BY <1>5, <1>6, <1>7, <2>1, <2>2, <2>3, <2>4, CallReturns
<1>8. CASE ~(checked /\ w.error # NoError)
  <2>1. Continue(step, left)
    BY <1>1, <1>8
  <2>2. link # "up" => toServer' = <<>>
    BY <1>1, <1>2
  <2>3. WriteTimeout # NoError
    BY FaultsLose
  <2>4. link = "up" => toServer' = <<Request(kind, TRUE)>>
    BY <1>1, <1>2, <1>8, <2>3
  <2> QED BY <1>4, <1>5, <1>6, <2>1, <2>2, <2>4, CallContinues
<1> QED BY <1>7, <1>8

\* csql_netread, csql_read_cursor and csql_bindexecute.
LEMMA ReadReplyStep ==
    ASSUME WireInv, ReadReply
    PROVE  WireInv'
<1>1. /\ call # NoCall /\ toClient # <<>>
      /\ UNCHANGED <<broken, reply, link, server>>
  BY DEF ReadReply
<1>2. toServer = <<>>
  BY <1>1, ReplyFacts
<1>3. PICK kind \in Replies, e \in Recorded, waits \in {"request", "ack", "value"} :
          /\ toClient = <<Reply(kind, e)>> /\ Fits(kind, waits)
          /\ link = "up" => server.waits = waits
  BY <1>1, ReplyFacts
<1>4. /\ Head(toClient) = Reply(kind, e) /\ Tail(toClient) = <<>>
      /\ Reply(kind, e).kind = kind /\ Reply(kind, e).error = e /\ Reply(kind, e).old = FALSE
  BY <1>3, OneMessage DEF Reply
<1>5. toClient' = <<>>
  BY <1>4 DEF ReadReply
<1>6. /\ call.left \in 0..NValues /\ own \in BOOLEAN /\ err \in Recorded
      /\ call.step = "header" => call.kind = "bind"
      /\ call.kind = "metric" => err = NoError \/ own
  BY <1>1 DEF WireInv, TypeOK, CallInv
<1>7. CASE kind = "error"
  <2>1. err' = e /\ own' = ~FALSE /\ Return(call.kind, TRUE, FALSE) /\ toServer' = toServer
    BY <1>4, <1>7 DEF ReadReply
  <2>2. waits = "request"
    BY <1>3, <1>7 DEF Fits
  <2> QED BY <1>1, <1>2, <1>3, <1>5, <2>1, <2>2, CallReturns
<1>8. CASE kind = "part"
  <2>1. SendNext(Write(<<>>, "ack", FALSE), "reply", call.left, FALSE)
    BY <1>2, <1>3, <1>4, <1>8 DEF ReadReply, AckPart, Fits
  <2>2. waits = "ack"
    BY <1>3, <1>8 DEF Fits
  <2>3. "ack" \in Requests
    BY DEF Requests
  <2> QED BY <1>1, <1>2, <1>3, <1>5, <1>6, <2>1, <2>2, <2>3, SendNextStep
<1>9. CASE kind \notin {"error", "part"} /\ call.step = "header"
  <2>1. waits = "value"
    BY <1>3, <1>9 DEF Fits
  <2>2. "chunk" \in Requests /\ "finalize" \in Requests
    BY DEF Requests
  <2>3. CASE call.left > 0
    <3>1. SendNext(Write(<<>>, "chunk", TRUE), "header", call.left - 1, TRUE)
      BY <1>2, <1>4, <1>9, <2>3 DEF ReadReply
    <3>2. call.left - 1 \in 0..NValues
      BY <1>6, <2>3, WireAssumption
    <3> QED BY <1>1, <1>2, <1>3, <1>5, <1>6, <1>9, <2>1, <2>2, <3>1, <3>2, SendNextStep
  <2>4. CASE ~(call.left > 0)
    <3>1. SendNext(Write(<<>>, "finalize", FALSE), "reply", 0, FALSE)
      BY <1>2, <1>4, <1>9, <2>4 DEF ReadReply
    <3>2. 0 \in 0..NValues
      BY WireAssumption
    <3> QED BY <1>1, <1>2, <1>3, <1>5, <1>6, <1>9, <2>1, <2>2, <3>1, <3>2, SendNextStep
  <2> QED BY <2>3, <2>4
<1>10. CASE kind \notin {"error", "part"} /\ call.step # "header"
  <2>1. UNCHANGED <<err, own, toServer>> /\ Return(call.kind, FALSE, FALSE)
    BY <1>4, <1>10 DEF ReadReply
  <2>2. waits = "request"
    BY <1>3, <1>10 DEF Fits
  <2> QED BY <1>1, <1>2, <1>3, <1>5, <1>6, <2>1, <2>2, CallReturns
<1> QED BY <1>7, <1>8, <1>9, <1>10

\* A read that fails because the link has.
LEMMA ReadFailsStep ==
    ASSUME WireInv, ReadFails
    PROVE  WireInv'
<1>1. /\ call # NoCall /\ toClient = <<>> /\ link = "down"
      /\ err' \in ReadFaults /\ own' = TRUE /\ Return(call.kind, TRUE, TRUE)
      /\ UNCHANGED <<broken, reply, link, toServer, toClient, server>>
  BY DEF ReadFails, wireVars
<1>2. toServer = <<>>
  BY <1>1 DEF WireInv, DownInv
<1>3. err' \in Recorded /\ err' \in Faults
  BY <1>1 DEF Recorded, Faults
<1> QED BY <1>1, <1>2, <1>3, CallReturns

\* cubesql_disconnect: the connection is gone, with what was in flight.
LEMMA DisconnectStep ==
    ASSUME WireInv, Disconnect
    PROVE  WireInv'
<1>1. /\ call.kind = "close" /\ link' = "closed" /\ toServer' = <<>> /\ toClient' = <<>>
      /\ server' = WaitsFor("request", 0) /\ err' = NoError /\ own' = FALSE
      /\ Return("close", FALSE, FALSE) /\ UNCHANGED <<broken, reply>>
  BY DEF Disconnect
<1>2. op.todo # <<>> /\ Head(op.todo) = "close"
  BY <1>1 DEF WireInv, CallInv, NoCall
<1>3. NoError \in Recorded
  BY DEF Recorded
<1>4. /\ op' \in [name : DOMAIN Operations \union {"none"}, todo : Seq(Kinds),
                  err : Errors, fault : BOOLEAN]
      /\ call' = NoCall /\ stmt' \in StmtStates
      /\ TodoInv' /\ crossed' = FALSE
  BY <1>1, <1>2, <1>3, ReturnStep DEF WireInv
<1>5. TypeOK'
  <2>1. /\ call' \in [kind : Kinds \union {"none"}, step : {"none", "header", "reply"},
                      left : 0..NValues]
        /\ toServer' \in Seq([kind : Requests, whole : BOOLEAN, old : BOOLEAN])
        /\ toClient' \in Seq([kind : Replies, error : Errors, old : BOOLEAN])
        /\ crossed' \in BOOLEAN
    BY <1>1, <1>4, NoCallType, OneRequest DEF ToServerType, ToClientType
  <2>2. server' \in [waits : {"request", "ack", "value"}, parts : 0..MaxParts]
    BY <1>1, WireAssumption DEF WaitsFor
  <2> QED BY <1>1, <1>3, <1>4, <2>1, <2>2 DEF WireInv, TypeOK
<1>6. CallInv' /\ UpInv' /\ DownInv' /\ ErrorsAreOwn'
  BY <1>1, <1>4 DEF CallInv, UpInv, DownInv, ErrorsAreOwn
<1> QED BY <1>1, <1>4, <1>5, <1>6 DEF WireInv

\* An operation that is ended between two calls, by the shim's length check
\* or by its context.
LEMMA EndedStep ==
    ASSUME WireInv, call = NoCall, op.todo # <<>>, Head(op.todo) \notin {"vmclose", "close"},
           NEW e \in Errors, op' = [op EXCEPT !.todo = Deferred, !.err = e],
           own' \in BOOLEAN, UNCHANGED <<call, err, stmt, broken, reply, crossed, wireVars>>
    PROVE  WireInv'
<1>1. UNCHANGED <<call, err, stmt, broken, reply, crossed, link, toServer, toClient, server>>
  BY DEF wireVars
<1>2. /\ op.name \in DOMAIN Operations \union {"none"} /\ op.fault \in BOOLEAN
      /\ op = [name |-> op.name, todo |-> op.todo, err |-> op.err, fault |-> op.fault]
  BY DEF WireInv, TypeOK
<1>3. ~op.fault
  BY OneMessage DEF WireInv, TodoInv
<1>4. /\ op' = [name |-> op.name, todo |-> Deferred, err |-> e, fault |-> op.fault]
      /\ op'.name = op.name /\ op'.todo = Deferred /\ ~op'.fault
  BY <1>2, <1>3
<1>5. link # "closed"
  BY DEF WireInv, TodoInv
<1>6. TypeOK'
  BY <1>1, <1>2, <1>4, DeferredFacts DEF WireInv, TypeOK
<1>7. TodoInv'
  <2>1. \A i \in DOMAIN op'.todo : op'.todo[i] = "vmclose"
    BY <1>4, DeferredFacts
  <2> QED BY <1>1, <1>4, <1>5, <2>1 DEF TodoInv
<1>8. CallInv' /\ ErrorsAreOwn'
  BY <1>1 DEF WireInv, CallInv, ErrorsAreOwn
<1>9. UpInv'
  BY <1>1, <1>3 DEF WireInv, UpInv, Silent, Stuck
<1>10. DownInv'
  BY <1>1 DEF WireInv, DownInv
<1> QED BY <1>1, <1>6, <1>7, <1>8, <1>9, <1>10 DEF WireInv

\* RefuseBind, Cancel and CancelMetrics.
LEMMA EarlyEndStep ==
    ASSUME WireInv, RefuseBind \/ Cancel \/ CancelMetrics
    PROVE  WireInv'
<1>1. CASE RefuseBind
  <2>1. NativeError(err, Invalid) \in Errors
    BY ErrorTypes DEF WireInv, TypeOK
  <2> QED BY <1>1, <2>1, EndedStep DEF RefuseBind
<1>2. CASE Cancel
  <2>1. Canceled \in Errors /\ own' \in BOOLEAN
    BY <1>2 DEF Errors, Cancel, WireInv, TypeOK
  <2>2. /\ call = NoCall /\ op.todo # <<>> /\ Head(op.todo) \notin {"vmclose", "close"}
        /\ op' = [op EXCEPT !.todo = Deferred, !.err = Canceled]
        /\ UNCHANGED <<call, err, stmt, broken, reply, crossed, wireVars>>
    BY <1>2 DEF Cancel
  <2> QED BY <2>1, <2>2, EndedStep
<1>3. CASE CancelMetrics
  <2>1. op.err \in Errors /\ own' \in BOOLEAN
    BY <1>3 DEF CancelMetrics, WireInv, TypeOK
  <2>2. op' = [op EXCEPT !.todo = Deferred, !.err = op.err]
    BY <1>3 DEF CancelMetrics, WireInv, TypeOK
  <2>3. /\ call = NoCall /\ op.todo # <<>> /\ Head(op.todo) \notin {"vmclose", "close"}
        /\ UNCHANGED <<call, err, stmt, broken, reply, crossed, wireVars>>
    BY <1>3 DEF CancelMetrics
  <2> QED BY <2>1, <2>2, <2>3, EndedStep
<1> QED BY <1>1, <1>2, <1>3

\* No operation, as a record.
LEMMA NoOpFacts ==
    /\ NoOp.name = "none" /\ NoOp.todo = <<>> /\ NoOp.fault = FALSE
    /\ NoOp \in [name : DOMAIN Operations \union {"none"}, todo : Seq(Kinds),
                 err : Errors, fault : BOOLEAN]
<1>1. NoError \in Errors /\ <<>> \in Seq(Kinds)
  BY DEF Errors, Recorded
<1> QED BY <1>1 DEF NoOp

\* observeLocked: an exchange that is stuck takes the connection out of use.
LEMMA FinishStep ==
    ASSUME WireInv, Finish
    PROVE  WireInv'
<1>1. /\ call = NoCall /\ op.todo = <<>> /\ op' = NoOp
      /\ reply' = [kind |-> PublicError(op.err), fault |-> op.fault]
      /\ broken' = (broken \/ LosesConnection(PublicError(op.err)))
      /\ UNCHANGED <<call, err, own, stmt, crossed, link, toServer, toClient, server>>
  BY DEF Finish, wireVars
<1>2. op.fault \in BOOLEAN /\ broken \in BOOLEAN
  BY DEF WireInv, TypeOK
<1>3. broken' \in BOOLEAN /\ (broken' <=> broken \/ LosesConnection(PublicError(op.err)))
  BY <1>1, <1>2 DEF LosesConnection
<1>4. op.fault => LosesConnection(PublicError(op.err))
  BY DEF WireInv, TodoInv
<1>5. reply' \in [kind : Classes, fault : BOOLEAN] /\ reply'.fault = op.fault
  BY <1>1, <1>2, PublicTypes
<1>6. TypeOK'
  BY <1>1, <1>3, <1>5, NoOpFacts DEF WireInv, TypeOK
<1>7. TodoInv'
  <2>1. DOMAIN op'.todo = {}
    BY <1>1, NoOpFacts, OneMessage
  <2> QED BY <1>1, <2>1, NoOpFacts DEF TodoInv
<1>8. CallInv' /\ ErrorsAreOwn'
  BY <1>1 DEF WireInv, CallInv, ErrorsAreOwn
<1>9. UpInv'
  <2> SUFFICES ASSUME link = "up"
               PROVE  (Silent \/ (Stuck /\ broken))'
    BY <1>1 DEF UpInv
  <2>1. Silent \/ (Stuck /\ (broken \/ op.fault))
    BY <1>1 DEF WireInv, UpInv
  <2> QED BY <1>1, <1>3, <1>4, <2>1 DEF Silent, Stuck
<1>10. DownInv'
  BY <1>1 DEF WireInv, DownInv
<1> QED BY <1>3, <1>4, <1>5, <1>6, <1>7, <1>8, <1>9, <1>10 DEF WireInv

\* What the table of operations says of their calls.
LEMMA OperationFacts ==
    ASSUME NEW name \in DOMAIN Operations
    PROVE  /\ name # "none" /\ Operations[name] \in Seq(Kinds)
           /\ \A i \in DOMAIN Operations[name] :
                 /\ Operations[name][i] = "close" => Len(Operations[name]) = 1
                 /\ name \in {"ExecPrepared", "QueryBind"} =>
                      /\ Operations[name][i] \notin {"execute", "select", "bind"}
                      /\ Operations[name][i] = "prepare" => i = 1
<1>1. CASE name \in {"Ping", "Changes", "Query", "RowsClose", "Prepare", "StmtBind",
                     "StmtQuery", "StmtClose", "Close"}
  <2>1. PICK kind \in Kinds : Operations[name] = <<kind>>
    BY <1>1 DEF Operations, Kinds
  <2>2. <<kind>> \in Seq(Kinds) /\ Len(<<kind>>) = 1
    OBVIOUS
  <2> QED BY <1>1, <2>1, <2>2
<1>2. CASE name \in {"Exec", "ExecBind", "StmtExec"}
  <2>1. PICK kind \in {"execute", "bind", "vmexecute"} :
            Operations[name] = <<kind, "metric", "metric">>
    BY <1>2 DEF Operations
  <2>2. <<kind, "metric", "metric">> \in Seq(Kinds)
    BY DEF Kinds
  <2>3. \A i \in DOMAIN <<kind, "metric", "metric">> : <<kind, "metric", "metric">>[i] # "close"
    OBVIOUS
  <2> QED BY <1>2, <2>1, <2>2, <2>3
<1>3. CASE name = "StmtReset"
  <2>1. Operations[name] = <<"vmclose", "prepare">>
    BY <1>3 DEF Operations
  <2>2. <<"vmclose", "prepare">> \in Seq(Kinds)
    BY DEF Kinds
  <2>3. \A i \in DOMAIN <<"vmclose", "prepare">> : <<"vmclose", "prepare">>[i] # "close"
    OBVIOUS
  <2> QED BY <1>3, <2>1, <2>2, <2>3
<1>4. CASE name = "QueryBind"
  <2> DEFINE calls == <<"prepare", "vmbind", "vmselect">>
  <2>1. Operations[name] = calls
    BY <1>4 DEF Operations
  <2>2. calls \in Seq(Kinds)
    BY DEF Kinds
  <2>3. \A i \in DOMAIN calls : /\ calls[i] \notin {"execute", "select", "bind", "close"}
                                /\ calls[i] = "prepare" => i = 1
    OBVIOUS
  <2> HIDE DEF calls
  <2> QED BY <1>4, <2>1, <2>2, <2>3
<1>5. CASE name = "ExecPrepared"
  <2> DEFINE calls == <<"prepare", "vmbind", "vmexecute", "metric", "metric", "vmclose">>
  <2>1. Operations[name] = calls
    BY <1>5 DEF Operations
  <2>2. calls \in Seq(Kinds)
    BY DEF Kinds
  <2>3. \A i \in DOMAIN calls : /\ calls[i] \notin {"execute", "select", "bind", "close"}
                                /\ calls[i] = "prepare" => i = 1
    OBVIOUS
  <2> HIDE DEF calls
  <2> QED BY <1>5, <2>1, <2>2, <2>3
<1>6. name \in {"Ping", "Changes", "Exec", "ExecBind", "ExecPrepared", "Query", "QueryBind",
                "RowsClose", "Prepare", "StmtBind", "StmtExec", "StmtQuery", "StmtReset",
                "StmtClose", "Close"}
  BY DEF Operations
<1> QED BY <1>1, <1>2, <1>3, <1>4, <1>5, <1>6

\* An operation of package cubesql begins when none is under way.
LEMMA BeginStep ==
    ASSUME WireInv, NEW name \in DOMAIN Operations, Begin(name)
    PROVE  WireInv'
<1>1. /\ link # "closed" /\ op = NoOp /\ Permitted(name)
      /\ op' = [NoOp EXCEPT !.name = name, !.todo = Operations[name]] /\ reply' = NoReply
      /\ UNCHANGED <<call, err, own, stmt, broken, crossed, link, toServer, toClient, server>>
  BY DEF Begin, wireVars
<1>2. op' = [name |-> name, todo |-> Operations[name], err |-> NoError, fault |-> FALSE]
  BY <1>1 DEF NoOp
<1>3. op'.name = name /\ op'.todo = Operations[name] /\ ~op'.fault
  BY <1>2
<1>4. op' \in [name : DOMAIN Operations \union {"none"}, todo : Seq(Kinds),
               err : Errors, fault : BOOLEAN]
  <2>1. Operations[name] \in Seq(Kinds) /\ NoError \in Errors
    BY OperationFacts DEF Errors, Recorded
  <2> QED BY <1>2, <2>1
<1>5. reply' \in [kind : Classes, fault : BOOLEAN] /\ ~reply'.fault
  BY <1>1 DEF NoReply, Classes
<1>6. TypeOK'
  BY <1>1, <1>4, <1>5 DEF WireInv, TypeOK
<1>7. TodoInv'
  <2>1. name \in {"ExecPrepared", "QueryBind"} => stmt = "none"
    BY <1>1 DEF Permitted
  <2> QED BY <1>1, <1>3, <2>1, OperationFacts DEF TodoInv
<1>8. call = NoCall
  BY <1>1, NoOpFacts DEF WireInv, CallInv
<1>9. CallInv' /\ ErrorsAreOwn'
  BY <1>1, <1>8 DEF WireInv, CallInv, ErrorsAreOwn
<1>10. UpInv'
  <2>1. ~op.fault
    BY <1>1, NoOpFacts
  <2> QED BY <1>1, <1>8, <2>1 DEF WireInv, UpInv, Silent, Stuck
<1>11. DownInv'
  BY <1>1, <1>8 DEF WireInv, DownInv
<1> QED BY <1>5, <1>6, <1>7, <1>9, <1>10, <1>11 DEF WireInv

\* csdk.Open.
LEMMA OpenStep ==
    ASSUME WireInv, Open
    PROVE  WireInv'
<1>1. PICK e \in {NoError, ReadTimeout} \union ReadFaults \union ServerErrors :
          /\ link' = IF e = NoError THEN "up" ELSE "closed"
          /\ reply' = [kind |-> PublicError(e), fault |-> FALSE]
  BY DEF Open
<1>2. /\ link = "closed" /\ op = NoOp /\ broken' = FALSE /\ err' = NoError /\ own' = FALSE
      /\ toServer' = <<>> /\ toClient' = <<>> /\ server' = WaitsFor("request", 0)
      /\ UNCHANGED <<op, call, stmt, crossed>>
  BY DEF Open
<1>3. call = NoCall /\ op.todo = <<>> /\ ~op.fault
  BY <1>2, NoOpFacts DEF WireInv, CallInv
<1>4. reply' \in [kind : Classes, fault : BOOLEAN] /\ ~reply'.fault
  BY <1>1, PublicTypes
<1>5. server' \in [waits : {"request", "ack", "value"}, parts : 0..MaxParts] /\ server'.waits = "request"
  BY <1>2, WireAssumption DEF WaitsFor
<1>6. TypeOK'
  <2>1. /\ toServer' \in Seq([kind : Requests, whole : BOOLEAN, old : BOOLEAN])
        /\ toClient' \in Seq([kind : Replies, error : Errors, old : BOOLEAN])
    BY <1>2, OneRequest DEF ToServerType, ToClientType
  <2>2. NoError \in Recorded
    BY DEF Recorded
  <2> QED BY <1>1, <1>2, <1>4, <1>5, <2>1, <2>2 DEF WireInv, TypeOK
<1>7. TodoInv'
  <2>1. DOMAIN op'.todo = {}
    BY <1>2, <1>3, OneMessage
  <2> QED BY <1>2, <1>3, <2>1 DEF TodoInv
<1>8. CallInv' /\ UpInv' /\ DownInv' /\ ErrorsAreOwn'
  BY <1>2, <1>3, <1>5 DEF WireInv, CallInv, UpInv, Silent, DownInv, ErrorsAreOwn
<1> QED BY <1>4, <1>6, <1>7, <1>8 DEF WireInv

(***************************************************************************)
(* The server and the network.                                             *)
(***************************************************************************)
\* The link goes down: what was on its way to the server is lost.
LEMMA LinkDownStep ==
    ASSUME WireInv, LinkDown
    PROVE  WireInv'
<1>1. /\ link = "up" /\ link' = "down" /\ toServer' = <<>> /\ toClient' \in {toClient, <<>>}
      /\ UNCHANGED <<op, call, err, own, stmt, broken, reply, crossed, server>>
  BY DEF LinkDown
<1>2. TypeOK'
  <2>1. /\ toServer' \in Seq([kind : Requests, whole : BOOLEAN, old : BOOLEAN])
        /\ toClient' \in Seq([kind : Replies, error : Errors, old : BOOLEAN])
    BY <1>1, OneRequest DEF ToServerType, ToClientType, WireInv, TypeOK
  <2> QED BY <1>1, <2>1 DEF WireInv, TypeOK
<1>3. TodoInv' /\ CallInv' /\ UpInv' /\ ErrorsAreOwn'
  BY <1>1 DEF WireInv, TodoInv, CallInv, UpInv, ErrorsAreOwn
<1>4. DownInv'
  <2>1. CASE toClient = <<>>
    BY <1>1, <2>1 DEF DownInv
  <2>2. CASE toClient # <<>>
    <3>1. call # NoCall
      BY <2>2, BetweenCalls
    <3>2. PICK kind \in Replies, e \in Recorded, waits \in {"request", "ack", "value"} :
              toClient = <<Reply(kind, e)>> /\ Fits(kind, waits)
      BY <2>2, <3>1, ReplyFacts
    <3>3. Fits(kind, waits)'
      BY <1>1, <3>2 DEF Fits
    <3>4. toClient' = <<>> \/ toClient' = <<Reply(kind, e)>>
      BY <1>1, <3>2
    <3>5. toClient' = <<>> \/ ReplyFor(waits)'
      BY <3>3, <3>4 DEF ReplyFor
    <3> QED BY <1>1, <3>1, <3>5 DEF DownInv
  <2> QED BY <2>1, <2>2
<1> QED BY <1>1, <1>2, <1>3, <1>4 DEF WireInv

\* What the server can answer to a request fits the step of the call.
LEMMA AnswersFit ==
    ASSUME TypeOK, NEW kind \in Requests, Asks(kind), NEW a \in Answers(kind)
    PROVE  \E k \in Replies, e \in Recorded, waits \in {"request", "ack", "value"},
              parts \in 0..MaxParts :
              /\ a = <<Reply(k, e), WaitsFor(waits, parts)>>
              /\ Fits(k, waits)
<1>1. 0 \in 0..MaxParts /\ NoError \in Recorded
  BY WireAssumption DEF Recorded
<1>2. /\ call.step = "header" <=> kind \in {"bind", "chunk"}
      /\ call.step \in {"header", "reply"}
  <2>1. call.kind \in Kinds \union {"none"}
    BY DEF TypeOK
  <2>2. call.kind # "chunk"
    BY <2>1 DEF Kinds
  <2> QED BY <2>2 DEF Asks
<1>3. CASE \E e \in ServerErrors : a = <<Reply("error", e), WaitsFor("request", 0)>>
  <2>1. PICK e \in ServerErrors : a = <<Reply("error", e), WaitsFor("request", 0)>>
    BY <1>3
  <2>2. e \in Recorded /\ Fits("error", "request") /\ "error" \in Replies
    BY DEF Recorded, Fits, Replies
  <2> QED BY <1>1, <2>1, <2>2
<1>4. CASE /\ ReadsCursor(kind) \/ kind = "ack"
           /\ \E k \in {"rows", "end"} : a = <<Reply(k, NoError), WaitsFor("request", 0)>>
  <2>1. PICK k \in {"rows", "end"} : a = <<Reply(k, NoError), WaitsFor("request", 0)>>
    BY <1>4
  <2>2. Fits(k, "request") /\ k \in Replies
    BY <1>2, <1>4 DEF Fits, Replies, ReadsCursor
  <2> QED BY <1>1, <2>1, <2>2
<1>5. CASE /\ ReadsCursor(kind) \/ kind = "ack"
           /\ \E n \in (0..MaxParts) \ {0} : a = <<Reply("part", NoError), WaitsFor("ack", n - 1)>>
  <2>1. PICK n \in (0..MaxParts) \ {0} : a = <<Reply("part", NoError), WaitsFor("ack", n - 1)>>
    BY <1>5
  <2>2. Fits("part", "ack") /\ "part" \in Replies /\ n - 1 \in 0..MaxParts
    BY <1>2, <1>5, WireAssumption DEF Fits, Replies, ReadsCursor
  <2> QED BY <1>1, <2>1, <2>2
<1>6. CASE kind \in {"bind", "chunk"} /\ a = <<Reply("ok", NoError), WaitsFor("value", 0)>>
  <2>1. Fits("ok", "value") /\ "ok" \in Replies
    BY <1>2, <1>6 DEF Fits, Replies
  <2> QED BY <1>1, <1>6, <2>1
<1>7. CASE kind \notin {"bind", "chunk"} /\ a = <<Reply("ok", NoError), WaitsFor("request", 0)>>
  <2>1. Fits("ok", "request") /\ "ok" \in Replies
    BY <1>2, <1>7 DEF Fits, Replies
  <2> QED BY <1>1, <1>7, <2>1
<1>8. server.parts \in 0..MaxParts /\ MaxParts \in 0..MaxParts
  BY WireAssumption DEF TypeOK
<1> QED BY <1>3, <1>4, <1>5, <1>6, <1>7, <1>8 DEF Answers, ReadsCursor

\* The answer to a request of the present call belongs to it.
LEMMA FreshReply ==
    ASSUME NEW kind \in Replies, NEW e \in Recorded
    PROVE  /\ Reply(kind, e) \in ToClientType
           /\ [Reply(kind, e) EXCEPT !.old = FALSE] = Reply(kind, e)
<1>1. Reply(kind, e) \in ToClientType /\ Reply(kind, e).old = FALSE
  BY DEF Reply, ToClientType, Errors
<1>2. PICK r \in ToClientType : r = Reply(kind, e) /\ r.old = FALSE
  BY <1>1
<1>3. [r EXCEPT !.old = r.old] = r
  BY DEF ToClientType
<1> QED BY <1>1, <1>2, <1>3

\* The server answers the request that is not stuck.
LEMMA ServeStep ==
    ASSUME WireInv, Serve
    PROVE  WireInv'
<1>1. /\ link = "up" /\ toServer # <<>> /\ Head(toServer).whole
      /\ toServer' = Tail(toServer)
      /\ UNCHANGED <<op, call, err, own, stmt, broken, reply, crossed, link>>
  BY DEF Serve
<1>2. call # NoCall /\ Asked
  BY <1>1 DEF WireInv, UpInv, Silent, Answered, Stuck
<1>3. PICK kind \in Requests : toServer = <<Request(kind, TRUE)>> /\ Asks(kind)
  BY <1>2 DEF Asked
<1>4. /\ Head(toServer) = Request(kind, TRUE) /\ Tail(toServer) = <<>> /\ toClient = <<>>
      /\ Request(kind, TRUE).kind = kind /\ Request(kind, TRUE).old = FALSE
  BY <1>2, <1>3, OneMessage DEF Asked, Request
<1>5. PICK a \in Answers(kind) :
          /\ toClient' = Append(<<>>, [a[1] EXCEPT !.old = FALSE])
          /\ server' = a[2]
  BY <1>4 DEF Serve
<1>6. PICK k \in Replies, e \in Recorded, waits \in {"request", "ack", "value"},
           parts \in 0..MaxParts :
           /\ a = <<Reply(k, e), WaitsFor(waits, parts)>>
           /\ Fits(k, waits)
  BY <1>3, AnswersFit DEF WireInv
<1>7. /\ toClient' = <<Reply(k, e)>> /\ toServer' = <<>>
      /\ server' = WaitsFor(waits, parts) /\ server'.waits = waits
  <2>1. a[1] = Reply(k, e) /\ a[2] = WaitsFor(waits, parts)
    BY <1>6
  <2>2. [Reply(k, e) EXCEPT !.old = FALSE] = Reply(k, e)
    BY <1>6, FreshReply
  <2>3. toClient' = <<Reply(k, e)>>
    BY <1>5, <2>1, <2>2, OneMessage
  <2> QED BY <1>1, <1>4, <1>5, <2>1, <2>3 DEF WaitsFor
<1>8. TypeOK'
  <2>1. PICK r \in ToClientType : r = Reply(k, e)
    BY FreshReply
  <2>2. <<r>> \in Seq(ToClientType)
    OBVIOUS
  <2>3. /\ toServer' \in Seq([kind : Requests, whole : BOOLEAN, old : BOOLEAN])
        /\ toClient' \in Seq([kind : Replies, error : Errors, old : BOOLEAN])
    BY <1>7, <2>1, <2>2, OneRequest DEF ToServerType, ToClientType
  <2>4. server' \in [waits : {"request", "ack", "value"}, parts : 0..MaxParts]
    BY <1>7 DEF WaitsFor
  <2> QED BY <1>1, <2>3, <2>4 DEF WireInv, TypeOK
<1>9. TodoInv' /\ CallInv' /\ DownInv' /\ ErrorsAreOwn'
  BY <1>1 DEF WireInv, TodoInv, CallInv, DownInv, ErrorsAreOwn
<1>10. UpInv'
  <2>1. Fits(k, waits)'
    BY <1>1, <1>6 DEF Fits
  <2>2. Answered'
    BY <1>7, <2>1 DEF Answered, ReplyFor
  <2> QED BY <1>1, <1>2, <2>2 DEF UpInv
<1> QED BY <1>1, <1>8, <1>9, <1>10 DEF WireInv

(***************************************************************************)
(* The inductive invariant.                                                *)
(***************************************************************************)
\* No call, no answer and no failure of the link leaves WireInv.
LEMMA WireStep == WireInv /\ [Next]_vars => WireInv'
<1> SUFFICES ASSUME WireInv, [Next]_vars
             PROVE  WireInv'
  OBVIOUS
<1>1. CASE Open
  BY <1>1, OpenStep
<1>2. ASSUME NEW name \in DOMAIN Operations, Begin(name) PROVE WireInv'
  BY <1>2, BeginStep
<1>3. CASE StartCall
  BY <1>3, StartCallStep
<1>4. CASE RefuseBind \/ Cancel \/ CancelMetrics
  BY <1>4, EarlyEndStep
<1>5. CASE ReadReply
  BY <1>5, ReadReplyStep
<1>6. CASE ReadFails
  BY <1>6, ReadFailsStep
<1>7. CASE Disconnect
  BY <1>7, DisconnectStep
<1>8. CASE Finish
  BY <1>8, FinishStep
<1>9. CASE Serve
  BY <1>9, ServeStep
<1>10. CASE LinkDown
  BY <1>10, LinkDownStep
<1>11. CASE UNCHANGED vars
  <2>1. UNCHANGED <<op, call, err, own, stmt, broken, reply, crossed, link, toServer, toClient, server>>
    BY <1>11 DEF vars, wireVars
  <2>2. TypeOK' /\ TodoInv' /\ CallInv' /\ ErrorsAreOwn'
    BY <2>1 DEF WireInv, TypeOK, TodoInv, CallInv, ErrorsAreOwn
  <2>3. UpInv' /\ DownInv'
    BY <2>1 DEF WireInv, UpInv, DownInv, Silent, Stuck, OwnHalf, Asked, Asks, Answered, ReplyFor, Fits
  <2> QED BY <2>1, <2>2, <2>3 DEF WireInv
<1> QED BY <1>1, <1>2, <1>3, <1>4, <1>5, <1>6, <1>7, <1>8, <1>9, <1>10, <1>11 DEF Next, Client

\* Before the first Open nothing is in flight.
LEMMA WireStart == Init => WireInv
<1> SUFFICES ASSUME Init
             PROVE  WireInv
  OBVIOUS
<1>1. NoError \in Recorded /\ reply \in [kind : Classes, fault : BOOLEAN] /\ ~reply.fault
  BY DEF Init, Recorded, NoReply, Classes
<1>2. /\ toServer \in Seq([kind : Requests, whole : BOOLEAN, old : BOOLEAN])
      /\ toClient \in Seq([kind : Replies, error : Errors, old : BOOLEAN])
  BY OneRequest DEF Init, ToServerType, ToClientType
<1>3. server \in [waits : {"request", "ack", "value"}, parts : 0..MaxParts]
  BY WireAssumption DEF Init, WaitsFor
<1>4. TypeOK
  BY <1>1, <1>2, <1>3, NoOpFacts, NoCallType DEF Init, TypeOK, StmtStates
<1>5. TodoInv
  <2>1. DOMAIN op.todo = {}
    BY NoOpFacts, OneMessage DEF Init
  <2> QED BY <2>1, NoOpFacts DEF Init, TodoInv
<1> QED BY <1>1, <1>4, <1>5 DEF Init, WireInv, CallInv, UpInv, DownInv, ErrorsAreOwn

(***************************************************************************)
(* Theorems.                                                               *)
(***************************************************************************)
\* Through failed links, half-written requests and dropped errors, a live
\* link carries one exchange at a time or is stuck.
THEOREM WireInvariant == Spec => []WireInv
<1> QED BY WireStart, WireStep, PTL DEF Spec

\* The variables keep their types: an operation returns only errors that
\* publicError has a class for.
THEOREM WireTypes == Spec => []TypeOK
<1>1. WireInv => TypeOK
  BY DEF WireInv
<1> QED BY <1>1, WireInvariant, PTL

\* No operation of a connection that the adapter uses takes an answer that
\* is not its own.
THEOREM ConnectionsStayInStep == Spec => []InStep
<1>1. WireInv => InStep
  <2> SUFFICES ASSUME WireInv, link = "up", ~broken
               PROVE  /\ \A i \in DOMAIN toServer : ~toServer[i].old
                      /\ \A i \in DOMAIN toClient : ~toClient[i].old
                      /\ op = NoOp =>
                           toServer = <<>> /\ toClient = <<>> /\ server.waits = "request"
    BY DEF InStep
  <2>1. /\ toServer = <<>> \/ \E kind \in Requests, whole \in BOOLEAN :
                                  toServer = <<Request(kind, whole)>>
        /\ toClient = <<>> \/ \E kind \in Replies, e \in Recorded : toClient = <<Reply(kind, e)>>
    BY DEF WireInv, UpInv, Silent, Asked, Answered, ReplyFor, Stuck, OwnHalf
  <2>2. \A i \in DOMAIN toServer : ~toServer[i].old
    BY <2>1, OneMessage DEF Request
  <2>3. \A i \in DOMAIN toClient : ~toClient[i].old
    BY <2>1, OneMessage DEF Reply
  <2>4. ASSUME op = NoOp
        PROVE  toServer = <<>> /\ toClient = <<>> /\ server.waits = "request"
    <3>1. call = NoCall /\ ~op.fault
      BY <2>4, NoOpFacts DEF WireInv, CallInv
    <3> QED BY <3>1 DEF WireInv, UpInv, Silent
  <2> QED BY <2>2, <2>3, <2>4
<1> QED BY <1>1, WireInvariant, PTL

\* A call that fails in the SDK reports an error recorded during that call,
\* although binds and the closing of statements clear none.
THEOREM SDKErrorsAreOwn == Spec => []ErrorsAreOwn
<1>1. WireInv => ErrorsAreOwn
  BY DEF WireInv
<1> QED BY <1>1, WireInvariant, PTL

\* An operation that a socket failure has ended takes the connection out of
\* use.
THEOREM SocketFailuresAreSeen == Spec => []LostLinkIsSeen
<1>1. WireInv => LostLinkIsSeen
  BY DEF WireInv, LostLinkIsSeen
<1> QED BY <1>1, WireInvariant, PTL
=============================================================================
