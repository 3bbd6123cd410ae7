------------------------------- MODULE Adapter -------------------------------
(***************************************************************************)
(* Package database/cubesql: the driver.Conn and driver.Tx that adapt one  *)
(* cubesql.Conn to database/sql, with the pool that lends the connection   *)
(* to borrowers and the server session below it.                           *)
(*                                                                         *)
(* database/sql holds driverConn's mutex for the whole of every driver     *)
(* call, so a driver call is one action.  A call makes several native      *)
(* exchanges; each can succeed, be rejected by the server, find its        *)
(* context cancelled, or lose the link before or after the server has      *)
(* acted, and the link can also go down between calls.                     *)
(***************************************************************************)
EXTENDS Integers, FiniteSets

CONSTANT Work \* statements with a side effect, each submitted once

VARIABLES
    srv,      \* the server: see SrvType
    coreOpen, \* the native connection below core.Conn exists
    coreTx,   \* core.Conn.txActive, equivalently a core.Tx that is not done
    children, \* core.Conn.children: an open core.Rows or none
    activeTx, \* connection.activeTx # nil
    closed,   \* connection.closed (and connection.native = nil)
    broken,   \* connection.broken
    mode,     \* who has the connection, see Modes
    txWork,   \* statements executed in the current sql.Tx
    mine,     \* statements the current borrower has had executed
    status,   \* what the application was told about each statement
    reply,    \* what the last driver call returned; "canceledBadConn" is a
              \* driver.ErrBadConn whose cause is a cancelled context
    leaked    \* a connection the pool has closed still exists natively

coreVars == <<coreOpen, coreTx, children>>
connVars == <<activeTx, closed, broken>>
vars == <<srv, coreVars, connVars, mode, txWork, mine, status, reply, leaked>>

SrvType == [link : BOOLEAN, pending : SUBSET Work, tx : BOOLEAN,
            db : {"configured", "other", "none"}, commits : [Work -> Nat]]

\* "none": no connection.  "pooled": idle in the pool.  "lent": reset and
\* handed to a borrower, which then holds it as a sql.Tx, a sql.Conn, a
\* sql.Tx of that sql.Conn, or sql.Rows.  "returned": the borrower is done
\* with it.
Modes == {"none", "pooled", "lent", "tx", "conn", "connTx", "rows", "returned"}
InTx == mode \in {"tx", "connTx"}

\* "submitted": not answered yet, so database/sql may still retry it.
Statuses == {"submitted", "inTx", "ok", "failed", "rolledBack"}

(***************************************************************************)
(* The server session and the exchanges of the native layer.               *)
(***************************************************************************)
FreshSession(s) ==
    [s EXCEPT !.link = TRUE, !.pending = {}, !.tx = FALSE, !.db = "configured"]

\* The server rolls a session back when its connection is gone.
Dropped(s) == [s EXCEPT !.link = FALSE, !.pending = {}, !.tx = FALSE]

Outcome(result, s) == [res |-> result, srv |-> s]

\* One request and its reply, done being the server after it has acted.
Exchange(s, done) ==
    IF s.link
    THEN {Outcome("ok", done), Outcome("server", s),
          Outcome("network", Dropped(s)), Outcome("network", Dropped(done))}
    ELSE {Outcome("network", s)}

\* The same under a caller's context, looked at before the request.
UnderContext(s, outcomes) == outcomes \union {Outcome("canceled", s)}

\* A request that needs a database: without one the server answers 7030, as
\* the adapter expects of Rollback in ResetSession.
InDatabase(s, done) ==
    IF s.link /\ s.db = "none" THEN {Outcome("noDatabase", s)}
    ELSE Exchange(s, done)

Execute(s, w) == InDatabase(s, [s EXCEPT !.pending = @ \union {w}])

Commit(s) ==
    InDatabase(s, [s EXCEPT
        !.commits = [w \in Work |-> IF w \in s.pending THEN @[w] + 1 ELSE @[w]],
        !.pending = {}, !.tx = FALSE])

Rollback(s) == InDatabase(s, [s EXCEPT !.pending = {}, !.tx = FALSE])

BeginTransaction(s) == InDatabase(s, [s EXCEPT !.tx = TRUE])

\* Leaving the database without selecting another one drops pending work.
UseDatabase(s, name) ==
    Exchange(s, [s EXCEPT !.db = name,
                          !.pending = IF name = "none" THEN {} ELSE @])

Init ==
    /\ srv = [link |-> FALSE, pending |-> {}, tx |-> FALSE, db |-> "none",
              commits |-> [w \in Work |-> 0]]
    /\ coreOpen = FALSE /\ coreTx = FALSE /\ children = 0
    /\ activeTx = FALSE /\ closed = TRUE /\ broken = FALSE
    /\ mode = "none" /\ txWork = {} /\ mine = {}
    /\ status = [w \in Work |-> "submitted"]
    /\ reply = "none" /\ leaked = FALSE

(***************************************************************************)
(* conn.                                                                   *)
(***************************************************************************)
\* usableLocked, which is also IsValid.
Usable == ~closed /\ ~broken

\* observeLocked: closed, network, protocol and timeout errors.
Observed(result) == broken' = (broken \/ result = "network")

\* safeRetryErrorLocked.
SafeRetry(result) ==
    reply' = CASE result = "ok"    -> "ok"
               [] broken' -> "badConn"
               [] OTHER   -> "error"

\* Connector.Connect.  The session of a leaked connection is another one and
\* is not followed any further.
Connect ==
    /\ mode = "none"
    /\ srv' = FreshSession(srv)
    /\ coreOpen' = TRUE /\ coreTx' = FALSE /\ children' = 0
    /\ activeTx' = FALSE /\ closed' = FALSE /\ broken' = FALSE
    /\ mode' = "lent" /\ mine' = {} /\ reply' = "ok"
    /\ UNCHANGED <<txWork, status, leaked>>

\* Fault: a broken connection asks for a retry after the statement was sent.
ExecFailsRetry(w, answer) ==
    /\ reply' = IF broken' THEN "badConn" ELSE answer
    /\ status' = IF broken' /\ mode = "lent" THEN status
                 ELSE [status EXCEPT ![w] = "failed"]
    /\ UNCHANGED txWork

\* An error leaves ExecContext as it is.  database/sql retries DB.Exec, and
\* only DB.Exec, on driver.ErrBadConn.
ExecFails(w, answer) ==
    /\ reply' = answer
    /\ status' = IF answer = "badConn" /\ mode = "lent" THEN status
                 ELSE [status EXCEPT ![w] = "failed"]
    /\ UNCHANGED txWork

\* ExecContext.  Outside a Tx every successful execution is committed at
\* once, under the background context.
ExecContext(w) ==
    IF ~Usable
    THEN UNCHANGED <<srv, broken>> /\ ExecFails(w, "badConn")
    ELSE IF children # 0
    THEN UNCHANGED <<srv, broken>> /\ ExecFails(w, "error")
    ELSE \E a \in UnderContext(srv, Execute(srv, w)) :
           IF a.res # "ok"
           THEN srv' = a.srv /\ Observed(a.res) /\ ExecFails(w, "error")
           ELSE IF activeTx
           THEN /\ srv' = a.srv /\ reply' = "ok"
                /\ status' = [status EXCEPT ![w] = "inTx"]
                /\ txWork' = txWork \union {w}
                /\ UNCHANGED broken
           ELSE \E b \in Commit(a.srv) :
                  /\ srv' = b.srv /\ Observed(b.res)
                  /\ IF b.res = "ok"
                     THEN /\ reply' = "ok"
                          /\ status' = [status EXCEPT ![w] = "ok"]
                          /\ UNCHANGED txWork
                     ELSE ExecFails(w, "error")

\* DB.Exec returns the connection; Tx.Exec and Conn.Exec keep it.
Exec(w) ==
    /\ mode \in {"lent", "tx", "conn", "connTx"} /\ status[w] = "submitted"
    /\ ExecContext(w)
    /\ mine' = mine \union {w}
    /\ mode' = IF mode = "lent" THEN "returned" ELSE mode
    /\ UNCHANGED <<coreVars, activeTx, closed, leaked>>

\* The same call with a statement that selects another database.
SwitchDatabase(name) ==
    /\ mode \in {"lent", "conn"} /\ Usable /\ children = 0
    /\ \E a \in UnderContext(srv, UseDatabase(srv, name)) :
          IF a.res # "ok"
          THEN srv' = a.srv /\ Observed(a.res) /\ reply' = "error"
          ELSE \E b \in Commit(a.srv) :
                  /\ srv' = b.srv /\ Observed(b.res)
                  /\ reply' = IF b.res = "ok" THEN "ok" ELSE "error"
    /\ mode' = IF mode = "lent" THEN "returned" ELSE mode
    /\ UNCHANGED <<coreVars, activeTx, closed, txWork, mine, status, leaked>>

\* Ping, and PrepareContext, which prepares a statement and closes it again.
\* Neither has a side effect, so a broken connection may ask for a retry.
Probe ==
    IF ~Usable
    THEN reply' = "badConn" /\ UNCHANGED <<srv, broken>>
    ELSE \E a \in UnderContext(srv, Exchange(srv, srv)) :
           srv' = a.srv /\ Observed(a.res) /\ SafeRetry(a.res)

Ping ==
    /\ mode \in {"lent", "conn"}
    /\ Probe
    /\ mode' = IF mode = "lent" THEN "returned" ELSE mode
    /\ UNCHANGED <<coreVars, activeTx, closed, txWork, mine, status, leaked>>

PrepareContext ==
    /\ mode \in {"lent", "conn", "tx", "connTx"} /\ children = 0
    /\ Probe
    /\ mode' = IF mode = "lent" THEN "returned" ELSE mode
    /\ UNCHANGED <<coreVars, activeTx, closed, txWork, mine, status, leaked>>

\* sql.Stmt.Exec on a connection where the statement is not prepared yet:
\* PrepareContext, whose driver.ErrBadConn database/sql retries, and then
\* stmt.ExecContext, which is ExecContext.
StmtExec(w) ==
    /\ mode \in {"lent", "tx", "conn", "connTx"} /\ status[w] = "submitted"
    /\ children = 0
    /\ \/ /\ Probe /\ reply' # "ok"
          /\ status' = IF reply' = "badConn" /\ mode = "lent" THEN status
                       ELSE [status EXCEPT ![w] = "failed"]
          /\ UNCHANGED <<txWork, mine>>
       \/ /\ Usable /\ srv.link
          /\ ExecContext(w)
          /\ mine' = mine \union {w}
    /\ mode' = IF mode = "lent" THEN "returned" ELSE mode
    /\ UNCHANGED <<coreVars, activeTx, closed, leaked>>

\* QueryContext.  No commit follows; the connection is kept until the rows
\* are closed.
QueryContext ==
    /\ mode \in {"lent", "conn", "tx", "connTx"} /\ children = 0
    /\ IF ~Usable
       THEN reply' = "badConn" /\ UNCHANGED <<srv, broken, children>>
       ELSE \E a \in UnderContext(srv, Exchange(srv, srv)) :
              /\ srv' = a.srv /\ Observed(a.res)
              /\ reply' = IF a.res = "ok" THEN "ok" ELSE "error"
              /\ children' = IF a.res = "ok" THEN 1 ELSE 0
    /\ mode' = IF mode # "lent" THEN mode
               ELSE IF children' = 1 THEN "rows" ELSE "returned"
    /\ UNCHANGED <<coreOpen, coreTx, activeTx, closed, txWork, mine, status, leaked>>

\* Fault: a second Close counts again.
RowsCloseTwice ==
    /\ children' = children - 1
    /\ mode' = IF mode = "rows" THEN "returned" ELSE mode
    /\ reply' = "ok"
    /\ UNCHANGED <<srv, coreOpen, coreTx, connVars, txWork, mine, status, leaked>>

\* rows.Close frees a cursor that was read completely; the result of closing
\* the hidden statement below it is dropped.
RowsClose ==
    /\ children = 1
    /\ children' = 0
    /\ mode' = IF mode = "rows" THEN "returned" ELSE mode
    /\ reply' = "ok"
    /\ UNCHANGED <<srv, coreOpen, coreTx, connVars, txWork, mine, status, leaked>>

\* DB.BeginTx, and Conn.BeginTx of a held connection, where work that an
\* earlier autocommit could not commit may still be pending.
BeginTx ==
    /\ mode \in {"lent", "conn"}
    /\ IF ~Usable
       THEN reply' = "badConn" /\ UNCHANGED <<srv, broken, activeTx, coreTx>>
       ELSE IF activeTx \/ coreTx \/ children # 0
       THEN reply' = "error" /\ UNCHANGED <<srv, broken, activeTx, coreTx>>
       ELSE \E a \in UnderContext(srv, BeginTransaction(srv)) :
              /\ srv' = a.srv /\ Observed(a.res)
              /\ activeTx' = (a.res = "ok")
              /\ coreTx' = (a.res = "ok")
              /\ reply' = IF a.res = "ok" THEN "ok" ELSE "error"
    /\ mode' = IF mode = "conn" THEN (IF reply' = "ok" THEN "connTx" ELSE "conn")
               ELSE IF reply' = "ok" THEN "tx" ELSE "returned"
    /\ txWork' = {}
    /\ UNCHANGED <<coreOpen, children, closed, mine, status, leaked>>

\* core Tx.Commit and Tx.Rollback: refused when the core transaction is over
\* or rows are open, otherwise one exchange.
CoreFinish(outcomes) ==
    IF ~coreOpen \/ ~coreTx \/ children # 0
    THEN {Outcome("refused", srv)}
    ELSE outcomes

\* The sql.Tx is over.
EndTx(verdict) ==
    /\ status' = [w \in Work |-> IF w \in txWork THEN verdict ELSE status[w]]
    /\ txWork' = {}
    /\ mode' = IF mode = "connTx" THEN "conn" ELSE "returned"

\* Fault: activeTx is cleared although the core transaction goes on.
FinishTransactionAlways(isBroken, clear) ==
    activeTx' = FALSE /\ broken' = (broken \/ isBroken)

FinishTransaction(isBroken, clear) ==
    activeTx' = (activeTx /\ ~clear) /\ broken' = (broken \/ isBroken)

\* Fault: the error of the commit is dropped.
CommitFailedSilently(a) ==
    \E b \in CoreFinish(Rollback(a.srv)) :
        /\ srv' = b.srv
        /\ coreTx' = (coreTx /\ b.res # "ok")
        /\ FinishTransaction(TRUE, b.res = "ok")
        /\ reply' = "ok" /\ EndTx("ok")

\* A failed commit is rolled back and the connection is not used again;
\* activeTx is cleared only if that rollback succeeded.
CommitFailed(a) ==
    \E b \in CoreFinish(Rollback(a.srv)) :
        /\ srv' = b.srv
        /\ coreTx' = (coreTx /\ b.res # "ok")
        /\ FinishTransaction(TRUE, b.res = "ok")
        /\ reply' = "error" /\ EndTx("failed")

\* transaction.Commit.
TxCommit ==
    /\ InTx /\ children = 0
    /\ \E a \in CoreFinish(Commit(srv)) :
          IF a.res = "ok"
          THEN /\ srv' = a.srv /\ coreTx' = FALSE
               /\ FinishTransaction(FALSE, TRUE)
               /\ reply' = "ok" /\ EndTx("ok")
          ELSE CommitFailed(a)
    /\ UNCHANGED <<coreOpen, children, closed, mine, leaked>>

\* transaction.Rollback.
TxRollback ==
    /\ InTx /\ children = 0
    /\ \E a \in CoreFinish(Rollback(srv)) :
          /\ srv' = a.srv
          /\ coreTx' = (coreTx /\ a.res # "ok")
          /\ FinishTransaction(a.res # "ok", a.res = "ok")
          /\ reply' = IF a.res = "ok" THEN "ok" ELSE "error"
          /\ EndTx(IF a.res = "ok" THEN "rolledBack" ELSE "failed")
    /\ UNCHANGED <<coreOpen, children, closed, mine, leaked>>

\* Close: rolls an active transaction back, then closes the core
\* connection, which refuses while its transaction is active.
ConnClose ==
    /\ \E a \in IF activeTx THEN CoreFinish(Rollback(srv))
                ELSE {Outcome("ok", srv)} :
          /\ coreTx' = (coreTx /\ a.res # "ok")
          /\ IF coreTx' \/ children # 0
             THEN srv' = a.srv /\ UNCHANGED <<coreOpen, closed>>
             ELSE srv' = Dropped(a.srv) /\ coreOpen' = FALSE /\ closed' = TRUE
    /\ activeTx' = FALSE
    /\ leaked' = (leaked \/ coreOpen')
    /\ mode' = "none"

\* ResetSession, under the context of the next borrower: roll an active
\* transaction back, roll implicit work back, select the configured
\* database.  Any failure breaks the connection.
ResetDone(o, dropTx) ==
    /\ srv' = o.srv
    /\ activeTx' = (activeTx /\ ~dropTx) /\ coreTx' = (coreTx /\ ~dropTx)
    /\ broken' = (o.res # "ok")
    /\ reply' = IF o.res = "ok" THEN "ok"
                ELSE IF o.res = "canceled" THEN "canceledBadConn" ELSE "badConn"
    /\ mode' = IF o.res = "ok" THEN "lent" ELSE "returned"

\* Fault: every server error of the implicit rollback is ignored.
IgnorableAlways(result) == result \in {"ok", "noDatabase", "server"}

\* isNoDatabaseSelected.
Ignorable(result) == result \in {"ok", "noDatabase"}

ResetSession ==
    /\ mode = "pooled"
    /\ IF ~Usable
       THEN /\ reply' = "badConn" /\ mode' = "returned"
            /\ UNCHANGED <<srv, activeTx, coreTx, broken>>
       ELSE \E a \in IF activeTx THEN UnderContext(srv, CoreFinish(Rollback(srv)))
                     ELSE {Outcome("ok", srv)} :
              IF a.res # "ok" THEN ResetDone(a, FALSE)
              ELSE \E b \in UnderContext(a.srv, Rollback(a.srv)) :
                IF ~Ignorable(b.res) THEN ResetDone(b, activeTx)
                ELSE \E c \in UnderContext(b.srv, UseDatabase(b.srv, "configured")) :
                       ResetDone(c, activeTx)
    /\ mine' = IF mode' = "lent" THEN {} ELSE mine
    /\ UNCHANGED <<coreOpen, children, closed, txWork, status, leaked>>

(***************************************************************************)
(* database/sql and the environment.                                       *)
(***************************************************************************)
\* A borrower keeps the connection as a sql.Conn, and gives it back.
Hold ==
    /\ mode = "lent"
    /\ mode' = "conn"
    /\ UNCHANGED <<srv, coreVars, connVars, txWork, mine, status, reply, leaked>>

GiveBack ==
    /\ mode = "conn" /\ children = 0
    /\ mode' = "returned"
    /\ UNCHANGED <<srv, coreVars, connVars, txWork, mine, status, reply, leaked>>

\* putConn: a valid connection goes to the pool, any other is closed.
PutConn ==
    /\ mode = "returned" /\ Usable
    /\ mode' = "pooled"
    /\ UNCHANGED <<srv, coreVars, connVars, txWork, mine, status, reply, leaked>>

\* The pool closes a connection that is not valid, or that is idle for too
\* long.
PoolClose ==
    /\ mode = "pooled" \/ (mode = "returned" /\ ~Usable)
    /\ ConnClose
    /\ UNCHANGED <<children, broken, txWork, mine, status, reply>>

\* The link goes down between two calls.
LinkDown ==
    /\ srv.link
    /\ srv' = Dropped(srv)
    /\ UNCHANGED <<coreVars, connVars, mode, txWork, mine, status, reply, leaked>>

Next ==
    \/ Connect \/ ResetSession \/ PutConn \/ PoolClose \/ Hold \/ GiveBack
    \/ \E w \in Work : Exec(w) \/ StmtExec(w)
    \/ \E name \in {"other", "none"} : SwitchDatabase(name)
    \/ Ping \/ PrepareContext \/ QueryContext \/ RowsClose
    \/ BeginTx \/ TxCommit \/ TxRollback
    \/ LinkDown

Spec == Init /\ [][Next]_vars

(***************************************************************************)
(* Properties.                                                             *)
(***************************************************************************)
Replies == {"none", "ok", "error", "badConn", "canceledBadConn"}

\* Every variable has its type.
TypeOK ==
    /\ srv \in SrvType
    /\ coreOpen \in BOOLEAN /\ coreTx \in BOOLEAN /\ children \in {0, 1}
    /\ activeTx \in BOOLEAN /\ closed \in BOOLEAN /\ broken \in BOOLEAN
    /\ mode \in Modes /\ txWork \subseteq Work /\ mine \subseteq Work
    /\ status \in [Work -> Statuses]
    /\ reply \in Replies /\ leaked \in BOOLEAN

\* However often database/sql retries after driver.ErrBadConn, no statement
\* is committed twice: ErrBadConn is never returned once an execution may
\* have had its effect.
AtMostOnce == \A w \in Work : srv.commits[w] <= 1

\* A statement reported successful, by Exec outside a Tx or by Tx.Commit, is
\* committed; one that Tx.Rollback reported rolled back never is.
AnswersAreTrue ==
    \A w \in Work : /\ status[w] = "ok" => srv.commits[w] = 1
                    /\ status[w] = "rolledBack" => srv.commits[w] = 0

\* A borrower finds no work, transaction, rows or database selection of an
\* earlier one.
CleanBorrow ==
    mode = "lent" =>
        /\ srv.pending = {} /\ ~srv.tx /\ srv.db = "configured"
        /\ ~activeTx /\ ~coreTx /\ children = 0

\* The adapter and the core agree about a transaction for as long as the
\* pool has the connection, so that Exec commits exactly when no sql.Tx is
\* open, and no statement of an open sql.Tx is committed before Tx.Commit.
TxAgreement ==
    /\ mode # "none" => (activeTx <=> coreTx)
    /\ InTx => coreTx
    /\ \A w \in txWork : srv.commits[w] = 0

\* Work that the server did not commit when it was asked to stays with the
\* borrower that issued it: nothing is ever made durable by the commit of
\* somebody who borrows the connection later.
OnlyOwnWorkCommitted ==
    [][\A w \in Work : srv'.commits[w] > srv.commits[w] => w \in mine']_vars

\* The adapter and the pool implement what applications rely on.
Abstract == INSTANCE Outcomes WITH applied <- srv.commits

\* Every behaviour of the adapter is one that Outcomes allows.
ImplementsOutcomes == Abstract!Spec

(***************************************************************************)
(* The inductive invariant.                                                *)
(***************************************************************************)
\* Who has the connection: it exists natively for as long as the pool knows
\* it, only a good one is idle or handed out, and only its holder has rows.
Held ==
    /\ mode # "none" => coreOpen /\ ~closed
    /\ mode \in {"pooled", "lent"} => ~broken
    /\ children = 1 => mode \in {"conn", "tx", "connTx", "rows"}

\* The adapter, the core and the server agree about the transaction, and one
\* that outlives its sql.Tx has broken the connection.
TxKnown ==
    /\ mode # "none" => (activeTx <=> coreTx) /\ (srv.tx => activeTx)
    /\ InTx => activeTx
    /\ mode # "none" /\ activeTx /\ ~InTx => broken

\* What the server has not committed was executed by the present borrower, in
\* a session that still exists and has a database.
PendingIsMine ==
    /\ srv.db = "none" => srv.pending = {}
    /\ ~srv.link => srv.pending = {} /\ ~srv.tx
    /\ srv.pending \subseteq mine

\* What the server has done with each statement, against its answer.
WorkAccounted ==
    /\ txWork # {} => InTx
    /\ srv.link => txWork \subseteq srv.pending
    /\ \A w \in Work :
          /\ status[w] = "inTx" <=> w \in txWork
          /\ w \in srv.pending => srv.commits[w] = 0 /\ status[w] \in {"inTx", "failed"}
          /\ srv.commits[w] <= 1
          /\ srv.commits[w] = 1 => status[w] \in {"ok", "failed"}
          /\ status[w] = "ok" => srv.commits[w] = 1

\* The conjunction that every step of every call preserves.
AdapterInv ==
    TypeOK /\ Held /\ TxKnown /\ PendingIsMine /\ CleanBorrow /\ WorkAccounted

\* A connection the pool has closed no longer exists natively.
CloseReleases == ~leaked

\* A cancelled context is not reported as driver.ErrBadConn.
CancelIsNotBadConn == reply # "canceledBadConn"
=============================================================================
