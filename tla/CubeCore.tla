------------------------------ MODULE CubeCore ------------------------------
(***************************************************************************)
(* The handle lifecycle of package cubesql (Conn, Stmt, Rows, Tx) over the *)
(* native layer internal/csdk, for one physical connection shared by       *)
(* goroutines that call its methods in any order.                          *)
(*                                                                         *)
(* An action is what one goroutine does between two points where another   *)
(* goroutine can be observed: the acquisition of a Go mutex together with  *)
(* the checks it protects, and one call into csdk, which is atomic because *)
(* every csdk method holds csdk.Conn.mu for its whole C call.  A call that *)
(* returns early and changes nothing is not a step.  A cancelled context   *)
(* and a native error are nondeterministic outcomes of the step that meets *)
(* them.                                                                   *)
(*                                                                         *)
(* Handles are drawn from finite sets and a handle that is closed and no   *)
(* longer referenced may be drawn again, so that behaviours of any length  *)
(* fit in a finite state space.                                            *)
(***************************************************************************)
EXTENDS Integers

CONSTANTS
    Goroutines, \* callers of the package
    Stmts,      \* identities of *Stmt
    Rows,       \* identities of *Rows and of the csdk cursors they own
    Txs,        \* identities of *Tx
    Databases,  \* names given to SetDatabase
    Nil         \* nil pointer, free mutex, no database

ASSUME HandlesAssumption ==
    /\ Nil \notin Goroutines \union Stmts \union Rows \union Txs \union Databases
    /\ Goroutines \intersect Stmts = {}
    /\ Rows \intersect (Goroutines \union Stmts) = {}

VARIABLES
    \* Conn
    open,         \* conn.native # nil and the csdk pointer below it # nil
    txActive,     \* conn.txActive
    children,     \* conn.children
    \* csdk.Conn and the native objects
    csdkChildren, \* csdk.Conn.children
    vms,          \* owners of a live csdk.Stmt: a *Stmt, or a goroutine's
                  \* temporary one in ExecContext
    cursors,      \* live csdk.Rows
    \* the server's view of the session
    serverVM,     \* whose statement the session's single VM holds
    serverTx,     \* whose BEGIN is open
    database,     \* selected database
    lastExec,     \* goroutine whose statement the session executed last
    \* Stmt, Rows and Tx objects
    registered,   \* {s : s.registered}
    hidden,       \* statements QueryContext prepared for itself
    stmtRows,     \* s.rows
    linked,       \* {r : r.parentConn # nil}, the Rows the caller can see
    rowStmt,      \* r.parentStmt
    rowClose,     \* {r : r.closeStmt}
    txLive,       \* {t : ~t.done}
    \* mutexes: the holder, or Nil
    connMu, stmtMu, rowsMu,
    \* the goroutines' frames
    pc,           \* where the goroutine is
    stmtOf,       \* the *Stmt it works on
    rowOf,        \* the *Rows it works on
    txOf,         \* the *Tx whose mutex it holds
    closeWith     \* goroutines whose closeWithRows / closeStmt is true

connVars   == <<open, txActive, children>>
csdkVars   == <<csdkChildren, vms, cursors, serverVM>>
serverVars == <<serverTx, database, lastExec>>
stmtVars   == <<registered, hidden, stmtRows>>
rowVars    == <<linked, rowStmt, rowClose>>
lockVars   == <<connMu, stmtMu, rowsMu>>
frameVars  == <<pc, stmtOf, rowOf, txOf, closeWith>>
vars == <<connVars, csdkVars, serverVars, stmtVars, rowVars, txLive,
          lockVars, frameVars>>

(***************************************************************************)
(* Where a goroutine can be between two of its steps.                      *)
(***************************************************************************)
\* In a Tx method, tx.mu read-locked, about to call the Conn method.
TxMethods == {"exec", "query", "queryArgs", "prepare"}

\* Points at which the goroutine holds conn.mu ...
ConnHeld == {"exec.temp", "exec.drop", "result.rows", "result.last",
             "query.meta", "reset.prepare"}

\* ... stmt.mu of stmtOf ...
StmtHeld == {"stmt.exec", "stmt.reset", "reset.prepare", "stmt.meta",
             "stmt.addChild", "releaseChild"}

\* ... and rows.mu of rowOf.
RowsHeld == {"rows.releaseConn", "rows.releaseStmt"}

Labels == {"idle", "bind", "stmt.query", "stmt.close", "tx.finish"}
            \union TxMethods \union ConnHeld \union StmtHeld \union RowsHeld

Init ==
    /\ open = TRUE /\ txActive = FALSE /\ children = 0
    /\ csdkChildren = 0 /\ vms = {} /\ cursors = {} /\ serverVM = Nil
    /\ serverTx = Nil /\ database = Nil /\ lastExec = Nil
    /\ registered = {} /\ hidden = {} /\ stmtRows = [s \in Stmts |-> 0]
    /\ linked = {} /\ rowStmt = [r \in Rows |-> Nil] /\ rowClose = {}
    /\ txLive = {}
    /\ connMu = Nil
    /\ stmtMu = [s \in Stmts |-> Nil]
    /\ rowsMu = [r \in Rows |-> Nil]
    /\ pc = [g \in Goroutines |-> "idle"]
    /\ stmtOf = [g \in Goroutines |-> Nil]
    /\ rowOf = [g \in Goroutines |-> Nil]
    /\ txOf = [g \in Goroutines |-> Nil]
    /\ closeWith = {}

(***************************************************************************)
(* Frames and deferred unlocks.                                            *)
(***************************************************************************)
Goto(g, label) == pc' = [pc EXCEPT ![g] = label]

\* The method returns: its deferred unlocks run and its locals are gone.
Return(g) ==
    /\ Goto(g, "idle")
    /\ stmtOf' = [stmtOf EXCEPT ![g] = Nil]
    /\ rowOf' = [rowOf EXCEPT ![g] = Nil]
    /\ txOf' = [txOf EXCEPT ![g] = Nil]
    /\ closeWith' = closeWith \ {g}
    /\ connMu' = IF connMu = g THEN Nil ELSE connMu
    /\ stmtMu' = [s \in Stmts |-> IF stmtMu[s] = g THEN Nil ELSE stmtMu[s]]
    /\ rowsMu' = [r \in Rows |-> IF rowsMu[r] = g THEN Nil ELSE rowsMu[r]]

\* A Conn method is entered by its caller or from a Tx method.
Enters(g, method) == pc[g] \in {"idle", method}

\* A *Stmt or *Rows that no one refers to: the next allocation may be it.
FreeStmt(s) ==
    /\ s \notin registered /\ s \notin vms /\ stmtMu[s] = Nil
    /\ \A g \in Goroutines : stmtOf[g] # s
    /\ \A r \in Rows : rowStmt[r] # s

FreeRows(r) ==
    /\ r \notin linked /\ r \notin cursors /\ rowsMu[r] = Nil
    /\ \A g \in Goroutines : rowOf[g] # r

(***************************************************************************)
(* csdk: one native call each.                                             *)
(***************************************************************************)
\* csdk.Conn.Prepare: the session's VM now holds the statement of owner x.
NativePrepare(x) ==
    /\ vms' = vms \union {x}
    /\ serverVM' = x
    /\ csdkChildren' = csdkChildren + 1
    /\ UNCHANGED cursors

\* csdk.Stmt.Close: VM_CLOSE drops whatever the session's VM holds.
NativeStmtClose(x) ==
    /\ vms' = vms \ {x}
    /\ serverVM' = Nil
    /\ csdkChildren' = csdkChildren - 1
    /\ UNCHANGED cursors

\* Fault: the new cursor is not counted.
NativeQueryUncounted(r) ==
    cursors' = cursors \union {r} /\ UNCHANGED <<csdkChildren, vms, serverVM>>

\* csdk.Conn.Query and csdk.Stmt.Query.
NativeQuery(r) ==
    /\ cursors' = cursors \union {r}
    /\ csdkChildren' = csdkChildren + 1
    /\ UNCHANGED <<vms, serverVM>>

\* csdk.Rows.Close.
NativeRowsClose(r) ==
    /\ cursors' = cursors \ {r}
    /\ csdkChildren' = csdkChildren - 1
    /\ UNCHANGED <<vms, serverVM>>

(***************************************************************************)
(* Conn.                                                                   *)
(***************************************************************************)
\* Faults: the child check is dropped from Exec, Query and Prepare; from
\* Close, in both layers; from SetDatabase.
NoChildrenUnchecked == TRUE

CloseUnchecked(g) ==
    /\ pc[g] = "idle" /\ connMu = Nil /\ open /\ ~txActive
    /\ open' = FALSE
    /\ UNCHANGED <<txActive, children, csdkVars, serverVars, stmtVars,
                   rowVars, txLive, lockVars, frameVars>>

SetDatabaseUnchecked(g, name) ==
    /\ pc[g] = "idle" /\ connMu = Nil /\ open /\ ~txActive
    /\ database' = name
    /\ UNCHANGED <<connVars, csdkVars, serverTx, lastExec, stmtVars, rowVars,
                   txLive, lockVars, frameVars>>

\* The refusals of Close, SetDatabase, Begin and the implicit Commit and
\* Rollback, and of Exec, Query and Prepare.
NotBusy == ~txActive /\ children = 0
NoChildren == children = 0

\* OpenContext: a fresh Conn replaces a closed one.  One Conn is modelled at
\* a time.
Open ==
    /\ ~open
    /\ \A g \in Goroutines : pc[g] = "idle"
    /\ open' = TRUE /\ txActive' = FALSE /\ children' = 0
    /\ csdkChildren' = 0
    /\ serverTx' = Nil /\ database' = Nil /\ lastExec' = Nil
    /\ UNCHANGED <<vms, cursors, serverVM, stmtVars, rowVars, txLive,
                   lockVars, frameVars>>

\* Close.  csdk.Conn.Close refuses while csdkChildren # 0, and Close then
\* leaves conn.native in place.
Close(g) ==
    /\ pc[g] = "idle" /\ connMu = Nil /\ open /\ NotBusy
    /\ csdkChildren = 0
    /\ open' = FALSE
    /\ UNCHANGED <<txActive, children, csdkVars, serverVars, stmtVars,
                   rowVars, txLive, lockVars, frameVars>>

SetDatabase(g, name) ==
    /\ pc[g] = "idle" /\ connMu = Nil /\ open /\ NotBusy
    /\ database' = name
    /\ UNCHANGED <<connVars, csdkVars, serverTx, lastExec, stmtVars, rowVars,
                   txLive, lockVars, frameVars>>

\* Fault: conn.mu is released before the metrics are read.
ExecUnlocked(g) ==
    /\ Enters(g, "exec") /\ connMu = Nil /\ open /\ NoChildren
    /\ lastExec' = g
    /\ Goto(g, "result.rows")
    /\ UNCHANGED <<connVars, csdkVars, serverTx, database, stmtVars, rowVars,
                   txLive, lockVars, stmtOf, rowOf, txOf, closeWith>>

\* ExecContext without arguments or with a one-shot bind list: one native
\* call, then the metrics of resultForContext, all under conn.mu.
Exec(g) ==
    /\ Enters(g, "exec") /\ connMu = Nil /\ open /\ NoChildren
    /\ lastExec' = g
    /\ \/ /\ connMu' = g
          /\ Goto(g, "result.rows")
          /\ UNCHANGED <<stmtMu, rowsMu, stmtOf, rowOf, txOf, closeWith>>
       \/ Return(g)
    /\ UNCHANGED <<connVars, csdkVars, serverTx, database, stmtVars, rowVars,
                   txLive>>

\* ExecContext with an empty BLOB among the arguments prepares a temporary
\* statement, which its deferred Close drops before conn.mu is released.
ExecPrepare(g) ==
    /\ Enters(g, "exec") /\ connMu = Nil /\ open /\ NoChildren
    /\ connMu' = g
    /\ NativePrepare(g)
    /\ Goto(g, "exec.temp")
    /\ UNCHANGED <<connVars, serverVars, stmtVars, rowVars, txLive,
                   stmtMu, rowsMu, stmtOf, rowOf, txOf, closeWith>>

ExecTemp(g) ==
    /\ pc[g] = "exec.temp"
    /\ \/ Goto(g, "result.rows") /\ lastExec' = g
       \/ Goto(g, "exec.drop") /\ lastExec' \in {lastExec, g}
    /\ UNCHANGED <<connVars, csdkVars, serverTx, database, stmtVars, rowVars,
                   txLive, lockVars, stmtOf, rowOf, txOf, closeWith>>

\* resultForContext: AffectedRows, then LastInsertID; a cancelled context
\* leaves the rest out.
ResultDone(g) ==
    IF g \in vms
    THEN /\ Goto(g, "exec.drop")
         /\ UNCHANGED <<lockVars, stmtOf, rowOf, txOf, closeWith>>
    ELSE Return(g)

ResultRows(g) ==
    /\ pc[g] = "result.rows"
    /\ \/ /\ Goto(g, "result.last")
          /\ UNCHANGED <<lockVars, stmtOf, rowOf, txOf, closeWith>>
       \/ ResultDone(g)
    /\ UNCHANGED <<connVars, csdkVars, serverVars, stmtVars, rowVars, txLive>>

ResultLast(g) ==
    /\ pc[g] = "result.last"
    /\ ResultDone(g)
    /\ UNCHANGED <<connVars, csdkVars, serverVars, stmtVars, rowVars, txLive>>

ExecDrop(g) ==
    /\ pc[g] = "exec.drop"
    /\ NativeStmtClose(g)
    /\ Return(g)
    /\ UNCHANGED <<connVars, serverVars, stmtVars, rowVars, txLive>>

\* QueryContext without arguments: the native query, then newRowsContext
\* reads the metadata and closes the cursor when that fails, all under
\* conn.mu.
Query(g) ==
    /\ Enters(g, "query") /\ connMu = Nil /\ open /\ NoChildren
    /\ lastExec' = g
    /\ \/ \E r \in Rows :
             /\ FreeRows(r)
             /\ NativeQuery(r)
             /\ rowOf' = [rowOf EXCEPT ![g] = r]
             /\ connMu' = g
             /\ Goto(g, "query.meta")
             /\ UNCHANGED <<stmtMu, rowsMu, stmtOf, txOf, closeWith>>
       \/ Return(g) /\ UNCHANGED csdkVars
    /\ UNCHANGED <<connVars, serverTx, database, stmtVars, rowVars, txLive>>

\* Fault: the cursor is not closed when its metadata cannot be read.
QueryMetaLeak(g) ==
    /\ pc[g] = "query.meta"
    /\ \/ children' = children + 1 /\ linked' = linked \union {rowOf[g]}
       \/ UNCHANGED <<children, linked>>
    /\ Return(g)
    /\ UNCHANGED <<open, txActive, csdkVars, serverVars, stmtVars, rowStmt,
                   rowClose, txLive>>

QueryMeta(g) ==
    /\ pc[g] = "query.meta"
    /\ \/ /\ children' = children + 1
          /\ linked' = linked \union {rowOf[g]}
          /\ UNCHANGED csdkVars
       \/ /\ NativeRowsClose(rowOf[g])
          /\ UNCHANGED <<children, linked>>
    /\ Return(g)
    /\ UNCHANGED <<open, txActive, serverVars, stmtVars, rowStmt, rowClose,
                   txLive>>

\* PrepareContext, up to the allocation of the *Stmt.
PrepareStmt(s) ==
    /\ FreeStmt(s)
    /\ NativePrepare(s)
    /\ children' = children + 1
    /\ registered' = registered \union {s}
    /\ stmtRows' = [stmtRows EXCEPT ![s] = 0]

Prepare(g) ==
    /\ Enters(g, "prepare") /\ connMu = Nil /\ open /\ NoChildren
    /\ \/ \E s \in Stmts : PrepareStmt(s) /\ hidden' = hidden \ {s}
       \/ UNCHANGED <<children, csdkVars, stmtVars>>
    /\ Return(g)
    /\ UNCHANGED <<open, txActive, serverVars, rowVars, txLive>>

\* QueryContext with arguments prepares a statement the caller never sees.
QueryArgs(g) ==
    /\ Enters(g, "queryArgs") /\ connMu = Nil /\ open /\ NoChildren
    /\ \/ \E s \in Stmts :
             /\ PrepareStmt(s)
             /\ hidden' = hidden \union {s}
             /\ stmtOf' = [stmtOf EXCEPT ![g] = s]
             /\ closeWith' = closeWith \union {g}
             /\ Goto(g, "bind")
             /\ UNCHANGED <<lockVars, rowOf, txOf>>
       \/ Return(g) /\ UNCHANGED <<children, csdkVars, stmtVars>>
    /\ UNCHANGED <<open, txActive, serverVars, rowVars, txLive>>

\* Its loop over Bind; any failure goes to stmt.Close.
BindArgs(g) ==
    /\ pc[g] = "bind" /\ stmtMu[stmtOf[g]] = Nil
    /\ \/ /\ stmtOf[g] \in vms /\ stmtRows[stmtOf[g]] = 0
          /\ Goto(g, "stmt.query")
       \/ Goto(g, "stmt.close")
    /\ UNCHANGED <<connVars, csdkVars, serverVars, stmtVars, rowVars, txLive,
                   lockVars, stmtOf, rowOf, txOf, closeWith>>

(***************************************************************************)
(* Stmt.  A goroutine calls a method of a statement it was given, or       *)
(* QueryContext calls it on the hidden one.                                *)
(***************************************************************************)
Calls(g, s, label) ==
    \/ pc[g] = "idle" /\ s \notin hidden
    \/ pc[g] = label /\ stmtOf[g] = s

\* The statement accepts Exec, Query, Bind, Reset and Close.
Usable(s) == s \in vms /\ stmtRows[s] = 0

LockStmt(g, s) ==
    /\ stmtMu' = [stmtMu EXCEPT ![s] = g]
    /\ stmtOf' = [stmtOf EXCEPT ![g] = s]

UnlockStmt(s) == stmtMu' = [stmtMu EXCEPT ![s] = Nil]

\* Fault: stmt.mu is not unlocked on the error path.
QueryFailedLocked(g) ==
    IF g \in closeWith
    THEN /\ Goto(g, "stmt.close")
         /\ UNCHANGED <<lockVars, stmtOf, rowOf, txOf, closeWith>>
    ELSE Return(g)

\* query failed: QueryContext closes its hidden statement.
QueryFailed(g) ==
    IF g \in closeWith
    THEN /\ Goto(g, "stmt.close")
         /\ UnlockStmt(stmtOf[g])
         /\ rowOf' = [rowOf EXCEPT ![g] = Nil]
         /\ UNCHANGED <<connMu, rowsMu, stmtOf, txOf, closeWith>>
    ELSE Return(g)

\* query holds stmt.mu, not conn.mu, while the native query runs.
StmtQuery(g, s) ==
    /\ Calls(g, s, "stmt.query") /\ stmtMu[s] = Nil
    /\ Usable(s) /\ open
    /\ lastExec' = g
    /\ \E r \in Rows :
          /\ FreeRows(r)
          /\ NativeQuery(r)
          /\ rowOf' = [rowOf EXCEPT ![g] = r]
    /\ LockStmt(g, s)
    /\ Goto(g, "stmt.meta")
    /\ UNCHANGED <<connVars, serverTx, database, stmtVars, rowVars, txLive,
                   connMu, rowsMu, txOf, closeWith>>

StmtQueryFails(g) ==
    /\ pc[g] = "stmt.query" /\ stmtMu[stmtOf[g]] = Nil
    /\ QueryFailed(g)
    /\ UNCHANGED <<connVars, csdkVars, serverVars, stmtVars, rowVars, txLive>>

\* Fault: the cursor is not closed when its metadata cannot be read.
StmtMetaLeak(g) ==
    /\ pc[g] = "stmt.meta"
    /\ \/ /\ Goto(g, "stmt.addChild")
          /\ UNCHANGED <<lockVars, stmtOf, rowOf, txOf, closeWith>>
       \/ QueryFailed(g)
    /\ UNCHANGED <<connVars, csdkVars, serverVars, stmtVars, rowVars, txLive>>

StmtMeta(g) ==
    /\ pc[g] = "stmt.meta"
    /\ \/ /\ Goto(g, "stmt.addChild")
          /\ UNCHANGED <<csdkVars, lockVars, stmtOf, rowOf, txOf, closeWith>>
       \/ NativeRowsClose(rowOf[g]) /\ QueryFailed(g)
    /\ UNCHANGED <<connVars, serverVars, stmtVars, rowVars, txLive>>

\* conn.addChild, then the Rows is linked to its statement and returned.
AddChild(g) ==
    /\ pc[g] = "stmt.addChild" /\ connMu = Nil
    /\ IF open
       THEN /\ children' = children + 1
            /\ stmtRows' = [stmtRows EXCEPT ![stmtOf[g]] = @ + 1]
            /\ linked' = linked \union {rowOf[g]}
            /\ rowStmt' = [rowStmt EXCEPT ![rowOf[g]] = stmtOf[g]]
            /\ rowClose' = IF g \in closeWith THEN rowClose \union {rowOf[g]}
                                              ELSE rowClose
            /\ Return(g)
            /\ UNCHANGED csdkVars
       ELSE /\ NativeRowsClose(rowOf[g])
            /\ QueryFailed(g)
            /\ UNCHANGED <<children, stmtRows, rowVars>>
    /\ UNCHANGED <<open, txActive, serverVars, registered, hidden, txLive>>

\* The native statement is closed first; the child count follows, once
\* conn.mu is available, with stmt.mu still held.
DropStmt(g, s) ==
    /\ NativeStmtClose(s)
    /\ registered' = registered \ {s}
    /\ IF s \in registered
       THEN /\ LockStmt(g, s)
            /\ Goto(g, "releaseChild")
            /\ UNCHANGED <<connMu, rowsMu, rowOf, txOf, closeWith>>
       ELSE Return(g)

StmtClose(g, s) ==
    /\ Calls(g, s, "stmt.close") /\ stmtMu[s] = Nil
    /\ IF Usable(s)
       THEN DropStmt(g, s)
       ELSE Return(g) /\ UNCHANGED <<csdkVars, registered>>
    /\ UNCHANGED <<connVars, serverVars, hidden, stmtRows, rowVars, txLive>>

\* conn.releaseChild.
ReleaseOne == children' = IF children > 0 THEN children - 1 ELSE children

ReleaseChild(g) ==
    /\ pc[g] = "releaseChild" /\ connMu = Nil
    /\ ReleaseOne
    /\ Return(g)
    /\ UNCHANGED <<open, txActive, csdkVars, serverVars, stmtVars, rowVars,
                   txLive>>

StmtExec(g, s) ==
    /\ pc[g] = "idle" /\ s \notin hidden /\ stmtMu[s] = Nil /\ Usable(s)
    /\ LockStmt(g, s)
    /\ Goto(g, "stmt.exec")
    /\ UNCHANGED <<connVars, csdkVars, serverVars, stmtVars, rowVars, txLive,
                   connMu, rowsMu, rowOf, txOf, closeWith>>

StmtExecRun(g) ==
    /\ pc[g] = "stmt.exec" /\ connMu = Nil
    /\ \/ /\ open
          /\ lastExec' = g
          /\ connMu' = g
          /\ Goto(g, "result.rows")
          /\ UNCHANGED <<stmtMu, rowsMu, stmtOf, rowOf, txOf, closeWith>>
       \/ Return(g) /\ lastExec' \in {lastExec, g}
    /\ UNCHANGED <<connVars, csdkVars, serverTx, database, stmtVars, rowVars,
                   txLive>>

\* ResetContext: close the native statement, prepare it anew.  The context
\* is looked at before and between the two; whatever goes wrong after the
\* close leaves the *Stmt closed and uncounted.
Reset(g, s) ==
    /\ pc[g] = "idle" /\ s \notin hidden /\ stmtMu[s] = Nil /\ Usable(s)
    /\ LockStmt(g, s)
    /\ Goto(g, "stmt.reset")
    /\ UNCHANGED <<connVars, csdkVars, serverVars, stmtVars, rowVars, txLive,
                   connMu, rowsMu, rowOf, txOf, closeWith>>

ResetClose(g) ==
    /\ pc[g] = "stmt.reset" /\ connMu = Nil
    /\ \/ /\ open
          /\ NativeStmtClose(stmtOf[g])
          /\ connMu' = g
          /\ Goto(g, "reset.prepare")
          /\ UNCHANGED <<stmtMu, rowsMu, stmtOf, rowOf, txOf, closeWith>>
       \/ Return(g) /\ UNCHANGED csdkVars
    /\ UNCHANGED <<connVars, serverVars, stmtVars, rowVars, txLive>>

\* Fault: a failed Prepare leaves the closed statement counted.
ResetPrepareCounted(g) ==
    /\ pc[g] = "reset.prepare"
    /\ \/ NativePrepare(stmtOf[g]) /\ UNCHANGED registered
       \/ registered' = registered \ {stmtOf[g]} /\ UNCHANGED csdkVars
    /\ Return(g)
    /\ UNCHANGED <<connVars, serverVars, hidden, stmtRows, rowVars, txLive>>

ResetPrepare(g) ==
    /\ pc[g] = "reset.prepare"
    /\ \/ /\ NativePrepare(stmtOf[g])
          /\ UNCHANGED <<children, registered>>
       \/ /\ registered' = registered \ {stmtOf[g]}
          /\ children' = IF stmtOf[g] \in registered THEN children - 1
                                                     ELSE children
          /\ UNCHANGED csdkVars
    /\ Return(g)
    /\ UNCHANGED <<open, txActive, serverVars, hidden, stmtRows, rowVars,
                   txLive>>

(***************************************************************************)
(* Rows.                                                                   *)
(***************************************************************************)
\* Close clears the fields and the cursor under rows.mu, then releases the
\* connection's count, then the statement's.
RowsClose(g, r) ==
    /\ pc[g] = "idle" /\ r \in linked /\ rowsMu[r] = Nil
    /\ NativeRowsClose(r)
    /\ linked' = linked \ {r}
    /\ rowStmt' = [rowStmt EXCEPT ![r] = Nil]
    /\ rowClose' = rowClose \ {r}
    /\ rowsMu' = [rowsMu EXCEPT ![r] = g]
    /\ rowOf' = [rowOf EXCEPT ![g] = r]
    /\ stmtOf' = [stmtOf EXCEPT ![g] = rowStmt[r]]
    /\ closeWith' = IF r \in rowClose THEN closeWith \union {g} ELSE closeWith
    /\ Goto(g, "rows.releaseConn")
    /\ UNCHANGED <<connVars, serverVars, stmtVars, txLive, connMu, stmtMu,
                   txOf>>

RowsReleaseConn(g) ==
    /\ pc[g] = "rows.releaseConn" /\ connMu = Nil
    /\ ReleaseOne
    /\ IF stmtOf[g] = Nil
       THEN Return(g)
       ELSE /\ Goto(g, "rows.releaseStmt")
            /\ UNCHANGED <<lockVars, stmtOf, rowOf, txOf, closeWith>>
    /\ UNCHANGED <<open, txActive, csdkVars, serverVars, stmtVars, rowVars,
                   txLive>>

\* Fault: closeStmt is ignored.
ReleaseRowOnly(g) ==
    /\ pc[g] = "rows.releaseStmt" /\ stmtMu[stmtOf[g]] = Nil
    /\ stmtRows' = [stmtRows EXCEPT ![stmtOf[g]] = IF @ > 0 THEN @ - 1 ELSE @]
    /\ Return(g)
    /\ UNCHANGED <<connVars, csdkVars, serverVars, registered, hidden, rowVars,
                   txLive>>

\* stmt.releaseRow.
ReleaseRow(g) ==
    LET s == stmtOf[g] IN
    /\ pc[g] = "rows.releaseStmt" /\ stmtMu[s] = Nil
    /\ stmtRows' = [stmtRows EXCEPT ![s] = IF @ > 0 THEN @ - 1 ELSE @]
    /\ IF g \in closeWith /\ s \in vms /\ stmtRows'[s] = 0
       THEN DropStmt(g, s)
       ELSE Return(g) /\ UNCHANGED <<csdkVars, registered>>
    /\ UNCHANGED <<connVars, serverVars, hidden, rowVars, txLive>>

(***************************************************************************)
(* Tx.  A goroutine with txOf # Nil holds tx.mu: for writing at            *)
(* "tx.finish", for reading anywhere else.                                 *)
(***************************************************************************)
Begin(g) ==
    /\ pc[g] = "idle" /\ connMu = Nil /\ open /\ NotBusy
    /\ \E t \in Txs :
          /\ t \notin txLive /\ \A h \in Goroutines : txOf[h] # t
          /\ txActive' = TRUE
          /\ txLive' = txLive \union {t}
          /\ serverTx' = t
    /\ UNCHANGED <<open, children, csdkVars, database, lastExec, stmtVars,
                   rowVars, lockVars, frameVars>>

\* Fault: a live Tx is not looked at.
FinishImplicitAnyTx(g) ==
    /\ pc[g] = "idle" /\ connMu = Nil /\ open /\ NoChildren
    /\ serverTx' = Nil
    /\ UNCHANGED <<connVars, csdkVars, database, lastExec, stmtVars, rowVars,
                   txLive, lockVars, frameVars>>

\* finishImplicit: Commit or Rollback of the session without a Tx.
FinishImplicit(g) ==
    /\ pc[g] = "idle" /\ connMu = Nil /\ open /\ NotBusy
    /\ serverTx' = Nil
    /\ UNCHANGED <<connVars, csdkVars, database, lastExec, stmtVars, rowVars,
                   txLive, lockVars, frameVars>>

\* Tx.ExecContext, QueryContext and PrepareContext, up to the Conn method.
TxCall(g, t, method) ==
    /\ pc[g] = "idle" /\ t \in txLive
    /\ \A h \in Goroutines : ~(txOf[h] = t /\ pc[h] = "tx.finish")
    /\ txOf' = [txOf EXCEPT ![g] = t]
    /\ Goto(g, method)
    /\ UNCHANGED <<connVars, csdkVars, serverVars, stmtVars, rowVars, txLive,
                   lockVars, stmtOf, rowOf, closeWith>>

\* The Conn method refuses ...
Refused(g) ==
    /\ pc[g] \in TxMethods /\ connMu = Nil /\ ~(open /\ NoChildren)
    /\ Return(g)
    /\ UNCHANGED <<connVars, csdkVars, serverVars, stmtVars, rowVars, txLive>>

\* ... or finds the context cancelled before it waits for conn.mu.
Cancelled(g) ==
    /\ pc[g] \in TxMethods
    /\ Return(g)
    /\ UNCHANGED <<connVars, csdkVars, serverVars, stmtVars, rowVars, txLive>>

TxFinish(g, t) ==
    /\ pc[g] = "idle" /\ t \in txLive
    /\ \A h \in Goroutines : txOf[h] # t
    /\ txOf' = [txOf EXCEPT ![g] = t]
    /\ Goto(g, "tx.finish")
    /\ UNCHANGED <<connVars, csdkVars, serverVars, stmtVars, rowVars, txLive,
                   lockVars, stmtOf, rowOf, closeWith>>

\* Fault: txActive is cleared even when the native call fails.
TxFinishRunEager(g) ==
    /\ pc[g] = "tx.finish" /\ connMu = Nil
    /\ \/ /\ open /\ txActive /\ NoChildren
          /\ serverTx' = Nil /\ txActive' = FALSE
          /\ txLive' = txLive \ {txOf[g]} \/ UNCHANGED txLive
       \/ UNCHANGED <<txActive, txLive, serverTx>>
    /\ Return(g)
    /\ UNCHANGED <<open, children, csdkVars, database, lastExec, stmtVars,
                   rowVars>>

\* A failed COMMIT or ROLLBACK may have reached the server; the Tx stays
\* live either way.
TxFinishRun(g) ==
    /\ pc[g] = "tx.finish" /\ connMu = Nil
    /\ \/ /\ open /\ txActive /\ NoChildren
          /\ serverTx' = Nil
          /\ \/ txActive' = FALSE /\ txLive' = txLive \ {txOf[g]}
             \/ UNCHANGED <<txActive, txLive>>
       \/ UNCHANGED <<txActive, txLive, serverTx>>
    /\ Return(g)
    /\ UNCHANGED <<open, children, csdkVars, database, lastExec, stmtVars,
                   rowVars>>

(***************************************************************************)
(* The specification.                                                      *)
(***************************************************************************)
Start(g) ==
    \/ Close(g)
    \/ \E d \in Databases : SetDatabase(g, d)
    \/ Exec(g) \/ ExecPrepare(g) \/ Query(g) \/ Prepare(g) \/ QueryArgs(g)
    \/ \E s \in Stmts : \/ StmtQuery(g, s) \/ StmtClose(g, s)
                        \/ StmtExec(g, s) \/ Reset(g, s)
    \/ \E r \in Rows : RowsClose(g, r)
    \/ Begin(g) \/ FinishImplicit(g)
    \/ \E t \in Txs : TxFinish(g, t) \/ \E m \in TxMethods : TxCall(g, t, m)

Continue(g) ==
    \/ ExecTemp(g) \/ ResultRows(g) \/ ResultLast(g) \/ ExecDrop(g)
    \/ QueryMeta(g) \/ BindArgs(g)
    \/ StmtQueryFails(g) \/ StmtMeta(g) \/ AddChild(g) \/ ReleaseChild(g)
    \/ StmtExecRun(g) \/ ResetClose(g) \/ ResetPrepare(g)
    \/ RowsReleaseConn(g) \/ ReleaseRow(g)
    \/ Refused(g) \/ TxFinishRun(g)

Next == Open \/ \E g \in Goroutines : Start(g) \/ Continue(g) \/ Cancelled(g)

Spec == Init /\ [][Next]_vars

\* A goroutine inside a method goes on: sync.Mutex hands itself to a waiter
\* that has waited long enough, hence strong fairness.  Nobody is obliged to
\* call a method, and no context has to be cancelled.
Fairness ==
    \A g \in Goroutines : SF_vars(pc[g] # "idle" /\ (Start(g) \/ Continue(g)))

FairSpec == Spec /\ Fairness

(***************************************************************************)
(* Properties.                                                             *)
(***************************************************************************)
Quiescent == \A g \in Goroutines : pc[g] = "idle"

\* Every variable has its type; the counts of Conn, csdk.Conn and Stmt are
\* natural numbers, so that no decrement goes below zero.
TypeOK ==
    /\ open \in BOOLEAN /\ txActive \in BOOLEAN
    /\ children \in Nat /\ csdkChildren \in Nat
    /\ vms \subseteq Stmts \union Goroutines /\ cursors \subseteq Rows
    /\ serverVM \in Stmts \union Goroutines \union {Nil}
    /\ serverTx \in Txs \union {Nil}
    /\ database \in Databases \union {Nil}
    /\ lastExec \in Goroutines \union {Nil}
    /\ registered \subseteq Stmts /\ hidden \subseteq Stmts
    /\ stmtRows \in [Stmts -> Nat]
    /\ linked \subseteq Rows /\ rowClose \subseteq Rows
    /\ rowStmt \in [Rows -> Stmts \union {Nil}]
    /\ txLive \subseteq Txs
    /\ connMu \in Goroutines \union {Nil}
    /\ stmtMu \in [Stmts -> Goroutines \union {Nil}]
    /\ rowsMu \in [Rows -> Goroutines \union {Nil}]
    /\ pc \in [Goroutines -> Labels]
    /\ stmtOf \in [Goroutines -> Stmts \union {Nil}]
    /\ rowOf \in [Goroutines -> Rows \union {Nil}]
    /\ txOf \in [Goroutines -> Txs \union {Nil}]
    /\ closeWith \subseteq Goroutines

\* A csdk.Stmt or csdk.Rows never outlives the native connection it points
\* into: csdk.Stmt.Close and csdk.Rows.Close do not look at conn.ptr before
\* they use it, and Stmt.query runs without conn.mu.
NoDanglingNative == vms # {} \/ cursors # {} => open

\* When Conn.Close passes its own checks, csdk.Conn.Close does not refuse:
\* the two child counts reach zero together.
CloseNeverRefusedBelow == connMu = Nil /\ NotBusy => csdkChildren = 0

\* Between calls both counts are the number of native objects alive, each of
\* which a handle in the caller's hands can close.
NoLeak ==
    Quiescent =>
        /\ children = csdkChildren
        /\ vms \subseteq registered /\ cursors = linked
        /\ csdkChildren = (IF vms = {} THEN 0 ELSE 1)
                            + (IF cursors = {} THEN 0 ELSE 1)

\* The session has one VM; a live statement is the one it holds, so that
\* bind, execute, select and close reach the statement they are meant for.
VMIntegrity == \A x \in vms : serverVM = x

\* AffectedRows and LastInsertID are read while the statement of the reading
\* goroutine is still the last one the session executed.
ResultBelongsToExec ==
    \A g \in Goroutines :
        pc[g] \in {"result.rows", "result.last"} => lastExec = g

\* The statement QueryContext prepares for its arguments is never lost: the
\* goroutine that made it, an open Rows told to close it, or the goroutine
\* closing that Rows still has it.
HiddenStmtOwned ==
    \A s \in hidden \intersect vms :
        \/ \E g \in Goroutines : stmtOf[g] = s /\ g \in closeWith
        \/ \E r \in linked : rowStmt[r] = s /\ r \in rowClose

\* txActive stands for exactly one live Tx.
TxOwnership ==
    /\ txActive <=> txLive # {}
    /\ \A t, u \in txLive : t = u

\* Only Commit or Rollback of the Tx that began it ends the server
\* transaction of a live Tx; no other Tx begins meanwhile.
TxEndsByItself ==
    [][(serverTx \in txLive /\ serverTx' # serverTx) =>
          \E g \in Goroutines : pc[g] = "tx.finish" /\ txOf[g] = serverTx]_vars

\* Every method call returns, provided the native calls do.
CallsReturn == \A g \in Goroutines : pc[g] # "idle" ~> pc[g] = "idle"

(***************************************************************************)
(* CubeCore implements Session.                                            *)
(***************************************************************************)
Abstract == INSTANCE Session WITH
    Handles <- Goroutines \union Stmts \union Rows,
    Names <- Databases, NoName <- Nil,
    up <- open, live <- vms \union cursors, inTx <- txLive # {},
    selected <- database

\* The counts, mutexes and checks of the package keep what Session promises:
\* no Close, SetDatabase, Begin, Commit or Rollback takes effect while a
\* native statement or cursor is alive, and none of these outlives the
\* connection.
ImplementsSession == Abstract!Spec

(***************************************************************************)
(* The inductive invariant behind the safety properties.                   *)
(***************************************************************************)
Single(S) == \A x, y \in S : x = y
One(S) == IF S = {} THEN 0 ELSE 1

Results == {"result.rows", "result.last"}

\* What a unit of conn.children stands for: a registered statement or the
\* goroutine about to release its count, and likewise for Rows.
StmtTokens == registered \union {g \in Goroutines : pc[g] = "releaseChild"}
RowTokens == linked \union {g \in Goroutines : pc[g] = "rows.releaseConn"}

HoldsStmt(g) == pc[g] \in StmtHeld \/ (pc[g] \in Results /\ stmtOf[g] # Nil)

MutexInv ==
    \A g \in Goroutines :
        /\ connMu = g <=> pc[g] \in ConnHeld
        /\ HoldsStmt(g) => stmtOf[g] \in Stmts /\ stmtMu[stmtOf[g]] = g

FrameInv ==
    \A g \in Goroutines :
        /\ pc[g] \in TxMethods \union {"idle", "tx.finish", "exec.temp",
                                       "exec.drop", "query.meta"}
              => stmtOf[g] = Nil
        /\ pc[g] \in {"bind", "stmt.query", "stmt.close", "rows.releaseStmt"}
              => stmtOf[g] \in Stmts

CountInv ==
    /\ Single(StmtTokens) /\ Single(RowTokens)
    /\ children = One(StmtTokens) + One(RowTokens)

CsdkInv ==
    /\ Single(vms) /\ Single(cursors)
    /\ csdkChildren = One(vms) + One(cursors)
    /\ \A x \in vms : serverVM = x

\* Where a native statement can be.
StmtInv ==
    /\ \A s \in Stmts : s \in vms => s \in registered
    /\ \A s \in registered : s \in vms \/
          \E g \in Goroutines : pc[g] = "reset.prepare" /\ stmtOf[g] = s
    /\ \A g \in Goroutines :
          /\ pc[g] = "reset.prepare"
                => stmtOf[g] \in registered /\ stmtOf[g] \notin vms
          /\ g \in vms => pc[g] \in Results \union {"exec.temp", "exec.drop"}
          /\ pc[g] \in {"exec.temp", "exec.drop"} => g \in vms
          /\ HoldsStmt(g) /\ pc[g] \notin {"reset.prepare", "releaseChild"}
                => stmtOf[g] \in vms /\ stmtRows[stmtOf[g]] = 0
          /\ pc[g] \in Results \union {"exec.temp", "exec.drop", "query.meta"}
             /\ stmtOf[g] = Nil
                => children = 0

\* Where a native cursor can be, and what its statement knows of it.
RowInv ==
    /\ \A r \in Rows : IF r \in linked THEN r \in cursors ELSE rowStmt[r] = Nil
    /\ \A r \in cursors : r \in linked \/
          \E g \in Goroutines :
              rowOf[g] = r /\ pc[g] \in {"query.meta", "stmt.meta", "stmt.addChild"}
    /\ \A r \in linked :
          /\ \A s \in registered : rowStmt[r] = s
          /\ rowStmt[r] # Nil => rowStmt[r] \in vms /\ stmtRows[rowStmt[r]] = 1
    /\ \A g \in Goroutines :
          /\ pc[g] \in {"query.meta", "stmt.meta", "stmt.addChild"}
                => rowOf[g] \in cursors /\ rowOf[g] \notin linked
          /\ pc[g] \in RowsHeld =>
                /\ cursors = {}
                /\ \A h \in Goroutines : pc[h] \in RowsHeld => h = g
                /\ \A s \in registered : stmtOf[g] = s
                /\ stmtOf[g] # Nil =>
                      stmtOf[g] \in vms /\ stmtRows[stmtOf[g]] = 1

\* The hidden statement from QueryContext to the close of its Rows.
HiddenInv ==
    /\ HiddenStmtOwned
    /\ \A g \in Goroutines :
          /\ pc[g] = "idle" => g \notin closeWith
          /\ pc[g] \in {"bind", "stmt.query", "stmt.close"} => g \in closeWith
          /\ pc[g] \in Results \union {"stmt.exec", "stmt.reset", "reset.prepare"}
                => stmtOf[g] \notin hidden
          /\ g \in closeWith /\ pc[g] \in {"bind", "stmt.query", "stmt.close",
                                           "stmt.meta", "stmt.addChild"} =>
                /\ stmtOf[g] \in hidden /\ stmtOf[g] \in vms
                /\ stmtRows[stmtOf[g]] = 0
                /\ \A h \in Goroutines \ {g} : stmtOf[h] # stmtOf[g]

OpenInv == open \/ (NotBusy /\ connMu = Nil)

TxInv ==
    /\ TxOwnership
    /\ \A g \in Goroutines : pc[g] = "tx.finish" =>
          txOf[g] \in txLive /\ \A h \in Goroutines \ {g} : txOf[h] # txOf[g]

\* Each unit of the two child counts stands for one object in one of the
\* places above, and no step of any goroutine breaks that.
CoreInv ==
    /\ TypeOK /\ MutexInv /\ FrameInv /\ CountInv /\ CsdkInv
    /\ StmtInv /\ RowInv /\ HiddenInv /\ OpenInv /\ TxInv
    /\ ResultBelongsToExec
=============================================================================
