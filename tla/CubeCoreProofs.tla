--------------------------- MODULE CubeCoreProofs ---------------------------
(***************************************************************************)
(* Proofs about CubeCore, for every set of goroutines and handles: CoreInv *)
(* is inductive, the safety properties follow from it, and CubeCore        *)
(* implements Session.                                                     *)
(***************************************************************************)
EXTENDS CubeCore, TLAPS

(***************************************************************************)
(* Every action preserves the invariant.                                   *)
(***************************************************************************)
\* A fresh connection: the closed one was idle, so nothing refers to it.
\* Preserves CoreInv.
LEMMA OpenStep ==
    ASSUME CoreInv, Open
    PROVE  CoreInv'
<1> USE HandlesAssumption DEF CoreInv, Open, Goto, Return, connVars,
        csdkVars, serverVars, stmtVars, rowVars, lockVars, frameVars,
        Labels, TxMethods, ConnHeld, StmtHeld, RowsHeld, Results
<1>1. TypeOK'
  BY DEF TypeOK, MutexInv, HoldsStmt, FrameInv
<1>2. MutexInv'
  BY DEF MutexInv, HoldsStmt
<1>3. FrameInv'
  BY DEF FrameInv
<1>4. CountInv'
  BY DEF CountInv, StmtTokens, RowTokens, OpenInv, NotBusy
<1>5. CsdkInv'
  BY DEF TypeOK, CsdkInv, StmtInv, RowInv, One, CountInv, StmtTokens,
     RowTokens, OpenInv, NotBusy
<1>6. StmtInv'
  BY DEF StmtInv, HoldsStmt
<1>7. RowInv'
  BY DEF RowInv
<1>8. HiddenInv'
  BY DEF HiddenInv, HiddenStmtOwned
<1>9. OpenInv'
  BY DEF OpenInv
<1>10. TxInv'
  BY DEF TxInv, TxOwnership, OpenInv, NotBusy
<1>11. ResultBelongsToExec'
  BY DEF ResultBelongsToExec
<1> QED BY <1>1, <1>2, <1>3, <1>4, <1>5, <1>6, <1>7, <1>8, <1>9, <1>10,
   <1>11

\* Conn.Close: an idle connection goes down. Preserves CoreInv.
LEMMA CloseStep ==
    ASSUME CoreInv, NEW g \in Goroutines, Close(g)
    PROVE  CoreInv'
<1> USE HandlesAssumption DEF CoreInv, Close, NotBusy, Goto, Return,
        connVars, csdkVars, serverVars, stmtVars, rowVars, lockVars,
        frameVars, Labels, TxMethods, ConnHeld, StmtHeld, RowsHeld, Results
<1>1. TypeOK'
  BY DEF TypeOK, MutexInv, HoldsStmt, FrameInv
<1>2. MutexInv'
  BY DEF MutexInv, HoldsStmt
<1>3. FrameInv'
  BY DEF FrameInv
<1>4. CountInv'
  BY DEF CountInv, StmtTokens, RowTokens
<1>5. CsdkInv'
  BY DEF CsdkInv
<1>6. StmtInv'
  BY DEF StmtInv, HoldsStmt
<1>7. RowInv'
  BY DEF RowInv
<1>8. HiddenInv'
  BY DEF HiddenInv, HiddenStmtOwned
<1>9. OpenInv'
  BY DEF OpenInv
<1>10. TxInv'
  BY DEF TxInv, TxOwnership
<1>11. ResultBelongsToExec'
  BY DEF ResultBelongsToExec
<1> QED BY <1>1, <1>2, <1>3, <1>4, <1>5, <1>6, <1>7, <1>8, <1>9, <1>10,
   <1>11

\* Conn.SetDatabase: only the session's database changes. Preserves
\* CoreInv.
LEMMA SetDatabaseStep ==
    ASSUME CoreInv, NEW g \in Goroutines, NEW d \in Databases, SetDatabase(g, d)
    PROVE  CoreInv'
<1> USE HandlesAssumption DEF CoreInv, SetDatabase, NotBusy, Goto, Return,
        connVars, csdkVars, serverVars, stmtVars, rowVars, lockVars,
        frameVars, Labels, TxMethods, ConnHeld, StmtHeld, RowsHeld, Results
<1>1. TypeOK'
  BY DEF TypeOK
<1>2. MutexInv'
  BY DEF MutexInv, HoldsStmt
<1>3. FrameInv'
  BY DEF FrameInv
<1>4. CountInv'
  BY DEF CountInv, StmtTokens, RowTokens
<1>5. CsdkInv'
  BY DEF CsdkInv
<1>6. StmtInv'
  BY DEF StmtInv, HoldsStmt
<1>7. RowInv'
  BY DEF RowInv
<1>8. HiddenInv'
  BY DEF HiddenInv, HiddenStmtOwned
<1>9. OpenInv'
  BY DEF OpenInv
<1>10. TxInv'
  BY DEF TxInv, TxOwnership
<1>11. ResultBelongsToExec'
  BY DEF ResultBelongsToExec
<1> QED BY <1>1, <1>2, <1>3, <1>4, <1>5, <1>6, <1>7, <1>8, <1>9, <1>10,
   <1>11

\* Conn.ExecContext: conn.mu is kept until the metrics are read. Preserves
\* CoreInv.
LEMMA ExecStep ==
    ASSUME CoreInv, NEW g \in Goroutines, Exec(g)
    PROVE  CoreInv'
<1> USE HandlesAssumption DEF CoreInv, Exec, Enters, NoChildren, Goto,
        Return, connVars, csdkVars, serverVars, stmtVars, rowVars, lockVars,
        frameVars, Labels, TxMethods, ConnHeld, StmtHeld, RowsHeld, Results
<1>1. TypeOK'
  BY DEF TypeOK
<1>2. MutexInv'
  BY DEF TypeOK, MutexInv, FrameInv, HoldsStmt
<1>3. FrameInv'
  BY DEF TypeOK, FrameInv
<1>4. CountInv'
  BY DEF TypeOK, CountInv, StmtTokens, RowTokens, Single, One
<1>5. CsdkInv'
  BY DEF CsdkInv
<1>6. StmtInv'
  BY DEF TypeOK, StmtInv, FrameInv, HoldsStmt
<1>7. RowInv'
  BY DEF TypeOK, RowInv
<1>8. HiddenInv'
  BY DEF TypeOK, HiddenInv, HiddenStmtOwned, FrameInv
<1>9. OpenInv'
  BY DEF OpenInv
<1>10. TxInv'
  BY DEF TypeOK, TxInv, TxOwnership
<1>11. ResultBelongsToExec'
  BY DEF TypeOK, ResultBelongsToExec, MutexInv
<1> QED BY <1>1, <1>2, <1>3, <1>4, <1>5, <1>6, <1>7, <1>8, <1>9, <1>10,
   <1>11

\* ExecContext with an empty BLOB: no other statement can be alive.
\* Preserves CoreInv.
LEMMA ExecPrepareStep ==
    ASSUME CoreInv, NEW g \in Goroutines, ExecPrepare(g)
    PROVE  CoreInv'
<1> USE HandlesAssumption DEF CoreInv, ExecPrepare, Enters, NoChildren,
        NativePrepare, Goto, Return, connVars, csdkVars, serverVars,
        stmtVars, rowVars, lockVars, frameVars, Labels, TxMethods, ConnHeld,
        StmtHeld, RowsHeld, Results
<1>1. TypeOK'
  BY DEF TypeOK
<1>2. MutexInv'
  BY DEF TypeOK, MutexInv, HoldsStmt
<1>3. FrameInv'
  BY DEF FrameInv
<1>4. CountInv'
  BY DEF CountInv, StmtTokens, RowTokens, Single, One
<1>5. CsdkInv'
  BY DEF TypeOK, CsdkInv, StmtInv, Single, One, MutexInv, CountInv,
     StmtTokens
<1>6. StmtInv'
  BY DEF TypeOK, StmtInv, HoldsStmt
<1>7. RowInv'
  BY DEF RowInv
<1>8. HiddenInv'
  BY DEF TypeOK, HiddenInv, HiddenStmtOwned
<1>9. OpenInv'
  BY DEF OpenInv
<1>10. TxInv'
  BY DEF TxInv, TxOwnership
<1>11. ResultBelongsToExec'
  BY DEF ResultBelongsToExec
<1> QED BY <1>1, <1>2, <1>3, <1>4, <1>5, <1>6, <1>7, <1>8, <1>9, <1>10,
   <1>11

\* The temporary statement is executed, or dropped at once. Preserves
\* CoreInv.
LEMMA ExecTempStep ==
    ASSUME CoreInv, NEW g \in Goroutines, ExecTemp(g)
    PROVE  CoreInv'
<1> USE HandlesAssumption DEF CoreInv, ExecTemp, Goto, Return, connVars,
        csdkVars, serverVars, stmtVars, rowVars, lockVars, frameVars,
        Labels, TxMethods, ConnHeld, StmtHeld, RowsHeld, Results
<1>1. TypeOK'
  BY DEF TypeOK
<1>2. MutexInv'
  BY DEF TypeOK, MutexInv, FrameInv, HoldsStmt
<1>3. FrameInv'
  BY DEF TypeOK, FrameInv
<1>4. CountInv'
  BY DEF TypeOK, CountInv, StmtTokens, RowTokens, Single, One
<1>5. CsdkInv'
  BY DEF CsdkInv
<1>6. StmtInv'
  BY DEF TypeOK, StmtInv, FrameInv, HoldsStmt
<1>7. RowInv'
  BY DEF TypeOK, RowInv
<1>8. HiddenInv'
  BY DEF TypeOK, HiddenInv, HiddenStmtOwned, FrameInv
<1>9. OpenInv'
  BY DEF OpenInv, MutexInv
<1>10. TxInv'
  BY DEF TypeOK, TxInv, TxOwnership
<1>11. ResultBelongsToExec'
  BY DEF TypeOK, ResultBelongsToExec, MutexInv
<1> QED BY <1>1, <1>2, <1>3, <1>4, <1>5, <1>6, <1>7, <1>8, <1>9, <1>10,
   <1>11

\* AffectedRows, under the conn.mu of the execution. Preserves CoreInv.
LEMMA ResultRowsStep ==
    ASSUME CoreInv, NEW g \in Goroutines, ResultRows(g)
    PROVE  CoreInv'
<1> USE HandlesAssumption DEF CoreInv, ResultRows, ResultDone, Goto, Return,
        connVars, csdkVars, serverVars, stmtVars, rowVars, lockVars,
        frameVars, Labels, TxMethods, ConnHeld, StmtHeld, RowsHeld, Results
<1>1. TypeOK'
  BY DEF TypeOK
<1>2. MutexInv'
  BY DEF TypeOK, MutexInv, HoldsStmt
<1>3. FrameInv'
  BY DEF TypeOK, FrameInv, HoldsStmt, StmtInv, CsdkInv
<1>4. CountInv'
  BY DEF TypeOK, CountInv, StmtTokens, RowTokens, Single, One
<1>5. CsdkInv'
  BY DEF CsdkInv
<1>6. StmtInv'
  BY DEF TypeOK, StmtInv, HoldsStmt
<1>7. RowInv'
  BY DEF TypeOK, RowInv
<1>8. HiddenInv'
  BY DEF TypeOK, HiddenInv, HiddenStmtOwned, RowInv
<1>9. OpenInv'
  BY DEF OpenInv, MutexInv
<1>10. TxInv'
  BY DEF TypeOK, TxInv, TxOwnership
<1>11. ResultBelongsToExec'
  BY DEF TypeOK, ResultBelongsToExec
<1> QED BY <1>1, <1>2, <1>3, <1>4, <1>5, <1>6, <1>7, <1>8, <1>9, <1>10,
   <1>11

\* LastInsertID, under the conn.mu of the execution. Preserves CoreInv.
LEMMA ResultLastStep ==
    ASSUME CoreInv, NEW g \in Goroutines, ResultLast(g)
    PROVE  CoreInv'
<1> USE HandlesAssumption DEF CoreInv, ResultLast, ResultDone, Goto, Return,
        connVars, csdkVars, serverVars, stmtVars, rowVars, lockVars,
        frameVars, Labels, TxMethods, ConnHeld, StmtHeld, RowsHeld, Results
<1>1. TypeOK'
  BY DEF TypeOK
<1>2. MutexInv'
  BY DEF TypeOK, MutexInv, HoldsStmt
<1>3. FrameInv'
  BY DEF TypeOK, FrameInv, HoldsStmt, StmtInv, CsdkInv
<1>4. CountInv'
  BY DEF TypeOK, CountInv, StmtTokens, RowTokens, Single, One
<1>5. CsdkInv'
  BY DEF CsdkInv
<1>6. StmtInv'
  BY DEF TypeOK, StmtInv, HoldsStmt
<1>7. RowInv'
  BY DEF TypeOK, RowInv
<1>8. HiddenInv'
  BY DEF TypeOK, HiddenInv, HiddenStmtOwned
<1>9. OpenInv'
  BY DEF OpenInv, MutexInv
<1>10. TxInv'
  BY DEF TypeOK, TxInv, TxOwnership
<1>11. ResultBelongsToExec'
  BY DEF TypeOK, ResultBelongsToExec
<1> QED BY <1>1, <1>2, <1>3, <1>4, <1>5, <1>6, <1>7, <1>8, <1>9, <1>10,
   <1>11

\* The temporary statement ends before conn.mu is released. Preserves
\* CoreInv.
LEMMA ExecDropStep ==
    ASSUME CoreInv, NEW g \in Goroutines, ExecDrop(g)
    PROVE  CoreInv'
<1> USE HandlesAssumption DEF CoreInv, ExecDrop, NativeStmtClose, Goto,
        Return, connVars, csdkVars, serverVars, stmtVars, rowVars, lockVars,
        frameVars, Labels, TxMethods, ConnHeld, StmtHeld, RowsHeld, Results
<1>1. TypeOK'
  <2>1. csdkChildren' \in Nat /\ children' \in Nat
    BY DEF TypeOK, CsdkInv, StmtInv, One
  <2> QED BY <2>1 DEF TypeOK
<1>2. MutexInv'
  BY DEF TypeOK, MutexInv, HoldsStmt
<1>3. FrameInv'
  BY DEF FrameInv
<1>4. CountInv'
  BY DEF CountInv, StmtTokens, RowTokens, Single, One
<1>5. CsdkInv'
  BY DEF CsdkInv, StmtInv, Single, One
<1>6. StmtInv'
  BY DEF TypeOK, StmtInv, HoldsStmt
<1>7. RowInv'
  BY DEF TypeOK, RowInv
<1>8. HiddenInv'
  BY DEF TypeOK, HiddenInv, HiddenStmtOwned, StmtInv, CsdkInv
<1>9. OpenInv'
  BY DEF OpenInv, MutexInv
<1>10. TxInv'
  BY DEF TypeOK, TxInv, TxOwnership
<1>11. ResultBelongsToExec'
  BY DEF ResultBelongsToExec
<1> QED BY <1>1, <1>2, <1>3, <1>4, <1>5, <1>6, <1>7, <1>8, <1>9, <1>10,
   <1>11

\* Conn.QueryContext: the cursor is not counted yet, but conn.mu is held.
\* Preserves CoreInv.
LEMMA QueryStep ==
    ASSUME CoreInv, NEW g \in Goroutines, Query(g)
    PROVE  CoreInv'
<1> USE HandlesAssumption DEF CoreInv, Query, Enters, NoChildren, FreeRows,
        NativeQuery, Goto, Return, connVars, csdkVars, serverVars, stmtVars,
        rowVars, lockVars, frameVars, Labels, TxMethods, ConnHeld, StmtHeld,
        RowsHeld, Results
<1>1. TypeOK'
  BY DEF TypeOK
<1>2. MutexInv'
  BY DEF TypeOK, MutexInv, HoldsStmt
<1>3. FrameInv'
  BY DEF TypeOK, FrameInv
<1>4. CountInv'
  BY DEF TypeOK, CountInv, StmtTokens, RowTokens, Single, One
<1>5. CsdkInv'
  BY DEF CsdkInv, StmtInv, RowInv, Single, One, MutexInv, CountInv,
     StmtTokens, RowTokens, HoldsStmt
<1>6. StmtInv'
  BY DEF TypeOK, StmtInv, HoldsStmt
<1>7. RowInv'
  BY DEF TypeOK, StmtInv, RowInv, FrameInv, CountInv, StmtTokens, RowTokens,
     One
<1>8. HiddenInv'
  BY DEF TypeOK, HiddenInv, HiddenStmtOwned, FrameInv
<1>9. OpenInv'
  BY DEF OpenInv
<1>10. TxInv'
  BY DEF TypeOK, TxInv, TxOwnership
<1>11. ResultBelongsToExec'
  BY DEF TypeOK, ResultBelongsToExec, MutexInv
<1> QED BY <1>1, <1>2, <1>3, <1>4, <1>5, <1>6, <1>7, <1>8, <1>9, <1>10,
   <1>11

\* newRowsContext: the cursor is counted and handed out, or closed.
\* Preserves CoreInv.
LEMMA QueryMetaStep ==
    ASSUME CoreInv, NEW g \in Goroutines, QueryMeta(g)
    PROVE  CoreInv'
<1> USE HandlesAssumption DEF CoreInv, QueryMeta, NativeRowsClose, Goto,
        Return, connVars, csdkVars, serverVars, stmtVars, rowVars, lockVars,
        frameVars, Labels, TxMethods, ConnHeld, StmtHeld, RowsHeld, Results
<1>1. TypeOK'
  <2>1. csdkChildren' \in Nat /\ children' \in Nat
    BY DEF TypeOK, CsdkInv, RowInv, One
  <2> QED BY <2>1 DEF TypeOK, RowInv
<1>2. MutexInv'
  BY DEF TypeOK, MutexInv, HoldsStmt
<1>3. FrameInv'
  BY DEF FrameInv
<1>4. CountInv'
  BY DEF TypeOK, CountInv, StmtTokens, RowTokens, Single, One, StmtInv,
     FrameInv
<1>5. CsdkInv'
  BY DEF CsdkInv, RowInv, Single, One
<1>6. StmtInv'
  BY DEF TypeOK, StmtInv, MutexInv, HoldsStmt
<1>7. RowInv'
  BY DEF TypeOK, StmtInv, RowInv, MutexInv, FrameInv, CountInv, StmtTokens,
     One, HoldsStmt
<1>8. HiddenInv'
  BY DEF TypeOK, HiddenInv, HiddenStmtOwned, Single, FrameInv
<1>9. OpenInv'
  BY DEF OpenInv, MutexInv
<1>10. TxInv'
  BY DEF TypeOK, TxInv, TxOwnership
<1>11. ResultBelongsToExec'
  BY DEF ResultBelongsToExec
<1> QED BY <1>1, <1>2, <1>3, <1>4, <1>5, <1>6, <1>7, <1>8, <1>9, <1>10,
   <1>11

\* Conn.PrepareContext: the statement is counted as it is made. Preserves
\* CoreInv.
LEMMA PrepareStep ==
    ASSUME CoreInv, NEW g \in Goroutines, Prepare(g)
    PROVE  CoreInv'
<1> USE HandlesAssumption DEF CoreInv, Prepare, Enters, NoChildren,
        PrepareStmt, FreeStmt, NativePrepare, Goto, Return, connVars,
        csdkVars, serverVars, stmtVars, rowVars, lockVars, frameVars,
        Labels, TxMethods, ConnHeld, StmtHeld, RowsHeld, Results
<1>1. TypeOK'
  BY DEF TypeOK
<1>2. MutexInv'
  BY DEF MutexInv, HoldsStmt
<1>3. FrameInv'
  BY DEF FrameInv
<1>4. CountInv'
  BY DEF CountInv, StmtTokens, RowTokens, Single, One
<1>5. CsdkInv'
  BY DEF TypeOK, CsdkInv, StmtInv, Single, One, MutexInv, CountInv,
     StmtTokens
<1>6. StmtInv'
  BY DEF TypeOK, StmtInv, MutexInv, HoldsStmt
<1>7. RowInv'
  BY DEF StmtInv, RowInv, FrameInv, CountInv, StmtTokens, RowTokens, One
<1>8. HiddenInv'
  BY DEF TypeOK, HiddenInv, HiddenStmtOwned, FrameInv
<1>9. OpenInv'
  BY DEF OpenInv
<1>10. TxInv'
  BY DEF TypeOK, TxInv, TxOwnership
<1>11. ResultBelongsToExec'
  BY DEF ResultBelongsToExec
<1> QED BY <1>1, <1>2, <1>3, <1>4, <1>5, <1>6, <1>7, <1>8, <1>9, <1>10,
   <1>11

\* QueryContext with arguments: the goroutine owns the hidden statement.
\* Preserves CoreInv.
LEMMA QueryArgsStep ==
    ASSUME CoreInv, NEW g \in Goroutines, QueryArgs(g)
    PROVE  CoreInv'
<1> USE HandlesAssumption DEF CoreInv, QueryArgs, Enters, NoChildren,
        PrepareStmt, FreeStmt, NativePrepare, Goto, Return, connVars,
        csdkVars, serverVars, stmtVars, rowVars, lockVars, frameVars,
        Labels, TxMethods, ConnHeld, StmtHeld, RowsHeld, Results
<1>1. TypeOK'
  BY DEF TypeOK
<1>2. MutexInv'
  BY DEF TypeOK, MutexInv, HoldsStmt
<1>3. FrameInv'
  BY DEF TypeOK, FrameInv
<1>4. CountInv'
  BY DEF TypeOK, CountInv, StmtTokens, RowTokens, Single, One
<1>5. CsdkInv'
  BY DEF TypeOK, CsdkInv, StmtInv, Single, One, MutexInv, CountInv,
     StmtTokens
<1>6. StmtInv'
  BY DEF TypeOK, StmtInv, MutexInv, HoldsStmt
<1>7. RowInv'
  BY DEF TypeOK, StmtInv, RowInv, FrameInv, CountInv, StmtTokens, RowTokens,
     One
<1>8. HiddenInv'
  BY DEF TypeOK, HiddenInv, HiddenStmtOwned, FrameInv
<1>9. OpenInv'
  BY DEF OpenInv
<1>10. TxInv'
  BY DEF TypeOK, TxInv, TxOwnership
<1>11. ResultBelongsToExec'
  BY DEF TypeOK, ResultBelongsToExec
<1> QED BY <1>1, <1>2, <1>3, <1>4, <1>5, <1>6, <1>7, <1>8, <1>9, <1>10,
   <1>11

\* Binding the arguments: nobody else can reach the hidden statement.
\* Preserves CoreInv.
LEMMA BindArgsStep ==
    ASSUME CoreInv, NEW g \in Goroutines, BindArgs(g)
    PROVE  CoreInv'
<1> USE HandlesAssumption DEF CoreInv, BindArgs, Goto, Return, connVars,
        csdkVars, serverVars, stmtVars, rowVars, lockVars, frameVars,
        Labels, TxMethods, ConnHeld, StmtHeld, RowsHeld, Results
<1>1. TypeOK'
  BY DEF TypeOK
<1>2. MutexInv'
  BY DEF TypeOK, MutexInv, HoldsStmt
<1>3. FrameInv'
  BY DEF TypeOK, FrameInv
<1>4. CountInv'
  BY DEF TypeOK, CountInv, StmtTokens, RowTokens, Single, One
<1>5. CsdkInv'
  BY DEF CsdkInv
<1>6. StmtInv'
  BY DEF TypeOK, StmtInv, HoldsStmt
<1>7. RowInv'
  BY DEF TypeOK, RowInv
<1>8. HiddenInv'
  BY DEF TypeOK, HiddenInv, HiddenStmtOwned
<1>9. OpenInv'
  BY DEF OpenInv, NotBusy
<1>10. TxInv'
  BY DEF TypeOK, TxInv, TxOwnership
<1>11. ResultBelongsToExec'
  BY DEF TypeOK, ResultBelongsToExec
<1> QED BY <1>1, <1>2, <1>3, <1>4, <1>5, <1>6, <1>7, <1>8, <1>9, <1>10,
   <1>11

\* Stmt.query: the cursor is covered by its statement, held by stmt.mu.
\* Preserves CoreInv.
LEMMA StmtQueryStep ==
    ASSUME CoreInv, NEW g \in Goroutines, NEW s \in Stmts, StmtQuery(g, s)
    PROVE  CoreInv'
<1> USE HandlesAssumption DEF CoreInv, StmtQuery, Calls, Usable, FreeRows,
        NativeQuery, LockStmt, Goto, Return, connVars, csdkVars, serverVars,
        stmtVars, rowVars, lockVars, frameVars, Labels, TxMethods, ConnHeld,
        StmtHeld, RowsHeld, Results
<1>1. TypeOK'
  BY DEF TypeOK
<1>2. MutexInv'
  BY DEF TypeOK, MutexInv, HoldsStmt
<1>3. FrameInv'
  BY DEF TypeOK, FrameInv
<1>4. CountInv'
  BY DEF CountInv, StmtTokens, RowTokens, Single, One
<1>5. CsdkInv'
  BY DEF CsdkInv, StmtInv, RowInv, Single, One, MutexInv, CountInv,
     StmtTokens, HoldsStmt, FrameInv
<1>6. StmtInv'
  BY DEF TypeOK, StmtInv, HoldsStmt
<1>7. RowInv'
  BY DEF TypeOK, StmtInv, RowInv
<1>8. HiddenInv'
  BY DEF HiddenInv, HiddenStmtOwned
<1>9. OpenInv'
  BY DEF OpenInv
<1>10. TxInv'
  BY DEF TxInv, TxOwnership
<1>11. ResultBelongsToExec'
  BY DEF ResultBelongsToExec, MutexInv, StmtInv, CountInv, CsdkInv,
     StmtTokens, One, HoldsStmt
<1> QED BY <1>1, <1>2, <1>3, <1>4, <1>5, <1>6, <1>7, <1>8, <1>9, <1>10,
   <1>11

\* Stmt.query refuses or fails: the hidden statement is still owned.
\* Preserves CoreInv.
LEMMA StmtQueryFailsStep ==
    ASSUME CoreInv, NEW g \in Goroutines, StmtQueryFails(g)
    PROVE  CoreInv'
<1> USE HandlesAssumption DEF CoreInv, StmtQueryFails, QueryFailed,
        UnlockStmt, Goto, Return, connVars, csdkVars, serverVars, stmtVars,
        rowVars, lockVars, frameVars, Labels, TxMethods, ConnHeld, StmtHeld,
        RowsHeld, Results
<1>1. TypeOK'
  BY DEF TypeOK
<1>2. MutexInv'
  BY DEF TypeOK, MutexInv, HoldsStmt
<1>3. FrameInv'
  BY DEF TypeOK, FrameInv
<1>4. CountInv'
  BY DEF TypeOK, CountInv, StmtTokens, RowTokens, Single, One
<1>5. CsdkInv'
  BY DEF CsdkInv
<1>6. StmtInv'
  BY DEF TypeOK, StmtInv, HoldsStmt
<1>7. RowInv'
  BY DEF TypeOK, RowInv
<1>8. HiddenInv'
  BY DEF TypeOK, HiddenInv, HiddenStmtOwned
<1>9. OpenInv'
  BY DEF OpenInv, NotBusy
<1>10. TxInv'
  BY DEF TypeOK, TxInv, TxOwnership
<1>11. ResultBelongsToExec'
  BY DEF TypeOK, ResultBelongsToExec
<1> QED BY <1>1, <1>2, <1>3, <1>4, <1>5, <1>6, <1>7, <1>8, <1>9, <1>10,
   <1>11

\* newRowsContext under stmt.mu: the cursor goes on or is closed.
\* Preserves CoreInv.
LEMMA StmtMetaStep ==
    ASSUME CoreInv, NEW g \in Goroutines, StmtMeta(g)
    PROVE  CoreInv'
<1> USE HandlesAssumption DEF CoreInv, StmtMeta, QueryFailed, UnlockStmt,
        NativeRowsClose, Goto, Return, connVars, csdkVars, serverVars,
        stmtVars, rowVars, lockVars, frameVars, Labels, TxMethods, ConnHeld,
        StmtHeld, RowsHeld, Results
<1>1. TypeOK'
  <2>1. csdkChildren' \in Nat /\ children' \in Nat
    BY DEF TypeOK, CsdkInv, RowInv, One
  <2> QED BY <2>1 DEF TypeOK, One, HoldsStmt, CountInv, StmtTokens
<1>2. MutexInv'
  BY DEF TypeOK, MutexInv, HoldsStmt
<1>3. FrameInv'
  BY DEF TypeOK, FrameInv, MutexInv, HoldsStmt
<1>4. CountInv'
  BY DEF TypeOK, CountInv, StmtTokens, RowTokens, Single, One
<1>5. CsdkInv'
  BY DEF CsdkInv, RowInv, Single, One
<1>6. StmtInv'
  BY DEF TypeOK, StmtInv, HoldsStmt
<1>7. RowInv'
  BY DEF TypeOK, StmtInv, RowInv, CsdkInv, MutexInv, FrameInv, CountInv,
     StmtTokens, One, HoldsStmt
<1>8. HiddenInv'
  BY DEF TypeOK, HiddenInv, HiddenStmtOwned
<1>9. OpenInv'
  BY DEF OpenInv, NotBusy
<1>10. TxInv'
  BY DEF TypeOK, TxInv, TxOwnership
<1>11. ResultBelongsToExec'
  BY DEF TypeOK, ResultBelongsToExec
<1> QED BY <1>1, <1>2, <1>3, <1>4, <1>5, <1>6, <1>7, <1>8, <1>9, <1>10,
   <1>11

\* addChild: the Rows is counted and linked to its statement. Preserves
\* CoreInv.
LEMMA AddChildStep ==
    ASSUME CoreInv, NEW g \in Goroutines, AddChild(g)
    PROVE  CoreInv'
<1> USE HandlesAssumption DEF CoreInv, AddChild, QueryFailed, UnlockStmt,
        NativeRowsClose, Goto, Return, connVars, csdkVars, serverVars,
        stmtVars, rowVars, lockVars, frameVars, Labels, TxMethods, ConnHeld,
        StmtHeld, RowsHeld, Results
<1>1. TypeOK'
  <2>1. csdkChildren' \in Nat /\ children' \in Nat
    BY DEF TypeOK, CsdkInv, RowInv, One
  <2> QED BY <2>1 DEF TypeOK, CsdkInv, StmtInv, RowInv, Single, One, MutexInv,
     HoldsStmt, CountInv, RowTokens, FrameInv
<1>2. MutexInv'
  BY DEF TypeOK, MutexInv, HoldsStmt
<1>3. FrameInv'
  BY DEF TypeOK, FrameInv, MutexInv, HoldsStmt
<1>4. CountInv'
  BY DEF TypeOK, CountInv, StmtTokens, RowTokens, Single, One, StmtInv,
     RowInv, HoldsStmt
<1>5. CsdkInv'
  BY DEF CsdkInv, RowInv, Single, One
<1>6. StmtInv'
  BY DEF TypeOK, StmtInv, MutexInv, RowTokens, HoldsStmt
<1>7. RowInv'
  BY DEF TypeOK, StmtInv, RowInv, CsdkInv, Single, MutexInv, HoldsStmt
<1>8. HiddenInv'
  BY DEF TypeOK, HiddenInv, HiddenStmtOwned, RowInv, CsdkInv, One
<1>9. OpenInv'
  BY DEF OpenInv, NotBusy
<1>10. TxInv'
  BY DEF TypeOK, TxInv, TxOwnership
<1>11. ResultBelongsToExec'
  BY DEF TypeOK, ResultBelongsToExec
<1> QED BY <1>1, <1>2, <1>3, <1>4, <1>5, <1>6, <1>7, <1>8, <1>9, <1>10,
   <1>11

\* Stmt.Close: the count outlives the native statement until released.
\* Preserves CoreInv.
LEMMA StmtCloseStep ==
    ASSUME CoreInv, NEW g \in Goroutines, NEW s \in Stmts, StmtClose(g, s)
    PROVE  CoreInv'
<1> USE HandlesAssumption DEF CoreInv, StmtClose, Calls, Usable, DropStmt,
        NativeStmtClose, LockStmt, Goto, Return, connVars, csdkVars,
        serverVars, stmtVars, rowVars, lockVars, frameVars, Labels,
        TxMethods, ConnHeld, StmtHeld, RowsHeld, Results
<1>1. TypeOK'
  <2>1. csdkChildren' \in Nat /\ children' \in Nat
    BY DEF TypeOK, CsdkInv, One
  <2> QED BY <2>1 DEF TypeOK
<1>2. MutexInv'
  BY DEF TypeOK, MutexInv, HoldsStmt
<1>3. FrameInv'
  BY DEF TypeOK, FrameInv
<1>4. CountInv'
  BY DEF TypeOK, CountInv, StmtTokens, RowTokens, Single, One
<1>5. CsdkInv'
  BY DEF CsdkInv, Single, One
<1>6. StmtInv'
  BY DEF TypeOK, StmtInv, MutexInv, HoldsStmt
<1>7. RowInv'
  BY DEF TypeOK, RowInv
<1>8. HiddenInv'
  BY DEF TypeOK, HiddenInv, HiddenStmtOwned, MutexInv
<1>9. OpenInv'
  BY DEF OpenInv, NotBusy
<1>10. TxInv'
  BY DEF TypeOK, TxInv, TxOwnership
<1>11. ResultBelongsToExec'
  BY DEF TypeOK, ResultBelongsToExec
<1> QED BY <1>1, <1>2, <1>3, <1>4, <1>5, <1>6, <1>7, <1>8, <1>9, <1>10,
   <1>11

\* releaseChild: the goroutine's token leaves with its unit of children.
\* Preserves CoreInv.
LEMMA ReleaseChildStep ==
    ASSUME CoreInv, NEW g \in Goroutines, ReleaseChild(g)
    PROVE  CoreInv'
<1> USE HandlesAssumption DEF CoreInv, ReleaseChild, ReleaseOne, Goto,
        Return, connVars, csdkVars, serverVars, stmtVars, rowVars, lockVars,
        frameVars, Labels, TxMethods, ConnHeld, StmtHeld, RowsHeld, Results
<1>1. TypeOK'
  BY DEF TypeOK
<1>2. MutexInv'
  BY DEF TypeOK, MutexInv, HoldsStmt
<1>3. FrameInv'
  BY DEF TypeOK, FrameInv
<1>4. CountInv'
  BY DEF TypeOK, CountInv, StmtTokens, RowTokens, Single, One
<1>5. CsdkInv'
  BY DEF CsdkInv
<1>6. StmtInv'
  BY DEF StmtInv, HoldsStmt
<1>7. RowInv'
  BY DEF RowInv
<1>8. HiddenInv'
  BY DEF TypeOK, HiddenInv, HiddenStmtOwned, StmtInv, Single, CountInv,
     StmtTokens
<1>9. OpenInv'
  BY DEF OpenInv, NotBusy
<1>10. TxInv'
  BY DEF TypeOK, TxInv, TxOwnership
<1>11. ResultBelongsToExec'
  BY DEF ResultBelongsToExec
<1> QED BY <1>1, <1>2, <1>3, <1>4, <1>5, <1>6, <1>7, <1>8, <1>9, <1>10,
   <1>11

\* Stmt.ExecContext takes stmt.mu. Preserves CoreInv.
LEMMA StmtExecStep ==
    ASSUME CoreInv, NEW g \in Goroutines, NEW s \in Stmts, StmtExec(g, s)
    PROVE  CoreInv'
<1> USE HandlesAssumption DEF CoreInv, StmtExec, Usable, LockStmt, Goto,
        Return, connVars, csdkVars, serverVars, stmtVars, rowVars, lockVars,
        frameVars, Labels, TxMethods, ConnHeld, StmtHeld, RowsHeld, Results
<1>1. TypeOK'
  BY DEF TypeOK
<1>2. MutexInv'
  BY DEF TypeOK, MutexInv, HoldsStmt
<1>3. FrameInv'
  BY DEF TypeOK, FrameInv
<1>4. CountInv'
  BY DEF CountInv, StmtTokens, RowTokens, Single, One
<1>5. CsdkInv'
  BY DEF CsdkInv
<1>6. StmtInv'
  BY DEF TypeOK, StmtInv, HoldsStmt
<1>7. RowInv'
  BY DEF RowInv
<1>8. HiddenInv'
  BY DEF TypeOK, HiddenInv, HiddenStmtOwned
<1>9. OpenInv'
  BY DEF OpenInv, NotBusy
<1>10. TxInv'
  BY DEF TxInv, TxOwnership
<1>11. ResultBelongsToExec'
  BY DEF ResultBelongsToExec
<1> QED BY <1>1, <1>2, <1>3, <1>4, <1>5, <1>6, <1>7, <1>8, <1>9, <1>10,
   <1>11

\* Stmt.ExecContext executes under stmt.mu and conn.mu. Preserves CoreInv.
LEMMA StmtExecRunStep ==
    ASSUME CoreInv, NEW g \in Goroutines, StmtExecRun(g)
    PROVE  CoreInv'
<1> USE HandlesAssumption DEF CoreInv, StmtExecRun, Goto, Return, connVars,
        csdkVars, serverVars, stmtVars, rowVars, lockVars, frameVars,
        Labels, TxMethods, ConnHeld, StmtHeld, RowsHeld, Results
<1>1. TypeOK'
  BY DEF TypeOK
<1>2. MutexInv'
  BY DEF TypeOK, MutexInv, HoldsStmt
<1>3. FrameInv'
  BY DEF TypeOK, FrameInv
<1>4. CountInv'
  BY DEF TypeOK, CountInv, StmtTokens, RowTokens, Single, One
<1>5. CsdkInv'
  BY DEF CsdkInv
<1>6. StmtInv'
  BY DEF TypeOK, StmtInv, HoldsStmt
<1>7. RowInv'
  BY DEF TypeOK, RowInv
<1>8. HiddenInv'
  BY DEF TypeOK, HiddenInv, HiddenStmtOwned
<1>9. OpenInv'
  BY DEF OpenInv, NotBusy
<1>10. TxInv'
  BY DEF TypeOK, TxInv, TxOwnership
<1>11. ResultBelongsToExec'
  BY DEF TypeOK, ResultBelongsToExec, MutexInv
<1> QED BY <1>1, <1>2, <1>3, <1>4, <1>5, <1>6, <1>7, <1>8, <1>9, <1>10,
   <1>11

\* Stmt.ResetContext takes stmt.mu. Preserves CoreInv.
LEMMA ResetStep ==
    ASSUME CoreInv, NEW g \in Goroutines, NEW s \in Stmts, Reset(g, s)
    PROVE  CoreInv'
<1> USE HandlesAssumption DEF CoreInv, Reset, Usable, LockStmt, Goto,
        Return, connVars, csdkVars, serverVars, stmtVars, rowVars, lockVars,
        frameVars, Labels, TxMethods, ConnHeld, StmtHeld, RowsHeld, Results
<1>1. TypeOK'
  BY DEF TypeOK
<1>2. MutexInv'
  BY DEF TypeOK, MutexInv, HoldsStmt
<1>3. FrameInv'
  BY DEF TypeOK, FrameInv
<1>4. CountInv'
  BY DEF CountInv, StmtTokens, RowTokens, Single, One
<1>5. CsdkInv'
  BY DEF CsdkInv
<1>6. StmtInv'
  BY DEF TypeOK, StmtInv, HoldsStmt
<1>7. RowInv'
  BY DEF RowInv
<1>8. HiddenInv'
  BY DEF TypeOK, HiddenInv, HiddenStmtOwned
<1>9. OpenInv'
  BY DEF OpenInv, NotBusy
<1>10. TxInv'
  BY DEF TxInv, TxOwnership
<1>11. ResultBelongsToExec'
  BY DEF ResultBelongsToExec
<1> QED BY <1>1, <1>2, <1>3, <1>4, <1>5, <1>6, <1>7, <1>8, <1>9, <1>10,
   <1>11

\* ResetContext closes the native statement under both mutexes. Preserves
\* CoreInv.
LEMMA ResetCloseStep ==
    ASSUME CoreInv, NEW g \in Goroutines, ResetClose(g)
    PROVE  CoreInv'
<1> USE HandlesAssumption DEF CoreInv, ResetClose, NativeStmtClose, Goto,
        Return, connVars, csdkVars, serverVars, stmtVars, rowVars, lockVars,
        frameVars, Labels, TxMethods, ConnHeld, StmtHeld, RowsHeld, Results
<1>1. TypeOK'
  <2>1. csdkChildren' \in Nat /\ children' \in Nat
    BY DEF TypeOK, CsdkInv, StmtInv, One, HoldsStmt
  <2> QED BY <2>1 DEF TypeOK, One, HoldsStmt, RowTokens, FrameInv
<1>2. MutexInv'
  BY DEF TypeOK, MutexInv, HoldsStmt
<1>3. FrameInv'
  BY DEF TypeOK, FrameInv
<1>4. CountInv'
  BY DEF TypeOK, CountInv, StmtTokens, RowTokens, Single, One
<1>5. CsdkInv'
  BY DEF CsdkInv, StmtInv, Single, One, HoldsStmt
<1>6. StmtInv'
  BY DEF TypeOK, StmtInv, MutexInv, HoldsStmt
<1>7. RowInv'
  BY DEF TypeOK, StmtInv, RowInv, HoldsStmt
<1>8. HiddenInv'
  BY DEF TypeOK, HiddenInv, HiddenStmtOwned
<1>9. OpenInv'
  BY DEF OpenInv, NotBusy
<1>10. TxInv'
  BY DEF TypeOK, TxInv, TxOwnership
<1>11. ResultBelongsToExec'
  BY DEF TypeOK, ResultBelongsToExec
<1> QED BY <1>1, <1>2, <1>3, <1>4, <1>5, <1>6, <1>7, <1>8, <1>9, <1>10,
   <1>11

\* ResetContext prepares again, or gives its count back. Preserves
\* CoreInv.
LEMMA ResetPrepareStep ==
    ASSUME CoreInv, NEW g \in Goroutines, ResetPrepare(g)
    PROVE  CoreInv'
<1> USE HandlesAssumption DEF CoreInv, ResetPrepare, NativePrepare, Goto,
        Return, connVars, csdkVars, serverVars, stmtVars, rowVars, lockVars,
        frameVars, Labels, TxMethods, ConnHeld, StmtHeld, RowsHeld, Results
<1>1. TypeOK'
  <2>1. csdkChildren' \in Nat /\ children' \in Nat
    BY DEF TypeOK, One, CountInv, StmtTokens
  <2> QED BY <2>1 DEF TypeOK, StmtInv
<1>2. MutexInv'
  BY DEF TypeOK, MutexInv, HoldsStmt
<1>3. FrameInv'
  BY DEF TypeOK, FrameInv
<1>4. CountInv'
  BY DEF TypeOK, CountInv, StmtTokens, RowTokens, Single, One
<1>5. CsdkInv'
  BY DEF TypeOK, CsdkInv, StmtInv, Single, One, MutexInv, CountInv,
     StmtTokens
<1>6. StmtInv'
  BY DEF TypeOK, StmtInv, MutexInv, HoldsStmt
<1>7. RowInv'
  BY DEF RowInv
<1>8. HiddenInv'
  BY DEF TypeOK, HiddenInv, HiddenStmtOwned
<1>9. OpenInv'
  BY DEF OpenInv, MutexInv
<1>10. TxInv'
  BY DEF TypeOK, TxInv, TxOwnership
<1>11. ResultBelongsToExec'
  BY DEF ResultBelongsToExec
<1> QED BY <1>1, <1>2, <1>3, <1>4, <1>5, <1>6, <1>7, <1>8, <1>9, <1>10,
   <1>11

\* Rows.Close: the closing goroutine takes the place of the Rows.
\* Preserves CoreInv.
LEMMA RowsCloseStep ==
    ASSUME CoreInv, NEW g \in Goroutines, NEW r \in Rows, RowsClose(g, r)
    PROVE  CoreInv'
<1> USE HandlesAssumption DEF CoreInv, RowsClose, NativeRowsClose, Goto,
        Return, connVars, csdkVars, serverVars, stmtVars, rowVars, lockVars,
        frameVars, Labels, TxMethods, ConnHeld, StmtHeld, RowsHeld, Results
<1>1. TypeOK'
  <2>1. csdkChildren' \in Nat /\ children' \in Nat
    BY DEF TypeOK, CsdkInv, RowInv, One
  <2> QED BY <2>1 DEF TypeOK
<1>2. MutexInv'
  BY DEF MutexInv, HoldsStmt
<1>3. FrameInv'
  BY DEF TypeOK, FrameInv
<1>4. CountInv'
  BY DEF TypeOK, CountInv, StmtTokens, RowTokens, Single, One
<1>5. CsdkInv'
  BY DEF CsdkInv, RowInv, Single, One
<1>6. StmtInv'
  BY DEF StmtInv, One, HoldsStmt
<1>7. RowInv'
  BY DEF TypeOK, RowInv, CsdkInv, Single
<1>8. HiddenInv'
  BY DEF TypeOK, HiddenInv, HiddenStmtOwned, RowInv
<1>9. OpenInv'
  BY DEF OpenInv, NotBusy
<1>10. TxInv'
  BY DEF TxInv, TxOwnership
<1>11. ResultBelongsToExec'
  BY DEF ResultBelongsToExec
<1> QED BY <1>1, <1>2, <1>3, <1>4, <1>5, <1>6, <1>7, <1>8, <1>9, <1>10,
   <1>11

\* Rows.Close gives the connection's unit back. Preserves CoreInv.
LEMMA RowsReleaseConnStep ==
    ASSUME CoreInv, NEW g \in Goroutines, RowsReleaseConn(g)
    PROVE  CoreInv'
<1> USE HandlesAssumption DEF CoreInv, RowsReleaseConn, ReleaseOne, Goto,
        Return, connVars, csdkVars, serverVars, stmtVars, rowVars, lockVars,
        frameVars, Labels, TxMethods, ConnHeld, StmtHeld, RowsHeld, Results
<1>1. TypeOK'
  BY DEF TypeOK
<1>2. MutexInv'
  BY DEF TypeOK, MutexInv, HoldsStmt
<1>3. FrameInv'
  BY DEF TypeOK, FrameInv
<1>4. CountInv'
  BY DEF TypeOK, CountInv, StmtTokens, RowTokens, Single, One
<1>5. CsdkInv'
  BY DEF CsdkInv
<1>6. StmtInv'
  BY DEF TypeOK, StmtInv, HoldsStmt
<1>7. RowInv'
  BY DEF TypeOK, RowInv
<1>8. HiddenInv'
  BY DEF TypeOK, HiddenInv, HiddenStmtOwned
<1>9. OpenInv'
  BY DEF OpenInv, NotBusy
<1>10. TxInv'
  BY DEF TypeOK, TxInv, TxOwnership
<1>11. ResultBelongsToExec'
  BY DEF TypeOK, ResultBelongsToExec
<1> QED BY <1>1, <1>2, <1>3, <1>4, <1>5, <1>6, <1>7, <1>8, <1>9, <1>10,
   <1>11

\* Stmt.releaseRow: the last Rows of a hidden statement closes it.
\* Preserves CoreInv.
LEMMA ReleaseRowStep ==
    ASSUME CoreInv, NEW g \in Goroutines, ReleaseRow(g)
    PROVE  CoreInv'
<1> USE HandlesAssumption DEF CoreInv, ReleaseRow, DropStmt,
        NativeStmtClose, LockStmt, Goto, Return, connVars, csdkVars,
        serverVars, stmtVars, rowVars, lockVars, frameVars, Labels,
        TxMethods, ConnHeld, StmtHeld, RowsHeld, Results
<1>1. TypeOK'
  <2>1. csdkChildren' \in Nat /\ children' \in Nat
    BY DEF TypeOK, CsdkInv, One
  <2> QED BY <2>1 DEF TypeOK, FrameInv
<1>2. MutexInv'
  BY DEF TypeOK, MutexInv, HoldsStmt
<1>3. FrameInv'
  BY DEF TypeOK, FrameInv
<1>4. CountInv'
  BY DEF TypeOK, CountInv, StmtTokens, RowTokens, Single, One
<1>5. CsdkInv'
  BY DEF CsdkInv, Single, One
<1>6. StmtInv'
  BY DEF TypeOK, StmtInv, MutexInv, One, HoldsStmt
<1>7. RowInv'
  BY DEF TypeOK, RowInv
<1>8. HiddenInv'
  BY DEF TypeOK, HiddenInv, HiddenStmtOwned, StmtInv, RowInv, CsdkInv,
     StmtTokens
<1>9. OpenInv'
  BY DEF OpenInv, NotBusy
<1>10. TxInv'
  BY DEF TypeOK, TxInv, TxOwnership
<1>11. ResultBelongsToExec'
  BY DEF TypeOK, ResultBelongsToExec
<1> QED BY <1>1, <1>2, <1>3, <1>4, <1>5, <1>6, <1>7, <1>8, <1>9, <1>10,
   <1>11

\* Conn.BeginContext: no other Tx is live. Preserves CoreInv.
LEMMA BeginStep ==
    ASSUME CoreInv, NEW g \in Goroutines, Begin(g)
    PROVE  CoreInv'
<1> USE HandlesAssumption DEF CoreInv, Begin, NotBusy, Goto, Return,
        connVars, csdkVars, serverVars, stmtVars, rowVars, lockVars,
        frameVars, Labels, TxMethods, ConnHeld, StmtHeld, RowsHeld, Results
<1>1. TypeOK'
  BY DEF TypeOK
<1>2. MutexInv'
  BY DEF MutexInv, HoldsStmt
<1>3. FrameInv'
  BY DEF FrameInv
<1>4. CountInv'
  BY DEF CountInv, StmtTokens, RowTokens
<1>5. CsdkInv'
  BY DEF CsdkInv
<1>6. StmtInv'
  BY DEF StmtInv, HoldsStmt
<1>7. RowInv'
  BY DEF RowInv
<1>8. HiddenInv'
  BY DEF HiddenInv, HiddenStmtOwned
<1>9. OpenInv'
  BY DEF OpenInv
<1>10. TxInv'
  BY DEF TxInv, TxOwnership
<1>11. ResultBelongsToExec'
  BY DEF ResultBelongsToExec
<1> QED BY <1>1, <1>2, <1>3, <1>4, <1>5, <1>6, <1>7, <1>8, <1>9, <1>10,
   <1>11

\* The implicit Commit and Rollback. Preserves CoreInv.
LEMMA FinishImplicitStep ==
    ASSUME CoreInv, NEW g \in Goroutines, FinishImplicit(g)
    PROVE  CoreInv'
<1> USE HandlesAssumption DEF CoreInv, FinishImplicit, NotBusy, Goto,
        Return, connVars, csdkVars, serverVars, stmtVars, rowVars, lockVars,
        frameVars, Labels, TxMethods, ConnHeld, StmtHeld, RowsHeld, Results
<1>1. TypeOK'
  BY DEF TypeOK
<1>2. MutexInv'
  BY DEF MutexInv, HoldsStmt
<1>3. FrameInv'
  BY DEF FrameInv
<1>4. CountInv'
  BY DEF CountInv, StmtTokens, RowTokens
<1>5. CsdkInv'
  BY DEF CsdkInv
<1>6. StmtInv'
  BY DEF StmtInv, HoldsStmt
<1>7. RowInv'
  BY DEF RowInv
<1>8. HiddenInv'
  BY DEF HiddenInv, HiddenStmtOwned
<1>9. OpenInv'
  BY DEF OpenInv
<1>10. TxInv'
  BY DEF TxInv, TxOwnership
<1>11. ResultBelongsToExec'
  BY DEF ResultBelongsToExec
<1> QED BY <1>1, <1>2, <1>3, <1>4, <1>5, <1>6, <1>7, <1>8, <1>9, <1>10,
   <1>11

\* A Tx method read-locks a live Tx. Preserves CoreInv.
LEMMA TxCallStep ==
    ASSUME CoreInv, NEW g \in Goroutines, NEW t \in Txs, NEW m \in TxMethods, TxCall(g, t, m)
    PROVE  CoreInv'
<1> USE HandlesAssumption DEF CoreInv, TxCall, Goto, Return, connVars,
        csdkVars, serverVars, stmtVars, rowVars, lockVars, frameVars,
        Labels, TxMethods, ConnHeld, StmtHeld, RowsHeld, Results
<1>1. TypeOK'
  BY DEF TypeOK
<1>2. MutexInv'
  BY DEF MutexInv, HoldsStmt
<1>3. FrameInv'
  BY DEF FrameInv
<1>4. CountInv'
  BY DEF CountInv, StmtTokens, RowTokens, Single, One
<1>5. CsdkInv'
  BY DEF CsdkInv
<1>6. StmtInv'
  BY DEF StmtInv, HoldsStmt
<1>7. RowInv'
  BY DEF RowInv
<1>8. HiddenInv'
  BY DEF HiddenInv, HiddenStmtOwned
<1>9. OpenInv'
  BY DEF OpenInv, NotBusy
<1>10. TxInv'
  BY DEF TxInv, TxOwnership
<1>11. ResultBelongsToExec'
  BY DEF ResultBelongsToExec
<1> QED BY <1>1, <1>2, <1>3, <1>4, <1>5, <1>6, <1>7, <1>8, <1>9, <1>10,
   <1>11

\* The Conn method refuses a call from a Tx method. Preserves CoreInv.
LEMMA RefusedStep ==
    ASSUME CoreInv, NEW g \in Goroutines, Refused(g)
    PROVE  CoreInv'
<1> USE HandlesAssumption DEF CoreInv, Refused, NoChildren, Goto, Return,
        connVars, csdkVars, serverVars, stmtVars, rowVars, lockVars,
        frameVars, Labels, TxMethods, ConnHeld, StmtHeld, RowsHeld, Results
<1>1. TypeOK'
  BY DEF TypeOK
<1>2. MutexInv'
  BY DEF MutexInv, HoldsStmt
<1>3. FrameInv'
  BY DEF FrameInv
<1>4. CountInv'
  BY DEF CountInv, StmtTokens, RowTokens, Single, One
<1>5. CsdkInv'
  BY DEF CsdkInv
<1>6. StmtInv'
  BY DEF StmtInv, HoldsStmt
<1>7. RowInv'
  BY DEF RowInv
<1>8. HiddenInv'
  BY DEF TypeOK, HiddenInv, HiddenStmtOwned, FrameInv
<1>9. OpenInv'
  BY DEF OpenInv, NotBusy
<1>10. TxInv'
  BY DEF TypeOK, TxInv, TxOwnership
<1>11. ResultBelongsToExec'
  BY DEF ResultBelongsToExec
<1> QED BY <1>1, <1>2, <1>3, <1>4, <1>5, <1>6, <1>7, <1>8, <1>9, <1>10,
   <1>11

\* A Tx method returns because its context is cancelled. Preserves
\* CoreInv.
LEMMA CancelledStep ==
    ASSUME CoreInv, NEW g \in Goroutines, Cancelled(g)
    PROVE  CoreInv'
<1> USE HandlesAssumption DEF CoreInv, Cancelled, Goto, Return, connVars,
        csdkVars, serverVars, stmtVars, rowVars, lockVars, frameVars,
        Labels, TxMethods, ConnHeld, StmtHeld, RowsHeld, Results
<1>1. TypeOK'
  BY DEF TypeOK
<1>2. MutexInv'
  BY DEF MutexInv, HoldsStmt
<1>3. FrameInv'
  BY DEF FrameInv
<1>4. CountInv'
  BY DEF CountInv, StmtTokens, RowTokens, Single, One
<1>5. CsdkInv'
  BY DEF CsdkInv
<1>6. StmtInv'
  BY DEF StmtInv, HoldsStmt
<1>7. RowInv'
  BY DEF RowInv
<1>8. HiddenInv'
  BY DEF TypeOK, HiddenInv, HiddenStmtOwned, FrameInv
<1>9. OpenInv'
  BY DEF OpenInv, NotBusy
<1>10. TxInv'
  BY DEF TypeOK, TxInv, TxOwnership
<1>11. ResultBelongsToExec'
  BY DEF ResultBelongsToExec
<1> QED BY <1>1, <1>2, <1>3, <1>4, <1>5, <1>6, <1>7, <1>8, <1>9, <1>10,
   <1>11

\* Tx.finish locks a Tx nobody else is using. Preserves CoreInv.
LEMMA TxFinishStep ==
    ASSUME CoreInv, NEW g \in Goroutines, NEW t \in Txs, TxFinish(g, t)
    PROVE  CoreInv'
<1> USE HandlesAssumption DEF CoreInv, TxFinish, Goto, Return, connVars,
        csdkVars, serverVars, stmtVars, rowVars, lockVars, frameVars,
        Labels, TxMethods, ConnHeld, StmtHeld, RowsHeld, Results
<1>1. TypeOK'
  BY DEF TypeOK
<1>2. MutexInv'
  BY DEF MutexInv, HoldsStmt
<1>3. FrameInv'
  BY DEF FrameInv
<1>4. CountInv'
  BY DEF CountInv, StmtTokens, RowTokens, Single, One
<1>5. CsdkInv'
  BY DEF CsdkInv
<1>6. StmtInv'
  BY DEF StmtInv, HoldsStmt
<1>7. RowInv'
  BY DEF RowInv
<1>8. HiddenInv'
  BY DEF HiddenInv, HiddenStmtOwned
<1>9. OpenInv'
  BY DEF OpenInv, NotBusy
<1>10. TxInv'
  BY DEF TypeOK, TxInv, TxOwnership
<1>11. ResultBelongsToExec'
  BY DEF ResultBelongsToExec
<1> QED BY <1>1, <1>2, <1>3, <1>4, <1>5, <1>6, <1>7, <1>8, <1>9, <1>10,
   <1>11

\* Tx.finish ends the only live Tx, or leaves everything as it is.
\* Preserves CoreInv.
LEMMA TxFinishRunStep ==
    ASSUME CoreInv, NEW g \in Goroutines, TxFinishRun(g)
    PROVE  CoreInv'
<1> USE HandlesAssumption DEF CoreInv, TxFinishRun, NoChildren, Goto,
        Return, connVars, csdkVars, serverVars, stmtVars, rowVars, lockVars,
        frameVars, Labels, TxMethods, ConnHeld, StmtHeld, RowsHeld, Results
<1>1. TypeOK'
  BY DEF TypeOK
<1>2. MutexInv'
  BY DEF MutexInv, HoldsStmt
<1>3. FrameInv'
  BY DEF FrameInv
<1>4. CountInv'
  BY DEF CountInv, StmtTokens, RowTokens, Single, One
<1>5. CsdkInv'
  BY DEF CsdkInv
<1>6. StmtInv'
  BY DEF StmtInv, HoldsStmt
<1>7. RowInv'
  BY DEF RowInv
<1>8. HiddenInv'
  BY DEF TypeOK, HiddenInv, HiddenStmtOwned, FrameInv
<1>9. OpenInv'
  BY DEF OpenInv, NotBusy
<1>10. TxInv'
  BY DEF TypeOK, TxInv, TxOwnership
<1>11. ResultBelongsToExec'
  BY DEF ResultBelongsToExec
<1> QED BY <1>1, <1>2, <1>3, <1>4, <1>5, <1>6, <1>7, <1>8, <1>9, <1>10,
   <1>11
(***************************************************************************)
(* What the invariant says of a connection without children.               *)
(***************************************************************************)
\* A connection that nobody has locked and that counts no child has no
\* native statement and no cursor: what Close, SetDatabase, Begin and the
\* ends of a transaction rely on when they look at children alone.
LEMMA NoNativeObjects ==
    ASSUME CoreInv, connMu = Nil, children = 0
    PROVE  vms = {} /\ cursors = {} /\ csdkChildren = 0
<1> USE HandlesAssumption DEF CoreInv
<1>1. registered = {} /\ linked = {}
  BY DEF CountInv, StmtTokens, RowTokens, One
<1>2. \A g \in Goroutines : pc[g] \notin ConnHeld
  BY DEF MutexInv, HoldsStmt, ConnHeld
<1>3. vms = {}
  BY <1>1, <1>2 DEF TypeOK, StmtInv, MutexInv, FrameInv, HoldsStmt, Results, ConnHeld
<1>4. \A g \in Goroutines : pc[g] \notin {"stmt.meta", "stmt.addChild"}
  BY <1>3 DEF StmtInv, HoldsStmt, StmtHeld
<1>5. cursors = {}
  BY <1>1, <1>2, <1>4 DEF RowInv, ConnHeld
<1> QED BY <1>3, <1>5 DEF CsdkInv, One

(***************************************************************************)
(* The safety properties.                                                  *)
(***************************************************************************)
\* Every step of the specification keeps the inductive invariant.
LEMMA NextStep ==
    ASSUME CoreInv, [Next]_vars
    PROVE  CoreInv'
<1>1. CASE Open
  BY <1>1, OpenStep
<1>2. ASSUME NEW g \in Goroutines, Start(g) PROVE CoreInv'
  BY <1>2, CloseStep, SetDatabaseStep, ExecStep, ExecPrepareStep, QueryStep,
     PrepareStep, QueryArgsStep, StmtQueryStep, StmtCloseStep, StmtExecStep,
     ResetStep, RowsCloseStep, BeginStep, FinishImplicitStep, TxFinishStep,
     TxCallStep DEF Start
<1>3. ASSUME NEW g \in Goroutines, Continue(g) PROVE CoreInv'
  BY <1>3, ExecTempStep, ResultRowsStep, ResultLastStep, ExecDropStep,
     QueryMetaStep, BindArgsStep, StmtQueryFailsStep, StmtMetaStep,
     AddChildStep, ReleaseChildStep, StmtExecRunStep, ResetCloseStep,
     ResetPrepareStep, RowsReleaseConnStep, ReleaseRowStep, RefusedStep,
     TxFinishRunStep DEF Continue
<1>4. ASSUME NEW g \in Goroutines, Cancelled(g) PROVE CoreInv'
  BY <1>4, CancelledStep
<1>5. CASE UNCHANGED vars
  BY <1>5 DEF CoreInv, TypeOK, MutexInv, FrameInv, CountInv, CsdkInv, StmtInv,
     RowInv, HiddenInv, HiddenStmtOwned, OpenInv, TxInv, TxOwnership,
     ResultBelongsToExec, HoldsStmt, StmtTokens, RowTokens, NotBusy, vars,
     connVars, csdkVars, serverVars, stmtVars, rowVars, lockVars, frameVars
<1> QED BY <1>1, <1>2, <1>3, <1>4, <1>5 DEF Next

\* The connection OpenContext returns satisfies the invariant.
LEMMA InitCoreInv == Init => CoreInv
<1> SUFFICES ASSUME Init PROVE CoreInv
  OBVIOUS
<1> USE HandlesAssumption DEF Init
<1>1. TypeOK
  BY DEF TypeOK, Labels
<1>2. MutexInv /\ FrameInv
  BY DEF MutexInv, FrameInv, HoldsStmt, Results, ConnHeld, StmtHeld, TxMethods
<1>3. CountInv /\ CsdkInv
  BY DEF CountInv, CsdkInv, StmtTokens, RowTokens, Single, One
<1>4. StmtInv
  BY DEF StmtInv, HoldsStmt, Results, StmtHeld
<1>5. RowInv
  BY DEF RowInv, RowsHeld
<1>6. HiddenInv /\ OpenInv /\ TxInv /\ ResultBelongsToExec
  BY DEF HiddenInv, HiddenStmtOwned, OpenInv, NotBusy, TxInv, TxOwnership,
     ResultBelongsToExec, Results
<1> QED BY <1>1, <1>2, <1>3, <1>4, <1>5, <1>6 DEF CoreInv

\* However many goroutines and handles there are, each unit of Conn.children
\* and csdk.Conn.children stands for one statement or one cursor in one of
\* the places the invariant lists.
THEOREM CoreInvariant == Spec => []CoreInv
<1>1. Init => CoreInv
  BY InitCoreInv
<1>2. CoreInv /\ [Next]_vars => CoreInv'
  BY NextStep
<1> QED BY <1>1, <1>2, PTL DEF Spec

\* Every variable has its type; no count goes below zero.
THEOREM TypeCorrect == Spec => []TypeOK
<1>1. CoreInv => TypeOK
  BY DEF CoreInv
<1> QED BY <1>1, CoreInvariant, PTL

\* Stmt.Close, Rows.Close and Stmt.query never reach a native connection
\* that Conn.Close has already freed.
THEOREM NativeObjectsInsideConn == Spec => []NoDanglingNative
<1>1. CoreInv => NoDanglingNative
  BY NoNativeObjects DEF CoreInv, OpenInv, NotBusy, NoDanglingNative
<1> QED BY <1>1, CoreInvariant, PTL

\* csdk.Conn.Close never refuses what Conn.Close has let through.
THEOREM CloseReachesNative == Spec => []CloseNeverRefusedBelow
<1>1. CoreInv => CloseNeverRefusedBelow
  BY NoNativeObjects DEF NotBusy, CloseNeverRefusedBelow
<1> QED BY <1>1, CoreInvariant, PTL

\* Between calls every counted native object is in a handle of the caller.
THEOREM NothingLeaks == Spec => []NoLeak
<1>1. CoreInv => NoLeak
  <2> SUFFICES ASSUME CoreInv, Quiescent
               PROVE  /\ children = csdkChildren
                      /\ vms \subseteq registered /\ cursors = linked
                      /\ csdkChildren = One(vms) + One(cursors)
    BY DEF NoLeak, One
  <2> USE DEF CoreInv, Quiescent
  <2>1. StmtTokens = registered /\ RowTokens = linked
    BY DEF StmtTokens, RowTokens
  <2>2. vms \subseteq registered /\ registered \subseteq vms
    BY DEF TypeOK, StmtInv, Results, HoldsStmt
  <2>3. cursors \subseteq linked /\ linked \subseteq cursors
    BY DEF TypeOK, RowInv
  <2> QED BY <2>1, <2>2, <2>3 DEF CountInv, CsdkInv
<1> QED BY <1>1, CoreInvariant, PTL

\* A prepared statement that is alive is the one the session's VM holds.
THEOREM VMHoldsLiveStatement == Spec => []VMIntegrity
<1>1. CoreInv => VMIntegrity
  BY DEF CoreInv, CsdkInv, VMIntegrity
<1> QED BY <1>1, CoreInvariant, PTL

\* The metrics in a Result are those of the goroutine's own statement.
THEOREM ResultsAreOwn == Spec => []ResultBelongsToExec
<1>1. CoreInv => ResultBelongsToExec
  BY DEF CoreInv
<1> QED BY <1>1, CoreInvariant, PTL

\* Somebody can always still close the statement QueryContext prepared.
THEOREM HiddenStmtNeverLost == Spec => []HiddenStmtOwned
<1>1. CoreInv => HiddenStmtOwned
  BY DEF CoreInv, HiddenInv
<1> QED BY <1>1, CoreInvariant, PTL

\* Conn.txActive is set exactly while one Tx is live.
THEOREM OneTx == Spec => []TxOwnership
<1>1. CoreInv => TxOwnership
  BY DEF CoreInv, TxInv
<1> QED BY <1>1, CoreInvariant, PTL

(***************************************************************************)
(* What a step may do to the server transaction.                           *)
(***************************************************************************)
\* Only the Tx a transaction belongs to ends it: the implicit Commit and
\* Rollback, Begin and OpenContext never meet one.
THEOREM OnlyOwnTxEnds == Spec => TxEndsByItself
<1>1. ASSUME CoreInv, [Next]_vars, serverTx \in txLive, serverTx' # serverTx
      PROVE  \E g \in Goroutines : pc[g] = "tx.finish" /\ txOf[g] = serverTx
  <2> USE DEF CoreInv
  <2>1. txActive
    BY <1>1 DEF TxInv, TxOwnership
  <2>2. ~Open
    BY <1>1, <2>1 DEF Open, OpenInv, NotBusy
  <2>3. \A g \in Goroutines : ~Begin(g) /\ ~FinishImplicit(g)
    BY <2>1 DEF Begin, FinishImplicit, NotBusy
  <2>4. ASSUME NEW g \in Goroutines, Start(g) PROVE FALSE
    BY <1>1, <2>3, <2>4 DEF Start, Close, SetDatabase, Exec, ExecPrepare, Query,
       Prepare, QueryArgs, StmtQuery, StmtClose, StmtExec, Reset, RowsClose,
       TxFinish, TxCall, serverVars
  <2>5. ASSUME NEW g \in Goroutines, Continue(g) \/ Cancelled(g)
        PROVE  TxFinishRun(g)
    BY <1>1, <2>5 DEF Continue, Cancelled, ExecTemp, ResultRows, ResultLast,
       ExecDrop, QueryMeta, BindArgs, StmtQueryFails, StmtMeta, AddChild,
       ReleaseChild, StmtExecRun, ResetClose, ResetPrepare, RowsReleaseConn,
       ReleaseRow, Refused, serverVars
  <2>6. ~UNCHANGED vars
    BY <1>1 DEF vars, serverVars
  <2>7. PICK g \in Goroutines : TxFinishRun(g)
    BY <1>1, <2>2, <2>4, <2>5, <2>6 DEF Next
  <2> QED BY <1>1, <2>7 DEF TxFinishRun, TxInv, TxOwnership
<1> QED BY <1>1, CoreInvariant, PTL DEF Spec, TxEndsByItself

(***************************************************************************)
(* CubeCore implements Session.                                            *)
(***************************************************************************)
\* A native object comes into being only under an open connection.
LEMMA AcquireStep ==
    ASSUME CoreInv, open, NEW x \in Goroutines \union Stmts \union Rows,
           x \notin vms, x \notin cursors,
           vms' \union cursors' = vms \union cursors \union {x},
           UNCHANGED <<open, txLive, database>>
    PROVE  Abstract!Next
<1>1. Abstract!Acquire(x)
  BY DEF Abstract!Acquire
<1> QED BY <1>1 DEF Abstract!Next

\* A native object ends only under an open connection.
LEMMA DiscardStep ==
    ASSUME CoreInv, NEW x \in vms \union cursors,
           vms' \union cursors' = (vms \union cursors) \ {x},
           UNCHANGED <<open, txLive, database>>
    PROVE  Abstract!Next
<1>1. open
  BY NoNativeObjects DEF CoreInv, OpenInv, NotBusy
<1>2. x \in Goroutines \union Stmts \union Rows
  BY DEF CoreInv, TypeOK
<1>3. Abstract!Discard(x)
  BY <1>1 DEF Abstract!Discard
<1> QED BY <1>2, <1>3 DEF Abstract!Next

\* Every step of every goroutine is a step of Session or changes nothing
\* Session speaks of.
LEMMA SessionStep ==
    ASSUME CoreInv, [Next]_vars
    PROVE  [Abstract!Next]_(Abstract!sessionVars)
<1> USE HandlesAssumption DEF CoreInv
<1> DEFINE Quiet == UNCHANGED <<open, vms, cursors, txLive, database>>
<1>q. Quiet => UNCHANGED Abstract!sessionVars
  BY DEF Abstract!sessionVars
<1>1. CASE Open
  <2>1. Abstract!Connect
    BY <1>1 DEF Open, Abstract!Connect
  <2> QED BY <2>1 DEF Abstract!Next
<1>2. ASSUME NEW g \in Goroutines,
             \/ Exec(g) \/ ExecTemp(g) \/ ResultRows(g) \/ ResultLast(g)
             \/ BindArgs(g) \/ StmtQueryFails(g) \/ ReleaseChild(g)
             \/ StmtExecRun(g) \/ RowsReleaseConn(g) \/ FinishImplicit(g)
             \/ Refused(g) \/ Cancelled(g)
             \/ \E s \in Stmts : StmtExec(g, s) \/ Reset(g, s)
             \/ \E t \in Txs : TxFinish(g, t) \/ \E m \in TxMethods : TxCall(g, t, m)
      PROVE  Quiet
  BY <1>2 DEF Exec, ExecTemp, ResultRows, ResultLast, BindArgs,
     StmtQueryFails, ReleaseChild, StmtExecRun, RowsReleaseConn,
     FinishImplicit, Refused, Cancelled, StmtExec, Reset, TxFinish, TxCall,
     connVars, csdkVars, serverVars
<1>3. ASSUME NEW g \in Goroutines,
             ExecPrepare(g) \/ Query(g) \/ Prepare(g) \/ QueryArgs(g)
      PROVE  Quiet \/ Abstract!Next
  <2>1. CASE ExecPrepare(g)
    <3>1. g \notin vms /\ g \notin cursors
      BY <2>1 DEF ExecPrepare, Enters, TypeOK, StmtInv, Results
    <3> QED BY <2>1, <3>1, AcquireStep
        DEF ExecPrepare, NativePrepare, connVars, serverVars
  <2>2. CASE Query(g)
    <3>1. CASE UNCHANGED csdkVars
      BY <2>2, <3>1 DEF Query, csdkVars, connVars
    <3>2. ASSUME NEW r \in Rows, FreeRows(r), NativeQuery(r)
          PROVE  Abstract!Next
      <4>1. r \notin vms /\ r \notin cursors
        BY <3>2 DEF FreeRows, TypeOK
      <4> QED BY <2>2, <3>2, <4>1, AcquireStep DEF Query, NativeQuery, connVars
    <3> QED BY <2>2, <3>1, <3>2 DEF Query
  <2>3. ASSUME NEW s \in Stmts, PrepareStmt(s),
               UNCHANGED <<open, txActive, serverVars, rowVars, txLive>>, open
        PROVE  Abstract!Next
    <3>1. s \notin vms /\ s \notin cursors
      BY <2>3 DEF PrepareStmt, FreeStmt, TypeOK
    <3> QED BY <2>3, <3>1, AcquireStep DEF PrepareStmt, NativePrepare, serverVars
  <2>4. CASE Prepare(g)
    BY <2>3, <2>4 DEF Prepare, csdkVars, serverVars
  <2>5. CASE QueryArgs(g)
    BY <2>3, <2>5 DEF QueryArgs, csdkVars, serverVars
  <2> QED BY <1>3, <2>1, <2>2, <2>4, <2>5
<1>4. ASSUME NEW g \in Goroutines, NEW s \in Stmts, StmtQuery(g, s)
      PROVE  Abstract!Next
  <2>1. PICK r \in Rows : FreeRows(r) /\ NativeQuery(r)
    BY <1>4 DEF StmtQuery
  <2>2. r \notin vms /\ r \notin cursors
    BY <2>1 DEF FreeRows, TypeOK
  <2> QED BY <1>4, <2>1, <2>2, AcquireStep DEF StmtQuery, NativeQuery, connVars
<1>5. ASSUME NEW x \in vms, NativeStmtClose(x), UNCHANGED <<open, txLive, database>>
      PROVE  Abstract!Next
  <2>1. x \notin cursors
    BY DEF TypeOK
  <2> QED BY <1>5, <2>1, DiscardStep DEF NativeStmtClose
<1>6. ASSUME NEW x \in cursors, NativeRowsClose(x), UNCHANGED <<open, txLive, database>>
      PROVE  Abstract!Next
  <2>1. x \notin vms
    BY DEF TypeOK
  <2> QED BY <1>6, <2>1, DiscardStep DEF NativeRowsClose
<1>7. ASSUME NEW g \in Goroutines, ExecDrop(g)
      PROVE  Abstract!Next
  BY <1>5, <1>7 DEF ExecDrop, StmtInv, connVars, serverVars
<1>8. ASSUME NEW g \in Goroutines, QueryMeta(g)
      PROVE  Quiet \/ Abstract!Next
  BY <1>6, <1>8 DEF QueryMeta, RowInv, csdkVars, serverVars
<1>9. ASSUME NEW g \in Goroutines, StmtMeta(g)
      PROVE  Quiet \/ Abstract!Next
  BY <1>6, <1>9 DEF StmtMeta, RowInv, connVars, csdkVars, serverVars
<1>10. ASSUME NEW g \in Goroutines, AddChild(g)
       PROVE  Quiet \/ Abstract!Next
  BY <1>6, <1>10 DEF AddChild, RowInv, csdkVars, serverVars
<1>11. ASSUME NEW g \in Goroutines, NEW s \in Stmts, StmtClose(g, s)
       PROVE  Quiet \/ Abstract!Next
  BY <1>5, <1>11 DEF StmtClose, DropStmt, Usable, connVars, csdkVars, serverVars
<1>12. ASSUME NEW g \in Goroutines, ReleaseRow(g)
       PROVE  Quiet \/ Abstract!Next
  BY <1>5, <1>12 DEF ReleaseRow, DropStmt, connVars, csdkVars, serverVars
<1>13. ASSUME NEW g \in Goroutines, NEW r \in Rows, RowsClose(g, r)
       PROVE  Abstract!Next
  BY <1>6, <1>13 DEF RowsClose, RowInv, connVars, serverVars
<1>14. ASSUME NEW g \in Goroutines, ResetClose(g)
       PROVE  Quiet \/ Abstract!Next
  <2>1. stmtOf[g] \in vms
    BY <1>14 DEF ResetClose, StmtInv, HoldsStmt, StmtHeld
  <2> QED BY <1>5, <1>14, <2>1 DEF ResetClose, connVars, csdkVars, serverVars
<1>15. ASSUME NEW g \in Goroutines, ResetPrepare(g)
       PROVE  Quiet \/ Abstract!Next
  <2>1. open /\ stmtOf[g] \in Stmts /\ stmtOf[g] \notin vms
    BY <1>15 DEF ResetPrepare, StmtInv, TypeOK, OpenInv, MutexInv, ConnHeld
  <2>2. stmtOf[g] \notin cursors
    BY <2>1 DEF TypeOK
  <2> QED BY <1>15, <2>1, <2>2, AcquireStep
      DEF ResetPrepare, NativePrepare, csdkVars, serverVars
<1>16. ASSUME NEW g \in Goroutines, Close(g)
       PROVE  Abstract!Next
  <2>1. vms = {} /\ cursors = {} /\ txLive = {}
    BY <1>16, NoNativeObjects DEF Close, NotBusy, TxInv, TxOwnership
  <2>2. Abstract!Disconnect
    BY <1>16, <2>1 DEF Close, csdkVars, serverVars, Abstract!Disconnect, Abstract!Unused
  <2> QED BY <2>2 DEF Abstract!Next
<1>17. ASSUME NEW g \in Goroutines, NEW d \in Databases, SetDatabase(g, d)
       PROVE  Abstract!Next
  <2>1. vms = {} /\ cursors = {} /\ txLive = {}
    BY <1>17, NoNativeObjects DEF SetDatabase, NotBusy, TxInv, TxOwnership
  <2>2. Abstract!Select(d)
    BY <1>17, <2>1 DEF SetDatabase, connVars, csdkVars, Abstract!Select, Abstract!Unused
  <2> QED BY <2>2 DEF Abstract!Next
<1>18. ASSUME NEW g \in Goroutines, Begin(g)
       PROVE  Abstract!Next
  <2>1. vms = {} /\ cursors = {} /\ txLive = {}
    BY <1>18, NoNativeObjects DEF Begin, NotBusy, TxInv, TxOwnership
  <2>2. Abstract!Toggle
    BY <1>18, <2>1 DEF Begin, csdkVars, Abstract!Toggle, Abstract!Unused
  <2> QED BY <2>2 DEF Abstract!Next
<1>19. ASSUME NEW g \in Goroutines, TxFinishRun(g)
       PROVE  Quiet \/ Abstract!Next
  <2>1. CASE UNCHANGED txLive
    BY <1>19, <2>1 DEF TxFinishRun, csdkVars
  <2>2. CASE open /\ NoChildren /\ txLive' = txLive \ {txOf[g]}
    <3>1. vms = {} /\ cursors = {}
      BY <1>19, <2>2, NoNativeObjects DEF TxFinishRun, NoChildren
    <3>2. txLive # {} /\ txLive' = {}
      BY <1>19, <2>2 DEF TxFinishRun, TxInv, TxOwnership
    <3>3. Abstract!Toggle
      BY <1>19, <2>2, <3>1, <3>2
      DEF TxFinishRun, csdkVars, Abstract!Toggle, Abstract!Unused
    <3> QED BY <3>3 DEF Abstract!Next
  <2> QED BY <1>19, <2>1, <2>2 DEF TxFinishRun
<1>20. CASE UNCHANGED vars
  BY <1>20, <1>q DEF vars, connVars, csdkVars, serverVars
<1> HIDE DEF Quiet
<1>21. ASSUME NEW g \in Goroutines, Start(g)
       PROVE  Quiet \/ Abstract!Next
  BY <1>21, <1>2, <1>3, <1>4, <1>11, <1>13, <1>16, <1>17, <1>18, Zenon DEF Start
<1>22. ASSUME NEW g \in Goroutines, Continue(g)
       PROVE  Quiet \/ Abstract!Next
  BY <1>22, <1>2, <1>7, <1>8, <1>9, <1>10, <1>12, <1>14, <1>15, <1>19, Zenon
  DEF Continue
<1> QED BY <1>q, <1>1, <1>2, <1>20, <1>21, <1>22, Zenon DEF Next

\* The package keeps what Session promises: no Close, SetDatabase, Begin,
\* Commit or Rollback takes effect while a native statement or cursor is
\* alive, and none of these outlives its connection.
THEOREM SessionRefinement == Spec => ImplementsSession
<1>1. Init => Abstract!Init
  BY DEF Init, Abstract!Init
<1>2. CoreInv /\ [Next]_vars => [Abstract!Next]_(Abstract!sessionVars)
  BY SessionStep
<1> QED BY <1>1, <1>2, CoreInvariant, PTL DEF Spec, ImplementsSession, Abstract!Spec
=============================================================================
