SPECIFICATION Spec
CONSTANTS
    g1 = g1
    g2 = g2
    g3 = g3
    s1 = s1
    s2 = s2
    r1 = r1
    r2 = r2
    t1 = t1
    t2 = t2
    d1 = d1
    Nil = Nil
    Goroutines <- ThreeGoroutines
    Stmts <- MCStmts
    Rows <- MCRows
    Txs <- MCTxs
    Databases <- MCDatabases
SYMMETRY Symmetry
INVARIANTS
    TypeOK
    NoDanglingNative
    CloseNeverRefusedBelow
    NoLeak
    VMIntegrity
    ResultBelongsToExec
    HiddenStmtOwned
    TxOwnership
    CoreInv
PROPERTY
    TxEndsByItself
    ImplementsSession
