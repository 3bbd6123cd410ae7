SPECIFICATION Spec
CONSTANT Work = {w1, w2, w3}
INVARIANTS
    AtMostOnce
    AnswersAreTrue
    CleanBorrow
    TxAgreement
    AdapterInv
PROPERTIES
    OnlyOwnWorkCommitted
    ImplementsOutcomes
