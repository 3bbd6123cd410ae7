SPECIFICATION Spec
CONSTANTS
    Columns = 2
    IntLimit = 8
    MaxRows = 4
    MaxChunks = 4
    MaxSeek = 20
INVARIANTS
    ForwardReadsAreTrue
    InBounds
    PositionsAgree
    CursorInv
