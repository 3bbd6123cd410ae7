SPECIFICATION Spec
CONSTANTS
    IntLimit = 8
    IndexLimit = 8
    Grain = 3
    Whole = 6
    BufDigits = 1
    NParams = 2
    Indexes = {1}
    Lengths = {0, 1}
    Floats = {0, 1}
INVARIANT FloatsAreExact
