SPECIFICATION Spec
CONSTANTS
    IntLimit = 8
    IndexLimit = 8
    Grain = 3
    Whole = 6
    BufDigits = 1
    NParams = 2
    Indexes = {0, 1, 2, 5, 9}
    Lengths = {0, 1, 8, 17}
    Floats = {1, 3, 60}
INVARIANTS BindInv OneShotIsExact PreparedIsExact ReadsAreTrue ScansAreTrue
