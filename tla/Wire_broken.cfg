SPECIFICATION Spec
CONSTANTS
    MaxParts = 1
    NValues = 1
INVARIANT BrokenMeansLost
