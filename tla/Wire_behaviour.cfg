SPECIFICATION FairSpec
CONSTANTS
    MaxParts = 2
    NValues = 2
INVARIANTS WireInv InStep ErrorsAreOwn LostLinkIsSeen
PROPERTIES OperationsReturn CloseReturns
