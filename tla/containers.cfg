SPECIFICATION Spec
CONSTANTS
    HtAddresses <- MCHtAddresses
    HtTables = {1, 2}
    HtCopies = {2}
    HtKeys = {0, 2}
    HtValues = {1}
    Buckets = 2
    LoadFactor = 150
    ResizeFactor = 175
    Addresses <- MCAddresses
    Tables = {1, 2}
    Copies = {}
    Keys <- MCKeys
    Values = {0, 9, 11}
    ObjectKeys = {9, 11}
    Initial <- MCInitial
    MaxRefs = 2
    Cells <- MCCells
    Data = {1, 2}
INVARIANTS TypeOK Linked NothingLost IterationSound Dense SameBothWays
PROPERTIES ImplementsMap ShuffleKeeps ImplementsSequence
CHECK_DEADLOCK FALSE
