SPECIFICATION ViewFairSpec
CONSTANTS
    ViewItems = {"x", "y"}
    PinnedItems = {"y"}
    MaxRevisions = 3
    MaxViewFaults = 0
PROPERTIES
    HistoryCatchesUp
CHECK_DEADLOCK FALSE
