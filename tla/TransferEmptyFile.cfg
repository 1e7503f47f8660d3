SPECIFICATION FairSpec
CONSTANTS
    Manifest <- WithEmptyFile
    Senders = {"a"}
    Winner = "a"
    Admits = {"a", "b"}
    ChunkSize = 2
    Budget <- OneLoss
PROPERTIES
    TransferCompletes
CHECK_DEADLOCK FALSE
