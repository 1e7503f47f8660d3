SPECIFICATION FairSpec
CONSTANTS
    Manifest <- OneFile
    Senders = {"a", "b"}
    Winner = "a"
    Admits = {"a", "b"}
    ChunkSize = 2
    Budget <- SlowAndBusy
PROPERTIES
    TransferCompletes
CHECK_DEADLOCK FALSE
