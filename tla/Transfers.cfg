SPECIFICATION TransfersSpec
CONSTANTS
    Manifest <- TreeAndFile
    Senders = {"a", "b"}
    Winner = "a"
    Admits = {"b"}
    ChunkSize = 2
    Budget <- StorageFaults
INVARIANTS
    TypeOK
    PublishedIsVerified
    RemovedMeansDelivered
PROPERTIES
    NoSilentOverwrite
    ProgressKept
    TransfersDelivered
CHECK_DEADLOCK FALSE
