SPECIFICATION FairSpec
CONSTANTS
    Keys = {a, esc}
    Emergency = esc
    NoKey = none
    Edges = {left, right}
    FocusTimeoutOn = TRUE
    QueueCapacity = 1
    NetCapacity = 1
    MaxInputs = 3
    MaxSessions = 2
    MaxEdits = 1
INVARIANTS
    TypeOK
    LocalInputRestored
    NoStuckRemoteInput
    StreamMirrorsHeld
    LocalFocusLeavesTargetClean
    StaleInputNeverForwarded
    SuppressionFollowsFocus
PROPERTIES
    ShutdownCompletes
    LinkLossReleasesTarget
    FocusReturns
CHECK_DEADLOCK FALSE
