SPECIFICATION SharingSpec
CONSTANTS
    mac = mac  win = win  lin = lin  hub = hub
    Devices = {laptop, desk}  Trusted = {laptop, desk}  Friends = {laptop}  NoDevice = none
    RegistryCapacity = 2  ChannelCapacity = 1  MaxOpen = 1  MaxExpiries = 1  MaxFailures = 1  MaxDepartures = 0
    Links = {cross, reverse, redial}  FaultyLinks = {cross, reverse}  DialedByAuth = {cross, redial}
    Lanes = {input, clipboard}  Faulty = TRUE
    Subjects = {"pairing", "channel", "clipboard", "history", "timeline", "arbitration", "reconnect"}
    Initiators = {mac, win}  Responder = hub  NoPeer = none  Scenarios <- MCScenarios
    KeyRanks = {1, 2}  SecLanes <- MCSecLanes  FirstDataId = 1  LastId = 2
    WindowBits = 2  MaxSecSends = 3  MaxMisordered = 1
    ClipDevices = {mac, win, lin}  Topologies <- OpenTopologies  Contents = {"x", "y", "big", "secret"}
    Concealed = {"secret"}  TooLarge = {"big"}  Blank = "blank"  Synchronised = FALSE  MaxCopies = 2  MaxClipFaults = 1
    Selections = {"x", "y", "big", "secret"}  SizeOf <- MCSizeOf  Secret = {"secret"}
    Here = "here"  Peers = {"p"}  Capacity = 2  MaxEntry = 3  MaxArchive = 4  MaxHistoryOps = 4
    TimelineItems = {"x", "y", "z", "big", "secret"}  TimelineSecret = {"secret"}
    TimelineOwner = "here"  TimelinePeers = {"p", "q"}  TimelineCapacity = 2
    TimelineMaxEntry = 2  MaxTimelineOps = 4
INVARIANTS ReconnectTypeOK ConnectedHasSession PairingConsistent ChannelSafe LinksAgree HistoriesFaithful
PROPERTIES QuietReconnects ArbitrationTerminates LeaseReturned CalmDialSettles AttemptEnds ClipboardsConverge PinnedEntriesStay
CHECK_DEADLOCK FALSE
