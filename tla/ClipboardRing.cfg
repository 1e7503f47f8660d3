SPECIFICATION SharingSpec
CONSTANTS
    mac = mac  win = win  lin = lin  hub = hub
    Devices = {laptop, desk}  Trusted = {laptop, desk}  Friends = {laptop}  NoDevice = none
    RegistryCapacity = 2  ChannelCapacity = 1  MaxOpen = 0  MaxExpiries = 0  MaxFailures = 0  MaxDepartures = 0
    Links = {cross}  FaultyLinks = {}  DialedByAuth = {cross}  Lanes = {input}  Faulty = FALSE
    Subjects = {"clipboard"}
    Initiators = {mac, win}  Responder = hub  NoPeer = none  Scenarios <- MCScenarios
    KeyRanks = {1}  SecLanes = {}  FirstDataId = 1  LastId = 1
    WindowBits = 1  MaxSecSends = 0  MaxMisordered = 0
    ClipDevices = {mac, win, lin}  Topologies <- RingTopology  Contents = {"x", "y"}
    Concealed = {}  TooLarge = {}  Blank = "blank"  Synchronised = TRUE  MaxCopies = 2  MaxClipFaults = 0
    Selections = {"x"}  SizeOf <- MCSizeOf  Secret = {}
    Here = "here"  Peers = {"p"}  Capacity = 1  MaxEntry = 1  MaxArchive = 1  MaxHistoryOps = 0
    TimelineItems = {"x"}  TimelineSecret = {}
    TimelineOwner = "here"  TimelinePeers = {"p"}  TimelineCapacity = 1
    TimelineMaxEntry = 1  MaxTimelineOps = 0
PROPERTIES ClipboardsConverge
CHECK_DEADLOCK FALSE
