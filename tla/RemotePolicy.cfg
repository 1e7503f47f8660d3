SPECIFICATION ServicesSpec
CONSTANTS
    Subjects = {"remote"}
    WsDevices = {"d", "e", "f"}  Placements <- MCPlacements  Reaches = {1, 3}  MinReach = 2
    MemoryKeys = {"k"}  MaxWsCalls = 3
    CollabDevices = {"h", "d"}  HostDevice = "h"  ParticipantIds = {1, 2, 3}
    Modes = {"SharedCursor", "PairProgramming"}  MaxParticipants <- MCMaxParticipants
    DefaultLease <- MCDefaultLease  JoinRoles = {"Driver", "Student"}  Durations = {0, 1}  MaxNow = 1  MaxMembers = 1
    PluginIds = {"p"}  Capabilities = {"read_clipboard", "read_input"}  RequiredBy <- MCRequiredBy
    Listing <- MCListing  Kinds = {"Clipboard", "Shutdown", "Pairing"}  BusCapacity = 1  Debounce = 2
    MaxVersion = 2  MaxPublished = 2  MaxPluginTime = 2  MaxPluginOps = 4
    MaxPendingSends = 1  MaxEdits = 1  MaxRequests = 2  MaxDrops = 1  MaxGuiFaults = 1  MaxPanelEvents = 2
    ViewItems = {"x", "y"}  PinnedItems = {"y"}  MaxRevisions = 3  MaxViewFaults = 1
    DaemonLinks = {1, 2}  DaemonPeers = {"p", "q"}  MaxHandshakes = 1
    Offers <- MCOffers  Asks <- MCAsks  EnabledEncoders = {"Software", "VideoToolbox"}
    HoverSources = {"s", "t"}  MaxAge = 1  HoverDebounce = 2  MaxEntries = 1  MaxScreenTime = 3
    AudioDevices = {"l", "r"}  LocalAudio = "l"  FrameDuration = 10  TargetDelay = 20  MaxDelay = 30
    Sequences = {0, 1, 2, 3, 4}  MaxRouteCalls = 2
    MediaCallers = {"a", "b"}  MediaOps <- MCMediaOps  PixelCounts = {2, 4}  OverwidePlan = 1  MaxWait = 1  MaxBuffers = 1  MaxMediaCalls = 2  MaxMediaFaults = 2
    GraphCallers = {"a", "b"}  NodeIds = {1, 2}  NodeClasses = {"Audio/Sink", "Audio/Source", "Port"}
    Announcements <- MCAnnouncements  MaxScanWait = 1  MaxGraphMoves = 2  MaxScans = 2  MaxGraphFaults = 1
    MacCallers = {1, 2}  MacWindows = {1, 2}  OwnerOf <- MCOwnerOf  FrameSizes = {0, 1}  BitRates = {1, 3}
    MaxBits = 2000  TicksPerMicro = 2  MaxMacCalls = 2  MaxMacFaults = 1  MaxWindowMoves = 1
    MaxPortalSessions = 3  MaxPortalEvents = 2  MaxZoneChanges = 1
    Payload <- MCPayload  OtherTotal = 2  Jobs = 2  LibraryChunk = 2  MaxDone = 1  MaxPauses = 2
    WireOffers <- MCWireOffers  Others <- MCOthers  MaxTotal = 3  MaxManifest = 2  MaxPath = 3
    MaxReason = 2  MaxChunk = 1  MaxPayload = 2  MaxBody = 135
    Platforms = {"macos", "windows"}  MaxSwitches = 3
    SourceKeys <- MCSourceKeys  Displays <- MCDisplays  MaxTouches = 3  MaxPostFaults = 1
    MapDevices = {"l", "d", "e"}  LocalDevice = "l"  LayoutOf <- MCLayoutOf  Origins <- MCOrigins
    Viewport <- MCViewport  MaxGap = 1  Unit = 4  MaxMapCalls = 2
    KeyDevices = {"a", "b"}  KeyCodes = {4, 224, 228}  Orders <- MCOrders  MaxSource = 3  Delays = {0, 1}
    Activation = 2  TapTravel = 1  MaxClock = 1  MaxCalls = 4  MaxInjectFaults = 1
    MeshDevices = {"a", "b", "c", "d"}  Populations <- MCPopulations  Observations <- MCObservations
    Queries <- MCQueries  MaxMeshEdges = 4  MaxMeshEdits = 1
    Machines = {"o", "t", "u"}  Offerer = "o"  Gathered <- MCGathered  Nats = {"Cone", "Symmetric"}
    Planners <- MCPlanners  MaxRemoteSessions = 2  MaxAnswers = 2  MaxTrustChanges = 1
    RelayCapacity = 1  TicketTtl = 1  MaxTicketTime = 3
    Interval = 2  Timeout = 7  MaxLag = 1  FixedPoint = 8  AlphaDen = 8  BetaDen = 4
    MaxBatch = 3  MinWindow = 1  MaxWindow = 12  RttFractionDen = 1  QualityDen = 5  LinkSamples <- MCLinkSamples
    MinRate = 96  MaxRate = 8000  InitialRate = 1500
    MaxLinkTime = 9  MaxLosses = 1  MaxEnvelopes = 2  MaxSamples = 4
INVARIANTS BothSidesRequire
VIEW ServicesView
CHECK_DEADLOCK FALSE
