----------------------------- MODULE MCServices -----------------------------
(***************************************************************************)
(* Small instances of the daemon's services, of the control panel and of   *)
(* the library crates.  These parts share no state: `subject` picks the    *)
(* one a behaviour is about and the others stay in one initial state.      *)
(***************************************************************************)
EXTENDS Workspace, Collaboration, Plugins, Dashboard, HistoryView, DaemonRuntime,
        ScreenStream, AudioPlayout, LinuxPipeWire, PipeWireGraph, SpaPods, MacScreen, LinuxPortal, TransferLibrary, TransferWire,
        CaptureThreads, NativeKeys, DesktopMap, KeyboardFocus, MeshRoutes, RemoteSession, LinkHealth

CONSTANTS
    Subjects,        \* the parts this run is about
    MaxPanelEvents   \* bound on edits, pairing requests, dropped files and faults of the panel together

VARIABLE subject

-----------------------------------------------------------------------------
(* Values of the constants that a configuration cannot write down. *)
Rectangle(x, y, w, h) == [x |-> x, y |-> y, w |-> w, h |-> h]

\* Workspace: two neighbours that touch, one that overlaps both, one below.
MCPlacements == {Rectangle(0, 0, 2, 2), Rectangle(2, 0, 2, 2), Rectangle(1, 1, 3, 2), Rectangle(-1, 2, 1, 1)}

MCMaxParticipants == [m \in Modes |-> 2]
MCDefaultLease == [m \in Modes |-> IF m = "SharedCursor" THEN 0 ELSE 1]

\* Plugins: the second version wants another capability than the first.
MCRequiredBy == [p \in PluginIds |-> [v \in 0..MaxVersion |-> IF v = 2 THEN {"read_input"} ELSE {"read_clipboard"}]]
MCListing == [p \in PluginIds |-> [blocked |-> FALSE, cap |-> {"read_clipboard"}, runtimes |-> {"Wasm"}]]

\* Screen streaming: endpoints with their own memory, encoders and frame rates.
Endpoint(memories, hardware, rate) ==
    [permits |-> {"Display", "Window"}, memory |-> memories, codecs |-> {"RawRgba", "H264"},
     encoders |-> hardware, pixels |-> 1280 * 720, fps |-> rate, intents |-> {"WindowPeek"}]
MCOffers == {Endpoint(<<"DmaBuf", "System">>, {"Software"}, 60),
             Endpoint(<<"System", "IoSurface">>, {"VideoToolbox", "Software"}, 30),
             Endpoint(<<"System">>, {}, 0)}
MCAsks == [source : {"Window", "Application"}, visible : BOOLEAN, intent : {"WindowPeek"}, quality : {"Quality"},
           codecs : {<<>>, <<"H265">>}, gpu : BOOLEAN, software : BOOLEAN, zeroCopy : BOOLEAN]

Property3(key, type, value) == [key |-> SpaKey[key], type |-> SpaType[type], value |-> value]
AsChoice(key, type, value) == Property3(key, "Choice", <<0, 0, 4 * Len(value), SpaType[type]>> \o value)
VideoAnnouncement == <<Property3("MediaType", "Id", <<2>>), Property3("MediaSubtype", "Id", <<1>>)>>
AudioAnnouncement == <<Property3("MediaType", "Id", <<1>>), Property3("MediaSubtype", "Int", <<1>>)>>
MCAnnouncements ==
    {VideoAnnouncement \o <<f, s>> : f \in {Property3("VideoFormat", "Id", <<10>>), AsChoice("VideoFormat", "Id", <<23, 9>>)},
                                   s \in {Property3("VideoSize", "Rectangle", <<640, 480>>),
                                          AsChoice("VideoSize", "Rectangle", <<800, 600, 1, 1>>)}}
    \cup {AudioAnnouncement \o <<Property3("AudioFormat", "Id", <<f>>), Property3("AudioRate", "Int", <<48000>>), n>> :
             f \in {259, 283, 284, 5},
             n \in {Property3("AudioChannels", "Int", <<2>>), AsChoice("AudioChannels", "Int", <<256, 2>>)}}
    \cup {VideoAnnouncement}

\* One task makes calls of every kind, the other competes for the portal session and plays.
MCMediaOps == [a |-> {"sources", "screen", "capture", "play"}, b |-> {"sources", "play"}]

MCOwnerOf == (1 :> 1) @@ (2 :> 2)

\* File transfer: an empty file, a file of two chunks, a directory, a small file.
MCPayload == <<0, 4, -1, 1>>

PathPart(n) == [name |-> n, len |-> 1]
ManifestPaths == {<<PathPart("name")>>, <<PathPart("Name")>>, <<PathPart("name"), PathPart("x")>>, <<PathPart(""), PathPart("x")>>,
                  <<PathPart("CON")>>, <<PathPart("x"), PathPart("y"), PathPart("z")>>, <<>>}
ManifestEntries == {e \in [dir : BOOLEAN, path : ManifestPaths, size : {0, 2}, digest : {0, 1}] : e.dir <=> e.digest = 0}
MCWireOffers ==
    [kind : {"Offer"}, id : {1}, from : {1}, to : {<<>>, <<2>>}, source : {0, 3}, total : {0, 2, 4},
     entries : {<<>>} \cup {<<e>> : e \in ManifestEntries}
               \cup {<<e, f>> : e \in {g \in ManifestEntries : g.path = <<PathPart("name")>>}, f \in ManifestEntries}]
Marks(ids) == [id : ids, entry : {0, 2}, offset : {0, 2, 4}, sent : {1, 3, 4}]
MCOthers ==
    [kind : {"Accept"}, id : {1}, at : {<<>>} \cup {<<m>> : m \in Marks({1, 2})}]
    \cup [kind : {"Reject", "Cancel"}, id : {1}, reason : 0..3]
    \cup [kind : {"Checkpoint", "Ack"}, id : {1}, entry : {0, 2}, offset : {0, 2, 4}, sent : {1, 3, 4}]
    \cup [kind : {"Complete"}, id : {1}, sent : {3, 4}]
    \cup [kind : {"Chunk"}, id : {1}, entry : {1, 2}, offset : {0, 2, 3}, len : {0, 1, 2}, compression : {1, 2},
          final : BOOLEAN, payload : {1, 3}]

MCSourceKeys == [macos |-> {44, 75, 59}, windows |-> {30, 2}]
MCDisplays == {Rectangle(0, 0, 4, 4), Rectangle(4, 2, 4, 4)}

\* Desktop map: two monitors side by side, one, and two of different heights.
MCLayoutOf == [l |-> <<Rectangle(-2, 0, 2, 2), Rectangle(0, 0, 2, 2)>>, d |-> <<Rectangle(0, 0, 2, 3)>>,
               e |-> <<Rectangle(0, 0, 1, 1), Rectangle(1, 0, 1, 2)>>]
MCOrigins == {<<2, 0>>, <<-4, -2>>, <<0, 2>>}
MCViewport == [w |-> 7, h |-> 5, padding |-> 1]
MCOrders == {<<"a", "b">>, <<"b">>, <<>>}

\* Mesh: two paired devices joined through two routers.
Node(t) == [trust |-> t, online |-> TRUE]
MCPopulations == {[a |-> Node("TrustedDevice"), b |-> Node("TrustedRouter"),
                   c |-> Node("TrustedRouter"), d |-> Node("TrustedDevice")]}
Link(a, b, cost, encrypted) == [a |-> a, b |-> b, cost |-> cost, encrypted |-> encrypted]
MCObservations == {Link("a", "c", 3, TRUE), Link("b", "a", 0, TRUE), Link("b", "c", 0, TRUE),
                   Link("c", "b", 1, FALSE), Link("c", "d", 1, TRUE)}
MCQueries == {<<"a", "d", TRUE>>, <<"a", "d", FALSE>>, <<"c", "a", TRUE>>, <<"b", "b", TRUE>>}

Candidate3(k, n, p) == [kind |-> k, addr |-> n, priority |-> p]
MCGathered == [o |-> <<Candidate3("ServerReflexive", 1, 2), Candidate3("Relay", 2, 3)>>,
               t |-> <<Candidate3("Host", 3, 1), Candidate3("Host", 4, 2)>>, u |-> <<>>]
MCPlanners == {[relay |-> FALSE, fallback |-> TRUE], [relay |-> TRUE, fallback |-> FALSE]}

Measured(ms, jit, permille, kbit) == [rtt |-> ms, jitter |-> jit, loss |-> permille, rate |-> kbit]
MCLinkSamples == {Measured(10, 2, 0, 9000), Measured(60, 50, 10, 2000), Measured(150, 10, 40, 500), Measured(90, 60, 200, 50)}

-----------------------------------------------------------------------------
servicesVars == <<subject, wsVars, collabVars, pluginVars, guiVars, viewVars, daemonVars, screenVars, audioVars,
                  pipeVars, graphVars, pod, macVars, portalVars, libraryVars, wireVars, captureVars, keyVars, mapVars, focusVars,
                  meshVars, remoteVars, linkVars>>

ServicesInit ==
    /\ subject \in Subjects
    /\ WsInit /\ CollabInit /\ PluginInit /\ ViewInit /\ ScreenInit /\ AudioInit /\ PipeInit /\ GraphInit /\ SpaInit /\ MacInit
    /\ LibraryInit /\ WireInit /\ MapInit /\ FocusInit /\ MeshInit /\ RemoteInit /\ LinkInit
    /\ (subject # "view" => keeping)
    /\ GuiInit /\ (subject # "dashboard" => settings.disk.readable)
    /\ CaptureInit /\ (subject # "capture" => platform = "macos")
    /\ KeyInit /\ (subject # "keys" => sourceOS = "macos" /\ target = "macos" /\ screens = Displays)
    /\ DaemonInit /\ ("q" \in trust => "p" \in trust) /\ selection # {"q"}   \* p and q are interchangeable
    /\ (subject # "daemon" => plan = Plan("Both", TRUE, TRUE, "macos") /\ trust = {} /\ selection = {})
    /\ PortalInit /\ (subject # "portal" => desk = [session |-> "Headless", display |-> FALSE, portals |-> {}])

\* Only the variables of the part `s` may move.
Only(s) ==
    /\ subject = s /\ UNCHANGED subject
    /\ IF s = "workspace" THEN TRUE ELSE UNCHANGED wsVars
    /\ IF s = "collaboration" THEN TRUE ELSE UNCHANGED collabVars
    /\ IF s = "plugins" THEN TRUE ELSE UNCHANGED pluginVars
    /\ IF s = "dashboard" THEN TRUE ELSE UNCHANGED guiVars
    /\ IF s = "view" THEN TRUE ELSE UNCHANGED viewVars
    /\ IF s = "daemon" THEN TRUE ELSE UNCHANGED daemonVars
    /\ IF s = "screen" THEN TRUE ELSE UNCHANGED screenVars
    /\ IF s = "audio" THEN TRUE ELSE UNCHANGED audioVars
    /\ IF s = "pipewire" THEN TRUE ELSE UNCHANGED pipeVars
    /\ IF s = "graph" THEN TRUE ELSE UNCHANGED graphVars
    /\ IF s = "pods" THEN TRUE ELSE UNCHANGED pod
    /\ IF s = "macscreen" THEN TRUE ELSE UNCHANGED macVars
    /\ IF s = "portal" THEN TRUE ELSE UNCHANGED portalVars
    /\ IF s = "library" THEN TRUE ELSE UNCHANGED libraryVars
    /\ IF s = "wire" THEN TRUE ELSE UNCHANGED wireVars
    /\ IF s = "capture" THEN TRUE ELSE UNCHANGED captureVars
    /\ IF s = "keys" THEN TRUE ELSE UNCHANGED keyVars
    /\ IF s = "map" THEN TRUE ELSE UNCHANGED mapVars
    /\ IF s = "focus" THEN TRUE ELSE UNCHANGED focusVars
    /\ IF s = "mesh" THEN TRUE ELSE UNCHANGED meshVars
    /\ IF s = "remote" THEN TRUE ELSE UNCHANGED remoteVars
    /\ IF s = "link" THEN TRUE ELSE UNCHANGED linkVars

ServicesNext ==
    \/ Only("workspace") /\ WsNext
    \/ Only("collaboration") /\ CollabNext
    \/ Only("plugins") /\ PluginNext
    \/ Only("dashboard") /\ GuiNext
         /\ settings'.mem.edit + guiRequests' + sends'.dropped + guiFaults' <= MaxPanelEvents
    \/ Only("view") /\ ViewNext
    \/ Only("daemon") /\ DaemonNext
    \/ Only("screen") /\ ScreenNext
    \/ Only("audio") /\ AudioNext
    \/ Only("pipewire") /\ PipeNext
    \/ Only("graph") /\ GraphNext
    \/ Only("pods") /\ FormatArrives
    \/ Only("macscreen") /\ MacNext
    \/ Only("portal") /\ PortalNext
    \/ Only("library") /\ LibraryNext
    \/ Only("wire") /\ WireNext
    \/ Only("capture") /\ CaptureNext
    \/ Only("keys") /\ KeyNext
    \/ Only("map") /\ MapNext
    \/ Only("focus") /\ FocusNext
    \/ Only("mesh") /\ MeshNext
    \/ Only("remote") /\ RemoteNext
    \/ Only("link") /\ LinkNext

\* What distinguishes two states: the variables of the other parts are constant.
ServicesView ==
    CASE subject = "workspace" -> <<subject, wsVars>>
      [] subject = "collaboration" -> <<subject, collabVars>>
      [] subject = "plugins" -> <<subject, pluginVars>>
      [] subject = "dashboard" -> <<subject, guiVars>>
      [] subject = "view" -> <<subject, viewVars>>
      [] subject = "daemon" -> <<subject, daemonVars>>
      [] subject = "screen" -> <<subject, screenVars>>
      [] subject = "audio" -> <<subject, audioVars>>
      [] subject = "pipewire" -> <<subject, pipeVars>>
      [] subject = "graph" -> <<subject, graphVars>>
      [] subject = "pods" -> <<subject, pod>>
      [] subject = "macscreen" -> <<subject, macVars>>
      [] subject = "portal" -> <<subject, portalVars>>
      [] subject = "library" -> <<subject, libraryVars>>
      [] subject = "wire" -> <<subject, wireVars>>
      [] subject = "capture" -> <<subject, captureVars>>
      [] subject = "keys" -> <<subject, keyVars>>
      [] subject = "map" -> <<subject, mapVars>>
      [] subject = "focus" -> <<subject, focusVars>>
      [] subject = "mesh" -> <<subject, meshVars>>
      [] subject = "remote" -> <<subject, remoteVars>>
      [] subject = "link" -> <<subject, linkVars>>

ServicesSpec == ServicesInit /\ [][ServicesNext]_servicesVars

-----------------------------------------------------------------------------
(* What is checked of each group of parts, on the behaviours about them. *)

\* Shared work: every crossing of the virtual desktop that snapping, navigation
\* and throwing compute ends on a placed device, control of a session is held
\* by at most one participant that may have it and never beyond its lease, and
\* a plugin sees no event and keeps no grant it was not approved for.
TeamworkSound ==
    /\ subject = "workspace" => WorkspaceCoherent
    /\ subject = "collaboration" => CollaborationControlled
    /\ subject = "plugins" => PluginsConfined

\* The control panel: what it shows and writes agrees with its children and with
\* the files the daemon owns, except in the races named in its modules.
ControlPanelSound ==
    /\ subject = "dashboard" => DashboardSound
    /\ subject = "view" => HistoryFollows

\* The daemon's links and the network crate: one forwarder, nothing served for a
\* peer that is not allowed, nothing left running after a shutdown; cheapest
\* trusted routes, agreed remote sessions, and measurements that can be relied on.
NetworkSound ==
    /\ subject = "daemon" => DaemonSound
    /\ subject = "mesh" => MeshSound
    /\ subject = "remote" => RemoteSound
    /\ subject = "link" => LinkSound

\* Screen, audio and the Linux desktop: what is planned can run, what is shown or
\* played is fresh, complete and in order, and every native object is given back.
MediaSound ==
    /\ subject = "screen" => ScreenTypeOK /\ PlansCanRun /\ ShownIsFresh
    /\ subject = "audio" => AudioTypeOK /\ PlayedInOrder /\ DelayBounded
    /\ subject = "pipewire" => PipeTypeOK /\ NothingHeldWhenIdle /\ FramesComplete /\ PlayedExactlyOnce /\ OnePortalDialog
    /\ subject = "graph" => GraphFollowed
    /\ subject = "pods" => PodsUnderstood
    /\ subject = "macscreen" => MacTypeOK /\ EncoderMemoryAlive /\ MacGivesBack /\ CapturesOrdered
    /\ subject = "portal" => PortalTypeOK /\ EventsInOrder /\ NothingOvertakes /\ ReportsAreHonest

\* The file-transfer library: a transfer that is paused, resumed and finished has
\* written every byte once, and the two ends agree on every message.
TransferLibrarySound ==
    /\ subject = "library" => LibrarySound
    /\ subject = "wire" => CodecsAgree

\* Input on its way from one machine to the other: capture threads, native key
\* codes, the map that says where the pointer goes, and the focus of the keyboard.
InputPathSound ==
    /\ subject = "capture" => CaptureThreadsSafe
    /\ subject = "keys" => NativeInputFaithful
    /\ subject = "map" => DesktopMapSound
    /\ subject = "focus" => KeyboardSound
=============================================================================
