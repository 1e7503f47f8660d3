----------------------------- MODULE LinuxPortal -----------------------------
(***************************************************************************)
(* Input on a Linux desktop (crates/platform/platform-linux/src): what the *)
(* session can do (lib.rs) and, under Wayland, the portal client that      *)
(* injects through a RemoteDesktop session and captures through an         *)
(* InputCapture session whose events a worker thread per session decodes   *)
(* (portal_input.rs). The compositor and the portal are external.          *)
(***************************************************************************)
EXTENDS Naturals, Sequences, FiniteSets

CONSTANTS
    MaxPortalSessions,  \* bound: portal sessions opened
    MaxPortalEvents,    \* bound: events the compositor sends
    MaxZoneChanges      \* bound: changes of the screen layout

ASSUME PortalConstants == {MaxPortalSessions, MaxPortalEvents, MaxZoneChanges} \subseteq Nat

VARIABLES
    desk,        \* LinuxEnvironment, resolved: [session, display, portals]
    connecting,  \* LinuxWaylandPortalInput::connect in progress
    remote,      \* remote_desktop_session: a handle, 0 when None
    eis,         \* eis_connection: a handle, 0 when None
    opened,      \* portal sessions opened so far
    zones,       \* the compositor's current zone set
    barrier,     \* configure_pointer_barriers in progress: [step, seen], and what is enabled
    workers,     \* handle -> its worker thread, ReisPortalEisEventDecoder::streams
    holder,      \* the handle whose next_event holds the decoder's lock, 0 for none
    emitted,     \* handle -> events the compositor has sent
    got          \* handle -> what next_event has returned

portalVars == <<desk, connecting, remote, eis, opened, zones, barrier, workers, holder, emitted, got>>

Handles == 1..MaxPortalSessions
PortalNames == {"desktop", "remote_desktop", "input_capture", "screen_cast", "pipewire", "clipboard"}

-----------------------------------------------------------------------------
\* LinuxEnvironment::session, from XDG_SESSION_TYPE or else from the displays set.
SessionOf(env) ==
    CASE env.type = "wayland" -> "Wayland"
      [] env.type = "x11"     -> "X11"
      [] env.type = "none"    -> IF env.wayland THEN "Wayland" ELSE IF env.display THEN "X11" ELSE "Headless"
      [] OTHER                -> "Unknown"

DefaultPortals(desktop) ==
    CASE desktop \in {"Gnome", "Kde"} -> PortalNames \ {"input_capture"}
      [] desktop = "Wlroots"          -> PortalNames \ {"remote_desktop", "input_capture"}
      [] OTHER                        -> {}

\* resolve_portals: an override of the environment wins over the default.
ResolvePortals(env) ==
    IF SessionOf(env) # "Wayland" THEN {}
    ELSE (DefaultPortals(env.desktop) \cup env.forced) \ env.denied

HasFullInput(portals) == {"desktop", "remote_desktop", "input_capture"} \subseteq portals
HasPipeWirePortal(portals) == {"desktop", "screen_cast", "pipewire"} \subseteq portals

\* summarize_capabilities
PortalCapabilities(d) ==
    CASE d.session = "X11" -> {"inject", "capture", "clipboard"}
      [] d.session = "Wayland" ->
            {c \in {"inject"} : "remote_desktop" \in d.portals}
              \cup {c \in {"capture"} : "input_capture" \in d.portals}
              \cup {c \in {"clipboard"} : "clipboard" \in d.portals \/ (d.display /\ ~HasFullInput(d.portals))}
              \cup {c \in {"pending"} : "desktop" \in d.portals}
      [] OTHER -> {}

\* request_permissions: what remains after asking, or an error.
AfterAsking(d) ==
    CASE d.session = "Wayland" /\ HasFullInput(d.portals)    -> PortalCapabilities(d) \ {"pending"}
      [] d.session = "Wayland" /\ "desktop" \in d.portals    -> PortalCapabilities(d)
      [] d.session = "X11"                                   -> PortalCapabilities(d)
      [] OTHER                                               -> {"unsupported"}

\* audio_capabilities: can PipeWire be used at all, and does audio follow the mouse.
AudioFollows(d, pipewire) ==
    LET usable == CASE d.session = "Wayland" -> HasPipeWirePortal(d.portals)
                    [] d.session = "X11"     -> pipewire
                    [] OTHER                 -> FALSE
    IN  usable /\ "inject" \in PortalCapabilities(d)

-----------------------------------------------------------------------------
NoWorker == [state |-> "none", queue |-> <<>>]
Rest == [step |-> "none", seen |-> 0, enabled |-> {}]

PortalInit ==
    /\ \E env \in [type : {"wayland", "x11", "none", "tty"}, wayland : BOOLEAN, display : BOOLEAN,
                   desktop : {"Gnome", "Wlroots", "Unknown"},
                   forced : {{}, {"input_capture"}, {"desktop", "remote_desktop", "input_capture"}},
                   denied : {{}, {"desktop"}}] :
          desk = [session |-> SessionOf(env), display |-> env.display, portals |-> ResolvePortals(env)]
    /\ connecting = "out" /\ remote = 0 /\ eis = 0 /\ opened = 0 /\ zones = 1
    /\ barrier = Rest /\ holder = 0
    /\ workers = [h \in Handles |-> NoWorker]
    /\ emitted = [h \in Handles |-> 0] /\ got = [h \in Handles |-> <<>>]

readVars == <<workers, holder, emitted, got>>

\* connect: the interfaces must be there; then both sessions are opened, one after
\* the other. CreateSession and Start return before the user has answered.
StartConnect ==
    /\ connecting \in {"out", "in"} /\ opened + 2 <= MaxPortalSessions
    /\ connecting' = IF HasFullInput(desk.portals) THEN "remote" ELSE "denied"
    /\ UNCHANGED <<desk, remote, eis, opened, zones, barrier, readVars>>

OpenRemoteDesktop ==
    /\ connecting = "remote"
    /\ \/ /\ opened' = opened + 1 /\ remote' = opened + 1 /\ connecting' = "capture"
       \/ connecting' = "out" /\ UNCHANGED <<opened, remote>>
    /\ UNCHANGED <<desk, eis, zones, barrier, readVars>>

OpenInputCapture ==
    /\ connecting = "capture"
    /\ \/ /\ opened' = opened + 1 /\ eis' = opened + 1 /\ connecting' = "in"
       \/ connecting' = "out" /\ UNCHANGED <<opened, eis>>
    /\ UNCHANGED <<desk, remote, zones, barrier, readVars>>

\* The screen layout changes: the compositor drops the barriers and issues a new
\* zone set.
ZonesChange ==
    /\ zones <= MaxZoneChanges /\ eis # 0
    /\ zones' = zones + 1 /\ barrier' = [barrier EXCEPT !.enabled = {}]
    /\ UNCHANGED <<desk, connecting, remote, eis, opened, readVars>>

\* configure_pointer_barriers: GetZones, SetPointerBarriers with the set that was
\* read, Enable. The portal refuses barriers for a set that is no longer current.
GetZones ==
    /\ eis # 0 /\ barrier.step = "none"
    /\ barrier' = [barrier EXCEPT !.step = "read", !.seen = zones]
    /\ UNCHANGED <<desk, connecting, remote, eis, opened, zones, readVars>>

SetPointerBarriers ==
    /\ barrier.step = "read"
    /\ barrier' = IF barrier.seen = zones THEN [barrier EXCEPT !.step = "set"] ELSE [barrier EXCEPT !.step = "none"]
    /\ UNCHANGED <<desk, connecting, remote, eis, opened, zones, readVars>>

EnableCapture ==
    /\ barrier.step = "set"
    /\ barrier' = [step |-> "none", seen |-> 0, enabled |-> {s \in {barrier.seen} : s = zones}]
    /\ UNCHANGED <<desk, connecting, remote, eis, opened, zones, readVars>>

-----------------------------------------------------------------------------
unread == <<desk, connecting, remote, eis, opened, zones, barrier>>

\* Every call starts a worker.
NeedsWorkerAlways(h) == TRUE

\* streams.contains_key
NeedsWorker(h) == workers[h].state = "none"

\* next_event: the decoder's lock is taken and kept until an event arrives; the
\* first call for a session starts its worker thread.
NextEvent ==
    /\ eis # 0 /\ holder = 0
    /\ holder' = eis
    /\ workers' = IF NeedsWorker(eis) THEN [workers EXCEPT ![eis] = [state |-> "runs", queue |-> <<>>]]
                  ELSE workers
    /\ UNCHANGED <<unread, emitted, got>>

\* run_reis_eis_worker: an input event is queued, one of another kind is skipped,
\* and an error (handshake, decoding, disconnection, end of stream) is the last thing
\* the thread queues.
WorkerEvent(h) ==
    /\ workers[h].state = "runs"
    /\ \/ /\ emitted[h] < MaxPortalEvents
          /\ emitted' = [emitted EXCEPT ![h] = @ + 1]
          /\ \/ workers' = [workers EXCEPT ![h].queue = Append(@, emitted[h] + 1)]
             \/ UNCHANGED workers
       \/ /\ workers' = [workers EXCEPT ![h] = [state |-> "ended", queue |-> Append(@.queue, 0)]]
          /\ UNCHANGED emitted
    /\ UNCHANGED <<unread, holder, got>>

\* recv returns an event, or for ever an error once the thread has ended and its
\* queue is empty.
Received ==
    /\ holder # 0
    /\ \/ /\ workers[holder].queue # <<>>
          /\ got' = [got EXCEPT ![holder] = Append(@, Head(workers[holder].queue))]
          /\ workers' = [workers EXCEPT ![holder].queue = Tail(@)]
       \/ /\ workers[holder] = [state |-> "ended", queue |-> <<>>]
          /\ UNCHANGED <<got, workers>>
    /\ holder' = 0
    /\ UNCHANGED <<unread, emitted>>

\* The caller of next_event gives up; recv has taken nothing.
ReaderCancelled ==
    /\ holder # 0 /\ holder' = 0
    /\ UNCHANGED <<unread, workers, emitted, got>>

PortalNext ==
    \/ StartConnect \/ OpenRemoteDesktop \/ OpenInputCapture \/ ZonesChange
    \/ GetZones \/ SetPointerBarriers \/ EnableCapture
    \/ NextEvent \/ Received \/ ReaderCancelled
    \/ \E h \in Handles : WorkerEvent(h)

PortalSpec == PortalInit /\ [][PortalNext]_portalVars

-----------------------------------------------------------------------------
PortalTypeOK ==
    /\ connecting \in {"out", "in", "denied", "remote", "capture"}
    /\ {remote, eis, holder} \subseteq 0..MaxPortalSessions
    /\ desk.portals \subseteq PortalNames
    /\ barrier.enabled \subseteq {zones}

\* The events of one capture session reach the caller in the order the compositor
\* sent them and each at most once, over waits that are given up and restarted and
\* over a reconnection; after an error nothing more comes.
EventsInOrder ==
    \A h \in Handles :
       LET seen == got[h] IN
       \A i, j \in DOMAIN seen : i < j => seen[i] # 0 /\ (seen[j] # 0 => seen[i] < seen[j])

\* Nothing that was decoded is lost between the worker and the caller: what waits
\* is newer than what was returned.
NothingOvertakes ==
    \A h \in Handles : \A i \in DOMAIN got[h], j \in DOMAIN workers[h].queue :
       got[h][i] # 0 /\ (workers[h].queue[j] # 0 => got[h][i] < workers[h].queue[j])

\* A session said to inject and capture once permission has been asked for is X11's
\* own or one the portal client goes on to connect in, and the client connects in no
\* other.
ReportsAreHonest ==
    LET able == {"inject", "capture"} \subseteq AfterAsking(desk) IN
    /\ (able /\ desk.session = "Wayland" => HasFullInput(desk.portals))
    /\ (connecting \in {"remote", "capture", "in"} => able)
=============================================================================
