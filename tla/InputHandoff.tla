----------------------------- MODULE InputHandoff -----------------------------
(***************************************************************************)
(* Keyboard and mouse hand-off from a source machine to a target machine.   *)
(*                                                                          *)
(* Three actors run concurrently:                                           *)
(*   - the OS event-tap callback of the source, which queues every physical *)
(*     input and swallows it locally while `suppressed` is set              *)
(*     (crates/platform/platform-macos/src/capture.rs);                     *)
(*   - the forwarder task of the source, which owns the cursor focus and    *)
(*     the list of inputs held on the target                                *)
(*     (forward_reconfigurable_until_shutdown, input_session.rs);           *)
(*   - the injector task of the target (inject_until_shutdown).             *)
(* They are joined by the capture queue, the suppression flag and one FIFO  *)
(* link.  A session may break at any time and be followed by another one.   *)
(*                                                                          *)
(* Pointer geometry is abstracted: a motion may or may not reach the        *)
(* hand-off edge, and may or may not slide back over it.  The order in      *)
(* which held inputs are released is left open, so a batch of releases is a *)
(* set of events.                                                           *)
(***************************************************************************)
EXTENDS Naturals, Sequences

CONSTANTS
    Keys,             \* keys and mouse buttons a user can hold
    Emergency,        \* the configured emergency_stop_keycode
    NoKey,            \* the "key" of a motion event
    Edges,            \* the handoff edges the configuration may name
    FocusTimeoutOn,   \* remote_focus_timeout_millis > 0
    QueueCapacity,    \* CAPTURE_QUEUE_CAPACITY
    NetCapacity,      \* bound: events in flight before a send blocks
    MaxInputs,        \* bound: physical inputs
    MaxSessions,      \* bound: sessions, first one included
    MaxEdits          \* bound: edits of the handoff edge in the configuration

ASSUME ConstantsOK ==
    /\ Emergency \in Keys
    /\ NoKey \notin Keys
    /\ FocusTimeoutOn \in BOOLEAN
    /\ QueueCapacity \in Nat \ {0}
    /\ NetCapacity \in Nat \ {0}
    /\ MaxInputs \in Nat
    /\ MaxSessions \in Nat
    /\ MaxEdits \in Nat

VARIABLES
    session,      \* sessions started so far
    inputs,       \* physical inputs so far
    edits,        \* edits of the configured edge so far
    queue,        \* capture queue: events the tap callback has queued
    suppressed,   \* EventTapControl.suppressed: local input is swallowed
    fault,        \* EventTapControl.fault is set (never cleared)
    topology,     \* the edge the watch channel holds
    edge,         \* LinkedScreenInputShare.edge
    shutdownS,    \* shutdown requested at the source
    fwd,          \* where the forwarder task is
    focus,        \* CursorFocus
    heldS,        \* held_remote_inputs
    guard,        \* SuppressionGuard.suppressed
    outbox,       \* events of the current batch not sent yet
    mode,         \* what follows the batch
    open,         \* the physical link is open
    net,          \* events in flight to the target
    shutdownT,    \* shutdown requested at the target
    tgt,          \* where the injector task is
    heldT,        \* held_inputs of the injector
    down,         \* inputs the target OS considers pressed
    injectFault,  \* an injection failed, in this session, for a held input
    stuckFault    \* a release could not be injected, or the task was aborted

srcVars == <<fwd, focus, heldS, guard, outbox, mode>>
tgtVars == <<tgt, heldT, down, injectFault, stuckFault>>
envVars == <<session, inputs, edits, topology, shutdownS, shutdownT>>
vars == <<envVars, queue, suppressed, fault, edge, srcVars, open, net, tgtVars>>

(***************************************************************************)
(* Events.  `at` is the session an event was captured in.                   *)
(***************************************************************************)
Event(kind, key, at) == [kind |-> kind, key |-> key, at |-> at]

KeyEvents == [kind : {"press", "release"}, key : Keys, at : Nat]
MotionEvents == [kind : {"abs", "rel", "entry", "move"}, key : {NoKey}, at : Nat]
Events == KeyEvents \cup MotionEvents

\* One release per held input (drain_held_remote_releases).
Releases(held) == {Event("release", k, session) : k \in held}

\* Seeded fault: a release is not recorded.
TrackPressOnly(held, e) == IF e.kind = "press" THEN held \cup {e.key} ELSE held

\* track_held_input: a press adds the input once, a release removes it.
Track(held, e) ==
    CASE e.kind = "press" -> held \cup {e.key}
      [] e.kind = "release" -> held \ {e.key}
      [] OTHER -> held

EnvTypeOK ==
    /\ session \in Nat /\ inputs \in Nat /\ edits \in Nat
    /\ topology \in Edges
    /\ shutdownS \in BOOLEAN /\ shutdownT \in BOOLEAN
CaptureTypeOK ==
    /\ queue \in Seq(Events) /\ Len(queue) <= QueueCapacity
    /\ suppressed \in BOOLEAN /\ fault \in BOOLEAN
ForwarderTypeOK ==
    /\ edge \in Edges
    /\ fwd \in {"wait", "suppress", "store", "send", "closing", "ended"}
    /\ focus \in {"local", "remote"}
    /\ heldS \in SUBSET Keys
    /\ guard \in BOOLEAN
    /\ outbox \in SUBSET Events
    /\ mode \in {"keep", "return", "cleanup"}
InjectorTypeOK ==
    /\ open \in BOOLEAN /\ net \in Seq(Events)
    /\ tgt \in {"serve", "release", "ended"}
    /\ heldT \in SUBSET Keys /\ down \in SUBSET Keys
    /\ injectFault \in BOOLEAN /\ stuckFault \in BOOLEAN
TypeOK == EnvTypeOK /\ CaptureTypeOK /\ ForwarderTypeOK /\ InjectorTypeOK

Init ==
    /\ session = 0 /\ inputs = 0 /\ edits = 0
    /\ queue = <<>> /\ suppressed = FALSE /\ fault = FALSE
    /\ topology \in Edges /\ edge = topology
    /\ shutdownS = FALSE /\ shutdownT = FALSE
    /\ fwd = "ended" /\ focus = "local" /\ heldS = {} /\ guard = FALSE
    /\ outbox = {} /\ mode = "keep"
    /\ open = FALSE /\ net = <<>>
    /\ tgt = "ended" /\ heldT = {} /\ down = {}
    /\ injectFault = FALSE /\ stuckFault = FALSE

(***************************************************************************)
(* Seeded faults: slips the code could contain.  Each replaces the          *)
(* definition it is a variant of, and each breaks a property.               *)
(***************************************************************************)

\* StartSession without discard_pending.
StartWithBacklog ==
    /\ session < MaxSessions
    /\ fwd = "ended" /\ tgt = "ended"
    /\ session' = session + 1
    /\ edge' = topology
    /\ fwd' = "wait" /\ focus' = "local" /\ heldS' = {} /\ guard' = FALSE
    /\ outbox' = {} /\ mode' = "keep"
    /\ open' = TRUE /\ net' = <<>>
    /\ tgt' = "serve" /\ heldT' = {} /\ injectFault' = FALSE
    /\ UNCHANGED <<inputs, edits, topology, shutdownS, shutdownT, queue,
                   suppressed, fault, down, stuckFault>>

\* Capture with an unbounded queue.
CaptureUnbounded(e) ==
    /\ inputs < MaxInputs
    /\ inputs' = inputs + 1
    /\ queue' = Append(queue, e)
    /\ UNCHANGED <<session, edits, topology, shutdownS, shutdownT, suppressed,
                   fault, edge, srcVars, open, net, tgtVars>>

\* GiveBack that forgets what is held instead of releasing it.
GiveBackSilently(next) ==
    /\ focus' = "local" /\ heldS' = {} /\ outbox' = {} /\ mode' = next
    /\ fwd' = "send"
    /\ UNCHANGED guard

\* Unsuppress that disarms the guard without calling the setter.
UnsuppressGuardOnly == UNCHANGED suppressed /\ guard' = FALSE

\* FocusTimeout armed while focus is local instead of remote.
FocusTimeoutWhileLocal ==
    /\ fwd = "wait" /\ ~shutdownS /\ topology = edge /\ ~fault /\ queue = <<>>
    /\ FocusTimeoutOn /\ focus = "local" /\ heldS # {}
    /\ heldS' = {} /\ fwd' = "send"
    /\ UNCHANGED <<envVars, queue, suppressed, fault, edge, focus, guard, outbox,
                   mode, open, net, tgtVars>>

\* FinishBatch that leaves suppression as it is.
FinishWithoutRestore ==
    /\ fwd = "send" /\ outbox = {}
    /\ fwd' = IF mode = "cleanup" THEN "closing" ELSE "wait"
    /\ UNCHANGED <<envVars, queue, suppressed, fault, edge, focus, heldS, guard,
                   outbox, mode, open, net, tgtVars>>

\* FinishBatch that resumes waiting after the cleanup batch.
FinishAndResume ==
    /\ fwd = "send" /\ outbox = {}
    /\ suppressed' = (suppressed /\ ~guard) /\ guard' = FALSE
    /\ fwd' = "wait"
    /\ UNCHANGED <<envVars, queue, fault, edge, focus, heldS, outbox, mode,
                   open, net, tgtVars>>

\* EndReceive that returns without the release loop.
EndReceiveHolding ==
    /\ tgt = "serve"
    /\ shutdownT \/ (~open /\ net = <<>>)
    /\ tgt' = "ended" /\ open' = FALSE /\ heldT' = {}
    /\ UNCHANGED <<envVars, queue, suppressed, fault, edge, srcVars, net, down,
                   injectFault, stuckFault>>

\* EndReceive that notices only a requested shutdown.
EndReceiveOnShutdown ==
    /\ tgt = "serve" /\ shutdownT
    /\ tgt' = "release"
    /\ UNCHANGED <<envVars, queue, suppressed, fault, edge, srcVars, open, net,
                   heldT, down, injectFault, stuckFault>>

(***************************************************************************)
(* The environment: the user, the configuration file, the operator, the LAN *)
(***************************************************************************)

\* A peer session is fanned out on both machines: the input handler takes the
\* forwarder lease, discards the backlog captured before this session, and
\* starts a fresh share with the edge the watch channel holds; the target
\* starts a fresh injector.  The session lease of peer_session.rs is held until
\* the lanes of the previous session are gone on both sides.
StartSession ==
    /\ session < MaxSessions
    /\ fwd = "ended" /\ tgt = "ended"
    /\ session' = session + 1
    /\ queue' = <<>>
    /\ edge' = topology
    /\ fwd' = "wait" /\ focus' = "local" /\ heldS' = {} /\ guard' = FALSE
    /\ outbox' = {} /\ mode' = "keep"
    /\ open' = TRUE /\ net' = <<>>
    /\ tgt' = "serve" /\ heldT' = {} /\ injectFault' = FALSE
    /\ UNCHANGED <<inputs, edits, topology, shutdownS, shutdownT, suppressed,
                   fault, down, stuckFault>>

\* capture_callback, for one physical input e.  A full queue drops a motion
\* that passes through locally; anything else fails open: the fault is
\* recorded and local input restored.
Capture(e) ==
    /\ inputs < MaxInputs
    /\ inputs' = inputs + 1
    /\ \/ /\ Len(queue) < QueueCapacity
          /\ queue' = Append(queue, e)
          /\ UNCHANGED <<suppressed, fault>>
       \/ /\ Len(queue) = QueueCapacity
          /\ IF e.kind = "abs"
                THEN UNCHANGED <<suppressed, fault>>
                ELSE fault' = TRUE /\ suppressed' = FALSE
          /\ UNCHANGED queue
    /\ UNCHANGED <<session, edits, topology, shutdownS, shutdownT, edge,
                   srcVars, open, net, tgtVars>>

\* The tap reports relative motion while suppressed, absolute motion otherwise.
UserInput ==
    \/ \E k \in Keys, kind \in {"press", "release"} :
          Capture(Event(kind, k, session))
    \/ Capture(Event(IF suppressed THEN "rel" ELSE "abs", NoKey, session))

\* reload_handoff_edge_once publishes a changed edge.
EditTopology ==
    /\ edits < MaxEdits
    /\ edits' = edits + 1
    /\ topology' \in Edges \ {topology}
    /\ UNCHANGED <<session, inputs, shutdownS, shutdownT, queue, suppressed,
                   fault, edge, srcVars, open, net, tgtVars>>

\* InputTaskSupervisor::shutdown raises the watch flag.
RequestShutdown ==
    /\ \/ ~shutdownS /\ shutdownS' = TRUE /\ UNCHANGED shutdownT
       \/ ~shutdownT /\ shutdownT' = TRUE /\ UNCHANGED shutdownS
    /\ UNCHANGED <<session, inputs, edits, topology, queue, suppressed, fault,
                   edge, srcVars, open, net, tgtVars>>

\* The link dies; some suffix of what is in flight never arrives.
LinkBreak ==
    /\ open
    /\ open' = FALSE
    /\ \E n \in 0 .. Len(net) : net' = SubSeq(net, 1, n)
    /\ UNCHANGED <<envVars, queue, suppressed, fault, edge, srcVars, tgtVars>>

(***************************************************************************)
(* The forwarder task of the source.                                        *)
(***************************************************************************)

\* The select of the forwarder is biased: shutdown, then topology, then input.
Ready == fwd = "wait" /\ ~shutdownS /\ topology = edge

\* Focus goes back to the local machine and one release is owed per held input
\* (release_remote_events, or ReturnLocal in route_remote_motion).
GiveBack(next) ==
    /\ focus' = "local" /\ heldS' = {}
    /\ outbox' = Releases(heldS)
    /\ mode' = next
    /\ fwd' = "send"
    /\ UNCHANGED guard

\* SuppressionGuard::set(false), restore and Drop: the setter is called only
\* when the guard had suppressed.
Unsuppress ==
    /\ suppressed' = (suppressed /\ ~guard)
    /\ guard' = FALSE

\* The routed batch is sent; focus as given.
Emit(events, held) ==
    /\ outbox' = events /\ heldS' = held /\ mode' = "keep" /\ fwd' = "send"
    /\ UNCHANGED <<focus, guard>>

ShutdownForwarder ==
    /\ fwd = "wait" /\ shutdownS
    /\ GiveBack("cleanup")
    /\ UNCHANGED <<envVars, queue, suppressed, fault, edge, open, net, tgtVars>>

\* ForwardWait::Topology: a new edge gives remote focus back and resets the share.
Reconfigure ==
    /\ fwd = "wait" /\ ~shutdownS /\ topology # edge
    /\ edge' = topology
    /\ IF focus = "remote" THEN GiveBack("return") ELSE UNCHANGED srcVars
    /\ UNCHANGED <<envVars, queue, suppressed, fault, open, net, tgtVars>>

\* ForwardWait::Event(Err): next_event reports the capture fault.
CaptureError ==
    /\ Ready /\ fault
    /\ GiveBack("cleanup")
    /\ UNCHANGED <<envVars, queue, suppressed, fault, edge, open, net, tgtVars>>

\* ForwardWait::FocusTimeout: the timer restarts with every event, so it fires
\* only when nothing is queued.
FocusTimeout ==
    /\ Ready /\ ~fault /\ queue = <<>>
    /\ FocusTimeoutOn /\ focus = "remote"
    /\ GiveBack("return")
    /\ UNCHANGED <<envVars, queue, suppressed, fault, edge, open, net, tgtVars>>

\* route_events while focus is local: only absolute motion can cross the edge.
RouteLocal(e) ==
    \/ UNCHANGED srcVars
    \/ /\ e.kind = "abs"
       /\ focus' = "remote" /\ heldS' = {}
       /\ outbox' = {Event("entry", NoKey, e.at)}
       /\ mode' = "keep"
       /\ fwd' = "suppress"
       /\ UNCHANGED guard

\* route_remote_events: motion is forwarded or slides back over the entry edge,
\* everything else is tracked and forwarded.
RouteRemote(e) ==
    IF e.kind \in {"abs", "rel"}
       THEN \/ Emit({Event("move", NoKey, e.at)}, heldS)
            \/ GiveBack("return")
       ELSE Emit({e}, Track(heldS, e))

\* route_events: the emergency key gives focus back and is never forwarded.
Route ==
    /\ Ready /\ ~fault /\ queue # <<>>
    /\ queue' = Tail(queue)
    /\ LET e == Head(queue)
       IN  IF e.kind = "press" /\ e.key = Emergency
              THEN IF focus = "remote" THEN GiveBack("return")
                                       ELSE UNCHANGED srcVars
              ELSE IF focus = "local" THEN RouteLocal(e) ELSE RouteRemote(e)
    /\ UNCHANGED <<envVars, suppressed, fault, edge, open, net, tgtVars>>

\* MacosInputCapture::set_suppressed(true): a recorded fault restores local
\* input instead; the flag is stored in a step of its own.
CheckFault ==
    /\ fwd = "suppress"
    /\ IF fault
          THEN suppressed' = FALSE /\ guard' = TRUE /\ fwd' = "send"
          ELSE fwd' = "store" /\ UNCHANGED <<suppressed, guard>>
    /\ UNCHANGED <<envVars, queue, fault, edge, focus, heldS, outbox, mode,
                   open, net, tgtVars>>

StoreSuppressed ==
    /\ fwd = "store"
    /\ suppressed' = TRUE /\ guard' = TRUE /\ fwd' = "send"
    /\ UNCHANGED <<envVars, queue, fault, edge, focus, heldS, outbox, mode,
                   open, net, tgtVars>>

\* send_input_events: one event of the batch reaches the link.
SendOne ==
    /\ fwd = "send" /\ open /\ Len(net) < NetCapacity
    /\ \E e \in outbox :
          /\ net' = Append(net, e)
          /\ outbox' = outbox \ {e}
    /\ UNCHANGED <<envVars, queue, suppressed, fault, edge, fwd, focus, heldS,
                   guard, mode, open, tgtVars>>

\* A send fails or times out: TcpConnection::send fails only before the frame is
\* written whole, so the event is lost.  The rest of the batch is dropped, focus
\* and suppression are given up and the link is closed, in every mode.
SendFails ==
    /\ fwd = "send" /\ outbox # {}
    /\ focus' = "local" /\ heldS' = {} /\ outbox' = {} /\ fwd' = "closing"
    /\ Unsuppress
    /\ UNCHANGED <<envVars, queue, fault, edge, mode, open, net, tgtVars>>

\* The whole batch is on the link.
FinishBatch ==
    /\ fwd = "send" /\ outbox = {}
    /\ IF mode = "keep" THEN UNCHANGED <<suppressed, guard>> ELSE Unsuppress
    /\ fwd' = IF mode = "cleanup" THEN "closing" ELSE "wait"
    /\ UNCHANGED <<envVars, queue, fault, edge, focus, heldS, outbox, mode,
                   open, net, tgtVars>>

\* close_input_connection, then the task returns.
CloseForwarder ==
    /\ fwd = "closing"
    /\ fwd' = "ended" /\ open' = FALSE
    /\ UNCHANGED <<envVars, queue, suppressed, fault, edge, focus, heldS, guard,
                   outbox, mode, net, tgtVars>>

\* The forwarder future is dropped at one of its await points, because the
\* session ended (the select of input_peer_handler) or because the supervisor
\* aborts it; SuppressionGuard::drop restores local input.
DropForwarder ==
    /\ fwd \in {"wait", "closing"} \/ (fwd = "send" /\ outbox # {})
    /\ ~open \/ shutdownS
    /\ fwd' = "ended" /\ open' = FALSE
    /\ focus' = "local" /\ heldS' = {} /\ outbox' = {}
    /\ Unsuppress
    /\ UNCHANGED <<envVars, queue, fault, edge, mode, net, tgtVars>>

(***************************************************************************)
(* The injector task of the target.                                         *)
(***************************************************************************)

\* One envelope: injected and tracked, failed and skipped, or refused for good.
Inject ==
    /\ tgt = "serve" /\ ~shutdownT /\ net # <<>>
    /\ net' = Tail(net)
    /\ LET e == Head(net)
       IN  \/ /\ down' = Track(down, e) /\ heldT' = Track(heldT, e)
              /\ UNCHANGED <<tgt, injectFault>>
           \/ /\ injectFault' = TRUE
              /\ UNCHANGED <<tgt, heldT, down>>
           \/ /\ tgt' = "release" /\ injectFault' = TRUE
              /\ UNCHANGED <<heldT, down>>
    /\ UNCHANGED <<envVars, queue, suppressed, fault, edge, srcVars, open,
                   stuckFault>>

\* The receive loop ends: the link is closed and drained, or shutdown is requested.
EndReceive ==
    /\ tgt = "serve"
    /\ shutdownT \/ (~open /\ net = <<>>)
    /\ tgt' = "release"
    /\ UNCHANGED <<envVars, queue, suppressed, fault, edge, srcVars, open, net,
                   heldT, down, injectFault, stuckFault>>

\* One held input is released by the injector, or cannot be.
ReleaseHeld ==
    /\ tgt = "release"
    /\ \E k \in heldT :
          /\ heldT' = heldT \ {k}
          /\ \/ down' = down \ {k} /\ UNCHANGED stuckFault
             \/ stuckFault' = TRUE /\ UNCHANGED down
    /\ UNCHANGED <<envVars, queue, suppressed, fault, edge, srcVars, open, net,
                   tgt, injectFault>>

EndInjector ==
    /\ tgt = "release" /\ heldT = {}
    /\ tgt' = "ended" /\ open' = FALSE
    /\ UNCHANGED <<envVars, queue, suppressed, fault, edge, srcVars, net, heldT,
                   down, injectFault, stuckFault>>

\* The supervisor aborts an injector that outlives the shutdown deadline.
AbortInjector ==
    /\ tgt # "ended" /\ shutdownT
    /\ tgt' = "ended" /\ open' = FALSE /\ heldT' = {} /\ stuckFault' = TRUE
    /\ UNCHANGED <<envVars, queue, suppressed, fault, edge, srcVars, net, down,
                   injectFault>>

(***************************************************************************)
(* Specification                                                            *)
(***************************************************************************)
Source ==
    \/ ShutdownForwarder \/ Reconfigure \/ CaptureError \/ FocusTimeout \/ Route
    \/ CheckFault \/ StoreSuppressed \/ SendOne \/ SendFails \/ FinishBatch
    \/ CloseForwarder \/ DropForwarder

Target == Inject \/ EndReceive \/ ReleaseHeld \/ EndInjector \/ AbortInjector

Environment ==
    StartSession \/ UserInput \/ EditTopology \/ RequestShutdown \/ LinkBreak

Next == Source \/ Target \/ Environment

Spec == Init /\ [][Next]_vars

\* tokio runs every task that is ready, every send has a timeout, and the
\* focus timer fires when it is the only branch left.
Fairness == WF_vars(Source) /\ WF_vars(Target)

FairSpec == Spec /\ Fairness

(***************************************************************************)
(* Properties                                                               *)
(***************************************************************************)

\* Local input is never left swallowed: once the forwarder task is gone, however
\* it ended (return, error, capture fault, dropped future, abort), the event tap
\* passes input through; while it runs, a set flag is always one the guard will
\* undo.
LocalInputRestored == suppressed => guard /\ fwd # "ended"

\* No key or button stays pressed on the target after its injector is gone,
\* unless injecting the release itself failed or the task was aborted at the
\* shutdown deadline.
NoStuckRemoteInput == tgt = "ended" /\ ~stuckFault => down = {}

\* Whether input k is down on a target that holds `held` once it has injected
\* the events of s: the last one about k is a press, or none is about it.
Mentions(s, k) == \E i \in 1 .. Len(s) : s[i].key = k
LastIsPress(s, k) ==
    \E i \in 1 .. Len(s) :
        /\ s[i].key = k /\ s[i].kind = "press"
        /\ \A j \in 1 .. Len(s) : j > i => s[j].key # k
After(s, held, k) == LastIsPress(s, k) \/ (k \in held /\ ~Mentions(s, k))

\* The same once everything about to be sent has been injected too.
DownAfter(k) ==
    \/ \E e \in outbox : e.key = k /\ e.kind = "press"
    \/ (\A e \in outbox : e.key # k) /\ After(net, heldT, k)

\* The source's record of held inputs is exactly what the target will hold after
\* the events in flight, so the releases computed from it are the right ones.
Healthy == open /\ fwd \in {"wait", "suppress", "store", "send"}
                /\ tgt = "serve" /\ ~injectFault
StreamMirrorsHeld == Healthy => heldS = {k \in Keys : DownAfter(k)}

\* Whenever focus is back on the source and its releases are sent, the events in
\* flight leave nothing pressed on the target, although the session goes on.
LocalFocusLeavesTargetClean ==
    Healthy /\ focus = "local" /\ outbox = {} => \A k \in Keys : ~DownAfter(k)

\* Input captured before the current session (the backlog of a disconnected
\* tap) never reaches the target.
StaleInputNeverForwarded ==
    /\ \A e \in outbox : e.at = session
    /\ \A i \in 1 .. Len(net) : net[i].at = session

\* While the source waits for input, local suppression and remote focus agree
\* (a capture fault has already restored local input).
SuppressionFollowsFocus ==
    fwd = "wait" => /\ guard = (focus = "remote")
                    /\ ~fault => suppressed = (focus = "remote")

\* A requested shutdown ends the forwarder with local input restored.
ShutdownCompletes == shutdownS ~> (fwd = "ended" /\ ~suppressed)

\* Losing the link ends the injector, which releases what it holds.
LinkLossReleasesTarget == (tgt = "serve" /\ ~open) ~> (tgt = "ended")

\* Once the user stops, remote focus does not last: it returns to the source by
\* the inputs still queued, by the focus timeout, or because the session failed.
FocusReturns == (focus = "remote") ~> (focus = "local")
===============================================================================
