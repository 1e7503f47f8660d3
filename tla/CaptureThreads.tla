--------------------------- MODULE CaptureThreads ---------------------------
(***************************************************************************)
(* The native threads that capture input, and what they share with the     *)
(* daemon: on macOS an event tap on a run loop of its own, with handles    *)
(* published for the capture's Drop to stop it                             *)
(* (platform-macos/src/capture.rs); on Windows two low-level hooks and a   *)
(* process-wide slot (platform-windows/src/capture.rs). On both, a swap of *)
(* the suppression flag decides who tells the system to hide or show the   *)
(* cursor, and the system is told after the swap.                          *)
(***************************************************************************)
EXTENDS Integers, FiniteSets

CONSTANTS
    Platforms,      \* subset of {"macos", "windows"}
    MaxSwitches     \* bound: calls of set_suppressed by the session

ASSUME CaptureConstants == Platforms \subseteq {"macos", "windows"} /\ MaxSwitches \in Nat

VARIABLES
    platform,
    thread,     \* where the capture thread is
    liveHandles,    \* EventTapNativeHandles / CAPTURE_STATE and the hooks: what is published
    alive,      \* native objects that exist
    control,    \* EventTapControl: [suppressed, fault, shutdown]
    loop,       \* the run loop: [stop, lost, on]: asked to stop; a stop came before it ran; the
                \* system delivers events to the tap
    cursorState, \* what the system was told: [free, shown]: mouse attached; show counter
    caller,     \* threads in update_suppression: caller -> value still to be applied, or {}
    chosenValue, \* {value}: set_suppressed has read the fault and not yet swapped
    owner,      \* Drop of the last clone: "live", "flagged", "stopped", "joined"
    switches,
    crossed     \* history: two of them were between swap and system call at once

captureVars == <<platform, thread, liveHandles, alive, control, loop, cursorState, caller, chosenValue, owner,
                switches, crossed>>

Callers == {"session", "callback", "drop"}
Mac == platform = "macos"

CaptureInit ==
    /\ platform \in Platforms
    /\ thread = "start" /\ liveHandles = {} /\ alive = {"state"}
    /\ control = [suppressed |-> FALSE, fault |-> FALSE, shutdown |-> FALSE]
    /\ loop = [stop |-> FALSE, lost |-> FALSE, on |-> TRUE]
    /\ cursorState = [free |-> TRUE, shown |-> 0]
    /\ caller = [c \in Callers |-> {}] /\ chosenValue = {}
    /\ owner = "live" /\ switches = 0 /\ crossed = FALSE

-----------------------------------------------------------------------------
\* run_event_tap: CGEventTapCreate and CFMachPortCreateRunLoopSource may fail;
\* what exists by then is released and the callback state freed.
CreateTap ==
    /\ Mac /\ thread = "start"
    /\ \/ thread' = "gone" /\ alive' = {} /\ liveHandles' = liveHandles
       \/ thread' = "tap" /\ alive' = alive \cup {"tap"} /\ liveHandles' = liveHandles \cup {"tap"}
    /\ UNCHANGED <<platform, control, loop, cursorState, caller, chosenValue, owner, switches, crossed>>

CreateSource ==
    /\ Mac /\ thread = "tap"
    /\ \/ thread' = "gone" /\ alive' = {} /\ liveHandles' = liveHandles \ {"tap"}
       \/ thread' = "published" /\ alive' = alive \cup {"source", "loop"} /\ liveHandles' = liveHandles \cup {"loop"}
    /\ UNCHANGED <<platform, control, loop, cursorState, caller, chosenValue, owner, switches, crossed>>

\* The loop is entered unless a shutdown was requested before.
EnterUnlessShutdown ==
    /\ Mac /\ thread = "published"
    /\ thread' = IF control.shutdown THEN "leaving" ELSE "entering"
    /\ UNCHANGED <<platform, liveHandles, alive, control, loop, cursorState, caller, chosenValue, owner, switches, crossed>>

\* CFRunLoopRun begins with a clean stop flag (external).
RunLoop ==
    /\ Mac /\ thread = "entering"
    /\ thread' = "running"
    /\ loop' = [loop EXCEPT !.stop = FALSE, !.lost = loop.stop]
    /\ UNCHANGED <<platform, liveHandles, alive, control, cursorState, caller, chosenValue, owner, switches, crossed>>

LoopStops ==
    /\ Mac /\ thread = "running" /\ loop.stop /\ caller["callback"] = {}
    /\ thread' = "leaving"
    /\ UNCHANGED <<platform, liveHandles, alive, control, loop, cursorState, caller, chosenValue, owner, switches, crossed>>

\* The handles forgotten after the objects are gone.
TeardownFreesFirst ==
    /\ Mac
    /\ \/ thread = "leaving" /\ thread' = "source" /\ alive' = alive \ {"source", "tap", "loop"} /\ liveHandles' = liveHandles
       \/ thread = "source" /\ thread' = "gone" /\ alive' = {} /\ liveHandles' = {}
    /\ UNCHANGED <<platform, control, loop, cursorState, caller, chosenValue, owner, switches, crossed>>

\* Each handle is forgotten under the mutex before its object is released.
Teardown ==
    /\ Mac
    /\ \/ thread = "leaving" /\ thread' = "source" /\ liveHandles' = liveHandles \ {"loop"} /\ alive' = alive
       \/ thread = "source" /\ thread' = "release" /\ liveHandles' = liveHandles \ {"tap"} /\ alive' = alive \ {"source"}
       \/ thread = "release" /\ thread' = "gone" /\ alive' = {} /\ liveHandles' = liveHandles
    /\ UNCHANGED <<platform, control, loop, cursorState, caller, chosenValue, owner, switches, crossed>>

-----------------------------------------------------------------------------
\* run_low_level_hooks: the slot first, then the hooks; if either is missing the
\* other is removed, the slot cleared and the consumer told.
FillSlot ==
    /\ ~Mac /\ thread = "start"
    /\ thread' = "slot" /\ liveHandles' = {"slot"}
    /\ UNCHANGED <<platform, alive, control, loop, cursorState, caller, chosenValue, owner, switches, crossed>>

InstallHooks ==
    /\ ~Mac /\ thread = "slot"
    /\ \E hooks \in SUBSET {"keyboard", "mouse"} :
          /\ alive' = alive \cup hooks
          /\ thread' = IF hooks = {"keyboard", "mouse"} THEN "running" ELSE "failed"
    /\ UNCHANGED <<platform, liveHandles, control, loop, cursorState, caller, chosenValue, owner, switches, crossed>>

\* The clean-up after a failure, and after the message loop.
RemoveHooks ==
    /\ ~Mac /\ thread \in {"failed", "running"} /\ caller["callback"] = {}
    /\ thread' = "gone" /\ alive' = {} /\ liveHandles' = {}
    /\ UNCHANGED <<platform, control, loop, cursorState, caller, chosenValue, owner, switches, crossed>>

-----------------------------------------------------------------------------
\* update_suppression: the swap; only the caller that changed the flag goes on to
\* tell the system.
Swapped(c, value) ==
    /\ caller[c] = {}
    /\ control' = [control EXCEPT !.suppressed = value]
    /\ caller' = [caller EXCEPT ![c] = IF control.suppressed # value THEN {value} ELSE {}]
    /\ crossed' = (crossed \/ (control.suppressed # value /\ \E o \in Callers : caller[o] # {}))

\* set_suppressed reads the fault: raising restores the cursor once one is recorded.
SetSuppressed(value) ==
    /\ owner = "live" /\ switches < MaxSwitches /\ caller["session"] = {} /\ chosenValue = {}
    /\ chosenValue' = {value /\ ~(Mac /\ control.fault)}
    /\ switches' = switches + 1
    /\ UNCHANGED <<platform, thread, liveHandles, alive, control, loop, cursorState, caller, owner, crossed>>

\* Its swap comes after, and a fault may have been recorded in between.
SwapSuppressed ==
    /\ \E value \in chosenValue : Swapped("session", value)
    /\ chosenValue' = {}
    /\ UNCHANGED <<platform, thread, liveHandles, alive, loop, cursorState, owner, switches>>

\* capture_callback when the queue is full or closed: record_fault, then
\* restore_local_cursor, which is update_suppression(false).
FailOpen ==
    /\ Mac /\ thread = "running" /\ loop.on /\ (control.suppressed \/ ~control.fault) /\ caller["callback"] = {}
    /\ control' = [control EXCEPT !.fault = TRUE, !.suppressed = FALSE]
    /\ caller' = [caller EXCEPT !["callback"] = IF control.suppressed THEN {FALSE} ELSE {}]
    /\ crossed' = (crossed \/ (control.suppressed /\ \E o \in Callers : caller[o] # {}))
    /\ UNCHANGED <<platform, thread, liveHandles, alive, loop, cursorState, chosenValue, owner, switches>>

\* capture_callback on a disabled tap: re-enabled while its handle is published.
ReenableTap ==
    /\ Mac /\ thread = "running" /\ ~loop.on /\ "tap" \in liveHandles /\ ~control.shutdown
    /\ loop' = [loop EXCEPT !.on = TRUE]
    /\ UNCHANGED <<platform, thread, liveHandles, alive, control, cursorState, caller, chosenValue, owner, switches, crossed>>

\* The system disables a tap whose callback was slow (external).
DisableTap ==
    /\ Mac /\ thread = "running" /\ loop.on
    /\ loop' = [loop EXCEPT !.on = FALSE]
    /\ UNCHANGED <<platform, thread, liveHandles, alive, control, cursorState, caller, chosenValue, owner, switches, crossed>>

\* set_native_cursor_hidden. macOS attaches or detaches the mouse and moves the
\* show counter; Windows has the counter only.
TellSystem(c) ==
    /\ caller[c] # {}
    /\ LET hide == caller[c] = {TRUE}
       IN  cursorState' = [free |-> IF Mac THEN ~hide ELSE TRUE, shown |-> cursorState.shown + (IF hide THEN -1 ELSE 1)]
    /\ caller' = [caller EXCEPT ![c] = {}]
    /\ UNCHANGED <<platform, thread, liveHandles, alive, control, loop, chosenValue, owner, switches, crossed>>

-----------------------------------------------------------------------------
\* CaptureLifecycle::drop, when the last clone goes: the session is out of its call.
DropFlags ==
    /\ Mac /\ owner = "live" /\ caller["session"] = {} /\ chosenValue = {}
    /\ owner' = "flagged"
    /\ control' = [control EXCEPT !.shutdown = TRUE, !.suppressed = FALSE]
    /\ caller' = [caller EXCEPT !["drop"] = IF control.suppressed THEN {FALSE} ELSE {}]
    /\ crossed' = (crossed \/ (control.suppressed /\ \E o \in Callers : caller[o] # {}))
    /\ UNCHANGED <<platform, thread, liveHandles, alive, loop, cursorState, chosenValue, switches>>

\* Under the mutex: CFRunLoopStop on the published run loop.
DropStops ==
    /\ owner = "flagged" /\ caller["drop"] = {}
    /\ owner' = "stopped"
    /\ loop' = IF "loop" \in liveHandles THEN [loop EXCEPT !.stop = TRUE] ELSE loop
    /\ UNCHANGED <<platform, thread, liveHandles, alive, control, cursorState, caller, chosenValue, switches, crossed>>

DropJoins ==
    /\ owner = "stopped" /\ thread = "gone"
    /\ owner' = "joined"
    /\ UNCHANGED <<platform, thread, liveHandles, alive, control, loop, cursorState, caller, chosenValue, switches, crossed>>

CaptureNext ==
    \/ CreateTap \/ CreateSource \/ EnterUnlessShutdown \/ RunLoop \/ LoopStops \/ Teardown
    \/ FillSlot \/ InstallHooks \/ RemoveHooks
    \/ \E v \in BOOLEAN : SetSuppressed(v) \/ SwapSuppressed
    \/ FailOpen \/ DisableTap \/ ReenableTap \/ \E c \in Callers : TellSystem(c)
    \/ DropFlags \/ DropStops \/ DropJoins

-----------------------------------------------------------------------------
CaptureTypeOK ==
    /\ liveHandles \subseteq {"tap", "loop", "slot"}
    /\ alive \subseteq {"state", "tap", "source", "loop", "keyboard", "mouse"}
    /\ control \in [suppressed : BOOLEAN, fault : BOOLEAN, shutdown : BOOLEAN]
    /\ owner \in {"live", "flagged", "stopped", "joined"}

\* A handle Drop or the callback may use names an object that still exists, the
\* callback state outlives every callback, and a thread that has ended leaves no
\* hook, tap or published handle behind.
HandlesLive ==
    /\ liveHandles \cap {"tap", "loop"} \subseteq alive
    /\ thread = "running" => "state" \in alive
    /\ thread = "gone" => alive = {} /\ liveHandles = {}

\* When Drop waits for the thread, the thread is on its way out: it saw the
\* shutdown, or it is running and has been asked to stop. A stop is lost only
\* between the thread's check of the shutdown and CFRunLoopRun: `lost` is set there
\* and nowhere else.
NoStrandedThread ==
    owner = "stopped" /\ ~loop.lost => (thread \in {"entering", "running"} => loop.stop)

\* When nobody is between the swap and the system call, the system shows what the
\* flag says. The counter is right whatever the interleaving; the mouse may stay
\* detached when two callers crossed.
CursorFollows ==
    (\A c \in Callers : caller[c] = {}) =>
       /\ cursorState.shown = (IF control.suppressed THEN -1 ELSE 0)
       /\ Mac /\ ~crossed => cursorState.free = ~control.suppressed

\* Capture threads and their owners over every start, stop and switch.
CaptureThreadsSafe == CaptureTypeOK /\ HandlesLive /\ NoStrandedThread /\ CursorFollows
=============================================================================
