--------------------------- MODULE DaemonRuntime ---------------------------
(***************************************************************************)
(* The daemon around its sessions: what run_daemon (apps/desktop/src/      *)
(* main.rs) starts, the accept loop and the explicit dialer (connection.rs)*)
(* that bring links up, the input handler that starts tasks on them, and   *)
(* the supervisor (input_session.rs) that ends those tasks at shutdown.    *)
(* Which of two links between the same devices survives is the subject of  *)
(* SessionArbitration; what a forwarder does, of InputHandoff.             *)
(***************************************************************************)
EXTENDS Naturals, FiniteSets

CONSTANTS
    DaemonLinks,    \* physical connections, each used once
    DaemonPeers,    \* devices that connect
    MaxHandshakes   \* MAX_PENDING_INBOUND_HANDSHAKES

ASSUME DaemonConstants == MaxHandshakes \in Nat \ {0}

VARIABLES
    plan,        \* InputRuntimePlan, and the platform it is for
    selection,   \* ActivePeerSelection, resolved once at start: the peers it allows
    trust,       \* peers in the trust store
    linkOf,      \* link -> [state, peer, inbound]
    gate,        \* links whose task holds the forwarder lease
    accepting,   \* InputTaskSupervisorState::accepting
    handles,     \* InputTaskSupervisorState::tasks, as [kind, link]
    live,        \* tasks that run
    stopping,    \* [phase, joining, clean]: the supervisor's shutdown
    backlog,     \* input captured while no forwarder consumed it
    stale        \* history: such input reached a peer

daemonVars == <<plan, selection, trust, linkOf, gate, accepting, handles, live, stopping, backlog, stale>>
inputVars == <<gate, accepting, handles, live, stopping, backlog, stale>>

-----------------------------------------------------------------------------
\* plan_runtime
Plan(role, canCapture, canInject, os) ==
    [os |-> os,
     capture |-> canCapture /\ role \in {"Source", "Both"},
     inject  |-> canInject /\ role \in {"Target", "Both"}]

\* resolve_active_peer_selection: a configured peer that is not trusted yet when
\* the daemon starts allows nobody for its lifetime.
AllowedPeers(trusted) == {DaemonPeers} \cup {{p} : p \in trusted} \cup {{}}

NoLink == [state |-> "none", peer |-> CHOOSE p \in DaemonPeers : TRUE, inbound |-> TRUE]

DaemonInit ==
    /\ \E role \in {"Disabled", "Source", "Target", "Both"}, c, i \in BOOLEAN, os \in {"macos", "windows"} :
          plan = Plan(role, c, i, os)
    /\ trust \in SUBSET DaemonPeers /\ selection \in AllowedPeers(trust)
    /\ linkOf = [l \in DaemonLinks |-> NoLink]
    /\ gate = {} /\ accepting = TRUE /\ handles = {} /\ live = {}
    /\ stopping = [phase |-> "no", joining |-> {}, clean |-> TRUE]
    /\ backlog = FALSE /\ stale = FALSE

Running == stopping.phase # "done"

-----------------------------------------------------------------------------
\* The links that hold a handshake permit.
Pending == {l \in DaemonLinks : linkOf[l].inbound /\ linkOf[l].state \in {"arrived", "handshake"}}

\* try_admit_inbound_handshake; a connection beyond the limit is dropped.
HasPermit == Cardinality(Pending) < MaxHandshakes

AcceptLink(l, p) ==
    /\ Running /\ linkOf[l].state = "none"
    /\ linkOf' = [linkOf EXCEPT ![l] = [state |-> IF HasPermit THEN "arrived" ELSE "over", peer |-> p, inbound |-> TRUE]]
    /\ UNCHANGED <<plan, selection, trust, inputVars>>

\* classify_inbound_connection: trusted, pairing, or nothing within the timeout.
\* A pairing request leaves the handshake limit and may add the peer.
Classify(l, as) ==
    /\ Running /\ linkOf[l].state = "arrived"
    /\ linkOf' = [linkOf EXCEPT ![l].state = IF as = "trusted" THEN "handshake" ELSE "over"]
    /\ trust' \in IF as = "pairing" THEN {trust, trust \cup {linkOf[l].peer}} ELSE {trust}
    /\ UNCHANGED <<plan, selection, inputVars>>

\* run_explicit_connect_driver: one session at a time.
DialExplicit(l, p) ==
    /\ Running /\ linkOf[l].state = "none"
    /\ \A k \in DaemonLinks : linkOf[k].inbound \/ linkOf[k].state = "over"
    /\ linkOf' = [linkOf EXCEPT ![l] = [state |-> "handshake", peer |-> p, inbound |-> FALSE]]
    /\ UNCHANGED <<plan, selection, trust, inputVars>>

HandshakeEnds(l) ==
    /\ Running /\ linkOf[l].state = "handshake" /\ linkOf[l].peer \notin trust
    /\ linkOf' = [linkOf EXCEPT ![l].state = "over"]
    /\ UNCHANGED <<plan, selection, trust, inputVars>>

\* InputTaskSupervisor::spawn drops the task when it no longer accepts; handles
\* of tasks that have finished are forgotten.
Spawned(ts) == IF accepting THEN ts ELSE {}

TasksFor(l, lease) ==
    (IF plan.inject THEN {[kind |-> "inject", link |-> l]} ELSE {}) \cup
    (IF lease THEN {[kind |-> "forward", link |-> l]} ELSE {})

\* secure_connection succeeds and the input handler runs: a link of another peer
\* has no input lane, one without the lease is closed by a task, and otherwise
\* an injector and a forwarder start.  The macOS handler discards the backlog.
OpenLink(l) ==
    LET allowed == linkOf[l].peer \in selection /\ (plan.capture \/ plan.inject)
        lease   == plan.capture /\ gate = {}
        ts      == IF ~allowed THEN {}
                   ELSE IF plan.capture /\ ~lease THEN {[kind |-> "close", link |-> l]}
                   ELSE TasksFor(l, lease)
        started == Spawned(ts)
    IN  /\ Running /\ linkOf[l].state = "handshake" /\ linkOf[l].peer \in trust
        /\ linkOf' = [linkOf EXCEPT ![l].state = "open"]
        /\ live' = live \cup started
        /\ handles' = IF started = {} THEN handles ELSE (handles \cap live) \cup started
        /\ gate' = IF [kind |-> "forward", link |-> l] \in started THEN {l} ELSE gate
        /\ backlog' = (backlog /\ ~(gate' = {l} /\ plan.os = "macos"))
        /\ UNCHANGED <<plan, selection, trust, accepting, stopping, stale>>

LinkLost(l) ==
    /\ Running /\ linkOf[l].state = "open"
    /\ linkOf' = [linkOf EXCEPT ![l].state = "over"]
    /\ UNCHANGED <<plan, selection, trust, inputVars>>

\* Mutant of Lease: the lease outlives its task.
LeaseLeaked(t) == gate

\* The lease is part of the forwarder's task and ends with it.
Lease(t) == IF t.kind = "forward" THEN gate \ {t.link} ELSE gate

\* A task ends after a shutdown request, the end of its session or an error; the
\* task for a duplicate closes the link.
TaskEnds(t) ==
    /\ Running /\ t \in live /\ live' = live \ {t}
    /\ gate' = Lease(t)
    /\ linkOf' = IF t.kind = "close" \/ (t.kind = "inject" /\ linkOf[t.link].state = "open")
               THEN [linkOf EXCEPT ![t.link].state = "over"] ELSE linkOf
    /\ UNCHANGED <<plan, selection, trust, accepting, handles, stopping, backlog, stale>>

\* The user types.  Windows keeps what nobody consumes in an unbounded channel;
\* a forwarder then sends it first.
LocalInput ==
    /\ Running /\ plan.capture
    /\ backlog' = (gate = {} \/ backlog)
    /\ stale' = (stale \/ (gate # {} /\ backlog))
    /\ UNCHANGED <<plan, selection, trust, linkOf, gate, accepting, handles, live, stopping>>

-----------------------------------------------------------------------------
\* wait_for_shutdown_signal, then InputTaskSupervisor::shutdown
ShutdownSignal ==
    /\ stopping.phase = "no" /\ stopping' = [stopping EXCEPT !.phase = "take"]
    /\ UNCHANGED <<plan, selection, trust, linkOf, gate, accepting, handles, live, backlog, stale>>

\* The loop takes the handles, or stops accepting when there is none.
ShutdownTakes ==
    /\ stopping.phase = "take"
    /\ IF handles = {}
       THEN /\ accepting' = FALSE /\ stopping' = [stopping EXCEPT !.phase = "done"] /\ UNCHANGED handles
       ELSE /\ stopping' = [stopping EXCEPT !.phase = "join", !.joining = handles]
            /\ handles' = {} /\ UNCHANGED accepting
    /\ UNCHANGED <<plan, selection, trust, linkOf, gate, live, backlog, stale>>

ShutdownJoined ==
    /\ stopping.phase = "join" /\ stopping.joining \cap live = {}
    /\ stopping' = [stopping EXCEPT !.phase = "take", !.joining = {}]
    /\ UNCHANGED <<plan, selection, trust, linkOf, gate, accepting, handles, live, backlog, stale>>

\* The deadline passes: everything is aborted, only the task it waited for is awaited.
JoinDeadline ==
    /\ stopping.phase = "join" /\ stopping.joining \cap live # {}
    /\ accepting' = FALSE /\ handles' = {}
    /\ stopping' = [phase |-> "done", joining |-> {}, clean |-> FALSE]
    /\ \E t \in stopping.joining \cap live : live' = live \ {t} /\ gate' = Lease(t)
    /\ UNCHANGED <<plan, selection, trust, linkOf, backlog, stale>>

DaemonNext ==
    \/ \E l \in DaemonLinks, p \in DaemonPeers : AcceptLink(l, p) \/ DialExplicit(l, p)
    \/ \E l \in DaemonLinks : HandshakeEnds(l) \/ OpenLink(l) \/ LinkLost(l)
    \/ \E l \in DaemonLinks, as \in {"trusted", "pairing", "nothing"} : Classify(l, as)
    \/ \E t \in live : TaskEnds(t)
    \/ LocalInput \/ ShutdownSignal \/ ShutdownTakes \/ ShutdownJoined \/ JoinDeadline

-----------------------------------------------------------------------------
DaemonTypeOK ==
    /\ linkOf \in [DaemonLinks -> [state : {"none", "arrived", "handshake", "open", "over"},
                           peer : DaemonPeers, inbound : BOOLEAN]]
    /\ stopping.phase \in {"no", "take", "join", "done"} /\ gate \in SUBSET DaemonLinks

\* The single input stream has one consumer: at most one forwarder runs, exactly
\* when the lease is out, however links come, duplicate and end (try_acquire).
OneForwarder ==
    LET fs == {t \in live : t.kind = "forward"} IN
    /\ Cardinality(fs) <= 1 /\ {t.link : t \in fs} = gate

\* No task escapes the supervisor: every running task is one it waits for, and a
\* shutdown that reports success has let none behind, those started by links
\* that came up during the shutdown included (spawn, shutdown).
NothingLeftBehind ==
    /\ Running => live \subseteq handles \cup stopping.joining
    /\ stopping.phase = "done" /\ stopping.clean => live = {} /\ ~accepting

\* Input runs only for selected peers that were trusted when their link came up,
\* and inbound links that are not yet trusted stay within the limit.
OnlySelectedPeers ==
    /\ \A t \in live : linkOf[t.link].peer \in selection \cap trust
    /\ Cardinality(Pending) <= MaxHandshakes
    /\ Cardinality({l \in DaemonLinks : ~linkOf[l].inbound /\ linkOf[l].state \in {"handshake", "open"}}) <= 1

\* "This prevents a stale disconnected backlog from triggering a handoff", says
\* discard_pending of the macOS capture: a session that starts there is not sent
\* what the user typed before it. The Windows capture has no such call and nothing
\* in the repository says it should, so this is about macOS.
NoStaleInput == plan.os = "macos" => ~stale

\* The daemon's links and tasks from start to shutdown.
DaemonSound == DaemonTypeOK /\ OneForwarder /\ NothingLeftBehind /\ OnlySelectedPeers /\ NoStaleInput
=============================================================================
