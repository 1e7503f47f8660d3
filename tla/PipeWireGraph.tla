---------------------------- MODULE PipeWireGraph ----------------------------
(***************************************************************************)
(* The audio devices of the Linux back end (crates/platform/platform-linux *)
(* /src/pipewire_audio.rs), collected from registry events during half a   *)
(* second while the graph changes, and the default playback device.        *)
(* PipeWire and wpctl are external.                                        *)
(***************************************************************************)
EXTENDS Integers, Sequences, FiniteSets

CONSTANTS
    GraphCallers,    \* tasks that may be inside devices()
    NodeIds,         \* PipeWire global ids, which are reused
    NodeClasses,     \* what a global may be: a media class, or "Port" for one that is not a node
    MaxScanWait,     \* iterations before REGISTRY_ENUMERATION_TIMEOUT
    MaxGraphMoves,   \* bound: globals added, replaced or removed
    MaxScans,        \* bound: calls made
    MaxGraphFaults   \* bound: failures of PipeWire or wpctl

ASSUME GraphConstants == NodeIds \subseteq Nat \ {0} /\ MaxScanWait \in Nat \ {0}

VARIABLES
    graphNodes,     \* id -> class of the global, "none" if there is none
    playback,       \* default playback node, 0 if none
    scan,           \* caller -> its enumeration
    devices,        \* the result the last step returned
    graphUse        \* [moves, scans, faults]

graphVars == <<graphNodes, playback, scan, devices, graphUse>>

Resting == [at |-> "out", held |-> {}, queue |-> <<>>, seen |-> [n \in NodeIds |-> "none"], waited |-> 0]

GraphInit ==
    /\ graphNodes = [n \in NodeIds |-> "none"] /\ playback = 0
    /\ scan = [c \in GraphCallers |-> Resting] /\ devices = {}
    /\ graphUse = [moves |-> 0, scans |-> 0, faults |-> 0]

GraphCount(what, most) == graphUse[what] < most /\ graphUse' = [graphUse EXCEPT ![what] = @ + 1]
GraphFault == GraphCount("faults", MaxGraphFaults)
NoGraphFault == UNCHANGED graphUse

-----------------------------------------------------------------------------
(* The registry. *)

\* The graph changes; every listener will be told, in order.
GraphMoves ==
    \E n \in NodeIds, k \in NodeClasses \cup {"none"} :
       /\ graphNodes[n] # k /\ GraphCount("moves", MaxGraphMoves)
       /\ graphNodes' = [graphNodes EXCEPT ![n] = k]
       /\ playback' = IF n = playback THEN 0 ELSE playback
       /\ scan' = [c \in GraphCallers |-> IF scan[c].at # "loop" THEN scan[c]
                                          ELSE [scan[c] EXCEPT !.queue = Append(@, <<n, k>>)]]
       /\ devices' = {}

ScanFails(c) == scan' = [scan EXCEPT ![c] = Resting] /\ devices' = {}

\* PipeWireConnection::connect
ConnectCore(c) ==
    /\ scan[c].at = "out" /\ devices' = {}
    /\ GraphCount("scans", MaxScans)
    /\ scan' = [scan EXCEPT ![c].at = "listen", ![c].held = {"loop", "context", "core"}]
    /\ UNCHANGED <<graphNodes, playback>>

\* enumerate: the globals that exist are announced first.
Announced == LET ids == {n \in NodeIds : graphNodes[n] # "none"}
             IN  [i \in 1..Cardinality(ids) |->
                    LET n == CHOOSE m \in ids : Cardinality({l \in ids : l <= m}) = i IN <<n, graphNodes[n]>>]

AddListener(c) ==
    /\ scan[c].at = "listen"
    /\ \/ /\ scan' = [scan EXCEPT ![c].at = "loop", ![c].held = @ \cup {"registry"}, ![c].queue = Announced]
          /\ devices' = {} /\ NoGraphFault
       \/ ScanFails(c) /\ GraphFault
    /\ UNCHANGED <<graphNodes, playback>>

\* PipeWireRegistryCollector::global, global_remove: an id that is announced
\* again is replaced.
Collected(seen, event) == [seen EXCEPT ![event[1]] = event[2]]

\* on_registry_global, on_registry_global_remove, inside an iteration of the loop.
RegistryEvent(c) ==
    /\ scan[c].at = "loop" /\ scan[c].queue # <<>> /\ devices' = {}
    /\ scan' = [scan EXCEPT ![c].seen = Collected(@, Head(scan[c].queue)), ![c].queue = Tail(@)]
    /\ NoGraphFault /\ UNCHANGED <<graphNodes, playback>>

IterateRegistry(c) ==
    /\ scan[c].at = "loop" /\ scan[c].waited < MaxScanWait
    /\ \/ scan' = [scan EXCEPT ![c].waited = @ + 1] /\ devices' = {} /\ NoGraphFault
       \/ ScanFails(c) /\ GraphFault
    /\ UNCHANGED <<graphNodes, playback>>

\* audio_device_from_node: the roles; other classes are no devices.
RoleOf(class) ==
    CASE class = "Audio/Sink"   -> {"Playback"}
      [] class = "Audio/Source" -> {"Capture"}
      [] class = "Audio/Duplex" -> {"Duplex"}
      [] OTHER                  -> {}

\* snapshot, devices: the nodes among the globals that were collected.
DevicesIn(seen) == UNION {{<<n, r>> : r \in RoleOf(seen[n])} : n \in NodeIds}

\* The registry is destroyed, then the connection, and the snapshot is returned.
ScanEnds(c) ==
    /\ scan[c].at = "loop" /\ scan[c].waited = MaxScanWait
    /\ devices' = {[found |-> DevicesIn(scan[c].seen), missed |-> scan[c].queue # <<>>]}
    /\ scan' = [scan EXCEPT ![c] = Resting]
    /\ NoGraphFault /\ UNCHANGED <<graphNodes, playback>>

\* switch_playback_device, run_wpctl_set_default: the id came from an earlier list
\* and may be of a node that has gone.
SwitchPlayback ==
    \E n \in NodeIds :
       /\ n # playback
       /\ \/ graphNodes[n] \in {"Audio/Sink", "Audio/Duplex"} /\ playback' = n /\ NoGraphFault
          \/ GraphFault /\ UNCHANGED playback
       /\ devices' = {} /\ UNCHANGED <<graphNodes, scan>>

GraphNext ==
    \/ GraphMoves \/ SwitchPlayback
    \/ \E c \in GraphCallers :
          ConnectCore(c) \/ AddListener(c) \/ RegistryEvent(c) \/ IterateRegistry(c) \/ ScanEnds(c)

GraphSpec == GraphInit /\ [][GraphNext]_graphVars

-----------------------------------------------------------------------------
GraphTypeOK ==
    /\ graphNodes \in [NodeIds -> NodeClasses \cup {"none"}] /\ playback \in NodeIds \cup {0}
    /\ \A c \in GraphCallers : scan[c].held \subseteq {"loop", "context", "core", "registry"}

\* An enumeration that is over holds nothing, and the registry never outlives the
\* connection it came from.
ScanGivesBack ==
    \A c \in GraphCallers :
       /\ (scan[c].at = "out") <=> (scan[c].held = {})
       /\ ("registry" \in scan[c].held) => ("core" \in scan[c].held)

\* While the graph changes under an enumeration, what has been collected and the
\* events still to come are together the graph as it is, whatever ids were reused.
CollectorReplays ==
    \A c \in GraphCallers : scan[c].at = "loop" =>
       LET q == scan[c].queue
           after[i \in 0..Len(q)] == IF i = 0 THEN scan[c].seen ELSE [after[i - 1] EXCEPT ![q[i][1]] = q[i][2]]
       IN  after[Len(q)] = graphNodes

\* Devices that are returned with no event outstanding are the audio devices that
\* exist, each with the role of its class; the default is one that can play.
DevicesExist ==
    /\ \A d \in devices : ~d.missed =>
          /\ {x[1] : x \in d.found} = {n \in NodeIds : graphNodes[n] \in {"Audio/Sink", "Audio/Source", "Audio/Duplex"}}
          /\ \A x \in d.found : (x[2] # "Capture") <=> (graphNodes[x[1]] \in {"Audio/Sink", "Audio/Duplex"})
    /\ playback # 0 => graphNodes[playback] \in {"Audio/Sink", "Audio/Duplex"}

\* Enumerations while the graph changes under them.
GraphFollowed == GraphTypeOK /\ ScanGivesBack /\ CollectorReplays /\ DevicesExist
=============================================================================
