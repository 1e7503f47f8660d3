------------------------------ MODULE Reconnect ------------------------------
(***************************************************************************)
(* Discovery and automatic reconnection at one daemon: the registry of      *)
(* announced peers, the reconnect planner, the polling loop that feeds the  *)
(* bounded target channel, the driver that dials one target at a time, and  *)
(* the sessions whose ends are reported back to the planner                 *)
(* (crates/discovery/src/{registry,reconnect,service,udp}.rs and            *)
(* spawn_reconnect_driver of apps/desktop/src/connection.rs).               *)
(*                                                                          *)
(* Time is abstracted: an announcement may outlive its TTL, a cooldown may  *)
(* elapse and an attempt may take long at any moment.  Which session of a   *)
(* peer is served is what SessionArbitration decides; here a session wins   *)
(* only while no other is served.                                           *)
(***************************************************************************)
EXTENDS Naturals, Sequences, FiniteSets

CONSTANTS
    Devices,          \* peers on the LAN
    Trusted,          \* those in the FingerprintAllowlist
    NoDevice,
    RegistryCapacity, \* MAX_DISCOVERED_PEERS
    ChannelCapacity,  \* ServiceConfig.channel_capacity
    MaxOpen,          \* bound: outbound sessions of a peer not yet reported ended
    MaxExpiries,      \* bound: announcements that outlive their TTL
    MaxFailures,      \* bound: dials, arbitrations and sessions that fail by themselves
    MaxDepartures     \* bound: peers leaving the network

ASSUME ReconnectConstantsOK ==
    /\ Trusted \subseteq Devices
    /\ NoDevice \notin Devices
    /\ RegistryCapacity \in Nat \ {0}
    /\ ChannelCapacity \in Nat \ {0}
    /\ MaxOpen \in Nat /\ MaxExpiries \in Nat
    /\ MaxFailures \in Nat /\ MaxDepartures \in Nat

VARIABLES
    up,          \* the peers that are on the network and listening
    registry,    \* DiscoveryRegistry: live peers, least recently seen first
    planner,     \* planner[d]: DeviceState, "none" when the map has no entry
    emitted,     \* targets of the last poll the service has still to send
    targets,     \* the reconnect-target channel
    driver,      \* the peer spawn_reconnect_driver is dialling
    arbitrating, \* arbitrating[d]: outbound sessions to d in arbitration
    served,      \* served[d]: the origin of the session d is served by
    ending,      \* ending[d]: ended outbound sessions not yet reported
    expiries, failures, departures

network == <<up, registry, expiries, departures>>
attempts == <<emitted, targets, driver>>
sessions == <<arbitrating, served, ending>>
vars == <<up, registry, planner, emitted, targets, driver, arbitrating, served,
          ending, expiries, failures, departures>>

Seen(d) == \E i \in 1..Len(registry) : registry[i] = d

\* The registry's map has one entry per device; observing a device again moves
\* its entry to the end.
Place(d) == CHOOSE i \in 1..Len(registry) : registry[i] = d
Without(d) ==
    IF Seen(d) THEN SubSeq(registry, 1, Place(d) - 1) \o SubSeq(registry, Place(d) + 1, Len(registry))
    ELSE registry

Init ==
    /\ up = Devices
    /\ registry = <<>>
    /\ planner = [d \in Devices |-> "none"]
    /\ emitted = {} /\ targets = <<>> /\ driver = NoDevice
    /\ arbitrating = [d \in Devices |-> 0]
    /\ served = [d \in Devices |-> "none"]
    /\ ending = [d \in Devices |-> 0]
    /\ expiries = 0 /\ failures = 0 /\ departures = 0

(***************************************************************************)
(* Seeded faults: slips the code could contain; each breaks a property.     *)
(***************************************************************************)
\* A registry that evicts nothing.
ObserveUnbounded(d) ==
    /\ d \in up
    /\ registry' = Append(Without(d), d)
    /\ UNCHANGED <<up, expiries, departures, planner, attempts, sessions, failures>>

\* A session whose end is not reported.
ReportEndForgotten(d) ==
    /\ ending[d] > 0
    /\ ending' = [ending EXCEPT ![d] = @ - 1]
    /\ UNCHANGED <<network, planner, attempts, arbitrating, served, failures>>

(***************************************************************************)
(* The LAN and the registry                                                 *)
(***************************************************************************)
\* An announcement arrives: spawn_recv_loop and DiscoveryRegistry::observe.
\* A full registry evicts the peer seen least recently for a new one.
Observe(d) ==
    /\ d \in up
    /\ registry' = IF ~Seen(d) /\ Len(registry) >= RegistryCapacity
                   THEN Append(Tail(registry), d)
                   ELSE Append(Without(d), d)
    /\ UNCHANGED <<up, expiries, departures, planner, attempts, sessions, failures>>

\* The oldest observation outlives the TTL: its peer is gone, or its
\* announcements were lost.
Expire ==
    /\ registry # <<>>
    /\ \/ Head(registry) \notin up /\ UNCHANGED expiries
       \/ expiries < MaxExpiries /\ expiries' = expiries + 1
    /\ registry' = Tail(registry)
    /\ UNCHANGED <<up, departures, planner, attempts, sessions, failures>>

Depart(d) ==
    /\ d \in up /\ departures < MaxDepartures
    /\ up' = up \ {d}
    /\ departures' = departures + 1
    /\ UNCHANGED <<registry, expiries, planner, attempts, sessions, failures>>

Return(d) ==
    /\ d \notin up
    /\ up' = up \cup {d}
    /\ UNCHANGED <<registry, expiries, departures, planner, attempts, sessions, failures>>

(***************************************************************************)
(* The planner and the polling loop                                         *)
(***************************************************************************)
\* The cooldown of d has passed.
CooldownElapses(d) ==
    /\ planner[d] = "cooling"
    /\ planner' = [planner EXCEPT ![d] = "eligible"]
    /\ UNCHANGED <<network, attempts, sessions, failures>>

\* ReconnectPlanner::due, on the peers visible at this tick.  A new tick
\* starts when the targets of the last one are all in the channel.
Due(d) == d \in Trusted /\ Seen(d) /\ planner[d] \in {"none", "eligible"}

Poll ==
    /\ emitted = {}
    /\ emitted' = {d \in Devices : Due(d)}
    /\ planner' = [d \in Devices |->
           IF ~Seen(d) THEN "none" ELSE IF Due(d) THEN "cooling" ELSE planner[d]]
    /\ UNCHANGED <<network, targets, driver, sessions, failures>>

\* tx.send waits for room in the channel.
SendTarget(d) ==
    /\ d \in emitted /\ Len(targets) < ChannelCapacity
    /\ emitted' = emitted \ {d}
    /\ targets' = Append(targets, d)
    /\ UNCHANGED <<network, planner, driver, sessions, failures>>

\* ReconnectPlanner::record_success and record_failure
RecordSuccess(d) == planner' = [planner EXCEPT ![d] = "connected"]
RecordFailure(d) == planner' = [planner EXCEPT ![d] = "cooling"]

(***************************************************************************)
(* The driver and the sessions it opens                                     *)
(***************************************************************************)
StartDial ==
    /\ driver = NoDevice /\ targets # <<>>
    /\ driver' = Head(targets)
    /\ targets' = Tail(targets)
    /\ UNCHANGED <<network, planner, emitted, sessions, failures>>

Fails == failures < MaxFailures /\ failures' = failures + 1

\* connect_reconnect_target fails: the peer is gone, or the handshake failed.
DialFails ==
    /\ driver # NoDevice
    /\ \/ driver \notin up /\ UNCHANGED failures
       \/ Fails
    /\ RecordFailure(driver)
    /\ driver' = NoDevice
    /\ UNCHANGED <<network, emitted, targets, sessions>>

\* The authenticated link is reported before it is arbitrated.
DialSucceeds ==
    /\ driver \in up
    /\ arbitrating[driver] + ending[driver] < MaxOpen
    /\ RecordSuccess(driver)
    /\ arbitrating' = [arbitrating EXCEPT ![driver] = @ + 1]
    /\ driver' = NoDevice
    /\ UNCHANGED <<network, emitted, targets, served, ending, failures>>

ArbitrationWon(d) ==
    /\ arbitrating[d] > 0 /\ served[d] = "none"
    /\ arbitrating' = [arbitrating EXCEPT ![d] = @ - 1]
    /\ served' = [served EXCEPT ![d] = "out"]
    /\ UNCHANGED <<network, planner, attempts, ending, failures>>

\* Another session of d is served, the peer is gone, or arbitration failed.
ArbitrationLost(d) ==
    /\ arbitrating[d] > 0
    /\ \/ (served[d] # "none" \/ d \notin up) /\ UNCHANGED failures
       \/ Fails
    /\ arbitrating' = [arbitrating EXCEPT ![d] = @ - 1]
    /\ ending' = [ending EXCEPT ![d] = @ + 1]
    /\ UNCHANGED <<network, planner, attempts, served>>

\* A session that d dialled is accepted; the planner is not told of it.
InboundSession(d) ==
    /\ d \in up \cap Trusted /\ served[d] = "none"
    /\ served' = [served EXCEPT ![d] = "in"]
    /\ UNCHANGED <<network, planner, attempts, arbitrating, ending, failures>>

\* The served link is lost: SessionTrackedConnection signals the end.
SessionEnds(d) ==
    /\ served[d] # "none"
    /\ \/ d \notin up /\ UNCHANGED failures
       \/ Fails
    /\ ending' = IF served[d] = "out" THEN [ending EXCEPT ![d] = @ + 1] ELSE ending
    /\ served' = [served EXCEPT ![d] = "none"]
    /\ UNCHANGED <<network, planner, attempts, arbitrating>>

\* run_managed_session returns and the driver's session task reports it.
ReportEnd(d) ==
    /\ ending[d] > 0
    /\ ending' = [ending EXCEPT ![d] = @ - 1]
    /\ RecordFailure(d)
    /\ UNCHANGED <<network, attempts, arbitrating, served, failures>>

Service == Poll \/ \E d \in Devices : SendTarget(d)
Driver == StartDial \/ DialFails \/ DialSucceeds
Session(d) == ArbitrationWon(d) \/ ArbitrationLost(d) \/ ReportEnd(d)
Environment(d) == Observe(d) \/ Depart(d) \/ Return(d) \/ InboundSession(d) \/ SessionEnds(d)

Next ==
    \/ Service \/ Driver \/ Expire
    \/ \E d \in Devices : Session(d) \/ CooldownElapses(d) \/ Environment(d)

Spec == Init /\ [][Next]_vars

\* Ready tasks run, a dial and a cooldown (30 s at most) take a bounded time,
\* and a peer on the network goes on announcing itself.
FairSpec ==
    /\ Spec
    /\ WF_vars(Service) /\ WF_vars(Driver)
    /\ \A d \in Devices :
         /\ WF_vars(Session(d))
         /\ WF_vars(CooldownElapses(d))
         /\ WF_vars(~Seen(d) /\ Observe(d))

(***************************************************************************)
(* Properties                                                               *)
(***************************************************************************)
TypeOK ==
    /\ up \subseteq Devices
    /\ registry \in Seq(Devices) /\ Len(registry) <= RegistryCapacity
    /\ \A i, j \in 1..Len(registry) : registry[i] = registry[j] => i = j
    /\ planner \in [Devices -> {"none", "connected", "cooling", "eligible"}]
    /\ emitted \subseteq Devices
    /\ targets \in Seq(Devices) /\ Len(targets) <= ChannelCapacity
    /\ driver \in Devices \cup {NoDevice}
    /\ arbitrating \in [Devices -> Nat]
    /\ served \in [Devices -> {"none", "in", "out"}]
    /\ ending \in [Devices -> Nat]
    /\ expiries \in Nat /\ failures \in Nat /\ departures \in Nat

\* A peer the planner takes for connected, and so never dials while it is
\* visible, has an outbound session whose end will still be reported: reports
\* of several sessions of one peer, in any order, lose no reconnection.
ConnectedHasSession ==
    \A d \in Devices : planner[d] = "connected" =>
        arbitrating[d] > 0 \/ served[d] = "out" \/ ending[d] > 0

\* A trusted peer that stays on the network is always served again, although
\* its announcements are lost, dials fail, sessions break and reports race.
Reconnects ==
    \A d \in Trusted : d \in up ~> served[d] # "none" \/ d \notin up

\* A peer that is visible and served by the session the driver opened is not
\* dialled again.
ConnectedNotRedialled ==
    [][\A d \in Devices :
          driver' = d /\ driver # d => ~(served[d] = "out" /\ Seen(d))]_vars
==============================================================================
