--------------------------- MODULE ReconnectProofs ---------------------------
(***************************************************************************)
(* ConnectedHasSession for every set of devices, every channel and registry *)
(* capacity and every number of faults.                                     *)
(***************************************************************************)
EXTENDS Reconnect, TLAPS

\* What the reports and the sessions need to know of the types.
AttemptTypes ==
    /\ up \subseteq Devices
    /\ emitted \subseteq Devices
    /\ targets \in Seq(Devices)
    /\ driver \in Devices \cup {NoDevice}
SessionTypes ==
    /\ planner \in [Devices -> {"none", "connected", "cooling", "eligible"}]
    /\ arbitrating \in [Devices -> Nat]
    /\ served \in [Devices -> {"none", "in", "out"}]
    /\ ending \in [Devices -> Nat]

Inv == AttemptTypes /\ SessionTypes /\ ConnectedHasSession

\* The invariant holds when the daemon starts.
LEMMA InvInit == Init => Inv
BY ReconnectConstantsOK
   DEF Init, Inv, AttemptTypes, SessionTypes, ConnectedHasSession


\* A target on its way from the planner to the driver names a device.
LEMMA AttemptTypesStep ==
    ASSUME Inv, Next PROVE AttemptTypes'
<1> USE ReconnectConstantsOK DEF Inv, AttemptTypes
<1>1. ASSUME UNCHANGED attempts, up' \subseteq Devices PROVE AttemptTypes'
  BY <1>1 DEF attempts
<1>2. CASE Poll
  BY <1>2 DEF Poll, network
<1>3. ASSUME NEW d \in Devices, SendTarget(d) PROVE AttemptTypes'
  BY <1>3 DEF SendTarget, network
<1>4. CASE StartDial
  <2>1. Head(targets) \in Devices /\ Tail(targets) \in Seq(Devices)
    BY <1>4 DEF StartDial
  <2> QED BY <2>1, <1>4 DEF StartDial, network
<1>5. CASE DialFails \/ DialSucceeds
  BY <1>5 DEF DialFails, DialSucceeds, network
<1>6. CASE Expire
  BY <1>1, <1>6 DEF Expire
<1>7. ASSUME NEW d \in Devices, Session(d) \/ CooldownElapses(d) \/ Environment(d)
      PROVE  AttemptTypes'
  BY <1>1, <1>7 DEF Session, ArbitrationWon, ArbitrationLost, ReportEnd,
     CooldownElapses, Environment, Observe, Depart, Return, InboundSession, SessionEnds,
     network
<1> QED BY <1>2, <1>3, <1>4, <1>5, <1>6, <1>7 DEF Next, Service, Driver

\* The reports of the sessions of one peer, in whatever order they arrive,
\* preserve what the planner's mark promises.
LEMMA SessionEndStep ==
    ASSUME Inv, NEW d \in Devices,
           \/ ArbitrationWon(d) \/ ArbitrationLost(d) \/ ReportEnd(d)
           \/ InboundSession(d) \/ SessionEnds(d)
    PROVE  SessionTypes' /\ ConnectedHasSession'
<1> USE DEF Inv, SessionTypes, ConnectedHasSession
<1>1. CASE ArbitrationWon(d)
  BY <1>1 DEF ArbitrationWon
<1>2. CASE ArbitrationLost(d)
  BY <1>2 DEF ArbitrationLost
<1>3. CASE ReportEnd(d)
  BY <1>3 DEF ReportEnd, RecordFailure
<1>4. CASE InboundSession(d)
  BY <1>4 DEF InboundSession
<1>5. CASE SessionEnds(d)
  <2>1. CASE served[d] = "out"
    BY <1>5, <2>1 DEF SessionEnds
  <2>2. CASE served[d] # "out"
    BY <1>5, <2>2 DEF SessionEnds
  <2> QED BY <2>1, <2>2
<1> QED BY <1>1, <1>2, <1>3, <1>4, <1>5

\* So do the planner's own steps and the driver's reports of its dials.
LEMMA PlannerStep ==
    ASSUME Inv,
           \/ Poll \/ StartDial \/ DialFails \/ DialSucceeds \/ Expire
           \/ \E d \in Devices : \/ SendTarget(d) \/ CooldownElapses(d) \/ Observe(d)
                                 \/ Depart(d) \/ Return(d)
    PROVE  SessionTypes' /\ ConnectedHasSession'
<1> USE DEF Inv, SessionTypes, ConnectedHasSession
<1>1. ASSUME UNCHANGED <<planner, sessions>>
      PROVE  SessionTypes' /\ ConnectedHasSession'
  BY <1>1 DEF sessions
<1>2. CASE Poll
  BY <1>2 DEF Poll, sessions
<1>3. CASE DialFails
  BY <1>3 DEF DialFails, RecordFailure, sessions, AttemptTypes
<1>4. CASE DialSucceeds
  <2>1. driver \in Devices
    BY <1>4, ReconnectConstantsOK DEF DialSucceeds, AttemptTypes, RecordSuccess
  <2> QED BY <1>4, <2>1 DEF DialSucceeds, RecordSuccess
<1>5. ASSUME NEW d \in Devices, CooldownElapses(d)
      PROVE  SessionTypes' /\ ConnectedHasSession'
  BY <1>5 DEF CooldownElapses, sessions
<1>6. CASE StartDial \/ Expire
  BY <1>1, <1>6 DEF StartDial, Expire
<1>7. ASSUME NEW d \in Devices, SendTarget(d) \/ Observe(d) \/ Depart(d) \/ Return(d)
      PROVE  SessionTypes' /\ ConnectedHasSession'
  BY <1>1, <1>7 DEF SendTarget, Observe, Depart, Return
<1> QED BY <1>2, <1>3, <1>4, <1>5, <1>6, <1>7

\* No order of dials, reports and polls leaves a peer marked as connected
\* without a session whose end will be reported, so no visible peer is given up.
THEOREM ConnectedSafe == Spec => []ConnectedHasSession
<1>1. Inv /\ [Next]_vars => Inv'
  <2> SUFFICES ASSUME Inv, [Next]_vars PROVE Inv'
    OBVIOUS
  <2>1. CASE UNCHANGED vars
    BY <2>1 DEF vars, Inv, AttemptTypes, SessionTypes, ConnectedHasSession
  <2>2. CASE Next
    <3>1. SessionTypes' /\ ConnectedHasSession'
      BY <2>2, SessionEndStep, PlannerStep
         DEF Next, Service, Driver, Session, Environment
    <3> QED BY <2>2, <3>1, AttemptTypesStep DEF Inv
  <2> QED BY <2>1, <2>2
<1>2. Inv => ConnectedHasSession
  BY DEF Inv
<1> QED BY <1>1, <1>2, InvInit, PTL DEF Spec

-----------------------------------------------------------------------------
(* The registry                                                             *)

\* A sequence without repetition.
Distinct(s) == \A i, j \in 1..Len(s) : s[i] = s[j] => i = j

Listed(t, s) == \A i \in 1..Len(t) : \E j \in 1..Len(s) : t[i] = s[j]

\* Dropping the least recently seen peer leaves the others.
LEMMA TailDistinct ==
    ASSUME NEW s \in Seq(Devices), s # <<>>, Distinct(s), NEW t, t = Tail(s)
    PROVE  t \in Seq(Devices) /\ Distinct(t) /\ Len(t) = Len(s) - 1 /\ Listed(t, s)
<1>1. /\ t \in Seq(Devices) /\ Len(s) \in Nat /\ Len(s) >= 1 /\ Len(t) = Len(s) - 1
      /\ \A i \in 1..Len(t) : i + 1 \in 1..Len(s) /\ t[i] = s[i + 1]
  OBVIOUS
<1>2. ASSUME NEW i \in 1..Len(t), NEW j \in 1..Len(t), t[i] = t[j] PROVE i = j
  <2>1. i + 1 \in 1..Len(s) /\ j + 1 \in 1..Len(s) /\ s[i + 1] = s[j + 1]
    BY <1>1, <1>2
  <2>2. i + 1 = j + 1
    BY <2>1 DEF Distinct
  <2> QED
    BY <1>1, <2>2
<1> QED
  BY <1>1, <1>2 DEF Distinct, Listed

\* A peer that is not listed may be added at the end.
LEMMA AppendDistinct ==
    ASSUME NEW s \in Seq(Devices), Distinct(s), NEW d \in Devices, \A i \in 1..Len(s) : s[i] # d,
           NEW t, t = Append(s, d)
    PROVE  t \in Seq(Devices) /\ Distinct(t) /\ Len(t) = Len(s) + 1
<1>1. /\ t \in Seq(Devices) /\ Len(s) \in Nat /\ Len(t) = Len(s) + 1 /\ t[Len(s) + 1] = d
      /\ \A i \in 1..Len(s) : t[i] = s[i]
  OBVIOUS
<1>2. ASSUME NEW i \in 1..Len(t), NEW j \in 1..Len(t), t[i] = t[j] PROVE i = j
  <2>1. CASE i \in 1..Len(s) /\ j \in 1..Len(s)
    BY <1>1, <1>2, <2>1 DEF Distinct
  <2>2. CASE i = Len(s) + 1 \/ j = Len(s) + 1
    <3>1. \A k \in 1..Len(t) : k = Len(s) + 1 \/ k \in 1..Len(s)
      BY <1>1
    <3> QED
      BY <1>1, <1>2, <2>2, <3>1
  <2> QED
    BY <1>1, <2>1, <2>2
<1> QED
  BY <1>1, <1>2 DEF Distinct

\* Two sequences, one after the other.
Joined(t, a, b) ==
    /\ t \in Seq(Devices) /\ Len(t) = Len(a) + Len(b)
    /\ \A i \in 1..Len(a) : t[i] = a[i]
    /\ \A i \in 1..Len(t) : i > Len(a) => t[i] = b[i - Len(a)]

\* Concatenation joins them.
LEMMA ConcatFacts ==
    ASSUME NEW a \in Seq(Devices), NEW b \in Seq(Devices), NEW t, t = a \o b
    PROVE  Joined(t, a, b)
BY DEF Joined

\* The registry without a peer lists each other peer once.
LEMMA WithoutFacts ==
    ASSUME registry \in Seq(Devices), Distinct(registry), NEW d \in Devices, NEW t, t = Without(d)
    PROVE  /\ t \in Seq(Devices) /\ Distinct(t) /\ \A i \in 1..Len(t) : t[i] # d
           /\ Len(t) <= Len(registry) /\ (Seen(d) => Len(t) + 1 = Len(registry))
<1>1. CASE ~Seen(d)
  <2>1. t = registry /\ Len(t) \in Nat
    BY <1>1 DEF Without
  <2> QED
    BY <1>1, <2>1 DEF Seen
<1>2. CASE Seen(d)
  <2>1. PICK s \in Seq(Devices), p \in 1..Len(registry) : s = registry /\ p = Place(d) /\ s[p] = d
    BY <1>2 DEF Seen, Place
  <2>2. PICK n \in Nat : n = Len(s) /\ p \in 1..n
    BY <2>1
  <2>3. PICK a, b : a = SubSeq(s, 1, p - 1) /\ b = SubSeq(s, p + 1, n) /\ t = a \o b
    BY <1>2, <2>1, <2>2 DEF Without
  <2>4. a \in Seq(Devices) /\ Len(a) = p - 1 /\ \A i \in 1..p - 1 : a[i] = s[i]
    BY <2>2, <2>3
  <2>5. b \in Seq(Devices) /\ Len(b) = n - p /\ \A i \in 1..n - p : b[i] = s[i + p]
    BY <2>2, <2>3
  <2>6. /\ t \in Seq(Devices) /\ Len(t) = n - 1
        /\ \A i \in 1..p - 1 : t[i] = a[i]
        /\ \A i \in 1..n - 1 : i >= p => t[i] = b[i - (p - 1)]
    <3>1. Joined(t, a, b)
      BY <2>3, <2>4, <2>5, ConcatFacts
    <3>2. Len(t) = (p - 1) + (n - p) /\ (p - 1) + (n - p) = n - 1
      BY <2>2, <2>4, <2>5, <3>1 DEF Joined
    <3>3. \A i \in 1..n - 1 : i >= p => i > p - 1
      BY <2>2
    <3> QED
      BY <2>4, <3>1, <3>2, <3>3 DEF Joined
  <2>7. ASSUME NEW i \in 1..n - 1
        PROVE  \E j \in 1..n : /\ t[i] = s[j] /\ j # p
                               /\ (i < p => j = i) /\ (i >= p => j = i + 1)
    <3>1. CASE i < p
      <4>1. i \in 1..p - 1 /\ i \in 1..n /\ t[i] = a[i]
        BY <2>2, <2>6, <3>1
      <4> QED
        BY <2>2, <2>4, <3>1, <4>1
    <3>2. CASE ~(i < p)
      <4>1. i - (p - 1) \in 1..n - p /\ t[i] = b[i - (p - 1)]
        BY <2>2, <2>6, <3>2
      <4>2. PICK k \in 1..n - p : k = i - (p - 1)
        BY <4>1
      <4>3. k + p = i + 1 /\ i + 1 \in 1..n
        BY <2>2, <4>2
      <4>4. t[i] = s[i + 1]
        BY <2>5, <4>1, <4>2, <4>3
      <4> QED
        BY <2>2, <3>2, <4>3, <4>4
    <3> QED
      BY <3>1, <3>2
  <2>8. \A i \in 1..n - 1 : t[i] # d
    <3>1. \A j \in 1..n : j # p => s[j] # d
      BY <2>1, <2>2 DEF Distinct
    <3> QED
      BY <2>7, <3>1
  <2>9. ASSUME NEW i \in 1..n - 1, NEW k \in 1..n - 1, t[i] = t[k] PROVE i = k
    <3>1. PICK j \in 1..n : t[i] = s[j] /\ (i < p => j = i) /\ (i >= p => j = i + 1)
      BY <2>7
    <3>2. PICK l \in 1..n : t[k] = s[l] /\ (k < p => l = k) /\ (k >= p => l = k + 1)
      BY <2>7
    <3>3. j = l
      BY <2>1, <2>2, <2>9, <3>1, <3>2 DEF Distinct
    <3> QED
      BY <2>2, <3>1, <3>2, <3>3
  <2>10. Len(registry) = n
    BY <2>1, <2>2
  <2> QED
    BY <2>2, <2>6, <2>8, <2>9, <2>10 DEF Distinct
<1> QED
  BY <1>1, <1>2

RegistryOK == registry \in Seq(Devices) /\ Len(registry) <= RegistryCapacity /\ Distinct(registry)
CountsOK == expiries \in Nat /\ failures \in Nat /\ departures \in Nat

\* An announcement, whether it is the peer's first, a repeated one or one that
\* evicts another peer.
LEMMA ObserveRegistry ==
    ASSUME RegistryOK, NEW d \in Devices, Observe(d)
    PROVE  RegistryOK'
<1>1. Len(registry) \in Nat /\ RegistryCapacity \in Nat /\ RegistryCapacity >= 1
  BY ReconnectConstantsOK DEF RegistryOK
<1>2. CASE ~Seen(d) /\ Len(registry) >= RegistryCapacity
  <2>1. registry # <<>>
    BY <1>1, <1>2
  <2>2. PICK s, t : s \in Seq(Devices) /\ s = registry /\ t = Tail(s) /\ s # <<>> /\ Distinct(s)
    BY <2>1 DEF RegistryOK
  <2>3. t \in Seq(Devices) /\ Distinct(t) /\ Len(t) = Len(s) - 1 /\ Listed(t, s)
    BY <2>2, TailDistinct
  <2>4. \A i \in 1..Len(t) : t[i] # d
    BY <1>2, <2>2, <2>3 DEF Seen, Listed
  <2>5. PICK u : u = Append(t, d)
    OBVIOUS
  <2>6. u \in Seq(Devices) /\ Distinct(u) /\ Len(u) = Len(t) + 1
    BY <2>3, <2>4, <2>5, AppendDistinct
  <2>7. registry' = u
    BY <1>2, <2>2, <2>5 DEF Observe
  <2>8. Len(u) <= RegistryCapacity
    BY <1>1, <2>2, <2>3, <2>6 DEF RegistryOK
  <2> QED
    BY <2>6, <2>7, <2>8 DEF RegistryOK, Distinct
<1>3. CASE ~(~Seen(d) /\ Len(registry) >= RegistryCapacity)
  <2>1. PICK t : t = Without(d)
    OBVIOUS
  <2>2. /\ t \in Seq(Devices) /\ Distinct(t) /\ \A i \in 1..Len(t) : t[i] # d
        /\ Len(t) <= Len(registry) /\ (Seen(d) => Len(t) + 1 = Len(registry))
    BY <2>1, WithoutFacts DEF RegistryOK
  <2>3. PICK u : u = Append(t, d)
    OBVIOUS
  <2>4. u \in Seq(Devices) /\ Distinct(u) /\ Len(u) = Len(t) + 1
    BY <2>2, <2>3, AppendDistinct
  <2>5. registry' = u
    BY <1>3, <2>1, <2>3 DEF Observe
  <2>6. Len(u) <= RegistryCapacity
    <3>1. Len(t) \in Nat
      BY <2>2
    <3> QED
      BY <1>1, <1>3, <2>2, <2>4, <3>1 DEF RegistryOK
  <2> QED
    BY <2>4, <2>5, <2>6 DEF RegistryOK, Distinct
<1> QED
  BY <1>2, <1>3

\* The registry at every step: only an announcement and an expiry touch it.
LEMMA RegistryStep ==
    ASSUME RegistryOK, Next PROVE RegistryOK'
<1>1. ASSUME UNCHANGED registry PROVE RegistryOK'
  BY <1>1 DEF RegistryOK, Distinct
<1>2. CASE Expire
  <2>1. registry # <<>> /\ registry' = Tail(registry)
    BY <1>2 DEF Expire
  <2>2. PICK t : t = Tail(registry)
    OBVIOUS
  <2>3. t \in Seq(Devices) /\ Distinct(t) /\ Len(t) = Len(registry) - 1
    BY <2>1, <2>2, TailDistinct DEF RegistryOK
  <2>4. Len(t) <= RegistryCapacity
    BY <2>3, ReconnectConstantsOK DEF RegistryOK
  <2> QED
    BY <2>1, <2>2, <2>3, <2>4 DEF RegistryOK, Distinct
<1>3. ASSUME NEW d \in Devices, Observe(d) PROVE RegistryOK'
  BY <1>3, ObserveRegistry
<1>4. CASE Service \/ Driver
  BY <1>1, <1>4 DEF Service, Driver, Poll, SendTarget, StartDial, DialFails, DialSucceeds, network
<1>5. ASSUME NEW d \in Devices,
             \/ Session(d) \/ CooldownElapses(d)
             \/ Depart(d) \/ Return(d) \/ InboundSession(d) \/ SessionEnds(d)
      PROVE  RegistryOK'
  BY <1>1, <1>5 DEF Session, ArbitrationWon, ArbitrationLost, ReportEnd, CooldownElapses,
     Depart, Return, InboundSession, SessionEnds, network
<1> QED
  BY <1>2, <1>3, <1>4, <1>5 DEF Next, Environment

\* The target channel at every step: tx.send waits for room.
LEMMA ChannelStep ==
    ASSUME targets \in Seq(Devices), Len(targets) <= ChannelCapacity, emitted \subseteq Devices, Next
    PROVE  Len(targets') <= ChannelCapacity
<1>1. Len(targets) \in Nat /\ ChannelCapacity \in Nat
  BY ReconnectConstantsOK
<1>2. ASSUME NEW d \in Devices, SendTarget(d) PROVE Len(targets') <= ChannelCapacity
  <2>1. Len(targets) < ChannelCapacity /\ targets' = Append(targets, d)
    BY <1>2 DEF SendTarget
  <2>2. Len(Append(targets, d)) = Len(targets) + 1
    OBVIOUS
  <2> QED
    BY <1>1, <2>1, <2>2
<1>3. CASE StartDial
  <2>1. targets # <<>> /\ targets' = Tail(targets)
    BY <1>3 DEF StartDial
  <2>2. Len(Tail(targets)) = Len(targets) - 1
    BY <2>1
  <2> QED
    BY <1>1, <2>1, <2>2
<1>4. CASE Poll \/ DialFails \/ DialSucceeds \/ Expire
  BY <1>4 DEF Poll, DialFails, DialSucceeds, Expire, attempts
<1>5. ASSUME NEW d \in Devices, Session(d) \/ CooldownElapses(d) \/ Environment(d)
      PROVE  Len(targets') <= ChannelCapacity
  BY <1>5 DEF Session, ArbitrationWon, ArbitrationLost, ReportEnd, CooldownElapses, Environment,
     Observe, Depart, Return, InboundSession, SessionEnds, attempts
<1> QED
  BY <1>2, <1>3, <1>4, <1>5 DEF Next, Service, Driver

\* The counters of the bounds.
LEMMA CountsStep ==
    ASSUME CountsOK, Next PROVE CountsOK'
<1> USE DEF CountsOK
<1>1. CASE Service
  BY <1>1 DEF Service, Poll, SendTarget, network
<1>2. CASE Driver \/ Expire
  BY <1>2 DEF Driver, StartDial, DialFails, DialSucceeds, Expire, network, Fails
<1>3. ASSUME NEW d \in Devices, Session(d) \/ CooldownElapses(d) PROVE CountsOK'
  BY <1>3 DEF Session, ArbitrationWon, ArbitrationLost, ReportEnd, CooldownElapses, network, Fails
<1>4. ASSUME NEW d \in Devices, Environment(d) PROVE CountsOK'
  BY <1>4 DEF Environment, Observe, Depart, Return, InboundSession, SessionEnds, network, Fails
<1> QED
  BY <1>1, <1>2, <1>3, <1>4 DEF Next

\* The types and the sessions behind the planner's marks, together.
RegistryInv == TypeOK /\ ConnectedHasSession

\* Together they hold at first.
LEMMA WholeInit ==
    ASSUME Init PROVE RegistryInv
<1>1. Inv
  BY InvInit
<1>2. registry = <<>> /\ targets = <<>> /\ expiries = 0 /\ failures = 0 /\ departures = 0
  BY DEF Init
<1>3. /\ registry \in Seq(Devices) /\ Len(registry) = 0 /\ Len(targets) = 0
      /\ 0 <= RegistryCapacity /\ 0 <= ChannelCapacity /\ 1..0 = {}
  BY <1>2, ReconnectConstantsOK
<1> QED
  BY <1>1, <1>2, <1>3 DEF RegistryInv, TypeOK, Inv, AttemptTypes, SessionTypes

\* Together they survive every step.
LEMMA WholeStep ==
    ASSUME RegistryInv, [Next]_vars PROVE RegistryInv'
<1>1. Inv
  BY DEF RegistryInv, TypeOK, Inv, AttemptTypes, SessionTypes
<1>2. RegistryOK /\ CountsOK /\ Len(targets) <= ChannelCapacity
  BY DEF RegistryInv, TypeOK, RegistryOK, CountsOK, Distinct
<1>3. CASE UNCHANGED vars
  BY <1>3 DEF vars, RegistryInv, TypeOK, ConnectedHasSession
<1>4. CASE Next
  <2>1. AttemptTypes'
    BY <1>1, <1>4, AttemptTypesStep
  <2>2. SessionTypes' /\ ConnectedHasSession'
    BY <1>1, <1>4, SessionEndStep, PlannerStep DEF Next, Service, Driver, Session, Environment
  <2>3. RegistryOK'
    BY <1>2, <1>4, RegistryStep
  <2>4. Len(targets') <= ChannelCapacity
    BY <1>1, <1>2, <1>4, ChannelStep DEF Inv, AttemptTypes
  <2>5. CountsOK'
    BY <1>2, <1>4, CountsStep
  <2> QED
    BY <2>1, <2>2, <2>3, <2>4, <2>5
       DEF RegistryInv, TypeOK, AttemptTypes, SessionTypes, RegistryOK, CountsOK, Distinct
<1> QED
  BY <1>3, <1>4

\* Whatever announces itself, in whatever order, DiscoveryRegistry::observe keeps
\* one entry per device and never more than MAX_DISCOVERED_PEERS, and the poll
\* loop never has more targets in its channel than it holds.
THEOREM RegistryBounded == Spec => []TypeOK
<1>1. Init => RegistryInv
  BY WholeInit
<1>2. RegistryInv /\ [Next]_vars => RegistryInv'
  BY WholeStep
<1>3. RegistryInv => TypeOK
  BY DEF RegistryInv
<1> QED BY <1>1, <1>2, <1>3, PTL DEF Spec
===============================================================================
