------------------------------ MODULE MCReconnect ------------------------------
(***************************************************************************)
(* Two small instances of Reconnect in one state space.  On the quiet LAN   *)
(* the constants are the cfg's: every peer is trusted and fits the          *)
(* registry, and reconnection is live.  On the crowded LAN the registry     *)
(* holds fewer peers than announce themselves, one of them is a stranger,   *)
(* sessions overlap and peers leave; there only safety is asked for.        *)
(***************************************************************************)
EXTENDS ReconnectProofs

CONSTANT Friends  \* the peers the crowded LAN's daemon trusts

ASSUME FriendsOK == Friends \subseteq Devices

VARIABLE crowded

Crowd == INSTANCE ReconnectProofs
             WITH Trusted <- Friends, RegistryCapacity <- 1, ChannelCapacity <- 2,
                  MaxOpen <- 3, MaxExpiries <- 1, MaxFailures <- 2, MaxDepartures <- 1

MCInit == Init /\ crowded \in BOOLEAN

MCNext ==
    /\ \/ ~crowded /\ Next
       \/ crowded /\ Crowd!Next
    /\ UNCHANGED crowded

MCvars == <<vars, crowded>>
Quietly(A) == ~crowded /\ A /\ UNCHANGED crowded

\* The fairness of Reconnect, on the quiet LAN.
QuietFairness ==
    /\ WF_MCvars(Quietly(Service)) /\ WF_MCvars(Quietly(Driver))
    /\ \A d \in Devices :
         /\ WF_MCvars(Quietly(Session(d)))
         /\ WF_MCvars(Quietly(CooldownElapses(d)))
         /\ WF_MCvars(Quietly(~Seen(d) /\ Observe(d)))

\* The registry and the target channel keep within their capacities, whichever
\* LAN the daemon is on.
ReconnectTypeOK == IF crowded THEN Crowd!TypeOK ELSE TypeOK

\* On the quiet LAN a trusted peer that stays on the network is served again and
\* again, although its announcements are lost, dials fail, sessions break and
\* reports race: Reconnects, where the fairness it needs is assumed.
QuietReconnects ==
    \A d \in Trusted : []<>(crowded \/ d \notin up \/ served[d] # "none")

\* The crowded LAN's constants meet the assumptions of Reconnect.
LEMMA CrowdConstants ==
    /\ Friends \subseteq Devices /\ NoDevice \notin Devices
    /\ 1 \in Nat \ {0} /\ 2 \in Nat \ {0}
    /\ 3 \in Nat /\ 1 \in Nat /\ 2 \in Nat /\ 1 \in Nat
BY FriendsOK, ReconnectConstantsOK

\* On both LANs, for any devices and friends, no announcement takes the registry
\* past its capacity or lists a peer twice, and no poll overfills the channel.
THEOREM ReconnectTypes == MCInit /\ [][MCNext]_MCvars => []ReconnectTypeOK
<1> DEFINE Both == crowded \in BOOLEAN /\ (crowded => Crowd!RegistryInv) /\ (~crowded => RegistryInv)
<1>1. MCInit => Both
  <2>1. ASSUME MCInit PROVE RegistryInv /\ Crowd!RegistryInv
    <3>1. Init /\ Crowd!Init
      BY <2>1 DEF MCInit, Init, Crowd!Init
    <3> QED
      BY <3>1, CrowdConstants, WholeInit, Crowd!WholeInit
  <2> QED
    BY <2>1 DEF MCInit
<1>2. Both /\ [MCNext]_MCvars => Both'
  <2> SUFFICES ASSUME Both, [MCNext]_MCvars PROVE Both'
    OBVIOUS
  <2>1. crowded' = crowded
    BY DEF MCNext, MCvars
  <2>2. crowded => [Crowd!Next]_(Crowd!vars)
    BY DEF MCNext, MCvars, vars, Crowd!vars
  <2>3. ~crowded => [Next]_vars
    BY DEF MCNext, MCvars
  <2>4. crowded => Crowd!RegistryInv'
    BY <2>2, CrowdConstants, Crowd!WholeStep
  <2>5. ~crowded => RegistryInv'
    BY <2>3, WholeStep
  <2> QED
    BY <2>1, <2>4, <2>5
<1>3. Both => ReconnectTypeOK
  BY DEF ReconnectTypeOK, RegistryInv, Crowd!RegistryInv
<1> QED
  BY <1>1, <1>2, <1>3, PTL
================================================================================
