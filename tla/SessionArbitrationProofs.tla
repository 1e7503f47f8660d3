----------------------- MODULE SessionArbitrationProofs -----------------------
(***************************************************************************)
(* Proofs about SessionArbitration, for any number of links and lanes and   *)
(* with faults: the inductive invariant, the three safety properties of the *)
(* lease, and the refinement of PeerSessions.                               *)
(***************************************************************************)
EXTENDS SessionArbitration, TLAPS

\* The places at which a task holds the lease.
Holding == {"sendAccept", "ack", "sendAcceptAck", "fanOut", "routing",
            "ending", "retained"}

\* Where the lanes and the lease are, place by place.
HoldersOwn ==
    \A d \in Daemons, l \in Links :
        /\ stage[d][l] \in Holding => l \in owns[d]
        /\ lanes[d][l] # {} => stage[d][l] \in Serving
        /\ lanesDone[d][l] => lanes[d][l] = {} /\ stage[d][l] \in Serving \cup {"done"}
        /\ l \in fanned[d] => stage[d][l] \in Serving \cup {"done"}
        /\ stage[d][l] \in Serving => l \in fanned[d]

\* Each place is reached by one daemon only; the other side of a link the
\* authority has not started is idle too, and the follower does not answer before
\* the authority has decided.
PlacesOK ==
    \A l \in Links :
        /\ stage["foll"][l] \notin {"fallback", "decide", "sendAccept", "sendReject", "ack"}
        /\ stage["auth"][l] \notin {"await", "sendAcceptAck", "sendRejectAck", "fanOut"}
        /\ stage["auth"][l] = "idle" <=> stage["foll"][l] = "idle"
        /\ stage["auth"][l] \in {"fallback", "decide", "sendAccept", "sendReject"} =>
              stage["foll"][l] \in {"await", "closing", "done"} /\ l \notin fanned["foll"]

\* What is in flight says where both ends of the link are.
InFlight ==
    \A l \in Links :
        /\ incoming["foll"][l] # <<>> =>
              /\ stage["foll"][l] \in {"await", "closing", "done"}
              /\ stage["auth"][l] \in {"ack", "closing", "done"}
              /\ l \notin Committed
        /\ incoming["auth"][l] # <<>> =>
              /\ stage["foll"][l] \notin {"idle", "await", "sendAcceptAck", "sendRejectAck"}
              /\ Head(incoming["auth"][l]) = "AcceptAck" => l \in Committed
        /\ l \in fanned["auth"] => l \in Committed

\* A task that is over, and a session without lanes, have left a closed link behind.
EndedClosed ==
    \A d \in Daemons, l \in Links :
        lanesDone[d][l] \/ stage[d][l] = "done" => ~open[l]

\* The inductive invariant.
Inv == ArbTypeOK /\ LeaseAccounting /\ HoldersOwn /\ PlacesOK /\ InFlight /\ EndedClosed

\* FallbackExpires preserves the inductive invariant.
LEMMA FallbackExpiresInv ==
    ASSUME Inv, NEW l \in Links, FallbackExpires(l)
    PROVE  Inv'
<1> USE DEF Inv, Daemons, ArbTypeOK
<1>1. ArbTypeOK'
  BY DEF FallbackExpires, EnterStage, InFlight, PlacesOK, Stages, Deciding, Serving, Decisions
<1>2. LeaseAccounting'
  BY DEF FallbackExpires, EnterStage, LeaseAccounting, HoldersOwn, Holding
<1>3. HoldersOwn'
  BY DEF FallbackExpires, EnterStage, HoldersOwn, LeaseAccounting, Holding, Serving, PlacesOK
<1>4. PlacesOK'
  BY DEF FallbackExpires, EnterStage, PlacesOK
<1>5. InFlight'
  BY DEF FallbackExpires, EnterStage, InFlight, PlacesOK, HoldersOwn, Committed, Serving, Decisions
<1>6. EndedClosed'
  BY DEF FallbackExpires, EnterStage, EndedClosed, HoldersOwn, PlacesOK, Serving
<1> QED
  BY <1>1, <1>2, <1>3, <1>4, <1>5, <1>6

\* Decide preserves the inductive invariant.
LEMMA DecideInv ==
    ASSUME Inv, NEW l \in Links, Decide(l)
    PROVE  Inv'
<1> USE DEF Inv, Daemons, ArbTypeOK
<1>1. CASE /\ stage["auth"][l] = "decide"
            /\ stage' = [stage EXCEPT !["auth"][l] = "sendReject"]
            /\ UNCHANGED <<active, owns>>
  <2>1. ArbTypeOK'
    BY <1>1 DEF Decide, InFlight, PlacesOK, Stages, Deciding, Serving, Decisions
  <2>2. LeaseAccounting'
    BY <1>1 DEF Decide, LeaseAccounting, HoldersOwn, Holding
  <2>3. HoldersOwn'
    BY <1>1 DEF Decide, HoldersOwn, LeaseAccounting, Holding, Serving, PlacesOK
  <2>4. PlacesOK'
    BY <1>1 DEF Decide, PlacesOK
  <2>5. InFlight'
    BY <1>1 DEF Decide, InFlight, PlacesOK, HoldersOwn, Committed, Serving, Decisions
  <2>6. EndedClosed'
    BY <1>1 DEF Decide, EndedClosed, HoldersOwn, PlacesOK, Serving
  <2> QED
    BY <2>1, <2>2, <2>3, <2>4, <2>5, <2>6
<1>2. CASE /\ stage["auth"][l] = "decide" /\ ~active["auth"]
            /\ stage' = [stage EXCEPT !["auth"][l] = "sendAccept"]
            /\ active' = [active EXCEPT !["auth"] = TRUE]
            /\ owns' = [owns EXCEPT !["auth"] = @ \cup {l}]
  <2>1. ArbTypeOK'
    BY <1>2 DEF Decide, InFlight, PlacesOK, Stages, Deciding, Serving, Decisions
  <2>2. LeaseAccounting'
    <3>1. owns["auth"] = {} /\ owns'["auth"] = {l} /\ active'["auth"]
      BY <1>2 DEF LeaseAccounting
    <3>2. /\ owns'["foll"] = owns["foll"] /\ active'["foll"] = active["foll"]
          /\ stage'["foll"] = stage["foll"] /\ stage'["auth"][l] \notin {"idle", "done"}
      BY <1>2
    <3>3. \A m \in owns'["foll"] : stage'["foll"][m] \notin {"idle", "done"}
      BY <3>2 DEF LeaseAccounting
    <3>4. /\ active'["foll"] <=> owns'["foll"] # {}
          /\ \A m, n \in owns'["foll"] : m = n
      BY <3>2, Zenon DEF LeaseAccounting
    <3>5. /\ active'["auth"] <=> owns'["auth"] # {}
          /\ \A m, n \in owns'["auth"] : m = n
          /\ \A m \in owns'["auth"] : stage'["auth"][m] \notin {"idle", "done"}
      BY <3>1, <3>2
    <3> QED
      BY <3>3, <3>4, <3>5, Zenon DEF LeaseAccounting
  <2>3. HoldersOwn'
    BY <1>2 DEF Decide, HoldersOwn, LeaseAccounting, Holding, Serving, PlacesOK
  <2>4. PlacesOK'
    BY <1>2 DEF Decide, PlacesOK
  <2>5. InFlight'
    BY <1>2 DEF Decide, InFlight, PlacesOK, HoldersOwn, Committed, Serving, Decisions
  <2>6. EndedClosed'
    BY <1>2 DEF Decide, EndedClosed, HoldersOwn, PlacesOK, Serving
  <2> QED
    BY <2>1, <2>2, <2>3, <2>4, <2>5, <2>6
<1> QED
  BY <1>1, <1>2 DEF Decide, EnterStage, TryAcquire

\* SendDecision preserves the inductive invariant.
LEMMA SendDecisionInv ==
    ASSUME Inv, NEW l \in Links, SendDecision(l)
    PROVE  Inv'
<1> USE DEF Inv, Daemons, ArbTypeOK
<1>1. CASE /\ stage["auth"][l] = "sendAccept" /\ open[l]
            /\ incoming' = [incoming EXCEPT !["foll"][l] = Append(@, "Accept")]
            /\ stage' = [stage EXCEPT !["auth"][l] = "ack"]
  <2>1. ArbTypeOK'
    <3>1. incoming["foll"][l] = <<>>
      BY <1>1 DEF InFlight
    <3>2. /\ incoming' \in [Daemons -> [Links -> Seq(Decisions)]]
          /\ \A e \in Daemons, m \in Links : Len(incoming'[e][m]) <= 1
      BY <1>1, <3>1 DEF Decisions
    <3>3. stage' \in [Daemons -> [Links -> Stages]]
      BY <1>1 DEF Stages, Deciding
    <3> QED
      BY <1>1, <3>2, <3>3 DEF SendDecision
  <2>2. LeaseAccounting'
    BY <1>1 DEF SendDecision, LeaseAccounting, HoldersOwn, Holding
  <2>3. HoldersOwn'
    BY <1>1 DEF SendDecision, HoldersOwn, LeaseAccounting, Holding, Serving, PlacesOK
  <2>4. PlacesOK'
    BY <1>1 DEF SendDecision, PlacesOK
  <2>5. InFlight'
    <3>1. /\ incoming'["auth"] = incoming["auth"] /\ stage'["foll"] = stage["foll"]
          /\ \A m \in Links \ {l} : /\ incoming'["foll"][m] = incoming["foll"][m]
                                   /\ stage'["auth"][m] = stage["auth"][m]
          /\ stage'["auth"][l] \in {"ack", "closing"}
          /\ stage["foll"][l] \in {"await", "closing", "done"}
          /\ l \notin fanned["foll"]
      BY <1>1 DEF PlacesOK
    <3>2. Committed' = Committed /\ fanned' = fanned
      BY <3>1 DEF SendDecision, Committed
    <3> QED
      BY <3>1, <3>2 DEF InFlight, Committed
  <2>6. EndedClosed'
    BY <1>1 DEF SendDecision, EndedClosed, HoldersOwn, PlacesOK, Serving
  <2> QED
    BY <2>1, <2>2, <2>3, <2>4, <2>5, <2>6
<1>2. CASE /\ stage["auth"][l] = "sendAccept" /\ UNCHANGED incoming
            /\ stage' = [stage EXCEPT !["auth"][l] = "closing"]
  <2>1. ArbTypeOK'
    BY <1>2 DEF SendDecision, InFlight, PlacesOK, Stages, Deciding, Serving, Decisions
  <2>2. LeaseAccounting'
    BY <1>2 DEF SendDecision, LeaseAccounting, HoldersOwn, Holding
  <2>3. HoldersOwn'
    BY <1>2 DEF SendDecision, HoldersOwn, LeaseAccounting, Holding, Serving, PlacesOK
  <2>4. PlacesOK'
    BY <1>2 DEF SendDecision, PlacesOK
  <2>5. InFlight'
    BY <1>2 DEF SendDecision, InFlight, PlacesOK, HoldersOwn, Committed, Serving, Decisions
  <2>6. EndedClosed'
    BY <1>2 DEF SendDecision, EndedClosed, HoldersOwn, PlacesOK, Serving
  <2> QED
    BY <2>1, <2>2, <2>3, <2>4, <2>5, <2>6
<1>3. CASE /\ stage["auth"][l] = "sendReject" /\ open[l]
            /\ incoming' = [incoming EXCEPT !["foll"][l] = Append(@, "Reject")]
            /\ stage' = [stage EXCEPT !["auth"][l] = "closing"]
  <2>1. ArbTypeOK'
    <3>1. incoming["foll"][l] = <<>>
      BY <1>3 DEF InFlight
    <3>2. /\ incoming' \in [Daemons -> [Links -> Seq(Decisions)]]
          /\ \A e \in Daemons, m \in Links : Len(incoming'[e][m]) <= 1
      BY <1>3, <3>1 DEF Decisions
    <3>3. stage' \in [Daemons -> [Links -> Stages]]
      BY <1>3 DEF Stages, Deciding
    <3> QED
      BY <1>3, <3>2, <3>3 DEF SendDecision
  <2>2. LeaseAccounting'
    BY <1>3 DEF SendDecision, LeaseAccounting, HoldersOwn, Holding
  <2>3. HoldersOwn'
    BY <1>3 DEF SendDecision, HoldersOwn, LeaseAccounting, Holding, Serving, PlacesOK
  <2>4. PlacesOK'
    BY <1>3 DEF SendDecision, PlacesOK
  <2>5. InFlight'
    <3>1. /\ incoming'["auth"] = incoming["auth"] /\ stage'["foll"] = stage["foll"]
          /\ \A m \in Links \ {l} : /\ incoming'["foll"][m] = incoming["foll"][m]
                                   /\ stage'["auth"][m] = stage["auth"][m]
          /\ stage'["auth"][l] \in {"ack", "closing"}
          /\ stage["foll"][l] \in {"await", "closing", "done"}
          /\ l \notin fanned["foll"]
      BY <1>3 DEF PlacesOK
    <3>2. Committed' = Committed /\ fanned' = fanned
      BY <3>1 DEF SendDecision, Committed
    <3> QED
      BY <3>1, <3>2 DEF InFlight, Committed
  <2>6. EndedClosed'
    BY <1>3 DEF SendDecision, EndedClosed, HoldersOwn, PlacesOK, Serving
  <2> QED
    BY <2>1, <2>2, <2>3, <2>4, <2>5, <2>6
<1>4. CASE /\ stage["auth"][l] = "sendReject" /\ UNCHANGED incoming
            /\ stage' = [stage EXCEPT !["auth"][l] = "closing"]
  <2>1. ArbTypeOK'
    BY <1>4 DEF SendDecision, InFlight, PlacesOK, Stages, Deciding, Serving, Decisions
  <2>2. LeaseAccounting'
    BY <1>4 DEF SendDecision, LeaseAccounting, HoldersOwn, Holding
  <2>3. HoldersOwn'
    BY <1>4 DEF SendDecision, HoldersOwn, LeaseAccounting, Holding, Serving, PlacesOK
  <2>4. PlacesOK'
    BY <1>4 DEF SendDecision, PlacesOK
  <2>5. InFlight'
    BY <1>4 DEF SendDecision, InFlight, PlacesOK, HoldersOwn, Committed, Serving, Decisions
  <2>6. EndedClosed'
    BY <1>4 DEF SendDecision, EndedClosed, HoldersOwn, PlacesOK, Serving
  <2> QED
    BY <2>1, <2>2, <2>3, <2>4, <2>5, <2>6
<1> QED
  BY <1>1, <1>2, <1>3, <1>4 DEF SendDecision, EnterStage, SendTo, OtherEnd

\* ReceiveAck preserves the inductive invariant.
LEMMA ReceiveAckInv ==
    ASSUME Inv, NEW l \in Links, ReceiveAck(l)
    PROVE  Inv'
<1> USE DEF Inv, Daemons, ArbTypeOK
<1>1. CASE /\ incoming["auth"][l] # <<>>
            /\ incoming' = [incoming EXCEPT !["auth"][l] = Tail(@)]
            /\ Head(incoming["auth"][l]) = "AcceptAck"
            /\ stage' = [stage EXCEPT !["auth"][l] = "routing"]
            /\ lanes' = [lanes EXCEPT !["auth"][l] = Lanes]
            /\ fanned' = [fanned EXCEPT !["auth"] = @ \cup {l}]
  <2>1. ArbTypeOK'
    BY <1>1 DEF ReceiveAck, InFlight, PlacesOK, Stages, Deciding, Serving, Decisions
  <2>2. LeaseAccounting'
    BY <1>1 DEF ReceiveAck, LeaseAccounting, HoldersOwn, Holding
  <2>3. HoldersOwn'
    BY <1>1 DEF ReceiveAck, HoldersOwn, LeaseAccounting, Holding, Serving, PlacesOK
  <2>4. PlacesOK'
    BY <1>1 DEF ReceiveAck, PlacesOK
  <2>5. InFlight'
    <3>1. incoming'["auth"][l] = <<>> /\ l \in Committed
      BY <1>1 DEF InFlight
    <3>2. /\ incoming'["foll"] = incoming["foll"] /\ stage'["foll"] = stage["foll"]
          /\ incoming["foll"][l] = <<>>
          /\ \A m \in Links \ {l} : /\ incoming'["auth"][m] = incoming["auth"][m]
                                   /\ stage'["auth"][m] = stage["auth"][m]
          /\ fanned'["foll"] = fanned["foll"]
          /\ fanned'["auth"] = fanned["auth"] \cup {l}
      BY <1>1 DEF InFlight, Committed
    <3>3. Committed' = Committed
      BY <3>2 DEF Committed
    <3> QED
      BY <3>1, <3>2, <3>3 DEF InFlight
  <2>6. EndedClosed'
    BY <1>1 DEF ReceiveAck, EndedClosed, HoldersOwn, PlacesOK, Serving
  <2> QED
    BY <2>1, <2>2, <2>3, <2>4, <2>5, <2>6
<1>2. CASE /\ incoming["auth"][l] # <<>>
            /\ incoming' = [incoming EXCEPT !["auth"][l] = Tail(@)]
            /\ stage' = [stage EXCEPT !["auth"][l] = "closing"]
            /\ UNCHANGED <<lanes, fanned>>
  <2>1. ArbTypeOK'
    <3>1. /\ Tail(incoming["auth"][l]) \in Seq(Decisions)
          /\ Len(Tail(incoming["auth"][l])) <= 1
      BY <1>2
    <3>2. /\ incoming' \in [Daemons -> [Links -> Seq(Decisions)]]
          /\ \A c \in Daemons, m \in Links : Len(incoming'[c][m]) <= 1
      BY <1>2, <3>1
    <3>3. stage' \in [Daemons -> [Links -> Stages]]
      BY <1>2 DEF Stages, Deciding
    <3> QED
      BY <1>2, <3>2, <3>3 DEF ReceiveAck
  <2>2. LeaseAccounting'
    BY <1>2 DEF ReceiveAck, LeaseAccounting, HoldersOwn, Holding
  <2>3. HoldersOwn'
    BY <1>2 DEF ReceiveAck, HoldersOwn, LeaseAccounting, Holding, Serving, PlacesOK
  <2>4. PlacesOK'
    BY <1>2 DEF ReceiveAck, PlacesOK
  <2>5. InFlight'
    BY <1>2 DEF ReceiveAck, InFlight, PlacesOK, HoldersOwn, Committed, Serving, Decisions
  <2>6. EndedClosed'
    BY <1>2 DEF ReceiveAck, EndedClosed, HoldersOwn, PlacesOK, Serving
  <2> QED
    BY <2>1, <2>2, <2>3, <2>4, <2>5, <2>6
<1>3. CASE /\ stage' = [stage EXCEPT !["auth"][l] = "closing"]
            /\ UNCHANGED <<incoming, lanes, fanned>>
  <2>1. ArbTypeOK'
    BY <1>3 DEF ReceiveAck, InFlight, PlacesOK, Stages, Deciding, Serving, Decisions
  <2>2. LeaseAccounting'
    BY <1>3 DEF ReceiveAck, LeaseAccounting, HoldersOwn, Holding
  <2>3. HoldersOwn'
    BY <1>3 DEF ReceiveAck, HoldersOwn, LeaseAccounting, Holding, Serving, PlacesOK
  <2>4. PlacesOK'
    BY <1>3 DEF ReceiveAck, PlacesOK
  <2>5. InFlight'
    BY <1>3 DEF ReceiveAck, InFlight, PlacesOK, HoldersOwn, Committed, Serving, Decisions
  <2>6. EndedClosed'
    BY <1>3 DEF ReceiveAck, EndedClosed, HoldersOwn, PlacesOK, Serving
  <2> QED
    BY <2>1, <2>2, <2>3, <2>4, <2>5, <2>6
<1> QED
  BY <1>1, <1>2, <1>3 DEF ReceiveAck, EnterStage, FanOut

\* ReceiveDecision preserves the inductive invariant.
LEMMA ReceiveDecisionInv ==
    ASSUME Inv, NEW l \in Links, ReceiveDecision(l)
    PROVE  Inv'
<1> USE DEF Inv, Daemons, ArbTypeOK
<1>1. CASE /\ incoming["foll"][l] # <<>>
            /\ incoming' = [incoming EXCEPT !["foll"][l] = Tail(@)]
            /\ ~active["foll"]
            /\ stage' = [stage EXCEPT !["foll"][l] = "sendAcceptAck"]
            /\ active' = [active EXCEPT !["foll"] = TRUE]
            /\ owns' = [owns EXCEPT !["foll"] = @ \cup {l}]
  <2>1. ArbTypeOK'
    <3>1. /\ incoming' \in [Daemons -> [Links -> Seq(Decisions)]]
          /\ \A e \in Daemons, m \in Links : Len(incoming'[e][m]) <= 1
      BY <1>1 DEF Decisions
    <3>2. stage' \in [Daemons -> [Links -> Stages]]
      BY <1>1 DEF Stages, Deciding
    <3> QED
      BY <1>1, <3>1, <3>2 DEF ReceiveDecision
  <2>2. LeaseAccounting'
    <3>1. owns["foll"] = {} /\ owns'["foll"] = {l} /\ active'["foll"]
      BY <1>1 DEF LeaseAccounting
    <3>2. /\ owns'["auth"] = owns["auth"] /\ active'["auth"] = active["auth"]
          /\ stage'["auth"] = stage["auth"] /\ stage'["foll"][l] \notin {"idle", "done"}
      BY <1>1
    <3>3. \A m \in owns'["auth"] : stage'["auth"][m] \notin {"idle", "done"}
      BY <3>2 DEF LeaseAccounting
    <3>4. /\ active'["auth"] <=> owns'["auth"] # {}
          /\ \A m, n \in owns'["auth"] : m = n
      BY <3>2, Zenon DEF LeaseAccounting
    <3>5. /\ active'["foll"] <=> owns'["foll"] # {}
          /\ \A m, n \in owns'["foll"] : m = n
          /\ \A m \in owns'["foll"] : stage'["foll"][m] \notin {"idle", "done"}
      BY <3>1, <3>2
    <3> QED
      BY <3>3, <3>4, <3>5, Zenon DEF LeaseAccounting
  <2>3. HoldersOwn'
    BY <1>1 DEF ReceiveDecision, HoldersOwn, LeaseAccounting, Holding, Serving, PlacesOK
  <2>4. PlacesOK'
    BY <1>1 DEF ReceiveDecision, PlacesOK, InFlight
  <2>5. InFlight'
    BY <1>1 DEF ReceiveDecision, InFlight, PlacesOK, HoldersOwn, Committed, Serving, Decisions
  <2>6. EndedClosed'
    BY <1>1 DEF ReceiveDecision, EndedClosed, HoldersOwn, PlacesOK, Serving
  <2> QED
    BY <2>1, <2>2, <2>3, <2>4, <2>5, <2>6
<1>2. CASE /\ incoming["foll"][l] # <<>>
            /\ incoming' = [incoming EXCEPT !["foll"][l] = Tail(@)]
            /\ stage' = [stage EXCEPT !["foll"][l] = "sendRejectAck"]
            /\ UNCHANGED <<active, owns>>
  <2>1. ArbTypeOK'
    <3>1. /\ incoming' \in [Daemons -> [Links -> Seq(Decisions)]]
          /\ \A e \in Daemons, m \in Links : Len(incoming'[e][m]) <= 1
      BY <1>2 DEF Decisions
    <3>2. stage' \in [Daemons -> [Links -> Stages]]
      BY <1>2 DEF Stages, Deciding
    <3> QED
      BY <1>2, <3>1, <3>2 DEF ReceiveDecision
  <2>2. LeaseAccounting'
    BY <1>2 DEF ReceiveDecision, LeaseAccounting, HoldersOwn, Holding
  <2>3. HoldersOwn'
    BY <1>2 DEF ReceiveDecision, HoldersOwn, LeaseAccounting, Holding, Serving, PlacesOK
  <2>4. PlacesOK'
    BY <1>2 DEF ReceiveDecision, PlacesOK, InFlight
  <2>5. InFlight'
    BY <1>2 DEF ReceiveDecision, InFlight, PlacesOK, HoldersOwn, Committed, Serving, Decisions
  <2>6. EndedClosed'
    BY <1>2 DEF ReceiveDecision, EndedClosed, HoldersOwn, PlacesOK, Serving
  <2> QED
    BY <2>1, <2>2, <2>3, <2>4, <2>5, <2>6
<1>3. CASE /\ incoming["foll"][l] # <<>>
            /\ incoming' = [incoming EXCEPT !["foll"][l] = Tail(@)]
            /\ stage' = [stage EXCEPT !["foll"][l] = "closing"]
            /\ UNCHANGED <<active, owns>>
  <2>1. ArbTypeOK'
    <3>1. /\ incoming' \in [Daemons -> [Links -> Seq(Decisions)]]
          /\ \A e \in Daemons, m \in Links : Len(incoming'[e][m]) <= 1
      BY <1>3 DEF Decisions
    <3>2. stage' \in [Daemons -> [Links -> Stages]]
      BY <1>3 DEF Stages, Deciding
    <3> QED
      BY <1>3, <3>1, <3>2 DEF ReceiveDecision
  <2>2. LeaseAccounting'
    BY <1>3 DEF ReceiveDecision, LeaseAccounting, HoldersOwn, Holding
  <2>3. HoldersOwn'
    BY <1>3 DEF ReceiveDecision, HoldersOwn, LeaseAccounting, Holding, Serving, PlacesOK
  <2>4. PlacesOK'
    BY <1>3 DEF ReceiveDecision, PlacesOK, InFlight
  <2>5. InFlight'
    BY <1>3 DEF ReceiveDecision, InFlight, PlacesOK, HoldersOwn, Committed, Serving, Decisions
  <2>6. EndedClosed'
    BY <1>3 DEF ReceiveDecision, EndedClosed, HoldersOwn, PlacesOK, Serving
  <2> QED
    BY <2>1, <2>2, <2>3, <2>4, <2>5, <2>6
<1>4. CASE /\ stage' = [stage EXCEPT !["foll"][l] = "closing"]
            /\ UNCHANGED <<incoming, active, owns>>
  <2>1. ArbTypeOK'
    BY <1>4 DEF ReceiveDecision, InFlight, PlacesOK, Stages, Deciding, Serving, Decisions
  <2>2. LeaseAccounting'
    BY <1>4 DEF ReceiveDecision, LeaseAccounting, HoldersOwn, Holding
  <2>3. HoldersOwn'
    BY <1>4 DEF ReceiveDecision, HoldersOwn, LeaseAccounting, Holding, Serving, PlacesOK
  <2>4. PlacesOK'
    BY <1>4 DEF ReceiveDecision, PlacesOK, InFlight
  <2>5. InFlight'
    BY <1>4 DEF ReceiveDecision, InFlight, PlacesOK, HoldersOwn, Committed, Serving, Decisions
  <2>6. EndedClosed'
    BY <1>4 DEF ReceiveDecision, EndedClosed, HoldersOwn, PlacesOK, Serving
  <2> QED
    BY <2>1, <2>2, <2>3, <2>4, <2>5, <2>6
<1> QED
  BY <1>1, <1>2, <1>3, <1>4 DEF ReceiveDecision, EnterStage, TryAcquire

\* SendAck preserves the inductive invariant.
LEMMA SendAckInv ==
    ASSUME Inv, NEW l \in Links, SendAck(l)
    PROVE  Inv'
<1> USE DEF Inv, Daemons, ArbTypeOK
<1>1. CASE /\ stage["foll"][l] = "sendAcceptAck" /\ open[l]
            /\ incoming' = [incoming EXCEPT !["auth"][l] = Append(@, "AcceptAck")]
            /\ stage' = [stage EXCEPT !["foll"][l] = "fanOut"]
  <2>1. ArbTypeOK'
    <3>1. incoming["auth"][l] = <<>>
      BY <1>1 DEF InFlight
    <3>2. /\ incoming' \in [Daemons -> [Links -> Seq(Decisions)]]
          /\ \A e \in Daemons, m \in Links : Len(incoming'[e][m]) <= 1
      BY <1>1, <3>1 DEF Decisions
    <3>3. stage' \in [Daemons -> [Links -> Stages]]
      BY <1>1 DEF Stages, Deciding
    <3> QED
      BY <1>1, <3>2, <3>3 DEF SendAck
  <2>2. LeaseAccounting'
    BY <1>1 DEF SendAck, LeaseAccounting, HoldersOwn, Holding
  <2>3. HoldersOwn'
    BY <1>1 DEF SendAck, HoldersOwn, LeaseAccounting, Holding, Serving, PlacesOK
  <2>4. PlacesOK'
    BY <1>1 DEF SendAck, PlacesOK
  <2>5. InFlight'
    BY <1>1 DEF SendAck, InFlight, PlacesOK, HoldersOwn, Committed, Serving, Decisions
  <2>6. EndedClosed'
    BY <1>1 DEF SendAck, EndedClosed, HoldersOwn, PlacesOK, Serving
  <2> QED
    BY <2>1, <2>2, <2>3, <2>4, <2>5, <2>6
<1>2. CASE /\ stage["foll"][l] = "sendAcceptAck" /\ UNCHANGED incoming
            /\ stage' = [stage EXCEPT !["foll"][l] = "closing"]
  <2>1. ArbTypeOK'
    BY <1>2 DEF SendAck, InFlight, PlacesOK, Stages, Deciding, Serving, Decisions
  <2>2. LeaseAccounting'
    BY <1>2 DEF SendAck, LeaseAccounting, HoldersOwn, Holding
  <2>3. HoldersOwn'
    BY <1>2 DEF SendAck, HoldersOwn, LeaseAccounting, Holding, Serving, PlacesOK
  <2>4. PlacesOK'
    BY <1>2 DEF SendAck, PlacesOK
  <2>5. InFlight'
    BY <1>2 DEF SendAck, InFlight, PlacesOK, HoldersOwn, Committed, Serving, Decisions
  <2>6. EndedClosed'
    BY <1>2 DEF SendAck, EndedClosed, HoldersOwn, PlacesOK, Serving
  <2> QED
    BY <2>1, <2>2, <2>3, <2>4, <2>5, <2>6
<1>3. CASE /\ stage["foll"][l] = "sendRejectAck" /\ open[l]
            /\ incoming' = [incoming EXCEPT !["auth"][l] = Append(@, "RejectAck")]
            /\ stage' = [stage EXCEPT !["foll"][l] = "closing"]
  <2>1. ArbTypeOK'
    <3>1. incoming["auth"][l] = <<>>
      BY <1>3 DEF InFlight
    <3>2. /\ incoming' \in [Daemons -> [Links -> Seq(Decisions)]]
          /\ \A e \in Daemons, m \in Links : Len(incoming'[e][m]) <= 1
      BY <1>3, <3>1 DEF Decisions
    <3>3. stage' \in [Daemons -> [Links -> Stages]]
      BY <1>3 DEF Stages, Deciding
    <3> QED
      BY <1>3, <3>2, <3>3 DEF SendAck
  <2>2. LeaseAccounting'
    BY <1>3 DEF SendAck, LeaseAccounting, HoldersOwn, Holding
  <2>3. HoldersOwn'
    BY <1>3 DEF SendAck, HoldersOwn, LeaseAccounting, Holding, Serving, PlacesOK
  <2>4. PlacesOK'
    BY <1>3 DEF SendAck, PlacesOK
  <2>5. InFlight'
    BY <1>3 DEF SendAck, InFlight, PlacesOK, HoldersOwn, Committed, Serving, Decisions
  <2>6. EndedClosed'
    BY <1>3 DEF SendAck, EndedClosed, HoldersOwn, PlacesOK, Serving
  <2> QED
    BY <2>1, <2>2, <2>3, <2>4, <2>5, <2>6
<1>4. CASE /\ stage["foll"][l] = "sendRejectAck" /\ UNCHANGED incoming
            /\ stage' = [stage EXCEPT !["foll"][l] = "closing"]
  <2>1. ArbTypeOK'
    BY <1>4 DEF SendAck, InFlight, PlacesOK, Stages, Deciding, Serving, Decisions
  <2>2. LeaseAccounting'
    BY <1>4 DEF SendAck, LeaseAccounting, HoldersOwn, Holding
  <2>3. HoldersOwn'
    BY <1>4 DEF SendAck, HoldersOwn, LeaseAccounting, Holding, Serving, PlacesOK
  <2>4. PlacesOK'
    BY <1>4 DEF SendAck, PlacesOK
  <2>5. InFlight'
    BY <1>4 DEF SendAck, InFlight, PlacesOK, HoldersOwn, Committed, Serving, Decisions
  <2>6. EndedClosed'
    BY <1>4 DEF SendAck, EndedClosed, HoldersOwn, PlacesOK, Serving
  <2> QED
    BY <2>1, <2>2, <2>3, <2>4, <2>5, <2>6
<1> QED
  BY <1>1, <1>2, <1>3, <1>4 DEF SendAck, EnterStage, SendTo, OtherEnd

\* FollowerFansOut preserves the inductive invariant.
LEMMA FollowerFansOutInv ==
    ASSUME Inv, NEW l \in Links, FollowerFansOut(l)
    PROVE  Inv'
<1> USE DEF Inv, Daemons, ArbTypeOK
<1>1. ArbTypeOK'
  BY DEF FollowerFansOut, EnterStage, FanOut, InFlight, PlacesOK, Stages, Deciding, Serving, Decisions
<1>2. LeaseAccounting'
  BY DEF FollowerFansOut, EnterStage, FanOut, LeaseAccounting, HoldersOwn, Holding
<1>3. HoldersOwn'
  BY DEF FollowerFansOut, EnterStage, FanOut, HoldersOwn, LeaseAccounting, Holding, Serving, PlacesOK
<1>4. PlacesOK'
  BY DEF FollowerFansOut, EnterStage, FanOut, PlacesOK
<1>5. InFlight'
  BY DEF FollowerFansOut, EnterStage, FanOut, InFlight, PlacesOK, HoldersOwn, Committed, Serving, Decisions
<1>6. EndedClosed'
  BY DEF FollowerFansOut, EnterStage, FanOut, EndedClosed, HoldersOwn, PlacesOK, Serving
<1> QED
  BY <1>1, <1>2, <1>3, <1>4, <1>5, <1>6

\* Establish preserves the inductive invariant.
LEMMA EstablishInv ==
    ASSUME Inv, NEW l \in Links, Establish(l)
    PROVE  Inv'
<1> USE DEF Inv, Daemons, ArbTypeOK
<1>1. ArbTypeOK'
  BY DEF Establish, InFlight, PlacesOK, Stages, Deciding, Serving, Decisions
<1>2. LeaseAccounting'
  BY DEF Establish, LeaseAccounting, HoldersOwn, Holding
<1>3. HoldersOwn'
  BY DEF Establish, HoldersOwn, LeaseAccounting, Holding, Serving, PlacesOK
<1>4. PlacesOK'
  BY DEF Establish, PlacesOK, HoldersOwn, Serving
<1>5. InFlight'
  BY DEF Establish, InFlight, PlacesOK, HoldersOwn, Committed, Serving, Decisions
<1>6. EndedClosed'
  <2>1. stage["auth"][l] = "idle" /\ stage["foll"][l] = "idle"
    BY DEF Establish, PlacesOK
  <2>2. \A d \in Daemons : ~lanesDone[d][l] /\ stage'[d][l] # "done"
    BY <2>1 DEF Establish, HoldersOwn, Serving
  <2>3. \A m \in Links \ {l} : open'[m] = open[m] /\ \A d \in Daemons : stage'[d][m] = stage[d][m]
    BY DEF Establish
  <2> QED
    BY <2>2, <2>3 DEF Establish, EndedClosed
<1> QED
  BY <1>1, <1>2, <1>3, <1>4, <1>5, <1>6

\* LinkBreak preserves the inductive invariant.
LEMMA LinkBreakInv ==
    ASSUME Inv, NEW l \in Links, LinkBreak(l)
    PROVE  Inv'
<1> USE DEF Inv, Daemons, ArbTypeOK
<1>1. ArbTypeOK'
  <2>1. PICK e \in Daemons, n \in 0 .. 1 :
            n <= Len(incoming[e][l]) /\ incoming' = [incoming EXCEPT ![e][l] = SubSeq(@, 1, n)]
    BY DEF LinkBreak
  <2>2. SubSeq(incoming[e][l], 1, n) \in Seq(Decisions) /\ Len(SubSeq(incoming[e][l], 1, n)) <= 1
    BY <2>1
  <2>3. /\ incoming' \in [Daemons -> [Links -> Seq(Decisions)]]
        /\ \A f \in Daemons, m \in Links : Len(incoming'[f][m]) <= 1
    BY <2>1, <2>2
  <2> QED
    BY <2>3 DEF LinkBreak
<1>2. LeaseAccounting'
  BY DEF LinkBreak, LeaseAccounting, HoldersOwn, Holding
<1>3. HoldersOwn'
  BY DEF LinkBreak, HoldersOwn, LeaseAccounting, Holding, Serving, PlacesOK
<1>4. PlacesOK'
  BY DEF LinkBreak, PlacesOK
<1>5. InFlight'
  BY DEF LinkBreak, InFlight, PlacesOK, HoldersOwn, Committed, Serving, Decisions
<1>6. EndedClosed'
  BY DEF LinkBreak, EndedClosed, HoldersOwn, PlacesOK, Serving
<1> QED
  BY <1>1, <1>2, <1>3, <1>4, <1>5, <1>6

\* CloseRejected preserves the inductive invariant.
LEMMA CloseRejectedInv ==
    ASSUME Inv, NEW d \in Daemons, NEW l \in Links, CloseRejected(d, l)
    PROVE  Inv'
<1> USE DEF Inv, Daemons, ArbTypeOK
<1>1. CASE /\ l \in owns[d]
            /\ stage' = [stage EXCEPT ![d][l] = "done"]
            /\ active' = [active EXCEPT ![d] = FALSE]
            /\ owns' = [owns EXCEPT ![d] = @ \ {l}]
  <2>1. ArbTypeOK'
    BY <1>1 DEF CloseRejected, InFlight, PlacesOK, Stages, Deciding, Serving, Decisions
  <2>2. LeaseAccounting'
    BY <1>1 DEF CloseRejected, LeaseAccounting, HoldersOwn, Holding
  <2>3. HoldersOwn'
    BY <1>1 DEF CloseRejected, HoldersOwn, LeaseAccounting, Holding, Serving, PlacesOK
  <2>4. PlacesOK'
    BY <1>1 DEF CloseRejected, PlacesOK
  <2>5. InFlight'
    BY <1>1 DEF CloseRejected, InFlight, PlacesOK, HoldersOwn, Committed, Serving, Decisions
  <2>6. EndedClosed'
    BY <1>1 DEF CloseRejected, EndedClosed, HoldersOwn, PlacesOK, Serving
  <2> QED
    BY <2>1, <2>2, <2>3, <2>4, <2>5, <2>6
<1>2. CASE /\ l \notin owns[d] /\ stage' = [stage EXCEPT ![d][l] = "done"]
            /\ UNCHANGED <<active, owns>>
  <2>1. ArbTypeOK'
    BY <1>2 DEF CloseRejected, InFlight, PlacesOK, Stages, Deciding, Serving, Decisions
  <2>2. LeaseAccounting'
    BY <1>2 DEF CloseRejected, LeaseAccounting, HoldersOwn, Holding
  <2>3. HoldersOwn'
    BY <1>2 DEF CloseRejected, HoldersOwn, LeaseAccounting, Holding, Serving, PlacesOK
  <2>4. PlacesOK'
    BY <1>2 DEF CloseRejected, PlacesOK
  <2>5. InFlight'
    BY <1>2 DEF CloseRejected, InFlight, PlacesOK, HoldersOwn, Committed, Serving, Decisions
  <2>6. EndedClosed'
    BY <1>2 DEF CloseRejected, EndedClosed, HoldersOwn, PlacesOK, Serving
  <2> QED
    BY <2>1, <2>2, <2>3, <2>4, <2>5, <2>6
<1> QED
  BY <1>1, <1>2 DEF CloseRejected, EnterStage, DropLease

\* MonitorSignals preserves the inductive invariant.
LEMMA MonitorSignalsInv ==
    ASSUME Inv, NEW d \in Daemons, NEW l \in Links, MonitorSignals(d, l)
    PROVE  Inv'
<1> USE DEF Inv, Daemons, ArbTypeOK
<1>1. ArbTypeOK'
  BY DEF MonitorSignals, InFlight, PlacesOK, Stages, Deciding, Serving, Decisions
<1>2. LeaseAccounting'
  BY DEF MonitorSignals, LeaseAccounting, HoldersOwn, Holding
<1>3. HoldersOwn'
  BY DEF MonitorSignals, HoldersOwn, LeaseAccounting, Holding, Serving, PlacesOK
<1>4. PlacesOK'
  BY DEF MonitorSignals, PlacesOK
<1>5. InFlight'
  BY DEF MonitorSignals, InFlight, PlacesOK, HoldersOwn, Committed, Serving, Decisions
<1>6. EndedClosed'
  BY DEF MonitorSignals, EndedClosed, HoldersOwn, PlacesOK, Serving
<1> QED
  BY <1>1, <1>2, <1>3, <1>4, <1>5, <1>6

\* RouterEnds preserves the inductive invariant.
LEMMA RouterEndsInv ==
    ASSUME Inv, NEW d \in Daemons, NEW l \in Links, RouterEnds(d, l)
    PROVE  Inv'
<1> USE DEF Inv, Daemons, ArbTypeOK
<1>1. CASE /\ open' \in {open, [open EXCEPT ![l] = FALSE]}
            /\ stage' = [stage EXCEPT ![d][l] = "ending"]
            /\ UNCHANGED <<active, owns>>
  <2>1. ArbTypeOK'
    BY <1>1 DEF RouterEnds, InFlight, PlacesOK, Stages, Deciding, Serving, Decisions
  <2>2. LeaseAccounting'
    BY <1>1 DEF RouterEnds, LeaseAccounting, HoldersOwn, Holding
  <2>3. HoldersOwn'
    BY <1>1 DEF RouterEnds, HoldersOwn, LeaseAccounting, Holding, Serving, PlacesOK
  <2>4. PlacesOK'
    BY <1>1 DEF RouterEnds, PlacesOK
  <2>5. InFlight'
    BY <1>1 DEF RouterEnds, InFlight, PlacesOK, HoldersOwn, Committed, Serving, Decisions
  <2>6. EndedClosed'
    BY <1>1 DEF RouterEnds, EndedClosed, HoldersOwn, PlacesOK, Serving
  <2> QED
    BY <2>1, <2>2, <2>3, <2>4, <2>5, <2>6
<1>2. CASE /\ lanesDone[d][l] /\ l \in owns[d]
            /\ stage' = [stage EXCEPT ![d][l] = "done"]
            /\ active' = [active EXCEPT ![d] = FALSE]
            /\ owns' = [owns EXCEPT ![d] = @ \ {l}]
            /\ UNCHANGED open
  <2>1. ArbTypeOK'
    BY <1>2 DEF RouterEnds, InFlight, PlacesOK, Stages, Deciding, Serving, Decisions
  <2>2. LeaseAccounting'
    BY <1>2 DEF RouterEnds, LeaseAccounting, HoldersOwn, Holding
  <2>3. HoldersOwn'
    BY <1>2 DEF RouterEnds, HoldersOwn, LeaseAccounting, Holding, Serving, PlacesOK
  <2>4. PlacesOK'
    BY <1>2 DEF RouterEnds, PlacesOK
  <2>5. InFlight'
    BY <1>2 DEF RouterEnds, InFlight, PlacesOK, HoldersOwn, Committed, Serving, Decisions
  <2>6. EndedClosed'
    BY <1>2 DEF RouterEnds, EndedClosed, HoldersOwn, PlacesOK, Serving
  <2> QED
    BY <2>1, <2>2, <2>3, <2>4, <2>5, <2>6
<1> QED
  BY <1>1, <1>2 DEF RouterEnds, EnterStage, DropLease, HoldersOwn, Holding

\* ShutdownDeadline preserves the inductive invariant.
LEMMA ShutdownDeadlineInv ==
    ASSUME Inv, NEW d \in Daemons, NEW l \in Links, ShutdownDeadline(d, l)
    PROVE  Inv'
<1> USE DEF Inv, Daemons, ArbTypeOK
<1>1. ArbTypeOK'
  BY DEF ShutdownDeadline, EnterStage, InFlight, PlacesOK, Stages, Deciding, Serving, Decisions
<1>2. LeaseAccounting'
  BY DEF ShutdownDeadline, EnterStage, LeaseAccounting, HoldersOwn, Holding
<1>3. HoldersOwn'
  BY DEF ShutdownDeadline, EnterStage, HoldersOwn, LeaseAccounting, Holding, Serving, PlacesOK
<1>4. PlacesOK'
  BY DEF ShutdownDeadline, EnterStage, PlacesOK
<1>5. InFlight'
  BY DEF ShutdownDeadline, EnterStage, InFlight, PlacesOK, HoldersOwn, Committed, Serving, Decisions
<1>6. EndedClosed'
  BY DEF ShutdownDeadline, EnterStage, EndedClosed, HoldersOwn, PlacesOK, Serving
<1> QED
  BY <1>1, <1>2, <1>3, <1>4, <1>5, <1>6

\* ReleaseLease preserves the inductive invariant.
LEMMA ReleaseLeaseInv ==
    ASSUME Inv, NEW d \in Daemons, NEW l \in Links, ReleaseLease(d, l)
    PROVE  Inv'
<1> USE DEF Inv, Daemons, ArbTypeOK
<1>1. CASE /\ l \in owns[d]
            /\ stage' = [stage EXCEPT ![d][l] = "done"]
            /\ active' = [active EXCEPT ![d] = FALSE]
            /\ owns' = [owns EXCEPT ![d] = @ \ {l}]
  <2>1. ArbTypeOK'
    BY <1>1 DEF ReleaseLease, InFlight, PlacesOK, Stages, Deciding, Serving, Decisions
  <2>2. LeaseAccounting'
    BY <1>1 DEF ReleaseLease, LeaseAccounting, HoldersOwn, Holding
  <2>3. HoldersOwn'
    BY <1>1 DEF ReleaseLease, HoldersOwn, LeaseAccounting, Holding, Serving, PlacesOK
  <2>4. PlacesOK'
    BY <1>1 DEF ReleaseLease, PlacesOK
  <2>5. InFlight'
    BY <1>1 DEF ReleaseLease, InFlight, PlacesOK, HoldersOwn, Committed, Serving, Decisions
  <2>6. EndedClosed'
    BY <1>1 DEF ReleaseLease, EndedClosed, HoldersOwn, PlacesOK, Serving
  <2> QED
    BY <2>1, <2>2, <2>3, <2>4, <2>5, <2>6
<1>2. CASE /\ l \notin owns[d] /\ stage' = [stage EXCEPT ![d][l] = "done"]
            /\ UNCHANGED <<active, owns>>
  <2>1. ArbTypeOK'
    BY <1>2 DEF ReleaseLease, InFlight, PlacesOK, Stages, Deciding, Serving, Decisions
  <2>2. LeaseAccounting'
    BY <1>2 DEF ReleaseLease, LeaseAccounting, HoldersOwn, Holding
  <2>3. HoldersOwn'
    BY <1>2 DEF ReleaseLease, HoldersOwn, LeaseAccounting, Holding, Serving, PlacesOK
  <2>4. PlacesOK'
    BY <1>2 DEF ReleaseLease, PlacesOK
  <2>5. InFlight'
    BY <1>2 DEF ReleaseLease, InFlight, PlacesOK, HoldersOwn, Committed, Serving, Decisions
  <2>6. EndedClosed'
    BY <1>2 DEF ReleaseLease, EndedClosed, HoldersOwn, PlacesOK, Serving
  <2> QED
    BY <2>1, <2>2, <2>3, <2>4, <2>5, <2>6
<1> QED
  BY <1>1, <1>2 DEF ReleaseLease, EnterStage, DropLease

\* LaneCloses preserves the inductive invariant.
LEMMA LaneClosesInv ==
    ASSUME Inv, NEW d \in Daemons, NEW l \in Links, LaneCloses(d, l)
    PROVE  Inv'
<1> USE DEF Inv, Daemons, ArbTypeOK
<1>1. ArbTypeOK'
  BY DEF LaneCloses, InFlight, PlacesOK, Stages, Deciding, Serving, Decisions
<1>2. LeaseAccounting'
  BY DEF LaneCloses, LeaseAccounting, HoldersOwn, Holding
<1>3. HoldersOwn'
  BY DEF LaneCloses, HoldersOwn, LeaseAccounting, Holding, Serving, PlacesOK
<1>4. PlacesOK'
  BY DEF LaneCloses, PlacesOK
<1>5. InFlight'
  BY DEF LaneCloses, InFlight, PlacesOK, HoldersOwn, Committed, Serving, Decisions
<1>6. EndedClosed'
  BY DEF LaneCloses, EndedClosed, HoldersOwn, PlacesOK, Serving
<1> QED
  BY <1>1, <1>2, <1>3, <1>4, <1>5, <1>6

\* LaneStops preserves the inductive invariant.
LEMMA LaneStopsInv ==
    ASSUME Inv, NEW d \in Daemons, NEW l \in Links, NEW x \in Lanes, LaneStops(d, l, x)
    PROVE  Inv'
<1> USE DEF Inv, Daemons, ArbTypeOK
<1>1. ArbTypeOK'
  BY DEF LaneStops, InFlight, PlacesOK, Stages, Deciding, Serving, Decisions
<1>2. LeaseAccounting'
  BY DEF LaneStops, LeaseAccounting, HoldersOwn, Holding
<1>3. HoldersOwn'
  BY DEF LaneStops, HoldersOwn, LeaseAccounting, Holding, Serving, PlacesOK
<1>4. PlacesOK'
  BY DEF LaneStops, PlacesOK
<1>5. InFlight'
  BY DEF LaneStops, InFlight, PlacesOK, HoldersOwn, Committed, Serving, Decisions
<1>6. EndedClosed'
  BY DEF LaneStops, EndedClosed, HoldersOwn, PlacesOK, Serving
<1> QED
  BY <1>1, <1>2, <1>3, <1>4, <1>5, <1>6

\* Every step preserves the inductive invariant.
LEMMA NextInv == Inv /\ [ArbNext]_arbVars => Inv'
<1> SUFFICES ASSUME Inv, [ArbNext]_arbVars PROVE Inv'
  OBVIOUS
<1>1. CASE UNCHANGED arbVars
  BY <1>1 DEF arbVars, Inv, ArbTypeOK, LeaseAccounting, HoldersOwn, PlacesOK, InFlight,
              EndedClosed, Committed
<1>2. ASSUME NEW l \in Links, Arbitrate(l) PROVE Inv'
  BY <1>2, FallbackExpiresInv, DecideInv, SendDecisionInv, ReceiveAckInv,
     ReceiveDecisionInv, SendAckInv, FollowerFansOutInv, CloseRejectedInv
     DEF Arbitrate
<1>3. ASSUME NEW l \in Links, NEW d \in Daemons, Serve(d, l) PROVE Inv'
  BY <1>3, MonitorSignalsInv, RouterEndsInv, ShutdownDeadlineInv, ReleaseLeaseInv
     DEF Serve
<1>4. ASSUME NEW l \in Links, NetworkStep(l) PROVE Inv'
  BY <1>4, EstablishInv, LinkBreakInv, LaneClosesInv, LaneStopsInv DEF NetworkStep
<1> QED
  BY <1>1, <1>2, <1>3, <1>4 DEF ArbNext

\* The invariant holds initially.
LEMMA InitInv == ArbInit => Inv
<1> SUFFICES ASSUME ArbInit PROVE Inv
  OBVIOUS
<1> USE DEF ArbInit, Daemons
<1>1. ArbTypeOK
  BY DEF ArbTypeOK, Stages
<1>2. LeaseAccounting
  BY DEF LeaseAccounting
<1>3. HoldersOwn /\ PlacesOK /\ InFlight /\ EndedClosed
  BY DEF HoldersOwn, Holding, Serving, PlacesOK, InFlight, EndedClosed
<1> QED
  BY <1>1, <1>2, <1>3 DEF Inv

\* The inductive invariant holds in every reachable state.
THEOREM InvCorrect == ArbSpec => []Inv
  BY InitInv, NextInv, PTL DEF ArbSpec

\* Every variable keeps its type, and at most one decision is ever in flight to a
\* daemon on a link, however many links are established.
THEOREM ArbitrationTypeCorrect == ArbSpec => []ArbTypeOK
  BY InvCorrect, PTL DEF Inv

\* The active-peer mark of a SessionArbiter is set exactly while one task holds
\* the lease: SessionLease::drop never removes the mark of another task, and no
\* path of arbitrate_and_fan_out or route_inbound leaks it.
THEOREM LeaseSafe == ArbSpec => []LeaseAccounting
  BY InvCorrect, PTL DEF Inv

\* Runtime lanes of two sessions with the same peer are never alive together,
\* although route_inbound stops waiting for them after a deadline.
THEOREM LanesSafe == ArbSpec => []LanesOfOneSession
<1>1. Inv => LanesOfOneSession
  BY DEF Inv, HoldersOwn, LeaseAccounting, LanesOfOneSession, Holding, Serving
<1> QED
  BY <1>1, InvCorrect, PTL

\* The two daemons never run sessions over different live links.
THEOREM SameLinkSafe == ArbSpec => []SameLiveLink
<1>1. ASSUME Inv PROVE SameLiveLink
  <2> SUFFICES ASSUME NEW l \in Links, NEW m \in Links,
                      stage["auth"][l] = "routing", open[l],
                      stage["foll"][m] = "routing", l # m
               PROVE  FALSE
    BY DEF SameLiveLink
  <2>1. m \in owns["foll"] /\ l \notin owns["foll"]
    BY <1>1 DEF Inv, HoldersOwn, Holding, LeaseAccounting, Daemons
  <2>2. stage["foll"][l] \notin Holding
    BY <1>1, <2>1 DEF Inv, HoldersOwn, Daemons
  <2>3. l \in Committed
    BY <1>1 DEF Inv, InFlight, HoldersOwn, Serving, Daemons
  <2>4. stage["foll"][l] = "done"
    BY <1>1, <2>2, <2>3 DEF Inv, HoldersOwn, Committed, Serving, Holding, Daemons
  <2> QED
    BY <1>1, <2>4 DEF Inv, EndedClosed, Daemons
<1> QED
  BY <1>1, InvCorrect, PTL

\* A task that is about to serve a link finds no lanes alive.
LEMMA NothingServed ==
    ASSUME Inv, NEW d \in Daemons, NEW l \in Links,
           stage[d][l] \in {"ack", "sendAcceptAck", "fanOut"}
    PROVE  ServedLinks[d] = {} /\ l \notin fanned[d]
<1>1. l \in owns[d] /\ l \notin fanned[d] /\ lanes[d][l] = {}
  BY DEF Inv, HoldersOwn, Holding, Serving
<1>2. \A m \in Links : lanes[d][m] # {} => m \in owns[d]
  BY DEF Inv, HoldersOwn, Holding, Serving
<1>3. \A m \in Links : lanes[d][m] = {}
  BY <1>1, <1>2 DEF Inv, LeaseAccounting
<1> QED
  BY <1>1, <1>3 DEF ServedLinks, Daemons

\* Fanning out link l while nothing is served makes it the one served link.
LEMMA ServedChanges ==
    ASSUME lanes \in [Daemons -> [Links -> SUBSET Lanes]],
           NEW d \in Daemons, NEW l \in Links, ServedLinks[d] = {}, Lanes # {},
           lanes' = [lanes EXCEPT ![d][l] = Lanes]
    PROVE  ServedLinks' = [ServedLinks EXCEPT ![d] = {l}]
<1>1. \A m \in Links : lanes'[d][m] = IF m = l THEN Lanes ELSE lanes[d][m]
  OBVIOUS
<1>2. \A m \in Links : lanes[d][m] = {}
  BY DEF ServedLinks
<1>3. ServedLinks'[d] = {l}
  BY <1>1, <1>2 DEF ServedLinks
<1>4. \A e \in Daemons \ {d} : ServedLinks'[e] = ServedLinks[e]
  BY DEF ServedLinks
<1> QED
  BY <1>3, <1>4 DEF ServedLinks

\* The steps that neither commit, start nor stop a session leave the abstract
\* state alone.
LEMMA OtherSteps ==
    ASSUME Inv, NEW l \in Links, NEW d \in Daemons,
           \/ FallbackExpires(l) \/ Decide(l) \/ SendDecision(l) \/ ReceiveDecision(l)
           \/ CloseRejected(d, l) \/ Serve(d, l) \/ Establish(l) \/ LinkBreak(l)
           \/ LaneCloses(d, l)
    PROVE  UNCHANGED Sessions!vars
<1> USE DEF Inv, ArbTypeOK, Daemons
<1>1. lanes' = lanes /\ fanned' = fanned
  BY DEF FallbackExpires, Decide, SendDecision, ReceiveDecision, CloseRejected, Serve,
         MonitorSignals, RouterEnds, ShutdownDeadline, ReleaseLease, Establish,
         LinkBreak, LaneCloses
<1>2. \A m \in Links : stage'["foll"][m] = "fanOut" <=> stage["foll"][m] = "fanOut"
  <2>1. CASE FallbackExpires(l) \/ Establish(l)
    BY <2>1 DEF FallbackExpires, Establish, EnterStage, PlacesOK
  <2>2. CASE Decide(l)
    BY <2>2 DEF Decide, TryAcquire, EnterStage
  <2>3. CASE SendDecision(l)
    BY <2>3 DEF SendDecision, SendTo, EnterStage
  <2>4. CASE ReceiveDecision(l)
    BY <2>4 DEF ReceiveDecision, TryAcquire, EnterStage
  <2>5. CASE CloseRejected(d, l)
    BY <2>5 DEF CloseRejected, EnterStage
  <2>6. CASE Serve(d, l)
    BY <2>6 DEF Serve, MonitorSignals, RouterEnds, ShutdownDeadline, ReleaseLease, EnterStage,
                Serving
  <2>7. CASE LinkBreak(l) \/ LaneCloses(d, l)
    BY <2>7 DEF LinkBreak, LaneCloses
  <2> QED
    BY <2>1, <2>2, <2>3, <2>4, <2>5, <2>6, <2>7
<1>3. Committed' = Committed
  BY <1>1, <1>2 DEF Committed
<1> QED
  BY <1>1, <1>3 DEF Sessions!vars, ServedLinks

\* Every step of the arbitration is a step of PeerSessions or changes none of its
\* variables.
LEMMA StepSimulates ==
    ASSUME Inv, [ArbNext]_arbVars
    PROVE  [Sessions!Next]_(Sessions!vars)
<1> USE DEF Daemons
<1>1. CASE UNCHANGED arbVars
  BY <1>1 DEF arbVars, Sessions!vars, Committed, ServedLinks
<1>2. ASSUME NEW l \in Links, ReceiveAck(l) PROVE [Sessions!Next]_(Sessions!vars)
  <2>1. CASE /\ incoming["auth"][l] # <<>> /\ Head(incoming["auth"][l]) = "AcceptAck"
             /\ stage' = [stage EXCEPT !["auth"][l] = "routing"]
             /\ lanes' = [lanes EXCEPT !["auth"][l] = Lanes]
             /\ fanned' = [fanned EXCEPT !["auth"] = @ \cup {l}]
    <3>1. ServedLinks["auth"] = {} /\ l \notin fanned["auth"]
      BY <1>2, NothingServed DEF ReceiveAck
    <3>2. l \in Committed
      BY <2>1 DEF Inv, InFlight
    <3>3. Committed' = Committed
      BY <2>1 DEF Inv, ArbTypeOK, Committed
    <3>4. ServedLinks' = [ServedLinks EXCEPT !["auth"] = {l}]
      BY <2>1, <3>1, ConstantsOK, ServedChanges DEF Inv, ArbTypeOK
    <3>5. Sessions!Start("auth", l)
      BY <2>1, <3>1, <3>2, <3>3, <3>4 DEF Sessions!Start
    <3> QED
      BY <3>5 DEF Sessions!Next
  <2>2. CASE stage' = [stage EXCEPT !["auth"][l] = "closing"] /\ UNCHANGED <<lanes, fanned>>
    <3>1. Committed' = Committed
      BY <2>2 DEF Inv, ArbTypeOK, Committed
    <3> QED
      BY <2>2, <3>1 DEF Sessions!vars, ServedLinks
  <2> QED
    BY <1>2, <2>1, <2>2 DEF ReceiveAck, EnterStage, FanOut
<1>3. ASSUME NEW l \in Links, SendAck(l) PROVE [Sessions!Next]_(Sessions!vars)
  <2>0. lanes' = lanes /\ fanned' = fanned /\ ServedLinks' = ServedLinks
    BY <1>3 DEF SendAck, ServedLinks
  <2>1. CASE stage["foll"][l] = "sendAcceptAck" /\ stage' = [stage EXCEPT !["foll"][l] = "fanOut"]
    <3>1. ServedLinks["foll"] = {} /\ l \notin Committed
      BY <2>1, NothingServed DEF Committed
    <3>2. Committed' = Committed \cup {l}
      BY <2>0, <2>1 DEF Inv, ArbTypeOK, Committed
    <3>3. Sessions!Commit(l)
      BY <2>0, <3>1, <3>2 DEF Sessions!Commit
    <3> QED
      BY <3>3 DEF Sessions!Next
  <2>2. CASE /\ stage["foll"][l] \in {"sendAcceptAck", "sendRejectAck"}
             /\ stage' = [stage EXCEPT !["foll"][l] = "closing"]
    <3>1. Committed' = Committed
      BY <2>0, <2>2 DEF Inv, ArbTypeOK, Committed
    <3> QED
      BY <2>0, <3>1 DEF Sessions!vars
  <2> QED
    BY <1>3, <2>1, <2>2 DEF SendAck, SendTo, EnterStage
<1>4. ASSUME NEW l \in Links, FollowerFansOut(l) PROVE [Sessions!Next]_(Sessions!vars)
  <2>1. ServedLinks["foll"] = {} /\ l \notin fanned["foll"] /\ l \in Committed
    BY <1>4, NothingServed DEF FollowerFansOut, Committed
  <2>2. Committed' = Committed
    BY <1>4 DEF Inv, ArbTypeOK, FollowerFansOut, FanOut, EnterStage, Committed
  <2>3. ServedLinks' = [ServedLinks EXCEPT !["foll"] = {l}]
    BY <1>4, <2>1, ConstantsOK, ServedChanges DEF Inv, ArbTypeOK, FollowerFansOut, FanOut
  <2>4. Sessions!Start("foll", l)
    BY <1>4, <2>1, <2>2, <2>3 DEF Sessions!Start, FollowerFansOut, FanOut
  <2> QED
    BY <2>4 DEF Sessions!Next
<1>5. ASSUME NEW l \in Links, NEW d \in Daemons, NEW x \in Lanes, LaneStops(d, l, x)
      PROVE  [Sessions!Next]_(Sessions!vars)
  <2>1. Committed' = Committed /\ fanned' = fanned
    BY <1>5 DEF LaneStops, Committed
  <2>2. \A m \in Links : lanes[d][m] # {} => m = l
    BY <1>5 DEF Inv, LeaseAccounting, HoldersOwn, Holding, Serving, LaneStops
  <2>3. CASE lanes'[d][l] = {}
    <3>1. \A m \in Links : lanes'[d][m] = {}
      BY <1>5, <2>2, <2>3 DEF Inv, ArbTypeOK, LaneStops
    <3>2. \A e \in Daemons \ {d} : lanes'[e] = lanes[e]
      BY <1>5 DEF Inv, ArbTypeOK, LaneStops
    <3>3. ServedLinks'[d] = {} /\ \A e \in Daemons \ {d} : ServedLinks'[e] = ServedLinks[e]
      BY <3>1, <3>2 DEF ServedLinks
    <3>4. ServedLinks' = [ServedLinks EXCEPT ![d] = {}]
      BY <3>3 DEF ServedLinks
    <3>5. ServedLinks[d] # {}
      BY <1>5 DEF LaneStops, ServedLinks
    <3>6. Sessions!Stop(d)
      BY <2>1, <3>4, <3>5 DEF Sessions!Stop
    <3> QED
      BY <3>6 DEF Sessions!Next
  <2>4. CASE lanes'[d][l] # {}
    <3>1. ServedLinks' = ServedLinks
      BY <1>5, <2>4 DEF Inv, ArbTypeOK, LaneStops, ServedLinks
    <3> QED
      BY <2>1, <3>1 DEF Sessions!vars
  <2> QED
    BY <2>3, <2>4
<1> QED
  BY <1>1, <1>2, <1>3, <1>4, <1>5, OtherSteps DEF ArbNext, Arbitrate, NetworkStep

\* The arbitration implements PeerSessions: whatever links break, sends fail and
\* waits time out, each daemon serves one link at a time and each link once, and
\* the authority serves only links the follower has committed to.
THEOREM ArbitrationRefines == ArbSpec => ImplementsPeerSessions
<1>1. ArbInit => Sessions!Init
  BY DEF ArbInit, Sessions!Init, Committed, ServedLinks, Daemons
<1> QED
  BY <1>1, StepSimulates, InvCorrect, PTL DEF ArbSpec, ImplementsPeerSessions, Sessions!Spec
===============================================================================
