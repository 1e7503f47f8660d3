------------------------------ MODULE MCSharing ------------------------------
(***************************************************************************)
(* Connecting and sharing: finding a peer again, the arbitration of        *)
(* sessions, the pairing transaction, the channel between paired devices,  *)
(* the clipboard over it and the histories it feeds.  The parts share no   *)
(* variable; `subject` picks the one a behaviour is about.                 *)
(*                                                                         *)
(* The network of an arbitration is faulty or calm.  On the faulty one     *)
(* only the links of the cross dial are established; on the calm one every *)
(* link may be, and no link breaks, no send fails, no wait times out and   *)
(* no lane stops.                                                          *)
(***************************************************************************)
EXTENDS SessionArbitration, MCReconnect, Pairing, SecureChannel, ClipboardSync, ClipboardTimeline

CONSTANTS
    mac, win, lin, hub,   \* devices
    FaultyLinks,  \* the links established on the faulty network
    Subjects      \* the parts this run is about

ASSUME FaultyLinksOK == FaultyLinks \subseteq Links

VARIABLES subject, calm

Undisturbed == INSTANCE SessionArbitration WITH Faulty <- FALSE

MCScenarios ==
    {[dialers |-> {mac}, known |-> {}, refuse |-> TRUE, writes |-> 1, crashes |-> 1, losses |-> 1],
     [dialers |-> {mac}, known |-> {<<mac, hub>>, <<hub, mac>>}, refuse |-> FALSE, writes |-> 2, crashes |-> 0, losses |-> 1],
     [dialers |-> {mac, win}, known |-> {}, refuse |-> FALSE, writes |-> 0, crashes |-> 0, losses |-> 0]}

MCSecLanes == {<<"dialer", "input">>, <<"dialer", "files">>, <<"acceptor", "input">>}

PairOfDevices == {<<mac, win>>, <<win, mac>>}
Chain == PairOfDevices \cup {<<win, lin>>, <<lin, win>>}
Ring == Chain \cup {<<mac, lin>>, <<lin, mac>>}
OpenTopologies == {PairOfDevices, Chain}
RingTopology == {Ring}

MCSizeOf == [f \in Selections \cup TimelineItems |-> IF f = "big" THEN 3 ELSE 1]

sharingVars == <<subject, calm, MCvars, arbVars, pairVars, secVars, clipVars, historyVars, timelineVars>>

\* The parts a behaviour is not about stay in one initial state.
SharingInit ==
    /\ subject \in Subjects
    /\ calm \in BOOLEAN /\ (subject # "arbitration" => calm)
    /\ MCInit /\ (subject # "reconnect" => crowded)
    /\ ArbInit /\ PairInit /\ SecInit /\ ClipInit /\ HistoryInit /\ TimelineInit
    /\ subject # "pairing" => budget = CHOOSE s \in Scenarios : TRUE
    /\ subject # "channel" => /\ secKey = [e \in SecEnds |-> CHOOSE k \in KeyRanks : TRUE]
                              /\ pinned["acceptor"] = {} /\ major["dialer"] = 1
    /\ subject # "clipboard" => links = CHOOSE t \in Topologies : TRUE

\* Only the variables of the part `s` may move.
Only(s) ==
    /\ subject = s /\ UNCHANGED <<subject, calm>>
    /\ IF s = "reconnect" THEN TRUE ELSE UNCHANGED MCvars
    /\ IF s = "arbitration" THEN TRUE ELSE UNCHANGED arbVars
    /\ IF s = "pairing" THEN TRUE ELSE UNCHANGED pairVars
    /\ IF s = "channel" THEN TRUE ELSE UNCHANGED secVars
    /\ IF s = "clipboard" THEN TRUE ELSE UNCHANGED clipVars
    /\ IF s = "history" THEN TRUE ELSE UNCHANGED historyVars
    /\ IF s = "timeline" THEN TRUE ELSE UNCHANGED timelineVars

CalmMoves(l) == Undisturbed!Arbitrate(l) \/ \E d \in Daemons : Undisturbed!Serve(d, l)
FaultyMoves(l) == Arbitrate(l) \/ \E d \in Daemons : Serve(d, l)

SharingNext ==
    \/ Only("reconnect") /\ MCNext
    \/ Only("arbitration") /\ calm /\ \E l \in Links : CalmMoves(l) \/ Undisturbed!NetworkStep(l)
    \/ Only("arbitration") /\ ~calm /\ \E l \in FaultyLinks : FaultyMoves(l) \/ NetworkStep(l)
    \/ Only("pairing") /\ PairNext
    \/ Only("channel") /\ SecNext
    \/ Only("clipboard") /\ ClipNext
    \/ Only("history") /\ HistoryNext
    \/ Only("timeline") /\ TimelineNext

\* Fairness of SessionArbitration on each network, PairFairness and ClipFairness,
\* each on the behaviours about its part; QuietFairness says so itself, as the LAN
\* of the other behaviours is the crowded one.
OnCalmNetwork == subject = "arbitration" /\ calm
OnFaultyNetwork == subject = "arbitration" /\ ~calm
SharingFairness ==
    /\ QuietFairness
    /\ WF_arbVars(OnCalmNetwork /\ \E l \in Links : CalmMoves(l))
    /\ WF_arbVars(OnCalmNetwork /\ Undisturbed!LaneReturns)
    /\ WF_arbVars(OnFaultyNetwork /\ \E l \in FaultyLinks : FaultyMoves(l))
    /\ WF_arbVars(OnFaultyNetwork /\ LaneReturns)
    /\ \A d \in PairDevices : WF_pairVars(subject = "pairing" /\ PairStep(d))
    /\ \A s \in UNION Topologies :
         /\ WF_clipVars(subject = "clipboard" /\ s \in links /\ PollAndSend(s))
         /\ WF_clipVars(subject = "clipboard" /\ s \in links /\ ReceiveAndApply(s))
         /\ WF_clipVars(subject = "clipboard" /\ s \in links /\ Reconnected(s))

SharingSpec == SharingInit /\ [][SharingNext]_sharingVars /\ SharingFairness

\* CrossDialSettles on the calm network: dialling each other ends in one session that both
\* daemons serve, whatever arbitrate_and_fan_out interleaves over three links.
CalmDialSettles ==
    <>[](calm /\ (\E l \in Links : stage["auth"][l] # "idle")
            => fanned["auth"] \cap fanned["foll"] # {})
=============================================================================
