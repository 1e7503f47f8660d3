----------------------------- MODULE MCTransfers -----------------------------
(**************************************************************************)
(* Storage and delivery of FileTransfer in one state space.  A behaviour  *)
(* about storage has the constants of the cfg: users who edit sources, a  *)
(* crash, a peer that refuses, and either users who edit received files or*)
(* a busy permit.  On one about delivery both peers admit, the link breaks,*)
(* waits time out and the process crashes, but nobody touches a file; only*)
(* there is fairness assumed and delivery asked for.                      *)
(**************************************************************************)
EXTENDS MCFileTransfer

VARIABLE delivering

Busy == INSTANCE FileTransfer WITH Budget <- BusyFaults
Delivery == INSTANCE FileTransfer WITH Budget <- DeliveryFaults, Admits <- Nodes

TransfersInit ==
    /\ delivering \in BOOLEAN
    /\ IF delivering THEN Delivery!Init ELSE Init \/ Busy!Init

TransfersNext ==
    /\ \/ delivering /\ Delivery!Next
       \/ ~delivering /\ Next
    /\ UNCHANGED delivering

transfersVars == <<vars, delivering>>

TransfersSpec ==
    /\ TransfersInit /\ [][TransfersNext]_transfersVars
    /\ WF_vars(delivering /\ Delivery!Connect)
    /\ \A n \in Nodes :
         /\ WF_vars(delivering /\ Delivery!LaneStep(n))
         /\ WF_vars(delivering /\ Delivery!OtherPeerEnds(n))

\* TransferRecovers where its fairness is assumed: a transfer between peers that
\* admit each other is delivered, whatever breaks, unless a crash has left a
\* receive directory without its state file.
TransfersDelivered ==
    \/ <>[](\A t \in Nodes : delivering /\ queue[t] = "queued" => SourcesChanged(t))
    \/ \E n \in Nodes : <>[](delivering /\ Orphaned(n))
===============================================================================
