----------------------------- MODULE PeerSessions -----------------------------
(***************************************************************************)
(* What peer-session arbitration promises the runtime lanes.                *)
(*                                                                          *)
(* Of all the physical links two daemons establish, a daemon serves at most *)
(* one at a time and each at most once, and it serves only links that the   *)
(* follower has committed to while it served none.  Which link wins, and    *)
(* when a session ends, is left open.                                       *)
(***************************************************************************)
CONSTANTS Links, Daemons, Follower

VARIABLES
    committed, \* the links the follower has committed to
    serving,   \* serving[d]: the links whose runtime lanes are alive at d
    used       \* used[d]: the links d has served so far, the current one included

vars == <<committed, serving, used>>

Init ==
    /\ committed = {}
    /\ serving = [d \in Daemons |-> {}]
    /\ used = [d \in Daemons |-> {}]

Commit(l) ==
    /\ l \notin committed
    /\ serving[Follower] = {}
    /\ committed' = committed \cup {l}
    /\ UNCHANGED <<serving, used>>

Start(d, l) ==
    /\ l \in committed \ used[d]
    /\ serving[d] = {}
    /\ serving' = [serving EXCEPT ![d] = {l}]
    /\ used' = [used EXCEPT ![d] = @ \cup {l}]
    /\ UNCHANGED committed

Stop(d) ==
    /\ serving[d] # {}
    /\ serving' = [serving EXCEPT ![d] = {}]
    /\ UNCHANGED <<committed, used>>

Next ==
    \/ \E l \in Links : Commit(l)
    \/ \E d \in Daemons : Stop(d) \/ \E l \in Links : Start(d, l)

Spec == Init /\ [][Next]_vars
===============================================================================
