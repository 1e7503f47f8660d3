-------------------------- MODULE SessionArbitration --------------------------
(***************************************************************************)
(* Peer-session arbitration between two daemons that may dial each other at *)
(* the same time (apps/desktop/src/peer_session.rs).                        *)
(*                                                                          *)
(* Every authenticated physical link runs arbitrate_and_fan_out once on     *)
(* each daemon.  The daemon with the lower identity, the authority, accepts *)
(* or rejects the link; the other, the follower, acknowledges.  A daemon    *)
(* that wins fans the link out to its runtime lanes (input, clipboard, file *)
(* transfer) under a lease on the peer, which must outlive every lane.      *)
(*                                                                          *)
(* Envelope layout is abstracted to the decision an envelope carries, and   *)
(* runtime traffic to the ways it can end a session: a receive error, a     *)
(* lane overflow, a lane that has stopped.                                  *)
(***************************************************************************)
EXTENDS Naturals, Sequences

CONSTANTS
    Links,        \* physical links, each established at most once
    DialedByAuth, \* the links the authority dialled
    Lanes,        \* the registered lane handlers
    Faulty        \* whether links break, sends fail, waits time out and lanes stop

ASSUME ConstantsOK ==
    /\ DialedByAuth \subseteq Links
    /\ Lanes # {}
    /\ Faulty \in BOOLEAN

Daemons == {"auth", "foll"}
OtherEnd(d) == IF d = "auth" THEN "foll" ELSE "auth"

VARIABLES
    open,      \* open[l]: the physical link is up
    incoming,  \* incoming[d][l]: arbitration decisions in flight to d
    stage,     \* stage[d][l]: where d's task for l is
    active,    \* active[d]: the peer is in SessionArbiter.active_peers
    owns,      \* owns[d]: the links whose task holds a SessionLease
    lanes,     \* lanes[d][l]: live PeerLaneConnection handles
    lanesDone, \* lanesDone[d][l]: monitor_lane_shutdown has sent its signal
    fanned     \* fanned[d]: the links d has fanned out so far

arbVars == <<open, incoming, stage, active, owns, lanes, lanesDone, fanned>>

Deciding == {"fallback", "decide", "sendAccept", "sendReject", "ack",
             "await", "sendAcceptAck", "sendRejectAck", "fanOut"}
Serving == {"routing", "ending", "retained"}
Stages == Deciding \cup Serving \cup {"idle", "closing", "done"}
Decisions == {"Accept", "Reject", "AcceptAck", "RejectAck"}

ArbTypeOK ==
    /\ open \in [Links -> BOOLEAN]
    /\ incoming \in [Daemons -> [Links -> Seq(Decisions)]]
    /\ \A d \in Daemons, l \in Links : Len(incoming[d][l]) <= 1
    /\ stage \in [Daemons -> [Links -> Stages]]
    /\ active \in [Daemons -> BOOLEAN]
    /\ owns \in [Daemons -> SUBSET Links]
    /\ lanes \in [Daemons -> [Links -> SUBSET Lanes]]
    /\ lanesDone \in [Daemons -> [Links -> BOOLEAN]]
    /\ fanned \in [Daemons -> SUBSET Links]

ArbInit ==
    /\ open = [l \in Links |-> FALSE]
    /\ incoming = [d \in Daemons |-> [l \in Links |-> <<>>]]
    /\ stage = [d \in Daemons |-> [l \in Links |-> "idle"]]
    /\ active = [d \in Daemons |-> FALSE]
    /\ owns = [d \in Daemons |-> {}]
    /\ lanes = [d \in Daemons |-> [l \in Links |-> {}]]
    /\ lanesDone = [d \in Daemons |-> [l \in Links |-> FALSE]]
    /\ fanned = [d \in Daemons |-> {}]

(***************************************************************************)
(* Building blocks                                                          *)
(***************************************************************************)
EnterStage(d, l, place) == stage' = [stage EXCEPT ![d][l] = place]

\* Seeded faults: slips the code could contain; each breaks a property.

\* try_acquire that ignores whether the peer was already in the set.
TryAcquireAlways(d, l, won, lost) ==
    /\ EnterStage(d, l, won)
    /\ active' = [active EXCEPT ![d] = TRUE]
    /\ owns' = [owns EXCEPT ![d] = @ \cup {l}]

\* A task that loses the election removes the winner's mark.
DropLeaseAlways(d, l) ==
    /\ active' = [active EXCEPT ![d] = FALSE]
    /\ owns' = [owns EXCEPT ![d] = @ \ {l}]

\* A send that repeats the decision.
SendTwice(d, l, decision, sent) ==
    /\ open[l]
    /\ incoming' = [incoming EXCEPT ![OtherEnd(d)][l] = @ \o <<decision, decision>>]
    /\ EnterStage(d, l, sent)

\* A receive without a timeout that retries on a closed link.
ReceiveNeverFails(d, l) == FALSE

\* An authority that takes every answer for a consent.
ReceiveAnyAck(l) ==
    /\ stage["auth"][l] = "ack" /\ incoming["auth"][l] # <<>>
    /\ incoming' = [incoming EXCEPT !["auth"][l] = Tail(@)]
    /\ EnterStage("auth", l, "routing")
    /\ lanes' = [lanes EXCEPT !["auth"][l] = Lanes]
    /\ fanned' = [fanned EXCEPT !["auth"] = @ \cup {l}]
    /\ UNCHANGED <<open, active, owns, lanesDone>>

\* A router that gives up the lease when the lanes miss the deadline.
DeadlineDropsLease(d, l) ==
    /\ stage[d][l] = "ending" /\ ~lanesDone[d][l]
    /\ EnterStage(d, l, "done")
    /\ DropLeaseAlways(d, l)
    /\ UNCHANGED <<open, incoming, lanes, lanesDone, fanned>>

\* A waiter that forgets the lease instead of dropping it.
ReleaseForgetsLease(d, l) ==
    /\ stage[d][l] \in {"ending", "retained"} /\ lanesDone[d][l]
    /\ EnterStage(d, l, "done")
    /\ UNCHANGED <<open, incoming, active, owns, lanes, lanesDone, fanned>>

\* SessionArbiter::try_acquire, and what the task does in either case.
TryAcquire(d, l, won, lost) ==
    IF active[d]
       THEN EnterStage(d, l, lost) /\ UNCHANGED <<active, owns>>
       ELSE /\ EnterStage(d, l, won)
            /\ active' = [active EXCEPT ![d] = TRUE]
            /\ owns' = [owns EXCEPT ![d] = @ \cup {l}]

\* Drop for SessionLease: the peer leaves the set, whoever put it there.
DropLease(d, l) ==
    IF l \in owns[d]
       THEN /\ active' = [active EXCEPT ![d] = FALSE]
            /\ owns' = [owns EXCEPT ![d] = @ \ {l}]
       ELSE UNCHANGED <<active, owns>>

\* send_arbitration on link l: delivered, or failed before the frame was whole.
SendTo(d, l, decision, sent) ==
    \/ /\ open[l]
       /\ incoming' = [incoming EXCEPT ![OtherEnd(d)][l] = Append(@, decision)]
       /\ EnterStage(d, l, sent)
    \/ /\ Faulty \/ ~open[l]
       /\ UNCHANGED incoming
       /\ EnterStage(d, l, "closing")

\* receive_arbitration gives up: the 3 s timeout, or a link closed and drained.
ReceiveAborts(d, l) == Faulty \/ (~open[l] /\ incoming[d][l] = <<>>)

(***************************************************************************)
(* arbitrate_and_fan_out                                                    *)
(***************************************************************************)

\* Both daemons finish the secure handshake on l and start their tasks.  The
\* authority defers to its own outbound link before it decides on an inbound one.
Establish(l) ==
    /\ stage["auth"][l] = "idle"
    /\ open' = [open EXCEPT ![l] = TRUE]
    /\ stage' = [stage EXCEPT
                  !["auth"][l] = IF l \in DialedByAuth THEN "decide" ELSE "fallback",
                  !["foll"][l] = "await"]
    /\ UNCHANGED <<incoming, active, owns, lanes, lanesDone, fanned>>

FallbackExpires(l) ==
    /\ stage["auth"][l] = "fallback"
    /\ EnterStage("auth", l, "decide")
    /\ UNCHANGED <<open, incoming, active, owns, lanes, lanesDone, fanned>>

\* Seeded fault: an authority that accepts only the links it dialled.
DecideOutboundOnly(l) ==
    /\ stage["auth"][l] = "decide"
    /\ IF l \in DialedByAuth
          THEN TryAcquire("auth", l, "sendAccept", "sendReject")
          ELSE EnterStage("auth", l, "sendReject") /\ UNCHANGED <<active, owns>>
    /\ UNCHANGED <<open, incoming, lanes, lanesDone, fanned>>

Decide(l) ==
    /\ stage["auth"][l] = "decide"
    /\ TryAcquire("auth", l, "sendAccept", "sendReject")
    /\ UNCHANGED <<open, incoming, lanes, lanesDone, fanned>>

SendDecision(l) ==
    /\ \/ stage["auth"][l] = "sendAccept" /\ SendTo("auth", l, "Accept", "ack")
       \/ stage["auth"][l] = "sendReject" /\ SendTo("auth", l, "Reject", "closing")
    /\ UNCHANGED <<open, active, owns, lanes, lanesDone, fanned>>

\* fan_out_session: one handle per lane, a lane monitor and a router, with the lease.
FanOut(d, l) ==
    /\ lanes' = [lanes EXCEPT ![d][l] = Lanes]
    /\ fanned' = [fanned EXCEPT ![d] = @ \cup {l}]

ReceiveAck(l) ==
    /\ stage["auth"][l] = "ack"
    /\ \/ /\ incoming["auth"][l] # <<>>
          /\ incoming' = [incoming EXCEPT !["auth"][l] = Tail(@)]
          /\ IF Head(incoming["auth"][l]) = "AcceptAck"
                THEN EnterStage("auth", l, "routing") /\ FanOut("auth", l)
                ELSE EnterStage("auth", l, "closing") /\ UNCHANGED <<lanes, fanned>>
       \/ /\ ReceiveAborts("auth", l)
          /\ EnterStage("auth", l, "closing")
          /\ UNCHANGED <<incoming, lanes, fanned>>
    /\ UNCHANGED <<open, active, owns, lanesDone>>

ReceiveDecision(l) ==
    /\ stage["foll"][l] = "await"
    /\ \/ /\ incoming["foll"][l] # <<>>
          /\ incoming' = [incoming EXCEPT !["foll"][l] = Tail(@)]
          /\ IF Head(incoming["foll"][l]) = "Accept"
                THEN TryAcquire("foll", l, "sendAcceptAck", "sendRejectAck")
                ELSE EnterStage("foll", l, "closing") /\ UNCHANGED <<active, owns>>
       \/ /\ ReceiveAborts("foll", l)
          /\ EnterStage("foll", l, "closing")
          /\ UNCHANGED <<incoming, active, owns>>
    /\ UNCHANGED <<open, lanes, lanesDone, fanned>>

SendAck(l) ==
    /\ \/ stage["foll"][l] = "sendAcceptAck" /\ SendTo("foll", l, "AcceptAck", "fanOut")
       \/ stage["foll"][l] = "sendRejectAck" /\ SendTo("foll", l, "RejectAck", "closing")
    /\ UNCHANGED <<open, active, owns, lanes, lanesDone, fanned>>

\* The authority may already have received the acknowledgement, and acted on it.
FollowerFansOut(l) ==
    /\ stage["foll"][l] = "fanOut"
    /\ EnterStage("foll", l, "routing")
    /\ FanOut("foll", l)
    /\ UNCHANGED <<open, incoming, active, owns, lanesDone>>

\* close_rejected_session, then the task returns and drops its lease, if any.
CloseRejected(d, l) ==
    /\ stage[d][l] = "closing"
    /\ open' = [open EXCEPT ![l] = FALSE]
    /\ EnterStage(d, l, "done")
    /\ DropLease(d, l)
    /\ UNCHANGED <<incoming, lanes, lanesDone, fanned>>

(***************************************************************************)
(* The fanned-out session                                                   *)
(***************************************************************************)

\* A lane handle is dropped: after the session ended, or (Faulty) on its own.
LaneStops(d, l, x) ==
    /\ x \in lanes[d][l]
    /\ Faulty \/ stage[d][l] # "routing"
    /\ lanes' = [lanes EXCEPT ![d][l] = @ \ {x}]
    /\ UNCHANGED <<open, incoming, stage, active, owns, lanesDone, fanned>>

\* A lane closes the shared physical session (PeerLaneConnection::close).
LaneCloses(d, l) ==
    /\ Faulty /\ open[l] /\ lanes[d][l] # {}
    /\ open' = [open EXCEPT ![l] = FALSE]
    /\ UNCHANGED <<incoming, stage, active, owns, lanes, lanesDone, fanned>>

\* monitor_lane_shutdown: the last handle is gone.
MonitorSignals(d, l) ==
    /\ stage[d][l] \in Serving /\ lanes[d][l] = {} /\ ~lanesDone[d][l]
    /\ open' = [open EXCEPT ![l] = FALSE]
    /\ lanesDone' = [lanesDone EXCEPT ![d][l] = TRUE]
    /\ UNCHANGED <<incoming, stage, active, owns, lanes, fanned>>

\* route_inbound leaves its loop: the receive fails (the link is left as it is), a
\* lane overflows or has stopped (the router then closes the link), or the monitor
\* has signalled.  In the last case the lease goes with the returning task.
RouterEnds(d, l) ==
    /\ stage[d][l] = "routing"
    /\ \/ /\ ~open[l] \/ Faulty
          /\ open' \in {open, [open EXCEPT ![l] = FALSE]}
          /\ EnterStage(d, l, "ending")
          /\ UNCHANGED <<active, owns>>
       \/ /\ lanesDone[d][l]
          /\ EnterStage(d, l, "done")
          /\ DropLease(d, l)
          /\ UNCHANGED open
    /\ UNCHANGED <<incoming, lanes, lanesDone, fanned>>

\* session_end is set; the lanes get one second to stop, then the lease moves to
\* retain_lease_until_lane_shutdown.
ShutdownDeadline(d, l) ==
    /\ stage[d][l] = "ending" /\ ~lanesDone[d][l]
    /\ EnterStage(d, l, "retained")
    /\ UNCHANGED <<open, incoming, active, owns, lanes, lanesDone, fanned>>

ReleaseLease(d, l) ==
    /\ stage[d][l] \in {"ending", "retained"} /\ lanesDone[d][l]
    /\ EnterStage(d, l, "done")
    /\ DropLease(d, l)
    /\ UNCHANGED <<open, incoming, lanes, lanesDone, fanned>>

\* The network loses the link and some suffix of what is in flight on it.
LinkBreak(l) ==
    /\ Faulty /\ open[l]
    /\ open' = [open EXCEPT ![l] = FALSE]
    /\ \E d \in Daemons, n \in 0 .. 1 :
          /\ n <= Len(incoming[d][l])
          /\ incoming' = [incoming EXCEPT ![d][l] = SubSeq(@, 1, n)]
    /\ UNCHANGED <<stage, active, owns, lanes, lanesDone, fanned>>

(***************************************************************************)
(* Specification                                                            *)
(***************************************************************************)
Arbitrate(l) ==
    \/ FallbackExpires(l) \/ Decide(l) \/ SendDecision(l) \/ ReceiveAck(l)
    \/ ReceiveDecision(l) \/ SendAck(l) \/ FollowerFansOut(l)
    \/ \E d \in Daemons : CloseRejected(d, l)

Serve(d, l) ==
    \/ MonitorSignals(d, l) \/ RouterEnds(d, l) \/ ShutdownDeadline(d, l)
    \/ ReleaseLease(d, l)

NetworkStep(l) ==
    \/ Establish(l) \/ LinkBreak(l)
    \/ \E d \in Daemons : LaneCloses(d, l) \/ \E x \in Lanes : LaneStops(d, l, x)

ArbNext ==
    \E l \in Links :
        \/ Arbitrate(l)
        \/ \E d \in Daemons : Serve(d, l)
        \/ NetworkStep(l)

ArbSpec == ArbInit /\ [][ArbNext]_arbVars

\* Tasks that are ready run, waits are bounded, and a lane handler returns once
\* its session has ended.
LaneReturns == \E d \in Daemons, l \in Links, x \in Lanes :
                   stage[d][l] # "routing" /\ LaneStops(d, l, x)
Fairness ==
    /\ WF_arbVars(\E l \in Links : Arbitrate(l) \/ \E d \in Daemons : Serve(d, l))
    /\ WF_arbVars(LaneReturns)

ArbFairSpec == ArbSpec /\ Fairness

(***************************************************************************)
(* Properties                                                               *)
(***************************************************************************)

\* The lanes of two sessions with the same peer never overlap: a new session is
\* fanned out only after the last handle of the previous one is dropped, although
\* the router gives up waiting for it.
LanesOfOneSession ==
    \A d \in Daemons : \A l, m \in Links :
        lanes[d][l] # {} /\ lanes[d][m] # {} => l = m

\* The peer is marked active exactly while one task holds its lease, so the
\* unconditional removal in SessionLease::drop never removes another task's mark
\* and no path leaks it.
LeaseAccounting ==
    \A d \in Daemons :
        /\ active[d] <=> owns[d] # {}
        /\ \A l, m \in owns[d] : l = m
        /\ \A l \in owns[d] : stage[d][l] \notin {"idle", "done"}

\* The two daemons never run sessions over different live links.
SameLiveLink ==
    \A l, m \in Links :
        /\ stage["auth"][l] = "routing" /\ open[l]
        /\ stage["foll"][m] = "routing" /\ open[m]
        => l = m

\* The arbitration protocol implements PeerSessions: the lanes of a daemon belong
\* to one link at a time, and the authority serves only links the follower has
\* committed to.  A link is committed from the acknowledgement on.
Committed == fanned["foll"] \cup {l \in Links : stage["foll"][l] = "fanOut"}
ServedLinks == [d \in Daemons |-> {l \in Links : lanes[d][l] # {}}]

Sessions == INSTANCE PeerSessions
                WITH Follower <- "foll", committed <- Committed,
                     serving <- ServedLinks, used <- fanned
ImplementsPeerSessions == Sessions!Spec

\* Every arbitration ends: as each link is established once, there comes a time
\* from which both daemons serve or have closed every link that was.
ArbitrationTerminates ==
    <>[](\A d \in Daemons, l \in Links : stage[d][l] \in Serving \cup {"idle", "done"})

\* When a link is gone its leases are eventually given back, for good.
LeaseReturned == <>[](\A d \in Daemons, l \in Links : l \in owns[d] => open[l])

\* Without faults, dialling each other ends in one session served by both.
CrossDialSettles ==
    (\E l \in Links : open[l]) ~> (\E l \in Links : l \in fanned["auth"] \cap fanned["foll"])
===============================================================================
