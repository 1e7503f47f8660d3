------------------------- MODULE ClipboardTimeline -------------------------
(***************************************************************************)
(* The shared clipboard timeline (crates/clipboard/src/timeline.rs) over   *)
(* the in-memory ClipboardHistory (crates/clipboard/src/history.rs): which *)
(* selections are kept, and on which devices each may be restored.  It     *)
(* shares no state with the archive of ClipboardHistory.                   *)
(***************************************************************************)
EXTENDS ClipboardHistory

CONSTANTS
    TimelineItems,     \* fingerprints of selections
    TimelineSecret,    \* selections marked as concealed
    TimelineOwner,     \* this device
    TimelinePeers,     \* other devices
    TimelineCapacity,  \* HistoryConfig::capacity
    TimelineMaxEntry,  \* HistoryConfig::max_entry_bytes
    MaxTimelineOps     \* bound on calls

ASSUME TimelineConstants ==
    /\ TimelineOwner \notin TimelinePeers
    /\ TimelineCapacity \in Nat /\ MaxTimelineOps \in Nat

VARIABLES
    timeline,   \* entries, most recent first
    available,  \* which devices may restore an entry
    timelineOps

timelineVars == <<timeline, available, timelineOps>>

\* evict counts entries only, never bytes.
Evict(s) == Prune(s, TimelineCapacity, Bytes(s))
TimelineOp == timelineOps < MaxTimelineOps /\ timelineOps' = timelineOps + 1

TimelineInit == timeline = <<>> /\ available = [f \in {} |-> {}] /\ timelineOps = 0

\* ClipboardHistory::record: an entry that exists moves to the front as it is.
TimelineRecord(s, f, o) ==
    IF Recorded(s, f) THEN <<Entry(f, o, PinnedIn(s, f))>> \o Others(s, f)
    ELSE Evict(<<Entry(f, o, FALSE)>> \o s)

\* retain_availability_for_history
Retained(f) == {h \in DOMAIN available \cup {f} : Recorded(timeline', h)}

ShareNew(f, o, trusted) ==
    /\ f \notin TimelineSecret /\ SizeOf[f] <= TimelineMaxEntry /\ TimelineOp
    /\ timeline' = TimelineRecord(timeline, f, o)
    /\ available' = [g \in Retained(f) |->
                        IF g = f THEN {o} \cup trusted ELSE available[g]]

ShareTo(f, d) ==
    /\ Recorded(timeline, f) /\ d \notin available[f] /\ TimelineOp
    /\ available' = [available EXCEPT ![f] = @ \cup {d}]
    /\ UNCHANGED timeline

PinTimeline(f) ==
    /\ Recorded(timeline, f) /\ ~PinnedIn(timeline, f) /\ TimelineOp
    /\ timeline' = [i \in DOMAIN timeline |->
                       IF timeline[i].fp = f THEN [timeline[i] EXCEPT !.pinned = TRUE] ELSE timeline[i]]
    /\ UNCHANGED available

RestorePlan(f, d) == Recorded(timeline, f) /\ f \in DOMAIN available /\ d \in available[f]

TimelineNext ==
    \/ \E f \in TimelineItems : PinTimeline(f)
    \/ \E f \in TimelineItems, p \in TimelinePeers : ShareTo(f, p)
    \/ \E f \in TimelineItems, o \in TimelinePeers \cup {TimelineOwner}, t \in SUBSET TimelinePeers :
          ShareNew(f, o, t)

TimelineSpec == TimelineInit /\ [][TimelineNext]_timelineVars

-----------------------------------------------------------------------------
\* The sharing lists follow the history, pinned entries and evictions included:
\* exactly the retained entries have one, so that a selection that was evicted
\* and is recorded again is restorable only where it is shared anew, and every
\* retained entry can at least be restored on the device it came from.
SharingFollowsHistory ==
    /\ DOMAIN available = {timeline[i].fp : i \in DOMAIN timeline}
    /\ \A i \in DOMAIN timeline :
          /\ timeline[i].fp \notin TimelineSecret
          /\ RestorePlan(timeline[i].fp, timeline[i].origin)
    /\ Len(timeline) > TimelineCapacity => \A i \in DOMAIN timeline : timeline[i].pinned

\* The archive on disk and the shared timeline: what is written can be read back
\* and is attributed to the device it came from, and sharing follows retention.
HistoriesFaithful ==
    HistoryTypeOK /\ ArchiveReadable /\ OriginIsSender /\ SharingFollowsHistory
=============================================================================
