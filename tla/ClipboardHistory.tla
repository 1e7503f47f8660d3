-------------------------- MODULE ClipboardHistory --------------------------
(***************************************************************************)
(* The clipboard history of one device: the encrypted archive that the     *)
(* daemon and the command line share (crates/storage/src/                  *)
(* clipboard_history.rs, apps/desktop/src/clipboard_history.rs), its two   *)
(* writers in the daemon, the poll of the local clipboard and the record   *)
(* of what a peer sent.                                                    *)
(*                                                                         *)
(* Every archive transaction holds the cross-process lock from its read to *)
(* its write, so it is one step; the contents of a selection are its       *)
(* fingerprint and a size.                                                 *)
(***************************************************************************)
EXTENDS RecentEntries

CONSTANTS
    Selections,     \* fingerprints of selections
    Secret,         \* selections marked as concealed
    Here,           \* this device
    Peers,          \* other devices
    Capacity,       \* history_capacity
    MaxEntry,       \* history_max_entry_bytes
    MaxArchive,     \* max_archive_bytes
    MaxHistoryOps   \* bound on copies and commands

ASSUME HistoryConstants ==
    /\ \A f \in Selections : SizeOf[f] \in Nat
    /\ Secret \subseteq Selections
    /\ Here \notin Peers
    /\ Capacity \in Nat \ {0} /\ MaxEntry \in Nat /\ MaxArchive \in Nat
    /\ MaxHistoryOps \in Nat

VARIABLES
    archive,    \* entries on disk, most recent first
    board,      \* what is on the clipboard: a selection or "none"
    lastSeen,   \* last_fingerprint of the poll
    polled,     \* a selection the poll has read and not yet recorded
    received,   \* <<selection, peer>> written to the clipboard, not yet recorded
    senders,    \* which peer last sent a selection that was recorded
    historyOps

historyVars == <<archive, board, lastSeen, polled, received, senders, historyOps>>

-----------------------------------------------------------------------------
\* ClipboardHistoryArchive::record: refuses, or moves the selection to the front.
ArchiveRefuses(f) == f \in Secret \/ SizeOf[f] > MaxEntry
ArchiveRecord(s, f, o) ==
    Prune(<<Entry(f, o, PinnedIn(s, f))>> \o Others(s, f), Capacity, MaxArchive)

\* The recorder's transaction, which persists only what was retained and fails
\* when the archive is too large to encode.
Persist(new, f) ==
    archive' = IF Recorded(new, f) /\ Bytes(new) <= MaxArchive THEN new ELSE archive

\* decode_entries and the size check of open_inner.
DecodeAccepts(s) ==
    /\ Len(s) <= 4 * Capacity /\ Bytes(s) <= MaxArchive
    /\ \A i \in DOMAIN s : s[i].fp \notin Secret /\ SizeOf[s[i].fp] <= MaxEntry

HistoryInit ==
    /\ archive = <<>> /\ board = "none" /\ lastSeen = "none" /\ polled = "none"
    /\ received = <<>> /\ senders = [f \in Selections |-> Here]
    /\ historyOps = 0

Op == historyOps < MaxHistoryOps /\ historyOps' = historyOps + 1

-----------------------------------------------------------------------------
UserCopies(f) ==
    /\ Op /\ board' = f
    /\ UNCHANGED <<archive, lastSeen, polled, received, senders>>

\* The application that owned the selection quits: the clipboard is empty.
BoardEmptied ==
    /\ board # "none" /\ Op /\ board' = "none"
    /\ UNCHANGED <<archive, lastSeen, polled, received, senders>>

\* receive_and_apply writes the clipboard first ...
PeerSelection(f, p) ==
    /\ received = <<>> /\ f \notin Secret
    /\ Op /\ board' = f /\ received' = <<f, p>>
    /\ UNCHANGED <<archive, lastSeen, polled, senders>>

\* ... and then records it, with the peer as its origin.
RecordReceived ==
    /\ received # <<>>
    /\ received' = <<>>
    /\ LET f == received[1] IN
       IF ArchiveRefuses(f) THEN UNCHANGED <<archive, senders>>
       ELSE /\ Persist(ArchiveRecord(archive, f, received[2]), f)
            /\ senders' = IF archive' = archive THEN senders
                          ELSE [senders EXCEPT ![f] = received[2]]
    /\ UNCHANGED <<board, lastSeen, polled, historyOps>>

\* spawn_local_history_poll reads the clipboard ...
PollBoard ==
    /\ polled = "none"
    /\ lastSeen # board
    /\ lastSeen' = board /\ polled' = board
    /\ UNCHANGED <<archive, board, received, senders, historyOps>>

\* preserve_existing_origin
PolledOriginHere(f) == Here
PolledOrigin(f) ==
    LET known == Position(archive, f)
    IN  IF known = {} THEN Here ELSE archive[CHOOSE i \in known : TRUE].origin

\* ... and records a changed selection, keeping the origin of one it knows.
RecordPolled ==
    /\ polled # "none"
    /\ polled' = "none"
    /\ IF ArchiveRefuses(polled) THEN UNCHANGED archive
       ELSE Persist(ArchiveRecord(archive, polled, PolledOrigin(polled)), polled)
    /\ senders' = IF Recorded(archive, polled) THEN senders ELSE [senders EXCEPT ![polled] = Here]
    /\ UNCHANGED <<board, lastSeen, received, historyOps>>

\* The command line: set_pinned and clear_unpinned, as transactions of their own.
SetPinned(f, p) ==
    /\ Recorded(archive, f) /\ PinnedIn(archive, f) # p /\ Op
    /\ archive' = [i \in DOMAIN archive |->
                      IF archive[i].fp = f THEN [archive[i] EXCEPT !.pinned = p] ELSE archive[i]]
    /\ UNCHANGED <<board, lastSeen, polled, received, senders>>

\* Mutant of ClearUnpinned: pinned entries go too.
ClearAll ==
    /\ Op /\ archive' = <<>>
    /\ UNCHANGED <<board, lastSeen, polled, received, senders>>

ClearUnpinned ==
    /\ Op /\ archive' = Sub(archive, {i \in DOMAIN archive : archive[i].pinned})
    /\ UNCHANGED <<board, lastSeen, polled, received, senders>>

HistoryNext ==
    \/ \E f \in Selections : UserCopies(f)
    \/ \E f \in Selections, p \in Peers : PeerSelection(f, p)
    \/ \E f \in Selections, p \in BOOLEAN : SetPinned(f, p)
    \/ BoardEmptied \/ RecordReceived \/ PollBoard \/ RecordPolled \/ ClearUnpinned

HistorySpec == HistoryInit /\ [][HistoryNext]_historyVars

-----------------------------------------------------------------------------
HistoryEntries == [fp : Selections, origin : Peers \cup {Here}, pinned : BOOLEAN]

HistoryTypeOK ==
    /\ archive \in Seq(HistoryEntries)
    /\ board \in Selections \cup {"none"}
    /\ lastSeen \in Selections \cup {"none"} /\ polled \in Selections \cup {"none"}
    /\ received \in {<<>>} \cup (Selections \X Peers)
    /\ senders \in [Selections -> Peers \cup {Here}]
    /\ historyOps \in 0..MaxHistoryOps

\* A selection is in the archive at most once, and what is written fits the
\* limits under which it is read back: an archive that the recorder has written
\* can always be opened again (decode_entries).
ArchiveReadable ==
    /\ \A i, j \in DOMAIN archive : archive[i].fp = archive[j].fp => i = j
    /\ DecodeAccepts(archive)

\* A selection that came from a peer keeps that peer as its origin, although the
\* poll of the local clipboard may see and record it before, between or after
\* the steps of the session that received it (preserve_existing_origin).
OriginIsSender ==
    \A i \in DOMAIN archive : archive[i].origin = senders[archive[i].fp]

\* A pinned entry leaves the archive only after it has been unpinned, whatever
\* is recorded, pruned or cleared.
PinnedEntriesStay ==
    [][\A i \in DOMAIN archive :
          archive[i].pinned => Recorded(archive', archive[i].fp)]_historyVars
=============================================================================
