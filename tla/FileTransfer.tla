----------------------------- MODULE FileTransfer -----------------------------
(***************************************************************************)
(* The file-transfer lanes of two trusted peers                             *)
(* (apps/desktop/src/file_transfer.rs and                                   *)
(* crates/streaming/src/file_transfer_disk.rs).                             *)
(*                                                                          *)
(* Either peer may have one transfer in its durable send queue.  A lane     *)
(* offers it, streams it one chunk at a time in lockstep with the           *)
(* receiver's durable checkpoints, and removes the queue record when the    *)
(* receiver has acknowledged the whole transfer.  Links break, processes    *)
(* crash between any two writes to disk, waits time out, both sides may     *)
(* offer at once, and users edit sources and received files meanwhile.      *)
(*                                                                          *)
(* A file's bytes are abstracted to its length and to whether they are the  *)
(* bytes that were queued ("clean"), which is what a digest tells apart.    *)
(* Aggregate byte counts follow from a checkpoint's entry and offset.       *)
(* A message still buffered when the link breaks counts as lost.            *)
(***************************************************************************)
EXTENDS Naturals, Sequences

CONSTANTS
    Manifest,  \* Manifest[n]: the entries of the transfer n queues
    Senders,   \* the peers whose user queues a transfer
    Winner,    \* the peer whose offer wins a collision
    Admits,    \* the peers whose policy admits the other's manifest
    ChunkSize, \* RUNTIME_CHUNK_SIZE
    Budget     \* how often each kind of fault may occur

Nodes == {"a", "b"}
Other(n) == IF n = "a" THEN "b" ELSE "a"
FaultKinds == {"loss", "crash", "timeout", "source", "dest", "busy"}

ASSUME TransferConstantsOK ==
    /\ \A n \in Nodes : /\ Manifest[n] \in Seq([dir : BOOLEAN, size : Nat])
                        /\ Manifest[n] # <<>>
    /\ Senders \subseteq Nodes
    /\ Winner \in Nodes
    /\ Admits \subseteq Nodes
    /\ ChunkSize \in Nat \ {0}
    /\ Budget \in [FaultKinds -> Nat]

VARIABLES
    link,    \* the physical session is up
    chan,    \* chan[n]: messages n has sent and its peer has not read
    pc,      \* pc[n]: where n's lane is in run_connection and what it calls
    nested,  \* nested[n]: run_inbound was called from run_outbound
    cursor,  \* cursor[n]: the checkpoint resumed from and the source reader
    writer,  \* writer[n]: ReceiveSession.writer, the open part file and its hasher
    chunk,   \* chunk[n]: the chunk receive_chunk is storing
    busy,    \* busy[n]: a lane of another peer holds the transfer permit
    queue,   \* queue[n]: the durable queue record
    source,  \* source[n][i]: a queued source compared with its queued digest
    root,    \* root[n]: the receive directory exists
    state,   \* state[n]: the durable ReceiveState
    part,    \* part[n][i]: the .part file
    final,   \* final[n][i]: the published file
    moved,   \* moved[n]: user-changed files kept aside by quarantine_file
    touched, \* touched[n]: the user has changed or removed a received file
    left     \* left[k]: faults of kind k still to come

net == <<link, chan>>
lane == <<pc, nested, cursor, writer, chunk>>
received == <<root, state, part, final, moved>>
vars == <<link, chan, pc, nested, cursor, writer, chunk, busy, queue, source,
          root, state, part, final, moved, touched, left>>

(***************************************************************************)
(* Manifest arithmetic                                                      *)
(***************************************************************************)
Entries(t) == 1..Len(Manifest[t])
Files(t) == {i \in Entries(t) : ~Manifest[t][i].dir}
Size(t, i) == Manifest[t][i].size
First(S) == CHOOSE i \in S : \A j \in S : i <= j
Last(S) == CHOOSE i \in S : \A j \in S : j <= i

NoCheckpoint == [file |-> 0, offset |-> 0]
At(i, offset) == [file |-> i, offset |-> offset]

\* terminal_checkpoint
Terminal(t) ==
    IF Files(t) = {} THEN At(Len(Manifest[t]), 0)
                     ELSE At(Last(Files(t)), Size(t, Last(Files(t))))

\* next_file_position; NoCheckpoint when every file is complete.
NextPosition(t, cp) ==
    LET later == {i \in Files(t) : cp.file < i}
    IN IF cp.file \in Files(t) /\ cp.offset < Size(t, cp.file) THEN cp
       ELSE IF later = {} THEN NoCheckpoint
       ELSE At(First(later), 0)

\* checkpoint_before_entry
CheckpointBefore(t, i) ==
    LET earlier == {j \in Files(t) : j < i}
    IN IF earlier = {} THEN NoCheckpoint
                       ELSE At(Last(earlier), Size(t, Last(earlier)))

\* validate_checkpoint of a peer's checkpoint
ValidCheckpoint(t, cp) ==
    cp # NoCheckpoint => cp.file \in Files(t) /\ cp.offset <= Size(t, cp.file)

\* The offset from which run_outbound streams file i after an Accept.
StartOffset(t, cp, i) ==
    CASE i < cp.file -> Size(t, i)
      [] i = cp.file -> cp.offset
      [] OTHER -> 0

\* HashedTransferReader::open resumes, and so may have nothing left to send,
\* only from a non-zero offset.
ReaderFinished(t, i, offset) == offset # 0 /\ offset = Size(t, i)

NoPart == [len |-> 0, clean |-> TRUE, exists |-> FALSE]
Part(len, clean) == [len |-> len, clean |-> clean, exists |-> TRUE]
NoCursor == [resume |-> NoCheckpoint, file |-> 0, offset |-> 0,
             finished |-> FALSE, clean |-> TRUE]
NoWriter == [file |-> 0, len |-> 0, clean |-> TRUE]
NoChunk == [kind |-> "none"]
NoState == [written |-> FALSE, cp |-> NoCheckpoint, complete |-> FALSE]
State(cp, complete) == [written |-> TRUE, cp |-> cp, complete |-> complete]

(***************************************************************************)
(* Messages and the lane's control                                          *)
(***************************************************************************)
Offer(t) == [kind |-> "Offer", id |-> t]
Accept(t, cp) == [kind |-> "Accept", id |-> t, cp |-> cp]
Reject(t) == [kind |-> "Reject", id |-> t]
Cancel(t) == [kind |-> "Cancel", id |-> t]
Chunk(t, i, offset, len, last, clean) ==
    [kind |-> "Chunk", id |-> t, file |-> i, offset |-> offset, len |-> len,
     last |-> last, clean |-> clean]
Checkpoint(t, cp) == [kind |-> "Checkpoint", id |-> t, cp |-> cp]
Ack(t, cp) == [kind |-> "Ack", id |-> t, cp |-> cp]
Complete(t) == [kind |-> "Complete", id |-> t]

SenderWaits == {"offered", "checkpoint", "terminal"}
ReceiverWaits == {"chunk", "ack"}
ReceiverDisk == {"prepare", "reconcile", "accept", "open", "write", "link",
                 "unlink", "persist", "undo", "complete"}
Places == SenderWaits \cup ReceiverWaits \cup ReceiverDisk
          \cup {"down", "loop", "idle", "reader", "stream"}

Inbox(n) == chan[Other(n)]
Hears(n, kind) == link /\ Inbox(n) # <<>> /\ Head(Inbox(n)).kind = kind
HearsOwn(n, kind, t) == Hears(n, kind) /\ Head(Inbox(n)).id = t

Send(n, m) == link /\ chan' = [chan EXCEPT ![n] = Append(@, m)]
Read(n) == chan' = [chan EXCEPT ![Other(n)] = Tail(@)]
Answer(n, m) == chan' = [chan EXCEPT ![Other(n)] = Tail(@), ![n] = Append(@, m)]

Goto(n, place) == pc' = [pc EXCEPT ![n] = place]

\* Return from run_outbound or run_inbound, dropping what they held.
Leave(n, place) ==
    /\ Goto(n, place)
    /\ nested' = [nested EXCEPT ![n] = FALSE]
    /\ cursor' = [cursor EXCEPT ![n] = NoCursor]
    /\ writer' = [writer EXCEPT ![n] = NoWriter]
    /\ chunk' = [chunk EXCEPT ![n] = NoChunk]

\* An error of run_inbound: handle_idle_message answers with a Cancel and the
\* lane goes on; inside run_outbound the error ends the lane.
InboundFails(n) == Leave(n, IF nested[n] THEN "down" ELSE "loop")
FailReply(n) == IF nested[n] THEN <<>> ELSE <<Cancel(Other(n))>>

Transferring(n) == pc[n] \notin {"down", "loop", "idle"}
Spend(k) == left[k] > 0 /\ left' = [left EXCEPT ![k] = @ - 1]
Calm == UNCHANGED <<touched, left>>

Init ==
    /\ link = FALSE
    /\ chan = [n \in Nodes |-> <<>>]
    /\ pc = [n \in Nodes |-> "down"]
    /\ nested = [n \in Nodes |-> FALSE]
    /\ cursor = [n \in Nodes |-> NoCursor]
    /\ writer = [n \in Nodes |-> NoWriter]
    /\ chunk = [n \in Nodes |-> NoChunk]
    /\ busy = [n \in Nodes |-> FALSE]
    /\ queue = [n \in Nodes |-> "absent"]
    /\ source = [n \in Nodes |-> [i \in Entries(n) |-> "original"]]
    /\ root = [n \in Nodes |-> FALSE]
    /\ state = [n \in Nodes |-> NoState]
    /\ part = [n \in Nodes |-> [i \in Entries(Other(n)) |-> NoPart]]
    /\ final = [n \in Nodes |-> [i \in Entries(Other(n)) |-> "absent"]]
    /\ moved = [n \in Nodes |-> {}]
    /\ touched = [n \in Nodes |-> FALSE]
    /\ left = Budget

(***************************************************************************)
(* Seeded faults: slips the code could contain; each breaks a property.     *)
(***************************************************************************)
\* A retried write that appends its bytes twice.
WritePartTwice(n) ==
    /\ pc[n] = "write"
    /\ LET m == chunk[n]
       IN /\ writer' = [writer EXCEPT ![n].len = @ + 2 * m.len]
          /\ part' = [part EXCEPT ![n][m.file] = Part(@.len + 2 * m.len, @.clean /\ m.clean)]
          /\ Goto(n, IF m.last THEN "link" ELSE "persist")
    /\ UNCHANGED <<net, nested, cursor, chunk, busy, queue, source, root, state, final, moved>>
    /\ Calm

\* A resumed part whose prefix is not hashed again.
OpenPartUnhashed(n) ==
    /\ pc[n] = "open"
    /\ part' = [part EXCEPT ![n][chunk[n].file] = Part(@.len, @.clean)]
    /\ writer' = [writer EXCEPT ![n] =
           [file |-> chunk[n].file, len |-> part[n][chunk[n].file].len, clean |-> TRUE]]
    /\ Goto(n, "write")
    /\ UNCHANGED <<net, nested, cursor, chunk, busy, queue, source, root, state, final, moved>>
    /\ Calm

\* A sender that drops the queue record when the peer refuses.
RefusedForgets(n) ==
    /\ pc[n] \in SenderWaits
    /\ HearsOwn(n, "Reject", n) \/ HearsOwn(n, "Cancel", n)
    /\ Read(n)
    /\ queue' = [queue EXCEPT ![n] = "removed"]
    /\ Leave(n, "loop")
    /\ UNCHANGED <<link, busy, source, received>> /\ Calm

\* Publication by rename, which replaces an existing file.
LinkPartRenames(n) ==
    /\ pc[n] = "link"
    /\ final' = [final EXCEPT ![n][chunk[n].file] = "good"]
    /\ Goto(n, "unlink")
    /\ UNCHANGED <<net, nested, cursor, writer, chunk, busy, queue, source, root, state,
                   part, moved>> /\ Calm

\* A reconciliation that sets every part file aside.
ReconcileFresh(n) ==
    /\ pc[n] = "reconcile"
    /\ part' = [part EXCEPT ![n] = [i \in DOMAIN @ |-> NoPart]]
    /\ Goto(n, "accept")
    /\ UNCHANGED <<net, nested, cursor, writer, chunk, busy, queue, source, root, state,
                   final, moved>> /\ Calm

\* A collision without a winner: both peers yield.
OffersCollideYield(n) ==
    /\ pc[n] = "offered" /\ Hears(n, "Offer")
    /\ Read(n)
    /\ Goto(n, "prepare")
    /\ nested' = [nested EXCEPT ![n] = TRUE]
    /\ UNCHANGED <<link, cursor, writer, chunk, busy, queue, source, received>>
    /\ Calm

(***************************************************************************)
(* Sending: run_connection and run_outbound                                 *)
(***************************************************************************)
\* enqueue_paths, from the command line or the GUI
Enqueue(n) ==
    /\ n \in Senders /\ queue[n] = "absent"
    /\ queue' = [queue EXCEPT ![n] = "queued"]
    /\ UNCHANGED <<net, lane, busy, source, received>> /\ Calm

\* load_oldest_queue_entry finds a record and revalidates its sources.
Loadable(n) ==
    queue[n] = "queued" /\ \A i \in Files(n) : source[n][i] = "original"

\* The top of run_connection's loop.
ScanQueue(n) ==
    /\ pc[n] = "loop"
    /\ IF ~busy[n] /\ Loadable(n)
       THEN Send(n, Offer(n)) /\ Goto(n, "offered")
       ELSE Goto(n, "idle") /\ UNCHANGED chan
    /\ UNCHANGED <<link, nested, cursor, writer, chunk, busy, queue, source, received>>
    /\ Calm

\* The queue poll; a poll that would find nothing to offer is a stutter.
PollTick(n) ==
    /\ pc[n] = "idle" /\ ~busy[n] /\ Loadable(n)
    /\ Goto(n, "loop")
    /\ UNCHANGED <<net, nested, cursor, writer, chunk, busy, queue, source, received>>
    /\ Calm

\* An offer crosses ours: policy first, then the deterministic winner; the
\* loser serves the peer's transfer and keeps its own queued.
OffersCollide(n) ==
    /\ pc[n] = "offered" /\ Hears(n, "Offer")
    /\ IF n \notin Admits \/ n = Winner
       THEN Answer(n, Reject(Other(n))) /\ UNCHANGED <<pc, nested>>
       ELSE /\ Read(n)
            /\ Goto(n, "prepare")
            /\ nested' = [nested EXCEPT ![n] = TRUE]
    /\ UNCHANGED <<link, cursor, writer, chunk, busy, queue, source, received>>
    /\ Calm

\* A message of another transfer is skipped, an offer during one is rejected
\* (recv_active_message and the offer loop of run_outbound).
ActiveTransfer(n) == IF pc[n] \in SenderWaits THEN n ELSE Other(n)

SkipStale(n) ==
    /\ pc[n] \in SenderWaits \cup ReceiverWaits
    /\ link /\ Inbox(n) # <<>>
    /\ Head(Inbox(n)).kind # "Offer" /\ Head(Inbox(n)).id # ActiveTransfer(n)
    /\ Read(n)
    /\ UNCHANGED <<link, lane, busy, queue, source, received>> /\ Calm

RejectBusy(n) ==
    /\ pc[n] \in {"checkpoint", "terminal"} \cup ReceiverWaits
    /\ Hears(n, "Offer")
    /\ Answer(n, Reject(Head(Inbox(n)).id))
    /\ UNCHANGED <<link, lane, busy, queue, source, received>> /\ Calm

OfferAccepted(n) ==
    /\ pc[n] = "offered" /\ HearsOwn(n, "Accept", n)
    /\ Read(n)
    /\ LET cp == Head(Inbox(n)).cp
       IN IF ValidCheckpoint(n, cp)
          THEN /\ Goto(n, "reader")
               /\ cursor' = [cursor EXCEPT ![n] = [NoCursor EXCEPT !.resume = cp]]
               /\ UNCHANGED <<nested, writer, chunk>>
          ELSE Leave(n, "down")
    /\ UNCHANGED <<link, busy, queue, source, received>> /\ Calm

\* A Reject or Cancel of our transfer leaves the record queued: Retained.
TransferRefused(n) ==
    /\ pc[n] \in SenderWaits
    /\ HearsOwn(n, "Reject", n) \/ HearsOwn(n, "Cancel", n)
    /\ Read(n)
    /\ Leave(n, "loop")
    /\ UNCHANGED <<link, busy, queue, source, received>> /\ Calm

\* Any other answer: cancel the transfer and end the lane.
ExpectedAnswer(n) ==
    LET m == Head(Inbox(n))
    IN \/ m.kind \in {"Reject", "Cancel"}
       \/ pc[n] = "offered" /\ m.kind = "Accept"
       \/ pc[n] = "checkpoint" /\ m.kind = "Checkpoint"
          /\ m.cp = At(cursor[n].file, cursor[n].offset)
       \/ pc[n] = "terminal" /\ m.kind = "Ack" /\ m.cp = Terminal(n)

UnexpectedAnswer(n) ==
    /\ pc[n] \in SenderWaits /\ link /\ Inbox(n) # <<>>
    /\ Head(Inbox(n)).kind # "Offer" /\ Head(Inbox(n)).id = n
    /\ ~ExpectedAnswer(n)
    /\ Answer(n, Cancel(n))
    /\ Leave(n, "down")
    /\ UNCHANGED <<link, busy, queue, source, received>> /\ Calm

\* What a read of a source may return: the queued bytes, or others once the
\* file has been changed.
ReadsClean(n, i) == IF source[n][i] = "original" THEN {TRUE} ELSE BOOLEAN

LaterFiles(n) == {i \in Files(n) : cursor[n].file < i}

OpenSource(n) ==
    /\ pc[n] = "reader" /\ LaterFiles(n) # {}
    /\ LET i == First(LaterFiles(n))
           offset == StartOffset(n, cursor[n].resume, i)
       IN /\ source[n][i] # "gone"
          /\ \E clean \in IF offset = 0 THEN {TRUE} ELSE ReadsClean(n, i) :
                cursor' = [cursor EXCEPT ![n] =
                    [@ EXCEPT !.file = i, !.offset = offset, !.clean = clean,
                              !.finished = ReaderFinished(n, i, offset)]]
    /\ Goto(n, "stream")
    /\ UNCHANGED <<net, nested, writer, chunk, busy, queue, source, received>> /\ Calm

\* A source that is missing or has another length ends the lane, and so may
\* a read from one that was truncated while open.
SourceFails(n) ==
    /\ \/ /\ pc[n] = "reader" /\ LaterFiles(n) # {}
          /\ source[n][First(LaterFiles(n))] = "gone"
       \/ /\ pc[n] = "stream" /\ ~cursor[n].finished
          /\ Size(n, cursor[n].file) > 0 /\ source[n][cursor[n].file] = "gone"
    /\ Leave(n, "down")
    /\ UNCHANGED <<net, busy, queue, source, received>> /\ Calm

StreamChunk(n) ==
    /\ pc[n] = "stream" /\ ~cursor[n].finished
    /\ LET i == cursor[n].file
           start == cursor[n].offset
           rest == Size(n, i) - start
           len == IF rest < ChunkSize THEN rest ELSE ChunkSize
           last == start + len = Size(n, i)
       IN \E clean \in IF len = 0 THEN {TRUE} ELSE ReadsClean(n, i) :
            /\ Send(n, Chunk(n, i, start, len, last, clean))
            /\ cursor' = [cursor EXCEPT ![n] =
                   [@ EXCEPT !.offset = start + len, !.finished = last,
                             !.clean = cursor[n].clean /\ clean]]
    /\ Goto(n, "checkpoint")
    /\ UNCHANGED <<link, nested, writer, chunk, busy, queue, source, received>> /\ Calm

CheckpointReceived(n) ==
    /\ pc[n] = "checkpoint" /\ HearsOwn(n, "Checkpoint", n) /\ ExpectedAnswer(n)
    /\ Answer(n, Ack(n, Head(Inbox(n)).cp))
    /\ Goto(n, "stream")
    /\ UNCHANGED <<link, nested, cursor, writer, chunk, busy, queue, source, received>>
    /\ Calm

\* HashedTransferReader::verify once the file is streamed
VerifySource(n) ==
    /\ pc[n] = "stream" /\ cursor[n].finished
    /\ IF cursor[n].clean
       THEN Goto(n, "reader") /\ UNCHANGED <<chan, nested, cursor, writer, chunk>>
       ELSE Send(n, Cancel(n)) /\ Leave(n, "loop")
    /\ UNCHANGED <<link, busy, queue, source, received>> /\ Calm

SendComplete(n) ==
    /\ pc[n] = "reader" /\ LaterFiles(n) = {}
    /\ Send(n, Complete(n))
    /\ Goto(n, "terminal")
    /\ UNCHANGED <<link, nested, cursor, writer, chunk, busy, queue, source, received>>
    /\ Calm

\* The terminal acknowledgement alone removes the queue record.
TerminalAck(n) ==
    /\ pc[n] = "terminal" /\ HearsOwn(n, "Ack", n) /\ ExpectedAnswer(n)
    /\ Read(n)
    /\ queue' = [queue EXCEPT ![n] = "removed"]
    /\ Leave(n, "loop")
    /\ UNCHANGED <<link, busy, source, received>> /\ Calm

(***************************************************************************)
(* Receiving: handle_idle_message and run_inbound                           *)
(***************************************************************************)
IdleOffer(n) ==
    /\ pc[n] = "idle" /\ Hears(n, "Offer")
    /\ IF n \notin Admits \/ busy[n]
       THEN Answer(n, Reject(Other(n))) /\ Goto(n, "loop")
       ELSE Read(n) /\ Goto(n, "prepare")
    /\ UNCHANGED <<link, nested, cursor, writer, chunk, busy, queue, source, received>>
    /\ Calm

\* Every other message of an idle lane, a Cancel included, is answered with
\* a Cancel.
IdleStray(n) ==
    /\ pc[n] = "idle" /\ link /\ Inbox(n) # <<>> /\ Head(Inbox(n)).kind # "Offer"
    /\ Answer(n, Cancel(Head(Inbox(n)).id))
    /\ Goto(n, "loop")
    /\ UNCHANGED <<link, nested, cursor, writer, chunk, busy, queue, source, received>>
    /\ Calm

\* prepare_receive_session: a directory without a readable state is refused.
Prepare(n) ==
    /\ pc[n] = "prepare"
    /\ IF root[n] /\ ~state[n].written
       THEN /\ chan' = IF link THEN [chan EXCEPT ![n] = @ \o FailReply(n)] ELSE chan
            /\ InboundFails(n)
            /\ UNCHANGED root
       ELSE /\ root' = [root EXCEPT ![n] = TRUE]
            /\ Goto(n, "reconcile")
            /\ UNCHANGED <<chan, nested, cursor, writer, chunk>>
    /\ UNCHANGED <<link, busy, queue, source, state, part, final, moved>> /\ Calm

\* reconcile_receive_checkpoint: what is on disk decides the checkpoint.
Whole(n, i) ==
    \/ final[n][i] = "good"
    \/ part[n][i].exists /\ part[n][i].len = Size(Other(n), i) /\ part[n][i].clean
Gaps(n) == {i \in Files(Other(n)) : ~Whole(n, i)}
Kept(n, i) == part[n][i].exists /\ part[n][i].len < Size(Other(n), i)

ReconciledCheckpoint(n) ==
    LET t == Other(n)
        gap == First(Gaps(n))
    IN IF Files(t) = {} THEN NoCheckpoint
       ELSE IF Gaps(n) = {} THEN Terminal(t)
       ELSE IF Kept(n, gap) THEN At(gap, part[n][gap].len)
       ELSE CheckpointBefore(t, gap)

Reconcile(n) ==
    /\ pc[n] = "reconcile"
    /\ LET before(i) == \A j \in Gaps(n) : i < j
           isGap(i) == i \in Gaps(n) /\ \A j \in Gaps(n) : i <= j
           files == Files(Other(n))
       IN /\ final' = [final EXCEPT ![n] = [i \in DOMAIN @ |->
                 IF i \in files THEN IF before(i) THEN "good" ELSE "absent" ELSE @[i]]]
          /\ part' = [part EXCEPT ![n] = [i \in DOMAIN @ |->
                 IF isGap(i) /\ Kept(n, i) THEN @[i] ELSE NoPart]]
          /\ moved' = [moved EXCEPT ![n] = @ \cup {i \in files : final[n][i] = "user"}]
    /\ cursor' = [cursor EXCEPT ![n] = [NoCursor EXCEPT !.resume = ReconciledCheckpoint(n)]]
    /\ Goto(n, "accept")
    /\ UNCHANGED <<net, nested, writer, chunk, busy, queue, source, root, state>> /\ Calm

\* A step that ends by sending m: the lane ends when the link is gone.
Report(n, m, place) ==
    IF link THEN Goto(n, place) /\ chan' = [chan EXCEPT ![n] = Append(@, m)]
            ELSE Goto(n, "down") /\ UNCHANGED chan

\* The end of prepare_receive_session, and the Accept.
PersistAccept(n) ==
    /\ pc[n] = "accept"
    /\ LET cp == cursor[n].resume
           verified == NextPosition(Other(n), cp) = NoCheckpoint
       IN /\ state' = [state EXCEPT ![n] = State(cp, @.complete /\ verified)]
          /\ Report(n, Accept(Other(n), cp), "chunk")
    /\ nested' = IF link THEN nested ELSE [nested EXCEPT ![n] = FALSE]
    /\ cursor' = [cursor EXCEPT ![n] = NoCursor]
    /\ UNCHANGED <<link, writer, chunk, busy, queue, source, root, part, final, moved>>
    /\ Calm

\* receive_chunk's checks of a chunk against the next position.
ChunkFits(n, m) ==
    LET t == Other(n)
        pos == NextPosition(t, state[n].cp)
    IN /\ pos # NoCheckpoint
       /\ m.file = pos.file /\ m.offset = pos.offset
       /\ m.offset + m.len <= Size(t, m.file)
       /\ m.last = (m.offset + m.len = Size(t, m.file))

ReceiveChunk(n) ==
    /\ pc[n] = "chunk" /\ HearsOwn(n, "Chunk", Other(n))
    /\ IF ChunkFits(n, Head(Inbox(n)))
       THEN /\ Read(n)
            /\ chunk' = [chunk EXCEPT ![n] = Head(Inbox(n))]
            /\ Goto(n, IF writer[n] = NoWriter THEN "open" ELSE "write")
            /\ UNCHANGED <<nested, cursor, writer>>
       ELSE Answer(n, Cancel(Other(n))) /\ Leave(n, "loop")
    /\ UNCHANGED <<link, busy, queue, source, received>> /\ Calm

\* Any error of receive_chunk: cancel, and return as if done.
CancelReceive(n) ==
    /\ chan' = IF link THEN [chan EXCEPT ![n] = Append(@, Cancel(Other(n)))] ELSE chan
    /\ Leave(n, "loop")

\* HashedPartWriter::create, or ::resume when the checkpoint is in this file;
\* neither touches an existing final file.
Openable(n, i) ==
    /\ final[n][i] = "absent"
    /\ IF state[n].cp.file = i
       THEN part[n][i].exists /\ part[n][i].len = chunk[n].offset
       ELSE ~part[n][i].exists

OpenPart(n) ==
    /\ pc[n] = "open"
    /\ LET i == chunk[n].file
       IN IF Openable(n, i)
          THEN /\ part' = [part EXCEPT ![n][i] = Part(@.len, @.clean)]
               /\ writer' = [writer EXCEPT ![n] =
                      [file |-> i, len |-> part[n][i].len, clean |-> part[n][i].clean]]
               /\ Goto(n, "write")
               /\ UNCHANGED <<chan, nested, cursor, chunk>>
          ELSE CancelReceive(n) /\ UNCHANGED part
    /\ UNCHANGED <<link, busy, queue, source, root, state, final, moved>> /\ Calm

\* Write, flush and sync; the final chunk is verified, and quarantined when
\* the digest differs.
WritePart(n) ==
    /\ pc[n] = "write"
    /\ LET m == chunk[n]
           i == m.file
           hashed == writer[n].clean /\ m.clean
       IN /\ writer' = [writer EXCEPT ![n] =
                 IF m.last /\ ~hashed THEN NoWriter
                 ELSE [@ EXCEPT !.len = writer[n].len + m.len, !.clean = hashed]]
          /\ part' = [part EXCEPT ![n][i] =
                 IF m.last /\ ~hashed THEN NoPart
                 ELSE Part(@.len + m.len, @.clean /\ m.clean)]
          /\ Goto(n, IF ~m.last THEN "persist" ELSE IF hashed THEN "link" ELSE "undo")
    /\ UNCHANGED <<net, nested, cursor, chunk, busy, queue, source, root, state, final, moved>>
    /\ Calm

\* TransferPartWriter::finalize: link the final name, then remove the part's.
LinkPart(n) ==
    /\ pc[n] = "link"
    /\ LET i == chunk[n].file
       IN IF final[n][i] = "absent"
          THEN /\ final' = [final EXCEPT ![n][i] = IF part[n][i].clean THEN "good" ELSE "bad"]
               /\ Goto(n, "unlink")
               /\ UNCHANGED <<chan, nested, cursor, writer, chunk>>
          ELSE CancelReceive(n) /\ UNCHANGED final
    /\ UNCHANGED <<link, busy, queue, source, root, state, part, moved>> /\ Calm

UnlinkPart(n) ==
    /\ pc[n] = "unlink"
    /\ part' = [part EXCEPT ![n][chunk[n].file] = NoPart]
    /\ writer' = [writer EXCEPT ![n] = NoWriter]
    /\ Goto(n, "persist")
    /\ UNCHANGED <<net, nested, cursor, chunk, busy, queue, source, root, state, final, moved>>
    /\ Calm

PersistCheckpoint(n) ==
    /\ pc[n] = "persist"
    /\ LET cp == At(chunk[n].file, chunk[n].offset + chunk[n].len)
       IN /\ state' = [state EXCEPT ![n] = State(cp, @.complete)]
          /\ Report(n, Checkpoint(Other(n), cp), "ack")
    /\ chunk' = [chunk EXCEPT ![n] = NoChunk]
    /\ nested' = IF link THEN nested ELSE [nested EXCEPT ![n] = FALSE]
    /\ writer' = IF link THEN writer ELSE [writer EXCEPT ![n] = NoWriter]
    /\ UNCHANGED <<link, cursor, busy, queue, source, root, part, final, moved>> /\ Calm

\* The checkpoint steps back before the file whose digest did not match.
PersistUndo(n) ==
    /\ pc[n] = "undo"
    /\ state' = [state EXCEPT ![n] = State(CheckpointBefore(Other(n), chunk[n].file), FALSE)]
    /\ CancelReceive(n)
    /\ UNCHANGED <<link, busy, queue, source, root, part, final, moved>> /\ Calm

AckReceived(n) ==
    /\ pc[n] = "ack" /\ HearsOwn(n, "Ack", Other(n)) /\ Head(Inbox(n)).cp = state[n].cp
    /\ Read(n)
    /\ Goto(n, "chunk")
    /\ UNCHANGED <<link, nested, cursor, writer, chunk, busy, queue, source, received>>
    /\ Calm

\* Complete counts only when every file is stored.
CompleteFits(n) ==
    NextPosition(Other(n), state[n].cp) = NoCheckpoint /\ writer[n] = NoWriter

CompleteReceived(n) ==
    /\ pc[n] = "chunk" /\ HearsOwn(n, "Complete", Other(n)) /\ CompleteFits(n)
    /\ Read(n)
    /\ Goto(n, "complete")
    /\ UNCHANGED <<link, nested, cursor, writer, chunk, busy, queue, source, received>>
    /\ Calm

PersistComplete(n) ==
    /\ pc[n] = "complete"
    /\ state' = [state EXCEPT ![n] = State(Terminal(Other(n)), TRUE)]
    /\ Leave(n, "loop")
    /\ chan' = IF link THEN [chan EXCEPT ![n] = Append(@, Ack(Other(n), Terminal(Other(n))))]
                       ELSE chan
    /\ UNCHANGED <<link, busy, queue, source, root, part, final, moved>> /\ Calm

\* The sender gave up: return without an answer.
ReceiveCancelled(n) ==
    /\ \/ pc[n] = "chunk" /\ HearsOwn(n, "Reject", Other(n))
       \/ pc[n] \in ReceiverWaits /\ HearsOwn(n, "Cancel", Other(n))
    /\ Read(n)
    /\ Leave(n, "loop")
    /\ UNCHANGED <<link, busy, queue, source, received>> /\ Calm

\* Every other message of the transfer is an error of run_inbound.
UnexpectedMessage(n) ==
    /\ pc[n] \in ReceiverWaits /\ link /\ Inbox(n) # <<>>
    /\ LET m == Head(Inbox(n))
       IN /\ m.kind # "Offer" /\ m.id = Other(n) /\ m.kind # "Cancel"
          /\ pc[n] = "chunk" =>
                /\ m.kind \notin {"Chunk", "Reject"}
                /\ m.kind = "Complete" => ~CompleteFits(n)
          /\ pc[n] = "ack" => ~(m.kind = "Ack" /\ m.cp = state[n].cp)
    /\ chan' = [chan EXCEPT ![Other(n)] = Tail(@), ![n] = @ \o FailReply(n)]
    /\ InboundFails(n)
    /\ UNCHANGED <<link, busy, queue, source, received>> /\ Calm

(***************************************************************************)
(* Sessions, timeouts, crashes and users                                    *)
(***************************************************************************)
\* A session starts only after the lanes of the last one have ended
\* (LanesOfOneSession of SessionArbitration).
Connect ==
    /\ ~link /\ \A n \in Nodes : pc[n] = "down"
    /\ link' = TRUE
    /\ pc' = [n \in Nodes |-> "loop"]
    /\ UNCHANGED <<chan, nested, cursor, writer, chunk, busy, queue, source, received>>
    /\ Calm

Disconnected == link' = FALSE /\ chan' = [n \in Nodes |-> <<>>]

LoseLink ==
    /\ link /\ Spend("loss")
    /\ Disconnected
    /\ UNCHANGED <<lane, busy, queue, source, received, touched>>

\* A send or receive on a dead link ends the lane.
LaneFails(n) ==
    /\ ~link /\ pc[n] \notin ReceiverDisk \cup {"down"}
    /\ Leave(n, "down")
    /\ UNCHANGED <<net, busy, queue, source, received>> /\ Calm

\* A message for a lane that has ended closes the session (route_inbound).
RouterCloses(n) ==
    /\ link /\ pc[n] = "down" /\ Inbox(n) # <<>>
    /\ Disconnected
    /\ UNCHANGED <<lane, busy, queue, source, received>> /\ Calm

\* PROTOCOL_PROGRESS_TIMEOUT without a message: an error of run_outbound, or
\* of run_inbound.
TimesOut(n) ==
    /\ link /\ Inbox(n) = <<>>
    /\ \/ pc[n] \in SenderWaits /\ Leave(n, "down") /\ UNCHANGED chan
       \/ /\ pc[n] \in ReceiverWaits
          /\ chan' = [chan EXCEPT ![n] = @ \o FailReply(n)]
          /\ InboundFails(n)
    /\ UNCHANGED <<link, busy, queue, source, received, touched>>

\* A peer that is slow, for instance hashing a large file.
TimeoutEarly(n) == Spend("timeout") /\ TimesOut(n)

\* A peer that has nothing to say.
Silent(n) ==
    \/ pc[n] \in {"down"} \cup SenderWaits \cup ReceiverWaits
    \/ pc[n] = "idle" /\ (busy[n] \/ ~Loadable(n))
TimeoutStalled(n) ==
    Inbox(Other(n)) = <<>> /\ Silent(Other(n)) /\ TimesOut(n) /\ UNCHANGED left

\* The process dies, in the middle of a write to a part file perhaps.
Crash(n) ==
    /\ Spend("crash")
    /\ Disconnected
    /\ Leave(n, "down")
    /\ busy' = [busy EXCEPT ![n] = FALSE]
    /\ IF pc[n] = "write"
       THEN \E k \in 0..chunk[n].len :
              part' = [part EXCEPT ![n][chunk[n].file] =
                         Part(@.len + k, @.clean /\ (k = 0 \/ chunk[n].clean))]
       ELSE UNCHANGED part
    /\ UNCHANGED <<queue, source, root, state, final, moved, touched>>

\* Another peer's lane takes and returns the one transfer permit.
OtherPeerStarts(n) ==
    /\ Spend("busy") /\ ~busy[n] /\ ~Transferring(n)
    /\ busy' = [busy EXCEPT ![n] = TRUE]
    /\ UNCHANGED <<net, lane, queue, source, received, touched>>

OtherPeerEnds(n) ==
    /\ busy[n]
    /\ busy' = [busy EXCEPT ![n] = FALSE]
    /\ UNCHANGED <<net, lane, queue, source, received>> /\ Calm

\* The user edits a queued source in place, removes it or restores it.
EditSource(n, i, v) ==
    /\ Spend("source") /\ queue[n] = "queued" /\ source[n][i] # v
    /\ v = "edited" => Size(n, i) > 0
    /\ source' = [source EXCEPT ![n][i] = v]
    /\ UNCHANGED <<net, lane, busy, queue, received, touched>>

\* The user changes, creates or removes a file in the receive directory.
EditReceived(n, i, v) ==
    /\ Spend("dest") /\ root[n] /\ final[n][i] # v
    /\ final' = [final EXCEPT ![n][i] = v]
    /\ touched' = [touched EXCEPT ![n] = TRUE]
    /\ UNCHANGED <<net, lane, busy, queue, source, root, state, part, moved>>

SenderStep(n) ==
    \/ ScanQueue(n) \/ PollTick(n) \/ OffersCollide(n) \/ SkipStale(n)
    \/ RejectBusy(n) \/ OfferAccepted(n) \/ TransferRefused(n)
    \/ UnexpectedAnswer(n) \/ OpenSource(n) \/ SourceFails(n) \/ StreamChunk(n)
    \/ CheckpointReceived(n) \/ VerifySource(n) \/ SendComplete(n) \/ TerminalAck(n)

ReceiverStep(n) ==
    \/ IdleOffer(n) \/ IdleStray(n) \/ Prepare(n) \/ Reconcile(n)
    \/ PersistAccept(n) \/ ReceiveChunk(n) \/ OpenPart(n) \/ WritePart(n)
    \/ LinkPart(n) \/ UnlinkPart(n) \/ PersistCheckpoint(n) \/ PersistUndo(n)
    \/ AckReceived(n) \/ CompleteReceived(n) \/ PersistComplete(n)
    \/ ReceiveCancelled(n) \/ UnexpectedMessage(n)

SessionStep(n) == LaneFails(n) \/ RouterCloses(n) \/ TimeoutStalled(n)

LaneStep(n) == SenderStep(n) \/ ReceiverStep(n) \/ SessionStep(n)

EnvironmentStep(n) ==
    \/ TimeoutEarly(n) \/ Crash(n) \/ OtherPeerStarts(n)
    \/ \E i \in Files(n), v \in {"original", "edited", "gone"} : EditSource(n, i, v)
    \/ \E i \in Files(Other(n)), v \in {"user", "absent"} : EditReceived(n, i, v)

Next ==
    \/ Connect \/ LoseLink
    \/ \E n \in Nodes :
         Enqueue(n) \/ LaneStep(n) \/ OtherPeerEnds(n) \/ EnvironmentStep(n)

Spec == Init /\ [][Next]_vars

\* The runtime schedules every ready lane, dropped sessions are dialled again
\* and other transfers end; faults and users owe nothing.
FairSpec ==
    /\ Spec
    /\ WF_vars(Connect)
    /\ \A n \in Nodes : WF_vars(LaneStep(n)) /\ WF_vars(OtherPeerEnds(n))

(***************************************************************************)
(* Properties                                                               *)
(***************************************************************************)
Checkpoints == [file : Nat, offset : Nat]

TypeOK ==
    /\ link \in BOOLEAN
    /\ pc \in [Nodes -> Places]
    /\ nested \in [Nodes -> BOOLEAN]
    /\ cursor \in [Nodes -> [resume : Checkpoints, file : Nat, offset : Nat,
                             finished : BOOLEAN, clean : BOOLEAN]]
    /\ writer \in [Nodes -> [file : Nat, len : Nat, clean : BOOLEAN]]
    /\ busy \in [Nodes -> BOOLEAN]
    /\ queue \in [Nodes -> {"absent", "queued", "removed"}]
    /\ root \in [Nodes -> BOOLEAN]
    /\ state \in [Nodes -> [written : BOOLEAN, cp : Checkpoints, complete : BOOLEAN]]
    /\ touched \in [Nodes -> BOOLEAN]
    /\ left \in [FaultKinds -> Nat]
    /\ \A n \in Nodes :
         /\ DOMAIN part[n] = Entries(Other(n)) /\ DOMAIN final[n] = Entries(Other(n))
         /\ \A i \in Entries(Other(n)) :
              part[n][i].exists => part[n][i].len <= Size(Other(n), i)

\* No file is ever published whose bytes are not the queued ones, whatever
\* is resumed, edited or crashed meanwhile.
PublishedIsVerified ==
    \A n \in Nodes : \A i \in Entries(Other(n)) : final[n][i] # "bad"

\* A queue record is removed only when the receiver has published every file
\* and recorded the transfer as complete.
Delivered(t) ==
    /\ state[Other(t)].complete
    /\ \A i \in Files(t) : final[Other(t)][i] = "good"
RemovedMeansDelivered ==
    \A t \in Nodes : queue[t] = "removed" => Delivered(t) \/ touched[Other(t)]

\* A file the user put in the receive directory is never overwritten: it
\* stays, or is kept aside.
NoSilentOverwrite ==
    [][\A n \in Nodes : \A i \in Files(Other(n)) :
          final[n][i] = "user" =>
              \/ final'[n][i] = "user"
              \/ i \in moved'[n]
              \/ left'["dest"] # left["dest"]]_vars

\* Bytes that were stored stay stored: no crash, reconnection, retry or
\* reconciliation throws away a good prefix while nobody edits files.
Stored(n, i) ==
    IF final[n][i] = "good" THEN Size(Other(n), i)
    ELSE IF part[n][i].exists /\ part[n][i].clean THEN part[n][i].len
    ELSE 0
ProgressKept ==
    [][left'["source"] = Budget["source"] =>
         \A n \in Nodes : ~touched'[n] =>
            \A i \in Files(Other(n)) : Stored(n, i)' >= Stored(n, i)]_vars

\* In the end no transfer is still queued, unless its sources were changed: it is
\* delivered, however the link breaks, waits time out or the peers' offers collide.
SourcesChanged(t) == \E i \in Files(t) : source[t][i] # "original"
TransferCompletes ==
    <>[](\A t \in Nodes : queue[t] = "queued" => SourcesChanged(t))

\* The same with crashes: only a receive directory left without its state
\* file stops transfers for good, its own and, because each failure closes the
\* session, the peer's.
Orphaned(n) == root[n] /\ ~state[n].written
TransferRecovers ==
    \/ TransferCompletes
    \/ \E n \in Nodes : <>[]Orphaned(n)
===============================================================================
