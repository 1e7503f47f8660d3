-------------------------- MODULE TransferLibrary --------------------------
(***************************************************************************)
(* The in-memory transfer endpoint of crates/streaming: the queue of       *)
(* background transfers (TransferQueue), the sender that cuts files into   *)
(* sealed chunks (TransferSender), the receiver that opens them and keeps  *)
(* the resume point (TransferReceiver), and the reassembler that turns     *)
(* decoded chunks back into files (TransferReassembler). Pausing drops the *)
(* sender; starting again makes a new one from the receiver's checkpoint,  *)
(* while chunks of the old one may still be on their way.                  *)
(***************************************************************************)
EXTENDS Integers, Sequences, FiniteSets, SequencesExt

CONSTANTS
    Payload,     \* sizes of the entries of transfer 1; DirEntry for a directory
    OtherTotal,  \* bytes of the other transfers, of which only progress is kept
    Jobs,        \* number of transfers a user asks for; the first is streamed
    LibraryChunk,
    MaxDone,     \* finished transfers the queue keeps
    MaxPauses    \* bound: how often the active transfer is paused

DirEntry == -1

ASSUME LibraryConstants ==
    /\ Payload \in Seq(Nat \cup {DirEntry}) /\ LibraryChunk \in Nat \ {0}
    /\ {OtherTotal, Jobs, MaxDone, MaxPauses} \subseteq Nat

VARIABLES
    transferQueue, \* TransferQueue: [active, pending, done, asked]
    tx,        \* TransferSender: [file, offset, sent], or NoSender
    line,      \* chunks sealed and not yet delivered, in order
    rx,        \* TransferReceiver: its checkpoint, or NoResume
    parts,     \* TransferReassembler: entry -> [data, done]
    pauses

libraryVars == <<transferQueue, tx, line, rx, parts, pauses>>

-----------------------------------------------------------------------------
\* TransferFileData: the file entries of the manifest, in order.
FileEntries == SelectSeq([i \in 1..Len(Payload) |-> i], LAMBDA i : Payload[i] # DirEntry)
TotalBytes == FoldSeq(LAMBDA i, n : Payload[i] + n, 0, FileEntries)
Total(job) == IF job = 1 THEN TotalBytes ELSE OtherTotal

NoSender == [file |-> 0, offset |-> 0, sent |-> 0]
NoResume == [entry |-> 0, offset |-> 0, sent |-> 0]
NoJob == [job |-> 0, state |-> "none", bytes |-> 0]

\* TransferReassembler::new, TransferReceiver::new, TransferQueue::new.
LibraryInit ==
    /\ transferQueue = [active |-> NoJob, pending |-> <<>>, done |-> <<>>, asked |-> 0]
    /\ tx = NoSender /\ line = <<>> /\ rx = NoResume
    /\ parts = [e \in Range(FileEntries) |-> [data |-> <<>>, done |-> FALSE]]
    /\ pauses = 0

IsComplete == \A e \in DOMAIN parts : parts[e].done

-----------------------------------------------------------------------------
\* TransferQueue::enqueue.
EnqueueJob ==
    /\ transferQueue.asked < Jobs
    /\ transferQueue' = [transferQueue EXCEPT !.asked = @ + 1,
                   !.pending = Append(@, [job |-> transferQueue.asked + 1, state |-> "Queued", bytes |-> 0])]
    /\ UNCHANGED <<tx, line, rx, parts, pauses>>

\* TransferSender::from_checkpoint: a checkpoint at the end of its file goes on
\* with the next one.
FromCheckpoint(c) ==
    LET at == CHOOSE i \in 1..Len(FileEntries) : FileEntries[i] = c.entry
    IN  IF c.offset = Payload[c.entry]
        THEN [file |-> at + 1, offset |-> 0, sent |-> c.sent]
        ELSE [file |-> at, offset |-> c.offset, sent |-> c.sent]

\* TransferSender::new, or from the checkpoint the receiver reports.
SenderFor(c) ==
    IF c = NoResume THEN [file |-> 1, offset |-> 0, sent |-> 0] ELSE FromCheckpoint(c)

\* TransferQueue::start_next. The link may have been replaced since the pause, in
\* which case what was on its way is lost.
StartNext ==
    /\ transferQueue.active = NoJob /\ transferQueue.pending # <<>>
    /\ LET next == Head(transferQueue.pending)
       IN  /\ transferQueue' = [transferQueue EXCEPT !.active = [next EXCEPT !.state = "Running"], !.pending = Tail(@)]
           /\ IF next.job = 1
              THEN /\ tx' = SenderFor(rx)
                   /\ line' \in {line, <<>>}
              ELSE UNCHANGED <<tx, line>>
    /\ UNCHANGED <<rx, parts, pauses>>

\* TransferQueue::pause_active: back to the front; the sender is dropped.
PauseActive ==
    /\ transferQueue.active # NoJob /\ pauses < MaxPauses
    /\ transferQueue' = [transferQueue EXCEPT !.active = NoJob,
                   !.pending = <<[transferQueue.active EXCEPT !.state = "Paused"]>> \o @]
    /\ tx' = IF transferQueue.active.job = 1 THEN NoSender ELSE tx
    /\ pauses' = pauses + 1
    /\ UNCHANGED <<line, rx, parts>>

\* add_progress: never past the manifest's total.
Progressed(q, n) ==
    IF q.active = NoJob THEN q
    ELSE [q EXCEPT !.active.bytes = IF @ + n > Total(q.active.job) THEN Total(q.active.job) ELSE @ + n]

AddProgress ==
    /\ transferQueue.active.job > 1 /\ transferQueue.active.bytes < OtherTotal
    /\ transferQueue' = Progressed(transferQueue, LibraryChunk)
    /\ UNCHANGED <<tx, line, rx, parts, pauses>>

\* finish_active: a completed transfer has all its bytes, and the oldest finished
\* ones are forgotten.
FinishedJob(q, state) ==
    LET job  == [q.active EXCEPT !.state = state,
                                 !.bytes = IF state = "Completed" THEN Total(q.active.job) ELSE @]
        done == Append(q.done, job)
    IN  [q EXCEPT !.active = NoJob,
                  !.done = SubSeq(done, IF Len(done) > MaxDone THEN Len(done) - MaxDone + 1 ELSE 1, Len(done))]

\* complete_active, fail_active, cancel_active. The streamed transfer is reported
\* complete once the reassembler is.
FinishActive(state) ==
    /\ transferQueue.active # NoJob
    /\ state = "Completed" /\ transferQueue.active.job = 1 => IsComplete
    /\ transferQueue' = FinishedJob(transferQueue, state)
    /\ tx' = IF transferQueue.active.job = 1 THEN NoSender ELSE tx
    /\ UNCHANGED <<line, rx, parts, pauses>>

-----------------------------------------------------------------------------
\* TransferSender::next_chunk passes over a file it has finished, but an empty
\* file yields one chunk of its own.
Cursor(s) ==
    IF s.file <= Len(FileEntries) /\ s.offset > 0 /\ s.offset >= Payload[FileEntries[s.file]]
    THEN [s EXCEPT !.file = @ + 1, !.offset = 0] ELSE s

NextChunk ==
    /\ tx # NoSender
    /\ LET s == Cursor(tx)
       IN  /\ s.file <= Len(FileEntries)
           /\ LET e   == FileEntries[s.file]
                  end == IF s.offset + LibraryChunk < Payload[e] THEN s.offset + LibraryChunk ELSE Payload[e]
              IN  /\ line' = Append(line, [entry |-> e, offset |-> s.offset,
                                           bytes |-> [k \in 1..(end - s.offset) |-> s.offset + k],
                                           final |-> end = Payload[e]])
                  /\ tx' = [s EXCEPT !.sent = @ + (end - s.offset),
                              !.file = IF Payload[e] = 0 THEN @ + 1 ELSE @, !.offset = end]
    /\ UNCHANGED <<transferQueue, rx, parts, pauses>>

\* TransferReceiver::accept: whatever opens moves the checkpoint.
Opened(c, ch) ==
    [entry |-> ch.entry, offset |-> ch.offset + Len(ch.bytes), sent |-> c.sent + Len(ch.bytes)]

\* Without the check of the offset.
FitsAnywhere(p, ch) ==
    /\ ~p.done
    /\ Len(p.data) + Len(ch.bytes) <= Payload[ch.entry]

\* TransferReassembler::accept refuses what is not the next piece of an
\* unfinished file.
Fits(p, ch) ==
    /\ ~p.done
    /\ ch.offset = Len(p.data)
    /\ Len(p.data) + Len(ch.bytes) <= Payload[ch.entry]

Joined(p, ch) ==
    LET data == p.data \o ch.bytes
    IN  [data |-> data, done |-> ch.final /\ Len(data) = Payload[ch.entry]]

\* One chunk arrives, also when its transfer is paused or over.
DeliverChunk ==
    /\ line # <<>>
    /\ LET ch == Head(line)
       IN  /\ rx' = Opened(rx, ch)
           /\ parts' = IF Fits(parts[ch.entry], ch)
                       THEN [parts EXCEPT ![ch.entry] = Joined(@, ch)] ELSE parts
           /\ transferQueue' = IF transferQueue.active.job = 1 THEN Progressed(transferQueue, Len(ch.bytes)) ELSE transferQueue
    /\ line' = Tail(line)
    /\ UNCHANGED <<tx, pauses>>

LibraryNext ==
    \/ EnqueueJob \/ StartNext \/ PauseActive \/ AddProgress
    \/ \E s \in {"Completed", "Failed", "Canceled"} : FinishActive(s)
    \/ NextChunk \/ DeliverChunk

-----------------------------------------------------------------------------
Job == [job : 0..Jobs, state : {"none", "Queued", "Running", "Paused", "Completed", "Failed", "Canceled"},
        bytes : Nat]

LibraryTypeOK ==
    /\ transferQueue.active \in Job /\ transferQueue.asked \in 0..Jobs
    /\ Range(transferQueue.pending) \cup Range(transferQueue.done) \subseteq Job
    /\ \A c \in Range(line) : c.entry \in DOMAIN parts
    /\ rx.entry \in {0} \cup DOMAIN parts /\ pauses \in 0..MaxPauses

\* What the reassembler holds of a file is a prefix of that file, whatever was
\* sent twice, and a finished file is the whole of it.
ReassembledFaithfully ==
    \A e \in DOMAIN parts :
       /\ parts[e].data = [k \in 1..Len(parts[e].data) |-> k]
       /\ parts[e].done => Len(parts[e].data) = Payload[e]

\* The checkpoint a sender would resume from is never ahead of the files: all
\* earlier ones are finished and its own has every byte up to the offset. It also
\* passes the wire's own check of a checkpoint (transferred covers the offset).
NoGapOnResume ==
    rx # NoResume =>
       /\ \A e \in DOMAIN parts : e < rx.entry => parts[e].done
       /\ Len(parts[rx.entry].data) >= rx.offset
       /\ rx.offset = Payload[rx.entry] => parts[rx.entry].done
       /\ rx.sent >= rx.offset

\* A sender that has nothing left to send, with nothing on its way, has
\* delivered every file.
NothingLeftOut ==
    tx # NoSender /\ Cursor(tx).file > Len(FileEntries) /\ line = <<>> => IsComplete

\* Transfers run in the order they were asked for, and a paused one first.
QueueInOrder ==
    LET waiting == (IF transferQueue.active = NoJob THEN <<>> ELSE <<transferQueue.active>>) \o transferQueue.pending
    IN  /\ \A i, j \in 1..Len(waiting) : i < j => waiting[i].job < waiting[j].job
        /\ \A i \in 1..Len(waiting), d \in Range(transferQueue.done) : d.job < waiting[i].job
        /\ Len(transferQueue.done) <= MaxDone
        /\ \A d \in Range(transferQueue.done) : d.bytes <= Total(d.job)

\* The in-memory endpoints over pauses, resumptions and chunks that come late.
LibrarySound ==
    LibraryTypeOK /\ ReassembledFaithfully /\ NoGapOnResume /\ NothingLeftOut /\ QueueInOrder
=============================================================================
