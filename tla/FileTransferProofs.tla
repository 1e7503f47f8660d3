-------------------------- MODULE FileTransferProofs --------------------------
(***************************************************************************)
(* Proofs about FileTransfer, for any manifests, chunk size, policies and   *)
(* number of faults: the type invariant, that only verified bytes are       *)
(* published, that a queue record is removed only once everything is        *)
(* delivered, that user files survive, and that stored bytes stay stored.   *)
(***************************************************************************)
EXTENDS FileTransfer, TLAPS, WellFoundedInduction

-----------------------------------------------------------------------------
(* The inductive invariant                                                  *)

ChunkMessages == [kind : {"Chunk"}, id : Nodes, file : Nat, offset : Nat,
                  len : Nat, last : BOOLEAN, clean : BOOLEAN]
Messages ==
    [kind : {"Offer", "Reject", "Cancel", "Complete"}, id : Nodes]
    \cup [kind : {"Accept", "Checkpoint", "Ack"}, id : Nodes, cp : Checkpoints]
    \cup ChunkMessages

Parts == [len : Nat, clean : BOOLEAN, exists : BOOLEAN]
Finals == {"absent", "good", "user", "bad"}

Cursors == [resume : Checkpoints, file : Nat, offset : Nat,
            finished : BOOLEAN, clean : BOOLEAN]
Writers == [file : Nat, len : Nat, clean : BOOLEAN]
States == [written : BOOLEAN, cp : Checkpoints, complete : BOOLEAN]

\* The elements of a sequence, and so the messages n has sent and its peer has
\* not read.
Elems(s) == {s[k] : k \in 1..Len(s)}
InFlight(n) == Elems(chan[n])

\* What the variables hold: the messages and the part files too, which TypeOK
\* leaves out.
NetTyped == link \in BOOLEAN /\ chan \in [Nodes -> Seq(Messages)]

LaneTyped ==
    /\ pc \in [Nodes -> Places]
    /\ nested \in [Nodes -> BOOLEAN]
    /\ cursor \in [Nodes -> Cursors]
    /\ writer \in [Nodes -> Writers]
    /\ chunk \in [Nodes -> {NoChunk} \cup ChunkMessages]

PermitTyped ==
    /\ busy \in [Nodes -> BOOLEAN]
    /\ queue \in [Nodes -> {"absent", "queued", "removed"}]
    /\ touched \in [Nodes -> BOOLEAN]
    /\ left \in [FaultKinds -> Nat]
    /\ DOMAIN source = Nodes /\ \A n \in Nodes : DOMAIN source[n] = Entries(n)

DiskTyped ==
    /\ root \in [Nodes -> BOOLEAN]
    /\ state \in [Nodes -> States]
    /\ moved \in [Nodes -> SUBSET Nat]
    /\ DOMAIN part = Nodes /\ \A n \in Nodes : part[n] \in [Entries(Other(n)) -> Parts]
    /\ DOMAIN final = Nodes /\ \A n \in Nodes : final[n] \in [Entries(Other(n)) -> Finals]

Typed == NetTyped /\ LaneTyped /\ PermitTyped /\ DiskTyped

\* A sender resumes from a checkpoint of its own manifest and reads inside
\* the file it has open.
CursorOK(n) ==
    /\ pc[n] \in {"reader", "stream", "checkpoint", "terminal"} =>
          ValidCheckpoint(n, cursor[n].resume)
    /\ pc[n] \in {"stream", "checkpoint"} =>
          cursor[n].file \in Files(n) /\ cursor[n].offset <= Size(n, cursor[n].file)

\* A part file that does not exist has no bytes, and one that does has no
\* more than its entry.
PartsOK(n) ==
    \A i \in Entries(Other(n)) :
        /\ part[n][i].len <= Size(Other(n), i)
        /\ ~part[n][i].exists => part[n][i] = NoPart

\* receive_chunk works on a chunk that passed its checks against the state on
\* disk, which does not change before the checkpoint is persisted.
Storing == {"open", "write", "link", "unlink", "persist", "undo"}
ChunkOK(n) ==
    pc[n] \in Storing => chunk[n] \in ChunkMessages /\ ChunkFits(n, chunk[n])

\* The open writer has hashed exactly the bytes of its part file, up to where
\* the receiver is.
WriterAgrees(n) ==
    LET w == writer[n]
    IN w # NoWriter =>
         /\ w.file \in Files(Other(n))
         /\ part[n][w.file] = Part(w.len, w.clean)
         /\ pc[n] \in {"chunk", "ack"} =>
               state[n].cp = At(w.file, w.len) /\ w.len < Size(Other(n), w.file)
         /\ pc[n] \in {"write", "link", "unlink", "persist"} => w.file = chunk[n].file
         /\ pc[n] = "write" => w.len = chunk[n].offset
         /\ pc[n] \in {"link", "unlink"} => w.clean
         /\ pc[n] = "persist" => ~chunk[n].last /\ w.len = chunk[n].offset + chunk[n].len
WriterOK(n) ==
    /\ writer[n] # NoWriter => pc[n] \in {"chunk", "ack", "write", "link", "unlink", "persist"}
    /\ pc[n] \in {"write", "link", "unlink"} => writer[n] # NoWriter
    /\ pc[n] = "persist" /\ ~chunk[n].last => writer[n] # NoWriter
    /\ pc[n] \in {"link", "unlink"} => chunk[n].last
    /\ WriterAgrees(n)

\* The files a checkpoint declares complete.
Behind(t, cp) ==
    {i \in Files(t) : i < cp.file \/ (i = cp.file /\ ~(cp.offset < Size(t, i)))}
Published(n, i) == final[n][i] = "good" \/ touched[n]
Unpublished(n, i) == final[n][i] = "absent" \/ touched[n]

\* Whatever a checkpoint in use declares complete is published, unless the
\* user has changed received files; the file being written is not there yet.
Receiving == {"chunk", "ack"} \cup Storing
CheckpointOK(n) ==
    /\ pc[n] = "accept" => \A i \in Behind(Other(n), cursor[n].resume) : Published(n, i)
    /\ pc[n] = "accept" =>
          \/ NextPosition(Other(n), cursor[n].resume) = NoCheckpoint
          \/ touched[n]
          \/ \E i \in Files(Other(n)) : final[n][i] # "good"
    /\ pc[n] \in Receiving => \A i \in Behind(Other(n), state[n].cp) : Published(n, i)
    /\ pc[n] = "complete" => \A i \in Files(Other(n)) : Published(n, i)
    /\ pc[n] = "unlink" => Published(n, chunk[n].file)
    /\ pc[n] = "persist" /\ chunk[n].last => Published(n, chunk[n].file)
    /\ pc[n] \in {"write", "link", "undo"} => Unpublished(n, chunk[n].file)
    /\ writer[n] # NoWriter /\ pc[n] # "unlink" => Unpublished(n, writer[n].file)

\* What lies on disk is a prefix of the manifest.
PrefixOK(n) ==
    ~touched[n] =>
        \A i, j \in Files(Other(n)) :
            i < j /\ (final[n][j] = "good" \/ part[n][j].exists) => final[n][i] = "good"

\* The receiver's acknowledgement of the whole transfer is true while it is
\* under way, and so is the removal that follows it.
Handed(n) == Delivered(Other(n)) \/ touched[n]
AckOK(n) ==
    /\ \A m \in InFlight(n) : m.kind = "Ack" /\ m.id = Other(n) => Handed(n)
    /\ queue[Other(n)] = "removed" => Handed(n)

\* While no source has been edited, only the queued bytes travel and arrive.
Unedited == left["source"] = Budget["source"]
CleanSent(n) == \A m \in InFlight(n) : m.kind = "Chunk" => m.clean
CleanDisk(n) ==
    /\ \A i \in Entries(n) : source[n][i] = "original"
    /\ pc[n] \in Storing => chunk[n].clean
    /\ \A i \in Entries(Other(n)) : part[n][i].clean

LaneOK(n) == PartsOK(n) /\ ChunkOK(n) /\ WriterOK(n) /\ CheckpointOK(n) /\ PrefixOK(n)

Inv ==
    /\ Typed
    /\ PublishedIsVerified
    /\ left["source"] <= Budget["source"]
    /\ \A n \in Nodes : CursorOK(n) /\ LaneOK(n) /\ AckOK(n)
    /\ Unedited => \A n \in Nodes : CleanSent(n) /\ CleanDisk(n)

-----------------------------------------------------------------------------
(* Sequences                                                                *)

\* An element of a sequence over S is in S.
LEMMA SeqElement ==
    ASSUME NEW S, NEW s \in Seq(S), NEW i \in 1..Len(s)
    PROVE  s[i] \in S
OBVIOUS

\* Reading the head of a sequence leaves some of its elements.
LEMMA ElemsTail ==
    ASSUME NEW S, NEW s \in Seq(S), s # <<>>
    PROVE  /\ Head(s) \in S /\ Head(s) \in Elems(s)
           /\ Tail(s) \in Seq(S)
           /\ \A m \in Elems(Tail(s)) : m \in Elems(s)
<1>1. Len(s) \in Nat /\ Len(s) >= 1 /\ Head(s) = s[1] /\ Tail(s) \in Seq(S)
      /\ Len(Tail(s)) = Len(s) - 1
  OBVIOUS
<1>2. \A k \in 1..Len(Tail(s)) : Tail(s)[k] = s[k + 1]
  OBVIOUS
<1> QED
  BY <1>1, <1>2, SeqElement DEF Elems

\* Appending adds one element.
LEMMA ElemsAppend ==
    ASSUME NEW S, NEW s \in Seq(S), NEW m \in S
    PROVE  /\ Append(s, m) \in Seq(S)
           /\ s \o <<m>> = Append(s, m) /\ s \o <<>> = s
           /\ \A x \in Elems(Append(s, m)) : x \in Elems(s) \/ x = m
<1>1. Append(s, m) \in Seq(S) /\ Len(Append(s, m)) = Len(s) + 1 /\ Len(s) \in Nat
  OBVIOUS
<1>2. \A k \in 1..Len(s) + 1 : Append(s, m)[k] = IF k <= Len(s) THEN s[k] ELSE m
  OBVIOUS
<1>3. s \o <<m>> = Append(s, m) /\ s \o <<>> = s
  OBVIOUS
<1> QED
  BY <1>1, <1>2, <1>3 DEF Elems

-----------------------------------------------------------------------------
(* Manifest arithmetic                                                      *)

\* First is the least element of a set of entry numbers.
LEMMA FirstLeast ==
    ASSUME NEW S \in SUBSET Nat, S # {}
    PROVE  First(S) \in S /\ \A j \in S : First(S) <= j
<1>1. PICK x \in S : \A y \in S : ~(<<y, x>> \in OpToRel(<, Nat))
  BY NatLessThanWellFounded, WFMin
<1>2. \A y, z \in Nat : y < z => <<y, z>> \in OpToRel(<, Nat)
  BY Zenon DEF OpToRel
<1>3. \A y \in S : y \in Nat /\ x \in Nat /\ ~(y < x)
  BY <1>1, <1>2, Zenon
<1>4. \A y \in S : x <= y
  BY <1>3
<1> QED
  BY <1>4 DEF First

\* Last is the greatest element of a bounded set of entry numbers.
LEMMA LastGreatest ==
    ASSUME NEW S \in SUBSET Nat, S # {}, NEW b \in Nat, \A j \in S : j <= b
    PROVE  Last(S) \in S /\ \A j \in S : j <= Last(S)
<1> DEFINE Bounds == {k \in Nat : \A j \in S : j <= k}
<1>1. Bounds \in SUBSET Nat /\ Bounds # {}
  OBVIOUS
<1>2. First(Bounds) \in Bounds /\ \A k \in Bounds : First(Bounds) <= k
  BY <1>1, FirstLeast
<1> HIDE DEF Bounds
<1>3. First(Bounds) \in S
  <2> SUFFICES ASSUME First(Bounds) \notin S PROVE FALSE
    OBVIOUS
  <2> DEFINE m == First(Bounds)
  <2>1. m \in Nat /\ \A j \in S : j < m
    BY <1>2 DEF Bounds
  <2>2. m - 1 \in Nat /\ \A j \in S : j <= m - 1
    <3>1. PICK j \in S : TRUE
      OBVIOUS
    <3>2. j \in Nat /\ j < m
      BY <2>1, <3>1
    <3> HIDE DEF m
    <3> QED
      BY <2>1, <3>2
  <2>3. m - 1 \in Bounds
    BY <2>2 DEF Bounds
  <2> QED
    BY <2>1, <2>3, <1>2
<1>4. \A j \in S : j <= First(Bounds)
  BY <1>2 DEF Bounds
<1> QED
  BY <1>3, <1>4 DEF Last

\* Entries are positive numbers with a size.
LEMMA ManifestFacts ==
    ASSUME NEW t \in Nodes
    PROVE  /\ Len(Manifest[t]) \in Nat \ {0}
           /\ Entries(t) \in SUBSET Nat /\ Files(t) \in SUBSET Entries(t)
           /\ \A i \in Entries(t) : i >= 1 /\ i <= Len(Manifest[t]) /\ Size(t, i) \in Nat
<1>1. Manifest[t] \in Seq([dir : BOOLEAN, size : Nat]) /\ Manifest[t] # <<>>
  BY TransferConstantsOK
<1>2. Len(Manifest[t]) \in Nat \ {0}
  BY <1>1
<1>3. \A i \in 1..Len(Manifest[t]) : Manifest[t][i] \in [dir : BOOLEAN, size : Nat]
  BY <1>1, SeqElement
<1> QED
  BY <1>2, <1>3 DEF Entries, Files, Size

\* Nodes come in pairs.
LEMMA OtherFacts ==
    ASSUME NEW n \in Nodes
    PROVE  /\ Other(n) \in Nodes /\ Other(Other(n)) = n /\ Other(n) # n
           /\ \A x \in Nodes : x = n \/ x = Other(n)
BY DEF Nodes, Other

\* next_file_position is a position inside a file, everything before which the
\* checkpoint declares complete; without one everything is.
LEMMA NextPositionFacts ==
    ASSUME NEW t \in Nodes, NEW cp \in Checkpoints
    PROVE  LET pos == NextPosition(t, cp)
           IN /\ pos # NoCheckpoint =>
                   /\ pos \in Checkpoints /\ pos.file \in Files(t)
                   /\ \A i \in Files(t) : i < pos.file => i \in Behind(t, cp)
                   /\ pos = cp \/ (pos.file # cp.file /\ pos.offset = 0)
              /\ pos = NoCheckpoint => \A i \in Files(t) : i \in Behind(t, cp)
              /\ cp.file \in Files(t) /\ cp.offset < Size(t, cp.file) => pos = cp
<1> DEFINE later == {i \in Files(t) : cp.file < i}
<1>1. cp.file \in Nat /\ cp.offset \in Nat /\ cp = [file |-> cp.file, offset |-> cp.offset]
  BY DEF Checkpoints
<1>2. later # {} => First(later) \in later /\ \A j \in later : First(later) <= j
  BY FirstLeast, ManifestFacts
<1>3. CASE cp.file \in Files(t) /\ cp.offset < Size(t, cp.file)
  <2>1. NextPosition(t, cp) = cp
    BY <1>3 DEF NextPosition
  <2>2. cp # NoCheckpoint
    BY <1>3, ManifestFacts DEF NoCheckpoint
  <2> QED
    BY <1>1, <1>3, <2>1, <2>2, ManifestFacts DEF Behind
<1>4. CASE ~(cp.file \in Files(t) /\ cp.offset < Size(t, cp.file)) /\ later = {}
  <2>1. NextPosition(t, cp) = NoCheckpoint
    BY <1>4 DEF NextPosition
  <2>2. \A i \in Files(t) : i \in Behind(t, cp)
    BY <1>1, <1>4, ManifestFacts DEF Behind
  <2> QED
    BY <1>4, <2>1, <2>2
<1>5. CASE ~(cp.file \in Files(t) /\ cp.offset < Size(t, cp.file)) /\ later # {}
  <2> DEFINE f == First(later)
  <2>1. NextPosition(t, cp) = At(f, 0)
    BY <1>5 DEF NextPosition
  <2>2. f \in Files(t) /\ f \in Nat /\ f >= 1 /\ cp.file < f
    BY <1>2, <1>5, ManifestFacts
  <2>3. At(f, 0) # NoCheckpoint /\ At(f, 0) \in Checkpoints /\ At(f, 0).file = f /\ At(f, 0).offset = 0
    BY <2>2 DEF At, NoCheckpoint, Checkpoints
  <2>4. ASSUME NEW i \in Files(t), i < f PROVE i \in Behind(t, cp)
    <3>1. i \in Nat
      BY ManifestFacts
    <3>2. i \in later => f <= i
      BY <1>2
    <3>3. ~(cp.file < i)
      <4> HIDE DEF f
      <4> QED
        BY <2>2, <2>4, <3>1, <3>2
    <3> QED
      BY <1>1, <1>5, <3>1, <3>3 DEF Behind
  <2> HIDE DEF f
  <2> QED
    BY <1>1, <1>5, <2>1, <2>2, <2>3, <2>4
<1> QED
  BY <1>3, <1>4, <1>5

\* The last entry of a non-empty set of files.
LEMMA LastFile ==
    ASSUME NEW t \in Nodes, NEW S \in SUBSET Files(t), S # {}
    PROVE  /\ Last(S) \in S /\ \A j \in S : j <= Last(S)
           /\ Last(S) \in Nat /\ Last(S) >= 1 /\ Size(t, Last(S)) \in Nat
BY LastGreatest, ManifestFacts

\* The terminal checkpoint leaves no position.
LEMMA TerminalFacts ==
    ASSUME NEW t \in Nodes
    PROVE  /\ Terminal(t) \in Checkpoints
           /\ Files(t) # {} => NextPosition(t, Terminal(t)) = NoCheckpoint
           /\ Files(t) = {} => NextPosition(t, NoCheckpoint) = NoCheckpoint
<1>1. CASE Files(t) = {}
  BY <1>1, ManifestFacts DEF Terminal, At, Checkpoints, NextPosition, NoCheckpoint
<1>2. CASE Files(t) # {}
  <2> DEFINE l == Last(Files(t))
  <2>1. l \in Files(t) /\ (\A j \in Files(t) : j <= l) /\ l \in Nat /\ Size(t, l) \in Nat
    BY <1>2, LastFile
  <2>2. Terminal(t) = At(l, Size(t, l))
    BY <1>2 DEF Terminal
  <2> HIDE DEF l
  <2>3. At(l, Size(t, l)).file = l /\ At(l, Size(t, l)).offset = Size(t, l)
        /\ At(l, Size(t, l)) \in Checkpoints
    BY <2>1 DEF At, Checkpoints
  <2>4. {i \in Files(t) : l < i} = {}
    BY <2>1, ManifestFacts
  <2>5. NextPosition(t, At(l, Size(t, l))) = NoCheckpoint
    BY <2>1, <2>3, <2>4 DEF NextPosition
  <2> QED
    BY <1>2, <2>2, <2>3, <2>5
<1> QED
  BY <1>1, <1>2

\* checkpoint_before_entry declares complete only earlier files.
LEMMA CheckpointBeforeFacts ==
    ASSUME NEW t \in Nodes, NEW i \in Files(t)
    PROVE  /\ CheckpointBefore(t, i) \in Checkpoints
           /\ \A j \in Behind(t, CheckpointBefore(t, i)) : j \in Files(t) /\ j < i
<1> DEFINE earlier == {j \in Files(t) : j < i}
<1>1. CASE earlier = {}
  BY <1>1, ManifestFacts DEF CheckpointBefore, NoCheckpoint, Checkpoints, Behind
<1>2. CASE earlier # {}
  <2> DEFINE l == Last(earlier)
  <2>1. earlier \in SUBSET Files(t)
    OBVIOUS
  <2>2. l \in earlier /\ l \in Nat /\ Size(t, l) \in Nat
    BY <1>2, <2>1, LastFile
  <2>3. l \in Files(t) /\ l < i /\ i \in Nat
    BY <2>2, ManifestFacts
  <2>4. CheckpointBefore(t, i) = At(l, Size(t, l))
    BY <1>2 DEF CheckpointBefore
  <2> HIDE DEF l, earlier
  <2> QED
    BY <2>2, <2>3, <2>4, ManifestFacts DEF At, Checkpoints, Behind
<1> QED
  BY <1>1, <1>2

-----------------------------------------------------------------------------
(* What a step puts on the wire                                             *)

\* Every step adds to what is in flight at most one message m, of node n.
Wire(n, m) ==
    /\ chan' \in [Nodes -> Seq(Messages)]
    /\ \A x \in Nodes : \A k \in InFlight(x)' : k \in InFlight(x) \/ (x = n /\ k = m)

\* The messages of the protocol.
LEMMA MessagesTyped ==
    ASSUME NEW t \in Nodes, NEW cp \in Checkpoints
    PROVE  /\ Offer(t) \in Messages /\ Reject(t) \in Messages /\ Cancel(t) \in Messages
           /\ Complete(t) \in Messages /\ Accept(t, cp) \in Messages
           /\ Checkpoint(t, cp) \in Messages /\ Ack(t, cp) \in Messages
BY DEF Messages, Offer, Reject, Cancel, Complete, Accept, Checkpoint, Ack

\* A chunk message.
LEMMA ChunkTyped ==
    ASSUME NEW t \in Nodes, NEW i \in Nat, NEW offset \in Nat, NEW l \in Nat,
           NEW last \in BOOLEAN, NEW clean \in BOOLEAN
    PROVE  Chunk(t, i, offset, l, last, clean) \in ChunkMessages
BY DEF ChunkMessages, Chunk

\* Nodes name the transfer of a message they read.
LEMMA MessageFields ==
    ASSUME NEW m \in Messages
    PROVE  /\ m.id \in Nodes
           /\ m.kind \in {"Accept", "Checkpoint", "Ack"} => m.cp \in Checkpoints
           /\ m.kind = "Chunk" => m \in ChunkMessages
BY DEF Messages, ChunkMessages

\* Nothing is sent or read.
LEMMA WireSame ==
    ASSUME NetTyped, UNCHANGED chan, NEW n, NEW m
    PROVE  Wire(n, m)
BY DEF NetTyped, Wire, InFlight

\* The link breaks.
LEMMA WireCut ==
    ASSUME Disconnected, NEW n, NEW m
    PROVE  Wire(n, m)
BY DEF Disconnected, Wire, InFlight, Elems, Nodes

\* A node sends.
LEMMA WireSend ==
    ASSUME NetTyped, NEW n \in Nodes, NEW m \in Messages,
           chan' = [chan EXCEPT ![n] = Append(@, m)]
    PROVE  Wire(n, m)
BY ElemsAppend DEF NetTyped, Wire, InFlight

\* A node reads.
LEMMA WireRead ==
    ASSUME NetTyped, NEW n \in Nodes, NEW m, Inbox(n) # <<>>, Read(n)
    PROVE  Wire(n, m) /\ Head(Inbox(n)) \in Messages
                      /\ Head(Inbox(n)) \in InFlight(Other(n))
BY ElemsTail, OtherFacts DEF NetTyped, Wire, InFlight, Read, Inbox

\* A node answers what it reads.
LEMMA WireAnswer ==
    ASSUME NetTyped, NEW n \in Nodes, NEW m \in Messages, Inbox(n) # <<>>, Answer(n, m)
    PROVE  Wire(n, m)
BY ElemsTail, ElemsAppend, OtherFacts DEF NetTyped, Wire, InFlight, Answer, Inbox

\* handle_idle_message reports a failure, after a message or without one.
LEMMA WireReply ==
    ASSUME NetTyped, NEW n \in Nodes,
           \/ chan' = [chan EXCEPT ![n] = @ \o FailReply(n)]
           \/ /\ Inbox(n) # <<>>
              /\ chan' = [chan EXCEPT ![Other(n)] = Tail(@), ![n] = @ \o FailReply(n)]
    PROVE  Wire(n, Cancel(Other(n)))
<1> DEFINE m == Cancel(Other(n))
<1>1. m \in Messages
  BY OtherFacts DEF Messages, Cancel
<1> DEFINE q == chan[n] \o FailReply(n)
<1>2. q = chan[n] \/ q = Append(chan[n], m)
  BY <1>1, ElemsAppend DEF FailReply, NetTyped
<1>3. chan[n] \in Seq(Messages) /\ chan[Other(n)] \in Seq(Messages)
  BY OtherFacts DEF NetTyped
<1> HIDE DEF m, q
<1>4. q \in Seq(Messages) /\ \A x \in Elems(q) : x \in Elems(chan[n]) \/ x = m
  <2>1. /\ Append(chan[n], m) \in Seq(Messages)
        /\ \A x \in Elems(Append(chan[n], m)) : x \in Elems(chan[n]) \/ x = m
    BY <1>1, <1>3, ElemsAppend
  <2> QED
    BY <1>2, <1>3, <2>1, Zenon
<1>5. ASSUME chan' = [chan EXCEPT ![n] = q]
      PROVE  Wire(n, m)
  BY <1>4, <1>5 DEF NetTyped, Wire, InFlight
<1>6. ASSUME Inbox(n) # <<>>, chan' = [chan EXCEPT ![Other(n)] = Tail(@), ![n] = q]
      PROVE  Wire(n, m)
  BY <1>3, <1>4, <1>6, ElemsTail, OtherFacts DEF NetTyped, Wire, InFlight, Inbox
<1>7. \/ chan' = [chan EXCEPT ![n] = q]
      \/ Inbox(n) # <<>> /\ chan' = [chan EXCEPT ![Other(n)] = Tail(@), ![n] = q]
  BY OtherFacts DEF q
<1> QED
  BY <1>5, <1>6, <1>7 DEF m

-----------------------------------------------------------------------------
(* Frames                                                                   *)

\* A step leaves node x alone.
Same(x) ==
    /\ pc'[x] = pc[x] /\ cursor'[x] = cursor[x] /\ writer'[x] = writer[x]
    /\ chunk'[x] = chunk[x] /\ state'[x] = state[x] /\ part'[x] = part[x]
    /\ final'[x] = final[x] /\ touched'[x] = touched[x] /\ source'[x] = source[x]

\* What is known of a lane that a step leaves alone stays known.
LEMMA LaneKept ==
    ASSUME Inv, NEW x \in Nodes,
           pc'[x] = pc[x], cursor'[x] = cursor[x], writer'[x] = writer[x],
           chunk'[x] = chunk[x], state'[x] = state[x], part'[x] = part[x],
           final'[x] = final[x], touched'[x] = touched[x]
    PROVE  CursorOK(x)' /\ LaneOK(x)' /\ (Handed(x) => Handed(x)')
<1>1. CursorOK(x) /\ LaneOK(x)
  BY DEF Inv
<1>2. CursorOK(x)'
  BY <1>1 DEF CursorOK
<1>3. PartsOK(x)'
  BY <1>1 DEF LaneOK, PartsOK
<1>4. ChunkOK(x)'
  BY <1>1 DEF LaneOK, ChunkOK, ChunkFits
<1>5. WriterOK(x)'
  BY <1>1 DEF LaneOK, WriterOK, WriterAgrees
<1>6. CheckpointOK(x)'
  BY <1>1 DEF LaneOK, CheckpointOK, Published, Unpublished
<1>7. PrefixOK(x)'
  BY <1>1 DEF LaneOK, PrefixOK
<1>8. Handed(x) => Handed(x)'
  BY OtherFacts DEF Handed, Delivered
<1> QED
  BY <1>2, <1>3, <1>4, <1>5, <1>6, <1>7, <1>8 DEF LaneOK

\* What is known of a node that a step leaves alone stays known.
LEMMA SameKept ==
    ASSUME Inv, NEW x \in Nodes, Same(x)
    PROVE  /\ CursorOK(x)' /\ LaneOK(x)'
           /\ Handed(x) => Handed(x)'
           /\ CleanDisk(x) => CleanDisk(x)'
<1>1. CleanDisk(x) => CleanDisk(x)'
  BY DEF CleanDisk, Same
<1> QED
  BY <1>1, LaneKept DEF Same

\* A step of node n preserves the invariant when it keeps what is known of n,
\* sends only what is true and spends no budget that Unedited watches.
LEMMA Assemble ==
    ASSUME Inv, Typed', NEW n \in Nodes, NEW m, Wire(n, m), Same(Other(n)),
           left'["source"] <= left["source"],
           \A i \in Entries(Other(n)) : final'[n][i] # "bad",
           CursorOK(n)', LaneOK(n)',
           Handed(n) => Handed(n)',
           m.kind = "Ack" /\ m.id = Other(n) => Handed(n)',
           Unedited /\ Unedited' => (m.kind = "Chunk" => m.clean) /\ CleanDisk(n)',
           \A x \in Nodes : queue'[x] = "removed" => queue[x] = "removed" \/ Handed(Other(x))
    PROVE  Inv'
<1> DEFINE o == Other(n)
<1>1. o \in Nodes /\ Other(o) = n /\ o # n /\ \A x \in Nodes : x = n \/ x = o
  BY OtherFacts
<1>2. /\ CursorOK(o)' /\ LaneOK(o)' /\ (Handed(o) => Handed(o)')
      /\ CleanDisk(o) => CleanDisk(o)'
  BY <1>1, SameKept
<1>3. PublishedIsVerified'
  BY <1>1 DEF PublishedIsVerified, Inv, Same
<1>4. left["source"] \in Nat /\ left'["source"] \in Nat /\ Budget["source"] \in Nat
      /\ left["source"] <= Budget["source"]
  BY TransferConstantsOK DEF Inv, Typed, PermitTyped, FaultKinds
<1>5. left'["source"] <= Budget["source"] /\ (Unedited' => Unedited)
  BY <1>4 DEF Unedited
<1>6. \A x \in Nodes : Handed(x) => Handed(x)'
  BY <1>1, <1>2
<1>7. \A x \in Nodes : AckOK(x)'
  <2> SUFFICES ASSUME NEW x \in Nodes PROVE AckOK(x)'
    OBVIOUS
  <2>1. AckOK(x) /\ (Handed(x) => Handed(x)') /\ Other(Other(x)) = x /\ Other(x) \in Nodes
    BY <1>6, OtherFacts DEF Inv
  <2>2. ASSUME NEW k \in InFlight(x)', k.kind = "Ack", k.id = Other(x) PROVE Handed(x)'
    BY <2>1, <2>2 DEF Wire, AckOK
  <2>3. queue'[Other(x)] = "removed" => Handed(x)'
    BY <2>1 DEF AckOK
  <2> QED
    BY <2>2, <2>3 DEF AckOK
<1>8. ASSUME Unedited', NEW x \in Nodes PROVE CleanSent(x)' /\ CleanDisk(x)'
  <2>1. CleanSent(x) /\ CleanDisk(x)
    BY <1>5, <1>8 DEF Inv
  <2>2. (m.kind = "Chunk" => m.clean) /\ CleanDisk(n)'
    BY <1>5, <1>8
  <2>3. CleanSent(x)'
    BY <2>1, <2>2 DEF CleanSent, Wire
  <2> QED
    BY <1>1, <1>2, <2>1, <2>2, <2>3
<1>9. \A x \in Nodes : CursorOK(x)' /\ LaneOK(x)'
  BY <1>1, <1>2
<1> QED
  BY <1>3, <1>5, <1>7, <1>8, <1>9 DEF Inv

\* The places at which a lane neither stores nor acts on a checkpoint.
QuietPlaces == {"down", "loop", "idle", "reader", "stream", "offered", "checkpoint",
                "terminal", "prepare", "reconcile"}

\* A lane that arrives at a quiet place without a writer and without touching
\* the disk keeps the invariant.
LEMMA QuietStep ==
    ASSUME Inv, Typed', NEW n \in Nodes, NEW m, Wire(n, m), Same(Other(n)),
           left'["source"] <= left["source"],
           UNCHANGED <<source, state, part, final, touched>>,
           pc'[n] \in QuietPlaces, writer'[n] = NoWriter, CursorOK(n)',
           m.kind = "Ack" => m.id = n,
           m.kind = "Chunk" /\ Unedited => m.clean,
           \A x \in Nodes : queue'[x] = "removed" => queue[x] = "removed" \/ Handed(Other(x))
    PROVE  Inv'
<1>1. LaneOK(n) /\ PublishedIsVerified
  BY DEF Inv
<1>2. PartsOK(n)'
  BY <1>1 DEF LaneOK, PartsOK
<1>3. ChunkOK(n)'
  BY DEF ChunkOK, QuietPlaces, Storing
<1>4. WriterOK(n)'
  BY DEF WriterOK, WriterAgrees, QuietPlaces
<1>5. CheckpointOK(n)'
  BY DEF CheckpointOK, QuietPlaces, Receiving, Storing
<1>6. PrefixOK(n)'
  BY <1>1 DEF LaneOK, PrefixOK
<1>7. Handed(n) => Handed(n)'
  BY DEF Handed, Delivered
<1>8. Unedited => CleanDisk(n)'
  BY DEF Inv, CleanDisk, QuietPlaces, Storing
<1>9. \A i \in Entries(Other(n)) : final'[n][i] # "bad"
  BY <1>1 DEF PublishedIsVerified
<1>10. LaneOK(n)'
  BY <1>2, <1>3, <1>4, <1>5, <1>6 DEF LaneOK
<1>11. ~(m.kind = "Ack" /\ m.id = Other(n))
  BY OtherFacts
<1> QED
  BY <1>7, <1>8, <1>9, <1>10, <1>11, Assemble

\* The constants of a lane that rests.
LEMMA RestTyped ==
    /\ NoCursor \in Cursors /\ NoWriter \in Writers /\ NoCheckpoint \in Checkpoints
    /\ \A cp \in Checkpoints : [NoCursor EXCEPT !.resume = cp] \in Cursors
BY DEF NoCursor, Cursors, NoWriter, Writers, NoCheckpoint, Checkpoints

\* Nobody but a lane moves.
Aside == <<busy, queue, source, touched, left>>

\* Without a fault or a user, budgets and queue records stay.
LEMMA AsideKept ==
    ASSUME Inv, UNCHANGED Aside
    PROVE  /\ PermitTyped' /\ left'["source"] <= left["source"]
           /\ \A x \in Nodes : queue'[x] = "removed" => queue[x] = "removed"
BY DEF Inv, Typed, PermitTyped, Aside, FaultKinds

\* Returning from run_outbound or run_inbound keeps the invariant.
LEMMA LeaveStep ==
    ASSUME Inv, NEW n \in Nodes, NEW place \in {"down", "loop"}, Leave(n, place),
           NEW m, Wire(n, m), m.kind \notin {"Ack", "Chunk"},
           link' \in BOOLEAN, PermitTyped', left'["source"] <= left["source"],
           UNCHANGED <<source, state, part, final, moved, touched>>,
           root' \in [Nodes -> BOOLEAN],
           \A x \in Nodes : queue'[x] = "removed" => queue[x] = "removed" \/ Handed(Other(x))
    PROVE  Inv'
<1>1. LaneTyped'
  BY RestTyped DEF Inv, Typed, LaneTyped, Leave, Goto, Places
<1>2. DiskTyped'
  BY DEF Inv, Typed, DiskTyped
<1>3. Typed'
  BY <1>1, <1>2 DEF Typed, NetTyped, Wire
<1>4. pc'[n] = place /\ writer'[n] = NoWriter
  BY DEF Inv, Typed, LaneTyped, Leave, Goto
<1>5. Same(Other(n))
  BY OtherFacts DEF Inv, Typed, LaneTyped, Leave, Goto, Same
<1>6. CursorOK(n)'
  BY <1>4 DEF CursorOK
<1>7. pc'[n] \in QuietPlaces
  BY <1>4 DEF QuietPlaces
<1> QED
  BY <1>3, <1>4, <1>5, <1>6, <1>7, QuietStep

\* The same, when the step does nothing else.
LEMMA LeaveCalmly ==
    ASSUME Inv, NEW n \in Nodes, NEW place \in {"down", "loop"}, Leave(n, place),
           NEW m, Wire(n, m), m.kind \notin {"Ack", "Chunk"},
           UNCHANGED <<link, Aside, received>>
    PROVE  Inv'
<1>1. link' \in BOOLEAN /\ root' \in [Nodes -> BOOLEAN]
  BY DEF Inv, Typed, NetTyped, DiskTyped, received
<1>2. UNCHANGED Aside /\ UNCHANGED <<source, state, part, final, moved, touched>>
  BY DEF Aside, received
<1> QED
  BY <1>1, <1>2, AsideKept, LeaveStep

\* Moving on between quiet places keeps the invariant.
LEMMA GotoStep ==
    ASSUME Inv, NEW n \in Nodes, pc[n] \in QuietPlaces,
           NEW place \in QuietPlaces, Goto(n, place),
           NEW m, Wire(n, m), m.kind = "Ack" => m.id = n, m.kind = "Chunk" /\ Unedited => m.clean,
           nested' \in [Nodes -> BOOLEAN], cursor' \in [Nodes -> Cursors],
           cursor'[Other(n)] = cursor[Other(n)], root' \in [Nodes -> BOOLEAN],
           UNCHANGED <<link, writer, chunk, Aside, state, part, final, moved>>,
           CursorOK(n)'
    PROVE  Inv'
<1>1. LaneTyped' /\ pc'[n] = place
  BY DEF Inv, Typed, LaneTyped, Goto, Places, QuietPlaces, SenderWaits, ReceiverDisk
<1>2. DiskTyped' /\ link' \in BOOLEAN
  BY DEF Inv, Typed, DiskTyped, NetTyped
<1>3. UNCHANGED Aside /\ PermitTyped'
  BY AsideKept
<1>4. Typed'
  BY <1>1, <1>2, <1>3 DEF Typed, NetTyped, Wire
<1>5. writer'[n] = NoWriter
  BY DEF Inv, LaneOK, WriterOK, QuietPlaces
<1>6. Same(Other(n))
  BY OtherFacts DEF Inv, Typed, LaneTyped, Goto, Same, Aside
<1>7. UNCHANGED <<source, state, part, final, touched>>
  BY DEF Aside
<1> QED
  BY <1>1, <1>3, <1>4, <1>5, <1>6, <1>7, AsideKept, QuietStep

-----------------------------------------------------------------------------
(* The sender's steps                                                       *)

\* A step that leaves both lanes alone keeps everything known of them.
LEMMA OutsideStep ==
    ASSUME Inv, Typed', NEW n \in Nodes, NEW m, Wire(n, m), m.kind \notin {"Ack", "Chunk"},
           Same(n), Same(Other(n)), left'["source"] <= left["source"],
           \A x \in Nodes : queue'[x] = "removed" => queue[x] = "removed"
    PROVE  Inv'
<1>1. /\ CursorOK(n)' /\ LaneOK(n)' /\ (Handed(n) => Handed(n)')
      /\ CleanDisk(n) => CleanDisk(n)'
  BY SameKept
<1>2. \A i \in Entries(Other(n)) : final'[n][i] # "bad"
  BY DEF Inv, PublishedIsVerified, Same
<1>3. Unedited => CleanDisk(n)
  BY DEF Inv
<1> QED
  BY <1>1, <1>2, <1>3, Assemble

\* A lane that only reads and answers keeps everything known of it.
LEMMA ReplyStep ==
    ASSUME Inv, NEW n \in Nodes, NEW m, Wire(n, m), m.kind \notin {"Ack", "Chunk"},
           UNCHANGED <<link, lane, Aside, received>>
    PROVE  Inv'
<1>1. UNCHANGED Aside /\ Same(n) /\ Same(Other(n))
  BY DEF Aside, Same, received, lane
<1>2. Typed'
  BY AsideKept, <1>1 DEF Inv, Typed, NetTyped, LaneTyped, DiskTyped, Wire, received, lane
<1> QED
  BY <1>1, <1>2, AsideKept, OutsideStep

\* Quiet messages, and the empty inbox of a node.
LEMMA QuietMessages ==
    ASSUME NEW t \in Nodes, NEW cp
    PROVE  /\ Offer(t).kind \notin {"Ack", "Chunk"} /\ Reject(t).kind \notin {"Ack", "Chunk"}
           /\ Cancel(t).kind \notin {"Ack", "Chunk"} /\ Complete(t).kind \notin {"Ack", "Chunk"}
           /\ Accept(t, cp).kind \notin {"Ack", "Chunk"}
           /\ Checkpoint(t, cp).kind \notin {"Ack", "Chunk"}
           /\ Ack(t, cp).id = t /\ Ack(t, cp).kind = "Ack"
           /\ Offer(t) \in Messages /\ Reject(t) \in Messages /\ Cancel(t) \in Messages
           /\ Complete(t) \in Messages
BY DEF Messages, Offer, Reject, Cancel, Complete, Accept, Checkpoint, Ack

\* The steps of a lane that is not sending: the queue scan, the queue poll, an
\* offer that crosses another, a stale message and an offer during a transfer.
LEMMA ScanSteps ==
    ASSUME Inv, NEW n \in Nodes,
           \/ ScanQueue(n) \/ PollTick(n) \/ OffersCollide(n)
           \/ SkipStale(n) \/ RejectBusy(n)
    PROVE  Inv'
<1> DEFINE o == Other(n)
<1>1. o \in Nodes
  BY OtherFacts
<1>2. NetTyped /\ nested \in [Nodes -> BOOLEAN] /\ cursor \in [Nodes -> Cursors]
      /\ root \in [Nodes -> BOOLEAN] /\ pc \in [Nodes -> Places]
  BY DEF Inv, Typed, LaneTyped, DiskTyped
<1>3. CASE ScanQueue(n)
  <2>1. UNCHANGED <<link, nested, cursor, root, writer, chunk, Aside, state, part, final, moved>>
    BY <1>3 DEF ScanQueue, Aside, received, Calm
  <2>2. PICK place \in {"offered", "idle"} : Goto(n, place) /\ Wire(n, Offer(n))
    BY <1>2, <1>3, WireSend, WireSame, QuietMessages DEF ScanQueue, Send
  <2>3. place \in QuietPlaces /\ pc[n] \in QuietPlaces /\ CursorOK(n)'
    BY <1>2, <1>3, <2>2 DEF ScanQueue, CursorOK, Goto, QuietPlaces
  <2> QED
    BY <1>2, <2>1, <2>2, <2>3, QuietMessages, GotoStep
<1>4. CASE PollTick(n)
  <2>1. UNCHANGED <<link, chan, nested, cursor, root, writer, chunk, Aside, state, part, final, moved>>
    BY <1>4 DEF PollTick, Aside, received, Calm, net
  <2>2. "loop" \in QuietPlaces /\ Goto(n, "loop") /\ pc[n] \in QuietPlaces /\ CursorOK(n)'
    BY <1>2, <1>4 DEF PollTick, CursorOK, Goto, QuietPlaces
  <2> QED
    BY <1>2, <2>1, <2>2, WireSame, QuietMessages, GotoStep
<1>5. CASE OffersCollide(n)
  <2>1. UNCHANGED <<link, cursor, root, writer, chunk, Aside, state, part, final, moved>>
        /\ Inbox(n) # <<>> /\ pc[n] = "offered"
    BY <1>5 DEF OffersCollide, Aside, received, Calm, Hears
  <2>2. CASE n \notin Admits \/ n = Winner
    <3>1. UNCHANGED <<pc, nested>> /\ Wire(n, Reject(o))
      BY <1>1, <1>2, <1>5, <2>1, <2>2, WireAnswer, QuietMessages DEF OffersCollide
    <3>2. UNCHANGED <<link, lane, Aside, received>>
      BY <2>1, <3>1 DEF lane, received
    <3> QED
      BY <1>1, <3>1, <3>2, QuietMessages, ReplyStep
  <2>3. CASE ~(n \notin Admits \/ n = Winner)
    <3>1. Read(n) /\ Goto(n, "prepare") /\ nested' = [nested EXCEPT ![n] = TRUE]
      BY <1>5, <2>3 DEF OffersCollide
    <3>2. Wire(n, Cancel(n)) /\ nested' \in [Nodes -> BOOLEAN]
      BY <1>2, <2>1, <3>1, WireRead
    <3>3. "prepare" \in QuietPlaces /\ pc[n] \in QuietPlaces /\ CursorOK(n)'
      BY <1>2, <2>1, <3>1 DEF CursorOK, Goto, QuietPlaces
    <3> QED
      BY <1>2, <2>1, <3>1, <3>2, <3>3, QuietMessages, GotoStep
  <2> QED
    BY <2>2, <2>3
<1>6. CASE SkipStale(n)
  <2>1. UNCHANGED <<link, lane, Aside, received>> /\ Read(n) /\ Inbox(n) # <<>>
    BY <1>6 DEF SkipStale, Aside, Calm
  <2> QED
    BY <1>2, <2>1, WireRead, QuietMessages, ReplyStep
<1>7. CASE RejectBusy(n)
  <2>1. /\ UNCHANGED <<link, lane, Aside, received>> /\ Inbox(n) # <<>>
        /\ Answer(n, Reject(Head(Inbox(n)).id))
    BY <1>7 DEF RejectBusy, Aside, Calm, Hears
  <2>2. Head(Inbox(n)).id \in Nodes
    BY <1>1, <1>2, <2>1, ElemsTail, MessageFields DEF NetTyped, Inbox
  <2> QED
    BY <1>2, <2>1, <2>2, WireAnswer, QuietMessages, ReplyStep
<1> QED
  BY <1>3, <1>4, <1>5, <1>6, <1>7

\* The steps by which a sender learns what became of its transfer: accepted,
\* refused, answered out of turn, or acknowledged to the end.
LEMMA AnswerSteps ==
    ASSUME Inv, NEW n \in Nodes,
           \/ OfferAccepted(n) \/ TransferRefused(n) \/ UnexpectedAnswer(n)
           \/ SourceFails(n) \/ TerminalAck(n)
    PROVE  Inv'
<1>1. Other(n) \in Nodes /\ Other(Other(n)) = n /\ Other(n) # n
  BY OtherFacts
<1>2. NetTyped /\ nested \in [Nodes -> BOOLEAN] /\ cursor \in [Nodes -> Cursors]
      /\ root \in [Nodes -> BOOLEAN] /\ pc \in [Nodes -> Places] /\ link \in BOOLEAN
  BY DEF Inv, Typed, LaneTyped, DiskTyped, NetTyped
<1>3. CASE OfferAccepted(n)
  <2> DEFINE cp == Head(Inbox(n)).cp
  <2>1. /\ UNCHANGED <<link, Aside, received>> /\ Read(n) /\ Inbox(n) # <<>>
        /\ pc[n] = "offered" /\ Head(Inbox(n)).kind = "Accept"
    BY <1>3 DEF OfferAccepted, Aside, Calm, HearsOwn, Hears
  <2>2. Wire(n, Cancel(n)) /\ cp \in Checkpoints
    BY <1>2, <2>1, WireRead, MessageFields
  <2>3. CASE ValidCheckpoint(n, cp)
    <3>1. /\ Goto(n, "reader") /\ UNCHANGED <<nested, writer, chunk>>
          /\ cursor' = [cursor EXCEPT ![n] = [NoCursor EXCEPT !.resume = cp]]
      BY <1>3, <2>3 DEF OfferAccepted
    <3>2. [NoCursor EXCEPT !.resume = cp] \in Cursors /\ [NoCursor EXCEPT !.resume = cp].resume = cp
      BY <2>2, RestTyped DEF NoCursor
    <3>3. /\ cursor' \in [Nodes -> Cursors] /\ cursor'[n].resume = cp
          /\ cursor'[Other(n)] = cursor[Other(n)]
      BY <1>1, <1>2, <3>1, <3>2
    <3>4. "reader" \in QuietPlaces /\ pc[n] \in QuietPlaces /\ CursorOK(n)'
      BY <1>2, <2>1, <2>3, <3>1, <3>3 DEF CursorOK, Goto, QuietPlaces
    <3>5. UNCHANGED <<link, writer, chunk, Aside, state, part, final, moved, root, nested>>
      BY <2>1, <3>1 DEF received
    <3> QED
      BY <1>2, <2>2, <3>1, <3>3, <3>4, <3>5, QuietMessages, GotoStep
  <2>4. CASE ~ValidCheckpoint(n, cp)
    <3>1. Leave(n, "down")
      BY <1>3, <2>4 DEF OfferAccepted
    <3> QED
      BY <2>1, <2>2, <3>1, QuietMessages, LeaveCalmly
  <2> QED
    BY <2>3, <2>4
<1>4. CASE TransferRefused(n)
  <2>1. UNCHANGED <<link, Aside, received>> /\ Read(n) /\ Inbox(n) # <<>> /\ Leave(n, "loop")
    BY <1>4 DEF TransferRefused, Aside, Calm, HearsOwn, Hears
  <2> QED
    BY <1>2, <2>1, WireRead, QuietMessages, LeaveCalmly
<1>5. CASE UnexpectedAnswer(n)
  <2>1. /\ UNCHANGED <<link, Aside, received>> /\ Answer(n, Cancel(n)) /\ Inbox(n) # <<>>
        /\ Leave(n, "down")
    BY <1>5 DEF UnexpectedAnswer, Aside, Calm
  <2> QED
    BY <1>2, <2>1, WireAnswer, QuietMessages, LeaveCalmly
<1>6. CASE SourceFails(n)
  <2>1. UNCHANGED <<link, chan, Aside, received>> /\ Leave(n, "down")
    BY <1>6 DEF SourceFails, Aside, Calm, net
  <2> QED
    BY <1>2, <2>1, WireSame, QuietMessages, LeaveCalmly
<1>7. CASE TerminalAck(n)
  <2> DEFINE m == Head(Inbox(n))
  <2>1. /\ Read(n) /\ Inbox(n) # <<>> /\ Leave(n, "loop")
        /\ queue' = [queue EXCEPT ![n] = "removed"]
        /\ UNCHANGED <<link, busy, source, received, touched, left>>
        /\ m.kind = "Ack" /\ m.id = n
    BY <1>7 DEF TerminalAck, Calm, HearsOwn, Hears
  <2>2. Wire(n, Cancel(n)) /\ m \in InFlight(Other(n))
    BY <1>2, <2>1, WireRead
  <2>3. Handed(Other(n))
    BY <1>1, <2>1, <2>2 DEF Inv, AckOK
  <2>4. \A x \in Nodes : queue'[x] = "removed" => queue[x] = "removed" \/ Handed(Other(x))
    BY <2>1, <2>3 DEF Inv, Typed, PermitTyped
  <2>5. PermitTyped' /\ left'["source"] <= left["source"]
    BY <2>1 DEF Inv, Typed, PermitTyped, FaultKinds
  <2>6. UNCHANGED <<source, state, part, final, moved, touched>> /\ root' \in [Nodes -> BOOLEAN]
        /\ link' \in BOOLEAN
    BY <1>2, <2>1 DEF received
  <2> QED
    BY <2>1, <2>2, <2>4, <2>5, <2>6, QuietMessages, LeaveStep
<1> QED
  BY <1>3, <1>4, <1>5, <1>6, <1>7

\* The next source a sender opens is a file of its manifest.
LEMMA FirstLater ==
    ASSUME NEW n \in Nodes, LaterFiles(n) # {}
    PROVE  First(LaterFiles(n)) \in Files(n)
BY FirstLeast, ManifestFacts DEF LaterFiles

\* The steps of the streaming loop of run_outbound.
LEMMA StreamSteps ==
    ASSUME Inv, NEW n \in Nodes,
           \/ OpenSource(n) \/ StreamChunk(n) \/ CheckpointReceived(n)
           \/ VerifySource(n) \/ SendComplete(n)
    PROVE  Inv'
<1>1. Other(n) \in Nodes /\ Other(Other(n)) = n /\ Other(n) # n
  BY OtherFacts
<1>2. NetTyped /\ nested \in [Nodes -> BOOLEAN] /\ cursor \in [Nodes -> Cursors]
      /\ root \in [Nodes -> BOOLEAN] /\ pc \in [Nodes -> Places] /\ CursorOK(n)
  BY DEF Inv, Typed, LaneTyped, DiskTyped
<1>3. /\ cursor[n].resume \in Checkpoints /\ cursor[n].file \in Nat /\ cursor[n].offset \in Nat
      /\ cursor[n].resume.file \in Nat /\ cursor[n].resume.offset \in Nat
  BY <1>2 DEF Cursors, Checkpoints
<1>4. CASE OpenSource(n)
  <2> DEFINE i == First(LaterFiles(n))
             offset == StartOffset(n, cursor[n].resume, i)
  <2>1. UNCHANGED <<link, chan, nested, root, writer, chunk, Aside, state, part, final, moved>>
        /\ pc[n] = "reader" /\ Goto(n, "stream") /\ LaterFiles(n) # {}
    BY <1>4 DEF OpenSource, Aside, received, Calm, net
  <2>2. i \in Files(n) /\ i \in Nat /\ Size(n, i) \in Nat
    BY <2>1, FirstLater, ManifestFacts
  <2>3. ValidCheckpoint(n, cursor[n].resume)
    BY <1>2, <2>1 DEF CursorOK
  <2>4. offset \in Nat /\ offset <= Size(n, i)
    BY <1>3, <2>2, <2>3 DEF StartOffset, ValidCheckpoint, NoCheckpoint
  <2>5. PICK clean \in BOOLEAN :
           cursor' = [cursor EXCEPT ![n] =
               [@ EXCEPT !.file = i, !.offset = offset, !.clean = clean,
                         !.finished = ReaderFinished(n, i, offset)]]
    BY <1>4 DEF OpenSource, ReadsClean
  <2>6. ReaderFinished(n, i, offset) \in BOOLEAN
    BY DEF ReaderFinished
  <2> HIDE DEF i, offset
  <2>7. /\ cursor' \in [Nodes -> Cursors] /\ cursor'[Other(n)] = cursor[Other(n)]
        /\ cursor'[n].resume = cursor[n].resume /\ cursor'[n].file = i
        /\ cursor'[n].offset = offset
    BY <1>1, <1>2, <2>2, <2>4, <2>5, <2>6 DEF Cursors
  <2>8. "stream" \in QuietPlaces /\ pc[n] \in QuietPlaces /\ CursorOK(n)'
    BY <1>2, <2>1, <2>2, <2>3, <2>4, <2>7 DEF CursorOK, Goto, QuietPlaces
  <2> QED
    BY <1>2, <2>1, <2>7, <2>8, WireSame, QuietMessages, GotoStep
<1>5. CASE StreamChunk(n)
  <2> DEFINE i == cursor[n].file
             start == cursor[n].offset
             rest == Size(n, i) - start
             len == IF rest < ChunkSize THEN rest ELSE ChunkSize
             last == start + len = Size(n, i)
  <2>1. UNCHANGED <<link, nested, root, writer, chunk, Aside, state, part, final, moved>>
        /\ pc[n] = "stream" /\ Goto(n, "checkpoint")
    BY <1>5 DEF StreamChunk, Aside, received, Calm
  <2>2. i \in Files(n) /\ i \in Entries(n) /\ Size(n, i) \in Nat /\ start <= Size(n, i)
    BY <1>2, <2>1, ManifestFacts DEF CursorOK
  <2>3. ChunkSize \in Nat /\ len \in Nat /\ start + len <= Size(n, i) /\ start + len \in Nat
    BY <1>3, <2>2, TransferConstantsOK
  <2>4. last \in BOOLEAN
    OBVIOUS
  <2>5. PICK clean \in IF len = 0 THEN {TRUE} ELSE ReadsClean(n, i) :
          /\ Send(n, Chunk(n, i, start, len, last, clean))
          /\ cursor' = [cursor EXCEPT ![n] =
                 [@ EXCEPT !.offset = start + len, !.finished = last,
                           !.clean = cursor[n].clean /\ clean]]
    BY <1>5 DEF StreamChunk
  <2>6. clean \in BOOLEAN /\ (Unedited => clean)
    BY <2>2, <2>5 DEF ReadsClean, Inv, CleanDisk
  <2> HIDE DEF i, start, rest, len, last
  <2>7. /\ cursor' \in [Nodes -> Cursors] /\ cursor'[Other(n)] = cursor[Other(n)]
        /\ cursor'[n].resume = cursor[n].resume /\ cursor'[n].file = i
        /\ cursor'[n].offset = start + len
    BY <1>1, <1>2, <2>3, <2>4, <2>5, <2>6 DEF Cursors, i
  <2> DEFINE m == Chunk(n, i, start, len, last, clean)
  <2>8. m \in Messages /\ m.kind = "Chunk" /\ m.clean = clean
    BY <1>3, <2>3, <2>4, <2>6, ChunkTyped DEF Messages, Chunk, i, start
  <2>9. Wire(n, m)
    BY <1>2, <2>5, <2>8, WireSend DEF Send
  <2>10. "checkpoint" \in QuietPlaces /\ pc[n] \in QuietPlaces /\ CursorOK(n)'
    BY <1>2, <2>1, <2>2, <2>3, <2>7 DEF CursorOK, Goto, QuietPlaces
  <2> HIDE DEF m
  <2> QED
    BY <1>2, <2>1, <2>6, <2>7, <2>8, <2>9, <2>10, GotoStep
<1>6. CASE CheckpointReceived(n)
  <2>1. /\ UNCHANGED <<link, nested, cursor, root, writer, chunk, Aside, state, part, final, moved>>
        /\ pc[n] = "checkpoint" /\ Goto(n, "stream") /\ Inbox(n) # <<>>
        /\ Head(Inbox(n)).kind = "Checkpoint" /\ Answer(n, Ack(n, Head(Inbox(n)).cp))
    BY <1>6 DEF CheckpointReceived, Aside, received, Calm, HearsOwn, Hears
  <2>2. Head(Inbox(n)).cp \in Checkpoints
    BY <1>1, <1>2, <2>1, ElemsTail, MessageFields DEF NetTyped, Inbox
  <2>3. Wire(n, Ack(n, Head(Inbox(n)).cp))
    BY <1>2, <2>1, <2>2, WireAnswer, MessagesTyped
  <2>4. "stream" \in QuietPlaces /\ pc[n] \in QuietPlaces /\ CursorOK(n)'
    BY <1>2, <2>1 DEF CursorOK, Goto, QuietPlaces
  <2> QED
    BY <1>2, <2>1, <2>3, <2>4, QuietMessages, GotoStep
<1>7. CASE VerifySource(n)
  <2>1. UNCHANGED <<link, Aside, received>> /\ pc[n] = "stream"
    BY <1>7 DEF VerifySource, Aside, Calm
  <2>2. CASE cursor[n].clean
    <3>1. UNCHANGED <<chan, nested, cursor, writer, chunk>> /\ Goto(n, "reader")
      BY <1>7, <2>2 DEF VerifySource
    <3>2. "reader" \in QuietPlaces /\ pc[n] \in QuietPlaces /\ CursorOK(n)'
      BY <1>2, <2>1, <3>1 DEF CursorOK, Goto, QuietPlaces
    <3>3. UNCHANGED <<link, writer, chunk, Aside, state, part, final, moved, root>>
      BY <2>1, <3>1 DEF received
    <3> QED
      BY <1>2, <3>1, <3>2, <3>3, WireSame, QuietMessages, GotoStep
  <2>3. CASE ~cursor[n].clean
    <3>1. Send(n, Cancel(n)) /\ Leave(n, "loop")
      BY <1>7, <2>3 DEF VerifySource
    <3>2. Wire(n, Cancel(n))
      BY <1>2, <3>1, WireSend, QuietMessages DEF Send
    <3> QED
      BY <2>1, <3>1, <3>2, QuietMessages, LeaveCalmly
  <2> QED
    BY <2>2, <2>3
<1>8. CASE SendComplete(n)
  <2>1. UNCHANGED <<link, nested, cursor, root, writer, chunk, Aside, state, part, final, moved>>
        /\ pc[n] = "reader" /\ Goto(n, "terminal") /\ Send(n, Complete(n))
    BY <1>8 DEF SendComplete, Aside, received, Calm
  <2>2. "terminal" \in QuietPlaces /\ pc[n] \in QuietPlaces /\ CursorOK(n)'
    BY <1>2, <2>1 DEF CursorOK, Goto, QuietPlaces
  <2>3. Wire(n, Complete(n))
    BY <1>2, <2>1, WireSend, QuietMessages DEF Send
  <2> QED
    BY <1>2, <2>1, <2>2, <2>3, QuietMessages, GotoStep
<1> QED
  BY <1>4, <1>5, <1>6, <1>7, <1>8

-----------------------------------------------------------------------------
(* The receiver's steps                                                     *)

\* A receiver reports with a message if the link is still there.
LEMMA WireIfLinked ==
    ASSUME NetTyped, NEW n \in Nodes, NEW m \in Messages,
           chan' = IF link THEN [chan EXCEPT ![n] = Append(@, m)] ELSE chan
    PROVE  Wire(n, m)
<1>1. CASE link
  BY <1>1, WireSend
<1>2. CASE ~link
  BY <1>2, WireSame
<1> QED
  BY <1>1, <1>2 DEF NetTyped

\* A Cancel and a return from receive_chunk keep the invariant.
LEMMA CancelStep ==
    ASSUME Inv, NEW n \in Nodes, CancelReceive(n), UNCHANGED <<link, Aside, received>>
    PROVE  Inv'
<1>1. Cancel(Other(n)) \in Messages /\ Cancel(Other(n)).kind \notin {"Ack", "Chunk"}
  BY OtherFacts, QuietMessages
<1>2. Wire(n, Cancel(Other(n))) /\ Leave(n, "loop")
  BY <1>1, WireIfLinked DEF CancelReceive, Inv, Typed
<1> QED
  BY <1>1, <1>2, LeaveCalmly

\* The steps that receive an offer, up to the directory, and the ones that end
\* a reception with an error or a cancellation.
LEMMA IdleSteps ==
    ASSUME Inv, NEW n \in Nodes,
           \/ IdleOffer(n) \/ IdleStray(n) \/ Prepare(n)
           \/ ReceiveCancelled(n) \/ UnexpectedMessage(n)
    PROVE  Inv'
<1>1. Other(n) \in Nodes /\ Other(Other(n)) = n /\ Other(n) # n
  BY OtherFacts
<1>2. NetTyped /\ nested \in [Nodes -> BOOLEAN] /\ cursor \in [Nodes -> Cursors]
      /\ root \in [Nodes -> BOOLEAN] /\ pc \in [Nodes -> Places] /\ CursorOK(n)
      /\ link \in BOOLEAN
  BY DEF Inv, Typed, LaneTyped, DiskTyped, NetTyped
<1>3. CASE IdleOffer(n)
  <2>1. UNCHANGED <<link, nested, cursor, root, writer, chunk, Aside, state, part, final, moved>>
        /\ pc[n] = "idle" /\ Inbox(n) # <<>>
    BY <1>3 DEF IdleOffer, Aside, received, Calm, Hears
  <2>2. PICK place \in {"loop", "prepare"} : Goto(n, place) /\ Wire(n, Reject(Other(n)))
    BY <1>1, <1>2, <1>3, <2>1, WireAnswer, WireRead, QuietMessages DEF IdleOffer
  <2>3. place \in QuietPlaces /\ pc[n] \in QuietPlaces /\ CursorOK(n)'
    BY <1>2, <2>1, <2>2 DEF CursorOK, Goto, QuietPlaces
  <2> QED
    BY <1>1, <1>2, <2>1, <2>2, <2>3, QuietMessages, GotoStep
<1>4. CASE IdleStray(n)
  <2>1. UNCHANGED <<link, nested, cursor, root, writer, chunk, Aside, state, part, final, moved>>
        /\ pc[n] = "idle" /\ Inbox(n) # <<>> /\ Answer(n, Cancel(Head(Inbox(n)).id))
        /\ Goto(n, "loop")
    BY <1>4 DEF IdleStray, Aside, received, Calm
  <2>2. Head(Inbox(n)).id \in Nodes
    BY <1>1, <1>2, <2>1, ElemsTail, MessageFields DEF NetTyped, Inbox
  <2>3. Wire(n, Cancel(Head(Inbox(n)).id))
    BY <1>2, <2>1, <2>2, WireAnswer, QuietMessages
  <2>4. "loop" \in QuietPlaces /\ pc[n] \in QuietPlaces /\ CursorOK(n)'
    BY <1>2, <2>1 DEF CursorOK, Goto, QuietPlaces
  <2> QED
    BY <1>2, <2>1, <2>2, <2>3, <2>4, QuietMessages, GotoStep
<1>5. CASE Prepare(n)
  <2>1. UNCHANGED <<link, Aside, state, part, final, moved>> /\ pc[n] = "prepare"
    BY <1>5 DEF Prepare, Aside, Calm
  <2>2. CASE root[n] /\ ~state[n].written
    <3>1. /\ chan' = IF link THEN [chan EXCEPT ![n] = @ \o FailReply(n)] ELSE chan
          /\ InboundFails(n) /\ UNCHANGED root
      BY <1>5, <2>2 DEF Prepare
    <3>2. Wire(n, Cancel(Other(n)))
      BY <1>2, <3>1, WireReply, WireSame
    <3>3. PICK place \in {"down", "loop"} : Leave(n, place)
      BY <3>1 DEF InboundFails
    <3>4. UNCHANGED <<link, Aside, received>>
      BY <2>1, <3>1 DEF received
    <3> QED
      BY <1>1, <3>2, <3>3, <3>4, QuietMessages, LeaveCalmly
  <2>3. CASE ~(root[n] /\ ~state[n].written)
    <3>1. /\ root' = [root EXCEPT ![n] = TRUE] /\ Goto(n, "reconcile")
          /\ UNCHANGED <<chan, nested, cursor, writer, chunk>>
      BY <1>5, <2>3 DEF Prepare
    <3>2. "reconcile" \in QuietPlaces /\ pc[n] \in QuietPlaces /\ CursorOK(n)'
          /\ root' \in [Nodes -> BOOLEAN]
      BY <1>2, <2>1, <3>1 DEF CursorOK, Goto, QuietPlaces
    <3>3. UNCHANGED <<link, writer, chunk, Aside, state, part, final, moved>>
      BY <2>1, <3>1
    <3> QED
      BY <1>2, <3>1, <3>2, <3>3, WireSame, QuietMessages, GotoStep
  <2> QED
    BY <2>2, <2>3
<1>6. CASE ReceiveCancelled(n)
  <2>1. UNCHANGED <<link, Aside, received>> /\ Read(n) /\ Inbox(n) # <<>> /\ Leave(n, "loop")
    BY <1>6 DEF ReceiveCancelled, Aside, Calm, HearsOwn, Hears
  <2> QED
    BY <1>2, <2>1, WireRead, QuietMessages, LeaveCalmly
<1>7. CASE UnexpectedMessage(n)
  <2>1. /\ UNCHANGED <<link, Aside, received>> /\ Inbox(n) # <<>> /\ InboundFails(n)
        /\ chan' = [chan EXCEPT ![Other(n)] = Tail(@), ![n] = @ \o FailReply(n)]
    BY <1>7 DEF UnexpectedMessage, Aside, Calm
  <2>2. Wire(n, Cancel(Other(n)))
    BY <1>2, <2>1, WireReply
  <2>3. PICK place \in {"down", "loop"} : Leave(n, place)
    BY <2>1 DEF InboundFails
  <2> QED
    BY <1>1, <2>1, <2>2, <2>3, QuietMessages, LeaveCalmly
<1> QED
  BY <1>3, <1>4, <1>5, <1>6, <1>7

\* What a receiver's records hold.
LEMMA LocalTyped ==
    ASSUME Typed, NEW n \in Nodes
    PROVE  /\ state[n].cp \in Checkpoints /\ state[n].complete \in BOOLEAN
           /\ cursor[n].resume \in Checkpoints
           /\ writer[n].file \in Nat /\ writer[n].len \in Nat /\ writer[n].clean \in BOOLEAN
           /\ DOMAIN part[n] = Entries(Other(n)) /\ DOMAIN final[n] = Entries(Other(n))
           /\ \A i \in Entries(Other(n)) :
                /\ part[n][i] \in Parts /\ part[n][i].len \in Nat
                /\ part[n][i].clean \in BOOLEAN /\ part[n][i].exists \in BOOLEAN
                /\ final[n][i] \in Finals
<1>1. state[n] \in States /\ cursor[n] \in Cursors /\ writer[n] \in Writers
      /\ part[n] \in [Entries(Other(n)) -> Parts] /\ final[n] \in [Entries(Other(n)) -> Finals]
  BY DEF Typed, LaneTyped, DiskTyped
<1> QED
  BY <1>1 DEF States, Cursors, Writers, Parts

\* What is known of the chunk being stored, and of the files before it.
LEMMA ChunkFacts ==
    ASSUME Inv, NEW n \in Nodes, pc[n] \in Storing
    PROVE  LET m == chunk[n]
               t == Other(n)
           IN /\ m \in ChunkMessages /\ m.file \in Files(t) /\ m.file \in Entries(t)
              /\ m.file \in Nat /\ m.offset \in Nat /\ m.len \in Nat
              /\ m.last \in BOOLEAN /\ m.clean \in BOOLEAN
              /\ Size(t, m.file) \in Nat /\ m.offset + m.len <= Size(t, m.file)
              /\ m.last <=> (m.offset + m.len = Size(t, m.file))
              /\ state[n].cp.file # m.file => m.offset = 0
              /\ \A i \in Files(t) : i < m.file => Published(n, i)
<1> DEFINE m == chunk[n]
           t == Other(n)
           pos == NextPosition(t, state[n].cp)
<1>1. t \in Nodes /\ state[n].cp \in Checkpoints
  BY OtherFacts, LocalTyped DEF Inv
<1>2. m \in ChunkMessages /\ ChunkFits(n, m)
  BY DEF Inv, LaneOK, ChunkOK
<1>3. /\ m.file \in Nat /\ m.offset \in Nat /\ m.len \in Nat
      /\ m.last \in BOOLEAN /\ m.clean \in BOOLEAN
  BY <1>2 DEF ChunkMessages
<1>4. /\ pos # NoCheckpoint /\ m.file = pos.file /\ m.offset = pos.offset
      /\ m.offset + m.len <= Size(t, m.file)
      /\ m.last = (m.offset + m.len = Size(t, m.file))
  BY <1>2 DEF ChunkFits
<1>5. /\ pos.file \in Files(t)
      /\ \A i \in Files(t) : i < pos.file => i \in Behind(t, state[n].cp)
      /\ pos = state[n].cp \/ (pos.file # state[n].cp.file /\ pos.offset = 0)
  BY <1>1, <1>4, NextPositionFacts
<1>6. \A i \in Behind(t, state[n].cp) : Published(n, i)
  BY DEF Inv, LaneOK, CheckpointOK, Receiving
<1>7. m.file \in Files(t) /\ m.file \in Entries(t) /\ Size(t, m.file) \in Nat
  BY <1>1, <1>4, <1>5, ManifestFacts
<1>8. state[n].cp.file # m.file => m.offset = 0
  BY <1>4, <1>5
<1>9. \A i \in Files(t) : i < m.file => Published(n, i)
  BY <1>4, <1>5, <1>6
<1> HIDE DEF m, t, pos
<1> QED
  BY <1>2, <1>3, <1>4, <1>7, <1>8, <1>9 DEF m, t

\* reconcile_receive_checkpoint declares complete only what lies before every
\* gap, and everything when there is none.
LEMMA ReconciledFacts ==
    ASSUME Inv, NEW n \in Nodes
    PROVE  LET t == Other(n)
               cp == ReconciledCheckpoint(n)
           IN /\ cp \in Checkpoints
              /\ \A i \in Behind(t, cp) : i \in Files(t) /\ \A j \in Gaps(n) : i < j
              /\ Gaps(n) = {} => NextPosition(t, cp) = NoCheckpoint
<1> DEFINE t == Other(n)
           cp == ReconciledCheckpoint(n)
           gap == First(Gaps(n))
<1>1. t \in Nodes /\ Gaps(n) \in SUBSET Files(t)
  BY OtherFacts DEF Gaps
<1>2. \A i \in Behind(t, cp) : i \in Files(t)
  BY DEF Behind
<1>3. CASE Files(t) = {}
  <2>1. cp = NoCheckpoint
    BY <1>3 DEF ReconciledCheckpoint
  <2>2. NoCheckpoint \in Checkpoints
    BY RestTyped
  <2> QED
    BY <1>1, <1>2, <1>3, <2>1, <2>2, TerminalFacts
<1>4. CASE Files(t) # {} /\ Gaps(n) = {}
  <2>1. cp = Terminal(t)
    BY <1>4 DEF ReconciledCheckpoint
  <2> QED
    BY <1>1, <1>2, <1>4, <2>1, TerminalFacts
<1>5. CASE Files(t) # {} /\ Gaps(n) # {}
  <2>1. gap \in Gaps(n) /\ gap \in Files(t) /\ gap \in Nat /\ gap \in Entries(t)
        /\ \A j \in Gaps(n) : gap <= j /\ j \in Nat
    BY <1>1, <1>5, FirstLeast, ManifestFacts
  <2> HIDE DEF gap
  <2>2. ASSUME NEW i \in Files(t), i < gap PROVE \A j \in Gaps(n) : i < j
    BY <1>1, <2>1, <2>2, ManifestFacts
  <2>3. CASE Kept(n, gap)
    <3>1. cp = At(gap, part[n][gap].len)
      BY <1>5, <2>3 DEF ReconciledCheckpoint, gap
    <3>2. part[n][gap].len \in Nat /\ part[n][gap].len < Size(t, gap)
      BY <2>1, <2>3, LocalTyped DEF Kept, Inv
    <3>3. cp \in Checkpoints /\ cp.file = gap /\ cp.offset = part[n][gap].len
      BY <2>1, <3>1, <3>2 DEF At, Checkpoints
    <3> HIDE DEF cp
    <3>4. \A i \in Behind(t, cp) : i < gap
      BY <3>2, <3>3 DEF Behind
    <3> QED
      BY <1>2, <1>5, <2>2, <3>3, <3>4 DEF cp
  <2>4. CASE ~Kept(n, gap)
    <3>1. cp = CheckpointBefore(t, gap)
      BY <1>5, <2>4 DEF ReconciledCheckpoint, gap
    <3>2. cp \in Checkpoints /\ \A i \in Behind(t, cp) : i < gap
      BY <1>1, <2>1, <3>1, CheckpointBeforeFacts
    <3> QED
      BY <1>2, <1>5, <2>2, <3>2
  <2> QED
    BY <2>3, <2>4
<1> QED
  BY <1>3, <1>4, <1>5

\* Reconciliation preserves the invariant: what it keeps is a published prefix
\* and the part of the first gap.
LEMMA ReconcileInv ==
    ASSUME Inv, NEW n \in Nodes, Reconcile(n)
    PROVE  Inv'
<1> DEFINE t == Other(n)
           cp == ReconciledCheckpoint(n)
           Before(i) == \A j \in Gaps(n) : i < j
           IsGap(i) == i \in Gaps(n) /\ \A j \in Gaps(n) : i <= j
<1>1. t \in Nodes /\ Other(t) = n /\ t # n /\ Gaps(n) \in SUBSET Files(t)
      /\ Files(t) \in SUBSET Entries(t) /\ Entries(t) \in SUBSET Nat
  BY OtherFacts, ManifestFacts DEF Gaps
<1>2. Typed /\ NetTyped /\ LaneTyped /\ DiskTyped /\ LaneOK(n)
  BY DEF Inv, Typed
<1>3. /\ UNCHANGED <<link, chan, nested, writer, chunk, Aside, root, state>>
      /\ pc[n] = "reconcile" /\ Goto(n, "accept")
      /\ moved' = [moved EXCEPT ![n] = @ \cup {i \in Files(t) : final[n][i] = "user"}]
      /\ cursor' = [cursor EXCEPT ![n] = [NoCursor EXCEPT !.resume = cp]]
  BY DEF Reconcile, Aside, Calm, net
<1>4. /\ final' = [final EXCEPT ![n] = [i \in Entries(t) |->
             IF i \in Files(t) THEN IF Before(i) THEN "good" ELSE "absent" ELSE final[n][i]]]
      /\ part' = [part EXCEPT ![n] = [i \in Entries(t) |->
             IF IsGap(i) /\ Kept(n, i) THEN part[n][i] ELSE NoPart]]
  BY <1>2, LocalTyped DEF Reconcile
<1>5. /\ cp \in Checkpoints
      /\ \A i \in Behind(t, cp) : i \in Files(t) /\ Before(i)
      /\ Gaps(n) = {} => NextPosition(t, cp) = NoCheckpoint
  BY ReconciledFacts
<1> HIDE DEF cp
<1>6. /\ \A i \in Files(t) : final'[n][i] = IF Before(i) THEN "good" ELSE "absent"
      /\ \A i \in Entries(t) : final'[n][i] \in Finals /\ final'[n][i] # "bad"
      /\ \A i \in Entries(t) : part'[n][i] = IF IsGap(i) /\ Kept(n, i) THEN part[n][i] ELSE NoPart
      /\ final'[t] = final[t] /\ part'[t] = part[t]
      /\ final'[n] \in [Entries(t) -> Finals] /\ part'[n] \in [Entries(t) -> Parts]
  <2>1. NoPart \in Parts
    BY DEF NoPart, Parts
  <2>2. \A i \in Entries(t) : part[n][i] \in Parts /\ final[n][i] \in Finals /\ final[n][i] # "bad"
    BY <1>1, <1>2, LocalTyped DEF Inv, PublishedIsVerified
  <2>3. /\ final'[n] = [i \in Entries(t) |->
             IF i \in Files(t) THEN IF Before(i) THEN "good" ELSE "absent" ELSE final[n][i]]
        /\ part'[n] = [i \in Entries(t) |-> IF IsGap(i) /\ Kept(n, i) THEN part[n][i] ELSE NoPart]
        /\ final'[t] = final[t] /\ part'[t] = part[t]
    BY <1>1, <1>2, <1>4 DEF DiskTyped
  <2>4. \A i \in Entries(t) : (IF i \in Files(t) THEN IF Before(i) THEN "good" ELSE "absent" ELSE final[n][i])
                               \in Finals \ {"bad"}
    BY <2>2 DEF Finals
  <2> HIDE DEF Before, IsGap
  <2> QED
    BY <1>1, <2>1, <2>2, <2>3, <2>4
<1>7. pc'[n] = "accept" /\ cursor'[n].resume = cp /\ writer'[n] = NoWriter /\ writer[n] = NoWriter
  <2>1. writer[n] = NoWriter
    BY <1>2, <1>3 DEF LaneOK, WriterOK
  <2> QED
    BY <1>2, <1>3, <1>5, <2>1 DEF LaneTyped, Goto, NoCursor
<1>8. Same(t)
  BY <1>1, <1>2, <1>3, <1>6 DEF Same, LaneTyped, Goto, Aside
<1>9. Typed'
  <2>1. LaneTyped'
    BY <1>2, <1>3, <1>5, RestTyped DEF LaneTyped, Goto, Places, ReceiverDisk
  <2>2. DOMAIN part' = Nodes /\ DOMAIN final' = Nodes
    BY <1>2, <1>4 DEF DiskTyped
  <2>3. moved' \in [Nodes -> SUBSET Nat]
    <3>1. {i \in Files(t) : final[n][i] = "user"} \in SUBSET Nat
      BY <1>1
    <3> QED
      BY <1>2, <1>3, <3>1 DEF DiskTyped
  <2>4. \A x \in Nodes : /\ part'[x] \in [Entries(Other(x)) -> Parts]
                         /\ final'[x] \in [Entries(Other(x)) -> Finals]
    BY <1>1, <1>2, <1>6, OtherFacts DEF DiskTyped
  <2>5. DiskTyped'
    BY <1>2, <1>3, <2>2, <2>3, <2>4 DEF DiskTyped
  <2> QED
    BY <1>2, <1>3, <2>1, <2>5, AsideKept DEF Typed, NetTyped
<1>10. \A i, j \in Files(t) : i < j => (Before(j) => Before(i)) /\ (IsGap(j) => Before(i))
  BY <1>1
<1>11. \A g \in Gaps(n) : ~Before(g)
  BY <1>1
<1> HIDE DEF Before, IsGap
<1>12. LaneOK(n)'
  <2>1. PartsOK(n)'
    <3>1. \A i \in Entries(t) : NoPart.len <= Size(t, i)
      BY <1>1, ManifestFacts DEF NoPart
    <3> QED
      BY <1>2, <1>6, <3>1 DEF LaneOK, PartsOK
  <2>2. ChunkOK(n)' /\ WriterOK(n)'
    BY <1>7 DEF ChunkOK, WriterOK, WriterAgrees, Storing
  <2>3. CheckpointOK(n)'
    <3>1. \A i \in Behind(t, cp) : Published(n, i)'
      BY <1>5, <1>6 DEF Published
    <3>2. NextPosition(t, cp) = NoCheckpoint \/ \E i \in Files(t) : final'[n][i] # "good"
      BY <1>1, <1>5, <1>6, <1>11
    <3> QED
      BY <1>7, <3>1, <3>2 DEF CheckpointOK, Receiving, Storing
  <2>4. PrefixOK(n)'
    BY <1>1, <1>6, <1>10 DEF PrefixOK, NoPart
  <2> QED
    BY <2>1, <2>2, <2>3, <2>4 DEF LaneOK
<1>13. CursorOK(n)'
  BY <1>7 DEF CursorOK
<1>14. Handed(n) => Handed(n)'
  <2>1. CASE touched[n]
    BY <1>3, <2>1 DEF Handed, Aside
  <2>2. ASSUME Delivered(t) PROVE Delivered(t)'
    <3>1. Gaps(n) = {}
      BY <1>1, <2>2 DEF Delivered, Gaps, Whole
    <3>2. \A i \in Files(t) : final'[n][i] = "good"
      BY <1>6, <3>1 DEF Before
    <3> QED
      BY <1>1, <1>3, <2>2, <3>2 DEF Delivered
  <2> QED
    BY <2>1, <2>2 DEF Handed
<1>15. Unedited => CleanDisk(n)'
  <2>1. Unedited => CleanDisk(n)
    BY DEF Inv
  <2> QED
    BY <1>3, <1>6, <1>7, <2>1 DEF CleanDisk, Storing, NoPart, Aside
<1>16. Wire(n, Cancel(n)) /\ Cancel(n).kind \notin {"Ack", "Chunk"} /\ UNCHANGED Aside
  BY <1>2, <1>3, WireSame, QuietMessages
<1> QED
  BY <1>6, <1>8, <1>9, <1>12, <1>13, <1>14, <1>15, <1>16, AsideKept, Assemble

\* Persisting the reconciled checkpoint and accepting the offer preserve the
\* invariant: a completed transfer stays marked complete.
LEMMA PersistAcceptInv ==
    ASSUME Inv, NEW n \in Nodes, PersistAccept(n)
    PROVE  Inv'
<1> DEFINE t == Other(n)
           cp == cursor[n].resume
           verified == NextPosition(t, cp) = NoCheckpoint
<1>1. t \in Nodes /\ Other(t) = n /\ t # n
  BY OtherFacts
<1>2. Typed /\ NetTyped /\ LaneTyped /\ DiskTyped /\ LaneOK(n)
  BY DEF Inv, Typed
<1>3. /\ UNCHANGED <<link, writer, chunk, Aside, root, part, final, moved>> /\ pc[n] = "accept"
      /\ state' = [state EXCEPT ![n] = State(cp, @.complete /\ verified)]
      /\ Report(n, Accept(t, cp), "chunk")
      /\ nested' = IF link THEN nested ELSE [nested EXCEPT ![n] = FALSE]
      /\ cursor' = [cursor EXCEPT ![n] = NoCursor]
  BY DEF PersistAccept, Aside, Calm
<1>4. cp \in Checkpoints /\ state[n].complete \in BOOLEAN
  BY <1>2, LocalTyped
<1> HIDE DEF cp
<1>5. PICK place \in {"chunk", "down"} : Goto(n, place) /\ Wire(n, Accept(t, cp))
  BY <1>1, <1>2, <1>3, <1>4, WireSend, WireSame, MessagesTyped DEF Report
<1>6. /\ pc'[n] = place /\ cursor'[n] = NoCursor /\ writer'[n] = writer[n]
      /\ state'[n].cp = cp /\ state'[n].complete = (state[n].complete /\ verified)
      /\ writer[n] = NoWriter
  BY <1>2, <1>3, <1>5 DEF LaneTyped, DiskTyped, Goto, State, LaneOK, WriterOK
<1>7. Same(t)
  BY <1>1, <1>2, <1>3, <1>5 DEF Same, LaneTyped, DiskTyped, Goto, Aside
<1>8. Typed'
  <2>1. State(cp, state[n].complete /\ verified) \in States
    BY <1>4 DEF State, States
  <2>2. LaneTyped'
    BY <1>2, <1>3, <1>5, RestTyped DEF LaneTyped, Goto, Places, ReceiverWaits
  <2>3. DiskTyped'
    BY <1>2, <1>3, <2>1 DEF DiskTyped
  <2> QED
    BY <1>2, <1>3, <1>5, <2>2, <2>3, AsideKept DEF Typed, NetTyped, Wire
<1>9. LaneOK(n)'
  <2>1. PartsOK(n)' /\ PrefixOK(n)'
    BY <1>2, <1>3 DEF LaneOK, PartsOK, PrefixOK, Aside
  <2>2. ChunkOK(n)' /\ WriterOK(n)'
    BY <1>6 DEF ChunkOK, WriterOK, WriterAgrees, Storing
  <2>3. \A i \in Behind(t, cp) : Published(n, i)'
    BY <1>2, <1>3 DEF LaneOK, CheckpointOK, Published, Aside, cp
  <2>4. CheckpointOK(n)'
    BY <1>6, <2>3 DEF CheckpointOK, Receiving, Storing
  <2> QED
    BY <2>1, <2>2, <2>4 DEF LaneOK
<1>10. CursorOK(n)'
  BY <1>6 DEF CursorOK
<1>11. Handed(n) => Handed(n)'
  <2>1. CASE touched[n]
    BY <1>3, <2>1 DEF Handed, Aside
  <2>2. CASE Delivered(t) /\ ~touched[n]
    <3>1. verified
      BY <1>1, <1>2, <1>3, <2>2 DEF LaneOK, CheckpointOK, Delivered, cp
    <3> QED
      BY <1>1, <1>3, <1>6, <2>2, <3>1 DEF Delivered, Handed
  <2> QED
    BY <2>1, <2>2 DEF Handed
<1>12. Unedited => CleanDisk(n)'
  BY <1>3, <1>6 DEF Inv, CleanDisk, Storing, Aside
<1>13. UNCHANGED Aside /\ Accept(t, cp).kind \notin {"Ack", "Chunk"}
  BY <1>1, <1>3, QuietMessages
<1>14. \A i \in Entries(Other(n)) : final'[n][i] # "bad"
  BY <1>3 DEF Inv, PublishedIsVerified
<1> QED
  BY <1>5, <1>7, <1>8, <1>9, <1>10, <1>11, <1>12, <1>13, <1>14, AsideKept, Assemble

\* A chunk that passes the checks of receive_chunk continues the open part or
\* starts the next file; one that does not ends the reception.
LEMMA ReceiveChunkInv ==
    ASSUME Inv, NEW n \in Nodes, ReceiveChunk(n)
    PROVE  Inv'
<1> DEFINE t == Other(n)
           m == Head(Inbox(n))
<1>1. t \in Nodes /\ Other(t) = n /\ t # n
  BY OtherFacts
<1>2. Typed /\ NetTyped /\ LaneTyped /\ DiskTyped /\ LaneOK(n)
  BY DEF Inv, Typed
<1>3. /\ UNCHANGED <<link, Aside, received>> /\ pc[n] = "chunk"
      /\ Inbox(n) # <<>> /\ m.kind = "Chunk"
  BY DEF ReceiveChunk, Aside, Calm, HearsOwn, Hears
<1>4. m \in Messages /\ m \in InFlight(t) /\ m \in ChunkMessages
  BY <1>1, <1>2, <1>3, ElemsTail, MessageFields DEF NetTyped, Inbox, InFlight
<1>5. CASE ~ChunkFits(n, m)
  <2>1. Answer(n, Cancel(t)) /\ Leave(n, "loop")
    BY <1>5 DEF ReceiveChunk
  <2>2. Wire(n, Cancel(t)) /\ Cancel(t).kind \notin {"Ack", "Chunk"}
    BY <1>1, <1>2, <1>3, <2>1, WireAnswer, QuietMessages
  <2> QED
    BY <1>3, <2>1, <2>2, LeaveCalmly
<1>6. CASE ChunkFits(n, m)
  <2> DEFINE place == IF writer[n] = NoWriter THEN "open" ELSE "write"
  <2>1. /\ Read(n) /\ chunk' = [chunk EXCEPT ![n] = m] /\ Goto(n, place)
        /\ UNCHANGED <<nested, cursor, writer>>
    BY <1>6 DEF ReceiveChunk
  <2>2. Wire(n, Cancel(n)) /\ Cancel(n).kind \notin {"Ack", "Chunk"}
    BY <1>2, <1>3, <2>1, WireRead, QuietMessages
  <2>3. UNCHANGED <<root, state, part, final, moved, source, touched>>
    BY <1>3 DEF received, Aside
  <2> HIDE DEF m
  <2>4. pc'[n] = place /\ chunk'[n] = m
    BY <1>2, <2>1 DEF LaneTyped, Goto
  <2>5. Same(t)
    BY <1>1, <1>2, <2>1, <2>3 DEF Same, LaneTyped, Goto
  <2>6. Typed'
    <3>1. LaneTyped'
      BY <1>2, <1>4, <2>1 DEF LaneTyped, Goto, Places, ReceiverDisk
    <3>2. DiskTyped'
      BY <1>2, <2>3 DEF DiskTyped
    <3> QED
      BY <1>2, <1>3, <2>2, <3>1, <3>2, AsideKept DEF Typed, NetTyped, Wire
  <2>7. ChunkOK(n)'
    BY <1>4, <1>6, <2>3, <2>4 DEF ChunkOK, ChunkFits
  <2>8. WriterOK(n)' /\ (writer[n] # NoWriter => writer[n].file = m.file)
    <3>1. CASE writer[n] = NoWriter
      BY <2>1, <2>4, <3>1 DEF WriterOK, WriterAgrees
    <3>2. CASE writer[n] # NoWriter
      <4> DEFINE w == writer[n]
      <4>1. /\ w.file \in Files(t) /\ part[n][w.file] = Part(w.len, w.clean)
            /\ state[n].cp = At(w.file, w.len) /\ w.len < Size(t, w.file)
        BY <1>2, <1>3, <3>2 DEF LaneOK, WriterOK, WriterAgrees
      <4>2. state[n].cp \in Checkpoints /\ state[n].cp.file = w.file /\ state[n].cp.offset = w.len
        BY <1>2, <4>1, LocalTyped DEF At
      <4>3. NextPosition(t, state[n].cp) = state[n].cp
        BY <1>1, <4>1, <4>2, NextPositionFacts
      <4>4. m.file = w.file /\ m.offset = w.len
        BY <1>6, <4>2, <4>3 DEF ChunkFits
      <4> QED
        BY <2>1, <2>3, <2>4, <3>2, <4>1, <4>4 DEF WriterOK, WriterAgrees
    <3> QED
      BY <3>1, <3>2
  <2>9. PartsOK(n)' /\ PrefixOK(n)'
    BY <1>2, <2>3 DEF LaneOK, PartsOK, PrefixOK
  <2>10. CheckpointOK(n)'
    <3>1. \A i \in Behind(t, state[n].cp) : Published(n, i)'
      BY <1>2, <1>3, <2>3 DEF LaneOK, CheckpointOK, Published, Receiving
    <3>2. writer[n] # NoWriter => Unpublished(n, writer[n].file)'
      BY <1>2, <1>3, <2>1, <2>3 DEF LaneOK, CheckpointOK, Unpublished
    <3> QED
      BY <2>1, <2>3, <2>4, <2>8, <3>1, <3>2 DEF CheckpointOK
  <2>11. LaneOK(n)' /\ CursorOK(n)'
    BY <2>4, <2>7, <2>8, <2>9, <2>10 DEF LaneOK, CursorOK
  <2>12. Handed(n) => Handed(n)'
    BY <2>3 DEF Handed, Delivered
  <2>13. Unedited => CleanDisk(n)'
    <3>1. Unedited => CleanDisk(n) /\ CleanSent(t)
      BY <1>1 DEF Inv
    <3> QED
      BY <1>3, <1>4, <2>3, <2>4, <3>1 DEF CleanDisk, CleanSent
  <2>14. UNCHANGED Aside /\ \A i \in Entries(t) : final'[n][i] # "bad"
    BY <1>3, <2>3 DEF Inv, PublishedIsVerified
  <2> QED
    BY <2>2, <2>5, <2>6, <2>11, <2>12, <2>13, <2>14, AsideKept, Assemble
<1> QED
  BY <1>5, <1>6

\* Creating or resuming a part file preserves the invariant: the writer starts
\* from the bytes that are there, and every earlier file is published.
LEMMA OpenPartInv ==
    ASSUME Inv, NEW n \in Nodes, OpenPart(n)
    PROVE  Inv'
<1> DEFINE t == Other(n)
           i == chunk[n].file
           p == Part(part[n][i].len, part[n][i].clean)
           w == [file |-> i, len |-> part[n][i].len, clean |-> part[n][i].clean]
<1>1. t \in Nodes /\ Other(t) = n /\ t # n
  BY OtherFacts
<1>2. Typed /\ NetTyped /\ LaneTyped /\ DiskTyped /\ LaneOK(n)
  BY DEF Inv, Typed
<1>3. UNCHANGED <<link, Aside, root, state, final, moved>> /\ pc[n] = "open"
  BY DEF OpenPart, Aside, Calm
<1>4. /\ i \in Files(t) /\ i \in Entries(t) /\ i \in Nat /\ Size(t, i) \in Nat
      /\ i >= 1 /\ chunk[n] \in ChunkMessages
      /\ state[n].cp.file # i => chunk[n].offset = 0
      /\ \A j \in Files(t) : j < i => Published(n, j)
  BY <1>1, <1>3, ChunkFacts, ManifestFacts DEF Storing
<1>5. CASE ~Openable(n, i)
  <2>1. CancelReceive(n) /\ UNCHANGED part
    BY <1>5 DEF OpenPart
  <2>2. UNCHANGED <<link, Aside, received>>
    BY <1>3, <2>1 DEF received
  <2> QED
    BY <2>1, <2>2, CancelStep
<1>6. CASE Openable(n, i)
  <2>1. /\ part' = [part EXCEPT ![n][i] = p] /\ writer' = [writer EXCEPT ![n] = w]
        /\ Goto(n, "write") /\ UNCHANGED <<chan, nested, cursor, chunk>>
    BY <1>6 DEF OpenPart
  <2>2. /\ part[n][i].len \in Nat /\ part[n][i].clean \in BOOLEAN
        /\ part[n][i].len <= Size(t, i) /\ (~part[n][i].exists => part[n][i] = NoPart)
        /\ DOMAIN part[n] = Entries(t)
    BY <1>2, <1>4, LocalTyped DEF LaneOK, PartsOK
  <2>3. final[n][i] = "absent" /\ part[n][i].len = chunk[n].offset
    BY <1>4, <1>6, <2>2 DEF Openable, NoPart
  <2>4. p \in Parts /\ p.len = part[n][i].len /\ p.clean = part[n][i].clean /\ p.exists
    BY <2>2 DEF Part, Parts
  <2>5. w \in Writers /\ w # NoWriter /\ w.file = i /\ w.len = part[n][i].len
        /\ w.clean = part[n][i].clean /\ p = Part(w.len, w.clean)
    BY <1>4, <2>2 DEF Writers, NoWriter
  <2> HIDE DEF i, p, w
  <2>6. /\ part'[n] = [part[n] EXCEPT ![i] = p] /\ part'[t] = part[t]
        /\ pc'[n] = "write" /\ writer'[n] = w /\ chunk'[n] = chunk[n]
    BY <1>1, <1>2, <2>1 DEF LaneTyped, DiskTyped, Goto
  <2>7. part'[n][i] = p /\ \A j \in Entries(t) : j # i => part'[n][j] = part[n][j]
    BY <1>4, <2>2, <2>6
  <2>8. Same(t)
    BY <1>1, <1>2, <1>3, <2>1, <2>6 DEF Same, LaneTyped, Goto, Aside
  <2>9. Typed'
    <3>1. LaneTyped'
      BY <1>2, <2>1, <2>5 DEF LaneTyped, Goto, Places, ReceiverDisk
    <3>2. \A x \in Nodes : part'[x] \in [Entries(Other(x)) -> Parts]
      BY <1>1, <1>2, <2>4, <2>6, OtherFacts DEF DiskTyped
    <3>3. DiskTyped'
      BY <1>2, <1>3, <2>1, <3>2 DEF DiskTyped
    <3> QED
      BY <1>2, <1>3, <2>1, <3>1, <3>3, AsideKept DEF Typed, NetTyped
  <2>10. PartsOK(n)'
    BY <1>2, <2>2, <2>4, <2>7 DEF LaneOK, PartsOK
  <2>11. ChunkOK(n)'
    BY <1>2, <1>3, <2>6 DEF LaneOK, ChunkOK, ChunkFits, Storing
  <2>12. WriterOK(n)'
    BY <1>4, <2>3, <2>5, <2>6, <2>7 DEF WriterOK, WriterAgrees, i
  <2>13. CheckpointOK(n)'
    <3>1. \A j \in Behind(t, state[n].cp) : Published(n, j)'
      BY <1>2, <1>3 DEF LaneOK, CheckpointOK, Published, Receiving, Storing, Aside
    <3>2. final'[n][i] = "absent"
      BY <1>3, <2>3
    <3> QED
      BY <1>3, <2>5, <2>6, <3>1, <3>2 DEF CheckpointOK, Unpublished, i
  <2>14. PrefixOK(n)'
    BY <1>1, <1>2, <1>3, <1>4, <2>3, <2>7, ManifestFacts DEF LaneOK, PrefixOK, Published, Aside
  <2>15. LaneOK(n)' /\ CursorOK(n)'
    BY <2>6, <2>10, <2>11, <2>12, <2>13, <2>14 DEF LaneOK, CursorOK
  <2>16. Handed(n) => Handed(n)'
    BY <1>3 DEF Handed, Delivered, Aside
  <2>17. Unedited => CleanDisk(n)'
    <3>1. Unedited => CleanDisk(n)
      BY DEF Inv
    <3> QED
      BY <1>3, <1>4, <2>4, <2>6, <2>7, <3>1 DEF CleanDisk, Aside, Storing
  <2>18. UNCHANGED Aside /\ \A j \in Entries(t) : final'[n][j] # "bad"
    BY <1>3 DEF Inv, PublishedIsVerified
  <2>19. Wire(n, Cancel(n)) /\ Cancel(n).kind \notin {"Ack", "Chunk"}
    BY <1>2, <2>1, WireSame, QuietMessages
  <2> QED
    BY <2>8, <2>9, <2>15, <2>16, <2>17, <2>18, <2>19, AsideKept, Assemble
<1> QED
  BY <1>5, <1>6

\* A step that writes only a part file preserves the invariant when it keeps
\* what is known of its own lane.
LEMMA PartStep ==
    ASSUME Inv, NEW n \in Nodes, LaneTyped', Same(Other(n)), pc'[n] \in ReceiverDisk,
           DOMAIN part' = Nodes, part'[n] \in [Entries(Other(n)) -> Parts],
           UNCHANGED <<link, chan, Aside, root, state, final, moved>>,
           PartsOK(n)', ChunkOK(n)', WriterOK(n)', CheckpointOK(n)', PrefixOK(n)',
           Unedited => CleanDisk(n)'
    PROVE  Inv'
<1> DEFINE t == Other(n)
<1>1. t \in Nodes /\ Other(t) = n /\ t # n
  BY OtherFacts
<1>2. Typed /\ NetTyped /\ DiskTyped
  BY DEF Inv, Typed
<1>3. Typed'
  <2>1. \A x \in Nodes : part'[x] \in [Entries(Other(x)) -> Parts]
    BY <1>1, <1>2, OtherFacts DEF DiskTyped, Same
  <2>2. DiskTyped'
    BY <1>2, <2>1 DEF DiskTyped
  <2> QED
    BY <1>2, <2>2, AsideKept DEF Typed, NetTyped
<1>4. LaneOK(n)' /\ CursorOK(n)'
  BY DEF LaneOK, CursorOK, ReceiverDisk
<1>5. Handed(n) => Handed(n)'
  BY DEF Handed, Delivered, Aside
<1>6. UNCHANGED Aside /\ \A j \in Entries(t) : final'[n][j] # "bad"
  BY DEF Inv, PublishedIsVerified
<1>7. Wire(n, Cancel(n)) /\ Cancel(n).kind \notin {"Ack", "Chunk"}
  BY <1>2, WireSame, QuietMessages
<1> QED
  BY <1>3, <1>4, <1>5, <1>6, <1>7, AsideKept, Assemble

\* Writing a chunk preserves the invariant: the writer's digest covers what the
\* part holds, and the last chunk reaches the link only when it matches.
LEMMA WritePartInv ==
    ASSUME Inv, NEW n \in Nodes, WritePart(n)
    PROVE  Inv'
<1> DEFINE t == Other(n)
           m == chunk[n]
           i == m.file
           hashed == writer[n].clean /\ m.clean
           drop == m.last /\ ~hashed
           w == IF drop THEN NoWriter
                ELSE [writer[n] EXCEPT !.len = writer[n].len + m.len, !.clean = hashed]
           p == IF drop THEN NoPart
                ELSE Part(part[n][i].len + m.len, part[n][i].clean /\ m.clean)
           place == IF ~m.last THEN "persist" ELSE IF hashed THEN "link" ELSE "undo"
<1>1. t \in Nodes /\ t # n
  BY OtherFacts
<1>2. Typed /\ LaneOK(n) /\ writer \in [Nodes -> Writers]
      /\ DOMAIN part = Nodes /\ DOMAIN part[n] = Entries(t)
  BY LocalTyped DEF Inv, Typed, LaneTyped, DiskTyped
<1>3. /\ UNCHANGED <<link, chan, nested, cursor, chunk, Aside, root, state, final, moved>>
      /\ pc[n] = "write" /\ Goto(n, place)
      /\ part' = [part EXCEPT ![n][i] = p] /\ writer' = [writer EXCEPT ![n] = w]
  <2>1. UNCHANGED <<link, chan, nested, cursor, chunk, Aside, root, state, final, moved>>
    BY DEF WritePart, Aside, Calm, net
  <2>2. pc[n] = "write" /\ Goto(n, place)
    BY DEF WritePart
  <2>3. part' = [part EXCEPT ![n][i] = p]
    BY DEF WritePart
  <2>4. writer' = [writer EXCEPT ![n] = w]
    BY DEF WritePart
  <2> QED
    BY <2>1, <2>2, <2>3, <2>4
<1>4. /\ m \in ChunkMessages /\ i \in Files(t) /\ i \in Entries(t) /\ i \in Nat
      /\ m.offset \in Nat /\ m.len \in Nat /\ m.last \in BOOLEAN /\ m.clean \in BOOLEAN
      /\ Size(t, i) \in Nat /\ m.offset + m.len <= Size(t, i)
      /\ m.last <=> (m.offset + m.len = Size(t, i))
  BY <1>3, ChunkFacts DEF Storing
<1>5. /\ writer[n] # NoWriter /\ writer[n].file = i /\ writer[n].len = m.offset
      /\ part[n][i] = Part(writer[n].len, writer[n].clean)
      /\ writer[n].len \in Nat /\ writer[n].clean \in BOOLEAN
  BY <1>2, <1>3, LocalTyped DEF LaneOK, WriterOK, WriterAgrees
<1>6. part[n][i].len = m.offset /\ part[n][i].clean = writer[n].clean /\ i >= 1
  BY <1>1, <1>4, <1>5, ManifestFacts DEF Part
<1>7. hashed \in BOOLEAN /\ drop \in BOOLEAN /\ (m.last /\ ~drop => hashed)
  BY <1>4, <1>5
<1>8. ~drop => /\ w \in Writers /\ w # NoWriter /\ w.file = i
               /\ w.len = m.offset + m.len /\ w.clean = hashed
               /\ p = Part(w.len, w.clean)
  <2>1. writer[n] \in Writers
    BY <1>2
  <2>2. ~drop => w = [file |-> i, len |-> m.offset + m.len, clean |-> hashed]
    BY <1>5, <2>1 DEF Writers
  <2>3. ~drop => p = Part(m.offset + m.len, hashed)
    BY <1>6
  <2> HIDE DEF w, p, drop, hashed, i, m
  <2> QED
    BY <1>4, <1>6, <1>7, <2>2, <2>3 DEF Writers, NoWriter, m
<1>9. drop => w = NoWriter /\ p = NoPart /\ place = "undo"
  BY <1>4, <1>5
<1>10. ~drop => place = (IF m.last THEN "link" ELSE "persist")
  BY <1>4, <1>5
<1>11. p \in Parts /\ w \in Writers /\ p.len <= Size(t, i) /\ (~p.exists => p = NoPart)
       /\ place \in ReceiverDisk /\ place \in Places
  <2>1. NoPart \in Parts /\ NoPart.len <= Size(t, i) /\ place \in ReceiverDisk
    BY <1>4 DEF NoPart, Parts, ReceiverDisk
  <2>2. ~drop => p \in Parts /\ p.len <= Size(t, i) /\ p.exists
    BY <1>4, <1>7, <1>8 DEF Part, Parts
  <2> QED
    BY <1>7, <1>8, <1>9, <2>1, <2>2, RestTyped DEF Places
<1> HIDE DEF w, p, drop, hashed, place, i
<1>12. /\ pc'[n] = place /\ writer'[n] = w /\ part'[n][i] = p /\ chunk'[n] = m
       /\ \A j \in Entries(t) : j # i => part'[n][j] = part[n][j]
       /\ DOMAIN part' = Nodes /\ part'[n] \in [Entries(t) -> Parts]
       /\ LaneTyped' /\ Same(t)
  <2>1. LaneTyped /\ DiskTyped /\ part[n] \in [Entries(t) -> Parts]
    BY <1>2 DEF Typed, DiskTyped
  <2>2. /\ part'[n] = [part[n] EXCEPT ![i] = p] /\ part'[t] = part[t]
        /\ pc'[n] = place /\ writer'[n] = w /\ DOMAIN part' = Nodes
    BY <1>1, <1>3, <2>1 DEF LaneTyped, DiskTyped, Goto
  <2>3. part'[n][i] = p /\ part'[n] \in [Entries(t) -> Parts]
        /\ \A j \in Entries(t) : j # i => part'[n][j] = part[n][j]
    BY <1>4, <1>11, <2>1, <2>2
  <2>4. LaneTyped'
    BY <1>3, <1>11, <2>1 DEF LaneTyped, Goto
  <2>5. Same(t)
    BY <1>1, <1>3, <2>1, <2>2 DEF Same, LaneTyped, Goto, Aside
  <2> QED
    BY <1>3, <2>2, <2>3, <2>4, <2>5
<1>13. ChunkOK(n)'
  BY <1>2, <1>3, <1>12 DEF LaneOK, ChunkOK, ChunkFits, Storing
<1>14. WriterOK(n)'
  <2>1. CASE drop
    BY <1>9, <1>12, <2>1 DEF WriterOK, WriterAgrees
  <2>2. CASE ~drop
    BY <1>4, <1>7, <1>8, <1>10, <1>12, <2>2 DEF WriterOK, WriterAgrees, i
  <2> QED
    BY <1>7, <2>1, <2>2
<1>15. CheckpointOK(n)'
  <2>1. \A j \in Behind(t, state[n].cp) : Published(n, j)'
    BY <1>2, <1>3 DEF LaneOK, CheckpointOK, Published, Receiving, Storing, Aside
  <2>2. final'[n][i] = "absent" \/ touched'[n]
    BY <1>2, <1>3 DEF LaneOK, CheckpointOK, Unpublished, Aside, i
  <2>3. place \in {"persist", "link", "undo"} /\ (place = "persist" => ~m.last)
    BY DEF place
  <2>4. writer'[n] # NoWriter => writer'[n].file = i
    BY <1>7, <1>8, <1>9, <1>12
  <2> QED
    BY <1>3, <1>12, <2>1, <2>2, <2>3, <2>4 DEF CheckpointOK, Unpublished, Published, Receiving, i
<1>16. PrefixOK(n)'
  <2>1. part[n][i].exists
    BY <1>5 DEF Part
  <2>2. \A j \in Files(t) : j \in Entries(t) /\ (part'[n][j].exists => part[n][j].exists)
    BY <1>1, <1>12, <2>1, ManifestFacts
  <2> QED
    BY <1>2, <1>3, <2>2 DEF LaneOK, PrefixOK, Aside
<1>17. Unedited => CleanDisk(n)'
  <2>1. Unedited => CleanDisk(n) /\ m.clean /\ part[n][i].clean
    BY <1>3, <1>4 DEF Inv, CleanDisk, Storing
  <2>2. Unedited => hashed
    BY <2>1, <1>6 DEF hashed
  <2>3. NoPart.clean /\ \A l : Part(l, TRUE).clean
    BY DEF NoPart, Part
  <2>4. Unedited => p.clean
    BY <1>7, <1>8, <1>9, <2>2, <2>3
  <2>5. m.clean => chunk'[n].clean
    BY <1>12
  <2> QED
    BY <1>3, <1>12, <2>1, <2>4, <2>5 DEF CleanDisk, Aside
<1>18. PartsOK(n)' /\ pc'[n] \in ReceiverDisk
  BY <1>2, <1>11, <1>12 DEF LaneOK, PartsOK
<1> QED
  BY <1>3, <1>12, <1>13, <1>14, <1>15, <1>16, <1>17, <1>18, PartStep

\* Publishing preserves the invariant: the part is linked only over a free
\* name, and its digest has matched.
LEMMA LinkPartInv ==
    ASSUME Inv, NEW n \in Nodes, LinkPart(n)
    PROVE  Inv'
<1> DEFINE t == Other(n)
           i == chunk[n].file
<1>1. t \in Nodes /\ t # n /\ Other(t) = n
  BY OtherFacts
<1>2. Typed /\ NetTyped /\ LaneTyped /\ DiskTyped /\ LaneOK(n)
  BY DEF Inv, Typed
<1>3. UNCHANGED <<link, Aside, root, state, part, moved>> /\ pc[n] = "link"
  BY DEF LinkPart, Aside, Calm
<1>4. /\ i \in Files(t) /\ i \in Entries(t) /\ i \in Nat
      /\ \A j \in Files(t) : j < i => Published(n, j)
  BY <1>3, ChunkFacts DEF Storing
<1>5. CASE final[n][i] # "absent"
  <2>1. CancelReceive(n) /\ UNCHANGED final
    BY <1>5 DEF LinkPart
  <2>2. UNCHANGED <<link, Aside, received>>
    BY <1>3, <2>1 DEF received
  <2> QED
    BY <2>1, <2>2, CancelStep
<1>6. CASE final[n][i] = "absent"
  <2>1. part[n][i].clean
    BY <1>2, <1>3 DEF LaneOK, WriterOK, WriterAgrees, Part
  <2>2. /\ final' = [final EXCEPT ![n][i] = "good"] /\ Goto(n, "unlink")
        /\ UNCHANGED <<chan, nested, cursor, writer, chunk>>
    BY <1>6, <2>1 DEF LinkPart
  <2>3. final[n] \in [Entries(t) -> Finals]
    BY <1>2 DEF DiskTyped
  <2> HIDE DEF i
  <2>4. /\ final'[n] = [final[n] EXCEPT ![i] = "good"] /\ final'[t] = final[t]
        /\ pc'[n] = "unlink" /\ DOMAIN final' = Nodes
    BY <1>1, <1>2, <2>2 DEF LaneTyped, DiskTyped, Goto
  <2>5. final'[n] \in [Entries(t) -> Finals] /\ final'[n][i] = "good"
        /\ \A j \in Entries(t) : j # i => final'[n][j] = final[n][j]
    BY <1>4, <2>3, <2>4 DEF Finals
  <2>6. Same(t)
    BY <1>1, <1>2, <1>3, <2>2, <2>4 DEF Same, LaneTyped, Goto, Aside
  <2>7. Typed'
    <3>1. LaneTyped'
      BY <1>2, <2>2 DEF LaneTyped, Goto, Places, ReceiverDisk
    <3>2. \A x \in Nodes : final'[x] \in [Entries(Other(x)) -> Finals]
      BY <1>1, <1>2, <2>4, <2>5, OtherFacts DEF DiskTyped
    <3>3. DiskTyped'
      BY <1>2, <1>3, <2>4, <3>2 DEF DiskTyped
    <3> QED
      BY <1>2, <1>3, <2>2, <3>1, <3>3, AsideKept DEF Typed, NetTyped
  <2>8. PartsOK(n)' /\ ChunkOK(n)'
    BY <1>2, <1>3, <2>2, <2>4 DEF LaneOK, PartsOK, ChunkOK, ChunkFits, Storing
  <2>9. WriterOK(n)'
    BY <1>2, <1>3, <2>2, <2>4 DEF LaneOK, WriterOK, WriterAgrees
  <2>10. \A j \in Files(t) : j \in Entries(t) /\ j \in Nat
                             /\ (final[n][j] = "good" => final'[n][j] = "good")
    BY <1>1, <2>5, ManifestFacts
  <2>11. CheckpointOK(n)'
    <3>1. \A j \in Behind(t, state[n].cp) : j \in Files(t) /\ Published(n, j)
      BY <1>2, <1>3 DEF LaneOK, CheckpointOK, Receiving, Storing, Behind
    <3>2. \A j \in Behind(t, state[n].cp) : Published(n, j)'
      BY <1>3, <2>10, <3>1 DEF Published, Aside
    <3> QED
      BY <1>3, <2>2, <2>4, <2>5, <3>2 DEF CheckpointOK, Published, i
  <2>12. PrefixOK(n)'
    <3> SUFFICES ASSUME ~touched[n], NEW j \in Files(t), NEW k \in Files(t), j < k,
                        final'[n][k] = "good" \/ part[n][k].exists
                 PROVE  final'[n][j] = "good"
      BY <1>3 DEF PrefixOK, Aside
    <3>1. CASE k = i
      BY <1>4, <2>10, <3>1 DEF Published
    <3>2. CASE k # i
      BY <1>2, <2>5, <2>10, <3>2 DEF LaneOK, PrefixOK
    <3> QED
      BY <3>1, <3>2
  <2>13. LaneOK(n)' /\ CursorOK(n)'
    BY <2>4, <2>8, <2>9, <2>11, <2>12 DEF LaneOK, CursorOK
  <2>14. Handed(n) => Handed(n)'
    BY <1>1, <1>3, <2>10 DEF Handed, Delivered, Aside
  <2>15. Unedited => CleanDisk(n)'
    BY <1>3, <2>2 DEF Inv, CleanDisk, Aside, Storing
  <2>16. UNCHANGED Aside /\ \A j \in Entries(t) : final'[n][j] # "bad"
    BY <1>3, <2>5 DEF Inv, PublishedIsVerified
  <2>17. Wire(n, Cancel(n)) /\ Cancel(n).kind \notin {"Ack", "Chunk"}
    BY <1>2, <2>2, WireSame, QuietMessages
  <2> QED
    BY <2>6, <2>7, <2>13, <2>14, <2>15, <2>16, <2>17, AsideKept, Assemble
<1> QED
  BY <1>5, <1>6

\* Removing the part's name preserves the invariant.
LEMMA UnlinkPartInv ==
    ASSUME Inv, NEW n \in Nodes, UnlinkPart(n)
    PROVE  Inv'
<1> DEFINE t == Other(n)
           i == chunk[n].file
<1>1. t \in Nodes /\ t # n
  BY OtherFacts
<1>2. Typed /\ LaneTyped /\ DiskTyped /\ LaneOK(n) /\ part[n] \in [Entries(t) -> Parts]
  BY DEF Inv, Typed, DiskTyped
<1>3. /\ UNCHANGED <<link, chan, nested, cursor, chunk, Aside, root, state, final, moved>>
      /\ pc[n] = "unlink" /\ Goto(n, "persist")
      /\ part' = [part EXCEPT ![n][i] = NoPart] /\ writer' = [writer EXCEPT ![n] = NoWriter]
  BY DEF UnlinkPart, Aside, Calm, net
<1>4. i \in Files(t) /\ i \in Entries(t) /\ Size(t, i) \in Nat
  BY <1>3, ChunkFacts DEF Storing
<1>5. NoPart \in Parts /\ NoPart.len = 0 /\ NoPart.clean /\ ~NoPart.exists
  BY DEF NoPart, Parts
<1> HIDE DEF i
<1>6. /\ part'[n] = [part[n] EXCEPT ![i] = NoPart] /\ part'[t] = part[t]
      /\ pc'[n] = "persist" /\ writer'[n] = NoWriter /\ DOMAIN part' = Nodes
  BY <1>1, <1>2, <1>3 DEF LaneTyped, DiskTyped, Goto
<1>7. part'[n] \in [Entries(t) -> Parts] /\ part'[n][i] = NoPart
      /\ \A j \in Entries(t) : j # i => part'[n][j] = part[n][j]
  BY <1>2, <1>4, <1>5, <1>6
<1>8. LaneTyped'
  BY <1>2, <1>3, RestTyped DEF LaneTyped, Goto, Places, ReceiverDisk
<1>9. Same(t)
  BY <1>1, <1>2, <1>3, <1>6 DEF Same, LaneTyped, Goto, Aside
<1>10. PartsOK(n)' /\ ChunkOK(n)'
  BY <1>2, <1>3, <1>4, <1>5, <1>6, <1>7 DEF LaneOK, PartsOK, ChunkOK, ChunkFits, Storing
<1>11. WriterOK(n)'
  BY <1>2, <1>3, <1>6 DEF LaneOK, WriterOK, WriterAgrees
<1>12. CheckpointOK(n)'
  <2>1. \A j \in Behind(t, state[n].cp) : Published(n, j)'
    BY <1>2, <1>3 DEF LaneOK, CheckpointOK, Published, Receiving, Storing, Aside
  <2>2. final'[n][i] = "good" \/ touched'[n]
    BY <1>2, <1>3 DEF LaneOK, CheckpointOK, Published, Aside, i
  <2> QED
    BY <1>3, <1>6, <2>1, <2>2 DEF CheckpointOK, Published, i
<1>13. PrefixOK(n)'
  <2>1. \A j \in Files(t) : part'[n][j].exists => part[n][j].exists
    BY <1>1, <1>5, <1>7, ManifestFacts
  <2> QED
    BY <1>2, <1>3, <2>1 DEF LaneOK, PrefixOK, Aside
<1>14. Unedited => CleanDisk(n)'
  <2>1. Unedited => CleanDisk(n) /\ chunk[n].clean
    BY <1>3 DEF Inv, CleanDisk, Storing
  <2> QED
    BY <1>3, <1>5, <1>7, <2>1 DEF CleanDisk, Aside
<1>15. pc'[n] \in ReceiverDisk
  BY <1>6 DEF ReceiverDisk
<1> QED
  BY <1>3, <1>6, <1>7, <1>8, <1>9, <1>10, <1>11, <1>12, <1>13, <1>14, <1>15, PartStep

\* Persisting a checkpoint preserves the invariant: what it declares complete
\* has been published.
LEMMA PersistCheckpointInv ==
    ASSUME Inv, NEW n \in Nodes, PersistCheckpoint(n)
    PROVE  Inv'
<1> DEFINE t == Other(n)
           m == chunk[n]
           cp == At(m.file, m.offset + m.len)
<1>1. t \in Nodes /\ Other(t) = n /\ t # n
  BY OtherFacts
<1>2. Typed /\ NetTyped /\ LaneTyped /\ DiskTyped /\ LaneOK(n)
  BY DEF Inv, Typed
<1>3. /\ UNCHANGED <<link, cursor, Aside, root, part, final, moved>> /\ pc[n] = "persist"
      /\ state' = [state EXCEPT ![n] = State(cp, @.complete)]
      /\ Report(n, Checkpoint(t, cp), "ack")
      /\ chunk' = [chunk EXCEPT ![n] = NoChunk]
      /\ nested' = IF link THEN nested ELSE [nested EXCEPT ![n] = FALSE]
      /\ writer' = IF link THEN writer ELSE [writer EXCEPT ![n] = NoWriter]
  BY DEF PersistCheckpoint, Aside, Calm
<1>4. /\ m.file \in Files(t) /\ m.file \in Nat /\ m.offset \in Nat /\ m.len \in Nat
      /\ Size(t, m.file) \in Nat /\ m.offset + m.len <= Size(t, m.file)
      /\ m.last \in BOOLEAN /\ m.last <=> (m.offset + m.len = Size(t, m.file))
      /\ \A i \in Files(t) : i < m.file => Published(n, i)
  BY <1>3, ChunkFacts DEF Storing
<1>5. cp \in Checkpoints /\ cp.file = m.file /\ cp.offset = m.offset + m.len
      /\ state[n].complete \in BOOLEAN
  BY <1>2, <1>4, LocalTyped DEF At, Checkpoints
<1>6. \A i \in Behind(t, cp) : Published(n, i)
  <2> SUFFICES ASSUME NEW i \in Files(t), i < m.file \/ (i = m.file /\ ~(m.offset + m.len < Size(t, i)))
               PROVE  Published(n, i)
    BY <1>5 DEF Behind
  <2>1. CASE i < m.file
    BY <1>4, <2>1
  <2>2. CASE i = m.file /\ ~(m.offset + m.len < Size(t, i))
    <3>1. m.last
      BY <1>4, <2>2
    <3> QED
      BY <1>2, <1>3, <2>2, <3>1 DEF LaneOK, CheckpointOK
  <2> QED
    BY <2>1, <2>2
<1>7. writer[n] # NoWriter =>
        /\ writer[n].file \in Files(t) /\ part[n][writer[n].file] = Part(writer[n].len, writer[n].clean)
        /\ cp = At(writer[n].file, writer[n].len) /\ writer[n].len < Size(t, writer[n].file)
        /\ Unpublished(n, writer[n].file)
  BY <1>2, <1>3, <1>4 DEF LaneOK, WriterOK, WriterAgrees, CheckpointOK
<1> HIDE DEF cp
<1>8. PICK place \in {"ack", "down"} :
         /\ Goto(n, place) /\ Wire(n, Checkpoint(t, cp))
         /\ IF place = "ack" THEN writer' = writer ELSE writer' = [writer EXCEPT ![n] = NoWriter]
  BY <1>1, <1>2, <1>3, <1>5, WireSend, WireSame, MessagesTyped DEF Report
<1>9. /\ pc'[n] = place /\ state'[n].cp = cp /\ state'[n].complete = state[n].complete
      /\ writer'[n] = (IF place = "ack" THEN writer[n] ELSE NoWriter)
      /\ cursor'[n] = cursor[n]
  BY <1>2, <1>3, <1>8 DEF LaneTyped, DiskTyped, Goto, State
<1>10. Same(t)
  BY <1>1, <1>2, <1>3, <1>8 DEF Same, LaneTyped, DiskTyped, Goto, Aside
<1>11. Typed'
  <2>1. State(cp, state[n].complete) \in States
    BY <1>5 DEF State, States
  <2>2. LaneTyped'
    BY <1>2, <1>3, <1>8, RestTyped DEF LaneTyped, Goto, Places, ReceiverWaits
  <2>3. DiskTyped'
    BY <1>2, <1>3, <2>1 DEF DiskTyped
  <2> QED
    BY <1>2, <1>3, <1>8, <2>2, <2>3, AsideKept DEF Typed, NetTyped, Wire
<1>12. LaneOK(n)' /\ CursorOK(n)'
  <2>1. PartsOK(n)' /\ PrefixOK(n)'
    BY <1>2, <1>3 DEF LaneOK, PartsOK, PrefixOK, Aside
  <2>2. ChunkOK(n)' /\ CursorOK(n)'
    BY <1>9 DEF ChunkOK, CursorOK, Storing
  <2>3. WriterOK(n)'
    BY <1>3, <1>7, <1>9 DEF WriterOK, WriterAgrees
  <2>4. \A i \in Behind(t, cp) : Published(n, i)'
    BY <1>3, <1>6 DEF Published, Aside
  <2>5. writer'[n] # NoWriter => final'[n][writer'[n].file] = "absent" \/ touched'[n]
    BY <1>3, <1>7, <1>9 DEF Unpublished, Aside
  <2>6. CheckpointOK(n)'
    BY <1>9, <2>4, <2>5 DEF CheckpointOK, Unpublished
  <2> QED
    BY <2>1, <2>2, <2>3, <2>6 DEF LaneOK
<1>13. Handed(n) => Handed(n)'
  BY <1>1, <1>3, <1>9 DEF Handed, Delivered, Aside
<1>14. Unedited => CleanDisk(n)'
  BY <1>3, <1>9 DEF Inv, CleanDisk, Storing, Aside
<1>15. UNCHANGED Aside /\ Checkpoint(t, cp).kind \notin {"Ack", "Chunk"}
       /\ \A i \in Entries(t) : final'[n][i] # "bad"
  BY <1>1, <1>3, QuietMessages DEF Inv, PublishedIsVerified
<1> QED
  BY <1>8, <1>10, <1>11, <1>12, <1>13, <1>14, <1>15, AsideKept, Assemble

\* Leaving with a new state on disk preserves the invariant when a delivery
\* stays one.
LEMMA LeaveWithState ==
    ASSUME Inv, NEW n \in Nodes, Leave(n, "loop"), NEW s \in States,
           state' = [state EXCEPT ![n] = s],
           UNCHANGED <<link, Aside, root, part, final, moved>>,
           NEW m, Wire(n, m), m.kind # "Chunk",
           m.kind = "Ack" => Handed(n)', Handed(n) => Handed(n)'
    PROVE  Inv'
<1> DEFINE t == Other(n)
<1>1. t \in Nodes /\ Other(t) = n /\ t # n
  BY OtherFacts
<1>2. Typed /\ NetTyped /\ LaneTyped /\ DiskTyped /\ LaneOK(n)
  BY DEF Inv, Typed
<1>3. pc'[n] = "loop" /\ writer'[n] = NoWriter
  BY <1>2 DEF LaneTyped, Leave, Goto
<1>4. Same(t)
  BY <1>1, <1>2 DEF Same, LaneTyped, DiskTyped, Leave, Goto, Aside
<1>5. Typed'
  <2>1. LaneTyped'
    BY <1>2, RestTyped DEF LaneTyped, Leave, Goto, Places
  <2>2. DiskTyped'
    BY <1>2 DEF DiskTyped
  <2> QED
    BY <1>2, <2>1, <2>2, AsideKept DEF Typed, NetTyped, Wire
<1>6. LaneOK(n)' /\ CursorOK(n)'
  <2>1. PartsOK(n)' /\ PrefixOK(n)'
    BY <1>2 DEF LaneOK, PartsOK, PrefixOK, Aside
  <2>2. ChunkOK(n)' /\ CursorOK(n)' /\ WriterOK(n)' /\ CheckpointOK(n)'
    BY <1>3 DEF ChunkOK, CursorOK, WriterOK, WriterAgrees, CheckpointOK, Storing, Receiving
  <2> QED
    BY <2>1, <2>2 DEF LaneOK
<1>7. Unedited => CleanDisk(n)'
  BY <1>3 DEF Inv, CleanDisk, Storing, Aside
<1>8. UNCHANGED Aside /\ \A i \in Entries(t) : final'[n][i] # "bad"
  BY DEF Inv, PublishedIsVerified
<1> QED
  BY <1>4, <1>5, <1>6, <1>7, <1>8, AsideKept, Assemble

\* The steps that undo a failed file, and that complete the transfer.
LEMMA PersistStateInv ==
    ASSUME Inv, NEW n \in Nodes, PersistUndo(n) \/ PersistComplete(n)
    PROVE  Inv'
<1> DEFINE t == Other(n)
<1>1. t \in Nodes /\ Other(t) = n /\ t # n
  BY OtherFacts
<1>2. Typed /\ NetTyped /\ LaneTyped /\ DiskTyped /\ LaneOK(n)
  BY DEF Inv, Typed
<1>3. CASE PersistUndo(n)
  <2> DEFINE i == chunk[n].file
             s == State(CheckpointBefore(t, i), FALSE)
  <2>1. /\ UNCHANGED <<link, Aside, root, part, final, moved>> /\ pc[n] = "undo"
        /\ state' = [state EXCEPT ![n] = s] /\ CancelReceive(n)
    BY <1>3 DEF PersistUndo, Aside, Calm
  <2>2. i \in Files(t)
    BY <2>1, ChunkFacts DEF Storing
  <2>3. s \in States
    BY <1>1, <2>2, CheckpointBeforeFacts DEF State, States
  <2>4. Cancel(t) \in Messages /\ Cancel(t).kind \notin {"Ack", "Chunk"}
    BY <1>1, QuietMessages
  <2>5. Wire(n, Cancel(t)) /\ Leave(n, "loop")
    BY <1>2, <2>1, <2>4, WireIfLinked DEF CancelReceive
  <2>6. Handed(n) => Handed(n)'
    BY <1>1, <1>2, <2>1, <2>2 DEF LaneOK, CheckpointOK, Unpublished, Handed, Delivered, Aside
  <2> HIDE DEF s
  <2> QED
    BY <2>1, <2>3, <2>4, <2>5, <2>6, LeaveWithState
<1>4. CASE PersistComplete(n)
  <2> DEFINE s == State(Terminal(t), TRUE)
             m == Ack(t, Terminal(t))
  <2>1. /\ UNCHANGED <<link, Aside, root, part, final, moved>> /\ pc[n] = "complete"
        /\ state' = [state EXCEPT ![n] = s] /\ Leave(n, "loop")
        /\ chan' = IF link THEN [chan EXCEPT ![n] = Append(@, m)] ELSE chan
    BY <1>4 DEF PersistComplete, Aside, Calm
  <2>2. s \in States /\ s.complete /\ m \in Messages /\ m.kind = "Ack"
    BY <1>1, TerminalFacts, MessagesTyped DEF State, States, Ack
  <2>3. Wire(n, m)
    BY <1>2, <2>1, <2>2, WireIfLinked
  <2> HIDE DEF s, m
  <2>4. state'[n].complete
    BY <1>2, <2>1, <2>2 DEF DiskTyped
  <2>5. Handed(n)'
    BY <1>1, <1>2, <2>1, <2>4 DEF LaneOK, CheckpointOK, Published, Handed, Delivered, Aside
  <2> QED
    BY <2>1, <2>2, <2>3, <2>5, LeaveWithState
<1> QED
  BY <1>3, <1>4

\* The steps of a receiver that waits: the acknowledgement of a checkpoint, and
\* a Complete that arrives when every file is stored.
LEMMA WaitSteps ==
    ASSUME Inv, NEW n \in Nodes, AckReceived(n) \/ CompleteReceived(n)
    PROVE  Inv'
<1> DEFINE t == Other(n)
<1>1. t \in Nodes /\ Other(t) = n /\ t # n
  BY OtherFacts
<1>2. Typed /\ NetTyped /\ LaneTyped /\ DiskTyped /\ LaneOK(n)
  BY DEF Inv, Typed
<1>3. /\ UNCHANGED <<link, nested, cursor, writer, chunk, Aside, received>>
      /\ Read(n) /\ Inbox(n) # <<>>
  BY DEF AckReceived, CompleteReceived, Aside, Calm, HearsOwn, Hears
<1>4. UNCHANGED <<root, state, part, final, moved, source, touched>>
  BY <1>3 DEF received, Aside
<1>5. PICK place \in {"chunk", "complete"} : Goto(n, place)
  BY DEF AckReceived, CompleteReceived
<1>6. pc'[n] = place /\ Same(t)
  BY <1>1, <1>2, <1>3, <1>4, <1>5 DEF LaneTyped, Goto, Same
<1>7. Wire(n, Cancel(n)) /\ Cancel(n).kind \notin {"Ack", "Chunk"}
  BY <1>2, <1>3, WireRead, QuietMessages
<1>8. Typed'
  <2>1. LaneTyped'
    BY <1>2, <1>3, <1>5 DEF LaneTyped, Goto, Places, ReceiverWaits, ReceiverDisk
  <2>2. DiskTyped'
    BY <1>2, <1>4 DEF DiskTyped
  <2> QED
    BY <1>2, <1>3, <1>7, <2>1, <2>2, AsideKept DEF Typed, NetTyped, Wire
<1>9. \/ place = "chunk" /\ pc[n] = "ack"
      \/ place = "complete" /\ pc[n] = "chunk" /\ CompleteFits(n)
  BY <1>2, <1>5, <1>6 DEF AckReceived, CompleteReceived, Goto, LaneTyped
<1>10. PartsOK(n)' /\ PrefixOK(n)' /\ ChunkOK(n)' /\ CursorOK(n)'
  BY <1>2, <1>4, <1>6 DEF LaneOK, PartsOK, PrefixOK, ChunkOK, CursorOK, Storing
<1>11. WriterOK(n)'
  BY <1>2, <1>3, <1>4, <1>6, <1>9 DEF LaneOK, WriterOK, WriterAgrees, CompleteFits
<1>12. CheckpointOK(n)'
  <2>1. \A i \in Behind(t, state[n].cp) : Published(n, i)'
    BY <1>2, <1>4, <1>9 DEF LaneOK, CheckpointOK, Published, Receiving
  <2>2. writer[n] # NoWriter => final'[n][writer[n].file] = "absent" \/ touched'[n]
    BY <1>2, <1>4, <1>9 DEF LaneOK, CheckpointOK, Unpublished
  <2>3. CASE place = "chunk"
    BY <1>3, <1>4, <1>6, <2>1, <2>2, <2>3 DEF CheckpointOK, Unpublished
  <2>4. CASE place = "complete"
    <3>1. \A i \in Files(t) : i \in Behind(t, state[n].cp)
      BY <1>1, <1>2, <1>9, <2>4, LocalTyped, NextPositionFacts DEF CompleteFits
    <3>2. \A i \in Files(t) : Published(n, i)'
      BY <2>1, <3>1
    <3>3. writer'[n] = NoWriter
      BY <1>3, <1>9, <2>4 DEF CompleteFits
    <3> QED
      BY <1>6, <2>4, <3>2, <3>3 DEF CheckpointOK, Receiving, Storing
  <2> QED
    BY <2>3, <2>4
<1>13. LaneOK(n)'
  BY <1>10, <1>11, <1>12 DEF LaneOK
<1>14. Handed(n) => Handed(n)'
  BY <1>4 DEF Handed, Delivered
<1>15. Unedited => CleanDisk(n)'
  BY <1>4, <1>6 DEF Inv, CleanDisk, Storing
<1>16. UNCHANGED Aside /\ \A i \in Entries(t) : final'[n][i] # "bad"
  BY <1>3, <1>4 DEF Inv, PublishedIsVerified
<1> QED
  BY <1>6, <1>7, <1>8, <1>10, <1>13, <1>14, <1>15, <1>16, AsideKept, Assemble

-----------------------------------------------------------------------------
(* Sessions, faults and users                                               *)

\* A fault spends its own budget.
LEMMA SpendFacts ==
    ASSUME Inv, NEW k \in FaultKinds, Spend(k)
    PROVE  /\ left' \in [FaultKinds -> Nat] /\ left'["source"] <= left["source"]
           /\ k = "source" => ~Unedited'
           /\ left'[k] # left[k]
<1>1. left \in [FaultKinds -> Nat] /\ left["source"] <= Budget["source"]
      /\ Budget["source"] \in Nat /\ left["source"] \in Nat /\ left[k] \in Nat
  BY TransferConstantsOK DEF Inv, Typed, PermitTyped, FaultKinds
<1>2. left[k] > 0 /\ left' = [left EXCEPT ![k] = left[k] - 1]
  BY DEF Spend
<1>3. "source" \in FaultKinds
  BY DEF FaultKinds
<1>4. left'[k] = left[k] - 1 /\ left[k] - 1 \in Nat
      /\ \A j \in FaultKinds : j # k => left'[j] = left[j]
  BY <1>1, <1>2
<1>5. left' \in [FaultKinds -> Nat]
  BY <1>1, <1>2, <1>4
<1>6. k = "source" => left'["source"] = left["source"] - 1
  BY <1>4
<1> QED
  BY <1>1, <1>3, <1>4, <1>5, <1>6 DEF Unedited

\* A session that starts, and its lanes, preserve the invariant.
LEMMA ConnectInv ==
    ASSUME Inv, Connect
    PROVE  Inv'
<1>1. /\ UNCHANGED <<chan, nested, cursor, writer, chunk, Aside, received>>
      /\ link' = TRUE /\ pc' = [n \in Nodes |-> "loop"] /\ \A n \in Nodes : pc[n] = "down"
  BY DEF Connect, Aside, Calm
<1>2. UNCHANGED <<root, state, part, final, moved, source, touched, left, queue>>
  BY <1>1 DEF received, Aside
<1>3. Typed'
  <2>1. LaneTyped'
    BY <1>1 DEF Inv, Typed, LaneTyped, Places
  <2>2. DiskTyped'
    BY <1>2 DEF Inv, Typed, DiskTyped
  <2> QED
    BY <1>1, <2>1, <2>2, AsideKept DEF Inv, Typed, NetTyped
<1>4. ASSUME NEW x \in Nodes PROVE CursorOK(x)' /\ LaneOK(x)' /\ AckOK(x)'
  <2>1. LaneOK(x) /\ AckOK(x) /\ writer'[x] = NoWriter /\ pc'[x] = "loop"
    BY <1>1 DEF Inv, LaneOK, WriterOK
  <2>2. PartsOK(x)' /\ PrefixOK(x)'
    BY <1>2, <2>1 DEF LaneOK, PartsOK, PrefixOK
  <2>3. CursorOK(x)' /\ ChunkOK(x)' /\ WriterOK(x)' /\ CheckpointOK(x)'
    BY <2>1 DEF CursorOK, ChunkOK, WriterOK, WriterAgrees, CheckpointOK, Storing, Receiving
  <2>4. AckOK(x)'
    BY <1>1, <1>2, <2>1 DEF AckOK, InFlight, Handed, Delivered
  <2> QED
    BY <2>2, <2>3, <2>4 DEF LaneOK
<1>5. ASSUME Unedited', NEW x \in Nodes PROVE CleanSent(x)' /\ CleanDisk(x)'
  BY <1>1, <1>2, <1>5 DEF Inv, Unedited, CleanSent, CleanDisk, InFlight, Storing
<1>6. PublishedIsVerified' /\ left'["source"] <= Budget["source"]
  BY <1>2 DEF Inv, PublishedIsVerified
<1> QED
  BY <1>3, <1>4, <1>5, <1>6 DEF Inv

\* The end of a link, a lane or a wait.
LEMMA SessionSteps ==
    ASSUME Inv, NEW n \in Nodes,
           \/ LoseLink \/ LaneFails(n) \/ RouterCloses(n)
           \/ TimeoutEarly(n) \/ TimeoutStalled(n)
    PROVE  Inv'
<1>1. Cancel(n).kind \notin {"Ack", "Chunk"} /\ Cancel(Other(n)).kind \notin {"Ack", "Chunk"}
  BY OtherFacts, QuietMessages
<1>2. Typed /\ NetTyped /\ LaneTyped /\ PermitTyped /\ DiskTyped
  BY DEF Inv, Typed
<1>3. "loss" \in FaultKinds /\ "timeout" \in FaultKinds
  BY DEF FaultKinds
<1>4. CASE LoseLink
  <2>1. Spend("loss") /\ Disconnected /\ UNCHANGED <<lane, busy, queue, source, received, touched>>
    BY <1>4 DEF LoseLink
  <2>2. Wire(n, Cancel(n)) /\ Same(n) /\ Same(Other(n)) /\ link' = FALSE
    BY <2>1, WireCut DEF Same, lane, received, Disconnected
  <2>3. left' \in [FaultKinds -> Nat] /\ left'["source"] <= left["source"]
    BY <1>3, <2>1, SpendFacts
  <2>4. Typed'
    BY <1>2, <2>1, <2>2, <2>3
       DEF Typed, NetTyped, LaneTyped, PermitTyped, DiskTyped, Wire, lane, received
  <2> QED
    BY <1>1, <2>1, <2>2, <2>3, <2>4, OutsideStep
<1>5. CASE LaneFails(n)
  <2>1. Leave(n, "down") /\ UNCHANGED <<link, chan, Aside, received>>
    BY <1>5 DEF LaneFails, Aside, Calm, net
  <2> QED
    BY <1>1, <1>2, <2>1, WireSame, LeaveCalmly
<1>6. CASE RouterCloses(n)
  <2>1. Disconnected /\ UNCHANGED <<lane, Aside, received>>
    BY <1>6 DEF RouterCloses, Aside, Calm
  <2>2. Wire(n, Cancel(n)) /\ Same(n) /\ Same(Other(n)) /\ link' = FALSE /\ UNCHANGED Aside
    BY <2>1, WireCut DEF Same, lane, received, Disconnected, Aside
  <2>3. Typed'
    BY <1>2, <2>1, <2>2, AsideKept
       DEF Typed, NetTyped, LaneTyped, DiskTyped, Wire, lane, received
  <2> QED
    BY <1>1, <2>2, <2>3, AsideKept, OutsideStep
<1>7. ASSUME TimesOut(n), left' \in [FaultKinds -> Nat], left'["source"] <= left["source"]
      PROVE  Inv'
  <2>1. UNCHANGED <<link, busy, queue, source, received, touched>>
    BY <1>7 DEF TimesOut
  <2>2. PICK place \in {"down", "loop"} : Leave(n, place) /\ Wire(n, Cancel(Other(n)))
    BY <1>2, <1>7, WireSame, WireReply DEF TimesOut, InboundFails
  <2>3. PermitTyped' /\ link' \in BOOLEAN /\ root' \in [Nodes -> BOOLEAN]
        /\ UNCHANGED <<source, state, part, final, moved, touched, queue>>
    BY <1>2, <1>7, <2>1 DEF PermitTyped, NetTyped, DiskTyped, received
  <2> QED
    BY <1>1, <1>7, <2>2, <2>3, LeaveStep
<1>8. CASE TimeoutEarly(n)
  BY <1>3, <1>7, <1>8, SpendFacts DEF TimeoutEarly
<1>9. CASE TimeoutStalled(n)
  <2>1. TimesOut(n) /\ left' = left
    BY <1>9 DEF TimeoutStalled
  <2>2. left' \in [FaultKinds -> Nat] /\ left'["source"] <= left["source"]
    BY <1>2, <2>1 DEF PermitTyped, FaultKinds
  <2> QED
    BY <1>7, <2>1, <2>2
<1> QED
  BY <1>4, <1>5, <1>6, <1>8, <1>9

\* A crash preserves the invariant: the part it leaves behind holds a prefix of
\* the chunk at most.
LEMMA CrashInv ==
    ASSUME Inv, NEW n \in Nodes, Crash(n)
    PROVE  Inv'
<1> DEFINE t == Other(n)
           i == chunk[n].file
<1>1. t \in Nodes /\ t # n /\ Other(t) = n /\ "crash" \in FaultKinds
      /\ Cancel(n).kind \notin {"Ack", "Chunk"}
  BY OtherFacts, QuietMessages DEF FaultKinds
<1>2. Typed /\ NetTyped /\ LaneTyped /\ PermitTyped /\ DiskTyped /\ LaneOK(n)
      /\ part[n] \in [Entries(t) -> Parts]
  BY DEF Inv, Typed, DiskTyped
<1>3. /\ Spend("crash") /\ Disconnected /\ Leave(n, "down")
      /\ busy' = [busy EXCEPT ![n] = FALSE]
      /\ UNCHANGED <<queue, source, root, state, final, moved, touched>>
  BY DEF Crash
<1>4. left' \in [FaultKinds -> Nat] /\ left'["source"] <= left["source"]
  BY <1>1, <1>3, SpendFacts
<1>5. Wire(n, Cancel(n)) /\ link' \in BOOLEAN /\ PermitTyped'
      /\ root' \in [Nodes -> BOOLEAN]
  BY <1>2, <1>3, <1>4, WireCut DEF Disconnected, PermitTyped, DiskTyped
<1>6. CASE pc[n] # "write"
  <2>1. UNCHANGED part
    BY <1>6 DEF Crash
  <2> QED
    BY <1>1, <1>3, <1>4, <1>5, <2>1, LeaveStep
<1>7. CASE pc[n] = "write"
  <2>1. PICK k \in 0..chunk[n].len :
           part' = [part EXCEPT ![n][i] =
                      Part(part[n][i].len + k, part[n][i].clean /\ (k = 0 \/ chunk[n].clean))]
    BY <1>7 DEF Crash
  <2> DEFINE p == Part(part[n][i].len + k, part[n][i].clean /\ (k = 0 \/ chunk[n].clean))
  <2>2. /\ i \in Files(t) /\ i \in Entries(t) /\ chunk[n].offset \in Nat /\ chunk[n].len \in Nat
        /\ Size(t, i) \in Nat /\ chunk[n].offset + chunk[n].len <= Size(t, i)
        /\ chunk[n].clean \in BOOLEAN
    BY <1>7, ChunkFacts DEF Storing
  <2>3. part[n][i].len = chunk[n].offset /\ part[n][i].exists /\ part[n][i].clean \in BOOLEAN
    BY <1>2, <1>7, <2>2, LocalTyped DEF LaneOK, WriterOK, WriterAgrees, Part
  <2>4. /\ p \in Parts /\ p.len <= Size(t, i) /\ p.exists
        /\ part[n][i].clean /\ chunk[n].clean => p.clean
    BY <2>1, <2>2, <2>3 DEF Part, Parts
  <2> HIDE DEF p, i
  <2>5. part' = [part EXCEPT ![n][i] = p]
    BY <2>1 DEF p
  <2>6. /\ part'[n] = [part[n] EXCEPT ![i] = p] /\ part'[t] = part[t] /\ DOMAIN part' = Nodes
        /\ pc'[n] = "down" /\ writer'[n] = NoWriter
    BY <1>1, <1>2, <1>3, <2>5 DEF LaneTyped, DiskTyped, Leave, Goto
  <2>7. part'[n] \in [Entries(t) -> Parts] /\ part'[n][i] = p
        /\ \A j \in Entries(t) : j # i => part'[n][j] = part[n][j]
    BY <1>2, <2>2, <2>4, <2>6
  <2>8. Same(t)
    BY <1>1, <1>2, <1>3, <2>6 DEF Same, LaneTyped, Leave, Goto
  <2>9. Typed'
    <3>1. LaneTyped'
      BY <1>2, <1>3, RestTyped DEF LaneTyped, Leave, Goto, Places
    <3>2. \A x \in Nodes : part'[x] \in [Entries(Other(x)) -> Parts]
      BY <1>1, <1>2, <2>6, <2>7, OtherFacts DEF DiskTyped
    <3>3. DiskTyped'
      BY <1>2, <1>3, <2>6, <3>2 DEF DiskTyped
    <3> QED
      BY <1>5, <3>1, <3>3 DEF Typed, NetTyped, Wire
  <2>10. LaneOK(n)' /\ CursorOK(n)'
    <3>1. PartsOK(n)'
      BY <1>2, <2>4, <2>7 DEF LaneOK, PartsOK
    <3>2. \A j \in Files(t) : part'[n][j].exists => part[n][j].exists
      BY <1>1, <2>3, <2>7, ManifestFacts
    <3>3. PrefixOK(n)'
      BY <1>2, <1>3, <3>2 DEF LaneOK, PrefixOK
    <3>4. ChunkOK(n)' /\ WriterOK(n)' /\ CheckpointOK(n)' /\ CursorOK(n)'
      BY <2>6 DEF ChunkOK, WriterOK, WriterAgrees, CheckpointOK, CursorOK, Storing, Receiving
    <3> QED
      BY <3>1, <3>3, <3>4 DEF LaneOK
  <2>11. Handed(n) => Handed(n)'
    BY <1>3 DEF Handed, Delivered
  <2>12. Unedited => CleanDisk(n)'
    <3>1. Unedited => CleanDisk(n) /\ chunk[n].clean /\ part[n][i].clean
      BY <1>7, <2>2 DEF Inv, CleanDisk, Storing
    <3> QED
      BY <1>3, <2>4, <2>6, <2>7, <3>1 DEF CleanDisk, Storing
  <2>13. \A j \in Entries(t) : final'[n][j] # "bad"
    BY <1>3 DEF Inv, PublishedIsVerified
  <2> QED
    BY <1>1, <1>3, <1>4, <1>5, <2>8, <2>9, <2>10, <2>11, <2>12, <2>13, Assemble
<1> QED
  BY <1>6, <1>7

\* Queueing, and the lanes of other peers, touch neither lane.
LEMMA PermitSteps ==
    ASSUME Inv, NEW n \in Nodes, Enqueue(n) \/ OtherPeerStarts(n) \/ OtherPeerEnds(n)
    PROVE  Inv'
<1>1. Cancel(n).kind \notin {"Ack", "Chunk"} /\ "busy" \in FaultKinds
  BY QuietMessages DEF FaultKinds
<1>2. Typed /\ NetTyped /\ LaneTyped /\ PermitTyped /\ DiskTyped
  BY DEF Inv, Typed
<1>3. UNCHANGED <<link, chan, lane, source, received, touched>>
  BY DEF Enqueue, OtherPeerStarts, OtherPeerEnds, Calm, net
<1>4. /\ busy' \in [Nodes -> BOOLEAN] /\ queue' \in [Nodes -> {"absent", "queued", "removed"}]
      /\ \A x \in Nodes : queue'[x] = "removed" => queue[x] = "removed"
  BY <1>2 DEF Enqueue, OtherPeerStarts, OtherPeerEnds, PermitTyped
<1>5. left' \in [FaultKinds -> Nat] /\ left'["source"] <= left["source"]
  <2>1. CASE OtherPeerStarts(n)
    BY <1>1, <2>1, SpendFacts DEF OtherPeerStarts
  <2>2. CASE left' = left
    BY <1>2, <2>2 DEF PermitTyped, FaultKinds
  <2> QED
    BY <2>1, <2>2 DEF Enqueue, OtherPeerEnds, Calm
<1>6. Same(n) /\ Same(Other(n)) /\ Wire(n, Cancel(n))
  BY <1>2, <1>3, WireSame DEF Same, lane, received
<1>7. Typed'
  BY <1>2, <1>3, <1>4, <1>5
     DEF Typed, NetTyped, LaneTyped, PermitTyped, DiskTyped, lane, received
<1> QED
  BY <1>1, <1>4, <1>5, <1>6, <1>7, OutsideStep

\* An edit of a queued source touches no received file, and from then on the
\* bytes that travel may differ.
LEMMA EditSourceInv ==
    ASSUME Inv, NEW n \in Nodes, NEW i \in Files(n), NEW v, EditSource(n, i, v)
    PROVE  Inv'
<1>1. /\ Cancel(n).kind \notin {"Ack", "Chunk"} /\ "source" \in FaultKinds
      /\ Other(n) \in Nodes /\ Other(n) # n
  BY QuietMessages, OtherFacts DEF FaultKinds
<1>2. Typed /\ NetTyped /\ LaneTyped /\ PermitTyped /\ DiskTyped
  BY DEF Inv, Typed
<1>3. /\ Spend("source") /\ source' = [source EXCEPT ![n][i] = v]
      /\ UNCHANGED <<link, chan, lane, busy, queue, received, touched>>
  BY DEF EditSource, net
<1>4. left' \in [FaultKinds -> Nat] /\ left'["source"] <= left["source"] /\ ~Unedited'
  BY <1>1, <1>3, SpendFacts
<1>5. /\ DOMAIN source' = Nodes /\ source'[Other(n)] = source[Other(n)]
      /\ \A x \in Nodes : DOMAIN source'[x] = Entries(x)
  <2>1. source'[n] = [source[n] EXCEPT ![i] = v] /\ DOMAIN source' = Nodes
        /\ \A x \in Nodes : x # n => source'[x] = source[x]
    BY <1>2, <1>3 DEF PermitTyped
  <2> QED
    BY <1>1, <1>2, <2>1 DEF PermitTyped
<1>6. Same(Other(n)) /\ Wire(n, Cancel(n))
  BY <1>2, <1>3, <1>5, WireSame DEF Same, lane, received
<1>7. Typed'
  BY <1>2, <1>3, <1>4, <1>5
     DEF Typed, NetTyped, LaneTyped, PermitTyped, DiskTyped, lane, received
<1>8. CursorOK(n)' /\ LaneOK(n)' /\ (Handed(n) => Handed(n)')
  BY <1>3, LaneKept DEF lane, received
<1>9. /\ \A j \in Entries(Other(n)) : final'[n][j] # "bad"
      /\ \A x \in Nodes : queue'[x] = "removed" => queue[x] = "removed"
  BY <1>3 DEF Inv, PublishedIsVerified, received
<1> QED
  BY <1>1, <1>4, <1>6, <1>7, <1>8, <1>9, Assemble

\* A user who changes received files is recorded as having done so.
LEMMA EditReceivedInv ==
    ASSUME Inv, NEW n \in Nodes, NEW i \in Files(Other(n)), NEW v \in {"user", "absent"},
           EditReceived(n, i, v)
    PROVE  Inv'
<1> DEFINE t == Other(n)
<1>1. /\ Cancel(n).kind \notin {"Ack", "Chunk"} /\ "dest" \in FaultKinds
      /\ t \in Nodes /\ t # n /\ i \in Entries(t)
  BY QuietMessages, OtherFacts, ManifestFacts DEF FaultKinds
<1>2. Typed /\ NetTyped /\ LaneTyped /\ PermitTyped /\ DiskTyped /\ LaneOK(n) /\ CursorOK(n)
      /\ final[n] \in [Entries(t) -> Finals]
  BY DEF Inv, Typed, DiskTyped
<1>3. /\ Spend("dest") /\ final' = [final EXCEPT ![n][i] = v]
      /\ touched' = [touched EXCEPT ![n] = TRUE]
      /\ UNCHANGED <<link, chan, pc, nested, cursor, writer, chunk, busy, queue, source,
                     root, state, part, moved>>
  BY DEF EditReceived, net, lane
<1>4. left' \in [FaultKinds -> Nat] /\ left'["source"] <= left["source"]
  BY <1>1, <1>3, SpendFacts
<1>5. /\ final'[n] = [final[n] EXCEPT ![i] = v] /\ final'[t] = final[t]
      /\ DOMAIN final' = Nodes /\ touched'[n] = TRUE /\ touched'[t] = touched[t]
  BY <1>1, <1>2, <1>3 DEF DiskTyped, PermitTyped
<1>6. final'[n] \in [Entries(t) -> Finals] /\ \A j \in Entries(t) : final'[n][j] # "bad"
  BY <1>1, <1>2, <1>5 DEF Finals, Inv, PublishedIsVerified
<1>7. Same(t) /\ Wire(n, Cancel(n))
  BY <1>2, <1>3, <1>5, WireSame DEF Same
<1>8. Typed'
  <2>1. \A x \in Nodes : final'[x] \in [Entries(Other(x)) -> Finals]
    BY <1>1, <1>2, <1>5, <1>6, OtherFacts DEF DiskTyped
  <2>2. DiskTyped'
    BY <1>2, <1>3, <1>5, <2>1 DEF DiskTyped
  <2>3. PermitTyped'
    BY <1>2, <1>3, <1>4 DEF PermitTyped
  <2> QED
    BY <1>2, <1>3, <2>2, <2>3 DEF Typed, NetTyped, LaneTyped
<1>9. LaneOK(n)' /\ CursorOK(n)'
  <2>1. PartsOK(n)' /\ ChunkOK(n)' /\ CursorOK(n)'
    BY <1>2, <1>3 DEF LaneOK, PartsOK, ChunkOK, ChunkFits, CursorOK
  <2>2. WriterOK(n)'
    BY <1>2, <1>3 DEF LaneOK, WriterOK, WriterAgrees
  <2>3. CheckpointOK(n)' /\ PrefixOK(n)'
    BY <1>5 DEF CheckpointOK, PrefixOK, Published, Unpublished
  <2> QED
    BY <2>1, <2>2, <2>3 DEF LaneOK
<1>10. Handed(n)'
  BY <1>5 DEF Handed
<1>11. Unedited => CleanDisk(n)'
  BY <1>3 DEF Inv, CleanDisk
<1> QED
  BY <1>1, <1>3, <1>4, <1>6, <1>7, <1>8, <1>9, <1>10, <1>11, Assemble

-----------------------------------------------------------------------------
(* The invariant                                                            *)

\* Nothing has been sent, stored or spent at the start.
LEMMA InitInv ==
    ASSUME Init
    PROVE  Inv
<1>1. NoCheckpoint \in Checkpoints /\ NoCursor \in Cursors /\ NoWriter \in Writers
      /\ NoState \in States /\ NoPart \in Parts
  BY DEF NoCheckpoint, Checkpoints, NoCursor, Cursors, NoWriter, Writers, NoState, States,
         NoPart, Parts
<1>2. Budget \in [FaultKinds -> Nat] /\ Budget["source"] \in Nat /\ left = Budget
  BY TransferConstantsOK DEF Init, FaultKinds
<1>3. NetTyped
  <2>1. <<>> \in Seq(Messages)
    OBVIOUS
  <2> QED
    BY <2>1 DEF Init, NetTyped
<1>4. LaneTyped
  BY <1>1 DEF Init, LaneTyped, Places
<1>5. PermitTyped
  BY <1>2 DEF Init, PermitTyped
<1>6. \A n \in Nodes : /\ part[n] = [i \in Entries(Other(n)) |-> NoPart]
                       /\ final[n] = [i \in Entries(Other(n)) |-> "absent"]
  BY DEF Init
<1>7. \A n \in Nodes : \A i \in Entries(Other(n)) :
          /\ part[n][i] = NoPart /\ final[n][i] = "absent"
          /\ part[n][i].len = 0 /\ part[n][i].clean /\ ~part[n][i].exists
  <2>1. NoPart.len = 0 /\ NoPart.clean = TRUE /\ NoPart.exists = FALSE
    BY DEF NoPart
  <2>2. \A n \in Nodes : \A i \in Entries(Other(n)) :
            part[n][i] = NoPart /\ final[n][i] = "absent"
    BY <1>6
  <2> QED
    BY <2>1, <2>2, Zenon
<1>8. DiskTyped
  <2>1. \A n \in Nodes : part[n] \in [Entries(Other(n)) -> Parts]
    BY <1>1, <1>6
  <2>2. \A n \in Nodes : final[n] \in [Entries(Other(n)) -> Finals]
    BY <1>6 DEF Finals
  <2> QED
    BY <1>1, <2>1, <2>2 DEF Init, DiskTyped
<1>9. ASSUME NEW n \in Nodes
      PROVE  CursorOK(n) /\ LaneOK(n) /\ AckOK(n) /\ CleanSent(n) /\ CleanDisk(n)
  <2>1. /\ pc[n] = "down" /\ writer[n] = NoWriter /\ chan[n] = <<>>
        /\ \A i \in Entries(n) : source[n][i] = "original"
        /\ queue[Other(n)] = "absent"
    BY OtherFacts DEF Init
  <2>2. ChunkOK(n) /\ WriterOK(n) /\ CheckpointOK(n) /\ CursorOK(n)
    BY <2>1 DEF ChunkOK, WriterOK, WriterAgrees, CheckpointOK, CursorOK, Storing, Receiving
  <2>3. PartsOK(n)
    <3>1. \A i \in Entries(Other(n)) : 0 <= Size(Other(n), i)
      BY OtherFacts, ManifestFacts
    <3> QED
      BY <1>7, <3>1 DEF PartsOK
  <2>4. PrefixOK(n)
    <3>1. \A j \in Files(Other(n)) : j \in Entries(Other(n))
      BY OtherFacts, ManifestFacts
    <3> QED
      BY <1>7, <3>1 DEF PrefixOK
  <2>5. InFlight(n) = {}
    BY <2>1 DEF InFlight, Elems
  <2>6. AckOK(n) /\ CleanSent(n)
    BY <2>1, <2>5 DEF AckOK, CleanSent
  <2>7. CleanDisk(n)
    BY <1>7, <2>1 DEF CleanDisk, Storing
  <2> QED
    BY <2>2, <2>3, <2>4, <2>6, <2>7 DEF LaneOK
<1>10. PublishedIsVerified
  BY <1>7 DEF PublishedIsVerified
<1> QED
  BY <1>2, <1>3, <1>4, <1>5, <1>8, <1>9, <1>10 DEF Inv, Typed

\* Every step preserves the invariant.
LEMMA NextInv ==
    ASSUME Inv, [Next]_vars
    PROVE  Inv'
<1>1. ASSUME NEW n \in Nodes, SenderStep(n) PROVE Inv'
  BY <1>1, ScanSteps, AnswerSteps, StreamSteps DEF SenderStep
<1>2. ASSUME NEW n \in Nodes, ReceiverStep(n) PROVE Inv'
  BY <1>2, IdleSteps, ReconcileInv, PersistAcceptInv, ReceiveChunkInv, OpenPartInv,
     WritePartInv, LinkPartInv, UnlinkPartInv, PersistCheckpointInv, PersistStateInv, WaitSteps
     DEF ReceiverStep
<1>3. ASSUME NEW n \in Nodes, SessionStep(n) PROVE Inv'
  BY <1>3, SessionSteps DEF SessionStep
<1>4. ASSUME NEW n \in Nodes, EnvironmentStep(n) PROVE Inv'
  BY <1>4, SessionSteps, CrashInv, PermitSteps, EditSourceInv, EditReceivedInv
     DEF EnvironmentStep
<1>5. ASSUME NEW n \in Nodes, Enqueue(n) \/ OtherPeerEnds(n) PROVE Inv'
  BY <1>5, PermitSteps
<1>6. CASE Connect
  BY <1>6, ConnectInv
<1>7. "a" \in Nodes
  BY DEF Nodes
<1>8. CASE LoseLink
  BY <1>7, <1>8, SessionSteps
<1>9. CASE UNCHANGED vars
  <2>1. UNCHANGED <<link, lane, Aside, received>> /\ UNCHANGED chan
    BY <1>9 DEF vars, lane, Aside, received
  <2>2. Wire("a", Cancel("a")) /\ Cancel("a").kind \notin {"Ack", "Chunk"}
    BY <1>7, <2>1, WireSame, QuietMessages DEF Inv, Typed
  <2> QED
    BY <1>7, <2>1, <2>2, ReplyStep
<1> QED
  BY <1>1, <1>2, <1>3, <1>4, <1>5, <1>6, <1>8, <1>9 DEF Next, LaneStep

\* The inductive invariant holds in every reachable state.
THEOREM InvHolds == Spec => []Inv
<1>1. Init => Inv
  BY InitInv
<1>2. Inv /\ [Next]_vars => Inv'
  BY NextInv
<1> QED
  BY <1>1, <1>2, PTL DEF Spec

\* Every variable of the lanes, the queue and the disk keeps its type, and no
\* part file ever exceeds its manifest entry, for any manifests and faults.
THEOREM TransferTypes == Spec => []TypeOK
<1>1. Inv => TypeOK
  BY DEF Inv, Typed, NetTyped, LaneTyped, PermitTyped, DiskTyped, TypeOK, LaneOK, PartsOK,
         Cursors, Writers, States
<1> QED
  BY <1>1, InvHolds, PTL

\* TransferPartWriter::finalize never publishes bytes other than the queued
\* ones, whatever is resumed, edited or crashed meanwhile.
THEOREM OnlyVerifiedPublished == Spec => []PublishedIsVerified
<1>1. Inv => PublishedIsVerified
  BY DEF Inv
<1> QED
  BY <1>1, InvHolds, PTL

\* The sender removes its queue record only once the receiver has published
\* every file and recorded completion, or its user has changed those files.
THEOREM RemovalMeansDelivery == Spec => []RemovedMeansDelivered
<1>1. Inv => RemovedMeansDelivered
  <2> SUFFICES ASSUME Inv, NEW t \in Nodes, queue[t] = "removed"
               PROVE  Delivered(t) \/ touched[Other(t)]
    BY DEF RemovedMeansDelivered
  <2>1. Other(t) \in Nodes /\ Other(Other(t)) = t
    BY OtherFacts
  <2>2. AckOK(Other(t))
    BY <2>1 DEF Inv
  <2> QED
    BY <2>1, <2>2 DEF AckOK, Handed
<1> QED
  BY <1>1, InvHolds, PTL

-----------------------------------------------------------------------------
(* What a step may do to the received files                                 *)

\* The steps that change part files or published files.
Writes(n) ==
    \/ Reconcile(n) \/ OpenPart(n) \/ WritePart(n) \/ LinkPart(n) \/ UnlinkPart(n) \/ Crash(n)
    \/ \E i \in Files(Other(n)), v \in {"user", "absent"} : EditReceived(n, i, v)

\* Every other step leaves the received files and the user's record alone.
LEMMA OnlyWrites ==
    ASSUME Next \/ UNCHANGED vars
    PROVE  UNCHANGED <<part, final, touched>> \/ \E n \in Nodes : Writes(n)
<1>1. ASSUME NEW n \in Nodes, SenderStep(n) PROVE UNCHANGED <<part, final, touched>>
  BY <1>1 DEF SenderStep, ScanQueue, PollTick, OffersCollide, SkipStale, RejectBusy,
     OfferAccepted, TransferRefused, UnexpectedAnswer, OpenSource, SourceFails, StreamChunk,
     CheckpointReceived, VerifySource, SendComplete, TerminalAck, received, Calm
<1>2. ASSUME NEW n \in Nodes, ReceiverStep(n)
      PROVE  UNCHANGED <<part, final, touched>> \/ Writes(n)
  BY <1>2 DEF ReceiverStep, Writes, IdleOffer, IdleStray, Prepare, PersistAccept, ReceiveChunk,
     PersistCheckpoint, PersistUndo, AckReceived, CompleteReceived, PersistComplete,
     ReceiveCancelled, UnexpectedMessage, received, Calm
<1>3. ASSUME NEW n \in Nodes, SessionStep(n) \/ TimeoutEarly(n)
      PROVE  UNCHANGED <<part, final, touched>>
  BY <1>3 DEF SessionStep, LaneFails, RouterCloses, TimeoutStalled, TimeoutEarly, TimesOut,
     received, Calm
<1>4. ASSUME NEW n \in Nodes, EnvironmentStep(n)
      PROVE  UNCHANGED <<part, final, touched>> \/ Writes(n)
  BY <1>3, <1>4 DEF EnvironmentStep, Writes, OtherPeerStarts, EditSource, received
<1>5. ASSUME NEW n \in Nodes, Enqueue(n) \/ OtherPeerEnds(n)
      PROVE  UNCHANGED <<part, final, touched>>
  BY <1>5 DEF Enqueue, OtherPeerEnds, received, Calm
<1>6. CASE Connect \/ LoseLink \/ UNCHANGED vars
  BY <1>6 DEF Connect, LoseLink, vars, received, Calm
<1> QED
  BY <1>1, <1>2, <1>3, <1>4, <1>5, <1>6 DEF Next, LaneStep

\* A step of one receiver leaves the other's files alone.
LEMMA OwnFiles ==
    ASSUME Inv, NEW n \in Nodes, Writes(n)
    PROVE  LET t == Other(n)
           IN part'[t] = part[t] /\ final'[t] = final[t] /\ touched'[t] = touched[t]
<1> DEFINE t == Other(n)
<1>1. t \in Nodes /\ t # n
  BY OtherFacts
<1>2. DOMAIN part = Nodes /\ DOMAIN final = Nodes /\ touched \in [Nodes -> BOOLEAN]
  BY DEF Inv, Typed, DiskTyped, PermitTyped
<1>3. CASE Reconcile(n)
  BY <1>1, <1>2, <1>3 DEF Reconcile, Calm
<1>4. CASE OpenPart(n) \/ WritePart(n) \/ UnlinkPart(n)
  BY <1>1, <1>2, <1>4 DEF OpenPart, WritePart, UnlinkPart, Calm
<1>5. CASE LinkPart(n)
  BY <1>1, <1>2, <1>5 DEF LinkPart, Calm
<1>6. CASE Crash(n)
  BY <1>1, <1>2, <1>6 DEF Crash
<1>7. ASSUME NEW i, NEW v, EditReceived(n, i, v)
      PROVE  part'[t] = part[t] /\ final'[t] = final[t] /\ touched'[t] = touched[t]
  BY <1>1, <1>2, <1>7 DEF EditReceived
<1> QED
  BY <1>3, <1>4, <1>5, <1>6, <1>7 DEF Writes

\* A file the user put in the receive directory is never overwritten by
\* reconciliation or publication: it stays, or quarantine_file keeps it aside.
THEOREM UserFilesSurvive == Spec => NoSilentOverwrite
<1> DEFINE Survives(n, i) ==
      final[n][i] = "user" =>
          \/ final'[n][i] = "user"
          \/ i \in moved'[n]
          \/ left'["dest"] # left["dest"]
<1>1. ASSUME Inv, NEW n \in Nodes, NEW i \in Files(Other(n)), Writes(n) PROVE Survives(n, i)
  <2>1. /\ DOMAIN final = Nodes /\ moved \in [Nodes -> SUBSET Nat] /\ "dest" \in FaultKinds
        /\ DOMAIN final[n] = Entries(Other(n)) /\ i \in Entries(Other(n))
    BY <1>1, OtherFacts, ManifestFacts, LocalTyped DEF Inv, Typed, DiskTyped, FaultKinds
  <2>2. CASE Reconcile(n)
    BY <1>1, <2>1, <2>2 DEF Reconcile
  <2>3. CASE OpenPart(n) \/ WritePart(n) \/ UnlinkPart(n) \/ Crash(n)
    BY <2>3 DEF OpenPart, WritePart, UnlinkPart, Crash
  <2>4. CASE LinkPart(n)
    <3> DEFINE k == chunk[n].file
    <3>1. \/ UNCHANGED final
          \/ /\ final[n][k] = "absent"
             /\ \E v : final' = [final EXCEPT ![n][k] = v]
      BY <2>4 DEF LinkPart
    <3> HIDE DEF k
    <3>2. ASSUME final[n][k] = "absent", NEW v, final' = [final EXCEPT ![n][k] = v]
          PROVE  final[n][i] = "user" => final'[n][i] = "user"
      BY <1>1, <2>1, <3>2
    <3> QED
      BY <3>1, <3>2
  <2>5. ASSUME NEW j, NEW v, EditReceived(n, j, v) PROVE left'["dest"] # left["dest"]
    BY <1>1, <2>1, <2>5, SpendFacts DEF EditReceived
  <2> QED
    BY <1>1, <2>2, <2>3, <2>4, <2>5 DEF Writes
<1>2. ASSUME Inv, [Next]_vars, NEW n \in Nodes, NEW i \in Files(Other(n)) PROVE Survives(n, i)
  <2>1. CASE UNCHANGED <<part, final, touched>>
    BY <2>1
  <2>2. ASSUME NEW x \in Nodes, Writes(x) PROVE Survives(n, i)
    <3>1. x = n \/ n = Other(x)
      BY OtherFacts
    <3>2. CASE x = n
      BY <1>1, <1>2, <2>2, <3>2
    <3>3. CASE n = Other(x)
      BY <1>2, <2>2, <3>3, OwnFiles
    <3> QED
      BY <3>1, <3>2, <3>3
  <2> QED
    BY <1>2, <2>1, <2>2, OnlyWrites
<1>3. Inv /\ [Next]_vars =>
        [\A n \in Nodes : \A i \in Files(Other(n)) : Survives(n, i)]_vars
  BY <1>2
<1> QED
  BY <1>3, InvHolds, PTL DEF Spec, NoSilentOverwrite

\* A file keeps what is stored of it when it is published, or when its part
\* file stays, clean and no shorter.
Grows(n, i) ==
    \/ final'[n][i] = "good"
    \/ /\ final[n][i] # "good"
       /\ part[n][i].exists =>
             part'[n][i].exists /\ part'[n][i].clean /\ part'[n][i].len >= part[n][i].len

\* A file that grows in this sense has no fewer bytes stored than before.
LEMMA StoredGrows ==
    ASSUME Inv, Inv', NEW n \in Nodes, NEW i \in Files(Other(n)), Grows(n, i)
    PROVE  Stored(n, i)' >= Stored(n, i)
<1>1. /\ i \in Entries(Other(n)) /\ Size(Other(n), i) \in Nat
      /\ part[n][i].len \in Nat /\ part[n][i].len <= Size(Other(n), i)
  BY OtherFacts, ManifestFacts, LocalTyped DEF Inv, LaneOK, PartsOK
<1>2. part'[n][i].len \in Nat
  BY <1>1, LocalTyped DEF Inv, Typed, DiskTyped, Parts
<1>3. Stored(n, i) \in Nat /\ Stored(n, i) <= Size(Other(n), i)
  BY <1>1 DEF Stored
<1>4. Stored(n, i)' = IF final'[n][i] = "good" THEN Size(Other(n), i)
                      ELSE IF part'[n][i].exists /\ part'[n][i].clean THEN part'[n][i].len
                      ELSE 0
  BY DEF Stored
<1>5. CASE final'[n][i] = "good"
  BY <1>1, <1>3, <1>4, <1>5
<1>6. CASE final'[n][i] # "good" /\ ~part[n][i].exists
  <2>1. Stored(n, i) = 0
    BY <1>6 DEF Stored, Grows
  <2> QED
    BY <1>2, <1>4, <1>6, <2>1
<1>7. CASE final'[n][i] # "good" /\ part[n][i].exists
  <2>1. Stored(n, i) <= part[n][i].len
    BY <1>1, <1>7 DEF Stored, Grows
  <2>2. Stored(n, i)' = part'[n][i].len /\ part'[n][i].len >= part[n][i].len
    BY <1>4, <1>7 DEF Grows
  <2> QED
    BY <1>1, <1>2, <1>3, <2>1, <2>2
<1> QED
  BY <1>5, <1>6, <1>7

\* A file nothing happens to keeps what is stored of it.
LEMMA UntouchedGrows ==
    ASSUME Inv, Unedited, NEW n \in Nodes, NEW i \in Files(Other(n)),
           part'[n][i] = part[n][i], final'[n][i] = final[n][i]
    PROVE  Grows(n, i)
<1>1. i \in Entries(Other(n))
  BY OtherFacts, ManifestFacts
<1>2. part[n][i].clean /\ part[n][i].len \in Nat
  BY <1>1, LocalTyped DEF Inv, CleanDisk
<1> QED
  BY <1>2 DEF Grows

\* Reconciliation publishes the whole files in front of the first gap and keeps
\* that gap's part; there is nothing else on a disk that holds a prefix.
LEMMA ReconcileGrows ==
    ASSUME Inv, Unedited, NEW n \in Nodes, ~touched[n], Reconcile(n),
           NEW i \in Files(Other(n))
    PROVE  Grows(n, i)
<1> DEFINE t == Other(n)
           Before(k) == \A j \in Gaps(n) : k < j
           IsGap(k) == k \in Gaps(n) /\ \A j \in Gaps(n) : k <= j
<1>1. /\ t \in Nodes /\ Gaps(n) \in SUBSET Files(t) /\ i \in Entries(t)
      /\ Files(t) \in SUBSET Entries(t) /\ Entries(t) \in SUBSET Nat
  BY OtherFacts, ManifestFacts DEF Gaps
<1>2. Typed /\ LaneOK(n) /\ DOMAIN final = Nodes /\ DOMAIN part = Nodes
      /\ DOMAIN final[n] = Entries(t) /\ DOMAIN part[n] = Entries(t)
  BY LocalTyped DEF Inv, Typed, DiskTyped
<1>3. /\ final' = [final EXCEPT ![n] = [k \in Entries(t) |->
             IF k \in Files(t) THEN IF Before(k) THEN "good" ELSE "absent" ELSE final[n][k]]]
      /\ part' = [part EXCEPT ![n] = [k \in Entries(t) |->
             IF IsGap(k) /\ Kept(n, k) THEN part[n][k] ELSE NoPart]]
  BY <1>2 DEF Reconcile
<1>4. /\ final'[n][i] = IF Before(i) THEN "good" ELSE "absent"
      /\ part'[n][i] = IF IsGap(i) /\ Kept(n, i) THEN part[n][i] ELSE NoPart
  <2> HIDE DEF Before, IsGap
  <2>1. /\ final'[n] = [k \in Entries(t) |->
             IF k \in Files(t) THEN IF Before(k) THEN "good" ELSE "absent" ELSE final[n][k]]
        /\ part'[n] = [k \in Entries(t) |->
             IF IsGap(k) /\ Kept(n, k) THEN part[n][k] ELSE NoPart]
    BY <1>2, <1>3
  <2> QED
    BY <1>1, <2>1
<1>5. /\ part[n][i].clean /\ part[n][i].len \in Nat /\ part[n][i].len <= Size(t, i)
      /\ Size(t, i) \in Nat
  BY <1>1, <1>2, LocalTyped, ManifestFacts DEF Inv, CleanDisk, LaneOK, PartsOK
<1>6. final[n][i] = "good" \/ part[n][i].exists => \A j \in Gaps(n) : ~(j < i)
  BY <1>1, <1>2 DEF LaneOK, PrefixOK, Gaps, Whole
<1>7. CASE final[n][i] = "good" \/ (part[n][i].exists /\ ~(part[n][i].len < Size(t, i)))
  <2>1. Whole(n, i)
    BY <1>5, <1>7 DEF Whole
  <2>2. \A j \in Gaps(n) : j # i
    BY <2>1 DEF Gaps
  <2>3. Before(i)
    BY <1>1, <1>6, <1>7, <2>2
  <2> QED
    BY <1>4, <2>3 DEF Grows
<1>8. CASE final[n][i] # "good" /\ part[n][i].exists /\ part[n][i].len < Size(t, i)
  <2>1. ~Whole(n, i) /\ Kept(n, i)
    BY <1>5, <1>8 DEF Whole, Kept
  <2>2. IsGap(i)
    BY <1>1, <1>6, <1>8, <2>1 DEF Gaps
  <2>3. part'[n][i] = part[n][i]
    BY <1>4, <2>1, <2>2
  <2> QED
    BY <1>5, <1>8, <2>3 DEF Grows
<1>9. CASE final[n][i] # "good" /\ ~part[n][i].exists
  BY <1>9 DEF Grows
<1> QED
  BY <1>7, <1>8, <1>9

\* The fields of a part file.
LEMMA PartFields ==
    ASSUME NEW len, NEW clean
    PROVE  /\ Part(len, clean).len = len /\ Part(len, clean).clean = clean
           /\ Part(len, clean).exists = TRUE
BY DEF Part

\* The steps of receive_chunk, and a crash in the middle of a write, only add
\* to the part being written, until its bytes are published.
LEMMA StoringGrows ==
    ASSUME Inv, Unedited, NEW n \in Nodes, ~touched[n],
           OpenPart(n) \/ WritePart(n) \/ LinkPart(n) \/ UnlinkPart(n) \/ Crash(n),
           NEW i \in Files(Other(n))
    PROVE  Grows(n, i)
<1> DEFINE t == Other(n)
           k == chunk[n].file
<1>1. t \in Nodes /\ i \in Entries(t)
  BY OtherFacts, ManifestFacts
<1>2. Typed /\ LaneOK(n) /\ DOMAIN final = Nodes /\ DOMAIN part = Nodes
      /\ DOMAIN final[n] = Entries(t) /\ DOMAIN part[n] = Entries(t)
  BY LocalTyped DEF Inv, Typed, DiskTyped
<1>3. \A j \in Entries(t) : part[n][j].clean = TRUE /\ part[n][j].len \in Nat
  BY <1>2, LocalTyped DEF Inv, CleanDisk
<1>4. pc[n] \in Storing => /\ k \in Entries(t) /\ chunk[n].len \in Nat
                           /\ chunk[n].clean = TRUE
  BY ChunkFacts DEF Inv, CleanDisk
<1>5. CASE UNCHANGED <<part, final>>
  BY <1>5, UntouchedGrows
<1>6. ASSUME UNCHANGED final, pc[n] \in Storing, NEW p, part' = [part EXCEPT ![n][k] = p],
             part[n][k].exists => p.exists /\ p.clean /\ p.len >= part[n][k].len
      PROVE  Grows(n, i)
  <2> HIDE DEF k
  <2>1. part'[n][k] = p /\ \A j \in Entries(t) : j # k => part'[n][j] = part[n][j]
    BY <1>2, <1>4, <1>6
  <2>2. CASE i # k
    BY <1>1, <1>6, <2>1, <2>2, UntouchedGrows
  <2>3. CASE i = k
    BY <1>6, <2>1, <2>3 DEF Grows
  <2> QED
    BY <2>2, <2>3
<1>7. CASE OpenPart(n)
  <2>1. pc[n] \in Storing /\ UNCHANGED final
    BY <1>7 DEF OpenPart, Storing
  <2>2. CASE UNCHANGED part
    BY <1>5, <2>1, <2>2
  <2>3. CASE part' = [part EXCEPT ![n][k] = Part(part[n][k].len, part[n][k].clean)]
    <3> DEFINE p == Part(part[n][k].len, part[n][k].clean)
    <3>1. p.exists /\ p.clean /\ p.len >= part[n][k].len
      BY <1>3, <1>4, <2>1 DEF Part
    <3> HIDE DEF p, k
    <3>2. part' = [part EXCEPT ![n][k] = p]
      BY <2>3 DEF p
    <3> QED
      BY <1>6, <2>1, <3>1, <3>2
  <2> QED
    BY <1>7, <2>2, <2>3 DEF OpenPart
<1>8. CASE WritePart(n)
  <2>1. pc[n] \in Storing /\ UNCHANGED final /\ pc[n] = "write"
    BY <1>8 DEF WritePart, Storing
  <2>2. writer[n].clean = TRUE
    <3>1. /\ writer[n] # NoWriter /\ writer[n].file = k
          /\ part[n][k] = Part(writer[n].len, writer[n].clean)
      BY <1>2, <2>1 DEF LaneOK, WriterOK, WriterAgrees
    <3>2. part[n][k].clean = writer[n].clean
      BY <3>1 DEF Part
    <3> QED
      BY <1>3, <1>4, <2>1, <3>2
  <2> DEFINE p == Part(part[n][k].len + chunk[n].len, part[n][k].clean /\ chunk[n].clean)
  <2>3. part' = [part EXCEPT ![n][k] = p]
    BY <1>4, <1>8, <2>1, <2>2 DEF WritePart
  <2>4. p.exists /\ p.clean /\ p.len >= part[n][k].len
    <3>1. p.exists = TRUE /\ p.clean = TRUE /\ p.len = part[n][k].len + chunk[n].len
      BY <1>3, <1>4, <2>1, PartFields, Zenon
    <3> QED
      BY <1>3, <1>4, <2>1, <3>1
  <2> HIDE DEF p, k
  <2> QED
    BY <1>6, <2>1, <2>3, <2>4
<1>9. CASE LinkPart(n)
  <2>1. pc[n] \in Storing /\ UNCHANGED part
    BY <1>9 DEF LinkPart, Storing
  <2>2. CASE UNCHANGED final
    BY <1>5, <2>1, <2>2
  <2>3. CASE final' = [final EXCEPT ![n][k] = IF part[n][k].clean THEN "good" ELSE "bad"]
    <3>1. final' = [final EXCEPT ![n][k] = "good"]
      BY <1>3, <1>4, <2>1, <2>3
    <3> HIDE DEF k
    <3>2. final'[n][k] = "good" /\ \A j \in Entries(t) : j # k => final'[n][j] = final[n][j]
      BY <1>2, <1>4, <2>1, <3>1
    <3>3. CASE i = k
      BY <3>2, <3>3 DEF Grows
    <3>4. CASE i # k
      BY <1>1, <2>1, <3>2, <3>4, UntouchedGrows
    <3> QED
      BY <3>3, <3>4
  <2> QED
    BY <1>9, <2>2, <2>3 DEF LinkPart
<1>10. CASE UnlinkPart(n)
  <2>1. pc[n] = "unlink" /\ UNCHANGED final /\ part' = [part EXCEPT ![n][k] = NoPart]
    BY <1>10 DEF UnlinkPart
  <2>2. final[n][k] = "good" /\ pc[n] \in Storing
    BY <1>2, <2>1 DEF LaneOK, CheckpointOK, Published, Storing
  <2> HIDE DEF k
  <2>3. \A j \in Entries(t) : j # k => part'[n][j] = part[n][j]
    BY <1>2, <1>4, <2>1, <2>2
  <2>4. CASE i = k
    BY <2>1, <2>2, <2>4 DEF Grows
  <2>5. CASE i # k
    BY <1>1, <2>1, <2>3, <2>5, UntouchedGrows
  <2> QED
    BY <2>4, <2>5
<1>11. CASE Crash(n)
  <2>1. UNCHANGED final
    BY <1>11 DEF Crash
  <2>2. CASE pc[n] # "write"
    BY <1>5, <1>11, <2>1, <2>2 DEF Crash
  <2>3. CASE pc[n] = "write"
    <3>1. PICK l \in 0..chunk[n].len :
             part' = [part EXCEPT ![n][k] =
                        Part(part[n][k].len + l, part[n][k].clean /\ (l = 0 \/ chunk[n].clean))]
      BY <1>11, <2>3 DEF Crash
    <3>2. pc[n] \in Storing
      BY <2>3 DEF Storing
    <3> DEFINE p == Part(part[n][k].len + l, part[n][k].clean /\ (l = 0 \/ chunk[n].clean))
    <3>3. p.exists /\ p.clean /\ p.len >= part[n][k].len
      <4>1. p.exists = TRUE /\ p.clean = TRUE /\ p.len = part[n][k].len + l
        BY <1>3, <1>4, <3>1, <3>2, PartFields, Zenon
      <4> QED
        BY <1>3, <1>4, <3>1, <3>2, <4>1
    <3> HIDE DEF p, k
    <3>4. part' = [part EXCEPT ![n][k] = p]
      BY <3>1 DEF p
    <3> QED
      BY <1>6, <2>1, <3>2, <3>3, <3>4
  <2> QED
    BY <2>2, <2>3
<1> QED
  BY <1>7, <1>8, <1>9, <1>10, <1>11

\* Bytes that were stored stay stored: no crash, reconnection, retry or
\* reconcile_receive_checkpoint throws a good prefix away while nobody edits.
THEOREM StoredStaysStored == Spec => ProgressKept
<1> DEFINE Keeps ==
      left'["source"] = Budget["source"] =>
         \A n \in Nodes : ~touched'[n] =>
            \A i \in Files(Other(n)) : Stored(n, i)' >= Stored(n, i)
<1>1. ASSUME Inv, Inv', NEW n \in Nodes, Writes(n), left'["source"] = Budget["source"],
             ~touched'[n], NEW i \in Files(Other(n))
      PROVE  Stored(n, i)' >= Stored(n, i)
  <2>1. /\ left["source"] \in Nat /\ Budget["source"] \in Nat /\ "crash" \in FaultKinds
        /\ left["source"] <= Budget["source"] /\ DOMAIN touched = Nodes
    BY <1>1, TransferConstantsOK DEF Inv, Typed, PermitTyped, FaultKinds
  <2>2. CASE Reconcile(n)
    <3>1. ~touched[n] /\ Unedited
      BY <1>1, <2>2 DEF Reconcile, Calm, Unedited
    <3> QED
      BY <1>1, <2>2, <3>1, ReconcileGrows, StoredGrows
  <2>3. CASE OpenPart(n) \/ WritePart(n) \/ LinkPart(n) \/ UnlinkPart(n)
    <3>1. ~touched[n] /\ Unedited
      BY <1>1, <2>3 DEF OpenPart, WritePart, LinkPart, UnlinkPart, Calm, Unedited
    <3> QED
      BY <1>1, <2>3, <3>1, StoringGrows, StoredGrows
  <2>4. CASE Crash(n)
    <3>1. ~touched[n] /\ left'["source"] <= left["source"]
      BY <1>1, <2>1, <2>4, SpendFacts DEF Crash
    <3>2. Unedited
      BY <1>1, <2>1, <3>1 DEF Unedited
    <3> QED
      BY <1>1, <2>4, <3>1, <3>2, StoringGrows, StoredGrows
  <2>5. ASSUME NEW j, NEW v, EditReceived(n, j, v) PROVE touched'[n]
    BY <1>1, <2>1, <2>5 DEF EditReceived
  <2> QED
    BY <1>1, <2>2, <2>3, <2>4, <2>5 DEF Writes
<1>2. ASSUME Inv, NEW n \in Nodes, NEW i \in Files(Other(n)),
             part'[n] = part[n], final'[n] = final[n]
      PROVE  Stored(n, i)' >= Stored(n, i)
  <2>1. Stored(n, i)' = Stored(n, i)
    BY <1>2 DEF Stored
  <2>2. i \in Entries(Other(n)) /\ Size(Other(n), i) \in Nat /\ part[n][i].len \in Nat
    BY <1>2, OtherFacts, ManifestFacts, LocalTyped DEF Inv
  <2>3. Stored(n, i) \in Nat
    BY <2>2 DEF Stored
  <2> QED
    BY <2>1, <2>3
<1>3. ASSUME Inv, [Next]_vars, left'["source"] = Budget["source"],
             NEW n \in Nodes, ~touched'[n], NEW i \in Files(Other(n))
      PROVE  Stored(n, i)' >= Stored(n, i)
  <2>1. Inv'
    BY <1>3, NextInv
  <2>2. CASE UNCHANGED <<part, final, touched>>
    BY <1>2, <1>3, <2>2
  <2>3. ASSUME NEW x \in Nodes, Writes(x) PROVE Stored(n, i)' >= Stored(n, i)
    <3>1. CASE n = x
      BY <1>1, <1>3, <2>1, <2>3, <3>1
    <3>2. CASE n = Other(x)
      BY <1>2, <1>3, <2>3, <3>2, OwnFiles
    <3> QED
      BY <2>3, <3>1, <3>2, OtherFacts
  <2> QED
    BY <1>3, <2>2, <2>3, OnlyWrites
<1>4. Inv /\ [Next]_vars => [Keeps]_vars
  BY <1>3
<1> QED
  BY <1>4, InvHolds, PTL DEF Spec, ProgressKept
===============================================================================
