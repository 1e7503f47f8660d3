---------------------------- MODULE TransferWire ----------------------------
(***************************************************************************)
(* The messages of the file-transfer lane on the wire                      *)
(* (crates/streaming/src/file_transfer_wire.rs and file_transfer_types.rs).*)
(* A frame is a header and a body of fields; a field is <<width, value>>,  *)
(* and reading one needs a field of that width to be left. The writer may  *)
(* be this build, which validates what it encodes, or another one, which   *)
(* may not; a frame may lose its tail or carry more than its message. A    *)
(* field of variable length has width 0 and its length as a third part.    *)
(***************************************************************************)
EXTENDS Integers, Sequences, FiniteSets, SequencesExt

CONSTANTS
    WireOffers, Others,    \* manifests and the other messages that are tried
    MaxTotal,          \* MAX_TRANSFER_TOTAL_BYTES
    MaxManifest,       \* MAX_TRANSFER_MANIFEST_ENTRIES
    MaxPath,           \* MAX_TRANSFER_PATH_BYTES
    MaxReason,         \* MAX_REASON_BYTES
    MaxChunk,          \* MAX_TRANSFER_CHUNK_SIZE
    MaxPayload,        \* MAX_CHUNK_PAYLOAD_BYTES
    MaxBody            \* MAX_FILE_TRANSFER_WIRE_BYTES - HEADER_LEN

ASSUME WireConstants ==
    {MaxTotal, MaxManifest, MaxPath, MaxReason, MaxChunk, MaxPayload, MaxBody} \subseteq Nat

VARIABLES
    written,   \* the message behind the frame, or NoMessage
    wireFrame,     \* [version, tag, flags, declared, body]
    damaged,   \* the frame is no longer what was written
    read       \* what decode returned: a message, Refused, or NoMessage

wireVars == <<written, wireFrame, damaged, read>>

NoMessage == [kind |-> "none"]
RefusedFrame == [kind |-> "error"]
NoFrame == [version |-> 0, tag |-> 0, flags |-> 0, declared |-> 0, body |-> <<>>]
WireVersion == 2

-----------------------------------------------------------------------------
\* A path is its components between slashes, so an absolute path and a trailing
\* slash are an empty component. Each component is [name, len]; the names here
\* stand for the classes validate_relative_path and is_windows_reserved_name tell
\* apart, "Name" and "name" differing in case only.
BadComponents == {"", ".", "..", "dot.", "back\\slash", "co:lon", "control", "CON", "lpt1.txt"}
PathLen(path) == IF path = <<>> THEN 0 ELSE FoldSeq(LAMBDA c, n : c.len + n, Len(path) - 1, path)
Folded(path) == [i \in 1..Len(path) |-> IF path[i].name = "Name" THEN "name" ELSE path[i].name]

ValidateRelativePath(path) ==
    /\ PathLen(path) <= MaxPath /\ path # <<>>
    /\ \A i \in 1..Len(path) : path[i].name \notin BadComponents

\* The digest of a file is 1, of a directory 0 (None).
TotalOf(entries) == FoldSeq(LAMBDA e, n : e.size + n, 0, entries)

ValidateManifestEntries(entries) ==
    /\ entries # <<>> /\ Len(entries) <= MaxManifest
    /\ \A i \in 1..Len(entries) :
          /\ ValidateRelativePath(entries[i].path)
          /\ \A j \in 1..Len(entries) : i # j => Folded(entries[i].path) # Folded(entries[j].path)
          /\ entries[i].dir => entries[i].size = 0 /\ entries[i].digest = 0
          /\ ~entries[i].dir => entries[i].digest = 1
    /\ TotalOf(entries) <= MaxTotal

ValidateCheckpoint(c) ==
    /\ c.entry < MaxManifest
    /\ c.offset <= MaxTotal /\ c.sent <= MaxTotal /\ c.sent >= c.offset

ValidateChunk(c) ==
    /\ c.entry < MaxManifest /\ c.payload <= MaxPayload
    /\ c.offset + c.len <= MaxTotal

-----------------------------------------------------------------------------
Tag(kind) ==
    CASE kind = "Offer" -> 1 [] kind = "Accept" -> 2 [] kind = "Reject" -> 3 [] kind = "Chunk" -> 4
      [] kind = "Checkpoint" -> 5 [] kind = "Ack" -> 6 [] kind = "Complete" -> 7 [] kind = "Cancel" -> 8
KindOf(tag) == CHOOSE k \in {"Offer", "Accept", "Reject", "Chunk", "Checkpoint", "Ack", "Complete",
                             "Cancel"} : Tag(k) = tag

\* put_checkpoint; a checkpoint is a sequence of zero or one in Accept.
CheckpointFields(c) == <<<<16, c.id>>, <<4, c.entry>>, <<8, c.offset>>, <<8, c.sent>>>>

EntryFields(e) ==
    <<<<1, IF e.dir THEN 1 ELSE 0>>, <<2, PathLen(e.path)>>, <<8, e.size>>>>
    \o (IF e.dir THEN <<>> ELSE <<<<32, e.digest>>>>) \o <<<<0, e.path, PathLen(e.path)>>>>

\* The body encode builds for each message, before any validation.
BodyOf(m) ==
    CASE m.kind = "Offer" ->
            <<<<16, m.id>>, <<16, m.from>>, <<1, Len(m.to)>>>> \o [i \in 1..Len(m.to) |-> <<16, m.to[i]>>]
            \o <<<<1, m.source>>, <<8, m.total>>, <<4, Len(m.entries)>>>>
            \o FlattenSeq([i \in 1..Len(m.entries) |-> EntryFields(m.entries[i])])
      [] m.kind = "Accept" ->
            <<<<16, m.id>>, <<1, Len(m.at)>>>> \o (IF m.at = <<>> THEN <<>> ELSE CheckpointFields(m.at[1]))
      [] m.kind \in {"Reject", "Cancel"} -> <<<<16, m.id>>, <<2, m.reason>>, <<0, m.reason, m.reason>>>>
      [] m.kind = "Chunk" ->
            <<<<16, m.id>>, <<4, m.entry>>, <<8, m.offset>>, <<4, m.len>>, <<1, m.compression>>,
              <<1, IF m.final THEN 1 ELSE 0>>, <<4, m.payload>>, <<0, m.payload, m.payload>>>>
      [] m.kind \in {"Checkpoint", "Ack"} -> CheckpointFields(m)
      [] m.kind = "Complete" -> <<<<16, m.id>>, <<8, m.sent>>>>

\* Bytes of a field: its width, or for a variable one (width 0) its third part.
Bytes(f) == IF f[1] # 0 THEN f[1] ELSE f[3]
BodyLen(body) == FoldSeq(LAMBDA f, n : Bytes(f) + n, 0, body)

\* What this build lets out.
Encodable(m) ==
    /\ BodyLen(BodyOf(m)) <= MaxBody
    /\ m.kind = "Offer" => ValidateManifestEntries(m.entries) /\ TotalOf(m.entries) = m.total /\ m.source \in 0..2
    /\ m.kind = "Accept" /\ m.at # <<>> => ValidateCheckpoint(m.at[1]) /\ m.at[1].id = m.id
    /\ m.kind \in {"Reject", "Cancel"} => m.reason <= MaxReason
    /\ m.kind = "Chunk" => ValidateChunk(m) /\ m.len <= MaxChunk /\ m.compression \in {0, 1}
    /\ m.kind \in {"Checkpoint", "Ack"} => ValidateCheckpoint(m)
    /\ m.kind = "Complete" => m.sent <= MaxTotal

-----------------------------------------------------------------------------
\* Decoder::take and its integer readers: the fields are there, with these widths.
Reads(body, at, widths) ==
    /\ at + Len(widths) - 1 <= Len(body)
    /\ \A i \in 1..Len(widths) : body[at + i - 1][1] = widths[i]
V(body, i) == body[i][2]

CheckpointAt(body, i) ==
    [id |-> V(body, i), entry |-> V(body, i + 1), offset |-> V(body, i + 2), sent |-> V(body, i + 3)]
CheckpointWidths == <<16, 4, 8, 8>>

\* decode_accept without comparing the transfer ids.
DecodeAcceptAny(body) ==
    IF /\ Reads(body, 1, <<16, 1>>)
       /\ \/ V(body, 2) = 0 /\ Len(body) = 2
          \/ /\ V(body, 2) = 1 /\ Reads(body, 3, CheckpointWidths) /\ Len(body) = 6
             /\ ValidateCheckpoint(CheckpointAt(body, 3))
    THEN [kind |-> "Accept", id |-> V(body, 1),
          at |-> IF V(body, 2) = 0 THEN <<>> ELSE <<CheckpointAt(body, 3)>>]
    ELSE RefusedFrame

DecodeAccept(body) ==
    IF /\ Reads(body, 1, <<16, 1>>)
       /\ \/ V(body, 2) = 0 /\ Len(body) = 2
          \/ /\ V(body, 2) = 1 /\ Reads(body, 3, CheckpointWidths) /\ Len(body) = 6
             /\ ValidateCheckpoint(CheckpointAt(body, 3)) /\ V(body, 3) = V(body, 1)
    THEN [kind |-> "Accept", id |-> V(body, 1),
          at |-> IF V(body, 2) = 0 THEN <<>> ELSE <<CheckpointAt(body, 3)>>]
    ELSE RefusedFrame

DecodeReason(kind, body) ==
    IF Reads(body, 1, <<16, 2, 0>>) /\ V(body, 2) <= MaxReason /\ V(body, 3) = V(body, 2) /\ Len(body) = 3
    THEN [kind |-> kind, id |-> V(body, 1), reason |-> V(body, 2)] ELSE RefusedFrame

DecodeCheckpoint(kind, body) ==
    IF Reads(body, 1, CheckpointWidths) /\ Len(body) = 4 /\ ValidateCheckpoint(CheckpointAt(body, 1))
    THEN [kind |-> kind] @@ CheckpointAt(body, 1) ELSE RefusedFrame

DecodeComplete(body) ==
    IF Reads(body, 1, <<16, 8>>) /\ Len(body) = 2 /\ V(body, 2) <= MaxTotal
    THEN [kind |-> "Complete", id |-> V(body, 1), sent |-> V(body, 2)] ELSE RefusedFrame

\* TransferChunk::decode, then validate_chunk.
DecodeChunk(body) ==
    LET c == [kind |-> "Chunk", id |-> V(body, 1), entry |-> V(body, 2), offset |-> V(body, 3),
              len |-> V(body, 4), compression |-> V(body, 5), final |-> V(body, 6) = 1, payload |-> V(body, 7)]
    IN  IF /\ Reads(body, 1, <<16, 4, 8, 4, 1, 1, 4, 0>>) /\ Len(body) = 8
           /\ V(body, 4) <= MaxChunk /\ V(body, 5) \in {0, 1} /\ V(body, 6) \in {0, 1}
           /\ V(body, 7) = V(body, 8) /\ ValidateChunk(c)
        THEN c ELSE RefusedFrame

\* One entry of a manifest, starting at field i: whether it reads, and itself.
EntryReads(body, i) ==
    /\ Reads(body, i, <<1, 2, 8>>) /\ V(body, i) \in {0, 1}
    /\ V(body, i + 1) \in 1..MaxPath
    /\ V(body, i) = 0 => Reads(body, i + 3, <<32, 0>>)
    /\ V(body, i) = 1 => Reads(body, i + 3, <<0>>) /\ V(body, i + 2) = 0
EntryAt(body, i) ==
    IF V(body, i) = 1
    THEN [dir |-> TRUE, path |-> V(body, i + 3), size |-> 0, digest |-> 0]
    ELSE [dir |-> FALSE, path |-> V(body, i + 4), size |-> V(body, i + 2), digest |-> 1]
EntryWidth(body, i) == IF V(body, i) = 1 THEN 4 ELSE 5

\* TransferManifestCodec::decode. starts[k] is the field where entry k begins, 0
\* once one did not read.
DecodeOffer(body) ==
    LET to     == IF Reads(body, 1, <<16, 16, 1>>) THEN V(body, 3) ELSE 2
        head   == 4 + to
        good   == to \in {0, 1} /\ (to = 1 => Reads(body, 4, <<16>>)) /\ Reads(body, head, <<1, 8, 4>>)
        count  == V(body, head + 2)
        starts[k \in 1..(count + 1)] ==
            IF k = 1 THEN head + 3
            ELSE IF starts[k - 1] = 0 \/ ~EntryReads(body, starts[k - 1]) THEN 0
            ELSE starts[k - 1] + EntryWidth(body, starts[k - 1])
        m      == [kind |-> "Offer", id |-> V(body, 1), from |-> V(body, 2),
                   to |-> IF to = 1 THEN <<V(body, 4)>> ELSE <<>>, source |-> V(body, head),
                   total |-> V(body, head + 1),
                   entries |-> [k \in 1..count |-> EntryAt(body, starts[k])]]
    IN  IF /\ good
           /\ V(body, head) \in 0..2 /\ V(body, head + 1) <= MaxTotal /\ count \in 1..MaxManifest
           /\ starts[count + 1] = Len(body) + 1
           /\ ValidateManifestEntries(m.entries) /\ TotalOf(m.entries) = m.total
        THEN m ELSE RefusedFrame

DecodeBody(tag, body) ==
    CASE tag = 1 -> DecodeOffer(body) [] tag = 2 -> DecodeAccept(body)
      [] tag \in {3, 8} -> DecodeReason(KindOf(tag), body) [] tag = 4 -> DecodeChunk(body)
      [] tag \in {5, 6} -> DecodeCheckpoint(KindOf(tag), body) [] tag = 7 -> DecodeComplete(body)
      [] OTHER -> RefusedFrame

\* FileTransferMessage::decode: the header first.
Decoded(f) ==
    IF f.version # WireVersion \/ f.flags # 0 \/ f.declared > MaxBody \/ f.declared # BodyLen(f.body)
    THEN RefusedFrame ELSE DecodeBody(f.tag, f.body)

FrameOf(m) == [version |-> WireVersion, tag |-> Tag(m.kind), flags |-> 0,
               declared |-> BodyLen(BodyOf(m)), body |-> BodyOf(m)]

-----------------------------------------------------------------------------
WireInit == written = NoMessage /\ wireFrame = NoFrame /\ damaged = FALSE /\ read = NoMessage

\* This build encodes; another build writes what it likes.
Encode ==
    /\ written = NoMessage
    /\ \E m \in WireOffers \cup Others : written' = m /\ wireFrame' = FrameOf(m)
    /\ UNCHANGED <<damaged, read>>

\* The header of another version or an unknown tag, a lost tail, or bytes after
\* the message; the length field may have been corrected to match.
Damage ==
    /\ written # NoMessage /\ read = NoMessage /\ ~damaged
    /\ \E f \in {[wireFrame EXCEPT !.version = 1], [wireFrame EXCEPT !.tag = 9], [wireFrame EXCEPT !.flags = 1]}
                \cup {[wireFrame EXCEPT !.body = SubSeq(@, 1, Len(@) - 1)], [wireFrame EXCEPT !.body = Append(@, <<1, 0>>)]} :
          wireFrame' \in {f, [f EXCEPT !.declared = BodyLen(f.body)]}
    /\ damaged' = TRUE
    /\ UNCHANGED <<written, read>>

Decode ==
    /\ written # NoMessage /\ read = NoMessage
    /\ read' = Decoded(wireFrame)
    /\ UNCHANGED <<written, wireFrame, damaged>>

ForgetFrame == read # NoMessage /\ written' = NoMessage /\ wireFrame' = NoFrame /\ damaged' = FALSE /\ read' = NoMessage

WireNext == Encode \/ Damage \/ Decode \/ ForgetFrame

-----------------------------------------------------------------------------
\* A frame that arrives whole is read exactly when this build would have written
\* it, and then as the same message; one that does not is refused.
CodecsAgree ==
    read # NoMessage =>
       read = IF ~damaged /\ Encodable(written) THEN written ELSE RefusedFrame
=============================================================================
