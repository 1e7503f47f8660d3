---------------------------- MODULE LinuxPipeWire ----------------------------
(***************************************************************************)
(* The Linux screen and audio back ends (crates/platform/platform-linux/   *)
(* src/pipewire_screen.rs, pipewire_audio.rs). Every capture or playback   *)
(* of one frame is a call that runs on a blocking thread: it connects to   *)
(* PipeWire, opens a stream, and iterates the loop until a callback has    *)
(* put a result in a channel of one slot or five seconds have passed.      *)
(* Screen captures share one ScreenCast portal session, opened by whoever  *)
(* needs it first. PipeWire and the portal are external. What a call has   *)
(* made is destroyed by the value that owns it: the rest is lost.          *)
(***************************************************************************)
EXTENDS Naturals, Sequences, FiniteSets

CONSTANTS
    MediaCallers,    \* tasks that may be inside a call
    MediaOps,        \* caller -> the calls it may make
    PixelCounts,     \* sizes, in pixels, a plan may ask for and a stream may have
    OverwidePlan,    \* a size no plan of the planner has: four bytes of each pixel of a line overflow u32
    MaxWait,         \* loop iterations before STREAM_WAIT_TIMEOUT
    MaxBuffers,      \* bound: buffers processed in a call
    MaxMediaCalls,   \* bound: calls made
    MaxMediaFaults   \* bound: failures of PipeWire or of the portal

ASSUME PipeWireConstants ==
    /\ MediaOps \in [MediaCallers -> SUBSET {"sources", "screen", "capture", "play"}]
    /\ PixelCounts \subseteq Nat \ {0} /\ OverwidePlan \in Nat \ PixelCounts /\ MaxWait \in Nat \ {0}

VARIABLES
    cast,         \* LinuxPipeWireScreenCapture::session: is one cached
    castLock,     \* the caller inside open_screen_cast, with its portal step
    portals,      \* ScreenCast sessions the portal has made; nothing ever closes one
    mediaCall,    \* caller -> its call
    natives,      \* caller -> PipeWire objects it has made and not destroyed
    callChannel,  \* caller -> the sync_channel(1)
    played,       \* caller -> buffers its playback frame was written to
    answers,      \* the result the last step returned, with what the stream really had and what was lost
    mediaUse      \* [calls, faults]

pipeVars == <<cast, castLock, portals, mediaCall, natives, callChannel, played, answers, mediaUse>>

\* Rgba is laid out like Bgra; "other" is every format from_spa_raw_info refuses.
Formats == {"Bgra", "Nv12", "other"}
ScreenFormats == {f \in [fmt : Formats, px : PixelCounts \cup {0}] : f.fmt = "other" <=> f.px = 0}

\* The payload of a DMA-BUF frame: the plane's fd, and the chunk's offset and size.
DescriptorBytes == 24

\* validate_pipewire_payload: bytes of a tightly packed frame. Of a DMA-BUF frame
\* only an empty payload is refused.
FrameBytes(f) == IF f.fmt = "Nv12" THEN (f.px * 3) \div 2 ELSE f.px * 4
LeastBytes(memory, f) == IF memory = "DmaBuf" THEN 1 ELSE FrameBytes(f)

\* PipeWireFrameFormat::fixate: what the stream assumes until PipeWire says. It
\* fails when the stride of the requested width overflows.
Fixate(px) == [fmt |-> "Bgra", px |-> px]
Fixable(k) == k.op = "screen" => k.asked # OverwidePlan

NoFormat == [fmt |-> "none", px |-> 0]
Idle == [op |-> "idle", at |-> "out", asked |-> 0, memory |-> "none", actual |-> NoFormat, format |-> NoFormat,
         negotiated |-> FALSE, parsed |-> FALSE, seq |-> 1, frame |-> "none", waited |-> 0]

PipeInit ==
    /\ cast = FALSE /\ castLock = {} /\ portals = 0
    /\ mediaCall = [c \in MediaCallers |-> Idle]
    /\ natives = [c \in MediaCallers |-> {}]
    /\ callChannel = [c \in MediaCallers |-> <<>>]
    /\ played = [c \in MediaCallers |-> 0]
    /\ answers = {} /\ mediaUse = [calls |-> 0, faults |-> 0]

Fault == mediaUse.faults < MaxMediaFaults /\ mediaUse' = [mediaUse EXCEPT !.faults = @ + 1]
NoFault == UNCHANGED mediaUse

-----------------------------------------------------------------------------
\* request_permissions and list_sources, capture_frame, capture_audio_frame,
\* play_audio_frame: the call begins. The screen calls first need the session, the
\* audio calls go straight to PipeWire.
BeginCall(c) ==
    /\ mediaCall[c].op = "idle" /\ mediaUse.calls < MaxMediaCalls
    /\ \/ \E op \in MediaOps[c] \ {"screen"} :
             mediaCall' = [mediaCall EXCEPT ![c] =
                [Idle EXCEPT !.op = op, !.at = IF op = "sources" THEN "session" ELSE "connect",
                             !.frame = IF op = "play" THEN "held" ELSE "none"]]
       \/ \E px \in PixelCounts \cup {OverwidePlan}, memory \in {"DmaBuf", "System"} :
             "screen" \in MediaOps[c] /\ mediaCall' = [mediaCall EXCEPT ![c] =
                [Idle EXCEPT !.op = "screen", !.at = "session", !.asked = px, !.memory = memory]]
    /\ mediaUse' = [mediaUse EXCEPT !.calls = @ + 1]
    /\ played' = [played EXCEPT ![c] = 0]
    /\ answers' = {} /\ UNCHANGED <<cast, castLock, portals, natives, callChannel>>

\* Without a Drop of the stream.
OwnedConnection(c) == {"loop", "context", "core"}

\* What the values of a call destroy when they go out of scope, stream before
\* connection: a stream belongs to one only once PipeWireStream::connect returned it.
Owned(c) == {"loop", "context", "core"} \cup (IF mediaCall[c].at = "loop" THEN {"stream"} ELSE {})

\* The call returns. `freed` is what its error path destroys by hand.
ReturnAfter(c, answer, freed) ==
    /\ mediaCall' = [mediaCall EXCEPT ![c] = Idle]
    /\ callChannel' = [callChannel EXCEPT ![c] = <<>>]
    /\ answers' = {[op |-> mediaCall[c].op, result |-> answer, actual |-> mediaCall[c].actual,
                    writes |-> played[c], at |-> mediaCall[c].at, lost |-> (natives[c] \ freed) \ Owned(c)]}
    /\ natives' = [natives EXCEPT ![c] = {}]
    /\ UNCHANGED <<cast, castLock, portals, played>>

Return(c, answer) == ReturnAfter(c, answer, {})

Failed == [kind |-> "error", seq |-> 0, format |-> NoFormat, memory |-> "none", bytes |-> 0, understood |-> FALSE]

-----------------------------------------------------------------------------
\* Back in the caller with the session: the two inquiries are answered from it.
WithSession(c) ==
    mediaCall' = [mediaCall EXCEPT ![c] = IF @.op = "sources" THEN Idle ELSE [@ EXCEPT !.at = "connect"]]

\* ensure_session: the lock is held across the four portal calls, so one caller
\* opens a session and the others find it.
EnterSession(c) ==
    /\ mediaCall[c].at = "session" /\ castLock = {}
    /\ IF cast
       THEN WithSession(c) /\ UNCHANGED castLock
       ELSE castLock' = {[who |-> c, step |-> "CreateSession"]} /\ UNCHANGED mediaCall
    /\ NoFault /\ answers' = {} /\ UNCHANGED <<cast, portals, natives, callChannel, played>>

NextStep(step) ==
    CASE step = "CreateSession" -> "SelectSources"
      [] step = "SelectSources" -> "Start"
      [] step = "Start"         -> "OpenPipeWireRemote"

\* open_screen_cast: each portal call is answered or refused (request_results).
PortalAnswers ==
    \E l \in castLock :
       \/ /\ l.step # "OpenPipeWireRemote"
          /\ castLock' = {[l EXCEPT !.step = NextStep(l.step)]}
          /\ portals' = IF l.step = "CreateSession" THEN portals + 1 ELSE portals
          /\ NoFault /\ answers' = {} /\ UNCHANGED <<cast, mediaCall, natives, callChannel, played>>
       \/ /\ l.step = "OpenPipeWireRemote"
          /\ cast' = TRUE /\ castLock' = {} /\ WithSession(l.who)
          /\ NoFault /\ answers' = {} /\ UNCHANGED <<portals, natives, callChannel, played>>

\* The `?` of one of the four calls: nothing is cached, and the session that
\* CreateSession made, if it got that far, stays open in the portal.
PortalRefuses ==
    \E l \in castLock :
       /\ Fault /\ castLock' = {} /\ UNCHANGED <<cast, portals, natives, callChannel, played>>
       /\ mediaCall' = [mediaCall EXCEPT ![l.who] = Idle]
       /\ answers' = {[op |-> mediaCall[l.who].op, result |-> Failed, actual |-> NoFormat,
                       writes |-> 0, at |-> "session", lost |-> {}]}

-----------------------------------------------------------------------------
\* PipeWireConnection::connect, connect_fd: main loop, context, core; what was
\* made is destroyed when the next one fails.
ConnectRemote(c) ==
    /\ mediaCall[c].at = "connect"
    /\ \/ /\ natives' = [natives EXCEPT ![c] = {"loop", "context", "core"}]
          /\ mediaCall' = [mediaCall EXCEPT ![c].at = "properties"]
          /\ NoFault /\ answers' = {} /\ UNCHANGED <<cast, castLock, portals, callChannel, played>>
       \/ Fault /\ Return(c, Failed)

\* stream_properties makes the list and sets its entries one by one: an entry that
\* cannot be set ends the call while a raw pointer holds the list.
MakeProperties(c) ==
    /\ mediaCall[c].at = "properties" /\ "props" \notin natives[c]
    /\ \/ /\ natives' = [natives EXCEPT ![c] = @ \cup {"props"}]
          /\ NoFault /\ answers' = {} /\ UNCHANGED <<cast, castLock, portals, mediaCall, callChannel, played>>
       \/ Fault /\ Return(c, Failed)

SetProperty(c) ==
    /\ mediaCall[c].at = "properties" /\ "props" \in natives[c]
    /\ \/ /\ mediaCall' = [mediaCall EXCEPT ![c].at = "stream"]
          /\ NoFault /\ answers' = {} /\ UNCHANGED <<cast, castLock, portals, natives, callChannel, played>>
       \/ Fault /\ Return(c, Failed)

\* PipeWireStream::connect, PipeWireAudioNativeStream::connect: pw_stream_new takes
\* the properties, or they are freed when it fails.
NewStream(c) ==
    /\ mediaCall[c].at = "stream" /\ "stream" \notin natives[c]
    /\ \/ /\ natives' = [natives EXCEPT ![c] = (@ \ {"props"}) \cup {"stream"}]
          /\ NoFault /\ answers' = {} /\ UNCHANGED <<cast, castLock, portals, mediaCall, callChannel, played>>
       \/ Fault /\ ReturnAfter(c, Failed, {"props"})

\* The rest of connect. A screen stream assumes the requested size until PipeWire
\* announces the real format; a size that cannot be assumed ends the call with the
\* stream in a raw pointer, a stream that does not connect is destroyed.
OpenStream(c) ==
    LET k == mediaCall[c] IN
    /\ k.at = "stream" /\ "stream" \in natives[c]
    /\ \/ /\ Fixable(k)
          /\ mediaCall' = [mediaCall EXCEPT ![c].at = "loop",
                              ![c].format = IF k.op = "screen" THEN Fixate(k.asked) ELSE @]
          /\ NoFault /\ answers' = {} /\ UNCHANGED <<cast, castLock, portals, natives, callChannel, played>>
       \/ Fixable(k) /\ Fault /\ ReturnAfter(c, Failed, {"stream"})
       \/ ~Fixable(k) /\ NoFault /\ Return(c, Failed)

\* try_send on a channel of one slot: a second result is thrown away.
Sent(c, r) == callChannel' = [callChannel EXCEPT ![c] = IF @ = <<>> THEN <<r>> ELSE @]

\* The format the stream really has is PipeWire's choice, made once.
ActualFormats(k) ==
    IF k.op # "screen" THEN {NoFormat} ELSE IF k.actual = NoFormat THEN ScreenFormats ELSE {k.actual}

\* on_stream_param_changed, on_audio_stream_param_changed: a format pod that cannot
\* be parsed leaves a screen stream with the assumed format, and an audio stream
\* with the requested one; one that names an unsupported format is an error.
FormatAnnounced(c) ==
    LET k == mediaCall[c] IN
    /\ k.at = "loop" /\ ~k.negotiated
    /\ \E parsed \in BOOLEAN, actual \in ActualFormats(k) :
          IF k.op = "screen"
          THEN IF parsed /\ actual.fmt = "other"
               THEN Sent(c, Failed) /\ mediaCall' = [mediaCall EXCEPT ![c].actual = actual]
               ELSE /\ mediaCall' = [mediaCall EXCEPT ![c].negotiated = TRUE, ![c].parsed = parsed,
                           ![c].actual = actual, ![c].format = IF parsed THEN actual ELSE Fixate(k.asked)]
                    /\ UNCHANGED callChannel
          ELSE mediaCall' = [mediaCall EXCEPT ![c].negotiated = parsed] /\ UNCHANGED callChannel
    /\ NoFault /\ answers' = {} /\ UNCHANGED <<cast, castLock, portals, natives, played>>

\* extract_frame_from_pw_buffer: the valid part of the mapped plane, an offset
\* taken modulo its size and a length cut at its end.
ChunkBytes(maxsize, offset, size) ==
    LET from == IF maxsize = 0 THEN 0 ELSE offset % maxsize
    IN  IF size <= maxsize - from THEN size ELSE maxsize - from

\* pipewire_frame_from_mapped_buffer: when DMA-BUF memory was asked for, the plane's
\* fd with the chunk's place in it, whether the plane is mapped or not; otherwise the
\* chunk's bytes, which have to be mapped. <<>> is the error.
FramePayload(k, plane, bytes) ==
    IF k.memory = "DmaBuf"
    THEN IF plane.fd THEN <<DescriptorBytes>> ELSE <<>>
    ELSE IF plane.mapped \/ bytes = 0 THEN <<bytes>> ELSE <<>>

\* on_stream_process. The payload is made for the memory that was asked for, not for
\* the one the buffer has.
ScreenBuffer(c) ==
    LET k == mediaCall[c] IN
    /\ k.at = "loop" /\ k.op = "screen" /\ k.seq <= MaxBuffers
    /\ \E plane \in [fd : BOOLEAN, mapped : BOOLEAN], offset \in {0, 1},
           actual \in {a \in ActualFormats(k) : a.fmt # "other"} :
          LET size    == FrameBytes(actual)
              payload == FramePayload(k, plane, ChunkBytes(size, offset, size))
          IN  IF payload # <<>>
              THEN /\ Sent(c, [kind |-> "frame", seq |-> k.seq, format |-> k.format, memory |-> k.memory,
                               bytes |-> payload[1], understood |-> k.parsed])
                   /\ mediaCall' = [mediaCall EXCEPT ![c].seq = @ + 1, ![c].actual = actual]
              ELSE Sent(c, Failed) /\ mediaCall' = [mediaCall EXCEPT ![c].actual = actual]
    /\ NoFault /\ answers' = {} /\ UNCHANGED <<cast, castLock, portals, natives, played>>

\* on_audio_stream_process for capture: before a PCM format has been announced the
\* requested codec is not PCM and the buffer is refused.
AudioBuffer(c) ==
    LET k == mediaCall[c] IN
    /\ k.at = "loop" /\ k.op = "capture" /\ k.seq <= MaxBuffers
    /\ Sent(c, IF k.negotiated THEN [Failed EXCEPT !.kind = "frame", !.seq = k.seq, !.understood = TRUE]
               ELSE Failed)
    /\ mediaCall' = [mediaCall EXCEPT ![c].seq = IF k.negotiated THEN @ + 1 ELSE @]
    /\ NoFault /\ answers' = {} /\ UNCHANGED <<cast, castLock, portals, natives, played>>

\* on_audio_stream_process for playback: the frame is taken, put back when there is
\* no buffer, and gone after a write, also after one that failed.
PlaybackBuffer(c) ==
    LET k == mediaCall[c] IN
    /\ k.at = "loop" /\ k.op = "play" /\ k.frame = "held"
    /\ \/ /\ played' = [played EXCEPT ![c] = @ + 1]
          /\ Sent(c, [Failed EXCEPT !.kind = "frame"]) /\ NoFault
       \/ Sent(c, Failed) /\ Fault /\ UNCHANGED played
    /\ mediaCall' = [mediaCall EXCEPT ![c].frame = "gone"]
    /\ answers' = {} /\ UNCHANGED <<cast, castLock, portals, natives>>

\* The payload is returned as it came.
Unvalidated(k, r) == r

\* into_screen_frame: the payload of a frame must cover the format it claims, or be
\* the descriptor of a DMA-BUF.
Validated(k, r) ==
    IF k.op = "screen" /\ r.kind = "frame" /\ r.bytes < LeastBytes(r.memory, r.format) THEN Failed ELSE r

\* connect_remote_and_read_frame, capture_audio_frame, play_audio_frame: the first
\* result ends the call; an iteration that brings none brings the timeout closer.
Receive(c) ==
    /\ mediaCall[c].at = "loop" /\ callChannel[c] # <<>>
    /\ Return(c, Validated(mediaCall[c], callChannel[c][1])) /\ NoFault

Iterate(c) ==
    /\ mediaCall[c].at = "loop" /\ callChannel[c] = <<>> /\ mediaCall[c].waited < MaxWait
    /\ \/ /\ mediaCall' = [mediaCall EXCEPT ![c].waited = @ + 1]
          /\ NoFault /\ answers' = {} /\ UNCHANGED <<cast, castLock, portals, natives, callChannel, played>>
       \/ Fault /\ Return(c, Failed)

TimedOut(c) ==
    /\ mediaCall[c].at = "loop" /\ callChannel[c] = <<>> /\ mediaCall[c].waited = MaxWait
    /\ Return(c, Failed) /\ NoFault

PipeNext ==
    \/ PortalAnswers \/ PortalRefuses
    \/ \E c \in MediaCallers :
          \/ BeginCall(c) \/ EnterSession(c) \/ ConnectRemote(c)
          \/ MakeProperties(c) \/ SetProperty(c) \/ NewStream(c) \/ OpenStream(c)
          \/ FormatAnnounced(c) \/ ScreenBuffer(c) \/ AudioBuffer(c) \/ PlaybackBuffer(c)
          \/ Receive(c) \/ Iterate(c) \/ TimedOut(c)

PipeSpec == PipeInit /\ [][PipeNext]_pipeVars

-----------------------------------------------------------------------------
PipeTypeOK ==
    /\ cast \in BOOLEAN /\ Cardinality(castLock) <= 1 /\ portals \in Nat
    /\ \A c \in MediaCallers :
          /\ Len(callChannel[c]) <= 1 /\ played[c] \in Nat
          /\ natives[c] \subseteq {"loop", "context", "core", "stream", "props"}

\* A call that got as far as iterating the loop leaves nothing of PipeWire's behind,
\* whether it got its frame, was told of an error or timed out. Of the calls that
\* fail before that, two kinds do: one whose property could not be set loses the
\* property list, one whose plan is too wide for a stride loses the stream; and the
\* connection is never among what is lost.
NothingHeldWhenIdle ==
    /\ \A c \in MediaCallers :
          /\ (mediaCall[c].op = "idle" => natives[c] = {} /\ callChannel[c] = <<>>)
          /\ (natives[c] \cap {"props", "stream"} # {} => {"loop", "context", "core"} \subseteq natives[c])
    /\ \A a \in answers :
          /\ (a.at = "loop" \/ a.result.kind = "frame" => a.lost = {})
          /\ a.lost \in {{}, {"props"}, {"stream"}}
          /\ ("props" \in a.lost => a.at = "properties") /\ ("stream" \in a.lost => a.at = "stream")

\* A screen frame of mapped memory that reaches the encoder has all the bytes of the
\* picture it claims to be; one of a DMA-BUF is a descriptor of the plane, whose stream
\* is gone when the caller reads it. Either claims the format the stream really had
\* whenever PipeWire's announcement was understood.
FramesComplete ==
    \A a \in answers : a.op = "screen" /\ a.result.kind = "frame" =>
       /\ (a.result.memory = "System" => a.result.bytes >= FrameBytes(a.result.format))
       /\ (a.result.memory = "DmaBuf" => a.result.bytes = DescriptorBytes)
       /\ (a.result.understood => a.result.format = a.actual)

\* A playback call reports success exactly when it put its frame into one buffer.
PlayedExactlyOnce ==
    \A a \in answers : a.op = "play" =>
       /\ a.writes <= 1
       /\ (a.result.kind = "frame") <=> (a.writes = 1)

\* While one caller asks the portal for a session no other does, and none asks
\* once there is one. Nothing closes a session, so those the portal holds open are
\* the one in use or being opened and at most one for each call that was refused.
OnePortalDialog ==
    /\ \A l \in castLock : ~cast /\ mediaCall[l.who].at = "session"
    /\ portals <= mediaUse.faults + (IF cast \/ castLock # {} THEN 1 ELSE 0)
=============================================================================
