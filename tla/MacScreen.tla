------------------------------ MODULE MacScreen ------------------------------
(***************************************************************************)
(* The macOS screen back end (crates/platform/platform-macos/src/          *)
(* screen_capture.rs, screen_encoder.rs). Every call runs on a blocking    *)
(* thread of its own and owns the CoreFoundation objects it creates; the   *)
(* captures share one frame counter. VideoToolbox calls back from its own  *)
(* thread, with a pointer to the call's state, until its session is        *)
(* invalidated. The window server and VideoToolbox are external.           *)
(***************************************************************************)
EXTENDS Naturals, Sequences, FiniteSets

CONSTANTS
    MacCallers,      \* tasks that may be inside a call
    MacWindows,      \* window numbers
    OwnerOf,         \* window -> process that owns it
    FrameSizes,      \* pixels of a frame, 0 for an empty one
    BitRates,        \* bitrate_kbps of a plan
    MaxBits,         \* i32::MAX of bitrate_bits_per_second
    TicksPerMicro,   \* divisor of mach_absolute_time
    MaxMacCalls,     \* bound: calls made
    MaxMacFaults,    \* bound: failures of the system's functions
    MaxWindowMoves   \* bound: windows opened or closed

ASSUME MacConstants ==
    /\ OwnerOf \in [MacWindows -> Nat \ {0}] /\ FrameSizes \subseteq Nat /\ BitRates \subseteq Nat
    /\ MaxBits \in Nat /\ TicksPerMicro \in Nat \ {0}

VARIABLES
    onScreen,     \* windows on screen
    granted,      \* Screen Recording permission
    macSources,       \* sources of the last list_sources
    macSequence,  \* MacosScreenCapture::sequence
    ticks,        \* mach_absolute_time
    macCall,      \* caller -> its call
    owned,        \* caller -> objects and memory its call has not given back
    inEncoder,    \* callers whose frame VideoToolbox still works on
    sample,       \* caller -> what the callback has sent
    macResult,    \* the result the last step returned
    returned,     \* [seq, time] of every frame returned
    macUse        \* [calls, faults, moves]

macVars == <<onScreen, granted, macSources, macSequence, ticks, macCall, owned, inEncoder, sample,
             macResult, returned, macUse>>

Out == [op |-> "idle", at |-> "out", source |-> <<"none", 0>>, shown |-> 0, time |-> 0,
        earlier |-> {}, frame |-> [px |-> 0, len |-> 0, packed |-> TRUE], outcome |-> "none"]

MacInit ==
    /\ onScreen = MacWindows /\ granted = FALSE /\ macSources = {}
    /\ macSequence = 0 /\ ticks = 0
    /\ macCall = [c \in MacCallers |-> Out] /\ owned = [c \in MacCallers |-> {}]
    /\ inEncoder = {} /\ sample = [c \in MacCallers |-> <<>>]
    /\ macResult = {} /\ returned = {}
    /\ macUse = [calls |-> 0, faults |-> 0, moves |-> 0]

MacFault == macUse.faults < MaxMacFaults /\ macUse' = [macUse EXCEPT !.faults = @ + 1]
NoMacFault == UNCHANGED macUse
NewCall(c) ==
    macCall[c].op = "idle" /\ macUse.calls < MaxMacCalls /\ macUse' = [macUse EXCEPT !.calls = @ + 1]
systemVars == <<onScreen, granted, macSources>>
encoderVars == <<inEncoder, sample>>

\* The call gives its result and is over.
MacEnded(c, result) ==
    macCall' = [macCall EXCEPT ![c] = Out] /\ macResult' = {result}
MacFailed == [kind |-> "error", source |-> <<"none", 0>>, shown |-> 0,
              seq |-> 0, time |-> 0, earlier |-> {}]
Goes(c, to) == macCall' = [macCall EXCEPT ![c].at = to] /\ macResult' = {}

-----------------------------------------------------------------------------
(* screen_capture.rs *)

\* A window appears or disappears between any two steps; a number is not reused.
WindowMoves ==
    \E w \in MacWindows :
       /\ macUse.moves < MaxWindowMoves /\ macUse' = [macUse EXCEPT !.moves = @ + 1]
       /\ onScreen' = IF w \in onScreen THEN onScreen \ {w} ELSE onScreen \cup {w}
       /\ macResult' = {}
       /\ UNCHANGED <<granted, macSources, macSequence, ticks, macCall, owned, encoderVars, returned>>

\* request_permissions: asks the user only when access is not granted yet.
RequestRecording ==
    /\ ~granted /\ granted' = TRUE /\ macResult' = {}
    /\ UNCHANGED <<onScreen, macSources, macSequence, ticks, macCall, owned, encoderVars, returned, macUse>>

\* enumerate_windows: entries without a number or an owner are skipped.
EnumerateWindows == {w \in onScreen : w > 0 /\ OwnerOf[w] > 0}

\* enumerate_sources: displays, windows and, with ScreenCaptureKit, the processes
\* that own a window.
EnumerateSources(kit) ==
    {<<"Display", 1>>} \cup {<<"Window", w>> : w \in EnumerateWindows}
    \cup {<<"Application", OwnerOf[w]>> : w \in {v \in EnumerateWindows : kit}}

ListSources ==
    /\ granted
    /\ \E kit \in BOOLEAN : macSources' = EnumerateSources(kit)
    /\ macSources' # macSources /\ macResult' = {}
    /\ UNCHANGED <<onScreen, granted, macSequence, ticks, macCall, owned, encoderVars, returned, macUse>>

\* capture_source_frame: an application is captured through one of its windows.
BeginCapture(c) ==
    /\ NewCall(c)
    /\ \E s \in macSources :
          macCall' = [macCall EXCEPT ![c] = [Out EXCEPT !.op = "capture", !.source = s, !.earlier = returned,
                         !.at = IF s[1] = "Application" THEN "find" ELSE "image", !.shown = s[2]]]
    /\ macResult' = {} /\ UNCHANGED <<systemVars, macSequence, ticks, owned, encoderVars, returned>>

\* capture_application_frame: the windows are listed a second time when the first
\* list has none of the process.
FindWindow(c) ==
    LET k == macCall[c]
        mine == {w \in EnumerateWindows : OwnerOf[w] = k.source[2]}
    IN  /\ k.at \in {"find", "findAgain"}
        /\ IF mine # {}
           THEN /\ \E w \in mine : macCall' = [macCall EXCEPT ![c].at = "image", ![c].shown = w]
                /\ macResult' = {}
           ELSE IF k.at = "find" THEN Goes(c, "findAgain") ELSE MacEnded(c, MacFailed)
        /\ NoMacFault /\ UNCHANGED <<systemVars, macSequence, ticks, owned, encoderVars, returned>>

\* capture_display_frame, capture_window_frame: no image of a window that is gone.
CreateImage(c) ==
    LET k == macCall[c]
        there == k.source[1] = "Display" \/ k.shown \in onScreen
    IN  /\ k.at = "image"
        /\ \/ /\ there /\ Goes(c, "copy") /\ NoMacFault
              /\ owned' = [owned EXCEPT ![c] = @ \cup {"image"}]
           \/ ~there /\ MacEnded(c, MacFailed) /\ NoMacFault /\ UNCHANGED owned
           \/ there /\ MacEnded(c, MacFailed) /\ MacFault /\ UNCHANGED owned
        /\ UNCHANGED <<systemVars, macSequence, ticks, encoderVars, returned>>

\* screen_frame_from_image: what has been made is released on every way out.
CopyData(c) ==
    /\ macCall[c].at = "copy"
    /\ \/ /\ Goes(c, "bytes") /\ NoMacFault
          /\ owned' = [owned EXCEPT ![c] = @ \cup {"data"}]
       \/ /\ MacEnded(c, MacFailed) /\ MacFault
          /\ owned' = [owned EXCEPT ![c] = @ \ {"image"}]
    /\ UNCHANGED <<systemVars, macSequence, ticks, encoderVars, returned>>

ReadBytes(c) ==
    /\ macCall[c].at = "bytes" /\ owned' = [owned EXCEPT ![c] = @ \ {"image", "data"}]
    /\ \/ Goes(c, "stamp") /\ NoMacFault
       \/ MacEnded(c, MacFailed) /\ MacFault
    /\ UNCHANGED <<systemVars, macSequence, ticks, encoderVars, returned>>

\* The time is read first, the number is taken afterwards.
Stamp(c) ==
    /\ macCall[c].at = "stamp" /\ ticks' = ticks + 1
    /\ macCall' = [macCall EXCEPT ![c].at = "number", ![c].time = ticks \div TicksPerMicro]
    /\ macResult' = {} /\ NoMacFault
    /\ UNCHANGED <<systemVars, macSequence, owned, encoderVars, returned>>

TakeNumber(c) ==
    LET k == macCall[c] IN
    /\ k.at = "number" /\ macSequence' = macSequence + 1
    /\ MacEnded(c, [MacFailed EXCEPT !.kind = "frame", !.source = k.source, !.shown = k.shown,
                                  !.seq = macSequence, !.time = k.time, !.earlier = k.earlier])
    /\ returned' = returned \cup {[seq |-> macSequence, time |-> k.time]}
    /\ NoMacFault /\ UNCHANGED <<systemVars, ticks, owned, encoderVars>>

-----------------------------------------------------------------------------
(* screen_encoder.rs *)

\* video_frame_layout: four bytes for each pixel, and no empty picture.
ExpectedLen(px) == 4 * px

\* bitrate_bits_per_second
BitsPerSecond(kbps) == kbps * 1000

\* validate_videotoolbox_frame, cv_pixel_format and the length check.
FrameFits(frame, kbps) ==
    /\ frame.px > 0 /\ BitsPerSecond(kbps) <= MaxBits
    /\ frame.packed /\ frame.len >= ExpectedLen(frame.px)

\* encode_frame: a plan for another encoder is refused and RawRgba is passed on.
\* `packed` is a Bgra8 or Rgba8 frame in system memory with the plan's resolution.
BeginEncode(c) ==
    /\ NewCall(c)
    /\ \E plan \in {"H264", "RawRgba", "other"}, px \in FrameSizes, short \in {0, 1},
          packed \in BOOLEAN, kbps \in BitRates :
          LET frame == [px |-> px, len |-> IF px = 0 THEN 0 ELSE ExpectedLen(px) - short, packed |-> packed]
          IN  IF plan = "RawRgba"
              THEN MacEnded(c, [MacFailed EXCEPT !.kind = "raw"]) /\ UNCHANGED owned
              ELSE IF plan = "H264" /\ FrameFits(frame, kbps)
              THEN /\ macCall' = [macCall EXCEPT ![c] = [Out EXCEPT !.op = "encode", !.at = "create", !.frame = frame]]
                   /\ owned' = [owned EXCEPT ![c] = {"payload"}] /\ macResult' = {}
              ELSE MacEnded(c, MacFailed) /\ UNCHANGED owned
    /\ sample' = [sample EXCEPT ![c] = <<>>]
    /\ UNCHANGED <<systemVars, macSequence, ticks, inEncoder, returned>>

\* A step of encode_videotoolbox_frame_blocking fails: its locals are dropped.
Abandons(c) == macCall' = [macCall EXCEPT ![c].at = "drop", ![c].outcome = "error"] /\ macResult' = {}

\* VTCompressionSessionCreate; the callback's state is boxed before it.
CreateSession(c) ==
    /\ macCall[c].at = "create"
    /\ \/ /\ Goes(c, "configure") /\ NoMacFault
          /\ owned' = [owned EXCEPT ![c] = @ \cup {"state", "session"}]
       \/ /\ Abandons(c) /\ MacFault
          /\ owned' = [owned EXCEPT ![c] = @ \cup {"state"}]
    /\ UNCHANGED <<systemVars, macSequence, ticks, encoderVars, returned>>

\* configure_session: the number made for the bit rate is released with the scope.
ConfigureSession(c) ==
    /\ macCall[c].at = "configure"
    /\ \/ Goes(c, "pixels") /\ NoMacFault
       \/ Abandons(c) /\ MacFault
    /\ UNCHANGED <<systemVars, macSequence, ticks, owned, encoderVars, returned>>

\* CVPixelBufferCreateWithBytes: the buffer points into the payload.
WrapPixels(c) ==
    /\ macCall[c].at = "pixels"
    /\ \/ /\ Goes(c, "submit") /\ NoMacFault
          /\ owned' = [owned EXCEPT ![c] = @ \cup {"pixels"}]
       \/ Abandons(c) /\ MacFault /\ UNCHANGED owned
    /\ UNCHANGED <<systemVars, macSequence, ticks, encoderVars, returned>>

\* VTCompressionSessionEncodeFrame: from here VideoToolbox reads the pixels.
SubmitFrame(c) ==
    /\ macCall[c].at = "submit"
    /\ \/ Goes(c, "complete") /\ inEncoder' = inEncoder \cup {c} /\ NoMacFault
       \/ Abandons(c) /\ MacFault /\ UNCHANGED inEncoder
    /\ UNCHANGED <<systemVars, macSequence, ticks, owned, sample, returned>>

\* compression_output_callback, on VideoToolbox's thread: the sample is copied,
\* contiguous or not, or refused, and sent. VideoToolbox may also never call it.
OutputCallback(c) ==
    /\ c \in inEncoder /\ inEncoder' = inEncoder \ {c}
    /\ \/ sample' = [sample EXCEPT ![c] = Append(@, "sample")] /\ NoMacFault
       \/ sample' = [sample EXCEPT ![c] = Append(@, "error")] /\ MacFault
       \/ UNCHANGED sample /\ MacFault
    /\ macResult' = {} /\ UNCHANGED <<systemVars, macSequence, ticks, macCall, owned, returned>>

\* VTCompressionSessionCompleteFrames returns after the callbacks, or fails with
\* one still to come.
CompleteFrames(c) ==
    /\ macCall[c].at = "complete"
    /\ \/ c \notin inEncoder /\ Goes(c, "receive") /\ NoMacFault
       \/ Abandons(c) /\ MacFault
    /\ UNCHANGED <<systemVars, macSequence, ticks, owned, encoderVars, returned>>

\* recv_timeout: the sample, or the timeout when none was sent.
ReceiveSample(c) ==
    /\ macCall[c].at = "receive" /\ NoMacFault
    /\ \/ /\ sample[c] # <<>> /\ macResult' = {}
          /\ macCall' = [macCall EXCEPT ![c].at = "drop", ![c].outcome = Head(sample[c])]
          /\ sample' = [sample EXCEPT ![c] = Tail(@)]
       \/ sample[c] = <<>> /\ Abandons(c) /\ UNCHANGED sample
    /\ UNCHANGED <<systemVars, macSequence, ticks, owned, inEncoder, returned>>

\* The locals in the order Rust drops them: the last declared first, and the
\* fields of VtEncodingSession after its Drop.
DropOrder == <<"pixels", "session", "state", "payload">>

\* Dropping the session invalidates it, after which nothing is called back.
DropLocal(c) ==
    /\ macCall[c].at = "drop" /\ owned[c] # {}
    /\ LET first == CHOOSE i \in 1..4 : DropOrder[i] \in owned[c] /\ \A j \in 1..(i - 1) : DropOrder[j] \notin owned[c]
       IN  /\ owned' = [owned EXCEPT ![c] = @ \ {DropOrder[first]}]
           /\ inEncoder' = IF DropOrder[first] = "session" THEN inEncoder \ {c} ELSE inEncoder
    /\ macResult' = {} /\ NoMacFault
    /\ UNCHANGED <<systemVars, macSequence, ticks, macCall, sample, returned>>

ReturnEncoded(c) ==
    /\ macCall[c].at = "drop" /\ owned[c] = {}
    /\ MacEnded(c, [MacFailed EXCEPT !.kind = macCall[c].outcome])
    /\ NoMacFault /\ UNCHANGED <<systemVars, macSequence, ticks, owned, encoderVars, returned>>

MacNext ==
    \/ WindowMoves \/ RequestRecording \/ ListSources
    \/ \E c \in MacCallers :
          \/ BeginCapture(c) \/ FindWindow(c) \/ CreateImage(c) \/ CopyData(c) \/ ReadBytes(c)
          \/ Stamp(c) \/ TakeNumber(c)
          \/ BeginEncode(c) \/ CreateSession(c) \/ ConfigureSession(c) \/ WrapPixels(c) \/ SubmitFrame(c)
          \/ OutputCallback(c) \/ CompleteFrames(c) \/ ReceiveSample(c) \/ DropLocal(c) \/ ReturnEncoded(c)

MacSpec == MacInit /\ [][MacNext]_macVars

-----------------------------------------------------------------------------
MacTypeOK ==
    /\ onScreen \subseteq MacWindows /\ granted \in BOOLEAN /\ macSequence \in Nat /\ ticks \in Nat
    /\ \A c \in MacCallers :
          /\ owned[c] \subseteq {"image", "data", "payload", "state", "session", "pixels"}
          /\ Len(sample[c]) <= 1

\* While VideoToolbox may still read the frame or call back, the session, the
\* state the callback writes through and the payload under the pixel buffer are
\* alive, and the payload covers the picture, also when the call has already
\* failed and is giving its objects back.
EncoderMemoryAlive ==
    \A c \in inEncoder :
       /\ {"session", "state", "payload"} \subseteq owned[c]
       /\ macCall[c].frame.len >= 4 * macCall[c].frame.px

\* A call that is over has given everything back, whichever of its steps failed.
MacGivesBack == \A c \in MacCallers : macCall[c].op = "idle" => owned[c] = {}

\* A frame taken for an application shows a window of that application, its number
\* is its own, and it is after every frame that had been returned when its call
\* began, in number and in time. (Two captures at the same time are not ordered by
\* the code: each reads the time first and takes its number afterwards.)
CapturesOrdered ==
    /\ \A r \in macResult : r.kind = "frame" =>
          /\ (r.source[1] = "Application" => OwnerOf[r.shown] = r.source[2])
          /\ \A e \in r.earlier : e.seq < r.seq /\ e.time <= r.time
    /\ \A e, f \in returned : e.seq = f.seq => e = f
=============================================================================
