---------------------------- MODULE ScreenStream ----------------------------
(***************************************************************************)
(* Screen streaming (crates/streaming/src): the negotiation that turns two *)
(* capability sets and a request into a plan (screen.rs), and the          *)
(* controller that decides, for every hover over a remote source, whether  *)
(* to show a cached thumbnail or to capture a new one (preview.rs).        *)
(***************************************************************************)
EXTENDS Naturals, Sequences, FiniteSets, SequencesExt

CONSTANTS
    Offers,          \* ScreenStreamCapabilities of the endpoints
    Asks,            \* ScreenStreamRequests made
    EnabledEncoders, \* encoders whose cargo feature is compiled in
    HoverSources,    \* capture sources the pointer moves over
    MaxAge,          \* PreviewPolicy::max_age_micros
    HoverDebounce,   \* PreviewPolicy::debounce_micros
    MaxEntries,      \* PreviewPolicy::max_entries
    MaxScreenTime    \* bound: the clock

ASSUME ScreenConstants == {MaxAge, HoverDebounce, MaxEntries, MaxScreenTime} \subseteq Nat

VARIABLES
    settled,      \* the negotiation of the last step: {[ask, sender, receiver, plan]} or {}
    thumbs,       \* HoverPreviewController::cache, as [source -> entry]
    lastHover,    \* last_hover_micros
    shown,        \* the last PreviewDecision, for its source
    screenClock,
    taken         \* history: when each source was last captured

screenVars == <<settled, thumbs, lastHover, shown, screenClock, taken>>

-----------------------------------------------------------------------------
\* Capabilities are [permits, memory, codecs, encoders, pixels, fps, intents];
\* a request is [source, visible, intent, quality, codecs, gpu, software, zeroCopy].
Refused(why) == [error |-> why]
IsPlan(p) == "codec" \in DOMAIN p

\* ScreenQualityPreset::defaults: pixels and frames per second.
Preset(quality) ==
    CASE quality = "Preview"     -> [pixels |-> 480 * 270, fps |-> 15]
      [] quality = "Interactive" -> [pixels |-> 1280 * 720, fps |-> 60]
      [] quality = "Quality"     -> [pixels |-> 1920 * 1080, fps |-> 60]

\* The first member of a sequence that is in a set, or none.
FirstOf(seq, good) ==
    LET i == SelectInSeq(seq, LAMBDA x : x \in good) IN IF i = 0 THEN {} ELSE {seq[i]}

Previewable(ask) == ask.source # "Window" \/ ask.visible
Supports(offer, intent) == intent = "InteractiveRemote" \/ intent \in offer.intents
Encodes(offer, e) == e \in offer.encoders /\ e \in EnabledEncoders
IsGpuEncoder(e) == e # "Software"
IsGpuMemory(m) == m # "System"

SelectCodec(sender, receiver, ask) ==
    FirstOf(IF ask.codecs = <<>> THEN <<"H264", "H265", "RawRgba">> ELSE ask.codecs,
            sender.codecs \cap receiver.codecs)

SelectEncoder(sender, ask) ==
    LET hardware == FirstOf(<<"Nvenc", "Vaapi", "VideoToolbox">>, {e \in sender.encoders : Encodes(sender, e)})
    IN  IF ask.gpu /\ hardware # {} THEN hardware
        ELSE {e \in {"Software"} : ask.software /\ Encodes(sender, e)}

SelectMemory(sender, encoder, zeroCopy) ==
    LET gpu == FirstOf(sender.memory, {m \in Range(sender.memory) : IsGpuMemory(m)})
    IN  IF IsGpuEncoder(encoder) /\ gpu # {} THEN gpu
        ELSE {m \in {"System"} : m \in Range(sender.memory) /\ ~zeroCopy}

Least(a, b) == IF a <= b THEN a ELSE b

NegotiateScreenStream(sender, receiver, ask) ==
    LET codec   == SelectCodec(sender, receiver, ask)
        encoder == SelectEncoder(sender, ask)
        memory  == UNION {SelectMemory(sender, e, ask.zeroCopy) : e \in encoder}
        fps     == Least(Preset(ask.quality).fps, sender.fps)
    IN  CASE ask.source \notin sender.permits   -> Refused("permission")
          [] ~Previewable(ask)                  -> Refused("source")
          [] ~Supports(sender, ask.intent)      -> Refused("intent")
          [] codec = {}                         -> Refused("codec")
          [] encoder = {}                       -> Refused("encoder")
          [] memory = {}                        -> Refused("memory")
          [] fps = 0                            -> Refused("fps")
          [] OTHER ->
               LET e == CHOOSE x \in encoder : TRUE
                   m == CHOOSE x \in memory : TRUE
               IN  [codec |-> CHOOSE c \in codec : TRUE, encoder |-> e, memory |-> m,
                    pixels |-> Least(Preset(ask.quality).pixels, sender.pixels), fps |-> fps,
                    zeroCopy |-> IsGpuMemory(m) /\ IsGpuEncoder(e)]

-----------------------------------------------------------------------------
NothingShown == [source |-> CHOOSE s \in HoverSources : TRUE, what |-> "nothing"]

ScreenInit ==
    /\ settled = {} /\ thumbs = <<>> /\ lastHover = <<>> /\ taken = <<>>
    /\ shown = NothingShown /\ screenClock = 0

With(f, k, v) == [x \in DOMAIN f \cup {k} |-> IF x = k THEN v ELSE f[x]]
WithoutKey(f, k) == [x \in DOMAIN f \ {k} |-> f[x]]

\* Negotiation keeps no state; it is explored where the previews have none either.
Negotiate ==
    /\ settled = {} /\ lastHover = <<>> /\ thumbs = <<>> /\ screenClock = 0
    /\ \E sender, receiver \in Offers, ask \in Asks :
          settled' = {[ask |-> ask, sender |-> sender, receiver |-> receiver,
                       plan |-> NegotiateScreenStream(sender, receiver, ask)]}
    /\ UNCHANGED <<thumbs, lastHover, shown, screenClock, taken>>

\* The freshness of a thumbnail counts from its last use.
DecideByAccess(s) ==
    IF s \in DOMAIN thumbs
    THEN IF screenClock - thumbs[s].access <= MaxAge THEN "ServeCached" ELSE "ServeStaleAndRefresh"
    ELSE "Refresh"

\* What on_hover decides, before the hover is recorded.
PeekDecision(s) ==
    IF s \in DOMAIN thumbs
    THEN IF screenClock - thumbs[s].captured <= MaxAge THEN "ServeCached" ELSE "ServeStaleAndRefresh"
    ELSE IF s \in DOMAIN lastHover /\ screenClock - lastHover[s] < HoverDebounce
         THEN "Debounced" ELSE "Refresh"

Hover(s) ==
    /\ lastHover' = With(lastHover, s, screenClock)
    /\ thumbs' = IF s \in DOMAIN thumbs THEN [thumbs EXCEPT ![s].access = screenClock] ELSE thumbs
    /\ shown' = [source |-> s, what |-> PeekDecision(s)]
    /\ settled' = {} /\ UNCHANGED <<screenClock, taken>>

\* evict_if_needed: entries leave, the least recently used first, until the cache
\* fits; of two used at the same moment the hash map decides.
Evicted(cache, keep) ==
    /\ keep \subseteq DOMAIN cache
    /\ Cardinality(keep) = Least(MaxEntries, Cardinality(DOMAIN cache))
    /\ \A in \in keep, out \in DOMAIN cache \ keep : cache[out].access <= cache[in].access

\* store_thumbnail: a capture answers a hover some time later, perhaps for a
\* source that has been invalidated since.
StoreThumbnail(s) ==
    LET cache == With(thumbs, s, [captured |-> screenClock, access |-> screenClock])
    IN  /\ \E keep \in SUBSET DOMAIN cache :
              /\ Evicted(cache, keep)
              /\ thumbs' = [k \in keep |-> cache[k]]
        /\ taken' = With(taken, s, screenClock)
        /\ settled' = {} /\ UNCHANGED <<lastHover, shown, screenClock>>

\* invalidate
Invalidate(s) ==
    /\ s \in DOMAIN thumbs \cup DOMAIN lastHover
    /\ lastHover' = WithoutKey(lastHover, s)
    /\ thumbs' = WithoutKey(thumbs, s)
    /\ shown' = NothingShown
    /\ settled' = {} /\ UNCHANGED <<screenClock, taken>>

ScreenTick ==
    /\ screenClock < MaxScreenTime
    /\ screenClock' = screenClock + 1
    /\ shown' = NothingShown
    /\ settled' = {} /\ UNCHANGED <<thumbs, lastHover, taken>>

ScreenNext ==
    \/ Negotiate \/ ScreenTick
    \/ \E s \in HoverSources : Hover(s) \/ StoreThumbnail(s) \/ Invalidate(s)

ScreenSpec == ScreenInit /\ [][ScreenNext]_screenVars

-----------------------------------------------------------------------------
ScreenTypeOK ==
    /\ screenClock \in 0..MaxScreenTime
    /\ DOMAIN thumbs \subseteq HoverSources /\ Cardinality(DOMAIN thumbs) <= MaxEntries
    /\ \A s \in DOMAIN thumbs : thumbs[s].captured <= thumbs[s].access /\ thumbs[s].access <= screenClock

\* A plan is one both ends can carry out: the sender may capture the source and
\* encode it with an encoder of this build, the receiver decodes the codec, and a
\* caller that insists on the GPU path never gets frames that pass through memory.
PlansCanRun ==
    \A n \in settled : IsPlan(n.plan) =>
       /\ n.plan.codec \in n.sender.codecs \cap n.receiver.codecs
       /\ Encodes(n.sender, n.plan.encoder) /\ n.plan.memory \in Range(n.sender.memory)
       /\ n.plan.pixels <= n.sender.pixels /\ n.plan.fps \in 1..n.sender.fps
       /\ (n.ask.zeroCopy => n.plan.zeroCopy)
       /\ (n.ask.software \/ n.plan.encoder # "Software")

\* A thumbnail shown without asking for a new one was captured within the age the
\* policy allows, however often it has been looked at since.
ShownIsFresh ==
    shown.what = "ServeCached" =>
       shown.source \in DOMAIN taken /\ screenClock - taken[shown.source] <= MaxAge
=============================================================================
