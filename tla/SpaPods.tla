------------------------------- MODULE SpaPods -------------------------------
(***************************************************************************)
(* Stream formats as PipeWire announces them and as the Linux back ends    *)
(* read them (crates/platform/platform-linux/src/pipewire_screen.rs,       *)
(* pipewire_audio.rs): a POD that may break off anywhere.                  *)
(***************************************************************************)
EXTENDS Integers, Sequences

CONSTANT Announcements   \* format properties PipeWire may announce, each a sequence

VARIABLE pod             \* a POD as it arrives: the properties and the words of them that do

NoPod == [of |-> <<>>, cut |-> -1]
SpaInit == pod = NoPod

-----------------------------------------------------------------------------
(* Format PODs, in words of four bytes. A POD is its size in bytes, its type *)
(* and its body; a property in the body is a key, flags, a size, a type and  *)
(* the value, padded to a multiple of eight bytes.                           *)

SpaType == [Id |-> 3, Int |-> 4, Rectangle |-> 10, Object |-> 15, Choice |-> 19]
SpaNumber == {SpaType.Id, SpaType.Int}
SpaFormat == [object |-> 262147, param |-> 4, video |-> 2, audio |-> 1, raw |-> 1]
SpaKey == [MediaType |-> 1, MediaSubtype |-> 2, AudioFormat |-> 65537, AudioRate |-> 65539,
           AudioChannels |-> 65540, VideoFormat |-> 131073, VideoSize |-> 131075]

Padding(v) == IF Len(v) % 2 = 1 THEN <<0>> ELSE <<>>
PropertyWords(p) == <<p.key, 0, 4 * Len(p.value), p.type>> \o p.value \o Padding(p.value)
PodBody(props) ==
    LET upTo[i \in 0..Len(props)] == IF i = 0 THEN <<SpaFormat.object, SpaFormat.param>> ELSE upTo[i - 1] \o PropertyWords(props[i])
    IN  upTo[Len(props)]

\* What arrives when the POD ends after `cut` words of its body.
PodWords(props, cut) == <<4 * cut, SpaType.Object>> \o SubSeq(PodBody(props), 1, cut)

\* SpaPodView::new
SpaPodView(words) ==
    IF Len(words) < 2 \/ 2 + words[1] \div 4 > Len(words) THEN {}
    ELSE {[type |-> words[2], body |-> SubSeq(words, 3, 2 + words[1] \div 4)]}

\* read_u32
ReadU32(v, i) == IF i \in DOMAIN v THEN {v[i]} ELSE {}

\* parse_spa_u32_value, parse_spa_choice_first_u32
WordValue(p) ==
    IF p.type \in SpaNumber THEN ReadU32(p.value, 1)
    ELSE IF p.type = SpaType.Choice /\ Len(p.value) >= 4 /\ p.value[3] >= 4 /\ p.value[4] \in SpaNumber
    THEN ReadU32(p.value, 5) ELSE {}

\* parse_spa_rectangle_value, parse_spa_choice_first_rectangle
RectValue(p) ==
    IF p.type = SpaType.Rectangle THEN ReadU32(p.value, 1) \X ReadU32(p.value, 2)
    ELSE IF p.type = SpaType.Choice /\ Len(p.value) >= 6 /\ p.value[3] >= 8 /\ p.value[4] = SpaType.Rectangle
    THEN ReadU32(p.value, 5) \X ReadU32(p.value, 6) ELSE {}

\* The properties the loop over the body visits; none when one is cut short.
Visited(body) ==
    LET from[o \in 0..(2 * Len(body) + 8)] ==
            IF o + 4 > Len(body) THEN {<<>>}
            ELSE LET n == body[o + 3] \div 4
                     value == SubSeq(body, o + 5, o + 4 + n)
                 IN  IF o + 4 + n > Len(body) THEN {}
                     ELSE {<<[key |-> body[o + 1], type |-> body[o + 4], value |-> value]>> \o rest :
                             rest \in from[o + 4 + n + (n % 2)]}
    IN  from[2]

\* The last property with a key decides, also when it cannot be read.
LastOf(props, key) ==
    LET at == {i \in DOMAIN props : props[i].key = key}
    IN  IF at = {} THEN {} ELSE {props[CHOOSE i \in at : \A j \in at : j <= i]}
ReadWord(props, key) == UNION {WordValue(p) : p \in LastOf(props, key)}
ReadRect(props, key) == UNION {RectValue(p) : p \in LastOf(props, key)}

FormatProperties(words) ==
    UNION {Visited(v.body) : v \in {x \in SpaPodView(words) : /\ x.type = SpaType.Object /\ Len(x.body) >= 2
                                                        /\ x.body[1] = SpaFormat.object /\ x.body[2] = SpaFormat.param}}

\* parse_spa_format_pod_bytes
ParseVideo(words) ==
    UNION {IF ReadWord(p, SpaKey.MediaType) # {SpaFormat.video} \/ ReadWord(p, SpaKey.MediaSubtype) # {SpaFormat.raw} THEN {}
           ELSE ReadWord(p, SpaKey.VideoFormat) \X ReadRect(p, SpaKey.VideoSize) : p \in FormatProperties(words)}

\* parse_spa_audio_format_pod_bytes: both byte orders of F32 are taken for F32Le.
SampleFormat(spa) == CASE spa = 259 -> {"S16Le"} [] spa \in {283, 284} -> {"F32Le"} [] OTHER -> {}
ParseAudio(words) ==
    UNION {IF ReadWord(p, SpaKey.MediaType) # {SpaFormat.audio} \/ ReadWord(p, SpaKey.MediaSubtype) # {SpaFormat.raw} THEN {}
           ELSE (UNION {SampleFormat(f) : f \in ReadWord(p, SpaKey.AudioFormat)})
                \X ReadWord(p, SpaKey.AudioRate) \X {n \in ReadWord(p, SpaKey.AudioChannels) : n <= 255}
             : p \in FormatProperties(words)}

\* on_stream_param_changed, on_audio_stream_param_changed
FormatArrives ==
    /\ pod = NoPod
    /\ \E a \in Announcements : \E cut \in 0..Len(PodBody(a)) : pod' = [of |-> a, cut |-> cut]

SpaSpec == SpaInit /\ [][FormatArrives]_pod

-----------------------------------------------------------------------------
\* What PipeWire announced, property by property, without looking at words.
Meant(props, key) ==
    LET p == props[CHOOSE i \in DOMAIN props : props[i].key = key]
    IN  IF p.type = SpaType.Choice THEN SubSeq(p.value, 5, Len(p.value)) ELSE p.value
Says(props, key) == \E i \in DOMAIN props : props[i].key = key

\* A POD that is complete is read as it was meant, and one that breaks off anywhere
\* is read as that or not at all, never as another format.
PodsUnderstood ==
    pod # NoPod =>
       LET a == pod.of
           words == PodWords(a, pod.cut)
           whole == pod.cut = Len(PodBody(a))
           video == IF Says(a, SpaKey.VideoFormat) /\ Says(a, SpaKey.VideoSize)
                    THEN {<<Meant(a, SpaKey.VideoFormat)[1], <<Meant(a, SpaKey.VideoSize)[1], Meant(a, SpaKey.VideoSize)[2]>>>>} ELSE {}
           audio == IF Says(a, SpaKey.AudioFormat) /\ Says(a, SpaKey.AudioRate) /\ Says(a, SpaKey.AudioChannels)
                    THEN {f \in {"S16Le", "F32Le"} \X {Meant(a, SpaKey.AudioRate)[1]} \X {Meant(a, SpaKey.AudioChannels)[1]} :
                            /\ f[3] <= 255
                            /\ f[1] = "S16Le" <=> Meant(a, SpaKey.AudioFormat)[1] = 259
                            /\ Meant(a, SpaKey.AudioFormat)[1] \in {259, 283, 284}} ELSE {}
       IN  /\ ParseVideo(words) \subseteq video /\ ParseAudio(words) \subseteq audio
           /\ (whole => ParseVideo(words) = video /\ ParseAudio(words) = audio)
=============================================================================
