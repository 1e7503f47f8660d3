---------------------------- MODULE AudioPlayout ----------------------------
(***************************************************************************)
(* Follow-the-mouse audio (crates/streaming/src): which device plays       *)
(* (AudioRouter, audio.rs) and the jitter buffer in front of its sink      *)
(* (AudioJitterBuffer, audio_sync.rs), which takes frames in any order     *)
(* from the network and gives the sink one per frame interval.             *)
(***************************************************************************)
EXTENDS Integers, Sequences, FiniteSets, FiniteSetsExt

CONSTANTS
    AudioDevices,   \* devices of the router; LocalAudio is its own
    LocalAudio,
    FrameDuration,  \* JitterConfig::frame_duration_ms
    TargetDelay,    \* target_delay_ms
    MaxDelay,       \* max_delay_ms
    Sequences,      \* sequence numbers the sender uses
    MaxRouteCalls   \* bound: calls that change the route

ASSUME AudioConstants ==
    /\ LocalAudio \in AudioDevices /\ Sequences \subseteq Nat
    /\ {FrameDuration, TargetDelay, MaxDelay, MaxRouteCalls} \subseteq Nat

VARIABLES
    router,    \* AudioRouter: [mode, fixed, control, host, profiles, calls]
    jitter,    \* AudioJitterBuffer: [buffer, next, playing]
    stats,     \* JitterStats, each counter as "it has happened", and the peak depth
    sink,      \* what the last pop gave the sink
    episode    \* history: sequences played since playout last started

audioVars == <<router, jitter, stats, sink, episode>>

-----------------------------------------------------------------------------
\* frames_for, target_frames, max_frames.
FramesFor(ms) ==
    IF FrameDuration = 0 THEN 1
    ELSE LET n == (ms + FrameDuration - 1) \div FrameDuration IN IF n = 0 THEN 1 ELSE n

TargetFrames == FramesFor(TargetDelay)
MaxFrames == IF FramesFor(MaxDelay) > TargetFrames THEN FramesFor(MaxDelay) ELSE TargetFrames + 1

NoNext == -1   \* next_seq = None

AudioInit ==
    /\ router = [mode |-> "FollowMouse", fixed |-> LocalAudio, control |-> LocalAudio, host |-> {},
                 follow |-> AudioDevices, share |-> AudioDevices, calls |-> 0]
    /\ jitter = [buffer |-> {}, next |-> NoNext, playing |-> FALSE]
    /\ stats = [late |-> 0, concealed |-> 0, underruns |-> 0, overflow |-> 0, peak |-> 0]
    /\ sink = "none" /\ episode = <<>>

-----------------------------------------------------------------------------
\* current_route: the devices that play, none when the policy forbids it.
CurrentSink(r) ==
    CASE r.mode = "FollowMouse"   -> {r.control} \cap r.follow
      [] r.mode = "SharedHeadset" -> r.host \cap r.share
      [] r.mode = "Fixed"         -> {r.fixed}

SetMode(r, d, m) == [r EXCEPT !.mode = m, !.fixed = IF m = "Fixed" THEN d ELSE @]
SetActiveControl(r, d) == [r EXCEPT !.control = d]
SetProfile(r, d, follows, shares) ==
    [r EXCEPT !.follow = IF follows THEN @ \cup {d} ELSE @ \ {d},
              !.share  = IF shares THEN @ \cup {d} ELSE @ \ {d}]
ShareHeadsetFrom(r, d) == [r EXCEPT !.host = {d}, !.mode = "SharedHeadset"]

\* The playout buffer keeps no account of the route; each is explored while the
\* other is at rest.
Reroute ==
    /\ router.calls < MaxRouteCalls /\ jitter.buffer = {} /\ stats.peak = 0 /\ sink = "none"
    /\ \E d \in AudioDevices :
          \E r \in {SetMode(router, d, m) : m \in {"FollowMouse", "SharedHeadset", "Fixed"}}
                     \cup {SetActiveControl(router, d), ShareHeadsetFrom(router, d)}
                     \cup {SetProfile(router, d, f, h) : f, h \in BOOLEAN} :
             router' = [r EXCEPT !.calls = @ + 1]
    /\ UNCHANGED <<jitter, stats, sink, episode>>

-----------------------------------------------------------------------------
\* No frame is ever too late.
NeverLate(n) == FALSE

\* Its moment has passed.
TooLate(n) == n < jitter.next

\* AudioJitterBuffer::push. Evicting the oldest frame moves the playout point past
\* it, also while the buffer is still filling.
Push(n) ==
    LET buffer == jitter.buffer \cup {n}
        oldest == Min(buffer)
    IN  /\ router.calls = 0
        /\ IF TooLate(n)
           THEN stats' = [stats EXCEPT !.late = 1] /\ UNCHANGED jitter
           ELSE IF n \in jitter.buffer
           THEN UNCHANGED <<jitter, stats>>
           ELSE IF Cardinality(buffer) > MaxFrames
           THEN /\ jitter' = [jitter EXCEPT !.buffer = buffer \ {oldest}, !.next = oldest + 1]
                /\ stats' = [stats EXCEPT !.overflow = 1, !.peak = Max({@, Cardinality(buffer)})]
           ELSE /\ jitter' = [jitter EXCEPT !.buffer = buffer]
                /\ stats' = [stats EXCEPT !.peak = Max({@, Cardinality(buffer)})]
        /\ sink' = "none" /\ UNCHANGED <<router, episode>>

\* pop, first half: playout starts at the oldest frame once enough are buffered.
StartsAt == Min(jitter.buffer)

\* pop, second half, with the sequence the sink is due.
Playout(due) ==
    \/ /\ due \in jitter.buffer
       /\ jitter' = [buffer |-> jitter.buffer \ {due}, next |-> due + 1, playing |-> TRUE]
       /\ sink' = "frame" /\ episode' = IF jitter.playing THEN Append(episode, due) ELSE <<due>>
       /\ UNCHANGED stats
    \/ /\ due \notin jitter.buffer /\ jitter.buffer = {}
       /\ jitter' = [jitter EXCEPT !.playing = FALSE, !.next = NoNext]
       /\ stats' = [stats EXCEPT !.underruns = 1]
       /\ sink' = "starved" /\ episode' = <<>>
    \/ /\ due \notin jitter.buffer /\ jitter.buffer # {}
       /\ jitter' = [jitter EXCEPT !.next = due + 1, !.playing = TRUE]
       /\ stats' = [stats EXCEPT !.concealed = 1]
       /\ sink' = "gap" /\ UNCHANGED episode

Pop ==
    /\ router.calls = 0 /\ UNCHANGED router
    /\ IF ~jitter.playing /\ Cardinality(jitter.buffer) < TargetFrames
       THEN sink' = "prefill" /\ UNCHANGED <<jitter, stats, episode>>
       ELSE Playout(IF jitter.playing THEN jitter.next ELSE StartsAt)

AudioNext == Reroute \/ Pop \/ \E n \in Sequences : Push(n)
AudioSpec == AudioInit /\ [][AudioNext]_audioVars

-----------------------------------------------------------------------------
AudioTypeOK ==
    /\ router.mode \in {"FollowMouse", "SharedHeadset", "Fixed"} /\ router.control \in AudioDevices
    /\ jitter.buffer \subseteq Sequences /\ jitter.playing \in BOOLEAN
    /\ jitter.next \in {NoNext} \cup {n + 1 : n \in 0..Max(Sequences)}

\* Between two pauses the sink hears every sequence at most once and in order,
\* whatever order the frames arrived in and however many were evicted.
PlayedInOrder ==
    \A i, j \in DOMAIN episode : i < j => episode[i] < episode[j]

\* The delay in front of the sink never exceeds the cap, and while audio plays
\* nothing waits in the buffer for a moment that has passed.
DelayBounded ==
    /\ Cardinality(jitter.buffer) <= MaxFrames
    /\ (jitter.playing => \A n \in jitter.buffer : n >= jitter.next)
    /\ (sink = "starved" => jitter.buffer = {})
=============================================================================
