----------------------------- MODULE LinkHealth -----------------------------
(***************************************************************************)
(* What the network crate measures of a link and decides from it: the      *)
(* heartbeat and its liveness monitor (heartbeat.rs), the smoothed round   *)
(* trip (latency.rs), the send buffer whose window follows it (buffer.rs), *)
(* the quality grade (quality.rs) and the target bitrate (bandwidth.rs).   *)
(* Time is in ticks; smoothed values are fixed-point integers rounded      *)
(* down, at the scale of a tick / FixedPoint.  The pump that sends a ping every  *)
(* Interval and drains a buffer that should flush is the caller's.         *)
(***************************************************************************)
EXTENDS Integers, Sequences, FiniteSets, SequencesExt

CONSTANTS
    Interval, Timeout,     \* HeartbeatConfig
    MaxLag,                \* longest one-way delay of a message that arrives
    FixedPoint,                  \* fixed-point scale
    AlphaDen, BetaDen,     \* 1/alpha and 1/beta of RttTracker
    MaxBatch, MinWindow, MaxWindow, RttFractionDen,   \* BufferPolicy, windows in 1/FixedPoint ticks
    QualityDen,            \* 1/alpha of NetworkQualityEstimator
    LinkSamples,           \* samples: [rtt, jitter (ms), loss (per mille), rate (kbit/s)]
    MinRate, MaxRate, InitialRate,                    \* BandwidthPolicy, kbit/s
    MaxLinkTime, MaxLosses, MaxEnvelopes, MaxSamples  \* bounds of a behaviour

ASSUME LinkConstants ==
    /\ {Interval, Timeout, FixedPoint, AlphaDen, BetaDen, MaxBatch, RttFractionDen, QualityDen} \subseteq Nat \ {0}
    /\ {MaxLag, MinWindow, MaxWindow, MinRate, MaxRate, InitialRate} \subseteq Nat
    /\ {MaxLinkTime, MaxLosses, MaxEnvelopes, MaxSamples} \subseteq Nat
    /\ MinWindow <= MaxWindow /\ MinRate <= InitialRate /\ InitialRate <= MaxRate
    /\ LinkSamples \subseteq [rtt : Nat, jitter : Nat, loss : 0..1000, rate : Nat]

VARIABLES
    clock,
    peerUp, downSince,   \* the remote end answers; when it stopped
    pinged,              \* when the last ping was sent
    flying,              \* messages on their way: [tag, t, due, cut]
    peerSeen,            \* LivenessMonitor::last_seen
    lostBeats,
    rtt,                 \* RttTracker: [n, srtt, var], and the samples seen
    buffered,            \* AdaptiveBuffer::queue, as the times the envelopes were pushed
    firstEnqueued, sendWindow, pushed,
    rates                \* the estimators fed with samples, see RatesInit

beatVars == <<peerUp, downSince, pinged, flying, peerSeen, lostBeats, rtt>>
bufferVars == <<buffered, firstEnqueued, pushed>>
linkVars == <<clock, beatVars, bufferVars, sendWindow, rates>>

-----------------------------------------------------------------------------
Least2(a, b) == IF a < b THEN a ELSE b
Most2(a, b) == IF a > b THEN a ELSE b
Smooth(current, sample, den) == (current * (den - 1) + sample) \div den

\* Heartbeat::encode, decode and reply: one tag byte and a timestamp; a payload
\* that is cut short, or of another tag, is an error and no heartbeat.
EncodeBeat(kind, t) == [tag |-> IF kind = "Ping" THEN 0 ELSE 1, t |-> t]
Decodes(m) == ~m.cut /\ m.tag \in {0, 1}
Reply(m) == EncodeBeat("Pong", m.t)

\* RttTracker::record
Recorded(r, sample) ==
    LET s == sample * FixedPoint
        d == IF r.srtt > s THEN r.srtt - s ELSE s - r.srtt
    IN  [n    |-> r.n + 1,
         srtt |-> IF r.n = 0 THEN s ELSE Smooth(r.srtt, s, AlphaDen),
         var  |-> IF r.n = 0 THEN s \div 2 ELSE Smooth(r.var, d, BetaDen),
         low  |-> IF r.n = 0 THEN s ELSE Least2(r.low, s),
         high |-> Most2(r.high, s)]

\* BufferPolicy::window_for
WindowFor(r) ==
    IF r.n = 0 THEN MinWindow ELSE Most2(MinWindow, Least2(r.srtt \div RttFractionDen, MaxWindow))

IsAliveAt(t) == t - peerSeen < Timeout

-----------------------------------------------------------------------------
RatesInit == [n |-> 0, est |-> {}, best |-> {}, worst |-> {}, profile |-> "Lan", target |-> InitialRate, last |-> {}]

LinkInit ==
    /\ clock = 0 /\ peerUp = TRUE /\ downSince = 0 /\ pinged = 0 /\ peerSeen = 0 /\ lostBeats = 0
    /\ flying = {}
    /\ rtt = [n |-> 0, srtt |-> 0, var |-> 0, low |-> 0, high |-> 0]
    /\ buffered = <<>> /\ firstEnqueued = {} /\ sendWindow = MinWindow /\ pushed = 0
    /\ rates = RatesInit

\* A message takes up to MaxLag ticks.
Sends(h) == \E lag \in 0..MaxLag : flying' = flying \cup {[tag |-> h.tag, t |-> h.t, due |-> clock + lag, cut |-> FALSE]}

SendPing ==
    /\ clock = pinged + Interval /\ pinged' = clock
    /\ Sends(EncodeBeat("Ping", clock))
    /\ UNCHANGED <<clock, peerUp, downSince, peerSeen, lostBeats, rtt, bufferVars, sendWindow, rates>>

\* A ping reaches the peer, which answers it while it is up.
PeerReplies ==
    \E m \in flying :
        /\ m.tag = 0 /\ m.due <= clock
        /\ IF Decodes(m) /\ peerUp
           THEN \E lag \in 0..MaxLag :
                   flying' = (flying \ {m}) \cup {[tag |-> Reply(m).tag, t |-> m.t, due |-> clock + lag, cut |-> FALSE]}
           ELSE flying' = flying \ {m}
        /\ UNCHANGED <<clock, peerUp, downSince, pinged, peerSeen, lostBeats, rtt, bufferVars, sendWindow, rates>>

\* A pong arrives: activity, a round-trip sample, and a new window for the buffer.
PongArrives ==
    \E m \in flying :
        /\ m.tag = 1 /\ m.due <= clock /\ flying' = flying \ {m}
        /\ IF Decodes(m)
           THEN /\ peerSeen' = clock
                /\ rtt' = Recorded(rtt, clock - m.t)
                /\ sendWindow' = WindowFor(rtt')
           ELSE UNCHANGED <<peerSeen, rtt, sendWindow>>
        /\ UNCHANGED <<clock, peerUp, downSince, pinged, lostBeats, bufferVars, rates>>

\* The network drops a message, or delivers only part of it.
LoseOne ==
    \E m \in flying, cut \in BOOLEAN :
        /\ lostBeats < MaxLosses /\ lostBeats' = lostBeats + 1 /\ ~m.cut
        /\ flying' = (flying \ {m}) \cup (IF cut THEN {[m EXCEPT !.cut = TRUE]} ELSE {})
        /\ UNCHANGED <<clock, peerUp, downSince, pinged, peerSeen, rtt, bufferVars, sendWindow, rates>>

PeerDies ==
    /\ peerUp /\ clock > 0 /\ peerUp' = FALSE /\ downSince' = clock
    /\ UNCHANGED <<clock, pinged, flying, peerSeen, lostBeats, rtt, bufferVars, sendWindow, rates>>

-----------------------------------------------------------------------------
\* The deadline follows the last envelope instead of the first.
FirstAfterSliding(first, times) == {clock}

\* AdaptiveBuffer::push: the deadline counts from the first of the queue.
FirstAfter(first, times) == IF times = <<>> THEN {clock} ELSE first

BufferDue ==
    /\ buffered # <<>>
    /\ Len(buffered) >= MaxBatch \/ \E f \in firstEnqueued : clock * FixedPoint >= f * FixedPoint + sendWindow

PushEnvelope ==
    /\ pushed < MaxEnvelopes /\ pushed' = pushed + 1 /\ ~BufferDue
    /\ firstEnqueued' = FirstAfter(firstEnqueued, buffered)
    /\ buffered' = Append(buffered, clock)
    /\ UNCHANGED <<clock, beatVars, sendWindow, rates>>

Drain ==
    /\ BufferDue /\ buffered' = <<>> /\ firstEnqueued' = {}
    /\ UNCHANGED <<clock, beatVars, pushed, sendWindow, rates>>

\* Time passes once everything that is due has happened.
LinkTick ==
    /\ clock < MaxLinkTime /\ clock' = clock + 1 /\ rates.n = 0
    /\ clock # pinged + Interval /\ ~BufferDue
    /\ \A m \in flying : m.due > clock
    /\ UNCHANGED <<beatVars, bufferVars, sendWindow, rates>>

-----------------------------------------------------------------------------
\* NetworkQualityEstimator::record, on each of its four figures.
Averaged(e, s) ==
    [rtt |-> Smooth(e.rtt, s.rtt * FixedPoint, QualityDen), jitter |-> Smooth(e.jitter, s.jitter * FixedPoint, QualityDen),
     loss |-> Smooth(e.loss, s.loss * FixedPoint, QualityDen), rate |-> Smooth(e.rate, s.rate * FixedPoint, QualityDen)]
Scaled(s) == [rtt |-> s.rtt * FixedPoint, jitter |-> s.jitter * FixedPoint, loss |-> s.loss * FixedPoint, rate |-> s.rate * FixedPoint]

\* The grade, 0 for poor to 3 for excellent.
Grade(e) ==
    IF e.loss >= 150 * FixedPoint \/ e.rate < 64 * FixedPoint THEN 0
    ELSE IF e.rtt <= 20 * FixedPoint /\ e.jitter <= 5 * FixedPoint /\ e.loss < 5 * FixedPoint THEN 3
    ELSE IF e.rtt <= 80 * FixedPoint /\ e.jitter <= 20 * FixedPoint /\ e.loss < 20 * FixedPoint THEN 2
    ELSE IF e.rtt <= 180 * FixedPoint /\ e.loss < 80 * FixedPoint THEN 1
    ELSE 0

\* The measured ceiling is not applied.
TargetUncapped(target, profile, s) ==
    LET loss == IF s.loss >= 100 THEN 55 ELSE IF s.loss >= 30 THEN 75 ELSE 108
        jitter == IF s.jitter > 40 THEN 8 ELSE 10
        factor == [Lan |-> 12, Internet |-> 10, Mobile |-> 7]
    IN  Most2(MinRate, Least2((target * loss * jitter * factor[profile]) \div 10000, MaxRate))

\* BandwidthAdapter::record: the penalties and bonuses in percent and tenths.
Target(target, profile, s) ==
    LET loss == IF s.loss >= 100 THEN 55 ELSE IF s.loss >= 30 THEN 75 ELSE 108
        jitter == IF s.jitter > 40 THEN 8 ELSE 10
        factor == [Lan |-> 12, Internet |-> 10, Mobile |-> 7]
        proposed == (target * loss * jitter * factor[profile]) \div 10000
    IN  Most2(MinRate, Least2(Least2(proposed, Most2((s.rate * 8) \div 10, MinRate)), MaxRate))

Extreme(a, b, Worse(_, _), Better(_, _)) ==
    [rtt |-> Worse(a.rtt, b.rtt), jitter |-> Worse(a.jitter, b.jitter),
     loss |-> Worse(a.loss, b.loss), rate |-> Better(a.rate, b.rate)]

RecordSample(profile, s) ==
    /\ clock = 0 /\ pushed = 0 /\ rates.n < MaxSamples
    /\ rates.n > 0 => rates.profile = profile
    /\ rates' = [rates EXCEPT
          !.n      = @ + 1,
          !.est    = IF @ = {} THEN {Scaled(s)} ELSE {Averaged(e, s) : e \in @},
          !.best   = IF @ = {} THEN {Scaled(s)} ELSE {Extreme(e, Scaled(s), Least2, Most2) : e \in @},
          !.worst  = IF @ = {} THEN {Scaled(s)} ELSE {Extreme(e, Scaled(s), Most2, Least2) : e \in @},
          !.profile = profile,
          !.target = Target(@, profile, s),
          !.last   = {s}]
    /\ UNCHANGED <<clock, beatVars, bufferVars, sendWindow>>

LinkNext ==
    \/ SendPing \/ PeerReplies \/ PongArrives \/ LoseOne \/ PeerDies
    \/ PushEnvelope \/ Drain \/ LinkTick
    \/ \E p \in {"Lan", "Internet", "Mobile"}, s \in LinkSamples : RecordSample(p, s)

-----------------------------------------------------------------------------
LinkTypeOK ==
    /\ clock \in 0..MaxLinkTime /\ peerSeen \in 0..clock /\ pinged \in 0..clock
    /\ sendWindow \in MinWindow..MaxWindow /\ Cardinality(firstEnqueued) <= 1
    /\ Len(buffered) <= MaxBatch /\ (firstEnqueued = {}) = (buffered = <<>>)

\* A peer that answers is not declared dead by as many lost heartbeats as the
\* timeout leaves room for, and one that has stopped is not thought alive once
\* the timeout and the last message's journey have passed.
DeathIsReal ==
    /\ peerUp /\ Interval * (lostBeats + 1) + 2 * MaxLag < Timeout => IsAliveAt(clock)
    /\ ~peerUp /\ clock >= downSince + MaxLag + Timeout => ~IsAliveAt(clock)

\* The smoothed round trip stays between the shortest and the longest that was
\* measured, whatever the order in which the answers come back, and no answer
\* was slower than the network.
RoundTripIsMeasured ==
    rtt.n > 0 => /\ rtt.low <= rtt.srtt /\ rtt.srtt <= rtt.high
                 /\ rtt.high <= 2 * MaxLag * FixedPoint

\* No envelope waits in the buffer longer than the longest window, however the
\* round trip moves while it waits.
HeldBriefly == \A i \in DOMAIN buffered : (clock - buffered[i]) * FixedPoint <= MaxWindow + FixedPoint - 1

\* The grade is between what the best and the worst figures seen so far would
\* give, and the target bitrate is within the policy and never above what the
\* link was last seen to carry.
AdviceIsSupported ==
    /\ \A e \in rates.est, b \in rates.best, w \in rates.worst : Grade(w) <= Grade(e) /\ Grade(e) <= Grade(b)
    /\ rates.target \in MinRate..MaxRate
    /\ \A s \in rates.last : rates.target <= Most2(MinRate, (s.rate * 8) \div 10)

\* What is measured of a link and what is advised from it.
LinkSound == LinkTypeOK /\ DeathIsReal /\ RoundTripIsMeasured /\ HeldBriefly /\ AdviceIsSupported
=============================================================================
