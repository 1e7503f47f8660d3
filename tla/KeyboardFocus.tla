---------------------------- MODULE KeyboardFocus ----------------------------
(***************************************************************************)
(* Which device gets the keyboard, and how its events are batched and      *)
(* injected (crates/input/src): KeyboardShareController (keyboard.rs),     *)
(* QuickSwitch (profile.rs) driven by gestures (navigation.rs), the phone  *)
(* touchpad (mobile.rs), and the InjectionEngine with its batcher and      *)
(* coalescer (injection.rs, batching.rs, coalesce.rs). Whoever uses the    *)
(* library submits what a controller returns to the engine of the device   *)
(* it names.                                                               *)
(***************************************************************************)
EXTENDS Integers, Sequences, FiniteSets, SequencesExt

CONSTANTS
    KeyDevices,       \* paired devices
    KeyCodes,         \* HID usages the user touches
    Orders,           \* candidate orders of the quick switch
    MaxSource,        \* InputBatchPolicy::max_source_events
    Delays,           \* batching delays update_rtt may compute
    Activation,       \* activation_delta
    TapTravel,        \* tap_max_travel
    MaxClock, MaxCalls, MaxInjectFaults   \* bounds

ASSUME KeyboardConstants ==
    /\ MaxSource \in Nat \ {0} /\ Delays \subseteq Nat /\ Delays # {} /\ Activation \in Nat \ {0}
    /\ MaxClock \in Nat /\ MaxCalls \in Nat /\ MaxInjectFaults \in Nat

VARIABLES
    user,        \* keys the user holds
    activeTarget, held, mods,    \* KeyboardShareController
    order, chosen, swipe,        \* QuickSwitch::order, active; accumulated_x
    touch,       \* TouchpadTranslator, with [two]: a second finger came down (history)
    batch,       \* device -> its InputBatcher
    meant,       \* device -> pointer position after all that was submitted (history)
    machine,     \* device -> [keys, at]: its system
    owed,        \* device -> keys whose latest event a failed flush lost (history)
    injected,    \* events the last flush injected, each with the machine after it
    focusNow, calls, faults

focusVars == <<user, activeTarget, held, mods, order, chosen, swipe, touch, batch, meant, machine, owed,
               injected, focusNow, calls, faults>>
keyboard == <<user, activeTarget, held, mods>>
switcher == <<order, chosen, swipe>>

\* Modifier::from_keycode.
ModifiersOf(keys) ==
    UNION {IF c \in {224, 228} THEN {"Ctrl"} ELSE IF c \in {225, 229} THEN {"Shift"}
           ELSE IF c \in {226, 230} THEN {"Alt"} ELSE IF c \in {227, 231} THEN {"Meta"} ELSE {} : c \in keys}

Empty == [out |-> <<>>, abs |-> {}, rel |-> {}, first |-> {}, count |-> 0, delay |-> 0, mixed |-> FALSE]
NoTouch == [down |-> FALSE, last |-> {}, travel |-> 0, fingers |-> 0, two |-> FALSE]

FocusInit ==
    /\ user = {} /\ activeTarget = {} /\ held = {} /\ mods = {}
    /\ order = <<>> /\ chosen = {} /\ swipe = 0 /\ touch = NoTouch
    /\ batch = [d \in KeyDevices |-> [Empty EXCEPT !.delay = CHOOSE x \in Delays : \A y \in Delays : x <= y]]
    /\ meant = [d \in KeyDevices |-> 0]
    /\ machine = [d \in KeyDevices |-> [keys |-> {}, at |-> 0]]
    /\ owed = [d \in KeyDevices |-> {}]
    /\ injected = <<>> /\ focusNow = 0 /\ calls = 0 /\ faults = 0

Call == calls < MaxCalls /\ calls' = calls + 1 /\ injected' = <<>>

-----------------------------------------------------------------------------
\* flush_motion: absolute, then relative.
FlushMotion(b) ==
    [b EXCEPT !.out = @ \o SetToSeq({[kind |-> "abs", v |-> v] : v \in b.abs})
                        \o SetToSeq({[kind |-> "rel", v |-> v] : v \in b.rel}),
              !.abs = {}, !.rel = {}]

\* Without flushing the motion that came before.
CoalescedLate(b, e) ==
    CASE e.kind = "abs" -> [b EXCEPT !.abs = {e.v}, !.mixed = @ \/ b.rel # {}]
      [] e.kind = "rel" -> [b EXCEPT !.rel = {e.v + (IF @ = {} THEN 0 ELSE CHOOSE v \in @ : TRUE)}]
      [] OTHER          -> [b EXCEPT !.out = Append(@, e)]

\* InputCoalescer::push: the latest position, the sum of deltas; anything else
\* flushes the motion first. `mixed` remembers a position after a delta.
Coalesced(b, e) ==
    CASE e.kind = "abs" -> [b EXCEPT !.abs = {e.v}, !.mixed = @ \/ b.rel # {}]
      [] e.kind = "rel" -> [b EXCEPT !.rel = {e.v + (IF @ = {} THEN 0 ELSE CHOOSE v \in @ : TRUE)}]
      [] OTHER          -> [FlushMotion(b) EXCEPT !.out = Append(@, e)]

\* InputBatcher::push, by way of InjectionEngine::submit.
Pushed(b, e) ==
    [Coalesced(b, e) EXCEPT !.first = IF @ = {} THEN {focusNow} ELSE @, !.count = @ + 1]

PushedAll(b, events) == FoldLeft(LAMBDA acc, e : Pushed(acc, e), b, events)

\* Submitted to a device; `meant` follows the motion.
Submit(d, events) ==
    LET Moved(p, e) == IF e.kind = "abs" THEN e.v ELSE IF e.kind = "rel" THEN p + e.v ELSE p
        Stamp(acc, e) == [at |-> Moved(acc.at, e), out |-> Append(acc.out, [e EXCEPT !.at = Moved(acc.at, e)])]
        stamped == FoldLeft(Stamp, [at |-> meant[d], out |-> <<>>], events)
    IN  /\ batch' = [batch EXCEPT ![d] = PushedAll(@, stamped.out)]
        /\ meant' = [meant EXCEPT ![d] = stamped.at]

Event(kind, v, snapshot) == [kind |-> kind, v |-> v, mods |-> snapshot, at |-> 0, real |-> TRUE]

-----------------------------------------------------------------------------
\* The held keys are forgotten and not released.
ReleasesNone(keys) == <<>>

\* drain_held_releases: in descending order of usage, with no modifiers.
Releases(keys) ==
    LET up == SetToSortSeq(keys, LAMBDA a, b : a > b)
    IN  [i \in 1..Len(up) |-> [Event("up", up[i], {}) EXCEPT !.real = FALSE]]

\* set_active and clear_active: `next` is {} or {device}.
Refocused(next) ==
    /\ activeTarget # next
    /\ IF activeTarget # {} THEN \E d \in activeTarget : Submit(d, Releases(held)) ELSE UNCHANGED <<batch, meant>>
    /\ activeTarget' = next /\ held' = {} /\ mods' = {}

SetActive(next) ==
    /\ Call /\ Refocused(next)
    /\ UNCHANGED <<user, switcher, touch, machine, owed, focusNow, faults>>

\* on_key: a modifier is up when neither of its keys is held.
OnKey(c) ==
    /\ Call
    /\ LET down  == c \notin user
           after == IF down THEN held \cup {c} ELSE held \ {c}
       IN  /\ user' = IF down THEN user \cup {c} ELSE user \ {c}
           /\ IF activeTarget = {} THEN UNCHANGED <<held, mods, batch, meant>>
              ELSE /\ held' = after
                   /\ mods' = IF down THEN mods \cup ModifiersOf({c})
                              ELSE mods \ (ModifiersOf({c}) \ ModifiersOf(after))
                   /\ \E d \in activeTarget : Submit(d, <<Event(IF down THEN "down" ELSE "up", c, mods')>>)
    /\ UNCHANGED <<activeTarget, switcher, touch, machine, owed, focusNow, faults>>

\* The pointer of the active device.
Point(e) ==
    /\ Call /\ touch = NoTouch
    /\ \E d \in activeTarget : Submit(d, <<e>>)
    /\ UNCHANGED <<keyboard, switcher, touch, machine, owed, focusNow, faults>>

-----------------------------------------------------------------------------
\* set_order: no device twice, and the active one is kept if it is still listed.
SetOrder(o) ==
    /\ Call /\ o # order
    /\ order' = o
    /\ chosen' = IF chosen # {} /\ chosen \subseteq Range(o) THEN chosen
                 ELSE IF o = <<>> THEN {} ELSE {o[1]}
    /\ UNCHANGED <<keyboard, swipe, touch, batch, meant, machine, owed, focusNow, faults>>

\* QuickSwitch::step, wrapping around.
StepTo(direction) ==
    LET at == IF chosen = {} THEN 1 ELSE CHOOSE i \in DOMAIN order : order[i] \in chosen
    IN  IF order = <<>> THEN {} ELSE {order[((at - 1 + direction) % Len(order)) + 1]}

\* GestureSwitchRecognizer::push; the caller gives the keyboard to the decision.
Gesture(contacts, delta, ended) ==
    LET sum == swipe + delta
        dir == IF sum >= Activation THEN 1 ELSE IF sum <= -Activation THEN -1 ELSE 0
        decided == contacts = 3 /\ dir # 0 /\ order # <<>>
    IN  /\ Call
        /\ swipe' = IF contacts # 3 \/ decided \/ ended THEN 0 ELSE sum
        /\ chosen' = IF contacts = 3 /\ dir # 0 THEN StepTo(dir) ELSE chosen
        /\ IF decided /\ StepTo(dir) # activeTarget THEN Refocused(StepTo(dir))
           ELSE UNCHANGED <<activeTarget, held, mods, batch, meant>>
        /\ UNCHANGED <<user, order, touch, machine, owed, focusNow, faults>>

\* TouchpadTranslator::translate: one finger points, two scroll, a short touch of
\* one finger that stayed in place clicks.
TouchBegin(f) ==
    /\ Call /\ activeTarget # {}
    /\ touch' = [down |-> TRUE, last |-> {0}, travel |-> 0, fingers |-> f, two |-> f >= 2]
    /\ UNCHANGED <<keyboard, switcher, batch, meant, machine, owed, focusNow, faults>>

TouchMove(f, x) ==
    /\ Call /\ touch.down
    /\ \E last \in touch.last, d \in activeTarget :
          /\ touch' = [touch EXCEPT !.last = {x}, !.fingers = IF f > @ THEN f ELSE @, !.two = @ \/ f >= 2,
                                    !.travel = @ + (IF x > last THEN x - last ELSE last - x)]
          /\ Submit(d, <<Event(IF f >= 2 THEN "scroll" ELSE "rel", x - last, {})>>)
    /\ UNCHANGED <<keyboard, switcher, machine, owed, focusNow, faults>>

TouchEnd ==
    /\ Call /\ touch.down
    /\ \E d \in activeTarget, short \in BOOLEAN :
          IF touch.fingers = 1 /\ short /\ touch.travel <= TapTravel
          THEN Submit(d, <<[Event("press", 0, {}) EXCEPT !.real = ~touch.two], Event("release", 0, {})>>)
          ELSE UNCHANGED <<batch, meant>>
    /\ touch' = NoTouch
    /\ UNCHANGED <<keyboard, switcher, machine, owed, focusNow, faults>>

-----------------------------------------------------------------------------
UpdateRtt(d, delay) ==
    /\ Call /\ batch[d].delay # delay
    /\ batch' = [batch EXCEPT ![d].delay = delay]
    /\ UNCHANGED <<keyboard, switcher, touch, meant, machine, owed, focusNow, faults>>

FocusTick ==
    /\ focusNow < MaxClock /\ \E d \in KeyDevices : batch[d].count > 0
    /\ focusNow' = focusNow + 1 /\ injected' = <<>>
    /\ UNCHANGED <<keyboard, switcher, touch, batch, meant, machine, owed, calls, faults>>

ShouldFlush(b) ==
    b.count > 0 /\ (b.count >= MaxSource \/ \E t \in b.first : focusNow >= t + b.delay)

\* What the machine makes of an event.
AppliedTo(m, e) ==
    CASE e.kind = "abs"  -> [m EXCEPT !.at = e.v]
      [] e.kind = "rel"  -> [m EXCEPT !.at = @ + e.v]
      [] e.kind = "down" -> [m EXCEPT !.keys = @ \cup {e.v}]
      [] e.kind = "up"   -> [m EXCEPT !.keys = @ \ {e.v}]
      [] OTHER           -> m

KeysOf(events) == {e.v : e \in {x \in Range(events) : x.kind \in {"down", "up"}}}

\* InjectionEngine::flush: the batch is drained, then injected event by event; the
\* first error ends it and the rest is gone.
Flush(d) ==
    /\ ShouldFlush(batch[d])
    /\ LET all == FlushMotion(batch[d]).out
           Run(n) == FoldLeft(LAMBDA acc, e : Append(acc, [event |-> e, after |->
                                  AppliedTo(IF acc = <<>> THEN machine[d] ELSE Last(acc).after, e)]),
                              <<>>, SubSeq(all, 1, n))
       IN  \E n \in {Len(all)} \cup (IF faults < MaxInjectFaults THEN 0..(Len(all) - 1) ELSE {}) :
              /\ injected' = Run(n)
              /\ machine' = IF n = 0 THEN machine ELSE [machine EXCEPT ![d] = Last(Run(n)).after]
              /\ faults' = IF n = Len(all) THEN faults ELSE faults + 1
              /\ owed' = [owed EXCEPT ![d] = (@ \ KeysOf(SubSeq(all, 1, n)))
                                               \cup KeysOf(SubSeq(all, n + 1, Len(all)))]
    /\ batch' = [batch EXCEPT ![d] = [Empty EXCEPT !.delay = batch[d].delay, !.mixed = batch[d].mixed]]
    /\ UNCHANGED <<keyboard, switcher, touch, meant, focusNow, calls>>

FocusNext ==
    \/ \E next \in {{}} \cup {{d} : d \in KeyDevices} : SetActive(next)
    \/ \E c \in KeyCodes : OnKey(c)
    \/ Point(Event("abs", 5, {})) \/ Point(Event("rel", 1, {})) \/ Point(Event("press", 0, {}))
    \/ \E o \in Orders : SetOrder(o)
    \/ \E contacts \in {2, 3}, delta \in {-Activation, 1}, ended \in BOOLEAN : Gesture(contacts, delta, ended)
    \/ \E f \in {1, 2} : TouchBegin(f) \/ \E x \in {1, 2} : TouchMove(f, x)
    \/ TouchEnd \/ FocusTick
    \/ \E d \in KeyDevices : Flush(d) \/ \E delay \in Delays : UpdateRtt(d, delay)

-----------------------------------------------------------------------------
\* Nothing waits in a batcher that does not know when it began waiting.
FocusTypeOK ==
    /\ held \subseteq user /\ mods = ModifiersOf(held) /\ Cardinality(activeTarget) <= 1
    /\ order = <<>> => chosen = {}
    /\ chosen \subseteq Range(order)
    /\ \A d \in KeyDevices : LET b == batch[d] IN
          /\ b.count = 0 <=> b.first = {}
          /\ b.count = 0 => b.out = <<>> /\ b.abs = {} /\ b.rel = {}

\* Once its batch is flushed, a device holds the keys the controller believes held
\* if it has the keyboard and none if it has lost it. A flush that fails in the
\* middle leaves at most the keys it drained and did not inject different, and each
\* of them only until its next event arrives.
NoStuckKeys ==
    \A d \in KeyDevices : batch[d].count = 0 =>
       LET expected == IF d \in activeTarget THEN held ELSE {}
       IN  (machine[d].keys \ expected) \cup (expected \ machine[d].keys) \subseteq owed[d]

\* What is injected happens where the pointer was when the user did it, unless a
\* position overtook a delta; and a key carries the modifiers the machine then has.
\* The releases of a lost focus carry none.
HappensWhereMeant ==
    faults = 0 => \A i \in DOMAIN injected : LET e == injected[i].event m == injected[i].after IN
       /\ e.kind \in {"down", "up", "press", "release", "scroll"} =>
             e.at = m.at \/ \E d \in KeyDevices : batch[d].mixed
       /\ e.kind \in {"down", "up"} /\ e.real => e.mods = ModifiersOf(m.keys)

\* A click is injected with its release, and never for a touch that scrolled.
ClicksAreTaps ==
    \A i \in DOMAIN injected : injected[i].event.kind = "press" => injected[i].event.real

\* Keyboard focus, batches and gestures over switches and failures.
KeyboardSound == FocusTypeOK /\ NoStuckKeys /\ HappensWhereMeant /\ ClicksAreTaps
=============================================================================
