-------------------------- MODULE InputHandoffProofs --------------------------
(***************************************************************************)
(* Proofs that the safety properties of InputHandoff hold for every set of  *)
(* keys and edges, every capacity and every bound.                          *)
(***************************************************************************)
EXTENDS InputHandoff, TLAPS

USE DEF envVars, srcVars, tgtVars

(***************************************************************************)
(* Type correctness                                                         *)
(***************************************************************************)

\* The events the actions build are events.
LEMMA KeyEventType ==
    ASSUME NEW kind \in {"press", "release"}, NEW key \in Keys, NEW at \in Nat
    PROVE  Event(kind, key, at) \in Events
BY DEF Event, Events, KeyEvents

\* Motion and button events are events too.
LEMMA MotionEventType ==
    ASSUME NEW kind \in {"abs", "rel", "entry", "move"}, NEW at \in Nat
    PROVE  Event(kind, NoKey, at) \in Events
BY DEF Event, Events, MotionEvents

\* Releasing held inputs and tracking an event stay within the types.
LEMMA ReleasesType ==
    ASSUME NEW held \in SUBSET Keys, session \in Nat
    PROVE  Releases(held) \in SUBSET Events
BY DEF Releases, Event, Events, KeyEvents

\* Tracking an event keeps the set of held inputs typed.
LEMMA TrackType ==
    ASSUME NEW held \in SUBSET Keys, NEW e \in Events
    PROVE  Track(held, e) \in SUBSET Keys
BY DEF Track, Events, KeyEvents, MotionEvents

\* An event carries the number of the session it was captured in.
LEMMA EventFields ==
    ASSUME NEW e \in Events
    PROVE  e.at \in Nat
BY DEF Events, KeyEvents, MotionEvents

\* Head, Tail, Append and SubSeq on sequences of events.
LEMMA QueueTypes ==
    ASSUME NEW s \in Seq(Events), NEW e \in Events
    PROVE  /\ Append(s, e) \in Seq(Events) /\ Len(Append(s, e)) = Len(s) + 1
           /\ s # <<>> => /\ Head(s) \in Events
                          /\ Tail(s) \in Seq(Events)
                          /\ Len(Tail(s)) = Len(s) - 1
OBVIOUS

\* A prefix of an event sequence is one, and is no longer.
LEMMA PrefixType ==
    ASSUME NEW s \in Seq(Events), NEW n \in 0 .. Len(s)
    PROVE  /\ SubSeq(s, 1, n) \in Seq(Events) /\ Len(SubSeq(s, 1, n)) = n
           /\ \A i \in 1 .. n : SubSeq(s, 1, n)[i] = s[i]
OBVIOUS

\* A cleared queue is well typed.
LEMMA EmptyQueue == <<>> \in Seq(Events) /\ Len(<<>>) = 0
OBVIOUS

\* What the proofs use of the bounds.
LEMMA Bounds ==
    /\ QueueCapacity \in Nat /\ QueueCapacity >= 1
    /\ MaxInputs \in Nat /\ MaxSessions \in Nat /\ MaxEdits \in Nat
BY ConstantsOK DEF ConstantsOK

\* The daemons start in typed states.
LEMMA TypeInit == Init => TypeOK
<1> SUFFICES ASSUME Init PROVE TypeOK
  OBVIOUS
<1>1. EnvTypeOK
  BY DEF Init, EnvTypeOK
<1>2. CaptureTypeOK
  <2>1. queue \in Seq(Events)
    BY EmptyQueue DEF Init
  <2>2. Len(queue) <= QueueCapacity
    BY EmptyQueue, Bounds DEF Init
  <2> QED BY <2>1, <2>2 DEF Init, CaptureTypeOK
<1>3. ForwarderTypeOK
  BY DEF Init, ForwarderTypeOK
<1>4. InjectorTypeOK
  BY EmptyQueue DEF Init, InjectorTypeOK
<1> QED BY <1>1, <1>2, <1>3, <1>4 DEF TypeOK

(***************************************************************************)
(* What each group of actions leaves alone                                  *)
(***************************************************************************)
\* A step of the forwarder leaves environment and target alone.
LEMMA SourceFrame ==
    Source => UNCHANGED <<envVars, fault, tgtVars>>
BY DEF Source, ShutdownForwarder, Reconfigure, CaptureError, FocusTimeout,
       Route, CheckFault, StoreSuppressed, SendOne, SendFails, FinishBatch,
       CloseForwarder, DropForwarder

\* A step of the target leaves the source's state alone.
LEMMA TargetFrame ==
    Target => UNCHANGED <<envVars, queue, suppressed, fault, edge, srcVars>>
BY DEF Target, Inject, EndReceive, ReleaseHeld, EndInjector, AbortInjector

(***************************************************************************)
(* Type correctness, one lemma per part of the state                        *)
(***************************************************************************)
\* What the user does reaches the tap as an event of the current session.
LEMMA CaptureEvent ==
    ASSUME EnvTypeOK, UserInput
    PROVE  \E e \in Events : Capture(e) /\ e.at = session
<1>1. CASE \E k \in Keys, kind \in {"press", "release"} :
               Capture(Event(kind, k, session))
  BY <1>1, KeyEventType DEF EnvTypeOK, Event
<1>2. CASE Capture(Event(IF suppressed THEN "rel" ELSE "abs", NoKey, session))
  BY <1>2, MotionEventType DEF EnvTypeOK, Event
<1> QED BY <1>1, <1>2 DEF UserInput

\* Every step keeps the environment's part of the state typed.
LEMMA EnvTypeStep == TypeOK /\ Next => EnvTypeOK'
<1> SUFFICES ASSUME EnvTypeOK, Next PROVE EnvTypeOK'
  BY DEF TypeOK
<1>1. CASE Source
  BY <1>1, SourceFrame DEF EnvTypeOK
<1>2. CASE Target
  BY <1>2, TargetFrame DEF EnvTypeOK
<1>3. CASE StartSession
  BY <1>3 DEF EnvTypeOK, StartSession
<1>4. CASE UserInput
  <2>1. PICK e \in Events : Capture(e)
    BY <1>4, CaptureEvent
  <2> QED BY <2>1 DEF EnvTypeOK, Capture
<1>5. CASE EditTopology
  BY <1>5 DEF EnvTypeOK, EditTopology
<1>6. CASE RequestShutdown
  BY <1>6 DEF EnvTypeOK, RequestShutdown
<1>7. CASE LinkBreak
  BY <1>7 DEF EnvTypeOK, LinkBreak
<1> QED BY <1>1, <1>2, <1>3, <1>4, <1>5, <1>6, <1>7 DEF Next, Environment

\* Every step keeps the event tap's part of the state typed, its queue within the bound.
LEMMA CaptureTypeStep == TypeOK /\ Next => CaptureTypeOK'
<1> SUFFICES ASSUME TypeOK, Next PROVE CaptureTypeOK'
  OBVIOUS
<1>1. CASE Source
  <2>1. queue' \in Seq(Events) /\ Len(queue') <= QueueCapacity
    <3>1. queue' = queue \/ (queue # <<>> /\ queue' = Tail(queue))
      BY <1>1 DEF Source, ShutdownForwarder, Reconfigure, CaptureError,
                  FocusTimeout, Route, CheckFault, StoreSuppressed, SendOne,
                  SendFails, FinishBatch, CloseForwarder, DropForwarder
    <3> QED BY <3>1, QueueTypes, Bounds DEF TypeOK, CaptureTypeOK
  <2>2. suppressed' \in BOOLEAN
    BY <1>1 DEF TypeOK, CaptureTypeOK, Source, ShutdownForwarder, Reconfigure,
                CaptureError, FocusTimeout, Route, CheckFault, StoreSuppressed,
                SendOne, SendFails, FinishBatch, CloseForwarder, DropForwarder,
                Unsuppress
  <2> QED BY <1>1, <2>1, <2>2, SourceFrame DEF TypeOK, CaptureTypeOK
<1>2. CASE Target
  BY <1>2, TargetFrame DEF TypeOK, CaptureTypeOK
<1>3. CASE StartSession
  <2>1. queue' \in Seq(Events) /\ Len(queue') <= QueueCapacity
    BY <1>3, EmptyQueue, Bounds DEF StartSession
  <2> QED BY <1>3, <2>1 DEF TypeOK, CaptureTypeOK, StartSession
<1>4. CASE UserInput
  <2>1. PICK e \in Events : Capture(e)
    BY <1>4, CaptureEvent DEF TypeOK
  <2>2. queue' \in Seq(Events) /\ Len(queue') <= QueueCapacity
    BY <2>1, QueueTypes, Bounds DEF TypeOK, CaptureTypeOK, Capture
  <2>3. suppressed' \in BOOLEAN /\ fault' \in BOOLEAN
    BY <2>1 DEF TypeOK, CaptureTypeOK, Capture
  <2> QED BY <2>2, <2>3 DEF CaptureTypeOK
<1>5. CASE EditTopology
  BY <1>5 DEF TypeOK, CaptureTypeOK, EditTopology
<1>6. CASE RequestShutdown
  BY <1>6 DEF TypeOK, CaptureTypeOK, RequestShutdown
<1>7. CASE LinkBreak
  BY <1>7 DEF TypeOK, CaptureTypeOK, LinkBreak
<1> QED BY <1>1, <1>2, <1>3, <1>4, <1>5, <1>6, <1>7 DEF Next, Environment

\* Every step keeps the forwarder's part of the state typed.
LEMMA ForwarderTypeStep == TypeOK /\ Next => ForwarderTypeOK'
<1> SUFFICES ASSUME TypeOK, Next PROVE ForwarderTypeOK'
  OBVIOUS
<1>1. ForwarderTypeOK /\ EnvTypeOK
  BY DEF TypeOK
<1>2. ASSUME NEW next \in {"return", "cleanup"}, GiveBack(next), edge' \in Edges
      PROVE  ForwarderTypeOK'
  BY <1>1, <1>2, ReleasesType DEF GiveBack, ForwarderTypeOK, EnvTypeOK
<1>3. CASE Source
  <2>1. CASE ShutdownForwarder
    BY <2>1, <1>1, <1>2 DEF ShutdownForwarder, ForwarderTypeOK
  <2>2. CASE Reconfigure
    BY <2>2, <1>1, <1>2 DEF Reconfigure, ForwarderTypeOK, EnvTypeOK
  <2>3. CASE CaptureError
    BY <2>3, <1>1, <1>2 DEF CaptureError, ForwarderTypeOK
  <2>4. CASE FocusTimeout
    BY <2>4, <1>1, <1>2 DEF FocusTimeout, ForwarderTypeOK
  <2>5. CASE Route
    <3> DEFINE e == Head(queue)
    <3>1. e \in Events /\ e.at \in Nat
      BY <2>5, QueueTypes, EventFields DEF Route, TypeOK, CaptureTypeOK
    <3>2. edge' \in Edges
      BY <2>5, <1>1 DEF Route, ForwarderTypeOK
    <3>3. CASE GiveBack("return")
      BY <3>2, <3>3, <1>2
    <3>4. CASE UNCHANGED srcVars
      BY <3>2, <3>4, <1>1 DEF ForwarderTypeOK
    <3>5. CASE RouteLocal(e)
      <4>1. {Event("entry", NoKey, e.at)} \in SUBSET Events
        BY <3>1, MotionEventType
      <4> HIDE DEF e
      <4> QED BY <3>5, <4>1, <3>2, <1>1 DEF RouteLocal, ForwarderTypeOK
    <3>6. CASE RouteRemote(e)
      <4>1. {Event("move", NoKey, e.at)} \in SUBSET Events
        BY <3>1, MotionEventType
      <4>2. Track(heldS, e) \in SUBSET Keys
        BY <3>1, <1>1, TrackType DEF ForwarderTypeOK
      <4> HIDE DEF e
      <4>3. ASSUME NEW events \in SUBSET Events, NEW held \in SUBSET Keys,
                   Emit(events, held)
            PROVE  ForwarderTypeOK'
        BY <4>3, <3>2, <1>1 DEF Emit, ForwarderTypeOK
      <4>4. heldS \in SUBSET Keys /\ {e} \in SUBSET Events
        BY <1>1, <3>1 DEF ForwarderTypeOK
      <4> QED BY <3>6, <3>3, <4>1, <4>2, <4>3, <4>4 DEF RouteRemote
    <3> QED BY <2>5, <3>3, <3>4, <3>5, <3>6 DEF Route
  <2>6. CASE CheckFault
    BY <2>6, <1>1 DEF CheckFault, ForwarderTypeOK
  <2>7. CASE StoreSuppressed
    BY <2>7, <1>1 DEF StoreSuppressed, ForwarderTypeOK
  <2>8. CASE SendOne
    BY <2>8, <1>1 DEF SendOne, ForwarderTypeOK
  <2>9. CASE SendFails
    BY <2>9, <1>1 DEF SendFails, Unsuppress, ForwarderTypeOK
  <2>10. CASE FinishBatch
    BY <2>10, <1>1 DEF FinishBatch, Unsuppress, ForwarderTypeOK
  <2>11. CASE CloseForwarder
    BY <2>11, <1>1 DEF CloseForwarder, ForwarderTypeOK
  <2>12. CASE DropForwarder
    BY <2>12, <1>1 DEF DropForwarder, Unsuppress, ForwarderTypeOK
  <2> QED BY <1>3, <2>1, <2>2, <2>3, <2>4, <2>5, <2>6, <2>7, <2>8, <2>9, <2>10,
             <2>11, <2>12 DEF Source
<1>4. CASE Target
  BY <1>1, <1>4, TargetFrame DEF ForwarderTypeOK
<1>5. CASE StartSession
  BY <1>1, <1>5 DEF StartSession, ForwarderTypeOK, EnvTypeOK
<1>6. CASE UserInput
  <2>1. PICK e \in Events : Capture(e)
    BY <1>1, <1>6, CaptureEvent
  <2> QED BY <1>1, <2>1 DEF Capture, ForwarderTypeOK
<1>7. CASE EditTopology
  BY <1>1, <1>7 DEF EditTopology, ForwarderTypeOK
<1>8. CASE RequestShutdown
  BY <1>1, <1>8 DEF RequestShutdown, ForwarderTypeOK
<1>9. CASE LinkBreak
  BY <1>1, <1>9 DEF LinkBreak, ForwarderTypeOK
<1> QED BY <1>3, <1>4, <1>5, <1>6, <1>7, <1>8, <1>9 DEF Next, Environment

\* Every step keeps the injector's part of the state typed.
LEMMA InjectorTypeStep == TypeOK /\ Next => InjectorTypeOK'
<1> SUFFICES ASSUME TypeOK, Next PROVE InjectorTypeOK'
  OBVIOUS
<1>1. InjectorTypeOK /\ EnvTypeOK
  BY DEF TypeOK
<1>2. CASE Source
  <2>1. net' \in Seq(Events)
    <3>1. net' = net \/ \E e \in outbox : net' = Append(net, e)
      BY <1>2 DEF Source, ShutdownForwarder, Reconfigure, CaptureError,
                  FocusTimeout, Route, CheckFault, StoreSuppressed, SendOne,
                  SendFails, FinishBatch, CloseForwarder, DropForwarder
    <3> QED BY <3>1, QueueTypes DEF TypeOK, ForwarderTypeOK, InjectorTypeOK
  <2>2. open' \in BOOLEAN
    BY <1>1, <1>2 DEF InjectorTypeOK, Source, ShutdownForwarder, Reconfigure,
                CaptureError, FocusTimeout, Route, CheckFault, StoreSuppressed,
                SendOne, SendFails, FinishBatch, CloseForwarder, DropForwarder
  <2> QED BY <1>1, <1>2, <2>1, <2>2, SourceFrame DEF InjectorTypeOK
<1>3. CASE Inject
  <2>1. Head(net) \in Events /\ net' \in Seq(Events)
    BY <1>1, <1>3, QueueTypes DEF Inject, InjectorTypeOK
  <2>2. down' \in SUBSET Keys /\ heldT' \in SUBSET Keys
    BY <1>1, <1>3, <2>1, TrackType DEF Inject, InjectorTypeOK
  <2> QED BY <1>1, <1>3, <2>1, <2>2 DEF Inject, InjectorTypeOK
<1>4. CASE EndReceive
  BY <1>1, <1>4 DEF EndReceive, InjectorTypeOK
<1>5. CASE ReleaseHeld
  BY <1>1, <1>5 DEF ReleaseHeld, InjectorTypeOK
<1>6. CASE EndInjector
  BY <1>1, <1>6 DEF EndInjector, InjectorTypeOK
<1>7. CASE AbortInjector
  BY <1>1, <1>7 DEF AbortInjector, InjectorTypeOK
<1>8. CASE StartSession
  BY <1>1, <1>8, EmptyQueue DEF StartSession, InjectorTypeOK
<1>9. CASE UserInput
  <2>1. PICK e \in Events : Capture(e)
    BY <1>1, <1>9, CaptureEvent
  <2> QED BY <1>1, <2>1 DEF Capture, InjectorTypeOK
<1>10. CASE EditTopology
  BY <1>1, <1>10 DEF EditTopology, InjectorTypeOK
<1>11. CASE RequestShutdown
  BY <1>1, <1>11 DEF RequestShutdown, InjectorTypeOK
<1>12. CASE LinkBreak
  BY <1>1, <1>12, PrefixType DEF LinkBreak, InjectorTypeOK
<1> QED BY <1>2, <1>3, <1>4, <1>5, <1>6, <1>7, <1>8, <1>9, <1>10, <1>11, <1>12
        DEF Next, Target, Environment

\* Every reachable state has the types the module declares.
THEOREM TypeCorrect == Spec => []TypeOK
<1>1. TypeOK /\ [Next]_vars => TypeOK'
  <2>1. TypeOK /\ Next => TypeOK'
    BY EnvTypeStep, CaptureTypeStep, ForwarderTypeStep, InjectorTypeStep DEF TypeOK
  <2>2. TypeOK /\ UNCHANGED vars => TypeOK'
    <3> SUFFICES ASSUME TypeOK, UNCHANGED vars PROVE TypeOK'
      OBVIOUS
    <3>1. EnvTypeOK' /\ CaptureTypeOK'
      BY DEF TypeOK, vars, EnvTypeOK, CaptureTypeOK
    <3>2. ForwarderTypeOK'
      BY DEF TypeOK, vars, ForwarderTypeOK
    <3>3. InjectorTypeOK'
      BY DEF TypeOK, vars, InjectorTypeOK
    <3> QED BY <3>1, <3>2, <3>3 DEF TypeOK
  <2> QED BY <2>1, <2>2
<1> QED BY <1>1, TypeInit, PTL DEF Spec

(***************************************************************************)
(* Suppression of local input                                               *)
(***************************************************************************)

\* What focus, guard and flag are at each place of the forwarder.  The guard is
\* up exactly between the store and the batch that ends remote focus.
FocusInv ==
    /\ suppressed => guard
    /\ fwd = "wait" => guard = (focus = "remote")
    /\ fwd \in {"suppress", "store"} => focus = "remote" /\ ~guard /\ mode = "keep"
    /\ fwd = "send" /\ mode = "keep" => focus = "remote" /\ guard
    /\ fwd = "send" /\ mode # "keep" => focus = "local"
    /\ fwd \in {"closing", "ended"} => focus = "local" /\ ~guard
    /\ guard /\ ~fault => suppressed
    /\ focus = "local" => heldS = {}

\* Every step preserves the agreement of suppression with the forwarder's phase.
LEMMA FocusStep == TypeOK /\ FocusInv /\ [Next]_vars => FocusInv'
<1> SUFFICES ASSUME TypeOK, FocusInv, [Next]_vars PROVE FocusInv'
  OBVIOUS
<1> USE DEF FocusInv
<1>1. /\ guard \in BOOLEAN /\ suppressed \in BOOLEAN /\ fault \in BOOLEAN
      /\ fwd \in {"wait", "suppress", "store", "send", "closing", "ended"}
      /\ focus \in {"local", "remote"} /\ mode \in {"keep", "return", "cleanup"}
  BY DEF TypeOK, CaptureTypeOK, ForwarderTypeOK
<1>2. ASSUME NEW next \in {"return", "cleanup"}, GiveBack(next),
             fwd = "wait", UNCHANGED <<suppressed, fault>>
      PROVE  FocusInv'
  BY <1>1, <1>2 DEF GiveBack
<1>3. CASE ShutdownForwarder
  BY <1>2, <1>3 DEF ShutdownForwarder
<1>4. CASE Reconfigure
  BY <1>1, <1>2, <1>4 DEF Reconfigure
<1>5. CASE CaptureError
  BY <1>2, <1>5 DEF CaptureError, Ready
<1>6. CASE FocusTimeout
  BY <1>2, <1>6 DEF FocusTimeout, Ready
<1>7. CASE Route
  <2> DEFINE e == Head(queue)
  <2>1. fwd = "wait" /\ UNCHANGED <<suppressed, fault>>
    BY <1>7 DEF Route, Ready
  <2>2. CASE GiveBack("return")
    BY <1>2, <2>1, <2>2
  <2>3. CASE UNCHANGED srcVars
    BY <1>1, <2>1, <2>3
  <2>4. CASE focus = "local" /\ RouteLocal(e)
    BY <1>1, <2>1, <2>4 DEF RouteLocal
  <2>5. CASE focus = "remote" /\ RouteRemote(e)
    BY <1>1, <2>1, <2>2, <2>5 DEF RouteRemote, Emit
  <2> QED BY <1>1, <1>7, <2>2, <2>3, <2>4, <2>5 DEF Route
<1>8. CASE CheckFault
  BY <1>1, <1>8 DEF CheckFault
<1>9. CASE StoreSuppressed
  BY <1>1, <1>9 DEF StoreSuppressed
<1>10. CASE SendOne
  BY <1>1, <1>10 DEF SendOne
<1>11. CASE SendFails
  BY <1>1, <1>11 DEF SendFails, Unsuppress
<1>12. CASE FinishBatch
  BY <1>1, <1>12 DEF FinishBatch, Unsuppress
<1>13. CASE CloseForwarder
  BY <1>1, <1>13 DEF CloseForwarder
<1>14. CASE DropForwarder
  BY <1>1, <1>14 DEF DropForwarder, Unsuppress
<1>15. CASE Target
  BY <1>1, <1>15, TargetFrame
<1>16. CASE StartSession
  BY <1>1, <1>16 DEF StartSession
<1>17. CASE UserInput
  <2>1. PICK e \in Events : Capture(e)
    BY <1>17, CaptureEvent DEF TypeOK
  <2> QED BY <1>1, <2>1 DEF Capture
<1>18. CASE EditTopology
  BY <1>1, <1>18 DEF EditTopology
<1>19. CASE RequestShutdown
  BY <1>1, <1>19 DEF RequestShutdown
<1>20. CASE LinkBreak
  BY <1>1, <1>20 DEF LinkBreak
<1>21. CASE UNCHANGED vars
  BY <1>1, <1>21 DEF vars
<1> QED BY <1>3, <1>4, <1>5, <1>6, <1>7, <1>8, <1>9, <1>10, <1>11, <1>12, <1>13,
           <1>14, <1>15, <1>16, <1>17, <1>18, <1>19, <1>20, <1>21
        DEF Next, Source, Environment

\* The suppression invariant holds of every reachable state.
THEOREM FocusInvariant == Spec => []FocusInv
<1>1. Init => FocusInv
  BY DEF Init, FocusInv
<1> QED BY <1>1, FocusStep, TypeCorrect, PTL DEF Spec

\* However the forwarder ends, the event tap no longer swallows local input.
THEOREM LocalInputSafe == Spec => []LocalInputRestored
<1>1. FocusInv => LocalInputRestored
  BY DEF FocusInv, LocalInputRestored
<1> QED BY <1>1, FocusInvariant, PTL

\* While it waits for input, local input is swallowed exactly in remote focus.
THEOREM SuppressionSafe == Spec => []SuppressionFollowsFocus
<1>1. TypeOK /\ FocusInv => SuppressionFollowsFocus
  BY DEF FocusInv, SuppressionFollowsFocus, TypeOK, CaptureTypeOK, ForwarderTypeOK
<1> QED BY <1>1, FocusInvariant, TypeCorrect, PTL

(***************************************************************************)
(* Inputs held on the target                                                *)
(***************************************************************************)

\* Until a release fails, the injector's list is what the target OS has down,
\* and it is empty once the injector is gone.
HeldInv ==
    /\ ~stuckFault => down = heldT
    /\ tgt = "ended" => heldT = {}

\* Every step preserves what the injector knows of the inputs it holds down.
LEMMA HeldStep == TypeOK /\ HeldInv /\ [Next]_vars => HeldInv'
<1> SUFFICES ASSUME TypeOK, HeldInv, [Next]_vars PROVE HeldInv'
  OBVIOUS
<1> USE DEF HeldInv
<1>1. CASE Source
  BY <1>1, SourceFrame
<1>2. CASE Inject
  BY <1>2 DEF Inject
<1>3. CASE EndReceive
  BY <1>3 DEF EndReceive
<1>4. CASE ReleaseHeld
  BY <1>4 DEF ReleaseHeld
<1>5. CASE EndInjector
  BY <1>5 DEF EndInjector
<1>6. CASE AbortInjector
  BY <1>6 DEF AbortInjector
<1>7. CASE StartSession
  BY <1>7 DEF StartSession
<1>8. CASE UserInput
  <2>1. PICK e \in Events : Capture(e)
    BY <1>8, CaptureEvent DEF TypeOK
  <2> QED BY <2>1 DEF Capture
<1>9. CASE EditTopology
  BY <1>9 DEF EditTopology
<1>10. CASE RequestShutdown
  BY <1>10 DEF RequestShutdown
<1>11. CASE LinkBreak
  BY <1>11 DEF LinkBreak
<1>12. CASE UNCHANGED vars
  BY <1>12 DEF vars
<1> QED BY <1>1, <1>2, <1>3, <1>4, <1>5, <1>6, <1>7, <1>8, <1>9, <1>10, <1>11,
           <1>12 DEF Next, Target, Environment

\* No input stays pressed on the target after its injector is gone, unless a
\* release could not be injected or the task was aborted.
THEOREM RemoteInputSafe == Spec => []NoStuckRemoteInput
<1>1. Init => HeldInv
  BY DEF Init, HeldInv
<1>2. HeldInv => NoStuckRemoteInput
  BY DEF HeldInv, NoStuckRemoteInput
<1> QED BY <1>1, <1>2, HeldStep, TypeCorrect, PTL DEF Spec

(***************************************************************************)
(* Freshness of forwarded input                                             *)
(***************************************************************************)

\* While the forwarder runs, the queue it reads was filled in this session.
FreshQueue == fwd # "ended" => \A i \in 1 .. Len(queue) : queue[i].at = session
FreshInv == FreshQueue /\ StaleInputNeverForwarded

\* The releases the forwarder builds belong to the current session.
LEMMA ReleasesFresh ==
    ASSUME NEW held PROVE \A e \in Releases(held) : e.at = session
BY DEF Releases, Event

\* The elements of a tail are elements of the sequence.
LEMMA TailElements ==
    ASSUME NEW s \in Seq(Events), s # <<>>
    PROVE  /\ Head(s) = s[1] /\ Len(s) \in Nat /\ Len(s) >= 1
           /\ Len(Tail(s)) = Len(s) - 1
           /\ \A i \in 1 .. Len(Tail(s)) : Tail(s)[i] = s[i + 1]
OBVIOUS

\* The elements of an extended sequence are the old ones and the new one.
LEMMA AppendElements ==
    ASSUME NEW s \in Seq(Events), NEW e
    PROVE  /\ Len(s) \in Nat
           /\ Len(Append(s, e)) = Len(s) + 1
           /\ Append(s, e)[Len(s) + 1] = e
           /\ \A i \in 1 .. Len(s) : Append(s, e)[i] = s[i]
OBVIOUS

\* No event of an earlier session is in the capture queue while it is forwarded from.
LEMMA FreshQueueStep == TypeOK /\ FreshInv /\ Next => FreshQueue'
<1> SUFFICES ASSUME TypeOK, FreshInv, Next PROVE FreshQueue'
  OBVIOUS
<1>1. FreshQueue /\ queue \in Seq(Events)
  BY DEF FreshInv, TypeOK, CaptureTypeOK
<1>2. ASSUME UNCHANGED <<queue, session>>, fwd' # "ended" => fwd # "ended"
      PROVE  FreshQueue'
  BY <1>1, <1>2 DEF FreshQueue
<1>3. CASE Route
  <2>1. queue # <<>> /\ queue' = Tail(queue) /\ fwd # "ended" /\ session' = session
    BY <1>3 DEF Route, Ready
  <2> QED BY <1>1, <2>1, TailElements DEF FreshQueue
<1>4. CASE Source /\ ~Route
  BY <1>2, <1>4 DEF Source, ShutdownForwarder, Reconfigure, CaptureError,
       FocusTimeout, CheckFault, StoreSuppressed, SendOne, SendFails,
       FinishBatch, CloseForwarder, DropForwarder, GiveBack, Ready
<1>5. CASE Target
  BY <1>2, <1>5, TargetFrame
<1>6. CASE StartSession
  BY <1>6, EmptyQueue DEF StartSession, FreshQueue
<1>7. CASE UserInput
  <2>1. PICK e \in Events : Capture(e) /\ e.at = session
    BY <1>7, CaptureEvent DEF TypeOK
  <2>2. session' = session /\ fwd' = fwd
    BY <2>1 DEF Capture
  <2>3. CASE queue' = queue
    BY <1>1, <2>2, <2>3 DEF FreshQueue
  <2>4. CASE queue' = Append(queue, e)
    BY <1>1, <2>1, <2>2, <2>4, AppendElements DEF FreshQueue
  <2> QED BY <2>1, <2>3, <2>4 DEF Capture
<1>8. CASE EditTopology \/ RequestShutdown \/ LinkBreak
  BY <1>2, <1>8 DEF EditTopology, RequestShutdown, LinkBreak
<1> QED BY <1>3, <1>4, <1>5, <1>6, <1>7, <1>8 DEF Next, Environment

FreshOut == \A e \in outbox : e.at = session
FreshNet == \A i \in 1 .. Len(net) : net[i].at = session

\* None is in the batch being sent.
LEMMA FreshOutStep == TypeOK /\ FreshInv /\ Next => FreshOut'
<1> SUFFICES ASSUME TypeOK, FreshInv, Next PROVE FreshOut'
  OBVIOUS
<1>1. FreshOut /\ FreshQueue /\ queue \in Seq(Events)
  BY DEF FreshInv, StaleInputNeverForwarded, FreshOut, TypeOK, CaptureTypeOK
<1>2. ASSUME NEW next, GiveBack(next), session' = session
      PROVE  FreshOut'
  BY <1>2, ReleasesFresh DEF GiveBack, FreshOut
<1>3. ASSUME outbox' \subseteq outbox, session' = session PROVE FreshOut'
  BY <1>1, <1>3 DEF FreshOut
<1>4. CASE ShutdownForwarder \/ Reconfigure \/ CaptureError \/ FocusTimeout
  BY <1>2, <1>3, <1>4 DEF ShutdownForwarder, Reconfigure, CaptureError, FocusTimeout
<1>5. CASE Route
  <2> DEFINE e == Head(queue)
  <2>1. e.at = session /\ session' = session
    BY <1>1, <1>5, TailElements DEF Route, Ready, FreshQueue
  <2> HIDE DEF e
  <2>2. CASE GiveBack("return")
    BY <1>2, <2>1, <2>2
  <2>3. CASE UNCHANGED srcVars
    BY <1>3, <2>1, <2>3
  <2>4. CASE RouteLocal(e)
    BY <1>3, <2>1, <2>4 DEF RouteLocal, FreshOut, Event
  <2>5. CASE RouteRemote(e)
    BY <2>1, <2>2, <2>5 DEF RouteRemote, Emit, FreshOut, Event
  <2> QED BY <1>5, <2>2, <2>3, <2>4, <2>5 DEF Route, e
<1>6. CASE CheckFault \/ StoreSuppressed \/ SendOne \/ SendFails \/ FinishBatch
           \/ CloseForwarder \/ DropForwarder
  BY <1>3, <1>6 DEF CheckFault, StoreSuppressed, SendOne, SendFails, FinishBatch,
       CloseForwarder, DropForwarder
<1>7. CASE Target
  BY <1>3, <1>7, TargetFrame
<1>8. CASE StartSession
  BY <1>8 DEF StartSession, FreshOut
<1>9. CASE UserInput
  <2>1. PICK e \in Events : Capture(e)
    BY <1>9, CaptureEvent DEF TypeOK
  <2> QED BY <1>3, <2>1 DEF Capture
<1>10. CASE EditTopology \/ RequestShutdown \/ LinkBreak
  BY <1>3, <1>10 DEF EditTopology, RequestShutdown, LinkBreak
<1> QED BY <1>4, <1>5, <1>6, <1>7, <1>8, <1>9, <1>10 DEF Next, Source, Environment

\* None is on the link.
LEMMA FreshNetStep == TypeOK /\ FreshInv /\ Next => FreshNet'
<1> SUFFICES ASSUME TypeOK, FreshInv, Next PROVE FreshNet'
  OBVIOUS
<1>1. FreshOut /\ FreshNet /\ net \in Seq(Events)
  BY DEF FreshInv, StaleInputNeverForwarded, FreshOut, FreshNet, TypeOK, InjectorTypeOK
<1>2. ASSUME UNCHANGED <<net, session>> PROVE FreshNet'
  BY <1>1, <1>2 DEF FreshNet
<1>3. ASSUME NEW e \in outbox, net' = Append(net, e), session' = session
      PROVE  FreshNet'
  BY <1>1, <1>3, AppendElements DEF FreshNet, FreshOut
<1>4. CASE SendOne
  BY <1>3, <1>4 DEF SendOne
<1>5. CASE SendFails
  BY <1>2, <1>3, <1>5 DEF SendFails
<1>6. CASE Source /\ ~SendOne /\ ~SendFails
  BY <1>2, <1>6 DEF Source, ShutdownForwarder, Reconfigure, CaptureError,
       FocusTimeout, Route, CheckFault, StoreSuppressed, FinishBatch,
       CloseForwarder, DropForwarder
<1>7. CASE Inject
  <2>1. net # <<>> /\ net' = Tail(net) /\ session' = session
    BY <1>7 DEF Inject
  <2> QED BY <1>1, <2>1, TailElements DEF FreshNet
<1>8. CASE Target /\ ~Inject
  BY <1>2, <1>8 DEF Target, EndReceive, ReleaseHeld, EndInjector, AbortInjector
<1>9. CASE StartSession
  BY <1>9, EmptyQueue DEF StartSession, FreshNet
<1>10. CASE UserInput
  <2>1. PICK e \in Events : Capture(e)
    BY <1>10, CaptureEvent DEF TypeOK
  <2> QED BY <1>2, <2>1 DEF Capture
<1>11. CASE EditTopology \/ RequestShutdown
  BY <1>2, <1>11 DEF EditTopology, RequestShutdown
<1>12. CASE LinkBreak
  <2>1. PICK n \in 0 .. Len(net) : net' = SubSeq(net, 1, n)
    BY <1>12 DEF LinkBreak
  <2>2. session' = session
    BY <1>12 DEF LinkBreak
  <2> QED BY <1>1, <2>1, <2>2, PrefixType DEF FreshNet
<1> QED BY <1>4, <1>5, <1>6, <1>7, <1>8, <1>9, <1>10, <1>11, <1>12
        DEF Next, Environment

\* Nothing captured before the current session is ever sent to the target.
THEOREM FreshInputSafe == Spec => []StaleInputNeverForwarded
<1>1. Init => FreshInv
  BY EmptyQueue DEF Init, FreshInv, FreshQueue, StaleInputNeverForwarded
<1>2. TypeOK /\ FreshInv /\ [Next]_vars => FreshInv'
  <2>1. TypeOK /\ FreshInv /\ Next => FreshInv'
    BY FreshQueueStep, FreshOutStep, FreshNetStep
       DEF FreshInv, StaleInputNeverForwarded, FreshOut, FreshNet
  <2>2. FreshInv /\ UNCHANGED vars => FreshInv'
    BY DEF FreshInv, FreshQueue, StaleInputNeverForwarded, vars
  <2> QED BY <2>1, <2>2
<1>3. FreshInv => StaleInputNeverForwarded
  BY DEF FreshInv
<1> QED BY <1>1, <1>2, <1>3, TypeCorrect, PTL DEF Spec

(***************************************************************************)
(* The source's record of held inputs mirrors the target                    *)
(***************************************************************************)

\* An event put on the link decides for its own input and no other.
LEMMA AfterAppend ==
    ASSUME NEW s \in Seq(Events), NEW e \in Events, NEW held, NEW k
    PROVE  After(Append(s, e), held, k)
             <=> IF e.key = k THEN e.kind = "press" ELSE After(s, held, k)
<1> DEFINE t == Append(s, e)
<1>1. /\ Len(s) \in Nat /\ Len(t) = Len(s) + 1 /\ t[Len(s) + 1] = e
      /\ \A i \in 1 .. Len(s) : t[i] = s[i]
  BY AppendElements
<1> HIDE DEF t
<1>2. CASE e.key = k
  <2>1. Mentions(t, k)
    BY <1>1, <1>2 DEF Mentions
  <2>2. LastIsPress(t, k) <=> e.kind = "press"
    BY <1>1, <1>2 DEF LastIsPress
  <2> QED BY <1>2, <2>1, <2>2 DEF After, t
<1>3. CASE e.key # k
  <2>1. Mentions(t, k) <=> Mentions(s, k)
    BY <1>1, <1>3 DEF Mentions
  <2>2. LastIsPress(t, k) <=> LastIsPress(s, k)
    BY <1>1, <1>3 DEF LastIsPress
  <2> QED BY <1>3, <2>1, <2>2 DEF After, t
<1> QED BY <1>2, <1>3

\* Injecting and tracking the first event changes nothing about the outcome.
LEMMA AfterTail ==
    ASSUME NEW s \in Seq(Events), s # <<>>, NEW held, NEW k \in Keys
    PROVE  After(Tail(s), Track(held, Head(s)), k) <=> After(s, held, k)
<1> DEFINE t == Tail(s)
           e == Head(s)
<1>1. /\ e = s[1] /\ Len(s) \in Nat /\ Len(s) >= 1 /\ Len(t) = Len(s) - 1
      /\ \A i \in 1 .. Len(t) : t[i] = s[i + 1]
  BY TailElements
<1>2. e \in Events
  OBVIOUS
<1> HIDE DEF t, e
<1>3. \A i \in 2 .. Len(s) : i - 1 \in 1 .. Len(t) /\ s[i] = t[i - 1]
  BY <1>1
<1>4. CASE Mentions(t, k)
  <2>1. Mentions(s, k)
    <3>1. PICK m \in 1 .. Len(t) : t[m].key = k
      BY <1>4 DEF Mentions
    <3>2. m + 1 \in 1 .. Len(s) /\ s[m + 1].key = k
      BY <1>1, <3>1
    <3> QED BY <3>2 DEF Mentions
  <2>2. ASSUME LastIsPress(t, k) PROVE LastIsPress(s, k)
    <3>1. PICK i \in 1 .. Len(t) :
             /\ t[i].key = k /\ t[i].kind = "press"
             /\ \A j \in 1 .. Len(t) : j > i => t[j].key # k
      BY <2>2 DEF LastIsPress
    <3>2. i + 1 \in 1 .. Len(s) /\ s[i + 1] = t[i]
      BY <1>1
    <3>3. ASSUME NEW j \in 1 .. Len(s), j > i + 1 PROVE s[j].key # k
      <4>1. j - 1 \in 1 .. Len(t) /\ j - 1 > i /\ j \in 2 .. Len(s)
        BY <1>1, <3>3
      <4>2. t[j - 1].key # k
        BY <3>1, <4>1
      <4> QED BY <1>3, <4>1, <4>2
    <3> QED BY <3>1, <3>2, <3>3 DEF LastIsPress
  <2>3. ASSUME LastIsPress(s, k) PROVE LastIsPress(t, k)
    <3>1. PICK i \in 1 .. Len(s) :
             /\ s[i].key = k /\ s[i].kind = "press"
             /\ \A j \in 1 .. Len(s) : j > i => s[j].key # k
      BY <2>3 DEF LastIsPress
    <3>2. PICK m \in 1 .. Len(t) : t[m].key = k
      BY <1>4 DEF Mentions
    <3>3. i >= 2
      BY <1>1, <3>1, <3>2
    <3>4. i - 1 \in 1 .. Len(t) /\ t[i - 1] = s[i]
      BY <1>1, <1>3, <3>3
    <3>5. ASSUME NEW j \in 1 .. Len(t), j > i - 1 PROVE t[j].key # k
      BY <1>1, <3>1, <3>5
    <3> QED BY <3>1, <3>4, <3>5 DEF LastIsPress
  <2> QED BY <1>4, <2>1, <2>2, <2>3 DEF After, t, e
<1>5. CASE ~Mentions(t, k)
  <2>1. ~LastIsPress(t, k)
    BY <1>5 DEF Mentions, LastIsPress
  <2>2. CASE e.key = k
    <3>1. Mentions(s, k)
      BY <1>1, <2>2 DEF Mentions
    <3>2. \A j \in 1 .. Len(s) : j > 1 => s[j].key # k
      BY <1>1, <1>3, <1>5 DEF Mentions
    <3>3. LastIsPress(s, k) <=> e.kind = "press"
      BY <1>1, <2>2, <3>2 DEF LastIsPress
    <3>4. k \in Track(held, e) <=> e.kind = "press"
      BY <1>2, <2>2, ConstantsOK
         DEF Track, Events, KeyEvents, MotionEvents, ConstantsOK
    <3> QED BY <1>5, <2>1, <3>1, <3>3, <3>4 DEF After, t, e
  <2>3. CASE e.key # k
    <3>1. ~Mentions(s, k)
      BY <1>1, <1>3, <1>5, <2>3 DEF Mentions
    <3>2. ~LastIsPress(s, k)
      BY <3>1 DEF Mentions, LastIsPress
    <3>3. k \in Track(held, e) <=> k \in held
      BY <2>3 DEF Track
    <3> QED BY <1>5, <2>1, <3>1, <3>2, <3>3 DEF After, t, e
  <2> QED BY <2>2, <2>3
<1> QED BY <1>4, <1>5

\* A batch names an input at most once and is empty while the forwarder waits.
BatchInv ==
    /\ fwd = "wait" => outbox = {}
    /\ \A d, e \in outbox : d.key = e.key => d = e

MirrorInv == BatchInv /\ StreamMirrorsHeld

\* A batch that says nothing about k leaves its fate to the link.
LEMMA DownAfterQuiet ==
    ASSUME NEW k, \A e \in outbox : e.key # k
    PROVE  DownAfter(k) <=> After(net, heldT, k)
BY DEF DownAfter

\* Every step preserves what a batch in progress may contain.
LEMMA BatchStep == TypeOK /\ BatchInv /\ Next => BatchInv'
<1> SUFFICES ASSUME TypeOK, BatchInv, Next PROVE BatchInv'
  OBVIOUS
<1>1. ASSUME NEW next, GiveBack(next) PROVE BatchInv'
  BY <1>1 DEF GiveBack, BatchInv, Releases, Event
<1>2. ASSUME outbox' \subseteq outbox, fwd' = "wait" => outbox' = {}
      PROVE  BatchInv'
  BY <1>2 DEF BatchInv
<1>3. ASSUME NEW x, outbox' = {x}, fwd' # "wait" PROVE BatchInv'
  BY <1>3 DEF BatchInv
<1>4. CASE ShutdownForwarder \/ CaptureError \/ FocusTimeout
  BY <1>1, <1>4 DEF ShutdownForwarder, CaptureError, FocusTimeout
<1>5. CASE Reconfigure
  BY <1>1, <1>2, <1>5 DEF Reconfigure, BatchInv
<1>6. CASE Route
  <2> DEFINE e == Head(queue)
  <2> HIDE DEF e
  <2>1. fwd = "wait"
    BY <1>6 DEF Route, Ready
  <2>2. CASE GiveBack("return")
    BY <1>1, <2>2
  <2>3. CASE UNCHANGED srcVars
    BY <1>2, <2>1, <2>3 DEF BatchInv
  <2>4. CASE RouteLocal(e)
    BY <1>3, <2>3, <2>4 DEF RouteLocal
  <2>5. CASE RouteRemote(e)
    BY <1>3, <2>2, <2>5 DEF RouteRemote, Emit
  <2> QED BY <1>6, <2>2, <2>3, <2>4, <2>5 DEF Route, e
<1>7. CASE CheckFault \/ StoreSuppressed \/ SendOne \/ SendFails \/ FinishBatch
           \/ CloseForwarder \/ DropForwarder
  BY <1>2, <1>7 DEF CheckFault, StoreSuppressed, SendOne, SendFails, FinishBatch,
       CloseForwarder, DropForwarder, BatchInv
<1>8. CASE Target
  BY <1>2, <1>8, TargetFrame DEF BatchInv
<1>9. CASE StartSession
  BY <1>9 DEF StartSession, BatchInv
<1>10. CASE UserInput
  <2>1. PICK e \in Events : Capture(e)
    BY <1>10, CaptureEvent DEF TypeOK
  <2> QED BY <1>2, <2>1 DEF Capture, BatchInv
<1>11. CASE EditTopology \/ RequestShutdown \/ LinkBreak
  BY <1>2, <1>11 DEF EditTopology, RequestShutdown, LinkBreak, BatchInv
<1> QED BY <1>4, <1>5, <1>6, <1>7, <1>8, <1>9, <1>10, <1>11
        DEF Next, Source, Environment

\* The mirror property, input by input.
Agrees(k) == k \in heldS <=> DownAfter(k)
Mirror == Healthy => \A k \in Keys : Agrees(k)

\* The mirror of the held set may be compared input by input.
LEMMA MirrorPointwise ==
    ASSUME TypeOK PROVE StreamMirrorsHeld <=> Mirror
<1>1. heldS \subseteq Keys
  BY DEF TypeOK, ForwarderTypeOK
<1>2. heldS = {k \in Keys : DownAfter(k)} <=> \A k \in Keys : Agrees(k)
  BY <1>1 DEF Agrees
<1> QED BY <1>2 DEF StreamMirrorsHeld, Mirror

\* Every step preserves the mirror between the source's held set and the target.
LEMMA MirrorStep ==
    TypeOK /\ TypeOK' /\ FocusInv /\ BatchInv /\ Mirror /\ Next => Mirror'
<1> SUFFICES ASSUME TypeOK, TypeOK', FocusInv, BatchInv, Mirror, Next, Healthy',
                    NEW k \in Keys
             PROVE  Agrees(k)'
  BY DEF Mirror
<1>1. /\ net \in Seq(Events) /\ heldS \subseteq Keys /\ outbox \subseteq Events
      /\ queue \in Seq(Events) /\ k # NoKey
  BY ConstantsOK DEF TypeOK, ForwarderTypeOK, InjectorTypeOK, CaptureTypeOK, ConstantsOK
<1>2. ASSUME Healthy, UNCHANGED <<heldS, outbox, net, heldT>> PROVE Agrees(k)'
  BY <1>2 DEF Mirror, Agrees, DownAfter, After, Mentions, LastIsPress
<1>3. ASSUME Healthy, fwd = "wait", UNCHANGED <<net, heldT>>,
             NEW next, GiveBack(next)
      PROVE  Agrees(k)'
  <2>1. k \in heldS <=> After(net, heldT, k)
    BY <1>3, DownAfterQuiet DEF Mirror, Agrees, BatchInv
  <2>2. k \notin heldS' /\ \A e \in outbox' : e.kind = "release"
    BY <1>3 DEF GiveBack, Releases, Event
  <2>3. ASSUME k \in heldS PROVE \E e \in outbox' : e.key = k
    <3>1. Event("release", k, session) \in outbox'
      BY <1>3, <2>3 DEF GiveBack, Releases
    <3> QED BY <3>1 DEF Event
  <2>4. After(net, heldT, k)' <=> After(net, heldT, k)
    BY <1>3 DEF After, Mentions, LastIsPress
  <2> QED BY <2>1, <2>2, <2>3, <2>4 DEF Agrees, DownAfter
<1>4. ASSUME Healthy, fwd = "wait", UNCHANGED <<net, heldT>>,
             NEW e \in Events, outbox' = {e}, heldS' = Track(heldS, e)
      PROVE  Agrees(k)'
  <2>1. k \in heldS <=> After(net, heldT, k)
    BY <1>4, DownAfterQuiet DEF Mirror, Agrees, BatchInv
  <2>2. After(net, heldT, k)' <=> After(net, heldT, k)
    BY <1>4 DEF After, Mentions, LastIsPress
  <2>3. CASE e.key = k
    <3>1. e.kind \in {"press", "release"}
      BY <1>1, <2>3 DEF Events, MotionEvents, KeyEvents
    <3>2. k \in heldS' <=> e.kind = "press"
      BY <1>4, <2>3, <3>1 DEF Track
    <3>3. DownAfter(k)' <=> e.kind = "press"
      BY <1>4, <2>3 DEF DownAfter
    <3> QED BY <3>2, <3>3 DEF Agrees
  <2>4. CASE e.key # k
    <3>1. k \in heldS' <=> k \in heldS
      BY <1>4, <2>4 DEF Track
    <3>2. DownAfter(k)' <=> After(net, heldT, k)'
      BY <1>4, <2>4 DEF DownAfter
    <3> QED BY <2>1, <2>2, <3>1, <3>2 DEF Agrees
  <2> QED BY <2>3, <2>4
<1>5. ASSUME NEW e \in Events, e.kind \notin {"press", "release"}
      PROVE  Track(heldS, e) = heldS
  BY <1>5 DEF Track
<1>6. CASE ShutdownForwarder \/ CaptureError \/ FocusTimeout \/ Reconfigure
  <2>1. fwd = "wait" /\ UNCHANGED <<open, tgt, injectFault, net, heldT>>
    BY <1>6 DEF ShutdownForwarder, CaptureError, FocusTimeout, Reconfigure, Ready
  <2>2. Healthy
    BY <2>1 DEF Healthy
  <2> QED BY <1>2, <1>3, <1>6, <2>1, <2>2 DEF ShutdownForwarder, CaptureError,
                                              FocusTimeout, Reconfigure
<1>7. CASE Route
  <2> DEFINE e == Head(queue)
  <2>1. Healthy /\ fwd = "wait" /\ UNCHANGED <<net, heldT>>
    BY <1>7 DEF Route, Ready, Healthy
  <2>2. e \in Events
    BY <1>1, <1>7, QueueTypes DEF Route
  <2>3. e.at \in Nat
    BY <2>2, EventFields
  <2> HIDE DEF e
  <2>4. CASE GiveBack("return")
    BY <1>3, <2>1, <2>4
  <2>5. CASE UNCHANGED srcVars
    BY <1>2, <2>1, <2>5
  <2>6. CASE focus = "local" /\ RouteLocal(e)
    <3>1. CASE UNCHANGED srcVars
      BY <2>5, <3>1
    <3>2. CASE outbox' = {Event("entry", NoKey, e.at)} /\ heldS' = {}
      <4>1. Event("entry", NoKey, e.at) \in Events /\ heldS = {}
        BY <2>3, <2>6, MotionEventType DEF FocusInv
      <4>2. Track(heldS, Event("entry", NoKey, e.at)) = heldS
        BY <4>1, <1>5 DEF Event
      <4> QED BY <1>4, <2>1, <3>2, <4>1, <4>2
    <3> QED BY <2>6, <3>1, <3>2 DEF RouteLocal
  <2>7. CASE RouteRemote(e)
    <3>1. CASE Emit({Event("move", NoKey, e.at)}, heldS)
      <4>1. Event("move", NoKey, e.at) \in Events
        BY <2>3, MotionEventType
      <4>2. Track(heldS, Event("move", NoKey, e.at)) = heldS
        BY <4>1, <1>5 DEF Event
      <4> QED BY <1>4, <2>1, <3>1, <4>1, <4>2 DEF Emit
    <3>2. CASE Emit({e}, Track(heldS, e))
      BY <1>4, <2>1, <2>2, <3>2 DEF Emit
    <3> QED BY <2>4, <2>7, <3>1, <3>2 DEF RouteRemote
  <2> QED BY <1>7, <2>4, <2>5, <2>6, <2>7 DEF Route, e
<1>8. CASE CheckFault \/ StoreSuppressed \/ FinishBatch
  <2>1. /\ UNCHANGED <<open, tgt, injectFault, heldS, outbox, net, heldT>>
        /\ fwd \in {"suppress", "store", "send"}
    BY <1>8 DEF CheckFault, StoreSuppressed, FinishBatch
  <2>2. Healthy
    BY <2>1 DEF Healthy
  <2> QED BY <1>2, <2>1, <2>2
<1>9. CASE SendOne
  <2>1. PICK e \in outbox : net' = Append(net, e) /\ outbox' = outbox \ {e}
    BY <1>9 DEF SendOne
  <2>2. Healthy /\ UNCHANGED <<heldS, heldT>>
    BY <1>9 DEF SendOne, Healthy
  <2>3. After(net, heldT, k)'
          <=> IF e.key = k THEN e.kind = "press" ELSE After(net, heldT, k)
    <3>1. After(net, heldT, k)' <=> After(Append(net, e), heldT, k)
      BY <2>1, <2>2 DEF After, Mentions, LastIsPress
    <3>2. e \in Events
      BY <1>1, <2>1
    <3> QED BY <1>1, <3>1, <3>2, AfterAppend
  <2>4. CASE e.key = k
    <3>1. \A d \in outbox' : d.key # k
      BY <2>1, <2>4 DEF BatchInv
    <3>2. DownAfter(k)' <=> e.kind = "press"
      BY <2>3, <2>4, <3>1 DEF DownAfter
    <3>3. DownAfter(k) <=> e.kind = "press"
      BY <2>1, <2>4 DEF DownAfter, BatchInv
    <3> QED BY <2>2, <3>2, <3>3 DEF Mirror, Agrees
  <2>5. CASE e.key # k
    <3>1. DownAfter(k)' <=> DownAfter(k)
      BY <2>1, <2>3, <2>5 DEF DownAfter
    <3> QED BY <2>2, <3>1 DEF Mirror, Agrees
  <2> QED BY <2>4, <2>5
<1>10. CASE SendFails \/ CloseForwarder \/ DropForwarder
  BY <1>10 DEF SendFails, CloseForwarder, DropForwarder, Healthy
<1>11. CASE Inject
  <2>1. /\ net # <<>> /\ net' = Tail(net) /\ heldT' = Track(heldT, Head(net))
        /\ Healthy /\ UNCHANGED <<heldS, outbox>>
    BY <1>11 DEF Inject, Healthy
  <2>2. After(net, heldT, k)' <=> After(Tail(net), Track(heldT, Head(net)), k)
    BY <2>1 DEF After, Mentions, LastIsPress
  <2>3. After(net, heldT, k)' <=> After(net, heldT, k)
    BY <1>1, <2>1, <2>2, AfterTail
  <2>4. DownAfter(k)' <=> DownAfter(k)
    BY <2>1, <2>3 DEF DownAfter
  <2> QED BY <2>1, <2>4 DEF Mirror, Agrees
<1>12. CASE EndReceive \/ ReleaseHeld \/ EndInjector \/ AbortInjector \/ LinkBreak
  BY <1>12 DEF EndReceive, ReleaseHeld, EndInjector, AbortInjector, LinkBreak, Healthy
<1>13. CASE StartSession
  BY <1>13, EmptyQueue
     DEF StartSession, Agrees, DownAfter, After, LastIsPress, Mentions
<1>14. CASE UserInput
  <2>1. PICK e \in Events : Capture(e)
    BY <1>14, CaptureEvent DEF TypeOK
  <2>2. Healthy /\ UNCHANGED <<heldS, outbox, net, heldT>>
    BY <2>1 DEF Capture, Healthy
  <2> QED BY <1>2, <2>2
<1>15. CASE EditTopology \/ RequestShutdown
  <2>1. UNCHANGED <<open, fwd, tgt, injectFault, heldS, outbox, net, heldT>>
    BY <1>15 DEF EditTopology, RequestShutdown
  <2>2. Healthy
    BY <2>1 DEF Healthy
  <2> QED BY <1>2, <2>1, <2>2
<1> QED BY <1>6, <1>7, <1>8, <1>9, <1>10, <1>11, <1>12, <1>13, <1>14, <1>15
        DEF Next, Source, Target, Environment

\* For every set of keys and every capacity: the source's held list is exactly
\* what the target will hold after the events in flight.
THEOREM MirrorCorrect == Spec => []StreamMirrorsHeld
<1>1. Init => BatchInv /\ Mirror
  BY DEF Init, BatchInv, Mirror, Healthy
<1>2. TypeOK /\ TypeOK' /\ FocusInv /\ BatchInv /\ Mirror /\ [Next]_vars
        => BatchInv' /\ Mirror'
  <2>1. BatchInv /\ Mirror /\ UNCHANGED vars => BatchInv' /\ Mirror'
    BY DEF vars, BatchInv, Mirror, Healthy, Agrees, DownAfter, After, Mentions,
           LastIsPress
  <2> QED BY <2>1, BatchStep, MirrorStep
<1>3. TypeOK /\ Mirror => StreamMirrorsHeld
  BY MirrorPointwise
<1> QED BY <1>1, <1>2, <1>3, TypeCorrect, FocusInvariant, PTL DEF Spec

\* Once focus is back and its releases are sent, the events in flight leave
\* nothing pressed on the target.
THEOREM LocalFocusClean == Spec => []LocalFocusLeavesTargetClean
<1>1. FocusInv /\ StreamMirrorsHeld => LocalFocusLeavesTargetClean
  BY DEF FocusInv, StreamMirrorsHeld, LocalFocusLeavesTargetClean
<1> QED BY <1>1, FocusInvariant, MirrorCorrect, PTL

===============================================================================
