----------------------------- MODULE NativeKeys -----------------------------
(***************************************************************************)
(* What a key, a button and the pointer become on the way from one machine *)
(* to another: the native code is captured into a USB HID usage            *)
(* (platform-macos/src/capture.rs, platform-windows/src/capture.rs), sent, *)
(* and injected as a native event of the target (inject.rs of both         *)
(* platforms). Control is local first, then suppressed: the source's own   *)
(* system is kept from what is forwarded.                                  *)
(***************************************************************************)
EXTENDS Integers, Sequences, FiniteSets, SequencesExt, TLC

CONSTANTS
    SourceKeys,    \* platform -> native codes of the keys the user touches
    Displays,      \* display rectangles [x, y, w, h] the target may have
    MaxTouches,    \* bound: presses, releases and motions
    MaxPostFaults  \* bound: native events that cannot be created

ASSUME KeyConstants == MaxTouches \in Nat /\ MaxPostFaults \in Nat /\ Displays # {}

VARIABLES
    sourceOS, target,   \* the platforms
    suppressed,
    physical,         \* controls the user holds
    since,            \* those pressed since control left
    localOS,          \* controls the source's own system believes held
    route,            \* input events on their way
    remoteOS,         \* native controls the target's system believes held
    buttons,          \* NativeEventPoster::pressed_buttons, oldest first
    motion,           \* the last motion posted: [drag, held], the button it drags (-1: none)
    screens, pointer,
    touches, postFaults

keyVars == <<sourceOS, target, suppressed, physical, since, localOS, route, remoteOS, buttons, motion,
             screens, pointer, touches, postFaults>>

-----------------------------------------------------------------------------
\* A run of a table: the codes of consecutive usages from `first` on.
From(first, codes) == [h \in first..(first + Len(codes) - 1) |-> codes[h - first + 1]]

\* cg_to_hid_keycode and cg_modifier_to_hid_and_flag, by usage.
MacCaptured ==
    From(4, <<0, 11, 8, 2, 14, 3, 5, 4, 34, 38, 40, 37, 46, 45, 31, 35, 12, 15, 1, 17, 32, 9, 13, 7, 16, 6,
              18, 19, 20, 21, 23, 22, 26, 28, 25, 29, 36, 53, 51, 48, 49, 27, 24, 33, 30, 42>>)
    @@ From(51, <<41, 39, 50, 43, 47, 44>>)
    @@ From(58, <<122, 120, 99, 118, 96, 97, 98, 100, 101, 109, 103, 111>>)
    @@ From(74, <<115, 116, 117, 119, 121, 124, 123, 125, 126>>)
    @@ From(84, <<75, 67, 78, 69, 76, 83, 84, 85, 86, 87, 88, 89, 91, 92, 82, 65>>) @@ From(103, <<81>>)
MacModifiers == From(57, <<57>>) @@ From(224, <<59, 56, 58, 55, 62, 60, 61, 54>>)

\* hid_to_cg_keycode.
MacInjected ==
    From(4, <<0, 11, 8, 2, 14, 3, 5, 4, 34, 38, 40, 37, 46, 45, 31, 35, 12, 15, 1, 17, 32, 9, 13, 7, 16, 6,
              18, 19, 20, 21, 23, 22, 26, 28, 25, 29, 36, 53, 51, 48, 49, 27, 24, 33, 30, 42>>)
    @@ From(51, <<41, 39, 50, 43, 47, 44, 57, 122, 120, 99, 118, 96, 97, 98, 100, 101, 109, 103, 111>>)
    @@ From(74, <<115, 116, 117, 119, 121, 124, 123, 125, 126>>)
    @@ From(84, <<75, 67, 78, 69, 76, 83, 84, 85, 86, 87, 88, 89, 91, 92, 82, 65>>) @@ From(103, <<81>>)
    @@ From(224, <<59, 56, 58, 55, 62, 60, 61, 54>>)

\* scan_to_hid_keycode: letters, Escape and Space.
WinCaptured ==
    From(4, <<30, 48, 46, 32, 18, 33, 34, 35, 23, 36, 37, 38, 50, 49, 24, 25, 16, 19, 31, 20, 22, 47, 17, 45,
              21, 44>>) @@ From(41, <<1>>) @@ From(44, <<57>>)

\* hid_to_scancode.
WinInjected ==
    From(4, <<30, 48, 46, 32, 18, 33, 34, 35, 23, 36, 37, 38, 50, 49, 24, 25, 16, 19, 31, 20, 22, 47, 17, 45,
              21, 44, 2, 3, 4, 5, 6, 7, 8, 9, 10, 11, 28, 1, 14, 15, 57, 12, 13, 26, 27, 43>>)
    @@ From(51, <<39, 40, 41, 51, 52, 53, 58, 59, 60, 61, 62, 63, 64, 65, 66, 67, 68, 87, 88>>)
    @@ From(74, <<71, 73, 83, 79, 81, 77, 75, 80, 72>>)
    @@ From(84, <<53, 55, 74, 78, 28, 79, 80, 81, 75, 76, 77, 71, 72, 73, 82, 83>>)
    @@ From(224, <<29, 42, 56, 91, 29, 54, 56, 92>>)

\* Without KEYEVENTF_EXTENDEDKEY.
NeverExtended(h) == 0

\* hid_uses_extended_scancode.
Extended(h) == IF h \in (74..84) \cup {88, 227, 228, 230, 231} THEN 1 ELSE 0

\* The usage of a captured native code, none when the table has none.
Usages(platform, code) ==
    {h \in DOMAIN (IF platform = "macos" THEN MacCaptured @@ MacModifiers ELSE WinCaptured) :
        (IF platform = "macos" THEN MacCaptured @@ MacModifiers ELSE WinCaptured)[h] = code}

\* The native key of a usage: a CGKeyCode, or a scan code with its extended flag.
NativeKeys(platform, h) ==
    IF platform = "macos" THEN {<<"key", MacInjected[x], 0>> : x \in {h} \cap DOMAIN MacInjected}
    ELSE {<<"key", WinInjected[x], Extended(x)>> : x \in {h} \cap DOMAIN WinInjected}

-----------------------------------------------------------------------------
\* plan_capture_event_with_mode of both platforms. Controls are <<"key", native
\* code, 0>> and <<"button", n, 0>>; a suppressed Mac reports motion as relative.
Planned(c, down) ==
    IF c[1] = "button" THEN {[kind |-> "button", code |-> c[2], down |-> down]}
    ELSE {[kind |-> "key", code |-> h, down |-> down] : h \in Usages(sourceOS, c[2])}

\* capture_callback passes on what it cannot translate; the Windows hook swallows
\* it as well while suppressed.
PassesLocally(c) == ~suppressed \/ (sourceOS = "macos" /\ Planned(c, TRUE) = {})

KeyInit ==
    /\ sourceOS \in {"macos", "windows"} /\ target \in {"macos", "windows"}
    /\ suppressed = FALSE /\ physical = {} /\ since = {} /\ localOS = {}
    /\ route = <<>> /\ remoteOS = {} /\ buttons = <<>>
    /\ motion = [drag |-> -1, held |-> {}]
    /\ screens \in SUBSET Displays \ {{}} /\ pointer = <<0, 0>>
    /\ touches = 0 /\ postFaults = 0

Controls == {<<"key", c, 0>> : c \in SourceKeys[sourceOS]} \cup {<<"button", b, 0>> : b \in {0, 1}}

\* The user presses or releases; the session forwards while control is remote.
Touch(c) ==
    /\ touches < MaxTouches
    /\ LET down == c \notin physical
       IN  /\ physical' = IF down THEN physical \cup {c} ELSE physical \ {c}
           /\ since' = IF down /\ suppressed THEN since \cup {c} ELSE since \ {c}
           /\ localOS' = IF ~PassesLocally(c) THEN localOS
                         ELSE IF down THEN localOS \cup {c} ELSE localOS \ {c}
           /\ IF suppressed /\ Planned(c, down) # {}
              THEN \E e \in Planned(c, down) : route' = Append(route, e)
              ELSE route' = route
    /\ touches' = touches + 1
    /\ UNCHANGED <<sourceOS, target, suppressed, remoteOS, buttons, motion, screens, pointer, postFaults>>

\* Motion in units of half the desktop; relative from a Mac, absolute from Windows.
Move ==
    /\ suppressed /\ touches < MaxTouches
    /\ \E x, y \in {-1, 2} :
          route' = Append(route, [kind |-> IF sourceOS = "macos" THEN "relative" ELSE "absolute",
                                  code |-> x, down |-> y > 0])
    /\ touches' = touches + 1
    /\ UNCHANGED <<sourceOS, target, suppressed, physical, since, localOS, remoteOS, buttons, motion, screens,
                   pointer, postFaults>>

Suppress ==
    /\ ~suppressed
    /\ suppressed' = TRUE
    /\ UNCHANGED <<sourceOS, target, physical, since, localOS, route, remoteOS, buttons, motion, screens, pointer,
                   touches, postFaults>>

-----------------------------------------------------------------------------
Lesser(a, b) == IF a < b THEN a ELSE b
Greater(a, b) == IF a > b THEN a ELSE b
Clamped(v, lo, hi) == Greater(lo, Lesser(v, hi))

\* union_display_bounds: the smallest rectangle over all displays.
DesktopBounds ==
    LET x0 == CHOOSE v \in {s.x : s \in screens} : \A s \in screens : v <= s.x
        y0 == CHOOSE v \in {s.y : s \in screens} : \A s \in screens : v <= s.y
        x1 == CHOOSE v \in {s.x + s.w : s \in screens} : \A s \in screens : v >= s.x + s.w
        y1 == CHOOSE v \in {s.y + s.h : s \in screens} : \A s \in screens : v >= s.y + s.h
    IN  [x |-> x0, y |-> y0, w |-> Greater(x1 - x0, 1), h |-> Greater(y1 - y0, 1)]

\* normalized_point_in_bounds and moved_point_in_bounds, in halves of the desktop.
PointFor(e) ==
    LET b  == DesktopBounds
        dy == IF e.down THEN 1 ELSE -1
    IN  IF e.kind = "absolute"
        THEN <<b.x + (Clamped(e.code, 0, 2) * (b.w - 1)) \div 2, b.y + (Clamped(dy, 0, 2) * (b.h - 1)) \div 2>>
        ELSE <<Clamped(pointer[1] + (e.code * b.w) \div 2, b.x, b.x + b.w - 1),
               Clamped(pointer[2] + (dy * b.h) \div 2, b.y, b.y + b.h - 1)>>

\* update_pressed_buttons: pressed once, released wherever it is.
PressedAfter(seq, b, down) ==
    IF down THEN (IF Contains(seq, b) THEN seq ELSE Append(seq, b)) ELSE Remove(seq, b)

\* motion_event_type: a drag of the button pressed last.
HeldButton == IF buttons = <<>> THEN -1 ELSE Last(buttons)

\* What the native call makes of an event: the control it presses or releases, none
\* when the injector returns an error (unknown key; relative motion on Windows).
Natives(e) ==
    CASE e.kind = "key"      -> NativeKeys(target, e.code)
      [] e.kind = "button"   -> {<<"button", e.code, 0>>}
      [] e.kind = "absolute" -> {<<"motion", 0, 0>>}
      [] e.kind = "relative" -> IF target = "macos" THEN {<<"motion", 0, 0>>} ELSE {}

Inject ==
    /\ route # <<>>
    /\ LET e == Head(route)
       IN  IF Natives(e) = {} THEN UNCHANGED <<remoteOS, buttons, motion, pointer>>
           ELSE \E n \in Natives(e) :
                IF n[1] = "motion"
                THEN /\ pointer' = PointFor(e)
                     /\ motion' = [drag |-> HeldButton, held |-> {c[2] : c \in {r \in remoteOS : r[1] = "button"}}]
                     /\ UNCHANGED <<remoteOS, buttons>>
                ELSE /\ remoteOS' = IF e.down THEN remoteOS \cup {n} ELSE remoteOS \ {n}
                     /\ buttons' = IF e.kind = "button" THEN PressedAfter(buttons, e.code, e.down) ELSE buttons
                     /\ UNCHANGED <<motion, pointer>>
    /\ route' = Tail(route)
    /\ UNCHANGED <<sourceOS, target, suppressed, physical, since, localOS, screens, touches, postFaults>>

\* CGEventCreate* returns null or SendInput sends nothing: an error, and the state
\* of the buttons is not touched.
PostFails ==
    /\ route # <<>> /\ postFaults < MaxPostFaults
    /\ route' = Tail(route) /\ postFaults' = postFaults + 1
    /\ UNCHANGED <<sourceOS, target, suppressed, physical, since, localOS, remoteOS, buttons, motion, screens,
                   pointer, touches>>

\* The user plugs a display in or out; the system moves the pointer as it likes.
ChangeScreens ==
    /\ route # <<>> /\ Head(route).kind \in {"relative", "absolute"}
    /\ screens' \in SUBSET Displays \ {{}, screens}
    /\ UNCHANGED <<sourceOS, target, suppressed, physical, since, localOS, route, remoteOS, buttons, motion,
                   pointer, touches, postFaults>>

KeyNext ==
    \/ \E c \in Controls : Touch(c)
    \/ Move \/ Suppress \/ Inject \/ PostFails \/ ChangeScreens

-----------------------------------------------------------------------------
KeyTypeOK ==
    /\ physical \subseteq Controls /\ since \subseteq physical /\ localOS \subseteq Controls
    /\ touches \in 0..MaxTouches /\ postFaults \in 0..MaxPostFaults

\* The native controls a held control should hold on the target.
Expected(c) == UNION {Natives(e) : e \in Planned(c, TRUE)}

\* Once everything is injected, the target holds exactly the controls the user has
\* been holding since control left: none is stuck, none released early, and two
\* keys are never taken for one. Between two Macs, or two Windows machines, each
\* key is the very same key.
TargetHoldsWhatTheUserHolds ==
    route = <<>> /\ postFaults = 0 =>
       /\ remoteOS = UNION {Expected(c) : c \in since}
       /\ \A c, d \in since : c # d => Expected(c) \cap Expected(d) = {}
       /\ sourceOS = target => \A n \in remoteOS : n[1] = "key" => \E c \in since : c[2] = n[2]

\* What the user holds is held by one of the two systems at least: only the Windows
\* hook swallows a key it does not forward.
EveryPressReachesASystem ==
    \A c \in physical : c \in localOS \/ Planned(c, TRUE) # {} \/ (sourceOS = "windows" /\ suppressed)

\* A motion is posted as a drag exactly when a button is held there, and of a
\* button that is.
DragsMatchButtons ==
    postFaults = 0 =>
       /\ motion.drag = -1 <=> motion.held = {}
       /\ motion.drag # -1 => motion.drag \in motion.held

\* Keys, buttons and drags between two platforms.
NativeInputFaithful ==
    KeyTypeOK /\ TargetHoldsWhatTheUserHolds /\ EveryPressReachesASystem /\ DragsMatchButtons
=============================================================================
