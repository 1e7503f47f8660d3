----------------------------- MODULE Workspace -----------------------------
(***************************************************************************)
(* The shared workspace (crates/core/src/workspace.rs): devices placed in  *)
(* one virtual desktop, window snapping, spatial navigation and throwing   *)
(* across them, and the shared memory with its search.  Coordinates are    *)
(* small integers; a throw goes along an axis or a diagonal, so that the   *)
(* slab method needs no fractions, and its reach is the inertial distance  *)
(* v^2 / 2a in the units of its direction.                                 *)
(***************************************************************************)
EXTENDS Integers, Sequences, FiniteSets, FiniteSetsExt

CONSTANTS
    WsDevices,    \* devices
    Placements,   \* rectangles a device may have in the virtual desktop
    Reaches,      \* how far a throw may go; those below MinReach are no throw
    MinReach,     \* ThrowConfig::min_speed as a distance
    MemoryKeys,   \* keys of the shared memory
    MaxWsCalls    \* bound on the calls of a behaviour

ASSUME WorkspaceConstants ==
    /\ Placements \subseteq [x : Int, y : Int, w : Nat, h : Nat]
    /\ Reaches \subseteq Nat /\ MinReach \in Nat /\ MaxWsCalls \in Nat

VARIABLES
    desktop,   \* UnifiedVirtualDesktop::devices, in editor order
    window,    \* the window that was snapped last: device and bounds
    cursorAt,  \* the point the user works at
    memory,    \* SharedWorkspaceMemory::entries
    wsCalls

wsVars == <<desktop, window, cursorAt, memory, wsCalls>>

-----------------------------------------------------------------------------
Right(b)  == b.x + b.w
Bottom(b) == b.y + b.h
Center(b) == [x |-> b.x + b.w \div 2, y |-> b.y + b.h \div 2]
Covers(b, p) == p.x >= b.x /\ p.x < Right(b) /\ p.y >= b.y /\ p.y < Bottom(b)
Clamp(v, lo, hi) == IF v < lo THEN lo ELSE IF v > hi THEN hi ELSE v

\* clamped_inside
ClampedInside(r, b) ==
    LET w == Min({r.w, b.w})
        h == Min({r.h, b.h})
    IN  [x |-> Clamp(r.x, b.x, Right(b) - w), y |-> Clamp(r.y, b.y, Bottom(b) - h), w |-> w, h |-> h]

Directions == {"left", "right", "up", "down"}
Opposite == [left |-> "right", right |-> "left", up |-> "down", down |-> "up"]

\* snap_rect_for: the half of b on that side.
SnapRect(b, dir) ==
    CASE dir = "left"  -> [b EXCEPT !.w = @ \div 2]
      [] dir = "right" -> [b EXCEPT !.x = @ + b.w \div 2, !.w = @ - @ \div 2]
      [] dir = "up"    -> [b EXCEPT !.h = @ \div 2]
      [] dir = "down"  -> [b EXCEPT !.y = @ + b.h \div 2, !.h = @ - @ \div 2]

HorizontalOverlap(a, b) == Max({a.x, b.x}) < Min({Right(a), Right(b)})
VerticalOverlap(a, b)   == Max({a.y, b.y}) < Min({Bottom(a), Bottom(b)})

\* horizontal_direction_matches, vertical_direction_matches
DirectionMatches(p, q, dir) ==
    CASE dir = "left"  -> q.x < p.x
      [] dir = "right" -> q.x > p.x
      [] dir = "up"    -> q.y < p.y
      [] dir = "down"  -> q.y > p.y

Abs(v) == IF v < 0 THEN -v ELSE v

\* Mutant of Gap: two devices that touch are not neighbours to the left.
GapNotTouching(from, to, dir) ==
    CASE dir = "left"  -> from.x - Right(to) - 1
      [] dir = "right" -> to.x - Right(from)
      [] dir = "up"    -> from.y - Bottom(to)
      [] dir = "down"  -> to.y - Bottom(from)

\* The distance from one edge to the facing one, negative when the devices are
\* not beside each other in that direction.
Gap(from, to, dir) ==
    CASE dir = "left"  -> from.x - Right(to)
      [] dir = "right" -> to.x - Right(from)
      [] dir = "up"    -> from.y - Bottom(to)
      [] dir = "down"  -> to.y - Bottom(from)

\* directional_distance; -1 is None.
DirectionalDistance(from, to, dir) ==
    LET overlap == IF dir \in {"left", "right"} THEN VerticalOverlap(from, to) ELSE HorizontalOverlap(from, to)
        apart   == IF dir \in {"left", "right"} THEN Center(from).x - Center(to).x ELSE Center(from).y - Center(to).y
    IN  CASE Gap(from, to, dir) >= 0 -> Gap(from, to, dir)
          [] Gap(from, to, dir) < 0 /\ overlap /\ DirectionMatches(Center(from), Center(to), dir) -> Abs(apart)
          [] OTHER -> -1

\* Position of a device in the desktop, or 0.
DeviceIndex(d) == IF \E i \in DOMAIN desktop : desktop[i].device = d
                  THEN CHOOSE i \in DOMAIN desktop : desktop[i].device = d ELSE 0

Online == {i \in DOMAIN desktop : desktop[i].online}

\* neighbor_for_direction: the nearest, the first in editor order among equals; 0 is None.
Neighbor(i, dir) ==
    LET dist(j) == DirectionalDistance(desktop[i].bounds, desktop[j].bounds, dir)
        c == {j \in Online \ {i} : dist(j) >= 0}
        nearest == {j \in c : \A k \in c : dist(j) <= dist(k)}
    IN  IF c = {} THEN 0 ELSE Min(nearest)

\* plan_window_snap for a window of the device at position i.
SnapPlan(i, dir) ==
    LET n == Neighbor(i, dir)
        t == IF n = 0 THEN i ELSE n
    IN  [to |-> t, bounds |-> ClampedInside(SnapRect(desktop[t].bounds, dir), desktop[t].bounds)]

\* device_at: the first online device that contains the point, or 0.
DeviceAt(p) == LET c == {i \in Online : Covers(desktop[i].bounds, p)}
               IN  IF c = {} THEN 0 ELSE Min(c)

\* ray_rect_intersection along dir: the steps <<near, far>>, or <<>>.
RayHits(o, dir, b) ==
    LET slab(p, d, lo, hi) ==
            CASE d = 0 -> IF p < lo \/ p > hi THEN {} ELSE {<<-1000, 1000>>}
              [] d = 1 -> {<<lo - p, hi - p>>}
              [] d = -1 -> {<<p - hi, p - lo>>}
        xs == slab(o.x, dir[1], b.x, Right(b))
        ys == slab(o.y, dir[2], b.y, Bottom(b))
    IN  {r \in {<<Max({h[1], v[1]}), Min({h[2], v[2]})>> : h \in xs, v \in ys} : r[1] <= r[2]}

\* clamp_point_to_rect
LandInside(p, b) == [x |-> Clamp(p.x, b.x, Max({Right(b) - 1, b.x})),
                     y |-> Clamp(p.y, b.y, Max({Bottom(b) - 1, b.y}))]

\* FlickPlanner::throw from the device thrower: the target and the landing point, or none.
Throw(thrower, o, dir, reach) ==
    LET hits(i) == RayHits(o, dir, desktop[i].bounds)
        ahead(i) == {r \in hits(i) : r[2] >= 0 /\ r[1] <= reach}
        c == {i \in Online : desktop[i].device # thrower /\ ahead(i) # {}}
        entry(i) == Max({0, (CHOOSE r \in hits(i) : TRUE)[1]})
        best == Min({i \in c : \A k \in c : entry(i) <= entry(k)})
        stop == Min({reach, (CHOOSE r \in hits(best) : TRUE)[2]})
    IN  IF reach < MinReach \/ c = {} THEN {}
        ELSE {[to |-> best, at |-> LandInside([x |-> o.x + dir[1] * stop, y |-> o.y + dir[2] * stop],
                                              desktop[best].bounds)]}

ThrowDirections == (-1..1) \X (-1..1) \ {<<0, 0>>}

-----------------------------------------------------------------------------
WsInit ==
    /\ desktop = <<>> /\ memory = <<>> /\ wsCalls = 0
    /\ window = {} /\ cursorAt = [x |-> 0, y |-> 0]

WsCall == wsCalls < MaxWsCalls /\ wsCalls' = wsCalls + 1

\* UnifiedVirtualDesktop::upsert: a device is placed, moved, or changes connectivity.
PlaceDevice(d, b, online) ==
    LET e == [device |-> d, bounds |-> b, online |-> online]
        i == DeviceIndex(d)
    IN  /\ WsCall
        /\ desktop' = IF i = 0 THEN Append(desktop, e) ELSE [desktop EXCEPT ![i] = e]
        /\ UNCHANGED <<window, cursorAt, memory>>

\* A window of a connected device is snapped and the plan applied.
SnapWindow(d, dir) ==
    LET i == DeviceIndex(d) IN
    /\ WsCall /\ i \in Online
    /\ \A w \in window : w.device = d
    /\ LET plan == SnapPlan(i, dir)
       IN  window' = {[device |-> desktop[plan.to].device, bounds |-> plan.bounds]}
    /\ UNCHANGED <<desktop, cursorAt, memory>>

\* SpatialNavigator::navigate
Navigate(dir) ==
    LET i == DeviceAt(cursorAt) IN
    /\ WsCall /\ i # 0 /\ Neighbor(i, dir) # 0
    /\ cursorAt' = Center(desktop[Neighbor(i, dir)].bounds)
    /\ UNCHANGED <<desktop, window, memory>>

\* A throw of the pointer.
ThrowCursor(dir, reach) ==
    LET i == DeviceAt(cursorAt) IN
    /\ WsCall /\ i # 0
    /\ \E t \in Throw(desktop[i].device, cursorAt, dir, reach) : cursorAt' = t.at
    /\ UNCHANGED <<desktop, window, memory>>

\* MemoryVisibility::permits
Permits(e, viewer) == \/ e.shared = "all"
                      \/ viewer = e.device
                      \/ e.shared = "devices" /\ viewer \in e.devices

\* SharedWorkspaceMemory::upsert and remove
Remember(k, d, vis, ds) ==
    LET e == [key |-> k, device |-> d, shared |-> vis, devices |-> ds]
        known == {i \in DOMAIN memory : memory[i].key = k}
    IN  /\ WsCall
        /\ memory' = IF known = {} THEN Append(memory, e) ELSE [memory EXCEPT ![Min(known)] = e]
        /\ UNCHANGED <<desktop, window, cursorAt>>

Forget(k) ==
    /\ WsCall /\ \E i \in DOMAIN memory : memory[i].key = k
    /\ memory' = SelectSeq(memory, LAMBDA e : e.key # k)
    /\ UNCHANGED <<desktop, window, cursorAt>>

\* SharedWorkspaceMemory::search: what a viewer finds, at most limit entries of
\* each score; the score of an entry is left to the caller.
Found(viewer, wanted) ==
    {i \in DOMAIN memory : memory[i].device \in wanted /\ Permits(memory[i], viewer)}

WsNext ==
    \/ \E d \in WsDevices, b \in Placements, o \in BOOLEAN : PlaceDevice(d, b, o)
    \/ \E d \in WsDevices, dir \in Directions : SnapWindow(d, dir)
    \/ \E dir \in Directions : Navigate(dir)
    \/ \E dir \in ThrowDirections, n \in Reaches : ThrowCursor(dir, n)
    \/ \E k \in MemoryKeys, d \in WsDevices, vis \in {"all", "devices", "local"} :
          Remember(k, d, vis, WsDevices \ {d})
    \/ \E k \in MemoryKeys : Forget(k)

-----------------------------------------------------------------------------
WsTypeOK ==
    /\ desktop \in Seq([device : WsDevices, bounds : Placements, online : BOOLEAN])
    /\ \A w \in window : w.device \in WsDevices
    /\ cursorAt \in [x : Int, y : Int]
    /\ wsCalls \in 0..MaxWsCalls

\* No dead end: whoever can leave a device in one direction finds a way back in
\* the opposite one, wherever devices are moved or disconnected, overlapping
\* and touching ones included (directional_distance).
NavigationReversible ==
    \A i \in Online, dir \in Directions :
        Neighbor(i, dir) # 0 => Neighbor(Neighbor(i, dir), Opposite[dir]) # 0

Inside(r, b) == r.x >= b.x /\ r.y >= b.y /\ Right(r) <= Right(b) /\ Bottom(r) <= Bottom(b)

\* Every plan is for a device that is connected now, and stays inside it: a
\* snapped window never straddles two screens, and the two halves of a snap
\* leave no column or row uncovered.
SnapFits ==
    \A i \in Online, dir \in Directions :
        LET p == SnapPlan(i, dir)
            b == desktop[p.to].bounds
        IN  /\ p.to \in Online /\ Inside(p.bounds, b)
            /\ IF dir \in {"left", "right"}
               THEN SnapRect(b, dir).w + SnapRect(b, Opposite[dir]).w = b.w
               ELSE SnapRect(b, dir).h + SnapRect(b, Opposite[dir]).h = b.h

\* A throw lands on a connected device other than the one it leaves, at a point
\* that device_at attributes to that device or to one lying over it, and never
\* flies over a connected device that it meets earlier (FlickPlanner::throw).
ThrowsLand ==
    \A dir \in ThrowDirections, n \in Reaches :
        LET i == DeviceAt(cursorAt) IN
        i # 0 => \A t \in Throw(desktop[i].device, cursorAt, dir, n) :
            /\ t.to \in Online \ {i}
            /\ Covers(desktop[t.to].bounds, t.at)
            /\ DeviceAt(t.at) # 0
            /\ \A s \in 0..n, j \in Online \ {i} :
                  LET p == [x |-> cursorAt.x + s * dir[1], y |-> cursorAt.y + s * dir[2]]
                  IN  Covers(desktop[j].bounds, p) =>
                          \E r \in RayHits(cursorAt, dir, desktop[t.to].bounds) : r[1] <= s

\* A key is remembered once, and what its present owner keeps local is found by
\* nobody else, although any device may take a key over (upsert).
MemoryPrivate ==
    /\ \A i, j \in DOMAIN memory : memory[i].key = memory[j].key => i = j
    /\ \A v \in WsDevices : \A i \in Found(v, WsDevices) :
          memory[i].shared = "local" => memory[i].device = v

\* The virtual desktop is coherent after every sequence of calls.
WorkspaceCoherent ==
    WsTypeOK /\ NavigationReversible /\ SnapFits /\ ThrowsLand /\ MemoryPrivate
=============================================================================
