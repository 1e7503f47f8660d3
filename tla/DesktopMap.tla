----------------------------- MODULE DesktopMap -----------------------------
(***************************************************************************)
(* Where devices lie relative to each other and what the pointer does at   *)
(* an edge (crates/input/src): the spatial map and its editor              *)
(* (topology.rs), monitors (monitor.rs), the boundary detector             *)
(* (boundary.rs), the pointer's trip to a peer and back (share.rs) and the *)
(* navigator over the whole map (navigation.rs). Fractions of a screen are *)
(* counted in units of 1/Unit.                                             *)
(***************************************************************************)
EXTENDS Integers, Sequences, FiniteSets, SequencesExt

CONSTANTS
    MapDevices, LocalDevice,
    LayoutOf,      \* device -> its monitors, a sequence of [x, y, w, h]
    Origins,       \* where the editor may put a device
    MaxGap,        \* pixels a neighbour may be away (24 in edge_links_for)
    Unit,          \* 1.0
    Viewport,      \* [w, h, padding] of the preview
    MaxMapCalls    \* bound: edits of the map

ASSUME MapConstants ==
    /\ LocalDevice \in MapDevices /\ Unit \in Nat \ {0} /\ MaxGap \in Nat /\ MaxMapCalls \in Nat
    /\ \A d \in MapDevices : LayoutOf[d] # <<>>

VARIABLES
    places,     \* SpatialDesktopMap::placements: [dev, x, y, online]
    edgeLinks,  \* BoundaryDetector::links: edge -> {} or {peer}
    mapCursor,   \* MouseShareController::focus: {} is Local, else {[peer, via]}
    virtual,    \* virtual_pos
    trip,       \* history: [at, slid]: where the pointer left, did it move along the edge since
    seen,       \* what the last call returned, {} for nothing
    edits

mapVars == <<places, edgeLinks, mapCursor, virtual, trip, seen, edits>>

Edges == {"Left", "Right", "Top", "Bottom"}
Across == [Left |-> "Right", Right |-> "Left", Top |-> "Bottom", Bottom |-> "Top"]
Sideways(e) == e \in {"Left", "Right"}
Low(a, b) == IF a < b THEN a ELSE b
High(a, b) == IF a > b THEN a ELSE b
Within(v, lo, hi) == High(lo, Low(v, hi))

-----------------------------------------------------------------------------
\* DisplayRect.
RightOf(r) == r.x + r.w
BottomOf(r) == r.y + r.h
InsideRect(r, p) == p[1] >= r.x /\ p[1] < RightOf(r) /\ p[2] >= r.y /\ p[2] < BottomOf(r)

\* bounding_box of MonitorLayout and of SpatialDesktopMap.
BoundingBox(rects) ==
    LET x0 == CHOOSE v \in {r.x : r \in rects} : \A r \in rects : v <= r.x
        y0 == CHOOSE v \in {r.y : r \in rects} : \A r \in rects : v <= r.y
        x1 == CHOOSE v \in {RightOf(r) : r \in rects} : \A r \in rects : v >= RightOf(r)
        y1 == CHOOSE v \in {BottomOf(r) : r \in rects} : \A r \in rects : v >= BottomOf(r)
    IN  [x |-> x0, y |-> y0, w |-> x1 - x0, h |-> y1 - y0]

LocalBounds == BoundingBox(Range(LayoutOf[LocalDevice]))

\* map_monitors and map_bounds: a device's rectangles moved to its origin.
MapMonitors(p) == {[r EXCEPT !.x = @ + p.x, !.y = @ + p.y] : r \in Range(LayoutOf[p.dev])}
MapBounds(p) == BoundingBox(MapMonitors(p))

\* distance_between and axis_overlap along an edge of `a` towards `b`.
GapTo(a, b, e) ==
    CASE e = "Left"   -> a.x - RightOf(b)
      [] e = "Right"  -> b.x - RightOf(a)
      [] e = "Top"    -> a.y - BottomOf(b)
      [] e = "Bottom" -> b.y - BottomOf(a)
Overlap(a, b, e) ==
    IF Sideways(e) THEN Low(BottomOf(a), BottomOf(b)) - High(a.y, b.y)
    ELSE Low(RightOf(a), RightOf(b)) - High(a.x, b.x)

\* Only one end of the two edges compared.
CandidateByOrigin(a, b, e) == GapTo(a, b, e) \in 0..MaxGap /\ IF Sideways(e) THEN b.y >= a.y ELSE b.x >= a.x

\* edge_candidate: on that side, close enough, and side by side.
Candidate(a, b, e) == GapTo(a, b, e) \in 0..MaxGap /\ Overlap(a, b, e) > 0

\* best_neighbor_for_edge: the longest overlap, then the smallest gap, then the
\* last in the map (max_by_key).
BestNeighbour(i, e) ==
    LET a == MapBounds(places[i])
        B(j) == MapBounds(places[j])
        ok == {j \in DOMAIN places : j # i /\ Candidate(a, B(j), e)}
        Beats(j, k) == \/ Overlap(a, B(j), e) > Overlap(a, B(k), e)
                       \/ Overlap(a, B(j), e) = Overlap(a, B(k), e) /\ GapTo(a, B(j), e) < GapTo(a, B(k), e)
                       \/ /\ Overlap(a, B(j), e) = Overlap(a, B(k), e) /\ GapTo(a, B(j), e) = GapTo(a, B(k), e)
                          /\ j >= k
    IN  {places[j].dev : j \in {k \in ok : \A l \in ok : Beats(k, l)}}

\* monitor_previews: one scale, the smaller of what width and height allow.
PreviewScale(b) ==
    LET W == Viewport.w - 2 * Viewport.padding
        H == Viewport.h - 2 * Viewport.padding
    IN  IF W * b.h <= H * b.w THEN [num |-> W, den |-> b.w] ELSE [num |-> H, den |-> b.h]

IndexOf(dev) == CHOOSE i \in DOMAIN places : places[i].dev = dev
Placed(dev) == \E i \in DOMAIN places : places[i].dev = dev

\* suggested_edge_links.
SuggestedLinks(dev) == [e \in Edges |-> IF Placed(dev) THEN BestNeighbour(IndexOf(dev), e) ELSE {}]

-----------------------------------------------------------------------------
MapInit ==
    /\ places = <<[dev |-> LocalDevice, x |-> 0, y |-> 0, online |-> TRUE]>>
    /\ edgeLinks = [e \in Edges |-> {}]
    /\ mapCursor = {} /\ virtual = <<0, 0>> /\ trip = [at |-> <<0, 0>>, slid |-> FALSE]
    /\ seen = {} /\ edits = 0

Edit == edits < MaxMapCalls /\ edits' = edits + 1 /\ seen' = {} /\ mapCursor = {} /\ UNCHANGED <<mapCursor, virtual, trip>>

\* set_device.
Upsert(p) ==
    /\ Edit
    /\ places' = IF Placed(p.dev) THEN [places EXCEPT ![IndexOf(p.dev)] = p] ELSE Append(places, p)
    /\ UNCHANGED edgeLinks

MoveDevice(dev, o) ==
    /\ Edit /\ Placed(dev)
    /\ places' = [places EXCEPT ![IndexOf(dev)].x = o[1], ![IndexOf(dev)].y = o[2]]
    /\ UNCHANGED edgeLinks

RemoveDevice(dev) ==
    /\ Edit /\ Placed(dev) /\ dev # LocalDevice
    /\ places' = RemoveAt(places, IndexOf(dev))
    /\ UNCHANGED edgeLinks

\* set_links(edge_links_for(local)).
SetLinks ==
    /\ edgeLinks # SuggestedLinks(LocalDevice) /\ mapCursor = {}
    /\ edgeLinks' = SuggestedLinks(LocalDevice) /\ seen' = {}
    /\ UNCHANGED <<places, mapCursor, virtual, trip, edits>>

-----------------------------------------------------------------------------
\* The edge a point is beyond (detect, crossed_edge): horizontal first.
CrossedEdge(r, p) ==
    IF p[1] < r.x THEN {"Left"} ELSE IF p[1] >= RightOf(r) THEN {"Right"}
    ELSE IF p[2] < r.y THEN {"Top"} ELSE IF p[2] >= BottomOf(r) THEN {"Bottom"} ELSE {}

\* entry_for: how far along the edge, from 0 to Unit.
EntryFor(r, e, p) ==
    IF Sideways(e) THEN Within(((p[2] - r.y) * Unit) \div High(r.h, 1), 0, Unit)
    ELSE Within(((p[1] - r.x) * Unit) \div High(r.w, 1), 0, Unit)

\* peer_entry_for: in from the opposite edge of the peer.
PeerEntry(e, entry) ==
    CASE e = "Right" -> <<0, entry>> [] e = "Left" -> <<Unit, entry>>
      [] e = "Top" -> <<entry, Unit>> [] e = "Bottom" -> <<entry, 0>>

\* on_local_cursor.
LocalCursor(p) ==
    /\ mapCursor = {}
    /\ \E e \in CrossedEdge(LocalBounds, p) : \E peer \in edgeLinks[e] :
          LET entry == PeerEntry(e, EntryFor(LocalBounds, e, p))
          IN  /\ mapCursor' = {[peer |-> peer, via |-> e]} /\ virtual' = entry
              /\ trip' = [at |-> p, slid |-> FALSE]
    /\ seen' = {} /\ UNCHANGED <<places, edgeLinks, edits>>

\* denormalize without the last pixel's guard.
DenormalizeUnclamped(r, n) ==
    <<r.x + (2 * n[1] * r.w + Unit) \div (2 * Unit), r.y + (2 * n[2] * r.h + Unit) \div (2 * Unit)>>

\* denormalize: rounded, and never past the last pixel.
Denormalize(r, n) ==
    <<Low(r.x + (2 * n[1] * r.w + Unit) \div (2 * Unit), RightOf(r) - 1),
      Low(r.y + (2 * n[2] * r.h + Unit) \div (2 * Unit), BottomOf(r) - 1)>>

\* return_point: back over the edge the pointer entered by.
ReturnPoint(via, n) ==
    CASE via = "Right" /\ n[1] < 0     -> {<<Unit, Within(n[2], 0, Unit)>>}
      [] via = "Left" /\ n[1] > Unit   -> {<<0, Within(n[2], 0, Unit)>>}
      [] via = "Top" /\ n[2] > Unit    -> {<<Within(n[1], 0, Unit), 0>>}
      [] via = "Bottom" /\ n[2] < 0    -> {<<Within(n[1], 0, Unit), Unit>>}
      [] OTHER                         -> {}

\* on_remote_motion: forwarded, or home.
RemoteMotion(dx, dy) ==
    \E f \in mapCursor :
       LET n    == <<virtual[1] + dx, virtual[2] + dy>>
           home == ReturnPoint(f.via, n)
           slid == trip.slid \/ (IF Sideways(f.via) THEN dy # 0 ELSE dx # 0)
       IN  /\ IF home # {}
              THEN /\ mapCursor' = {} /\ virtual' = <<0, 0>>
                   /\ seen' = {[kind |-> "home", edge |-> f.via, peer |-> f.peer, at |-> Denormalize(LocalBounds, r),
                                from |-> trip.at, straight |-> ~slid] : r \in home}
                   /\ trip' = [at |-> <<0, 0>>, slid |-> FALSE]
              ELSE /\ virtual' = <<Within(n[1], 0, Unit), Within(n[2], 0, Unit)>>
                   /\ trip' = [trip EXCEPT !.slid = slid]
                   /\ seen' = {} /\ UNCHANGED mapCursor
           /\ UNCHANGED <<places, edgeLinks, edits>>

ReleaseRemote ==
    /\ mapCursor # {}
    /\ mapCursor' = {} /\ virtual' = <<0, 0>> /\ seen' = {} /\ trip' = [at |-> <<0, 0>>, slid |-> FALSE]
    /\ UNCHANGED <<places, edgeLinks, edits>>

-----------------------------------------------------------------------------
\* nearest_online_neighbor: the smallest gap on that side, the first of equals.
NearestOnline(i, e) ==
    LET a  == MapBounds(places[i])
        G(j) == GapTo(a, MapBounds(places[j]), e)
        ok == {j \in DOMAIN places : j # i /\ places[j].online /\ G(j) >= 0}
    IN  {j \in ok : \A k \in ok : G(j) < G(k) \/ (G(j) = G(k) /\ j <= k)}

\* landing_point.
LandingPoint(r, e, p) ==
    CASE e = "Left"   -> <<RightOf(r) - 1, Within(p[2], r.y, BottomOf(r) - 1)>>
      [] e = "Right"  -> <<r.x, Within(p[2], r.y, BottomOf(r) - 1)>>
      [] e = "Top"    -> <<Within(p[1], r.x, RightOf(r) - 1), BottomOf(r) - 1>>
      [] e = "Bottom" -> <<Within(p[1], r.x, RightOf(r) - 1), r.y>>

\* InfiniteDesktopNavigator::transition_for.
Transitions(dev, p) ==
    LET i == IndexOf(dev)
    IN  UNION {{[kind |-> "landing", edge |-> e, peer |-> places[j].dev,
                 at |-> LandingPoint(MapBounds(places[j]), e, p), from |-> p, straight |-> TRUE] :
                   j \in NearestOnline(i, e)} : e \in CrossedEdge(MapBounds(places[i]), p)}

CrossDesktop(p) ==
    /\ mapCursor = {} /\ Placed(LocalDevice)
    /\ Transitions(LocalDevice, p) # {}
    /\ seen' = Transitions(LocalDevice, p)
    /\ UNCHANGED <<places, edgeLinks, mapCursor, virtual, trip, edits>>

Points == {<<x, y>> : x \in (LocalBounds.x - 1)..RightOf(LocalBounds), y \in (LocalBounds.y - 1)..BottomOf(LocalBounds)}

MapNext ==
    \/ \E d \in MapDevices \ {LocalDevice}, o \in Origins, b \in BOOLEAN :
          Upsert([dev |-> d, x |-> o[1], y |-> o[2], online |-> b])
    \/ \E d \in MapDevices : \E o \in Origins : MoveDevice(d, o)
    \/ \E d \in MapDevices : RemoveDevice(d)
    \/ SetLinks \/ ReleaseRemote
    \/ \E p \in Points : LocalCursor(p) \/ CrossDesktop(p)
    \/ \E dx, dy \in {-1, 0, 1} : RemoteMotion(dx, dy)

-----------------------------------------------------------------------------
MapTypeOK ==
    /\ \A i, j \in DOMAIN places : places[i].dev = places[j].dev => i = j
    /\ \A f \in mapCursor : f.peer \in MapDevices \ {LocalDevice} /\ f.via \in Edges
    /\ virtual \in (0..Unit) \X (0..Unit)

\* Wherever the editor says the pointer can leave for a peer, the editor of that
\* peer says it can come back over the facing edge.
LinksAreMutual ==
    mapCursor = {} /\ seen = {} =>
    \A i \in DOMAIN places : \A e \in Edges : \A peer \in SuggestedLinks(places[i].dev)[e] :
       SuggestedLinks(peer)[Across[e]] # {}

\* A pointer that comes home is put on the local desktop, at the edge it left by,
\* so that the detector does not send it away again; if it has not moved along
\* the edge it is where it left.
ComesHome ==
    \A s \in seen : s.kind = "home" =>
       /\ CrossedEdge(LocalBounds, s.at) = {}
       /\ \E step \in {<<-1, 0>>, <<1, 0>>, <<0, -1>>, <<0, 1>>} :
             CrossedEdge(LocalBounds, <<s.at[1] + step[1], s.at[2] + step[2]>>) = {s.edge}
       /\ s.straight /\ Sideways(s.edge) =>
             s.at[2] = Within(s.from[2], LocalBounds.y, BottomOf(LocalBounds) - 1)
       /\ s.straight /\ ~Sideways(s.edge) => s.at[1] = s.from[1]

\* The navigator lands inside an online peer, at the edge facing the one crossed,
\* with no other online device in between on the same rows or columns; from there
\* the pointer can be taken back over that edge.
LandsOnAPeer ==
    \A s \in seen : s.kind = "landing" =>
       LET i == IndexOf(s.peer)
           r == MapBounds(places[i])
       IN  /\ places[i].online /\ InsideRect(r, s.at)
           /\ ~\E j \in DOMAIN places :
                  /\ places[j].online /\ j # i /\ places[j].dev # LocalDevice
                  /\ GapTo(MapBounds(places[IndexOf(LocalDevice)]), MapBounds(places[j]), s.edge) \in
                        0..(GapTo(MapBounds(places[IndexOf(LocalDevice)]), r, s.edge) - 1)
           /\ places[IndexOf(LocalDevice)].online => NearestOnline(i, Across[s.edge]) # {}

\* monitor_previews: everything is drawn inside the viewport.
PreviewsFit ==
    mapCursor = {} /\ seen = {} =>
       LET all == UNION {MapMonitors(places[i]) : i \in DOMAIN places}
           b   == BoundingBox(all)
           k   == PreviewScale(b)
       IN  \A r \in all :
              /\ (RightOf(r) - b.x) * k.num <= (Viewport.w - 2 * Viewport.padding) * k.den
              /\ (BottomOf(r) - b.y) * k.num <= (Viewport.h - 2 * Viewport.padding) * k.den

\* The map and the pointer's ways over it after any edits.
DesktopMapSound == MapTypeOK /\ LinksAreMutual /\ ComesHome /\ LandsOnAPeer /\ PreviewsFit
=============================================================================
