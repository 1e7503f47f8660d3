----------------------------- MODULE MeshRoutes -----------------------------
(***************************************************************************)
(* The decentralised mesh (crates/network/src/mesh.rs): trusted devices,   *)
(* the links observed between them, and the route planner.  route borrows  *)
(* the graph, so nothing changes it while a search runs; the search itself *)
(* is one step per node taken from the queue, because what it returns      *)
(* depends on nodes being queued again when a cheaper way to them turns up.*)
(***************************************************************************)
EXTENDS Integers, Sequences, FiniteSets, SequencesExt

CONSTANTS
    MeshDevices,   \* device ids
    Observations,  \* edges that may be recorded: [a, b, cost, encrypted]
    Populations,   \* initial nodes: device -> [trust, online], or absent from the domain
    Queries,       \* the routes asked for: <<from, to, encryption required>>
    MaxMeshEdges,  \* bound on the edges a behaviour records
    MaxMeshEdits   \* bound on the edits after the first search

ASSUME MeshConstants ==
    /\ Observations \subseteq [a : MeshDevices, b : MeshDevices, cost : Nat, encrypted : BOOLEAN]
    /\ MaxMeshEdges \in Nat /\ MaxMeshEdits \in Nat
    /\ \A p \in Populations : DOMAIN p \subseteq MeshDevices

VARIABLES
    nodes,     \* MeshRouter::nodes
    edges,     \* MeshRouter::edges
    search,    \* the running route_with_policy, or {}
    answer,    \* what the last search returned, until the graph changes: {} or {[...]}
    meshEdits

meshVars == <<nodes, edges, search, answer, meshEdits>>

Levels == {"Untrusted", "TrustedDevice", "TrustedRouter"}

-----------------------------------------------------------------------------
IsOnline(d)    == d \in DOMAIN nodes /\ nodes[d].online
CanEndpoint(d) == IsOnline(d) /\ nodes[d].trust \in {"TrustedDevice", "TrustedRouter"}

\* Any device that is reachable may forward.
CanForwardAny(d) == IsOnline(d)

\* node_can_forward
CanForward(d) == IsOnline(d) /\ nodes[d].trust = "TrustedRouter"

\* MeshEdge::other and same_pair: an edge has no direction.
Ends(e) == {e.a, e.b}
OtherDevice(e, d) == IF e.a = d THEN e.b ELSE e.a

\* usable_edges, in the order they are stored.
UsableEdges(d, encrypted) ==
    SelectSeq(edges, LAMBDA e : (encrypted => e.encrypted) /\ d \in Ends(e) /\ IsOnline(OtherDevice(e, d)))

-----------------------------------------------------------------------------
MeshInit ==
    /\ nodes \in Populations
    /\ edges = <<>> /\ search = {} /\ answer = {} /\ meshEdits = 0

\* An edit of the graph: what was answered is about an older one.
Edited ==
    /\ search = {} /\ answer' = {} /\ UNCHANGED search
    /\ IF answer = {} THEN UNCHANGED meshEdits ELSE meshEdits < MaxMeshEdits /\ meshEdits' = meshEdits + 1

UpsertNode(d, n) ==
    /\ Edited /\ answer # {}
    /\ nodes' = [x \in DOMAIN nodes \cup {d} |-> IF x = d THEN n ELSE nodes[x]]
    /\ UNCHANGED edges

UpsertEdge(e) ==
    LET known == {i \in DOMAIN edges : Ends(edges[i]) = Ends(e)}
    IN  /\ Edited
        /\ edges' = IF known # {} THEN [edges EXCEPT ![CHOOSE i \in known : \A j \in known : i <= j] = e]
                    ELSE Append(edges, e)
        /\ Len(edges') <= MaxMeshEdges
        /\ known # {} => answer # {}
        /\ UNCHANGED nodes

\* route_with_policy up to its loop; an endpoint that may not take part ends it.
StartRoute(from, to, encrypted) ==
    /\ search = {} /\ answer = {} /\ edges # <<>>
    /\ IF CanEndpoint(from) /\ CanEndpoint(to)
       THEN /\ search' = {[from |-> from, to |-> to, encrypted |-> encrypted, queue |-> <<from>>,
                           best |-> [d \in {from} |-> 0], prev |-> <<>>]}
            /\ UNCHANGED answer
       ELSE /\ answer' = {[from |-> from, to |-> to, encrypted |-> encrypted, path |-> <<>>, cost |-> 0]}
            /\ UNCHANGED search
    /\ UNCHANGED <<nodes, edges, meshEdits>>

\* One edge of the inner loop.
Relax(s, current, e) ==
    LET next == OtherDevice(e, current)
        cost == s.best[current] + e.cost
    IN  IF (next # s.to /\ ~CanForward(next)) \/ (next \in DOMAIN s.best /\ cost >= s.best[next])
        THEN s
        ELSE [s EXCEPT !.best = [d \in DOMAIN @ \cup {next} |-> IF d = next THEN cost ELSE @[d]],
                       !.prev = [d \in DOMAIN @ \cup {next} |-> IF d = next THEN current ELSE @[d]],
                       !.queue = Append(@, next)]

\* One turn of the loop: every usable edge of the node at the front.  The cost
\* of that node was read before the edges were looked at; a self-edge cannot lower it.
Explore ==
    \E s \in search :
        LET current == Head(s.queue)
        IN  /\ s.queue # <<>>
            /\ search' = {FoldLeft(LAMBDA acc, e : Relax(acc, current, e), [s EXCEPT !.queue = Tail(@)],
                                   UsableEdges(current, s.encrypted))}
            /\ UNCHANGED <<nodes, edges, answer, meshEdits>>

\* reconstruct_path: back along the predecessors; <<>> if they loop or end.
PathTo(s) ==
    LET Back[n \in 1..(Cardinality(MeshDevices) + 1)] ==
            IF n = 1 THEN <<s.to>>
            ELSE LET p == Back[n - 1]
                 IN  IF p = <<>> \/ Head(p) = s.from THEN p
                     ELSE IF Head(p) \notin DOMAIN s.prev \/ Head(p) \in Range(Tail(p)) THEN <<>>
                     ELSE <<s.prev[Head(p)]>> \o p
        p == Back[Cardinality(MeshDevices) + 1]
    IN  IF p # <<>> /\ Head(p) = s.from THEN p ELSE <<>>

Finish ==
    \E s \in search :
        /\ s.queue = <<>>
        /\ LET p == IF s.to \in DOMAIN s.best THEN PathTo(s) ELSE <<>>
           IN  answer' = {[from |-> s.from, to |-> s.to, encrypted |-> s.encrypted, path |-> p,
                           cost |-> IF p = <<>> THEN 0 ELSE s.best[s.to]]}
        /\ search' = {}
        /\ UNCHANGED <<nodes, edges, meshEdits>>

MeshNext ==
    \/ \E d \in MeshDevices, t \in Levels, o \in BOOLEAN : UpsertNode(d, [trust |-> t, online |-> o])
    \/ \E e \in Observations : UpsertEdge(e)
    \/ \E q \in Queries : StartRoute(q[1], q[2], q[3])
    \/ Explore
    \/ Finish

-----------------------------------------------------------------------------
\* The paths the documentation allows: each device once, both ends paired and
\* online, every device between them a router, an edge between neighbours.
Joins(a, b, encrypted) == {e \in Range(edges) : Ends(e) = {a, b} /\ (encrypted => e.encrypted)}

Paths(from, to, encrypted) ==
    {p \in UNION {[1..n -> DOMAIN nodes] : n \in 1..Cardinality(MeshDevices)} :
        /\ p[1] = from /\ p[Len(p)] = to
        /\ \A d \in {from, to} : nodes[d].online /\ nodes[d].trust # "Untrusted"
        /\ \A i, j \in DOMAIN p : p[i] = p[j] => i = j
        /\ \A i \in 2..(Len(p) - 1) : nodes[p[i]] = [trust |-> "TrustedRouter", online |-> TRUE]
        /\ \A i \in 1..(Len(p) - 1) : Joins(p[i], p[i + 1], encrypted) # {}}

CostOf(p, encrypted) ==
    FoldLeft(LAMBDA acc, i : acc + (CHOOSE e \in Joins(p[i], p[i + 1], encrypted) : TRUE).cost,
             0, [i \in 1..(Len(p) - 1) |-> i])

MeshTypeOK ==
    /\ \A d \in DOMAIN nodes : nodes[d] \in [trust : Levels, online : BOOLEAN]
    /\ Range(edges) \subseteq Observations
    /\ Cardinality(search) <= 1 /\ Cardinality(answer) <= 1 /\ (search = {} \/ answer = {})

\* A pair of devices is joined by at most one stored edge: the cost and the
\* encryption the planner sees are those of the last observation of the link.
OneEdgePerLink == \A i, j \in DOMAIN edges : Ends(edges[i]) = Ends(edges[j]) => i = j

\* What the planner returns is a cheapest of the allowed paths, with the cost
\* it reports, and it returns nothing only when there is none: no device that is
\* only paired, or not online, ever forwards, and no plain link is crossed when
\* encryption is required.
CheapestTrustedRoute ==
    \A r \in answer :
        LET allowed == Paths(r.from, r.to, r.encrypted)
        IN  IF r.path = <<>> THEN allowed = {}
            ELSE /\ r.path \in allowed
                 /\ r.cost = CostOf(r.path, r.encrypted)
                 /\ \A p \in allowed : r.cost <= CostOf(p, r.encrypted)

\* The graph and every route the search returns from it.
MeshSound == MeshTypeOK /\ OneEdgePerLink /\ CheapestTrustedRoute
=============================================================================
