--------------------------- MODULE ClipboardProofs ---------------------------
(***************************************************************************)
(* Proofs about the clipboard, for any devices, topologies, selections and *)
(* limits.  ClipboardSync: no echo, lost update, losing stamp or           *)
(* disagreeing clock leaves the two ends of a link silently split, and no  *)
(* secret leaves its device.  ClipboardHistory and ClipboardTimeline: what *)
(* is written can be read back and keeps its origin and its pins, and      *)
(* sharing follows retention.                                              *)
(***************************************************************************)
EXTENDS ClipboardSync, ClipboardTimeline, TLAPS, FiniteSetTheorems, WellFoundedInduction

-----------------------------------------------------------------------------
(* The inductive invariant                                                  *)

\* What one end A of a link knows, when B is the other and UA and UB are the
\* updates in flight to A and to B: A's clock has passed its selection, what
\* travels to A is no newer than what B holds, and what A holds has arrived at
\* B, was overtaken there, or is on its way.
Half(A, B, UA, UB) ==
    /\ A.rank <= A.clock
    /\ \A i \in DOMAIN UA : UA[i].rank <= B.rank
    /\ A.rank <= B.rank \/ \E i \in DOMAIN UB : A.rank <= UB[i].rank

\* The stamped selections of a link: a stamp belongs to one selection.
Stamped(A, B, UA, UB) ==
    {A, B} \cup {UA[i] : i \in DOMAIN UA} \cup {UB[i] : i \in DOMAIN UB}
OneHeld(A, B, UA, UB) ==
    \A x, y \in Stamped(A, B, UA, UB) : x.rank = y.rank => x.held = y.held

Link(A, B, UA, UB) ==
    Half(A, B, UA, UB) /\ Half(B, A, UB, UA) /\ OneHeld(A, B, UA, UB)

\* Ranks are even after every step, so that there is room above each of them.
Spaced(s) == \A r \in RanksInUse(s, resolver, updates) : r % 2 = 0

LinkOK(s) ==
    connected[s] => /\ Link(resolver[s], resolver[Back(s)], updates[s], updates[Back(s)])
                    /\ Spaced(s)

\* Both ends of a link are connected or neither is, and then nothing travels.
WireOK(s) ==
    connected[s] = connected[Back(s)] /\ (~connected[s] => updates[s] = <<>>)

ClipInv ==
    /\ ClipTypeOK /\ links \in Topologies /\ SecretsStayLocal
    /\ \A s \in links : WireOK(s) /\ LinkOK(s)

-----------------------------------------------------------------------------
(* Ranks and their renumbering                                              *)

Resolvers == [clock : Nat, rank : Nat, held : Contents \cup {Blank}]
Updates == [rank : Nat, held : Contents]

\* The ranks at one end of a link.
Ranks(A, U) == {A.clock, A.rank} \cup {U[i].rank : i \in DOMAIN U}

\* There are finitely many.
LEMMA RanksFinite ==
    ASSUME NEW A \in Resolvers, NEW U \in Seq(Updates)
    PROVE  Ranks(A, U) \subseteq Nat /\ IsFiniteSet(Ranks(A, U))
<1>1. A.clock \in Nat /\ A.rank \in Nat
  BY DEF Resolvers
<1>2. Len(U) \in Nat /\ DOMAIN U = 1..Len(U) /\ \A i \in 1..Len(U) : U[i] \in Updates
  OBVIOUS
<1>3. \A i \in DOMAIN U : U[i].rank \in Nat
  BY <1>2 DEF Updates
<1> DEFINE T == {U[i].rank : i \in DOMAIN U}
           f == [i \in DOMAIN U |-> U[i].rank]
<1>4. IsFiniteSet(DOMAIN U)
  BY <1>2, FS_Interval
<1>5. f \in Surjection(DOMAIN U, T)
  BY DEF Surjection
<1>6. IsFiniteSet(T)
  BY <1>4, <1>5, FS_Surjection
<1>7. IsFiniteSet({A.clock}) /\ IsFiniteSet({A.clock} \cup {A.rank})
  BY FS_Singleton, FS_AddElement
<1>8. {A.clock} \cup {A.rank} = {A.clock, A.rank}
  OBVIOUS
<1> HIDE DEF T
<1>9. IsFiniteSet({A.clock, A.rank} \cup T)
  BY <1>6, <1>7, <1>8, FS_Union
<1> QED
  BY <1>1, <1>3, <1>9 DEF Ranks, T

\* The ranks of a link are those of its two ends.
LEMMA LinkRanks ==
    ASSUME NEW s, NEW res, NEW ups
    PROVE  RanksInUse(s, res, ups) = Ranks(res[s], ups[s]) \cup Ranks(res[Back(s)], ups[Back(s)])
BY DEF RanksInUse, Ranks

\* Renumbering keeps the order of the ranks in use, and makes them even.
LEMMA RenumberOrder ==
    ASSUME NEW used \in SUBSET Nat, IsFiniteSet(used)
    PROVE  /\ \A a \in used : Renumber(used, a) \in Nat /\ Renumber(used, a) % 2 = 0
           /\ \A a, b \in used : a < b => Renumber(used, a) < Renumber(used, b)
<1> DEFINE Below(a) == {v \in used \ {0} : v <= a}
<1>1. \A a \in used : IsFiniteSet(Below(a)) /\ Cardinality(Below(a)) \in Nat
  <2>1. ASSUME NEW a \in used PROVE IsFiniteSet(Below(a)) /\ Cardinality(Below(a)) \in Nat
    <3>1. Below(a) \in SUBSET used
      OBVIOUS
    <3>2. IsFiniteSet(Below(a))
      BY <3>1, FS_Subset
    <3> QED
      BY <3>2, FS_CardinalityType
  <2> QED
    BY <2>1
<1>2. \A a \in used : Renumber(used, a) = 2 * Cardinality(Below(a))
  BY DEF Renumber
<1>3. ASSUME NEW a \in used, NEW b \in used, a < b PROVE Cardinality(Below(a)) < Cardinality(Below(b))
  <2>1. a \in Nat /\ b \in Nat
    OBVIOUS
  <2>2. Below(a) \in SUBSET Below(b)
    <3>1. ASSUME NEW v \in used, v <= a PROVE v <= b
      BY <1>3, <2>1, <3>1
    <3> QED
      BY <3>1
  <2>3. b \in Below(b) /\ b \notin Below(a)
    BY <1>3, <2>1
  <2>4. Cardinality(Below(a)) <= Cardinality(Below(b)) /\ Cardinality(Below(a)) # Cardinality(Below(b))
    <3> HIDE DEF Below
    <3> QED
      BY <1>1, <2>2, <2>3, FS_Subset
  <2>5. Cardinality(Below(a)) \in Nat /\ Cardinality(Below(b)) \in Nat
    BY <1>1
  <2> HIDE DEF Below
  <2> QED
    BY <2>4, <2>5
<1> HIDE DEF Below
<1>4. ASSUME NEW a \in used PROVE Renumber(used, a) \in Nat /\ Renumber(used, a) % 2 = 0
  <2>1. PICK n \in Nat : n = Cardinality(Below(a)) /\ Renumber(used, a) = 2 * n
    BY <1>1, <1>2
  <2> QED
    BY <2>1
<1>5. ASSUME NEW a \in used, NEW b \in used, a < b PROVE Renumber(used, a) < Renumber(used, b)
  <2>1. PICK n \in Nat : n = Cardinality(Below(a)) /\ Renumber(used, a) = 2 * n
    BY <1>1, <1>2
  <2>2. PICK m \in Nat : m = Cardinality(Below(b)) /\ Renumber(used, b) = 2 * m
    BY <1>1, <1>2
  <2> QED
    BY <1>3, <1>5, <2>1, <2>2
<1> QED
  BY <1>4, <1>5

\* A finite set of naturals has a greatest member.
LEMMA Greatest ==
    ASSUME NEW used \in SUBSET Nat, IsFiniteSet(used), used # {}
    PROVE  \E v \in used : \A w \in used : w <= v
<1> DEFINE Above(v) == {w \in used : w > v}
           T == {Cardinality(Above(v)) : v \in used}
<1>1. \A v \in used : IsFiniteSet(Above(v)) /\ Cardinality(Above(v)) \in Nat
  <2>1. ASSUME NEW v \in used PROVE IsFiniteSet(Above(v)) /\ Cardinality(Above(v)) \in Nat
    <3>1. Above(v) \in SUBSET used
      OBVIOUS
    <3>2. IsFiniteSet(Above(v))
      BY <3>1, FS_Subset
    <3> QED
      BY <3>2, FS_CardinalityType
  <2> QED
    BY <2>1
<1>2. T \subseteq Nat /\ T # {}
  BY <1>1
<1>3. PICK n \in T : \A m \in T : ~ (<<m, n>> \in OpToRel(<, Nat))
  BY <1>2, NatLessThanWellFounded, WFMin
<1>4. \A m \in T : ~ (m < n)
  BY <1>2, <1>3 DEF OpToRel
<1>5. PICK v \in used : n = Cardinality(Above(v))
  OBVIOUS
<1>6. ASSUME NEW w \in used, w > v PROVE FALSE
  <2>1. Above(w) \in SUBSET Above(v) /\ w \in Above(v) /\ w \notin Above(w)
    <3>1. ASSUME NEW x \in used, x > w PROVE x > v
      <4>1. x \in Nat /\ w \in Nat /\ v \in Nat
        OBVIOUS
      <4> QED
        BY <1>6, <3>1, <4>1
    <3>2. w \in Nat /\ v \in Nat
      OBVIOUS
    <3>3. w \in Above(v) /\ w \notin Above(w)
      BY <1>6, <3>2
    <3> QED
      BY <3>1, <3>3
  <2>2. Cardinality(Above(w)) <= Cardinality(Above(v)) /\ Cardinality(Above(w)) # Cardinality(Above(v))
    <3> HIDE DEF Above
    <3> QED
      BY <1>1, <2>1, FS_Subset
  <2>3. Cardinality(Above(w)) \in Nat /\ Cardinality(Above(v)) \in Nat
    BY <1>1
  <2>4. Cardinality(Above(w)) \in T
    OBVIOUS
  <2> HIDE DEF Above, T
  <2> QED
    BY <1>4, <1>5, <2>2, <2>3, <2>4
<1>7. \A w \in used : w <= v
  BY <1>6
<1> QED
  BY <1>7

\* A and U after renumbering are A1 and U1.
Relabels(used, A, U, A1, U1) ==
    /\ A1.clock = Renumber(used, A.clock) /\ A1.rank = Renumber(used, A.rank) /\ A1.held = A.held
    /\ DOMAIN U1 = DOMAIN U
    /\ \A i \in DOMAIN U : U1[i].rank = Renumber(used, U[i].rank) /\ U1[i].held = U[i].held

\* What is known of one end survives renumbering.
LEMMA RelabelHalf ==
    ASSUME NEW A \in Resolvers, NEW B \in Resolvers, NEW UA \in Seq(Updates), NEW UB \in Seq(Updates),
           NEW used \in SUBSET Nat, IsFiniteSet(used),
           Ranks(A, UA) \subseteq used, Ranks(B, UB) \subseteq used, Half(A, B, UA, UB),
           NEW A1, NEW B1, NEW UA1, NEW UB1,
           Relabels(used, A, UA, A1, UA1), Relabels(used, B, UB, B1, UB1)
    PROVE  Half(A1, B1, UA1, UB1)
<1>1. /\ A.clock \in used /\ A.rank \in used /\ B.clock \in used /\ B.rank \in used
      /\ \A i \in DOMAIN UA : UA[i].rank \in used
      /\ \A i \in DOMAIN UB : UB[i].rank \in used
  BY DEF Ranks
<1>2. ASSUME NEW a \in used, NEW b \in used, a <= b PROVE Renumber(used, a) <= Renumber(used, b)
  <2>1. a \in Nat /\ b \in Nat /\ Renumber(used, a) \in Nat /\ Renumber(used, b) \in Nat
        /\ (a < b => Renumber(used, a) < Renumber(used, b))
    BY RenumberOrder
  <2> QED
    BY <1>2, <2>1
<1>3. A1.rank <= A1.clock
  BY <1>1, <1>2 DEF Half, Relabels
<1>4. \A i \in DOMAIN UA1 : UA1[i].rank <= B1.rank
  BY <1>1, <1>2 DEF Half, Relabels
<1>5. A1.rank <= B1.rank \/ \E i \in DOMAIN UB1 : A1.rank <= UB1[i].rank
  <2>1. CASE A.rank <= B.rank
    BY <1>1, <1>2, <2>1 DEF Relabels
  <2>2. CASE \E i \in DOMAIN UB : A.rank <= UB[i].rank
    BY <1>1, <1>2, <2>2 DEF Relabels
  <2> QED
    BY <2>1, <2>2 DEF Half
<1> QED
  BY <1>3, <1>4, <1>5 DEF Half

\* So does what is known of a link.
LEMMA RelabelLink ==
    ASSUME NEW A \in Resolvers, NEW B \in Resolvers, NEW UA \in Seq(Updates), NEW UB \in Seq(Updates),
           NEW used \in SUBSET Nat, IsFiniteSet(used),
           Ranks(A, UA) \subseteq used, Ranks(B, UB) \subseteq used, Link(A, B, UA, UB),
           NEW A1, NEW B1, NEW UA1, NEW UB1,
           Relabels(used, A, UA, A1, UA1), Relabels(used, B, UB, B1, UB1)
    PROVE  Link(A1, B1, UA1, UB1)
<1>1. Half(A1, B1, UA1, UB1) /\ Half(B1, A1, UB1, UA1)
  BY RelabelHalf DEF Link
<1>2. ASSUME NEW x1 \in Stamped(A1, B1, UA1, UB1)
      PROVE  \E x \in Stamped(A, B, UA, UB) :
                x.rank \in used /\ x1.rank = Renumber(used, x.rank) /\ x1.held = x.held
  <2>1. CASE x1 = A1 \/ x1 = B1
    BY <2>1 DEF Stamped, Relabels, Ranks
  <2>2. ASSUME NEW i \in DOMAIN UA1, x1 = UA1[i]
        PROVE  \E x \in Stamped(A, B, UA, UB) :
                  x.rank \in used /\ x1.rank = Renumber(used, x.rank) /\ x1.held = x.held
    <3>1. i \in DOMAIN UA /\ UA[i] \in Stamped(A, B, UA, UB) /\ UA[i].rank \in used
      BY DEF Stamped, Relabels, Ranks
    <3> QED
      BY <2>2, <3>1 DEF Relabels
  <2>3. ASSUME NEW i \in DOMAIN UB1, x1 = UB1[i]
        PROVE  \E x \in Stamped(A, B, UA, UB) :
                  x.rank \in used /\ x1.rank = Renumber(used, x.rank) /\ x1.held = x.held
    <3>1. i \in DOMAIN UB /\ UB[i] \in Stamped(A, B, UA, UB) /\ UB[i].rank \in used
      BY DEF Stamped, Relabels, Ranks
    <3> QED
      BY <2>3, <3>1 DEF Relabels
  <2> QED
    BY <1>2, <2>1, <2>2, <2>3 DEF Stamped
<1>3. ASSUME NEW a \in used, NEW b \in used, Renumber(used, a) = Renumber(used, b) PROVE a = b
  <2>1. a \in Nat /\ b \in Nat /\ Renumber(used, a) \in Nat /\ Renumber(used, b) \in Nat
        /\ (a < b => Renumber(used, a) < Renumber(used, b))
        /\ (b < a => Renumber(used, b) < Renumber(used, a))
    BY RenumberOrder
  <2> QED
    BY <1>3, <2>1
<1>4. ASSUME NEW x1 \in Stamped(A1, B1, UA1, UB1), NEW y1 \in Stamped(A1, B1, UA1, UB1),
             x1.rank = y1.rank
      PROVE  x1.held = y1.held
  <2>1. PICK x \in Stamped(A, B, UA, UB) :
           x.rank \in used /\ x1.rank = Renumber(used, x.rank) /\ x1.held = x.held
    BY <1>2
  <2>2. PICK y \in Stamped(A, B, UA, UB) :
           y.rank \in used /\ y1.rank = Renumber(used, y.rank) /\ y1.held = y.held
    BY <1>2
  <2>3. x.rank = y.rank
    BY <1>3, <1>4, <2>1, <2>2
  <2>4. x.held = y.held
    BY <2>3 DEF Link, OneHeld
  <2> QED
    BY <2>1, <2>2, <2>4
<1> QED
  BY <1>1, <1>4 DEF Link, OneHeld

-----------------------------------------------------------------------------
(* One update                                                               *)

\* A new selection is stamped above everything its session has seen, and sent.
LEMMA SendLink ==
    ASSUME NEW A \in Resolvers, NEW B \in Resolvers, NEW UA \in Seq(Updates), NEW UB \in Seq(Updates),
           Link(A, B, UA, UB), NEW r \in Nat, r > A.clock,
           r \notin Ranks(A, UA), r \notin Ranks(B, UB), NEW c \in Contents,
           NEW A1 \in Resolvers, A1.clock = r, A1.rank = r, A1.held = c,
           NEW u \in Updates, u.rank = r, u.held = c
    PROVE  Link(A1, B, UA, Append(UB, u))
<1> DEFINE UB1 == Append(UB, u)
<1>1. /\ Len(UB) \in Nat /\ DOMAIN UB = 1..Len(UB) /\ DOMAIN UB1 = 1..Len(UB) + 1
      /\ \A i \in 1..Len(UB) : UB1[i] = UB[i] /\ UB[i].rank \in Nat
      /\ UB1[Len(UB) + 1] = u
  <2>1. Len(UB) \in Nat /\ DOMAIN UB = 1..Len(UB) /\ \A i \in 1..Len(UB) : UB[i] \in Updates
    OBVIOUS
  <2>2. \A i \in 1..Len(UB) : UB[i].rank \in Nat
    BY <2>1 DEF Updates
  <2>3. /\ DOMAIN UB1 = 1..Len(UB) + 1 /\ UB1[Len(UB) + 1] = u
        /\ \A i \in 1..Len(UB) : UB1[i] = UB[i]
    OBVIOUS
  <2> QED
    BY <2>1, <2>2, <2>3
<1>2. A.clock \in Nat /\ A.rank \in Nat /\ B.clock \in Nat /\ B.rank \in Nat
  BY DEF Resolvers
<1>3. Half(A1, B, UA, UB1)
  <2>1. Len(UB) + 1 \in DOMAIN UB1 /\ A1.rank <= UB1[Len(UB) + 1].rank
    BY <1>1
  <2>2. \A i \in DOMAIN UA : UA[i].rank <= B.rank
    BY DEF Link, Half
  <2> HIDE DEF UB1
  <2> QED
    BY <2>1, <2>2 DEF Half
<1>4. Half(B, A1, UB1, UA)
  <2>1. A.rank < r
    BY <1>2 DEF Link, Half
  <2>2. \A i \in DOMAIN UB1 : UB1[i].rank <= A1.rank
    <3>1. \A i \in DOMAIN UB : UB[i].rank <= A.rank
      BY DEF Link, Half
    <3>2. ASSUME NEW i \in DOMAIN UB1 PROVE UB1[i].rank <= A1.rank
      <4>1. CASE i = Len(UB) + 1
        BY <1>1, <4>1
      <4>2. CASE i # Len(UB) + 1
        <5>1. i \in 1..Len(UB) /\ UB1[i] = UB[i] /\ UB[i].rank <= A.rank /\ UB[i].rank \in Nat
          BY <1>1, <3>1, <4>2
        <5> QED
          BY <1>2, <2>1, <5>1
      <4> QED
        BY <4>1, <4>2
    <3> QED
      BY <3>2
  <2>3. B.rank <= B.clock /\ (B.rank <= A.rank \/ \E i \in DOMAIN UA : B.rank <= UA[i].rank)
    BY DEF Link, Half
  <2>4. B.rank <= A1.rank \/ \E i \in DOMAIN UA : B.rank <= UA[i].rank
    BY <1>2, <2>1, <2>3
  <2> HIDE DEF UB1
  <2> QED
    BY <2>2, <2>3, <2>4 DEF Half
<1>5. OneHeld(A1, B, UA, UB1)
  <2>1. ASSUME NEW x \in Stamped(A1, B, UA, UB1)
        PROVE  \/ x.rank = r /\ x.held = c
               \/ x \in Stamped(A, B, UA, UB) /\ x.rank # r
    <3>1. CASE x = A1
      BY <3>1
    <3>2. CASE x = B
      BY <3>2 DEF Ranks, Stamped
    <3>3. ASSUME NEW i \in DOMAIN UA, x = UA[i] PROVE x \in Stamped(A, B, UA, UB) /\ x.rank # r
      BY <3>3 DEF Ranks, Stamped
    <3>4. ASSUME NEW i \in DOMAIN UB1, x = UB1[i], i # Len(UB) + 1
          PROVE  x \in Stamped(A, B, UA, UB) /\ x.rank # r
      <4>1. i \in DOMAIN UB /\ x = UB[i]
        BY <1>1, <3>4
      <4> QED
        BY <4>1 DEF Ranks, Stamped
    <3> QED
      BY <1>1, <2>1, <3>1, <3>2, <3>3, <3>4 DEF Stamped
  <2> HIDE DEF UB1
  <2> QED
    BY <2>1 DEF OneHeld, Link
<1> HIDE DEF UB1
<1>6. Link(A1, B, UA, UB1)
  BY <1>3, <1>4, <1>5 DEF Link
<1> QED
  BY <1>6 DEF UB1

\* What ConflictResolver::on_inbound leaves: the newer of the two selections.
LEMMA InboundFacts ==
    ASSUME NEW A \in Resolvers, NEW u \in Updates, A.rank <= A.clock,
           A.rank = u.rank => A.held = u.held,
           NEW A1, A1 = OnInbound(A, u).after
    PROVE  /\ A1 \in Resolvers /\ A1.rank <= A1.clock
           /\ A.rank <= A1.rank /\ u.rank <= A1.rank
           /\ \/ A1.rank = A.rank /\ A1.held = A.held
              \/ A1.rank = u.rank /\ A1.held = u.held
<1>1. /\ A.clock \in Nat /\ A.rank \in Nat /\ A.held \in Contents \cup {Blank}
      /\ u.rank \in Nat /\ u.held \in Contents
  BY DEF Resolvers, Updates
<1>2. PICK n \in Nat : n = (IF u.rank > A.clock THEN u.rank ELSE A.clock)
  BY <1>1
<1>3. n >= A.clock /\ n >= u.rank
  BY <1>1, <1>2
<1>4. PICK seen \in Resolvers :
         /\ seen = [A EXCEPT !.clock = n] /\ seen.clock = n
         /\ seen.rank = A.rank /\ seen.held = A.held
  <2>1. [A EXCEPT !.clock = n] \in Resolvers
    BY <1>1 DEF Resolvers
  <2>2. /\ [A EXCEPT !.clock = n].clock = n /\ [A EXCEPT !.clock = n].rank = A.rank
        /\ [A EXCEPT !.clock = n].held = A.held
    BY DEF Resolvers
  <2> QED
    BY <2>1, <2>2
<1>5. seen = [A EXCEPT !.clock = IF u.rank > @ THEN u.rank ELSE @]
  BY <1>2, <1>4
<1>6. CASE A.held = u.held
  <2>1. A1 = IF u.rank > A.rank THEN [seen EXCEPT !.rank = u.rank] ELSE seen
    BY <1>5, <1>6 DEF OnInbound
  <2>2. CASE u.rank > A.rank
    <3>1. A1 \in Resolvers /\ A1.rank = u.rank /\ A1.clock = n /\ A1.held = A.held
      BY <1>1, <1>4, <2>1, <2>2 DEF Resolvers
    <3> QED
      BY <1>1, <1>3, <1>6, <2>2, <3>1
  <2>3. CASE ~(u.rank > A.rank)
    BY <1>1, <1>3, <1>4, <2>1, <2>3
  <2> QED
    BY <2>2, <2>3
<1>7. CASE A.held # u.held /\ A.rank > u.rank
  <2>1. A1 = seen
    BY <1>5, <1>7 DEF OnInbound
  <2> QED
    BY <1>1, <1>3, <1>4, <1>7, <2>1
<1>8. CASE A.held # u.held /\ ~(A.rank > u.rank)
  <2>1. A1 = [seen EXCEPT !.rank = u.rank, !.held = u.held]
    BY <1>5, <1>8 DEF OnInbound
  <2>2. A1 \in Resolvers /\ A1.rank = u.rank /\ A1.clock = n /\ A1.held = u.held
    BY <1>1, <1>4, <2>1 DEF Resolvers
  <2> QED
    BY <1>1, <1>3, <1>8, <2>2
<1> QED
  BY <1>6, <1>7, <1>8

\* An update arrives.
LEMMA ReceiveLink ==
    ASSUME NEW A \in Resolvers, NEW B \in Resolvers, NEW UA \in Seq(Updates), NEW UB \in Seq(Updates),
           Link(A, B, UA, UB), UA # <<>>,
           NEW A1, A1 = OnInbound(A, Head(UA)).after
    PROVE  A1 \in Resolvers /\ Link(A1, B, Tail(UA), UB)
<1>1. PICK u \in Updates : u = Head(UA)
  OBVIOUS
<1>2. PICK T \in Seq(Updates) : T = Tail(UA)
  <2>1. Tail(UA) \in Seq(Updates)
    OBVIOUS
  <2> QED
    BY <2>1
<1>3. /\ Len(UA) \in Nat /\ Len(UA) >= 1 /\ DOMAIN UA = 1..Len(UA) /\ u = UA[1]
      /\ DOMAIN T = 1..Len(UA) - 1 /\ \A i \in 1..Len(UA) - 1 : T[i] = UA[i + 1]
  BY <1>1, <1>2
<1>4. 1 \in DOMAIN UA /\ \A i \in DOMAIN T : i + 1 \in DOMAIN UA /\ T[i] = UA[i + 1]
  BY <1>3
<1>5. \A i \in DOMAIN UA : i # 1 => i - 1 \in DOMAIN T /\ UA[i] = T[i - 1]
  BY <1>3
<1>6. /\ A.rank \in Nat /\ B.rank \in Nat /\ u.rank \in Nat
      /\ \A i \in DOMAIN UA : UA[i].rank \in Nat
      /\ \A i \in DOMAIN UB : UB[i].rank \in Nat
  <2>1. \A i \in DOMAIN UA : UA[i] \in Updates
    OBVIOUS
  <2>2. \A i \in DOMAIN UB : UB[i] \in Updates
    OBVIOUS
  <2> QED
    BY <2>1, <2>2 DEF Resolvers, Updates
<1>7. A \in Stamped(A, B, UA, UB) /\ u \in Stamped(A, B, UA, UB)
  BY <1>3, <1>4 DEF Stamped
<1>8. A.rank = u.rank => A.held = u.held
  BY <1>7 DEF Link, OneHeld
<1>9. /\ A1 \in Resolvers /\ A1.rank <= A1.clock /\ A.rank <= A1.rank /\ u.rank <= A1.rank
      /\ \/ A1.rank = A.rank /\ A1.held = A.held
         \/ A1.rank = u.rank /\ A1.held = u.held
  BY <1>1, <1>8, InboundFacts DEF Link, Half
<1>10. A1.rank \in Nat
  BY <1>9 DEF Resolvers
<1>11. Half(A1, B, T, UB)
  <2>1. u.rank <= B.rank
    BY <1>3, <1>4 DEF Link, Half
  <2>2. \A i \in DOMAIN T : T[i].rank <= B.rank
    BY <1>4 DEF Link, Half
  <2>3. A1.rank <= B.rank \/ \E i \in DOMAIN UB : A1.rank <= UB[i].rank
    <3>1. CASE A1.rank = u.rank
      BY <2>1, <3>1
    <3>2. CASE A1.rank = A.rank
      BY <3>2 DEF Link, Half
    <3> QED
      BY <1>9, <3>1, <3>2
  <2> QED
    BY <1>9, <2>2, <2>3 DEF Half
<1>12. Half(B, A1, UB, T)
  <2>1. \A i \in DOMAIN UB : UB[i].rank <= A1.rank
    BY <1>6, <1>9, <1>10 DEF Link, Half
  <2>2. B.rank <= A1.rank \/ \E i \in DOMAIN T : B.rank <= T[i].rank
    <3>1. CASE B.rank <= A.rank
      BY <1>6, <1>9, <1>10, <3>1
    <3>2. ASSUME NEW i \in DOMAIN UA, B.rank <= UA[i].rank
          PROVE  B.rank <= A1.rank \/ \E j \in DOMAIN T : B.rank <= T[j].rank
      <4>1. CASE i = 1
        BY <1>3, <1>6, <1>9, <1>10, <3>2, <4>1
      <4>2. CASE i # 1
        BY <1>5, <3>2, <4>2
      <4> QED
        BY <4>1, <4>2
    <3> QED
      BY <3>1, <3>2 DEF Link, Half
  <2>3. B.rank <= B.clock
    BY DEF Link, Half
  <2> QED
    BY <2>1, <2>2, <2>3 DEF Half
<1>13. OneHeld(A1, B, T, UB)
  <2>1. ASSUME NEW x \in Stamped(A1, B, T, UB)
        PROVE  \E y \in Stamped(A, B, UA, UB) : x.rank = y.rank /\ x.held = y.held
    <3>1. CASE x = A1
      BY <1>7, <1>9, <3>1
    <3>2. CASE x # A1
      <4>1. x \in Stamped(A, B, UA, UB)
        BY <1>4, <2>1, <3>2 DEF Stamped
      <4> QED
        BY <4>1
    <3> QED
      BY <3>1, <3>2
  <2> QED
    BY <2>1 DEF OneHeld, Link
<1> QED
  BY <1>2, <1>9, <1>11, <1>12, <1>13 DEF Link

-----------------------------------------------------------------------------
(* Steps of a session                                                       *)

\* The two sessions of a link.
LEMMA BackFacts ==
    ASSUME links \in Topologies, NEW s \in links
    PROVE  /\ s[1] \in ClipDevices /\ s[2] \in ClipDevices
           /\ Back(s) \in links /\ Back(Back(s)) = s /\ Back(s) # s
<1>1. s \in ClipDevices \X ClipDevices /\ s[1] # s[2] /\ <<s[2], s[1]>> \in links
  BY ClipboardConstants
<1>2. s = <<s[1], s[2]>>
  BY <1>1
<1> QED
  BY <1>1, <1>2 DEF Back

\* A link has no preferred end.
LEMMA LinkSymmetric ==
    ASSUME NEW A, NEW B, NEW UA, NEW UB, Link(A, B, UA, UB)
    PROVE  Link(B, A, UB, UA)
<1>1. Stamped(A, B, UA, UB) = Stamped(B, A, UB, UA)
  BY DEF Stamped
<1> QED
  BY <1>1 DEF Link, OneHeld

RenumberedSession(used, A) ==
    [A EXCEPT !.clock = Renumber(used, @), !.rank = Renumber(used, @)]
RenumberedUpdates(used, U) ==
    [i \in DOMAIN U |-> [U[i] EXCEPT !.rank = Renumber(used, @)]]

\* A session and its updates after renumbering.
LEMMA RelabelEnd ==
    ASSUME NEW A \in Resolvers, NEW U \in Seq(Updates), NEW used \in SUBSET Nat, IsFiniteSet(used),
           Ranks(A, U) \subseteq used,
           NEW A1, A1 = RenumberedSession(used, A), NEW U1, U1 = RenumberedUpdates(used, U)
    PROVE  /\ A1 \in Resolvers /\ U1 \in Seq(Updates) /\ Relabels(used, A, U, A1, U1)
           /\ \A r \in Ranks(A1, U1) : r % 2 = 0
<1>1. /\ A.clock \in used /\ A.rank \in used /\ \A i \in DOMAIN U : U[i].rank \in used
      /\ A.held \in Contents \cup {Blank}
  BY DEF Ranks, Resolvers
<1>2. PICK c \in Nat : c = Renumber(used, A.clock) /\ c % 2 = 0
  BY <1>1, RenumberOrder
<1>3. PICK n \in Nat : n = Renumber(used, A.rank) /\ n % 2 = 0
  BY <1>1, RenumberOrder
<1>4. A1 = [A EXCEPT !.clock = c, !.rank = n]
  BY <1>2, <1>3 DEF RenumberedSession
<1>5. A1 \in Resolvers /\ A1.clock = c /\ A1.rank = n /\ A1.held = A.held
  BY <1>1, <1>4 DEF Resolvers
<1>6. Len(U) \in Nat /\ DOMAIN U = 1..Len(U) /\ \A i \in 1..Len(U) : U[i] \in Updates
  OBVIOUS
<1>7. ASSUME NEW i \in DOMAIN U
      PROVE  /\ U1[i] \in Updates /\ U1[i].rank = Renumber(used, U[i].rank)
             /\ U1[i].held = U[i].held /\ U1[i].rank % 2 = 0
  <2>1. U[i] \in Updates
    BY <1>6
  <2>2. PICK m \in Nat : m = Renumber(used, U[i].rank) /\ m % 2 = 0
    BY <1>1, RenumberOrder
  <2>3. U1[i] = [U[i] EXCEPT !.rank = m]
    BY <2>2 DEF RenumberedUpdates
  <2> QED
    BY <2>1, <2>2, <2>3 DEF Updates
<1>8. DOMAIN U1 = 1..Len(U) /\ U1 = [i \in 1..Len(U) |-> U1[i]]
  BY <1>6 DEF RenumberedUpdates
<1>9. U1 \in Seq(Updates)
  <2>1. ASSUME NEW n1 \in Nat, NEW f \in [1..n1 -> Updates] PROVE f \in Seq(Updates)
    OBVIOUS
  <2>2. U1 \in [1..Len(U) -> Updates]
    BY <1>6, <1>7, <1>8
  <2> QED
    BY <1>6, <2>1, <2>2
<1>10. Relabels(used, A, U, A1, U1)
  BY <1>2, <1>3, <1>5, <1>6, <1>7, <1>8 DEF Relabels
<1> QED
  BY <1>2, <1>3, <1>5, <1>6, <1>7, <1>8, <1>9, <1>10 DEF Ranks

\* A step that changes the two sessions of one link, and renumbers it,
\* preserves the invariant when the link is in order before renumbering.
LEMMA RenumberedInv ==
    ASSUME ClipInv, NEW s \in links, connected[s],
           NEW res \in [links -> Resolvers], NEW ups \in [links -> Seq(Updates)],
           Renumbered(s, res, ups),
           Link(res[s], res[Back(s)], ups[s], ups[Back(s)]),
           \A x \in links : x # s /\ x # Back(s) => res[x] = resolver[x] /\ ups[x] = updates[x],
           \A x \in links : /\ res[x].held \notin LocalOnly
                            /\ \A i \in DOMAIN ups[x] : ups[x][i].held \notin LocalOnly,
           UNCHANGED <<links, connected>>,
           clip' \in [ClipDevices -> Contents \cup {Blank}],
           copies' \in 0..MaxCopies, clipFaults' \in 0..MaxClipFaults
    PROVE  ClipInv'
<1>1. PICK b \in links : b = Back(s) /\ Back(b) = s /\ b # s
  BY BackFacts DEF ClipInv
<1>2. PICK used \in SUBSET Nat :
         /\ used = RanksInUse(s, res, ups) /\ IsFiniteSet(used)
         /\ Ranks(res[s], ups[s]) \subseteq used /\ Ranks(res[b], ups[b]) \subseteq used
  <2>1. /\ Ranks(res[s], ups[s]) \subseteq Nat /\ IsFiniteSet(Ranks(res[s], ups[s]))
        /\ Ranks(res[b], ups[b]) \subseteq Nat /\ IsFiniteSet(Ranks(res[b], ups[b]))
    BY RanksFinite
  <2>2. RanksInUse(s, res, ups) = Ranks(res[s], ups[s]) \cup Ranks(res[b], ups[b])
    BY <1>1, LinkRanks
  <2>3. IsFiniteSet(Ranks(res[s], ups[s]) \cup Ranks(res[b], ups[b]))
    BY <2>1, FS_Union
  <2> QED
    BY <2>1, <2>2, <2>3
<1>3. /\ resolver' = [e \in links |-> IF e \notin {s, b} THEN res[e]
                         ELSE [res[e] EXCEPT !.clock = Renumber(used, @), !.rank = Renumber(used, @)]]
      /\ updates' = [e \in links |-> IF e \notin {s, b} THEN ups[e]
                         ELSE [i \in DOMAIN ups[e] |-> [ups[e][i] EXCEPT !.rank = Renumber(used, @)]]]
  BY <1>1, <1>2 DEF Renumbered
<1>4. \A x \in links : x # s /\ x # b => resolver'[x] = res[x] /\ updates'[x] = ups[x]
  BY <1>3
<1>5. ASSUME NEW x \in {s, b}
      PROVE  /\ resolver'[x] \in Resolvers /\ updates'[x] \in Seq(Updates)
             /\ Relabels(used, res[x], ups[x], resolver'[x], updates'[x])
             /\ \A r \in Ranks(resolver'[x], updates'[x]) : r % 2 = 0
  <2>1. /\ resolver'[x] = RenumberedSession(used, res[x])
        /\ updates'[x] = RenumberedUpdates(used, ups[x])
    BY <1>3 DEF RenumberedSession, RenumberedUpdates
  <2>2. res[x] \in Resolvers /\ ups[x] \in Seq(Updates) /\ Ranks(res[x], ups[x]) \subseteq used
    BY <1>2
  <2> QED
    BY <1>2, <2>1, <2>2, RelabelEnd
<1>6. \A x \in links : resolver'[x] \in Resolvers /\ updates'[x] \in Seq(Updates)
  BY <1>4, <1>5
<1>7. resolver' \in [links -> Resolvers] /\ updates' \in [links -> Seq(Updates)]
  BY <1>3, <1>6
<1>8. ClipTypeOK'
  BY <1>7 DEF ClipTypeOK, ClipInv, Resolvers, Updates
<1>9. SecretsStayLocal'
  <2>1. ASSUME NEW x \in links
        PROVE  /\ resolver'[x].held \notin LocalOnly
               /\ \A i \in DOMAIN updates'[x] : updates'[x][i].held \notin LocalOnly
    <3>1. CASE x \in {s, b}
      BY <1>5, <3>1 DEF Relabels
    <3>2. CASE x \notin {s, b}
      BY <1>4, <3>2
    <3> QED
      BY <3>1, <3>2
  <2> QED
    BY <2>1 DEF SecretsStayLocal
<1>10. ASSUME NEW x \in links PROVE WireOK(x)' /\ LinkOK(x)'
  <2>1. WireOK(x) /\ WireOK(s) /\ LinkOK(x)
    BY DEF ClipInv
  <2>2. connected[b]
    BY <1>1, <2>1 DEF WireOK
  <2>3. CASE x \in {s, b}
    <3>1. WireOK(x)'
      BY <1>1, <2>1, <2>2, <2>3 DEF WireOK
    <3>2. Link(resolver'[s], resolver'[b], updates'[s], updates'[b])
      <4>1. res[s] \in Resolvers /\ res[b] \in Resolvers /\ ups[s] \in Seq(Updates)
            /\ ups[b] \in Seq(Updates)
        OBVIOUS
      <4> QED
        BY <1>1, <1>2, <1>5, <4>1, RelabelLink
    <3>3. Link(resolver'[b], resolver'[s], updates'[b], updates'[s])
      BY <3>2, LinkSymmetric
    <3>4. RanksInUse(x, resolver', updates')
             = Ranks(resolver'[s], updates'[s]) \cup Ranks(resolver'[b], updates'[b])
      BY <1>1, <2>3, LinkRanks
    <3>5. Spaced(x)'
      BY <1>5, <3>4 DEF Spaced
    <3> QED
      BY <1>1, <2>3, <3>1, <3>2, <3>3, <3>5 DEF LinkOK
  <2>4. CASE x \notin {s, b}
    <3>1. PICK y \in links : y = Back(x) /\ Back(y) = x
      BY BackFacts DEF ClipInv
    <3>2. y \notin {s, b}
      BY <1>1, <2>4, <3>1
    <3>3. /\ resolver'[x] = resolver[x] /\ updates'[x] = updates[x]
          /\ resolver'[y] = resolver[y] /\ updates'[y] = updates[y]
      BY <1>1, <1>4, <2>4, <3>2
    <3>4. RanksInUse(x, resolver', updates') = RanksInUse(x, resolver, updates)
      BY <3>1, <3>3, LinkRanks
    <3> QED
      BY <2>1, <3>1, <3>3, <3>4 DEF WireOK, LinkOK, Spaced
  <2> QED
    BY <2>3, <2>4
<1> QED
  BY <1>8, <1>9, <1>10 DEF ClipInv

\* A stamp from NewRanks is above the session's clock and not in use.
LEMMA NewRankFacts ==
    ASSUME ClipInv, NEW s \in links, connected[s], NEW r \in NewRanks(s)
    PROVE  r \in Nat /\ r > resolver[s].clock /\ r \notin RanksInUse(s, resolver, updates)
<1>1. PICK b \in links : b = Back(s)
  BY BackFacts DEF ClipInv
<1>2. resolver \in [links -> Resolvers] /\ updates \in [links -> Seq(Updates)]
  BY DEF ClipInv, ClipTypeOK, Resolvers, Updates
<1>3. /\ Ranks(resolver[s], updates[s]) \subseteq Nat /\ IsFiniteSet(Ranks(resolver[s], updates[s]))
      /\ Ranks(resolver[b], updates[b]) \subseteq Nat /\ IsFiniteSet(Ranks(resolver[b], updates[b]))
  <2>1. /\ resolver[s] \in Resolvers /\ updates[s] \in Seq(Updates)
        /\ resolver[b] \in Resolvers /\ updates[b] \in Seq(Updates)
    BY <1>2
  <2> QED
    BY <2>1, RanksFinite
<1>4. PICK used \in SUBSET Nat : used = RanksInUse(s, resolver, updates)
                                 /\ IsFiniteSet(used) /\ resolver[s].clock \in used
  <2>1. RanksInUse(s, resolver, updates)
           = Ranks(resolver[s], updates[s]) \cup Ranks(resolver[b], updates[b])
    BY <1>1, LinkRanks
  <2>2. IsFiniteSet(Ranks(resolver[s], updates[s]) \cup Ranks(resolver[b], updates[b]))
    BY <1>3, FS_Union
  <2> QED
    BY <1>3, <2>1, <2>2 DEF Ranks
<1>5. \A v \in used : v % 2 = 0
  BY <1>4 DEF ClipInv, LinkOK, Spaced
<1>6. \E v \in used : r = v + 1 /\ v >= resolver[s].clock
  <2>1. CASE Synchronised
    <3> DEFINE top == CHOOSE v \in used : \A w \in used : w <= v
    <3>1. \E v \in used : \A w \in used : w <= v
      BY <1>4, Greatest
    <3>2. top \in used /\ \A w \in used : w <= top
      BY <3>1
    <3>3. r = top + 1
      BY <1>4, <2>1 DEF NewRanks
    <3> HIDE DEF top
    <3> QED
      BY <1>4, <3>2, <3>3
  <2>2. CASE ~Synchronised
    BY <1>4, <2>2 DEF NewRanks
  <2> QED
    BY <2>1, <2>2
<1>7. PICK v \in used : r = v + 1 /\ v >= resolver[s].clock
  BY <1>6
<1>8. v \in Nat /\ v % 2 = 0 /\ resolver[s].clock \in Nat
  BY <1>4, <1>5
<1>9. r \notin used
  BY <1>5, <1>7, <1>8
<1> QED
  BY <1>4, <1>7, <1>8, <1>9

\* A user's copy changes no session.
LEMMA CopySelectionInv ==
    ASSUME ClipInv, NEW d \in ClipDevices, NEW c \in Contents, CopySelection(d, c)
    PROVE  ClipInv'
<1>1. ClipTypeOK'
  <2>1. clip' \in [ClipDevices -> Contents \cup {Blank}]
    BY DEF ClipInv, ClipTypeOK, CopySelection
  <2>2. copies' \in 0..MaxCopies
    BY ClipboardConstants DEF ClipInv, ClipTypeOK, CopySelection
  <2> QED
    BY <2>1, <2>2 DEF ClipInv, ClipTypeOK, CopySelection
<1>2. links' \in Topologies /\ SecretsStayLocal'
  BY DEF ClipInv, SecretsStayLocal, CopySelection
<1>3. UNCHANGED <<links, resolver, updates, connected>>
  BY DEF CopySelection
<1>4. \A s \in links : WireOK(s)' /\ LinkOK(s)'
  BY <1>3 DEF ClipInv, WireOK, LinkOK, Spaced
<1> QED
  BY <1>1, <1>2, <1>3, <1>4 DEF ClipInv

\* A selection is stamped and sent.
LEMMA PollAndSendInv ==
    ASSUME ClipInv, NEW s \in links, PollAndSend(s)
    PROVE  ClipInv'
<1>1. PICK b \in links : b = Back(s) /\ Back(b) = s /\ b # s
  BY BackFacts DEF ClipInv
<1>2. resolver \in [links -> Resolvers] /\ updates \in [links -> Seq(Updates)]
  BY DEF ClipInv, ClipTypeOK, Resolvers, Updates
<1>3. PICK c \in Contents : c = clip[s[1]] /\ c \notin LocalOnly
  <2>1. clip[s[1]] \in Contents \cup {Blank}
    BY BackFacts DEF ClipInv, ClipTypeOK
  <2>2. clip[s[1]] # Blank /\ clip[s[1]] \notin LocalOnly
    BY DEF PollAndSend, Sendable
  <2> QED
    BY <2>1, <2>2
<1>4. PICK r \in NewRanks(s) :
         Renumbered(s, [resolver EXCEPT ![s] = [clock |-> r, rank |-> r, held |-> c]],
                       [updates EXCEPT ![Back(s)] = Append(@, [rank |-> r, held |-> c])])
  BY <1>3 DEF PollAndSend
<1>5. connected[s] /\ UNCHANGED <<links, clip, connected, copies, clipFaults>>
  BY DEF PollAndSend
<1>6. r \in Nat /\ r > resolver[s].clock /\ r \notin RanksInUse(s, resolver, updates)
  BY <1>5, NewRankFacts
<1>7. r \notin Ranks(resolver[s], updates[s]) /\ r \notin Ranks(resolver[b], updates[b])
  BY <1>1, <1>6, LinkRanks
<1>8. PICK A1 \in Resolvers : /\ A1 = [clock |-> r, rank |-> r, held |-> c]
                              /\ A1.clock = r /\ A1.rank = r /\ A1.held = c
  <2>1. [clock |-> r, rank |-> r, held |-> c] \in Resolvers
    BY <1>6 DEF Resolvers
  <2> QED
    BY <2>1
<1>9. PICK u \in Updates : u = [rank |-> r, held |-> c] /\ u.rank = r /\ u.held = c
  <2>1. [rank |-> r, held |-> c] \in Updates
    BY <1>6 DEF Updates
  <2> QED
    BY <2>1
<1>10. PICK V \in Seq(Updates) : V = Append(updates[b], u)
  <2>1. updates[b] \in Seq(Updates)
    BY <1>2
  <2>2. Append(updates[b], u) \in Seq(Updates)
    BY <2>1
  <2> QED
    BY <2>2
<1>11. PICK res \in [links -> Resolvers] :
          /\ res = [resolver EXCEPT ![s] = [clock |-> r, rank |-> r, held |-> c]]
          /\ res[s] = A1 /\ \A x \in links : x # s => res[x] = resolver[x]
  <2>1. /\ [resolver EXCEPT ![s] = A1] \in [links -> Resolvers]
        /\ [resolver EXCEPT ![s] = A1][s] = A1
        /\ \A x \in links : x # s => [resolver EXCEPT ![s] = A1][x] = resolver[x]
    BY <1>2
  <2> QED
    BY <1>8, <2>1
<1>12. PICK ups \in [links -> Seq(Updates)] :
          /\ ups = [updates EXCEPT ![Back(s)] = Append(@, [rank |-> r, held |-> c])]
          /\ ups[b] = V /\ \A x \in links : x # b => ups[x] = updates[x]
  <2>1. [updates EXCEPT ![Back(s)] = Append(@, [rank |-> r, held |-> c])] = [updates EXCEPT ![b] = V]
    BY <1>1, <1>9, <1>10
  <2>2. /\ [updates EXCEPT ![b] = V] \in [links -> Seq(Updates)]
        /\ [updates EXCEPT ![b] = V][b] = V
        /\ \A x \in links : x # b => [updates EXCEPT ![b] = V][x] = updates[x]
    BY <1>2
  <2> QED
    BY <2>1, <2>2
<1>13. Renumbered(s, res, ups)
  BY <1>4, <1>11, <1>12
<1>14. Link(res[s], res[Back(s)], ups[s], ups[Back(s)])
  <2>1. Link(resolver[s], resolver[b], updates[s], updates[b])
    BY <1>1, <1>5 DEF ClipInv, LinkOK
  <2>2. /\ resolver[s] \in Resolvers /\ resolver[b] \in Resolvers
        /\ updates[s] \in Seq(Updates) /\ updates[b] \in Seq(Updates)
    BY <1>2
  <2>3. Link(A1, resolver[b], updates[s], Append(updates[b], u))
    BY <1>6, <1>7, <1>8, <1>9, <2>1, <2>2, SendLink
  <2> QED
    BY <1>1, <1>10, <1>11, <1>12, <2>3
<1>15. ASSUME NEW x \in links
       PROVE  res[x].held \notin LocalOnly /\ \A i \in DOMAIN ups[x] : ups[x][i].held \notin LocalOnly
  <2>1. /\ resolver[x].held \notin LocalOnly
        /\ \A i \in DOMAIN updates[x] : updates[x][i].held \notin LocalOnly
    BY DEF ClipInv, SecretsStayLocal
  <2>2. res[x].held \notin LocalOnly
    BY <1>3, <1>8, <1>11, <2>1
  <2>3. CASE x = b
    <3>1. updates[b] \in Seq(Updates)
      BY <1>2
    <3>2. \A i \in DOMAIN V : V[i] = u \/ (i \in DOMAIN updates[b] /\ V[i] = updates[b][i])
      BY <1>10, <3>1
    <3> QED
      BY <1>3, <1>9, <1>12, <2>1, <2>2, <2>3, <3>2
  <2>4. CASE x # b
    BY <1>12, <2>1, <2>2, <2>4
  <2> QED
    BY <2>3, <2>4
<1>16. \A x \in links : x # s /\ x # Back(s) => res[x] = resolver[x] /\ ups[x] = updates[x]
  BY <1>1, <1>11, <1>12
<1>17. /\ clip' \in [ClipDevices -> Contents \cup {Blank}]
       /\ copies' \in 0..MaxCopies /\ clipFaults' \in 0..MaxClipFaults
  BY <1>5 DEF ClipInv, ClipTypeOK
<1>18. UNCHANGED <<links, connected>>
  BY <1>5
<1> QED
  BY <1>5, <1>13, <1>14, <1>15, <1>16, <1>17, <1>18, RenumberedInv

\* An update is received, whether or not the clipboard can be written.
LEMMA ReceiveAndApplyInv ==
    ASSUME ClipInv, NEW s \in links, ReceiveAndApply(s)
    PROVE  ClipInv'
<1>1. PICK b \in links : b = Back(s) /\ Back(b) = s /\ b # s
  BY BackFacts DEF ClipInv
<1>2. resolver \in [links -> Resolvers] /\ updates \in [links -> Seq(Updates)]
  BY DEF ClipInv, ClipTypeOK, Resolvers, Updates
<1>3. /\ resolver[s] \in Resolvers /\ resolver[b] \in Resolvers
      /\ updates[s] \in Seq(Updates) /\ updates[b] \in Seq(Updates)
  BY <1>2
<1>4. connected[s] /\ updates[s] # <<>> /\ UNCHANGED <<links, connected, copies>>
  BY DEF ReceiveAndApply
<1>5. PICK u \in Updates : u = Head(updates[s]) /\ u = updates[s][1] /\ 1 \in DOMAIN updates[s]
  <2>1. /\ Head(updates[s]) \in Updates /\ Head(updates[s]) = updates[s][1]
        /\ 1 \in DOMAIN updates[s]
    BY <1>3, <1>4
  <2> QED
    BY <2>1
<1>6. PICK A1 : A1 = OnInbound(resolver[s], Head(updates[s])).after
  OBVIOUS
<1>7. Link(resolver[s], resolver[b], updates[s], updates[b])
  BY <1>1, <1>4 DEF ClipInv, LinkOK
<1>8. A1 \in Resolvers /\ Link(A1, resolver[b], Tail(updates[s]), updates[b])
  BY <1>3, <1>4, <1>6, <1>7, ReceiveLink
<1>9. PICK T \in Seq(Updates) :
         T = Tail(updates[s]) /\ \A i \in DOMAIN T : i + 1 \in DOMAIN updates[s] /\ T[i] = updates[s][i + 1]
  <2>1. /\ Tail(updates[s]) \in Seq(Updates)
        /\ \A i \in DOMAIN Tail(updates[s]) :
              i + 1 \in DOMAIN updates[s] /\ Tail(updates[s])[i] = updates[s][i + 1]
    BY <1>3, <1>4
  <2> QED
    BY <2>1
<1>10. PICK res \in [links -> Resolvers] :
          /\ res = [resolver EXCEPT ![s] = A1]
          /\ res[s] = A1 /\ \A x \in links : x # s => res[x] = resolver[x]
  <2>1. /\ [resolver EXCEPT ![s] = A1] \in [links -> Resolvers]
        /\ [resolver EXCEPT ![s] = A1][s] = A1
        /\ \A x \in links : x # s => [resolver EXCEPT ![s] = A1][x] = resolver[x]
    BY <1>2, <1>8
  <2> QED
    BY <2>1
<1>11. PICK ups \in [links -> Seq(Updates)] :
          /\ ups = [updates EXCEPT ![s] = Tail(@)]
          /\ ups[s] = T /\ \A x \in links : x # s => ups[x] = updates[x]
  <2>1. [updates EXCEPT ![s] = Tail(@)] = [updates EXCEPT ![s] = T]
    BY <1>9
  <2>2. /\ [updates EXCEPT ![s] = T] \in [links -> Seq(Updates)]
        /\ [updates EXCEPT ![s] = T][s] = T
        /\ \A x \in links : x # s => [updates EXCEPT ![s] = T][x] = updates[x]
    BY <1>2
  <2> QED
    BY <2>1, <2>2
<1>12. Renumbered(s, res, ups)
  BY <1>6, <1>10, <1>11 DEF ReceiveAndApply, AcceptInbound
<1>13. Link(res[s], res[Back(s)], ups[s], ups[Back(s)])
  BY <1>1, <1>8, <1>9, <1>10, <1>11
<1>14. A1.held \notin LocalOnly
  <2>1. resolver[s].held \notin LocalOnly /\ u.held \notin LocalOnly
    BY <1>5 DEF ClipInv, SecretsStayLocal
  <2>2. resolver[s] \in Stamped(resolver[s], resolver[b], updates[s], updates[b])
        /\ u \in Stamped(resolver[s], resolver[b], updates[s], updates[b])
    BY <1>5 DEF Stamped
  <2>3. resolver[s].rank = u.rank => resolver[s].held = u.held
    BY <1>7, <2>2 DEF Link, OneHeld
  <2>4. resolver[s].rank <= resolver[s].clock
    BY <1>7 DEF Link, Half
  <2>5. A1.held = resolver[s].held \/ A1.held = u.held
    BY <1>3, <1>5, <1>6, <2>3, <2>4, InboundFacts
  <2> QED
    BY <2>1, <2>5
<1>15. ASSUME NEW x \in links
       PROVE  res[x].held \notin LocalOnly /\ \A i \in DOMAIN ups[x] : ups[x][i].held \notin LocalOnly
  <2>1. /\ resolver[x].held \notin LocalOnly
        /\ \A i \in DOMAIN updates[x] : updates[x][i].held \notin LocalOnly
    BY DEF ClipInv, SecretsStayLocal
  <2>2. CASE x = s
    BY <1>9, <1>10, <1>11, <1>14, <2>1, <2>2
  <2>3. CASE x # s
    BY <1>10, <1>11, <2>1, <2>3
  <2> QED
    BY <2>2, <2>3
<1>16. \A x \in links : x # s /\ x # Back(s) => res[x] = resolver[x] /\ ups[x] = updates[x]
  BY <1>10, <1>11
<1>17. clip' = clip \/ clip' = [clip EXCEPT ![s[1]] = u.held]
  BY <1>5 DEF ReceiveAndApply, BoardWith
<1>18. clip' \in [ClipDevices -> Contents \cup {Blank}]
  <2>1. clip \in [ClipDevices -> Contents \cup {Blank}]
    BY DEF ClipInv, ClipTypeOK
  <2>2. u.held \in Contents
    BY DEF Updates
  <2> QED
    BY <1>17, <2>1, <2>2
<1>19. copies' \in 0..MaxCopies
  BY <1>4 DEF ClipInv, ClipTypeOK
<1>20. clipFaults' \in 0..MaxClipFaults
  <2>1. clipFaults' = clipFaults \/ ClipFault
    BY DEF ReceiveAndApply
  <2> QED
    BY <2>1, ClipboardConstants DEF ClipFault, ClipInv, ClipTypeOK
<1>21. UNCHANGED <<links, connected>>
  BY <1>4
<1> QED
  BY <1>4, <1>12, <1>13, <1>15, <1>16, <1>18, <1>19, <1>20, <1>21, RenumberedInv

\* A connection that ends, for any reason, leaves nothing in flight.
LEMMA DisconnectInv ==
    ASSUME ClipInv, NEW s \in links, Disconnect(s), clipFaults' \in 0..MaxClipFaults
    PROVE  ClipInv'
<1>1. PICK b \in links : b = Back(s) /\ Back(b) = s /\ b # s
  BY BackFacts DEF ClipInv
<1>2. /\ updates \in [links -> Seq(Updates)] /\ connected \in [links -> BOOLEAN]
      /\ resolver \in [links -> Resolvers]
  BY DEF ClipInv, ClipTypeOK, Resolvers, Updates
<1>3. /\ connected' = [connected EXCEPT ![s] = FALSE, ![b] = FALSE]
      /\ updates' = [updates EXCEPT ![s] = <<>>, ![b] = <<>>]
      /\ UNCHANGED <<links, clip, resolver, copies>>
  BY <1>1 DEF Disconnect
<1>4. /\ ~connected'[s] /\ ~connected'[b] /\ updates'[s] = <<>> /\ updates'[b] = <<>>
      /\ \A x \in links : x # s /\ x # b => connected'[x] = connected[x] /\ updates'[x] = updates[x]
  BY <1>1, <1>2, <1>3
<1>5. updates' \in [links -> Seq(Updates)] /\ connected' \in [links -> BOOLEAN]
  <2>1. <<>> \in Seq(Updates)
    OBVIOUS
  <2>2. updates' \in [links -> Seq(Updates)]
    BY <1>2, <1>3, <2>1
  <2>3. connected' \in [links -> BOOLEAN]
    BY <1>2, <1>3
  <2> QED
    BY <2>2, <2>3
<1>7. ClipTypeOK'
  BY <1>3, <1>5 DEF ClipTypeOK, ClipInv, Updates
<1>8. SecretsStayLocal'
  <2>1. \A x \in links : updates'[x] = <<>> \/ updates'[x] = updates[x]
    BY <1>4
  <2>2. DOMAIN <<>> = {}
    OBVIOUS
  <2>3. ASSUME NEW x \in links
        PROVE  /\ resolver'[x].held \notin LocalOnly
               /\ \A i \in DOMAIN updates'[x] : updates'[x][i].held \notin LocalOnly
    BY <1>3, <2>1, <2>2 DEF ClipInv, SecretsStayLocal
  <2> QED
    BY <1>3, <2>3 DEF SecretsStayLocal
<1>9. ASSUME NEW x \in links PROVE WireOK(x)' /\ LinkOK(x)'
  <2>1. WireOK(x) /\ LinkOK(x)
    BY DEF ClipInv
  <2>2. CASE x \in {s, b}
    <3>1. ~connected'[x] /\ ~connected'[Back(x)] /\ updates'[x] = <<>>
      BY <1>1, <1>4, <2>2
    <3>2. connected'[x] \in BOOLEAN /\ connected'[Back(x)] \in BOOLEAN
      BY <1>1, <1>5, <2>2
    <3>3. connected'[x] = connected'[Back(x)]
      BY <3>1, <3>2
    <3> QED
      BY <3>1, <3>3 DEF WireOK, LinkOK
  <2>3. CASE x \notin {s, b}
    <3>1. PICK y \in links : y = Back(x) /\ Back(y) = x
      BY BackFacts DEF ClipInv
    <3>2. y # s /\ y # b
      BY <1>1, <2>3, <3>1
    <3>3. /\ connected'[x] = connected[x] /\ updates'[x] = updates[x]
          /\ connected'[y] = connected[y] /\ updates'[y] = updates[y] /\ resolver' = resolver
      BY <1>3, <1>4, <2>3, <3>2
    <3>4. RanksInUse(x, resolver', updates') = RanksInUse(x, resolver, updates)
      BY <3>1, <3>3, LinkRanks
    <3> QED
      BY <2>1, <3>1, <3>3, <3>4 DEF WireOK, LinkOK, Spaced
  <2> QED
    BY <2>2, <2>3
<1> QED
  BY <1>3, <1>7, <1>8, <1>9 DEF ClipInv

\* A selection that does not fit a frame ends the session.
LEMMA PollTooLargeInv ==
    ASSUME ClipInv, NEW s \in links, PollTooLarge(s)
    PROVE  ClipInv'
<1>1. Disconnect(s) /\ clipFaults' = clipFaults
  BY DEF PollTooLarge
<1>2. clipFaults' \in 0..MaxClipFaults
  BY <1>1 DEF ClipInv, ClipTypeOK
<1> QED
  BY <1>1, <1>2, DisconnectInv

\* The network loses a connection.
LEMMA ConnectionLostInv ==
    ASSUME ClipInv, NEW s \in links, ConnectionLost(s)
    PROVE  ClipInv'
<1>1. Disconnect(s) /\ clipFaults' \in 0..MaxClipFaults
  BY ClipboardConstants DEF ConnectionLost, ClipFault, ClipInv, ClipTypeOK
<1> QED
  BY <1>1, DisconnectInv

\* A new connection starts two fresh sessions.
LEMMA ReconnectedInv ==
    ASSUME ClipInv, NEW s \in links, Reconnected(s)
    PROVE  ClipInv'
<1>1. PICK b \in links : b = Back(s) /\ Back(b) = s /\ b # s
  BY BackFacts DEF ClipInv
<1>2. /\ updates \in [links -> Seq(Updates)] /\ connected \in [links -> BOOLEAN]
      /\ resolver \in [links -> Resolvers]
  BY DEF ClipInv, ClipTypeOK, Resolvers, Updates
<1>3. /\ connected' = [connected EXCEPT ![s] = TRUE, ![b] = TRUE]
      /\ resolver' = [resolver EXCEPT ![s] = FreshResolver, ![b] = FreshResolver]
      /\ UNCHANGED <<links, clip, updates, copies, clipFaults>>
  BY <1>1 DEF Reconnected
<1>4. PICK F \in Resolvers : /\ F = FreshResolver
                             /\ F.clock = 0 /\ F.rank = 0 /\ F.held = Blank
  <2>1. FreshResolver \in Resolvers
    BY DEF FreshResolver, Resolvers
  <2> QED
    BY <2>1 DEF FreshResolver
<1>5. /\ resolver'[s] = F /\ resolver'[b] = F
      /\ \A x \in links : x # s /\ x # b => connected'[x] = connected[x] /\ resolver'[x] = resolver[x]
  BY <1>1, <1>2, <1>3, <1>4
<1>6. connected'[s] = TRUE /\ connected'[b] = TRUE
  BY <1>1, <1>2, <1>3
<1>7. updates[s] = <<>> /\ updates[b] = <<>>
  <2>1. ~connected[s] /\ connected[s] = connected[b]
    BY <1>1 DEF Reconnected, ClipInv, WireOK
  <2> QED
    BY <2>1 DEF ClipInv, WireOK
<1>8. connected' \in [links -> BOOLEAN]
  BY <1>2, <1>3
<1>9. resolver' \in [links -> Resolvers]
  BY <1>2, <1>3, <1>4
<1>10. ClipTypeOK'
  BY <1>3, <1>8, <1>9 DEF ClipTypeOK, ClipInv, Resolvers
<1>11. SecretsStayLocal'
  <2>1. Blank \notin LocalOnly
    BY ClipboardConstants DEF LocalOnly
  <2>2. ASSUME NEW x \in links PROVE resolver'[x].held \notin LocalOnly
    BY <1>4, <1>5, <2>1 DEF ClipInv, SecretsStayLocal
  <2> QED
    BY <1>3, <2>2 DEF ClipInv, SecretsStayLocal
<1>12. Link(F, F, <<>>, <<>>) /\ \A r \in Ranks(F, <<>>) : r % 2 = 0
  <2>1. DOMAIN <<>> = {}
    OBVIOUS
  <2>2. Half(F, F, <<>>, <<>>)
    BY <1>4, <2>1 DEF Half
  <2>3. OneHeld(F, F, <<>>, <<>>)
    BY <2>1 DEF OneHeld, Stamped
  <2>4. Ranks(F, <<>>) = {0}
    BY <1>4, <2>1 DEF Ranks
  <2> QED
    BY <2>2, <2>3, <2>4 DEF Link
<1>13. ASSUME NEW x \in links PROVE WireOK(x)' /\ LinkOK(x)'
  <2>1. WireOK(x) /\ LinkOK(x)
    BY DEF ClipInv
  <2>2. CASE x \in {s, b}
    <3>1. /\ resolver'[x] = F /\ resolver'[Back(x)] = F
          /\ updates'[x] = <<>> /\ updates'[Back(x)] = <<>>
      BY <1>1, <1>3, <1>5, <1>7, <2>2
    <3>2. WireOK(x)'
      BY <1>1, <1>3, <1>6, <1>7, <2>2 DEF WireOK
    <3>3. RanksInUse(x, resolver', updates') = Ranks(F, <<>>)
      BY <3>1, LinkRanks
    <3> QED
      BY <1>12, <3>1, <3>2, <3>3 DEF LinkOK, Spaced
  <2>3. CASE x \notin {s, b}
    <3>1. PICK y \in links : y = Back(x) /\ Back(y) = x
      BY BackFacts DEF ClipInv
    <3>2. y # s /\ y # b
      BY <1>1, <2>3, <3>1
    <3>3. /\ connected'[x] = connected[x] /\ resolver'[x] = resolver[x]
          /\ connected'[y] = connected[y] /\ resolver'[y] = resolver[y] /\ updates' = updates
      BY <1>3, <1>5, <2>3, <3>2
    <3>4. RanksInUse(x, resolver', updates') = RanksInUse(x, resolver, updates)
      BY <3>1, <3>3, LinkRanks
    <3> QED
      BY <2>1, <3>1, <3>3, <3>4 DEF WireOK, LinkOK, Spaced
  <2> QED
    BY <2>2, <2>3
<1> QED
  BY <1>3, <1>10, <1>11, <1>13 DEF ClipInv

-----------------------------------------------------------------------------
(* The theorem                                                              *)

\* The first sessions are fresh and nothing is in flight.
LEMMA InitInv == ClipInit => ClipInv
<1> SUFFICES ASSUME ClipInit PROVE ClipInv
  OBVIOUS
<1>1. FreshResolver \in Resolvers
  BY DEF FreshResolver, Resolvers
<1>2. PICK F \in Resolvers : /\ F = FreshResolver
                             /\ F.clock = 0 /\ F.rank = 0 /\ F.held = Blank
  BY <1>1 DEF FreshResolver
<1>3. links \in Topologies /\ links \in SUBSET (ClipDevices \X ClipDevices)
  BY ClipboardConstants DEF ClipInit
<1>4. \A s \in links : resolver[s] = F /\ updates[s] = <<>> /\ connected[s] = TRUE
  BY <1>2 DEF ClipInit
<1>5. <<>> \in Seq(Updates) /\ DOMAIN <<>> = {}
  OBVIOUS
<1>6. ClipTypeOK
  <2>1. resolver \in [links -> Resolvers]
    BY <1>1 DEF ClipInit
  <2>2. updates \in [links -> Seq(Updates)]
    BY <1>5 DEF ClipInit
  <2>3. copies \in 0..MaxCopies /\ clipFaults \in 0..MaxClipFaults
    BY ClipboardConstants DEF ClipInit
  <2>4. connected \in [links -> BOOLEAN] /\ clip \in [ClipDevices -> Contents \cup {Blank}]
    BY DEF ClipInit
  <2> QED
    BY <1>3, <2>1, <2>2, <2>3, <2>4 DEF ClipTypeOK, Resolvers, Updates
<1>7. SecretsStayLocal
  BY <1>2, <1>4, <1>5, ClipboardConstants DEF SecretsStayLocal, LocalOnly
<1>8. ASSUME NEW s \in links PROVE WireOK(s) /\ LinkOK(s)
  <2>1. PICK b \in links : b = Back(s)
    BY <1>3, BackFacts
  <2>2. Half(F, F, <<>>, <<>>)
    BY <1>2, <1>5 DEF Half
  <2>3. OneHeld(F, F, <<>>, <<>>)
    BY <1>5 DEF OneHeld, Stamped
  <2>4. Ranks(F, <<>>) = {0}
    BY <1>2, <1>5 DEF Ranks
  <2>5. RanksInUse(s, resolver, updates) = {0}
    BY <1>4, <2>1, <2>4, LinkRanks
  <2>6. Spaced(s)
    BY <2>5 DEF Spaced
  <2>7. WireOK(s)
    BY <1>4, <2>1 DEF WireOK
  <2>8. Link(resolver[s], resolver[Back(s)], updates[s], updates[Back(s)])
    BY <1>4, <2>1, <2>2, <2>3 DEF Link
  <2> QED
    BY <2>6, <2>7, <2>8 DEF LinkOK
<1> QED
  BY <1>3, <1>6, <1>7, <1>8 DEF ClipInv

\* Every step preserves the invariant.
LEMMA NextInv == ClipInv /\ [ClipNext]_clipVars => ClipInv'
<1> SUFFICES ASSUME ClipInv, [ClipNext]_clipVars PROVE ClipInv'
  OBVIOUS
<1>1. ASSUME NEW d \in ClipDevices, NEW c \in Contents, CopySelection(d, c) PROVE ClipInv'
  BY <1>1, CopySelectionInv
<1>2. ASSUME NEW s \in links, PollAndSend(s) PROVE ClipInv'
  BY <1>2, PollAndSendInv
<1>3. ASSUME NEW s \in links, ReceiveAndApply(s) PROVE ClipInv'
  BY <1>3, ReceiveAndApplyInv
<1>4. ASSUME NEW s \in links, Reconnected(s) PROVE ClipInv'
  BY <1>4, ReconnectedInv
<1>5. ASSUME NEW s \in links, ConnectionLost(s) PROVE ClipInv'
  BY <1>5, ConnectionLostInv
<1>7. ASSUME NEW s \in links, PollTooLarge(s) PROVE ClipInv'
  BY <1>7, PollTooLargeInv
<1>6. CASE UNCHANGED clipVars
  <2>1. UNCHANGED <<links, clip, resolver, updates, connected, copies, clipFaults>>
    BY <1>6 DEF clipVars
  <2>2. ClipTypeOK' /\ links' \in Topologies /\ SecretsStayLocal'
    BY <2>1 DEF ClipInv, ClipTypeOK, SecretsStayLocal
  <2>3. \A s \in links : WireOK(s)' /\ LinkOK(s)'
    BY <2>1 DEF ClipInv, WireOK, LinkOK, Spaced
  <2> QED
    BY <2>1, <2>2, <2>3 DEF ClipInv
<1> QED
  BY <1>1, <1>2, <1>3, <1>4, <1>5, <1>6, <1>7 DEF ClipNext, SessionStep

\* On a quiet link neither end holds an older stamp than the other, so both
\* hold the selection of the one stamp.
LEMMA InvAgrees == ClipInv => LinksAgree
<1> SUFFICES ASSUME ClipInv PROVE LinksAgree
  OBVIOUS
<1>1. ASSUME NEW s \in links, connected[s], resolver[s].held # resolver[Back(s)].held,
             updates[s] = <<>>, updates[Back(s)] = <<>>
      PROVE  FALSE
  <2>1. PICK b \in links : b = Back(s)
    BY BackFacts DEF ClipInv
  <2>2. resolver[s].rank \in Nat /\ resolver[b].rank \in Nat
    BY DEF ClipInv, ClipTypeOK
  <2>3. Link(resolver[s], resolver[b], updates[s], updates[b])
    BY <1>1, <2>1 DEF ClipInv, LinkOK
  <2>4. DOMAIN <<>> = {}
    OBVIOUS
  <2>5. resolver[s].rank <= resolver[b].rank /\ resolver[b].rank <= resolver[s].rank
    BY <1>1, <2>1, <2>3, <2>4 DEF Link, Half
  <2>6. resolver[s].rank = resolver[b].rank
    BY <2>2, <2>5
  <2>7. resolver[s].held = resolver[b].held
    BY <2>3, <2>6 DEF Link, OneHeld, Stamped
  <2> QED
    BY <1>1, <2>1, <2>7
<1>2. NoSilentSplit
  BY <1>1 DEF NoSilentSplit
<1> QED
  BY <1>2 DEF LinksAgree, ClipInv

\* For any devices, topologies and selections, and whether or not the wall
\* clocks agree: a selection that is secret or too large never travels, and
\* the two
\* resolvers of a connected link hold different selections only while an update
\* is in flight between them, whatever echoes, losing stamps, failed clipboard
\* writes and lost connections have done (ConflictResolver::on_local_change and
\* on_inbound, prepare_outbound, receive_and_apply).
THEOREM LinksNeverSplit == ClipSpec => []LinksAgree
<1>1. ClipInit => ClipInv
  BY InitInv
<1>2. ClipInv /\ [ClipNext]_clipVars => ClipInv'
  BY NextInv
<1>3. ClipInv => LinksAgree
  BY InvAgrees
<1> QED
  BY <1>1, <1>2, <1>3, PTL DEF ClipSpec

-----------------------------------------------------------------------------
(* Subsequences                                                             *)

\* The ranks of a finite set of positions: different positions have different
\* ranks, between one and the number of positions.
LEMMA RankFacts ==
    ASSUME NEW n \in Nat, NEW I \in SUBSET (1..n)
    PROVE  /\ IsFiniteSet(I) /\ Cardinality(I) \in Nat /\ Cardinality(I) <= n
           /\ \A i \in I : Rank(I, i) \in 1..Cardinality(I)
           /\ \A i, j \in I : Rank(I, i) = Rank(I, j) => i = j
<1> DEFINE Low(i) == {j \in I : j <= i}
<1>1. IsFiniteSet(1..n) /\ Cardinality(1..n) = n
  BY FS_Interval
<1>2. IsFiniteSet(I) /\ Cardinality(I) <= n
  BY <1>1, FS_Subset
<1>3. Cardinality(I) \in Nat
  BY <1>2, FS_CardinalityType
<1>4. ASSUME NEW i \in I
      PROVE  /\ Low(i) \in SUBSET I /\ i \in Low(i) /\ IsFiniteSet(Low(i))
             /\ Cardinality(Low(i)) \in Nat /\ Cardinality(Low(i)) <= Cardinality(I)
             /\ Cardinality(Low(i)) # 0
  <2>1. Low(i) \in SUBSET I /\ i \in Low(i)
    <3>1. i \in Nat
      OBVIOUS
    <3> QED
      BY <3>1
  <2> HIDE DEF Low
  <2>2. IsFiniteSet(Low(i)) /\ Cardinality(Low(i)) <= Cardinality(I)
    BY <1>2, <2>1, FS_Subset
  <2>3. Cardinality(Low(i)) \in Nat
    BY <2>2, FS_CardinalityType
  <2>4. Cardinality(Low(i)) # 0
    BY <2>1, <2>2, FS_EmptySet
  <2> QED
    BY <2>1, <2>2, <2>3, <2>4
<1>5. \A i \in I : Rank(I, i) = Cardinality(Low(i))
  BY DEF Rank
<1>6. \A i \in I : Rank(I, i) \in 1..Cardinality(I)
  <2> HIDE DEF Low
  <2> QED
    BY <1>3, <1>4, <1>5
<1>7. ASSUME NEW i \in I, NEW j \in I, i < j PROVE Rank(I, i) # Rank(I, j)
  <2>1. i \in Nat /\ j \in Nat
    OBVIOUS
  <2>2. Low(i) \in SUBSET Low(j)
    <3>1. ASSUME NEW x \in I, x <= i PROVE x <= j
      <4>1. x \in Nat
        OBVIOUS
      <4> QED
        BY <1>7, <2>1, <3>1, <4>1
    <3> QED
      BY <3>1
  <2>3. j \notin Low(i)
    BY <1>7, <2>1
  <2> HIDE DEF Low
  <2>4. Cardinality(Low(j)) = Cardinality(Low(i)) => Low(j) = Low(i)
    BY <1>4, <2>2, FS_Subset
  <2> QED
    BY <1>4, <1>5, <2>3, <2>4
<1>8. \A i, j \in I : Rank(I, i) = Rank(I, j) => i = j
  <2>1. \A i, j \in I : i < j \/ j < i \/ i = j
    OBVIOUS
  <2> QED
    BY <1>7, <2>1
<1> QED
  BY <1>2, <1>3, <1>6, <1>8

\* Every number of positions is the rank of one of them.
LEMMA RankOnto ==
    ASSUME NEW n \in Nat, NEW I \in SUBSET (1..n), NEW k \in 1..Cardinality(I)
    PROVE  \E i \in I : Rank(I, i) = k
<1> DEFINE R == [i \in I |-> Rank(I, i)]
<1>1. /\ IsFiniteSet(I) /\ Cardinality(I) \in Nat
      /\ \A i \in I : Rank(I, i) \in 1..Cardinality(I)
      /\ \A i, j \in I : Rank(I, i) = Rank(I, j) => i = j
  BY RankFacts
<1>2. R \in Injection(I, 1..Cardinality(I))
  <2>1. R \in [I -> 1..Cardinality(I)]
    BY <1>1
  <2>2. \A i, j \in I : R[i] = R[j] => i = j
    BY <1>1
  <2> QED
    BY <2>1, <2>2 DEF Injection, IsInjective
<1>3. IsFiniteSet(1..Cardinality(I)) /\ Cardinality(1..Cardinality(I)) = Cardinality(I)
  BY <1>1, FS_Interval
<1>4. R \in Surjection(I, 1..Cardinality(I))
  <2> HIDE DEF R
  <2> QED
    BY <1>2, <1>3, FS_Injection
<1>5. \E i \in I : R[i] = k
  BY <1>4 DEF Surjection
<1> QED
  BY <1>5

\* t lists what s has at the positions in I, each position once.
Selected(s, I, t, S) ==
    /\ t \in Seq(S) /\ Len(t) = Cardinality(I) /\ Len(t) <= Len(s)
    /\ \A i \in I : \E k \in DOMAIN t : t[k] = s[i]
    /\ \E g \in [DOMAIN t -> I] :
          /\ \A k \in DOMAIN t : t[k] = s[g[k]]
          /\ \A k, l \in DOMAIN t : g[k] = g[l] => k = l

\* What Sub returns.
LEMMA SubFacts ==
    ASSUME NEW S, NEW s \in Seq(S), NEW I \in SUBSET (DOMAIN s)
    PROVE  Selected(s, I, Sub(s, I), S)
<1> DEFINE c == Cardinality(I)
           g == [k \in 1..c |-> CHOOSE i \in I : Rank(I, i) = k]
           t == Sub(s, I)
<1>1. Len(s) \in Nat /\ I \in SUBSET (1..Len(s)) /\ \A i \in I : s[i] \in S
  OBVIOUS
<1>2. /\ IsFiniteSet(I) /\ c \in Nat /\ c <= Len(s)
      /\ \A i \in I : Rank(I, i) \in 1..c
      /\ \A i, j \in I : Rank(I, i) = Rank(I, j) => i = j
  BY <1>1, RankFacts
<1>3. \A k \in 1..c : g[k] \in I /\ Rank(I, g[k]) = k
  BY <1>1, RankOnto
<1>4. \A k \in 1..c : t[k] = s[g[k]]
  BY DEF Sub
<1>5. t = [k \in 1..c |-> t[k]] /\ DOMAIN t = 1..c
  BY DEF Sub
<1> HIDE DEF g, t, c
<1>6. \A k \in 1..c : t[k] \in S
  BY <1>1, <1>3, <1>4
<1>7. t \in Seq(S) /\ Len(t) = c
  BY <1>2, <1>5, <1>6
<1>8. ASSUME NEW i \in I PROVE \E k \in DOMAIN t : t[k] = s[i]
  <2>1. Rank(I, i) \in 1..c /\ g[Rank(I, i)] = i
    BY <1>2, <1>3
  <2> QED
    BY <1>4, <1>5, <2>1
<1>9. g \in [DOMAIN t -> I]
  BY <1>3, <1>5 DEF g
<1>10. \A k, l \in DOMAIN t : g[k] = g[l] => k = l
  BY <1>3, <1>5
<1>11. Len(t) = Cardinality(I) /\ Len(t) <= Len(s)
  BY <1>2, <1>7 DEF c
<1>12. \E h \in [DOMAIN t -> I] :
          /\ \A k \in DOMAIN t : t[k] = s[h[k]]
          /\ \A k, l \in DOMAIN t : h[k] = h[l] => k = l
  BY <1>4, <1>5, <1>9, <1>10
<1>13. Selected(s, I, t, S)
  BY <1>7, <1>8, <1>11, <1>12 DEF Selected
<1> QED
  BY <1>13 DEF t

-----------------------------------------------------------------------------
(* Pruned lists and lists with a new front                                  *)

\* Entries of selections F from devices O.
EntriesOf(F, O) == [fp : F, origin : O, pinned : BOOLEAN]

\* t is what pruning s to m entries may leave: every pinned entry stays, and
\* only pinned ones do when they do not fit.
Pruned(s, t, m, S) ==
    \E K \in SUBSET (DOMAIN s) :
        /\ Selected(s, K, t, S)
        /\ \A i \in DOMAIN s : s[i].pinned => i \in K
        /\ Len(t) <= m \/ \A i \in K : s[i].pinned

\* What Prune returns.
LEMMA PruneFacts ==
    ASSUME NEW F, NEW O, NEW s \in Seq(EntriesOf(F, O)), NEW m, NEW b
    PROVE  Pruned(s, Prune(s, m, b), m, EntriesOf(F, O))
<1> DEFINE S == EntriesOf(F, O)
           ks == {k \in 0..Len(s) : Len(Sub(s, KeptAt(s, k))) <= m /\ Bytes(Sub(s, KeptAt(s, k))) <= b}
<1>1. Len(s) \in Nat /\ DOMAIN s = 1..Len(s) /\ \A i \in DOMAIN s : s[i].pinned \in BOOLEAN
  <2>1. Len(s) \in Nat /\ DOMAIN s = 1..Len(s) /\ \A i \in 1..Len(s) : s[i] \in EntriesOf(F, O)
    OBVIOUS
  <2>2. \A e \in EntriesOf(F, O) : e.pinned \in BOOLEAN
    BY DEF EntriesOf
  <2> QED
    BY <2>1, <2>2
<1>2. \A k : KeptAt(s, k) \in SUBSET (DOMAIN s) /\ \A i \in DOMAIN s : s[i].pinned => i \in KeptAt(s, k)
  BY <1>1 DEF KeptAt
<1>3. \A k : Selected(s, KeptAt(s, k), Sub(s, KeptAt(s, k)), S)
  BY <1>2, SubFacts
<1>4. \A i \in KeptAt(s, 0) : s[i].pinned
  <2> SUFFICES ASSUME NEW i \in DOMAIN s, ~ s[i].pinned, Cardinality({j \in 1..i : ~ s[j].pinned}) <= 0
               PROVE  FALSE
    BY DEF KeptAt
  <2> DEFINE U == {j \in 1..i : ~ s[j].pinned}
  <2>1. i \in Nat /\ i \in U
    BY <1>1
  <2>2. U \in SUBSET (1..i) /\ IsFiniteSet(1..i)
    BY <2>1, FS_Interval
  <2>3. Cardinality(U) <= 0
    OBVIOUS
  <2> HIDE DEF U
  <2>4. IsFiniteSet(U) /\ Cardinality(U) \in Nat
    BY <2>2, FS_Subset, FS_CardinalityType
  <2> QED
    BY <2>1, <2>3, <2>4, FS_EmptySet
<1>5. Prune(s, m, b) = IF ks = {} THEN Sub(s, KeptAt(s, 0))
                       ELSE Sub(s, KeptAt(s, CHOOSE k \in ks : \A l \in ks : l <= k))
  BY DEF Prune
<1>6. CASE ks = {}
  BY <1>2, <1>3, <1>4, <1>5, <1>6 DEF Pruned
<1>7. CASE ks # {}
  <2>1. ks \in SUBSET (0..Len(s)) /\ IsFiniteSet(0..Len(s)) /\ 0..Len(s) \in SUBSET Nat
    <3>1. IsFiniteSet(0..Len(s)) /\ 0..Len(s) \in SUBSET Nat
      BY <1>1, FS_Interval
    <3> QED
      BY <3>1
  <2>2. \A k \in ks : Len(Sub(s, KeptAt(s, k))) <= m
    OBVIOUS
  <2> HIDE DEF ks
  <2>3. ks \in SUBSET Nat /\ IsFiniteSet(ks)
    BY <2>1, FS_Subset
  <2>4. \E k \in ks : \A l \in ks : l <= k
    BY <1>7, <2>3, Greatest
  <2>5. PICK k \in ks : k = CHOOSE v \in ks : \A l \in ks : l <= v
    BY <2>4
  <2>6. Prune(s, m, b) = Sub(s, KeptAt(s, k)) /\ Len(Sub(s, KeptAt(s, k))) <= m
    BY <1>5, <1>7, <2>2, <2>5
  <2> QED
    BY <1>2, <1>3, <2>6 DEF Pruned
<1> QED
  BY <1>6, <1>7

\* No selection is listed twice.
Once(s) == \A i, j \in DOMAIN s : s[i].fp = s[j].fp => i = j

\* r is s with e in front and without the other entries of selection f.
Fronted(s, f, e, r, S) ==
    /\ r \in Seq(S) /\ Len(r) <= Len(s) + 1 /\ (Recorded(s, f) => Len(r) <= Len(s))
    /\ \E k \in DOMAIN r : r[k] = e
    /\ \A k \in DOMAIN r : r[k] = e \/ \E i \in DOMAIN s : s[i].fp # f /\ r[k] = s[i]
    /\ \A i \in DOMAIN s : s[i].fp # f => \E k \in DOMAIN r : r[k] = s[i]
    /\ e.fp = f /\ Once(s) => Once(r)

\* A selected part of a list without repetition has none.
LEMMA SelectedOnce ==
    ASSUME NEW S, NEW s, NEW I \in SUBSET (DOMAIN s), NEW t, Selected(s, I, t, S), Once(s)
    PROVE  Once(t)
<1>1. PICK g \in [DOMAIN t -> I] : /\ \A k \in DOMAIN t : t[k] = s[g[k]]
                                   /\ \A k, l \in DOMAIN t : g[k] = g[l] => k = l
  BY DEF Selected
<1> QED
  BY <1>1 DEF Once

\* Putting an entry in front of a list q.
LEMMA ConsFacts ==
    ASSUME NEW S, NEW e \in S, NEW q \in Seq(S)
    PROVE  /\ <<e>> \o q \in Seq(S) /\ Len(<<e>> \o q) = Len(q) + 1
           /\ (<<e>> \o q)[1] = e
           /\ \A k \in DOMAIN (<<e>> \o q) : k # 1 => k - 1 \in DOMAIN q /\ (<<e>> \o q)[k] = q[k - 1]
           /\ \A i \in DOMAIN q : i + 1 \in DOMAIN (<<e>> \o q) /\ (<<e>> \o q)[i + 1] = q[i]
<1>1. <<e>> \in Seq(S) /\ Len(<<e>>) = 1 /\ <<e>>[1] = e
  OBVIOUS
<1>2. Len(q) \in Nat /\ DOMAIN q = 1..Len(q)
  OBVIOUS
<1>3. <<e>> \o q \in Seq(S) /\ Len(<<e>> \o q) = Len(q) + 1
  BY <1>1, <1>2
<1>4. DOMAIN (<<e>> \o q) = 1..(Len(q) + 1)
  BY <1>3
<1>5. (<<e>> \o q)[1] = e
  BY <1>1, <1>2
<1>6. ASSUME NEW k \in 1..(Len(q) + 1), k # 1 PROVE k - 1 \in 1..Len(q) /\ (<<e>> \o q)[k] = q[k - 1]
  BY <1>1, <1>2, <1>6
<1>7. ASSUME NEW i \in 1..Len(q) PROVE i + 1 \in 1..(Len(q) + 1) /\ (<<e>> \o q)[i + 1] = q[i]
  BY <1>1, <1>2
<1> QED
  BY <1>2, <1>3, <1>4, <1>5, <1>6, <1>7

\* An entry in front of the entries of the other selections.
LEMMA FrontFacts ==
    ASSUME NEW S, NEW s \in Seq(S), NEW f, NEW e \in S, NEW q \in Seq(S), NEW I \in SUBSET (DOMAIN s),
           Selected(s, I, q, S), \A i \in DOMAIN s : i \in I <=> s[i].fp # f
    PROVE  Fronted(s, f, e, <<e>> \o q, S)
<1> DEFINE r == <<e>> \o q
<1>1. /\ r \in Seq(S) /\ Len(r) = Len(q) + 1 /\ r[1] = e
      /\ \A k \in DOMAIN r : k # 1 => k - 1 \in DOMAIN q /\ r[k] = q[k - 1]
      /\ \A i \in DOMAIN q : i + 1 \in DOMAIN r /\ r[i + 1] = q[i]
  BY ConsFacts
<1> HIDE DEF r
<1>2. /\ Len(s) \in Nat /\ Len(q) \in Nat /\ Len(r) \in Nat
      /\ DOMAIN s = 1..Len(s) /\ DOMAIN q = 1..Len(q) /\ DOMAIN r = 1..Len(r)
  BY <1>1
<1>3. PICK g \in [DOMAIN q -> I] : /\ \A k \in DOMAIN q : q[k] = s[g[k]]
                                   /\ \A k, l \in DOMAIN q : g[k] = g[l] => k = l
  BY DEF Selected
<1>4. Len(q) <= Len(s) /\ Len(q) = Cardinality(I)
  BY DEF Selected
<1>5. Recorded(s, f) => Len(q) # Len(s)
  <2>1. IsFiniteSet(1..Len(s)) /\ Cardinality(1..Len(s)) = Len(s)
    <3>1. PICK n \in Nat : n = Len(s)
      BY <1>2
    <3>2. IsFiniteSet(1..n) /\ Cardinality(1..n) = n
      BY FS_Interval
    <3> QED
      BY <3>1, <3>2
  <2>2. Len(q) = Len(s) => I = DOMAIN s
    BY <1>2, <1>4, <2>1, FS_Subset
  <2> QED
    BY <2>2 DEF Recorded, Position
<1>6. Len(r) <= Len(s) + 1 /\ (Recorded(s, f) => Len(r) <= Len(s))
  BY <1>1, <1>2, <1>4, <1>5
<1>7. 1 \in DOMAIN r
  BY <1>1, <1>2
<1>8. \A k \in DOMAIN r : k # 1 => g[k - 1] \in DOMAIN s /\ s[g[k - 1]].fp # f /\ r[k] = s[g[k - 1]]
  BY <1>1, <1>3
<1>9. \A k \in DOMAIN r : r[k] = e \/ \E i \in DOMAIN s : s[i].fp # f /\ r[k] = s[i]
  BY <1>1, <1>8
<1>10. ASSUME NEW i \in DOMAIN s, s[i].fp # f PROVE \E k \in DOMAIN r : r[k] = s[i]
  <2>1. \E k \in DOMAIN q : q[k] = s[i]
    BY <1>10 DEF Selected
  <2> QED
    BY <1>1, <2>1
<1>11. ASSUME e.fp = f, Once(s) PROVE Once(r)
  <2> SUFFICES ASSUME NEW k \in DOMAIN r, NEW l \in DOMAIN r, r[k].fp = r[l].fp, k # l PROVE FALSE
    BY DEF Once
  <2>1. k # 1 /\ l # 1
    BY <1>1, <1>8, <1>11
  <2>2. g[k - 1] = g[l - 1]
    BY <1>8, <1>11, <2>1 DEF Once
  <2>3. k - 1 = l - 1
    BY <1>1, <1>3, <2>1, <2>2
  <2>4. k \in Nat /\ l \in Nat
    BY <1>2
  <2> QED
    BY <2>3, <2>4
<1>12. Fronted(s, f, e, r, S)
  BY <1>1, <1>6, <1>7, <1>9, <1>10, <1>11 DEF Fronted
<1> QED
  BY <1>12 DEF r

\* t is the list s after selection f was recorded as e and the list was pruned
\* to m entries.
Filed(s, f, e, t, m, S) ==
    /\ t \in Seq(S) /\ (Recorded(s, f) => Len(t) <= Len(s))
    /\ \A k \in DOMAIN t : t[k] = e \/ \E i \in DOMAIN s : s[i].fp # f /\ t[k] = s[i]
    /\ \A i \in DOMAIN s : s[i].fp # f /\ s[i].pinned => \E k \in DOMAIN t : t[k] = s[i]
    /\ e.fp = f /\ Once(s) => Once(t)
    /\ Len(t) <= m \/ \A k \in DOMAIN t : t[k].pinned

\* Pruning a list with a new front.
LEMMA PruneFronted ==
    ASSUME NEW S, NEW s \in Seq(S), NEW f, NEW e, NEW r, Fronted(s, f, e, r, S),
           NEW m, NEW t, Pruned(r, t, m, S)
    PROVE  Filed(s, f, e, t, m, S)
<1>1. PICK K \in SUBSET (DOMAIN r) : /\ Selected(r, K, t, S)
                                     /\ \A i \in DOMAIN r : r[i].pinned => i \in K
                                     /\ Len(t) <= m \/ \A i \in K : r[i].pinned
  BY DEF Pruned
<1>2. PICK g \in [DOMAIN t -> K] : /\ \A k \in DOMAIN t : t[k] = r[g[k]]
                                   /\ \A k, l \in DOMAIN t : g[k] = g[l] => k = l
  BY <1>1 DEF Selected
<1>3. t \in Seq(S) /\ r \in Seq(S) /\ Len(t) <= Len(r) /\ (Recorded(s, f) => Len(r) <= Len(s))
  BY <1>1 DEF Selected, Fronted
<1>4. Recorded(s, f) => Len(t) <= Len(s)
  <2>1. Len(t) \in Nat /\ Len(r) \in Nat /\ Len(s) \in Nat
    BY <1>3
  <2> QED
    BY <1>3, <2>1
<1>5. \A k \in DOMAIN t : t[k] = e \/ \E i \in DOMAIN s : s[i].fp # f /\ t[k] = s[i]
  <2>1. \A k \in DOMAIN r : r[k] = e \/ \E i \in DOMAIN s : s[i].fp # f /\ r[k] = s[i]
    BY DEF Fronted
  <2> QED
    BY <1>2, <2>1
<1>6. ASSUME NEW i \in DOMAIN s, s[i].fp # f, s[i].pinned PROVE \E k \in DOMAIN t : t[k] = s[i]
  <2>1. PICK k \in DOMAIN r : r[k] = s[i]
    BY <1>6 DEF Fronted
  <2>2. k \in K
    BY <1>1, <1>6, <2>1
  <2> QED
    BY <1>1, <2>1, <2>2 DEF Selected
<1>7. e.fp = f /\ Once(s) => Once(t)
  <2>1. e.fp = f /\ Once(s) => Once(r)
    BY DEF Fronted
  <2> QED
    BY <1>1, <2>1, SelectedOnce
<1>8. Len(t) <= m \/ \A k \in DOMAIN t : t[k].pinned
  BY <1>1, <1>2
<1> QED
  BY <1>3, <1>4, <1>5, <1>6, <1>7, <1>8 DEF Filed

\* The front entry, with the pin that the selection had, is an entry.
LEMMA FrontEntry ==
    ASSUME NEW F, NEW O, NEW s, NEW f \in F, NEW o \in O
    PROVE  Entry(f, o, PinnedIn(s, f)) \in EntriesOf(F, O)
<1>1. PinnedIn(s, f) \in BOOLEAN
  BY Zenon DEF PinnedIn
<1>2. \A p \in BOOLEAN : Entry(f, o, p) \in EntriesOf(F, O)
  BY DEF Entry, EntriesOf
<1> QED
  BY <1>1, <1>2, Zenon

\* A list with selection f moved to its front.
LEMMA MovedFront ==
    ASSUME NEW F, NEW O, NEW s \in Seq(EntriesOf(F, O)), NEW f, NEW e \in EntriesOf(F, O)
    PROVE  /\ Fronted(s, f, e, <<e>> \o Others(s, f), EntriesOf(F, O))
           /\ ~ Recorded(s, f) => Fronted(s, f, e, <<e>> \o s, EntriesOf(F, O))
<1> DEFINE S == EntriesOf(F, O)
           I == {i \in DOMAIN s : s[i].fp # f}
<1>1. I \in SUBSET (DOMAIN s) /\ \A i \in DOMAIN s : i \in I <=> s[i].fp # f
  OBVIOUS
<1>2. Others(s, f) = Sub(s, I)
  BY DEF Others
<1> HIDE DEF I
<1>3. Selected(s, I, Others(s, f), S)
  BY <1>1, <1>2, SubFacts
<1>4. Others(s, f) \in Seq(S)
  BY <1>3 DEF Selected
<1>5. Fronted(s, f, e, <<e>> \o Others(s, f), S)
  BY <1>1, <1>3, <1>4, FrontFacts
<1>6. ASSUME ~ Recorded(s, f) PROVE Fronted(s, f, e, <<e>> \o s, S)
  <2>1. \A i \in DOMAIN s : i \in DOMAIN s <=> s[i].fp # f
    BY <1>6 DEF Recorded, Position
  <2>2. Selected(s, DOMAIN s, s, S)
    <3>1. PICK n \in Nat : n = Len(s) /\ DOMAIN s = 1..n
      OBVIOUS
    <3>2. Cardinality(1..n) = n
      BY FS_Interval
    <3>3. [k \in DOMAIN s |-> k] \in [DOMAIN s -> DOMAIN s]
      OBVIOUS
    <3>4. \E g \in [DOMAIN s -> DOMAIN s] :
             /\ \A k \in DOMAIN s : s[k] = s[g[k]]
             /\ \A k, l \in DOMAIN s : g[k] = g[l] => k = l
      <4> WITNESS [k \in DOMAIN s |-> k] \in [DOMAIN s -> DOMAIN s]
      <4> QED
        OBVIOUS
    <3>5. Len(s) = Cardinality(DOMAIN s) /\ Len(s) <= Len(s)
      BY <3>1, <3>2
    <3> QED
      BY <3>4, <3>5 DEF Selected
  <2>3. DOMAIN s \in SUBSET (DOMAIN s)
    OBVIOUS
  <2> QED
    BY <2>1, <2>2, <2>3, FrontFacts
<1> QED
  BY <1>5, <1>6

\* What ClipboardHistoryArchive::record returns.
LEMMA ArchiveRecordFacts ==
    ASSUME NEW s \in Seq(HistoryEntries), NEW f \in Selections, NEW o \in Peers \cup {Here}
    PROVE  Filed(s, f, Entry(f, o, PinnedIn(s, f)), ArchiveRecord(s, f, o), Capacity, HistoryEntries)
<1>1. HistoryEntries = EntriesOf(Selections, Peers \cup {Here})
  BY DEF HistoryEntries, EntriesOf
<1>2. PICK e \in HistoryEntries : e = Entry(f, o, PinnedIn(s, f))
  BY <1>1, FrontEntry
<1>3. PICK r : r = <<e>> \o Others(s, f)
  OBVIOUS
<1>4. Fronted(s, f, e, r, HistoryEntries)
  BY <1>1, <1>3, MovedFront
<1>5. r \in Seq(HistoryEntries)
  BY <1>4 DEF Fronted
<1>6. ArchiveRecord(s, f, o) = Prune(r, Capacity, MaxArchive)
  BY <1>2, <1>3 DEF ArchiveRecord
<1>7. Pruned(r, Prune(r, Capacity, MaxArchive), Capacity, HistoryEntries)
  BY <1>1, <1>5, PruneFacts
<1> QED
  BY <1>2, <1>4, <1>6, <1>7, PruneFronted

-----------------------------------------------------------------------------
(* The archive                                                              *)

\* A list that can be opened again: no selection twice, no more entries than the
\* history keeps, no more bytes than the archive holds, no secret, none too large.
Fits(s) ==
    /\ Once(s) /\ Len(s) <= Capacity /\ Bytes(s) <= MaxArchive
    /\ \A i \in DOMAIN s : s[i].fp \notin Secret /\ SizeOf[s[i].fp] <= MaxEntry

\* The inductive invariant: the bound on the number of entries is stronger than
\* the one decoding needs.
HistoryInv == HistoryTypeOK /\ Fits(archive) /\ OriginIsSender

\* The bytes of a list, one by one.
Cells(s) == UNION {{i} \X (1..SizeOf[s[i].fp]) : i \in DOMAIN s}

\* Which they are.
LEMMA CellFacts ==
    ASSUME NEW s
    PROVE  /\ Bytes(s) = Cardinality(Cells(s))
           /\ \A x : x \in Cells(s) <=> \E i \in DOMAIN s : \E b \in 1..SizeOf[s[i].fp] : x = <<i, b>>
  BY DEF Bytes, Cells

\* A list of entries that are not too large has finitely many.
LEMMA CellsFinite ==
    ASSUME NEW s \in Seq(HistoryEntries), \A i \in DOMAIN s : SizeOf[s[i].fp] <= MaxEntry
    PROVE  IsFiniteSet(Cells(s)) /\ Bytes(s) \in Nat
<1>1. PICK n \in Nat : n = Len(s) /\ DOMAIN s = 1..n
  OBVIOUS
<1>2. \A i \in DOMAIN s : SizeOf[s[i].fp] \in Nat
  <2>1. \A i \in 1..n : s[i] \in HistoryEntries
    BY <1>1
  <2>2. \A e \in HistoryEntries : e.fp \in Selections
    BY DEF HistoryEntries
  <2> QED
    BY <1>1, <2>1, <2>2, HistoryConstants
<1>3. MaxEntry \in Nat
  BY HistoryConstants
<1>4. \A i \in DOMAIN s : \A b \in 1..SizeOf[s[i].fp] : b \in 1..MaxEntry
  BY <1>2, <1>3
<1>5. Cells(s) \in SUBSET ((1..n) \X (1..MaxEntry))
  BY <1>1, <1>4, CellFacts
<1>6. IsFiniteSet(1..n) /\ IsFiniteSet(1..MaxEntry)
  BY <1>3, FS_Interval
<1>7. IsFiniteSet((1..n) \X (1..MaxEntry))
  BY <1>6, FS_Product
<1>8. IsFiniteSet(Cells(s))
  BY <1>5, <1>7, FS_Subset
<1> QED
  BY <1>8, CellFacts, FS_CardinalityType

\* A selected part takes no more bytes.
LEMMA SelectedBytes ==
    ASSUME NEW s \in Seq(HistoryEntries), \A i \in DOMAIN s : SizeOf[s[i].fp] <= MaxEntry,
           NEW I \in SUBSET (DOMAIN s), NEW t, Selected(s, I, t, HistoryEntries)
    PROVE  Bytes(t) <= Bytes(s)
<1>1. PICK g \in [DOMAIN t -> I] : /\ \A k \in DOMAIN t : t[k] = s[g[k]]
                                   /\ \A k, l \in DOMAIN t : g[k] = g[l] => k = l
  BY DEF Selected
<1> DEFINE h == [x \in Cells(t) |-> <<g[x[1]], x[2]>>]
<1>2. \A x \in Cells(t) : x[1] \in DOMAIN t /\ x[2] \in 1..SizeOf[t[x[1]].fp] /\ x = <<x[1], x[2]>>
  BY CellFacts
<1>3. h \in [Cells(t) -> Cells(s)]
  <2> SUFFICES ASSUME NEW x \in Cells(t) PROVE <<g[x[1]], x[2]>> \in Cells(s)
    OBVIOUS
  <2>1. g[x[1]] \in DOMAIN s /\ x[2] \in 1..SizeOf[s[g[x[1]]].fp]
    BY <1>1, <1>2
  <2> QED
    BY <2>1, CellFacts
<1>4. \A x, y \in Cells(t) : h[x] = h[y] => x = y
  <2> SUFFICES ASSUME NEW x \in Cells(t), NEW y \in Cells(t), h[x] = h[y] PROVE x = y
    OBVIOUS
  <2>1. g[x[1]] = g[y[1]] /\ x[2] = y[2]
    OBVIOUS
  <2>2. x[1] = y[1]
    BY <1>1, <1>2, <2>1
  <2> QED
    BY <1>2, <2>1, <2>2
<1>5. h \in Injection(Cells(t), Cells(s))
  <2> HIDE DEF h
  <2> QED
    BY <1>3, <1>4 DEF Injection, IsInjective
<1>6. IsFiniteSet(Cells(s))
  BY CellsFinite
<1>7. Cardinality(Cells(t)) <= Cardinality(Cells(s))
  <2> HIDE DEF h
  <2> QED
    BY <1>5, <1>6, FS_Injection
<1> QED
  BY <1>7, CellFacts

\* The limits hold when the archive is read back.
LEMMA FitsReadable ==
    ASSUME HistoryTypeOK, Fits(archive)
    PROVE  ArchiveReadable
<1>1. Len(archive) \in Nat /\ Capacity \in Nat
  BY HistoryConstants DEF HistoryTypeOK
<1>2. Len(archive) <= 4 * Capacity
  BY <1>1 DEF Fits
<1> QED
  BY <1>2 DEF Fits, ArchiveReadable, DecodeAccepts, Once

\* The empty archive fits.
LEMMA EmptyFits == Fits(<<>>)
<1>1. Len(<<>>) = 0 /\ DOMAIN <<>> = {}
  OBVIOUS
<1>2. Cells(<<>>) = {}
  BY <1>1, CellFacts
<1>3. Bytes(<<>>) = 0
  BY <1>2, CellFacts, FS_EmptySet
<1>4. Capacity \in Nat /\ MaxArchive \in Nat
  BY HistoryConstants
<1> QED
  BY <1>1, <1>3, <1>4 DEF Fits, Once

\* What is persisted after recording fits, and names the sender of f as o.
LEMMA RecordedFits ==
    ASSUME NEW s \in Seq(HistoryEntries), Fits(s), NEW f \in Selections, NEW o \in Peers \cup {Here},
           ~ ArchiveRefuses(f), NEW t, t = ArchiveRecord(s, f, o), Recorded(t, f), Bytes(t) <= MaxArchive
    PROVE  /\ t \in Seq(HistoryEntries) /\ Fits(t)
           /\ \A k \in DOMAIN t : \/ t[k].fp = f /\ t[k].origin = o
                                  \/ \E i \in DOMAIN s : s[i].fp # f /\ t[k] = s[i]
<1>1. PICK e : e = Entry(f, o, PinnedIn(s, f))
  OBVIOUS
<1>2. e.fp = f /\ e.origin = o /\ e.pinned = PinnedIn(s, f)
  <2>1. \A p : Entry(f, o, p).fp = f /\ Entry(f, o, p).origin = o /\ Entry(f, o, p).pinned = p
    BY DEF Entry
  <2> QED
    BY <1>1, <2>1, Zenon
<1>3. Filed(s, f, e, t, Capacity, HistoryEntries)
  BY <1>1, ArchiveRecordFacts
<1>4. t \in Seq(HistoryEntries) /\ Once(t)
  BY <1>2, <1>3 DEF Filed, Fits
<1>5. \A k \in DOMAIN t : t[k] = e \/ \E i \in DOMAIN s : s[i].fp # f /\ t[k] = s[i]
  BY <1>3 DEF Filed
<1>6. Len(t) <= Capacity
  <2>1. CASE Len(t) <= Capacity
    BY <2>1
  <2>2. CASE \A k \in DOMAIN t : t[k].pinned
    <3>1. PICK k \in DOMAIN t : t[k].fp = f
      BY DEF Recorded, Position
    <3>2. t[k] = e
      BY <1>5, <3>1
    <3>3. PinnedIn(s, f)
      BY <1>2, <2>2, <3>2
    <3>4. Recorded(s, f)
      BY <3>3 DEF PinnedIn, Recorded
    <3>5. Len(t) <= Len(s) /\ Len(s) <= Capacity
      BY <1>3, <3>4 DEF Filed, Fits
    <3>6. Len(t) \in Nat /\ Len(s) \in Nat /\ Capacity \in Nat
      BY <1>4, HistoryConstants
    <3> QED
      BY <3>5, <3>6
  <2> QED
    BY <1>3, <2>1, <2>2 DEF Filed
<1>7. f \notin Secret /\ SizeOf[f] <= MaxEntry
  <2>1. SizeOf[f] \in Nat /\ MaxEntry \in Nat
    BY HistoryConstants
  <2> QED
    BY <2>1 DEF ArchiveRefuses
<1>8. \A k \in DOMAIN t : t[k].fp \notin Secret /\ SizeOf[t[k].fp] <= MaxEntry
  BY <1>2, <1>5, <1>7 DEF Fits
<1>9. Fits(t)
  BY <1>4, <1>6, <1>8 DEF Fits
<1> QED
  BY <1>2, <1>4, <1>5, <1>9

\* The recording half of a writer of the archive: what it did to the archive.
LEMMA PersistFacts ==
    ASSUME HistoryInv, NEW f \in Selections, NEW o \in Peers \cup {Here}, ~ ArchiveRefuses(f),
           Persist(ArchiveRecord(archive, f, o), f)
    PROVE  /\ archive' \in Seq(HistoryEntries) /\ Fits(archive')
           /\ \/ archive' = archive
              \/ \A k \in DOMAIN archive' :
                    \/ archive'[k].fp = f /\ archive'[k].origin = o
                    \/ \E i \in DOMAIN archive : archive[i].fp # f /\ archive'[k] = archive[i]
<1>1. archive \in Seq(HistoryEntries) /\ Fits(archive)
  BY DEF HistoryInv, HistoryTypeOK
<1>2. PICK t : t = ArchiveRecord(archive, f, o)
  OBVIOUS
<1>3. archive' = IF Recorded(t, f) /\ Bytes(t) <= MaxArchive THEN t ELSE archive
  BY <1>2 DEF Persist
<1>4. CASE Recorded(t, f) /\ Bytes(t) <= MaxArchive
  <2>1. archive' = t
    BY <1>3, <1>4
  <2>2. /\ t \in Seq(HistoryEntries) /\ Fits(t)
        /\ \A k \in DOMAIN t : \/ t[k].fp = f /\ t[k].origin = o
                               \/ \E i \in DOMAIN archive : archive[i].fp # f /\ t[k] = archive[i]
    BY <1>1, <1>2, <1>4, RecordedFits
  <2> QED
    BY <2>1, <2>2
<1>5. CASE ~ (Recorded(t, f) /\ Bytes(t) <= MaxArchive)
  BY <1>1, <1>3, <1>5
<1> QED
  BY <1>4, <1>5

\* RecordReceived keeps the invariant: the sender is the origin of what was persisted.
LEMMA RecordReceivedInv ==
    ASSUME HistoryInv, RecordReceived
    PROVE  HistoryInv'
<1>1. PICK f \in Selections, p \in Peers : received = <<f, p>> /\ received[1] = f /\ received[2] = p
  BY DEF HistoryInv, HistoryTypeOK, RecordReceived
<1>2. archive \in Seq(HistoryEntries) /\ Fits(archive) /\ OriginIsSender /\ senders \in [Selections -> Peers \cup {Here}]
  BY DEF HistoryInv, HistoryTypeOK
<1>3. \A i \in DOMAIN archive : archive[i].fp \in Selections
  <2>1. \A i \in DOMAIN archive : archive[i] \in HistoryEntries
    BY <1>2
  <2> QED
    BY <2>1 DEF HistoryEntries
<1>4. received' = <<>> /\ UNCHANGED <<board, lastSeen, polled, historyOps>>
  BY DEF RecordReceived
<1>5. archive' \in Seq(HistoryEntries) /\ senders' \in [Selections -> Peers \cup {Here}] /\ Fits(archive') /\ OriginIsSender'
  <2>1. CASE ArchiveRefuses(f)
    <3>1. UNCHANGED <<archive, senders>>
      BY <1>1, <2>1 DEF RecordReceived
    <3> QED
      BY <1>2, <3>1 DEF OriginIsSender
  <2>2. CASE ~ ArchiveRefuses(f)
    <3>1. /\ Persist(ArchiveRecord(archive, f, p), f)
          /\ senders' = IF archive' = archive THEN senders ELSE [senders EXCEPT ![f] = p]
      BY <1>1, <2>2 DEF RecordReceived
    <3>2. /\ archive' \in Seq(HistoryEntries) /\ Fits(archive')
          /\ \/ archive' = archive
             \/ \A k \in DOMAIN archive' :
                   \/ archive'[k].fp = f /\ archive'[k].origin = p
                   \/ \E i \in DOMAIN archive : archive[i].fp # f /\ archive'[k] = archive[i]
      BY <2>2, <3>1, PersistFacts
    <3>3. senders' \in [Selections -> Peers \cup {Here}]
      BY <1>2, <3>1
    <3>4. CASE archive' = archive
      BY <1>2, <3>1, <3>2, <3>3, <3>4 DEF OriginIsSender
    <3>5. CASE archive' # archive
      <4>1. senders' = [senders EXCEPT ![f] = p]
        BY <3>1, <3>5
      <4>2. senders'[f] = p /\ \A i \in DOMAIN archive : archive[i].fp # f => senders'[archive[i].fp] = senders[archive[i].fp]
        BY <1>2, <1>3, <4>1
      <4>3. \A k \in DOMAIN archive' : archive'[k].origin = senders'[archive'[k].fp]
        BY <1>2, <3>2, <3>5, <4>2 DEF OriginIsSender
      <4> QED
        BY <3>2, <3>3, <4>3 DEF OriginIsSender
    <3> QED
      BY <3>4, <3>5
  <2> QED
    BY <2>1, <2>2
<1>6. HistoryTypeOK'
  BY <1>4, <1>5 DEF HistoryInv, HistoryTypeOK
<1> QED
  BY <1>5, <1>6 DEF HistoryInv

\* RecordPolled keeps it: the poll keeps the origin of a selection that is known.
LEMMA RecordPolledInv ==
    ASSUME HistoryInv, RecordPolled
    PROVE  HistoryInv'
<1>1. PICK f \in Selections : polled = f
  BY DEF HistoryInv, HistoryTypeOK, RecordPolled
<1>2. archive \in Seq(HistoryEntries) /\ Fits(archive) /\ OriginIsSender /\ senders \in [Selections -> Peers \cup {Here}]
  BY DEF HistoryInv, HistoryTypeOK
<1>3. \A i \in DOMAIN archive : archive[i].fp \in Selections
  <2>1. \A i \in DOMAIN archive : archive[i] \in HistoryEntries
    BY <1>2
  <2> QED
    BY <2>1 DEF HistoryEntries
<1>4. polled' = "none" /\ UNCHANGED <<board, lastSeen, received, historyOps>>
  BY DEF RecordPolled
<1>5. senders' = IF Recorded(archive, f) THEN senders ELSE [senders EXCEPT ![f] = Here]
  BY <1>1 DEF RecordPolled
<1>6. senders' \in [Selections -> Peers \cup {Here}]
  BY <1>2, <1>5
<1>7. \A i \in DOMAIN archive : senders'[archive[i].fp] = senders[archive[i].fp]
  <2>1. \A i \in DOMAIN archive : ~ Recorded(archive, f) => archive[i].fp # f
    BY DEF Recorded, Position
  <2> QED
    BY <1>2, <1>3, <1>5, <2>1
<1>8. senders'[f] = PolledOrigin(f)
  <2>1. CASE Recorded(archive, f)
    <3>1. PICK i \in Position(archive, f) : i = CHOOSE j \in Position(archive, f) : TRUE
      BY <2>1 DEF Recorded
    <3>2. i \in DOMAIN archive /\ archive[i].fp = f
      BY DEF Position
    <3>3. PolledOrigin(f) = archive[i].origin
      BY <2>1, <3>1 DEF PolledOrigin, Recorded
    <3> QED
      BY <1>2, <1>5, <2>1, <3>2, <3>3 DEF OriginIsSender
  <2>2. CASE ~ Recorded(archive, f)
    <3>1. PolledOrigin(f) = Here
      BY <2>2 DEF PolledOrigin, Recorded
    <3> QED
      BY <1>2, <1>5, <2>2, <3>1
  <2> QED
    BY <2>1, <2>2
<1>9. PICK o \in Peers \cup {Here} : o = PolledOrigin(f)
  BY <1>6, <1>8
<1>10. archive' \in Seq(HistoryEntries) /\ Fits(archive') /\ OriginIsSender'
  <2>1. CASE ArchiveRefuses(f)
    <3>1. archive' = archive
      BY <1>1, <2>1 DEF RecordPolled
    <3> QED
      BY <1>2, <1>7, <3>1 DEF OriginIsSender
  <2>2. CASE ~ ArchiveRefuses(f)
    <3>1. Persist(ArchiveRecord(archive, f, o), f)
      BY <1>1, <1>9, <2>2 DEF RecordPolled
    <3>2. /\ archive' \in Seq(HistoryEntries) /\ Fits(archive')
          /\ \/ archive' = archive
             \/ \A k \in DOMAIN archive' :
                   \/ archive'[k].fp = f /\ archive'[k].origin = o
                   \/ \E i \in DOMAIN archive : archive[i].fp # f /\ archive'[k] = archive[i]
      BY <2>2, <3>1, PersistFacts
    <3>3. \A k \in DOMAIN archive' : archive'[k].origin = senders'[archive'[k].fp]
      BY <1>2, <1>7, <1>8, <1>9, <3>2 DEF OriginIsSender
    <3> QED
      BY <3>2, <3>3 DEF OriginIsSender
  <2> QED
    BY <2>1, <2>2
<1>11. HistoryTypeOK'
  BY <1>4, <1>6, <1>10 DEF HistoryInv, HistoryTypeOK
<1> QED
  BY <1>10, <1>11 DEF HistoryInv

\* Pinning changes no selection, sender or size.
LEMMA SetPinnedInv ==
    ASSUME HistoryInv, NEW f \in Selections, NEW p \in BOOLEAN, SetPinned(f, p)
    PROVE  HistoryInv'
<1>1. archive \in Seq(HistoryEntries) /\ Fits(archive) /\ OriginIsSender /\ historyOps \in 0..MaxHistoryOps
  BY DEF HistoryInv, HistoryTypeOK
<1>2. PICK n \in Nat : n = Len(archive) /\ DOMAIN archive = 1..n
  BY <1>1
<1>3. \A i \in 1..n : archive[i] \in HistoryEntries
  BY <1>1, <1>2
<1>4. archive' = [i \in 1..n |-> IF archive[i].fp = f THEN [archive[i] EXCEPT !.pinned = p] ELSE archive[i]]
  BY <1>2 DEF SetPinned
<1>5. \A e \in HistoryEntries : /\ [e EXCEPT !.pinned = p] \in HistoryEntries
                                /\ [e EXCEPT !.pinned = p].fp = e.fp /\ [e EXCEPT !.pinned = p].origin = e.origin
  BY DEF HistoryEntries
<1>6. DOMAIN archive' = 1..n /\ \A i \in 1..n : /\ archive'[i] \in HistoryEntries
                                                /\ archive'[i].fp = archive[i].fp /\ archive'[i].origin = archive[i].origin
  BY <1>3, <1>4, <1>5
<1>7. archive' \in Seq(HistoryEntries) /\ Len(archive') = n
  <2>1. archive' \in [1..n -> HistoryEntries]
    BY <1>4, <1>6
  <2> QED
    BY <2>1
<1>8. Cells(archive') = Cells(archive)
  <2>1. \A x : x \in Cells(archive') <=> \E i \in DOMAIN archive' : \E b \in 1..SizeOf[archive'[i].fp] : x = <<i, b>>
    BY CellFacts
  <2>2. \A x : x \in Cells(archive) <=> \E i \in DOMAIN archive : \E b \in 1..SizeOf[archive[i].fp] : x = <<i, b>>
    BY CellFacts
  <2> QED
    BY <1>2, <1>6, <2>1, <2>2
<1>9. Bytes(archive') = Bytes(archive)
  BY <1>8, CellFacts
<1>10. Fits(archive')
  BY <1>1, <1>2, <1>6, <1>7, <1>9 DEF Fits, Once
<1>11. UNCHANGED <<board, lastSeen, polled, received, senders>> /\ historyOps' \in 0..MaxHistoryOps
  BY <1>1, HistoryConstants DEF SetPinned, Op
<1>12. OriginIsSender'
  BY <1>1, <1>2, <1>6, <1>11 DEF OriginIsSender
<1>13. HistoryTypeOK'
  BY <1>7, <1>11 DEF HistoryInv, HistoryTypeOK
<1> QED
  BY <1>10, <1>12, <1>13 DEF HistoryInv

\* Clearing keeps a part of the archive.
LEMMA ClearUnpinnedInv ==
    ASSUME HistoryInv, ClearUnpinned
    PROVE  HistoryInv'
<1>1. archive \in Seq(HistoryEntries) /\ Fits(archive) /\ OriginIsSender /\ historyOps \in 0..MaxHistoryOps
  BY DEF HistoryInv, HistoryTypeOK
<1>2. PICK I \in SUBSET (DOMAIN archive) : archive' = Sub(archive, I)
  BY DEF ClearUnpinned
<1>3. PICK t : t = archive'
  OBVIOUS
<1>4. Selected(archive, I, t, HistoryEntries)
  BY <1>1, <1>2, <1>3, SubFacts
<1>5. PICK g \in [DOMAIN t -> I] : /\ \A k \in DOMAIN t : t[k] = archive[g[k]]
                                   /\ \A k, l \in DOMAIN t : g[k] = g[l] => k = l
  BY <1>4 DEF Selected
<1>6. t \in Seq(HistoryEntries) /\ Len(t) <= Len(archive)
  BY <1>4 DEF Selected
<1>7. \A k \in DOMAIN t : g[k] \in DOMAIN archive /\ t[k] = archive[g[k]]
  BY <1>5
<1>8. Fits(t)
  <2>1. Once(t)
    BY <1>1, <1>4, SelectedOnce DEF Fits
  <2>2. \A i \in DOMAIN archive : archive[i].fp \notin Secret /\ SizeOf[archive[i].fp] <= MaxEntry
    BY <1>1 DEF Fits
  <2>3. Bytes(t) <= Bytes(archive)
    BY <1>1, <1>4, <2>2, SelectedBytes
  <2>4. \A k \in DOMAIN t : t[k].fp \notin Secret /\ SizeOf[t[k].fp] <= MaxEntry
    BY <1>7, <2>2
  <2>5. Bytes(archive) \in Nat /\ Bytes(t) \in Nat
    BY <1>1, <1>6, <2>2, <2>4, CellsFinite
  <2>6. Len(t) \in Nat /\ Len(archive) \in Nat /\ Capacity \in Nat /\ MaxArchive \in Nat
    BY <1>1, <1>6, HistoryConstants
  <2>7. Len(archive) <= Capacity /\ Bytes(archive) <= MaxArchive
    BY <1>1 DEF Fits
  <2>8. Len(t) <= Capacity /\ Bytes(t) <= MaxArchive
    BY <1>6, <2>3, <2>5, <2>6, <2>7
  <2> QED
    BY <2>1, <2>4, <2>8 DEF Fits
<1>9. UNCHANGED <<board, lastSeen, polled, received, senders>> /\ historyOps' \in 0..MaxHistoryOps
  BY <1>1, HistoryConstants DEF ClearUnpinned, Op
<1>10. \A k \in DOMAIN t : t[k].origin = senders[t[k].fp]
  BY <1>1, <1>7 DEF OriginIsSender
<1>11. OriginIsSender'
  BY <1>3, <1>9, <1>10 DEF OriginIsSender
<1>12. HistoryTypeOK'
  BY <1>3, <1>6, <1>9 DEF HistoryInv, HistoryTypeOK
<1> QED
  BY <1>3, <1>8, <1>11, <1>12 DEF HistoryInv

\* The steps that leave the archive and the senders alone.
LEMMA BoardStepsInv ==
    ASSUME HistoryInv,
           \/ \E f \in Selections : UserCopies(f)
           \/ \E f \in Selections, p \in Peers : PeerSelection(f, p)
           \/ BoardEmptied \/ PollBoard \/ UNCHANGED historyVars
    PROVE  HistoryInv'
<1>1. historyOps \in 0..MaxHistoryOps /\ MaxHistoryOps \in Nat
  BY HistoryConstants DEF HistoryInv, HistoryTypeOK
<1>2. UNCHANGED <<archive, senders>>
  BY DEF UserCopies, PeerSelection, BoardEmptied, PollBoard, historyVars
<1>3. HistoryTypeOK'
  <2>1. archive' \in Seq(HistoryEntries) /\ senders' \in [Selections -> Peers \cup {Here}]
    BY <1>2 DEF HistoryInv, HistoryTypeOK
  <2>2. historyOps' \in 0..MaxHistoryOps
    BY <1>1 DEF UserCopies, PeerSelection, BoardEmptied, PollBoard, historyVars, Op
  <2>3. /\ board' \in Selections \cup {"none"}
        /\ lastSeen' \in Selections \cup {"none"} /\ polled' \in Selections \cup {"none"}
    BY DEF UserCopies, PeerSelection, BoardEmptied, PollBoard, historyVars, HistoryInv, HistoryTypeOK
  <2>4. received' \in {<<>>} \cup (Selections \X Peers)
    BY DEF UserCopies, PeerSelection, BoardEmptied, PollBoard, historyVars, HistoryInv, HistoryTypeOK
  <2> QED
    BY <2>1, <2>2, <2>3, <2>4 DEF HistoryTypeOK
<1>4. Fits(archive')
  BY <1>2 DEF HistoryInv
<1>5. OriginIsSender'
  BY <1>2 DEF HistoryInv, OriginIsSender
<1> QED
  BY <1>3, <1>4, <1>5 DEF HistoryInv

\* Init and every step.
LEMMA HistoryInitInv == HistoryInit => HistoryInv
<1> SUFFICES ASSUME HistoryInit PROVE HistoryInv
  OBVIOUS
<1>1. archive = <<>> /\ board = "none" /\ lastSeen = "none" /\ polled = "none" /\ received = <<>>
  BY DEF HistoryInit
<1>2. senders \in [Selections -> Peers \cup {Here}]
  BY DEF HistoryInit
<1>3. historyOps \in 0..MaxHistoryOps
  BY HistoryConstants DEF HistoryInit
<1>4. archive \in Seq(HistoryEntries) /\ DOMAIN archive = {}
  BY <1>1
<1>5. HistoryTypeOK
  BY <1>1, <1>2, <1>3, <1>4 DEF HistoryTypeOK
<1>6. Fits(archive)
  BY <1>1, EmptyFits
<1>7. OriginIsSender
  BY <1>4 DEF OriginIsSender
<1> QED
  BY <1>5, <1>6, <1>7 DEF HistoryInv

\* Every step of the archive keeps its invariant.
LEMMA HistoryNextInv == HistoryInv /\ [HistoryNext]_historyVars => HistoryInv'
  BY RecordReceivedInv, RecordPolledInv, SetPinnedInv, ClearUnpinnedInv, BoardStepsInv DEF HistoryNext

\* Every pinned entry of s is still in t.
PinsKept(s, t) == \A i \in DOMAIN s : s[i].pinned => Recorded(t, s[i].fp)

\* Recording a selection leaves the pinned entries of the archive in it.
LEMMA PersistPins ==
    ASSUME HistoryInv, NEW f \in Selections, NEW o \in Peers \cup {Here},
           Persist(ArchiveRecord(archive, f, o), f)
    PROVE  PinsKept(archive, archive')
<1>1. archive \in Seq(HistoryEntries)
  BY DEF HistoryInv, HistoryTypeOK
<1>2. PICK t : t = ArchiveRecord(archive, f, o)
  OBVIOUS
<1>3. archive' = IF Recorded(t, f) /\ Bytes(t) <= MaxArchive THEN t ELSE archive
  BY <1>2 DEF Persist
<1>4. CASE archive' = archive
  BY <1>4 DEF PinsKept, Recorded, Position
<1>5. CASE archive' = t /\ Recorded(t, f)
  <2> SUFFICES ASSUME NEW i \in DOMAIN archive, archive[i].pinned PROVE Recorded(t, archive[i].fp)
    BY <1>5 DEF PinsKept
  <2>1. CASE archive[i].fp = f
    BY <1>5, <2>1
  <2>2. CASE archive[i].fp # f
    <3>1. Filed(archive, f, Entry(f, o, PinnedIn(archive, f)), t, Capacity, HistoryEntries)
      BY <1>1, <1>2, ArchiveRecordFacts
    <3>2. \E k \in DOMAIN t : t[k] = archive[i]
      BY <2>2, <3>1 DEF Filed
    <3> QED
      BY <3>2 DEF Recorded, Position
  <2> QED
    BY <2>1, <2>2
<1> QED
  BY <1>3, <1>4, <1>5

\* No step drops a pinned entry.
LEMMA PinsStep ==
    ASSUME HistoryInv, [HistoryNext]_historyVars
    PROVE  PinsKept(archive, archive')
<1>1. archive \in Seq(HistoryEntries)
  BY DEF HistoryInv, HistoryTypeOK
<1>2. CASE archive' = archive
  BY <1>2 DEF PinsKept, Recorded, Position
<1>3. CASE RecordReceived
  <2>1. PICK f \in Selections, p \in Peers : received[1] = f /\ received[2] = p
    BY <1>3 DEF HistoryInv, HistoryTypeOK, RecordReceived
  <2>2. archive' = archive \/ Persist(ArchiveRecord(archive, f, p), f)
    BY <1>3, <2>1 DEF RecordReceived
  <2> QED
    BY <1>2, <2>2, PersistPins
<1>4. CASE RecordPolled
  <2>1. PICK f \in Selections : polled = f
    BY <1>4 DEF HistoryInv, HistoryTypeOK, RecordPolled
  <2>2. archive' = archive \/ Persist(ArchiveRecord(archive, f, PolledOrigin(f)), f)
    BY <1>4, <2>1 DEF RecordPolled
  <2>3. PolledOrigin(f) \in Peers \cup {Here}
    <3>1. CASE Position(archive, f) = {}
      BY <3>1 DEF PolledOrigin
    <3>2. CASE Position(archive, f) # {}
      <4>1. PICK i \in DOMAIN archive : PolledOrigin(f) = archive[i].origin
        BY <3>2 DEF PolledOrigin, Position
      <4>2. archive[i] \in HistoryEntries
        BY <1>1
      <4> QED
        BY <4>1, <4>2 DEF HistoryEntries
    <3> QED
      BY <3>1, <3>2
  <2> QED
    BY <1>2, <2>2, <2>3, PersistPins
<1>5. CASE ClearUnpinned
  <2>1. PICK I \in SUBSET (DOMAIN archive) : I = {i \in DOMAIN archive : archive[i].pinned}
    OBVIOUS
  <2>2. Selected(archive, I, archive', HistoryEntries)
    BY <1>1, <1>5, <2>1, SubFacts DEF ClearUnpinned
  <2>3. \A i \in I : \E k \in DOMAIN archive' : archive'[k] = archive[i]
    BY <2>2 DEF Selected
  <2> QED
    BY <2>1, <2>3 DEF PinsKept, Recorded, Position
<1>6. CASE \E f \in Selections, p \in BOOLEAN : SetPinned(f, p)
  <2>1. PICK f \in Selections, p \in BOOLEAN : SetPinned(f, p)
    BY <1>6
  <2>2. archive' = [i \in DOMAIN archive |->
                      IF archive[i].fp = f THEN [archive[i] EXCEPT !.pinned = p] ELSE archive[i]]
    BY <2>1 DEF SetPinned
  <2>3. \A i \in DOMAIN archive : archive[i] \in HistoryEntries
    BY <1>1
  <2>4. \A e \in HistoryEntries : [e EXCEPT !.pinned = p].fp = e.fp
    BY DEF HistoryEntries
  <2>5. DOMAIN archive' = DOMAIN archive /\ \A i \in DOMAIN archive : archive'[i].fp = archive[i].fp
    BY <2>2, <2>3, <2>4
  <2> QED
    BY <2>5 DEF PinsKept, Recorded, Position
<1>7. \/ archive' = archive
      \/ RecordReceived \/ RecordPolled \/ ClearUnpinned
      \/ \E f \in Selections, p \in BOOLEAN : SetPinned(f, p)
  BY DEF HistoryNext, UserCopies, PeerSelection, BoardEmptied, PollBoard, historyVars
<1> QED
  BY <1>2, <1>3, <1>4, <1>5, <1>6, <1>7

\* A pinned entry leaves the archive of any device only after it was unpinned:
\* recording, pruning at any limit and clear_unpinned keep it.
THEOREM PinnedStay == HistorySpec => PinnedEntriesStay
<1>1. HistoryInit => HistoryInv
  BY HistoryInitInv
<1>2. HistoryInv /\ [HistoryNext]_historyVars => HistoryInv'
  BY HistoryNextInv
<1>3. HistoryInv /\ [HistoryNext]_historyVars =>
         [\A i \in DOMAIN archive : archive[i].pinned => Recorded(archive', archive[i].fp)]_historyVars
  BY PinsStep DEF PinsKept
<1> QED
  BY <1>1, <1>2, <1>3, PTL DEF HistorySpec, PinnedEntriesStay

-----------------------------------------------------------------------------
(* The shared timeline                                                      *)

TimelineEntries == EntriesOf(TimelineItems, TimelinePeers \cup {TimelineOwner})

\* The inductive invariant.
TimelineInv == timeline \in Seq(TimelineEntries) /\ SharingFollowsHistory

\* What ClipboardHistory::record returns for a list that is full only of pinned
\* entries, if it is too long.
LEMMA TimelineRecordFacts ==
    ASSUME NEW s \in Seq(TimelineEntries), NEW f \in TimelineItems, NEW o \in TimelinePeers \cup {TimelineOwner},
           Len(s) > TimelineCapacity => \A i \in DOMAIN s : s[i].pinned
    PROVE  Filed(s, f, Entry(f, o, PinnedIn(s, f)), TimelineRecord(s, f, o), TimelineCapacity, TimelineEntries)
<1>1. PICK e \in TimelineEntries : e = Entry(f, o, PinnedIn(s, f))
  BY FrontEntry DEF TimelineEntries
<1>2. CASE Recorded(s, f)
  <2>1. PICK r : r = <<e>> \o Others(s, f)
    OBVIOUS
  <2>2. Fronted(s, f, e, r, TimelineEntries)
    BY <2>1, MovedFront DEF TimelineEntries
  <2>3. TimelineRecord(s, f, o) = r
    BY <1>1, <1>2, <2>1 DEF TimelineRecord
  <2>4. r \in Seq(TimelineEntries) /\ Len(r) <= Len(s)
    BY <1>2, <2>2 DEF Fronted
  <2>5. \A k \in DOMAIN r : r[k] = e \/ \E i \in DOMAIN s : s[i].fp # f /\ r[k] = s[i]
    BY <2>2 DEF Fronted
  <2>6. Len(r) <= TimelineCapacity \/ \A k \in DOMAIN r : r[k].pinned
    <3>1. Len(r) \in Nat /\ Len(s) \in Nat /\ TimelineCapacity \in Nat
      BY <2>4, TimelineConstants
    <3>2. CASE Len(s) <= TimelineCapacity
      BY <2>4, <3>1, <3>2
    <3>3. CASE Len(s) > TimelineCapacity
      <4>1. \A i \in DOMAIN s : s[i].pinned
        BY <3>3
      <4>2. PinnedIn(s, f)
        BY <1>2, <4>1 DEF PinnedIn, Recorded, Position
      <4>3. e.pinned
        <5>1. \A p : Entry(f, o, p).pinned = p
          BY DEF Entry
        <5> QED
          BY <1>1, <4>2, <5>1, Zenon
      <4> QED
        BY <2>5, <4>1, <4>3
    <3> QED
      BY <3>1, <3>2, <3>3
  <2>7. Filed(s, f, e, r, TimelineCapacity, TimelineEntries)
    <3>1. /\ \A i \in DOMAIN s : s[i].fp # f => \E k \in DOMAIN r : r[k] = s[i]
          /\ e.fp = f /\ Once(s) => Once(r)
      BY <2>2 DEF Fronted
    <3> QED
      BY <2>4, <2>5, <2>6, <3>1 DEF Filed
  <2> QED
    BY <1>1, <2>3, <2>7
<1>3. CASE ~ Recorded(s, f)
  <2>1. PICK r : r = <<e>> \o s
    OBVIOUS
  <2>2. Fronted(s, f, e, r, TimelineEntries)
    BY <1>3, <2>1, MovedFront DEF TimelineEntries
  <2>3. e = Entry(f, o, FALSE)
    <3>1. PinnedIn(s, f) = FALSE
      BY <1>3, Zenon DEF PinnedIn, Recorded
    <3> QED
      BY <1>1, <3>1
  <2>4. TimelineRecord(s, f, o) = Prune(r, TimelineCapacity, Bytes(r))
    BY <1>3, <2>1, <2>3 DEF TimelineRecord, Evict
  <2>5. r \in Seq(TimelineEntries)
    BY <2>2 DEF Fronted
  <2>6. Pruned(r, Prune(r, TimelineCapacity, Bytes(r)), TimelineCapacity, TimelineEntries)
    BY <2>5, PruneFacts DEF TimelineEntries
  <2> QED
    BY <1>1, <2>2, <2>4, <2>6, PruneFronted
<1> QED
  BY <1>2, <1>3

\* Recording and sharing a selection: the lists follow what is retained.
LEMMA ShareNewInv ==
    ASSUME TimelineInv, NEW f \in TimelineItems, NEW o \in TimelinePeers \cup {TimelineOwner},
           NEW trusted, ShareNew(f, o, trusted)
    PROVE  TimelineInv'
<1>1. /\ timeline \in Seq(TimelineEntries)
      /\ DOMAIN available = {timeline[i].fp : i \in DOMAIN timeline}
      /\ Len(timeline) > TimelineCapacity => \A i \in DOMAIN timeline : timeline[i].pinned
  BY DEF TimelineInv, SharingFollowsHistory
<1>2. PICK e : e = Entry(f, o, PinnedIn(timeline, f))
  OBVIOUS
<1>3. e.fp = f /\ e.origin = o
  <2>1. \A p : Entry(f, o, p).fp = f /\ Entry(f, o, p).origin = o
    BY DEF Entry
  <2> QED
    BY <1>2, <2>1, Zenon
<1>4. PICK t : t = timeline'
  OBVIOUS
<1>5. Filed(timeline, f, e, t, TimelineCapacity, TimelineEntries)
  BY <1>1, <1>2, <1>4, TimelineRecordFacts DEF ShareNew
<1>6. /\ t \in Seq(TimelineEntries)
      /\ \A k \in DOMAIN t : t[k] = e \/ \E i \in DOMAIN timeline : timeline[i].fp # f /\ t[k] = timeline[i]
      /\ Len(t) <= TimelineCapacity \/ \A k \in DOMAIN t : t[k].pinned
  BY <1>5 DEF Filed
<1>7. available' = [g \in {h \in DOMAIN available \cup {f} : Recorded(t, h)} |->
                       IF g = f THEN {o} \cup trusted ELSE available[g]]
  BY <1>4 DEF ShareNew, Retained
<1>8. \A h : Recorded(t, h) <=> \E k \in DOMAIN t : t[k].fp = h
  BY DEF Recorded, Position
<1>9. \A k \in DOMAIN t : t[k].fp \in DOMAIN available \cup {f}
  BY <1>1, <1>3, <1>6
<1>10. DOMAIN available' = {t[k].fp : k \in DOMAIN t}
  BY <1>7, <1>8, <1>9
<1>11. ASSUME NEW k \in DOMAIN t
       PROVE  /\ t[k].fp \notin TimelineSecret
              /\ t[k].fp \in DOMAIN available' /\ t[k].origin \in available'[t[k].fp]
  <2>1. t[k].fp \in DOMAIN available'
    BY <1>10
  <2>2. CASE t[k] = e
    BY <1>3, <1>7, <2>1, <2>2 DEF ShareNew
  <2>3. CASE \E i \in DOMAIN timeline : timeline[i].fp # f /\ t[k] = timeline[i]
    <3>1. PICK i \in DOMAIN timeline : timeline[i].fp # f /\ t[k] = timeline[i]
      BY <2>3
    <3>2. timeline[i].fp \notin TimelineSecret /\ timeline[i].origin \in available[timeline[i].fp]
      BY DEF TimelineInv, SharingFollowsHistory, RestorePlan
    <3> QED
      BY <1>7, <2>1, <3>1, <3>2
  <2> QED
    BY <1>6, <2>2, <2>3
<1>12. Len(t) > TimelineCapacity => \A k \in DOMAIN t : t[k].pinned
  <2>1. Len(t) \in Nat /\ TimelineCapacity \in Nat
    BY <1>6, TimelineConstants
  <2> QED
    BY <1>6, <2>1
<1>13. \A k \in DOMAIN t : Recorded(t, t[k].fp)
  BY <1>8
<1>14. SharingFollowsHistory'
  BY <1>4, <1>10, <1>11, <1>12, <1>13 DEF SharingFollowsHistory, RestorePlan
<1> QED
  BY <1>4, <1>6, <1>14 DEF TimelineInv

\* Sharing a retained selection with one more device.
LEMMA ShareToInv ==
    ASSUME TimelineInv, NEW f, NEW d, ShareTo(f, d)
    PROVE  TimelineInv'
<1>1. timeline' = timeline /\ available' = [available EXCEPT ![f] = @ \cup {d}]
  BY DEF ShareTo
<1>2. DOMAIN available' = DOMAIN available /\ \A g \in DOMAIN available : available[g] \subseteq available'[g]
  BY <1>1
<1>3. \A g, x : RestorePlan(g, x) => RestorePlan(g, x)'
  BY <1>1, <1>2 DEF RestorePlan
<1>4. SharingFollowsHistory'
  BY <1>1, <1>2, <1>3 DEF TimelineInv, SharingFollowsHistory
<1> QED
  BY <1>1, <1>4 DEF TimelineInv

\* Pinning changes no selection and no origin.
LEMMA PinTimelineInv ==
    ASSUME TimelineInv, NEW f, PinTimeline(f)
    PROVE  TimelineInv'
<1>1. timeline \in Seq(TimelineEntries)
  BY DEF TimelineInv
<1>2. PICK n \in Nat : n = Len(timeline) /\ DOMAIN timeline = 1..n
  BY <1>1
<1>3. \A i \in 1..n : timeline[i] \in TimelineEntries
  BY <1>1, <1>2
<1>4. timeline' = [i \in 1..n |-> IF timeline[i].fp = f THEN [timeline[i] EXCEPT !.pinned = TRUE] ELSE timeline[i]]
  BY <1>2 DEF PinTimeline
<1>5. \A x \in TimelineEntries : /\ [x EXCEPT !.pinned = TRUE] \in TimelineEntries
                                 /\ [x EXCEPT !.pinned = TRUE].fp = x.fp
                                 /\ [x EXCEPT !.pinned = TRUE].origin = x.origin
                                 /\ [x EXCEPT !.pinned = TRUE].pinned
  BY DEF TimelineEntries, EntriesOf
<1>6. \A i \in 1..n : /\ timeline'[i] \in TimelineEntries
                      /\ timeline'[i].fp = timeline[i].fp /\ timeline'[i].origin = timeline[i].origin
                      /\ timeline[i].pinned => timeline'[i].pinned
  BY <1>3, <1>4, <1>5
<1>7. timeline' \in Seq(TimelineEntries) /\ Len(timeline') = n /\ DOMAIN timeline' = 1..n
  <2>1. timeline' \in [1..n -> TimelineEntries]
    BY <1>4, <1>6
  <2> QED
    BY <2>1
<1>8. available' = available
  BY DEF PinTimeline
<1>9. \A g : Recorded(timeline', g) <=> Recorded(timeline, g)
  BY <1>2, <1>6, <1>7 DEF Recorded, Position
<1>10. \A g, x : RestorePlan(g, x) => RestorePlan(g, x)'
  BY <1>8, <1>9 DEF RestorePlan
<1>11. DOMAIN available' = {timeline'[i].fp : i \in DOMAIN timeline'}
  BY <1>2, <1>6, <1>7, <1>8 DEF TimelineInv, SharingFollowsHistory
<1>12. \A i \in DOMAIN timeline' :
          timeline'[i].fp \notin TimelineSecret /\ RestorePlan(timeline[i].fp, timeline[i].origin)
  BY <1>2, <1>6, <1>7 DEF TimelineInv, SharingFollowsHistory
<1>13. \A i \in DOMAIN timeline' :
          timeline'[i].fp \in DOMAIN available' /\ timeline'[i].origin \in available'[timeline'[i].fp]
  BY <1>2, <1>6, <1>7, <1>8, <1>12 DEF RestorePlan
<1>14. Len(timeline') > TimelineCapacity => \A i \in DOMAIN timeline' : timeline'[i].pinned
  BY <1>2, <1>6, <1>7 DEF TimelineInv, SharingFollowsHistory
<1>15. \A i \in DOMAIN timeline' : Recorded(timeline', timeline'[i].fp)
  BY DEF Recorded, Position
<1>16. SharingFollowsHistory'
  BY <1>11, <1>12, <1>13, <1>14, <1>15 DEF SharingFollowsHistory, RestorePlan
<1> QED
  BY <1>7, <1>16 DEF TimelineInv

\* The empty timeline.
LEMMA TimelineInitInv == TimelineInit => TimelineInv
<1> SUFFICES ASSUME TimelineInit PROVE TimelineInv
  OBVIOUS
<1>1. timeline = <<>> /\ timeline \in Seq(TimelineEntries) /\ DOMAIN timeline = {} /\ Len(timeline) = 0
  BY DEF TimelineInit
<1>2. DOMAIN available = {}
  BY DEF TimelineInit
<1> QED
  BY <1>1, <1>2, TimelineConstants DEF TimelineInv, SharingFollowsHistory

\* Every step of the timeline keeps its invariant.
LEMMA TimelineNextInv == TimelineInv /\ [TimelineNext]_timelineVars => TimelineInv'
<1>1. ASSUME TimelineInv, UNCHANGED timelineVars PROVE TimelineInv'
  BY <1>1 DEF TimelineInv, SharingFollowsHistory, RestorePlan, timelineVars
<1> QED
  BY <1>1, ShareNewInv, ShareToInv, PinTimelineInv DEF TimelineNext

\* For any limits, devices and selections: what the recorder writes can be read
\* back and names the device it came from, and exactly the retained entries of
\* the timeline are shared.
THEOREM HistoriesAreFaithful == HistorySpec /\ TimelineSpec => []HistoriesFaithful
<1>1. HistoryInit => HistoryInv
  BY HistoryInitInv
<1>2. HistoryInv /\ [HistoryNext]_historyVars => HistoryInv'
  BY HistoryNextInv
<1>3. TimelineInit => TimelineInv
  BY TimelineInitInv
<1>4. TimelineInv /\ [TimelineNext]_timelineVars => TimelineInv'
  BY TimelineNextInv
<1>5. HistoryInv /\ TimelineInv => HistoriesFaithful
  BY FitsReadable DEF HistoryInv, TimelineInv, HistoriesFaithful
<1> QED
  BY <1>1, <1>2, <1>3, <1>4, <1>5, PTL DEF HistorySpec, TimelineSpec
=============================================================================
