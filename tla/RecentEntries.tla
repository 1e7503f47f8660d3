--------------------------- MODULE RecentEntries ---------------------------
(***************************************************************************)
(* Most-recent-first lists of selections with pinned entries, shared by    *)
(* the encrypted archive (crates/storage/src/clipboard_history.rs) and the *)
(* in-memory history (crates/clipboard/src/history.rs).                    *)
(***************************************************************************)
EXTENDS Naturals, Sequences, FiniteSets

CONSTANT SizeOf   \* encoded size of a selection

Entry(f, o, p) == [fp |-> f, origin |-> o, pinned |-> p]

\* The subsequence of s at the positions in I.
Rank(I, i) == Cardinality({j \in I : j <= i})
Sub(s, I) == [k \in 1..Cardinality(I) |-> s[CHOOSE i \in I : Rank(I, i) = k]]

\* The bytes of all entries, counted.
Bytes(s) == Cardinality(UNION {{i} \X (1..SizeOf[s[i].fp]) : i \in DOMAIN s})

\* evict and prune_to_limits: the oldest unpinned entry goes until the rest fits,
\* or until only pinned entries are left.
KeptAt(s, k) == {i \in DOMAIN s : s[i].pinned \/ Cardinality({j \in 1..i : ~s[j].pinned}) <= k}
Prune(s, maxEntries, maxBytes) ==
    LET keep(k) == Sub(s, KeptAt(s, k))
        ks == {k \in 0..Len(s) : Len(keep(k)) <= maxEntries /\ Bytes(keep(k)) <= maxBytes}
    IN  IF ks = {} THEN keep(0) ELSE keep(CHOOSE k \in ks : \A l \in ks : l <= k)

Position(s, f) == {i \in DOMAIN s : s[i].fp = f}
Recorded(s, f) == Position(s, f) # {}
Others(s, f) == Sub(s, {i \in DOMAIN s : s[i].fp # f})
PinnedIn(s, f) == \E i \in Position(s, f) : s[i].pinned

=============================================================================
