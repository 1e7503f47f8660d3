------------------------- MODULE MCSessionArbitration -------------------------
(* Small instances of SessionArbitration for TLC. *)
EXTENDS SessionArbitration, TLC

\* Links dialled by the same daemon are interchangeable.
LinkSymmetry == Permutations(DialedByAuth) \cup Permutations(Links \ DialedByAuth)
===============================================================================
