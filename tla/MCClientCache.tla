---------------------------- MODULE MCClientCache ----------------------------
(***************************************************************************)
(* Model values and symmetry for the runs of ClientCache.                  *)
(***************************************************************************)
EXTENDS ClientCache

CONSTANTS p1, p2, k1, k2

Pair == {p1, p2}
One == {p1}
TwoKeys == {k1, k2}

\* Processes are interchangeable, and so are keys.
Symmetry == Permutations(Pair) \cup Permutations(TwoKeys)
=============================================================================
