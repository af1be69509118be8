----------------------------- MODULE MCClientList -----------------------------
(***************************************************************************)
(* Model values for the run of ClientList.                                 *)
(***************************************************************************)
EXTENDS ClientList

CONSTANTS n1, n2, n3, n4, n5, x1, x2

FiveNodes == {n1, n2, n3, n4, n5}
TwoItems == {x1, x2}

\* Nodes are interchangeable, and so are items.
Symmetry == Permutations(FiveNodes) \cup Permutations(TwoItems)
===============================================================================
