------------------------------ MODULE MCProgram ------------------------------
(***************************************************************************)
(* Values for the runs of Program.                                         *)
(***************************************************************************)
EXTENDS Program, TLC

CONSTANTS k1, k2

OneKey == {k1}
TwoKeys == {k1, k2}

\* Keys are interchangeable.
Symmetry == Permutations(TwoKeys)

OneStatus == {200}
==============================================================================
