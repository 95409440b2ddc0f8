--------------------------- MODULE MCConnection ---------------------------
(* TLC instances of Connection. *)
EXTENDS ConnectionInv, TLC

\* Callers behave alike, and the properties do not tell them apart.
Symmetry == Permutations(Callers)
=============================================================================
