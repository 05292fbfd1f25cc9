------------------------------ MODULE MCTimer ------------------------------
(* Instances of Timer for TLC.                                              *)
EXTENDS Timer, TLC

CONSTANTS i1, i2, u1, u2, p1, p2

Symmetry == Permutations(Ids) \cup Permutations(Users) \cup Permutations(Pollers)
=============================================================================
