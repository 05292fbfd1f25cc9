---------------------------- MODULE MCIOManager ----------------------------
(* Instances of IOManager for TLC.                                          *)
EXTENDS IOManager, TLC

CONSTANTS c1, c2, c3, p1, p2

Symmetry == Permutations(Callers) \cup Permutations(Pollers)
=============================================================================
