------------------------------- MODULE MCPool -------------------------------
(* A pool of two connections shared by three callers. *)
EXTENDS Pool
CONSTANTS p1, p2, p3, c1, c2, c3, c4

Symmetry == Permutations(Callers) \cup Permutations(Conns)
=============================================================================
