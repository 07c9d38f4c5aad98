----------------------------- MODULE MCConsumer -----------------------------
(* Small instances of the consumers on the Redis queue. *)
EXTENDS Consumer
CONSTANTS w1, w2, r1, j1, j2, a1, a2

Symmetry == Permutations(Workers) \cup Permutations(Admins)
=============================================================================
