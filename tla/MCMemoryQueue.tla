--------------------------- MODULE MCMemoryQueue ---------------------------
(* The API process with the queue in memory: one consumer, two jobs. *)
EXTENDS MemoryQueue
CONSTANTS w1, j1, j2
=============================================================================
