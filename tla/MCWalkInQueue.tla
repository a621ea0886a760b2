--------------------------- MODULE MCWalkInQueue ---------------------------
(* WalkInQueue for TLC: queues and pool threads are interchangeable.       *)
EXTENDS WalkInQueue, TLC

Symmetry == Permutations(Queues) \cup Permutations(PoolThreads)
=============================================================================
