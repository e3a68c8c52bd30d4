------------------------- MODULE MCWorkerHeartbeats -------------------------
(* Model-checking instance of WorkerHeartbeats: a worker with two processes
   and one with one. *)
EXTENDS WorkerHeartbeats, TLC

CONSTANTS p1, p2, p3, n1, n2

TwoAndOne == [p \in Process |-> IF p = p3 THEN n2 ELSE n1]

ProcessSymmetry == Permutations({p1, p2})
=============================================================================
