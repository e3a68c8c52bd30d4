------------------------- MODULE MCTaskTransactions -------------------------
(* Model-checking instances of TaskTransactions. *)
EXTENDS RecordInvariant, TaskClaims, TLC

CONSTANTS a, b, c

(* a join: a and b before c *)
Join == {<<a, c>>, <<b, c>>}

OneRetryOfA == [s \in Subtask |-> IF s = a THEN 1 ELSE 0]

SessionSymmetry == Permutations(Session)
=============================================================================
