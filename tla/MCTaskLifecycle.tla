-------------------------- MODULE MCTaskLifecycle --------------------------
(* Model-checking instances of TaskLifecycle. *)
EXTENDS TaskLifecycle, TaskClaims

CONSTANTS a, b, c, d

(* a fork and a join: a before b and c, both before d *)
Diamond == {<<a, b>>, <<a, c>>, <<b, d>>, <<c, d>>}

OneRetryOfB == [s \in {a, b, c, d} |-> IF s = b THEN 1 ELSE 0]
=============================================================================
