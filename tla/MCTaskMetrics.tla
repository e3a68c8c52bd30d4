--------------------------- MODULE MCTaskMetrics ---------------------------
(* Model-checking instance of TaskMetrics, with a session that runs one
   handler at a time. *)
EXTENDS TaskMetrics

CONSTANTS a, b, c

(* a join: a and b before c *)
Join == {<<a, c>>, <<b, c>>}

OneRetryOfA == [s \in Subtask |-> IF s = a THEN 1 ELSE 0]

(* the first attempts of a and c are local, all others offloaded *)
MostlyOffloaded == (Subtask \X (1..2)) \ {<<a, 1>>, <<c, 1>>}
=============================================================================
