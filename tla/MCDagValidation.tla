-------------------------- MODULE MCDagValidation --------------------------
(* Model-checking instance of DagValidation. *)
EXTENDS DagValidation

CONSTANTS a, b, c

Lists(S, n) == UNION { [1..k -> S] : k \in 0..n }

(* every list of up to four dependencies of three subtasks, and shorter    *)
(* ones for no subtask, one, one given twice, and one the request omits    *)
Requests ==
  [ids : {<<a, b, c>>}, deps : Lists({a, b, c} \X {a, b, c}, 4)] \cup
  [ids : {<<>>, <<a>>, <<a, a>>, <<b, a>>}, deps : Lists({a, b, c} \X {a, b, c}, 2)]
=============================================================================
