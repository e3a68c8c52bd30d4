---------------------------- MODULE TaskMetrics ----------------------------
(***************************************************************************)
(* get_task_metrics beside the handlers of TaskTransactions.  The counts   *)
(* of one answer come from four statements, each of which sees what is     *)
(* committed when it runs: the task, its subtasks, its records, and its    *)
(* records by the type of their node.  Rates are quotients of the counts   *)
(* (0 when there is no record); durations are left out.                    *)
(***************************************************************************)
EXTENDS TaskTransactions, FiniteSets

CONSTANT Offloaded   \* the attempts <<subtask, number>> planned onto EDGE nodes

ASSUME OffloadedAssumption == Offloaded \subseteq Subtask \X Nat

(* create_task is given a list of subtasks *)
ASSUME SubtasksAssumption == IsFiniteSet(Subtask)

VARIABLE metrics   \* the answer under way: statements run, and what they returned

NoMetrics == [read |-> 0, task |-> "PENDING", succeeded |-> 0, executions |-> 0,
              successes |-> 0, failures |-> 0, running |-> 0, local |-> 0, edge |-> 0]

SubtasksWith(status) == Cardinality({s \in Subtask : sub[s] = status})
RecordsWith(statuses) == Cardinality({k \in DOMAIN exec : exec[k] \in statuses})

(* (mutant: the records are read before the subtasks) *)
RecordsFirst == <<"task", "records", "subtasks", "nodes">>

(* (mutant: the task is read after its subtasks) *)
SubtasksFirst == <<"subtasks", "task", "records", "nodes">>

(* the order of the statements *)
Statement == <<"task", "subtasks", "records", "nodes">>

(* get_by_id: the task row *)
ReadTask == [metrics EXCEPT !.task = task]

(* selectinload of the subtasks *)
ReadSubtasks == [metrics EXCEPT !.succeeded = SubtasksWith("SUCCESS")]

(* list_all_by_task, and the counts taken from it *)
ReadRecords ==
  [metrics EXCEPT !.executions = Cardinality(DOMAIN exec),
                  !.successes = RecordsWith({"SUCCESS"}),
                  !.failures = RecordsWith({"FAILED", "TIMEOUT", "CANCELED"}),
                  !.running = RecordsWith({"RUNNING"})]

(* count_by_node_type *)
ReadNodeTypes ==
  [metrics EXCEPT !.local = Cardinality(DOMAIN exec \ Offloaded),
                  !.edge = Cardinality(DOMAIN exec \cap Offloaded)]

Read ==
  /\ metrics.read < Len(Statement)
  /\ LET q == Statement[metrics.read + 1]
         got == CASE q = "task"     -> ReadTask
                  [] q = "subtasks" -> ReadSubtasks
                  [] q = "records"  -> ReadRecords
                  [] q = "nodes"    -> ReadNodeTypes
     IN metrics' = [got EXCEPT !.read = @ + 1]
  /\ UNCHANGED vars

(* the answer is sent; the next request starts anew *)
Answer ==
  /\ metrics.read = Len(Statement)
  /\ metrics' = NoMetrics
  /\ UNCHANGED vars

MetricsSpec ==
  /\ Init /\ metrics = NoMetrics
  /\ [][(Next /\ UNCHANGED metrics) \/ Read \/ Answer]_<<vars, metrics>>
-----------------------------------------------------------------------------
Complete == metrics.read = Len(Statement)

(* Although handlers commit between the statements, an answer never counts
   more succeeded subtasks than successful records, nor more records than
   local and edge executions together: records are read after the subtasks
   they explain, and are never deleted. *)
CountsExplained ==
  Complete => /\ metrics.succeeded <= metrics.successes
              /\ metrics.executions <= metrics.local + metrics.edge
              /\ metrics.successes + metrics.failures + metrics.running = metrics.executions

(* An answer that says the task is SUCCESS counts all its subtasks as
   succeeded and none of its records as running: the task is read first. *)
SuccessIsComplete ==
  Complete /\ metrics.task = "SUCCESS" =>
    metrics.succeeded = Cardinality(Subtask) /\ metrics.running = 0

(* One session alone does what the serial life cycle does: every transaction
   of generate_plan, start_execution, report_result and cancel_task, run
   statement by statement, changes the rows as one serial step. *)
Serial == INSTANCE TaskLifecycle
ImplementsSerial == Serial!Spec
=============================================================================
