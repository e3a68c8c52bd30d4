--------------------------- MODULE TaskOperations ---------------------------
(***************************************************************************)
(* What the handlers of one DAG task decide and compute from the rows they *)
(* have loaded, as pure operators: the guards with their early returns and *)
(* the new column values.  TaskLifecycle applies them to the database      *)
(* itself, TaskTransactions to whatever a transaction happened to read.    *)
(***************************************************************************)
EXTENDS Naturals, StateMachine

CONSTANTS
  Subtask,      \* the subtasks of the task
  Dep,          \* its dependencies, pairs <<predecessor, successor>>
  MaxRetries,   \* max_retries of each subtask
  Result        \* the statuses a worker or a client reports

Predecessors(s) == {p \in Subtask : <<p, s>> \in Dep}

(* What create_task admits: validate_dag accepts the graph, and the        *)
(* request schema has max_retries >= 0.  Without a cycle every set of      *)
(* subtasks has a member none of whose predecessors is in the set.         *)
ASSUME DepAssumption == Dep \subseteq Subtask \X Subtask
ASSUME AcyclicAssumption ==
  \A S \in SUBSET Subtask :
    S # {} => \E s \in S : Predecessors(s) \cap S = {}
ASSUME NonEmptyAssumption == Subtask # {}
ASSUME MaxRetriesAssumption == MaxRetries \in [Subtask -> Nat]
ASSUME ResultAssumption == Result \subseteq ExecutionStatus \ {"RUNNING"}
-----------------------------------------------------------------------------
(* create_task *)
InitialSubtask ==
  [s \in Subtask |-> IF Predecessors(s) # {} THEN "WAITING" ELSE "READY"]
-----------------------------------------------------------------------------
(* generate_plan: every strategy plans exactly the READY subtasks, and     *)
(* refuses when there are none.                                            *)
(* (mutant: a RUNNING task is not scheduled again) *)
ScheduleOnlyOnce(task) == CanTransition(task, "SCHEDULED")

TaskCanSchedule(task) == task = "RUNNING" \/ CanTransition(task, "SCHEDULED")

ReadySubtasks(sub) == {s \in Subtask : sub[s] = "READY"}

(* (mutant: the task is set to SCHEDULED even when it is RUNNING) *)
AlwaysScheduled(task) == IF task = "SCHEDULED" THEN task ELSE "SCHEDULED"

TaskAfterSchedule(task) == IF task = "PENDING" THEN "SCHEDULED" ELSE task

GeneratedPlan(sub) == [status |-> "GENERATED", items |-> ReadySubtasks(sub)]
-----------------------------------------------------------------------------
(* start_execution: one subtask that is not READY refuses the whole plan.  *)
TaskCanRun(task) == task = "RUNNING" \/ CanTransition(task, "RUNNING")

PlanCanApply(sub, plan) ==
  /\ CanTransition(plan.status, "APPLIED")
  /\ plan.items # {}
  /\ \A s \in plan.items : CanTransition(sub[s], "DISPATCHED")

SubtasksAfterStart(sub, items) ==
  [s \in Subtask |-> IF s \in items THEN "RUNNING" ELSE sub[s]]

(* The unique key <<subtask, attempt>> of each record the call inserts. *)
NewAttempts(retry, items) == {<<s, retry[s] + 1>> : s \in items}
-----------------------------------------------------------------------------
(* (mutants: the budget off by one, either way) *)
RetryPastBudget(s, count, result) ==
  result \in {"FAILED", "TIMEOUT"} /\ count <= MaxRetries[s]
RetryOneShort(s, count, result) ==
  result \in {"FAILED", "TIMEOUT"} /\ count + 1 < MaxRetries[s]

(* report_result on a RUNNING record of subtask s. *)
CanRetry(s, count, result) ==
  result \in {"FAILED", "TIMEOUT"} /\ count < MaxRetries[s]

(* (mutant: one predecessor is enough) *)
UnlockedByAny(sub, s) ==
  [x \in Subtask |->
     IF <<s, x>> \in Dep /\ sub[x] = "WAITING" THEN "READY" ELSE sub[x]]

(* _unlock_successors: a WAITING successor whose predecessors have all     *)
(* succeeded becomes READY.                                                *)
Unlocked(sub, s) ==
  [x \in Subtask |->
     IF /\ <<s, x>> \in Dep
        /\ sub[x] = "WAITING"
        /\ \A p \in Predecessors(x) : sub[p] = "SUCCESS"
     THEN "READY"
     ELSE sub[x]]

(* (mutant: a success does not unlock the successors) *)
ReportWithoutUnlock(sub, s, count, result) ==
  [sub EXCEPT ![s] = IF result = "SUCCESS" THEN "SUCCESS"
                     ELSE IF CanRetry(s, count, result) THEN "READY" ELSE "FAILED"]

SubtasksAfterReport(sub, s, count, result) ==
  IF result = "SUCCESS"
  THEN Unlocked([sub EXCEPT ![s] = "SUCCESS"], s)
  ELSE [sub EXCEPT ![s] = IF CanRetry(s, count, result) THEN "READY" ELSE "FAILED"]

(* (mutant: FAILED counts as finished) *)
AllFinished(sub) == \A s \in Subtask : sub[s] \notin {"WAITING", "READY", "RUNNING"}

AllSucceeded(sub) == \A s \in Subtask : sub[s] = "SUCCESS"

(* The task status the call writes, the loaded one when it leaves it. *)
TaskAfterReport(task, subAfter, s, count, result) ==
  IF result = "SUCCESS"
  THEN IF AllSucceeded(subAfter) THEN "SUCCESS" ELSE task
  ELSE IF CanRetry(s, count, result) THEN task ELSE "FAILED"

(* The guards: the subtask must be allowed to end, and the task too when   *)
(* this result ends it; otherwise the call raises and is rolled back.      *)
SubtaskCanEnd(status, result) ==
  CanTransition(status, IF result = "SUCCESS" THEN "SUCCESS" ELSE "FAILED")

TaskCanFollow(task, subAfter, s, count, result) ==
  /\ result = "SUCCESS" /\ AllSucceeded(subAfter) => CanTransition(task, "SUCCESS")
  /\ result # "SUCCESS" /\ ~CanRetry(s, count, result) => CanTransition(task, "FAILED")
-----------------------------------------------------------------------------
(* cancel_task *)
(* (mutant: a finished task can still be canceled) *)
CancelUnlessCanceled(task) == task # "CANCELED"

TaskCanCancel(task) == CanTransition(task, "CANCELED")

(* (mutants: the RUNNING subtasks, or the finished ones too) *)
CancelQueuedOnly(sub) ==
  [s \in Subtask |-> IF sub[s] \in TerminalSubtask \cup {"RUNNING"} THEN sub[s] ELSE "CANCELED"]
CancelFinishedToo(sub) == [s \in Subtask |-> "CANCELED"]

SubtasksAfterCancel(sub) ==
  [s \in Subtask |-> IF sub[s] \in TerminalSubtask THEN sub[s] ELSE "CANCELED"]
=============================================================================
