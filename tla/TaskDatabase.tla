---------------------------- MODULE TaskDatabase ----------------------------
(***************************************************************************)
(* The rows of one DAG task and what is said of them.  The rows of         *)
(* different tasks are disjoint (every query of the handlers is restricted *)
(* to a task_id), so one task stands for all.                              *)
(***************************************************************************)
EXTENDS TaskOperations, Sequences

VARIABLES
  task,    \* dag_tasks.status
  sub,     \* dag_subtasks.status
  retry,   \* dag_subtasks.retry_count
  plan,    \* the schedule plans in order of creation
  exec     \* execution_records.status by their unique key <<subtask, attempt>>

rows == <<task, sub, retry, plan, exec>>

Plan == [status : PlanStatus, items : SUBSET Subtask]

RowsTypeOK ==
  /\ task \in TaskStatus
  /\ sub \in [Subtask -> SubtaskStatus]
  /\ retry \in [Subtask -> Nat]
  /\ plan \in Seq(Plan)
  /\ DOMAIN exec \subseteq Subtask \X Nat
  /\ exec \in [DOMAIN exec -> ExecutionStatus]

(* The rows create_task commits. *)
RowsInit ==
  /\ task = "PENDING"
  /\ sub = InitialSubtask
  /\ retry = [s \in Subtask |-> 0]
  /\ plan = <<>>
  /\ exec = <<>>

(* (mutant: the record is left RUNNING) *)
RecordsNotSettled(new, settled, result) ==
  [k \in DOMAIN exec \cup new |-> IF k \in new THEN "RUNNING" ELSE exec[k]]

(* The execution_records rows after inserting RUNNING records for the keys *)
(* of new and giving those of settled the status result.                   *)
RecordsAfter(new, settled, result) ==
  [k \in DOMAIN exec \cup new |->
     IF k \in new THEN "RUNNING" ELSE IF k \in settled THEN result ELSE exec[k]]

PlansAfterApply(applied) ==
  [p \in DOMAIN plan |->
     IF p \in applied THEN [plan[p] EXCEPT !.status = "APPLIED"] ELSE plan[p]]

Running == {k \in DOMAIN exec : exec[k] = "RUNNING"}

Succeeded(s) == \E k \in DOMAIN exec : k[1] = s /\ exec[k] = "SUCCESS"
-----------------------------------------------------------------------------
(* What must hold of the records whatever else happens (checked under full *)
(* concurrency).                                                           *)

(* A subtask is never executed twice at the same time: start_execution     *)
(* reads the READY status without a lock, and only the unique key          *)
(* (subtask_id, attempt) stands between two starts of the same subtask.    *)
OneOpenAttempt ==
  \A j, k \in Running : j[1] = k[1] => j = k

(* The attempts of a subtask are numbered without gaps, and retry_count    *)
(* counts exactly the failed or timed-out ones that were granted a retry:  *)
(* so a subtask that succeeded, was canceled or failed for good is never   *)
(* executed again, and the budget max_retries is never exceeded.           *)
RetriesMatchAttempts ==
  \A s \in Subtask :
    /\ retry[s] <= MaxRetries[s]
    /\ \A a \in 1..retry[s] :
         /\ <<s, a>> \in DOMAIN exec
         /\ exec[<<s, a>>] \in {"FAILED", "TIMEOUT"}
    /\ \A k \in DOMAIN exec : k[1] = s => k[2] \in 1..retry[s] + 1

(* No subtask is ever executed before each of its predecessors has a       *)
(* successful execution, however stale the reads of _unlock_successors and *)
(* start_execution were.                                                   *)
PrecedenceByRecords ==
  \A k \in DOMAIN exec : \A p \in Predecessors(k[1]) : Succeeded(p)

(* A task or a subtask is reported SUCCESS only on the evidence of         *)
(* successful records, for the task one of every subtask.                  *)
SuccessHasEvidence ==
  /\ \A s \in Subtask : sub[s] = "SUCCESS" => Succeeded(s)
  /\ task = "SUCCESS" => \A s \in Subtask : Succeeded(s)

(* A task is FAILED only on the evidence of a record that could not be     *)
(* retried: its budget was used up, or its result was CANCELED.            *)
FailureHasEvidence ==
  task = "FAILED" =>
    \E k \in DOMAIN exec :
      \/ exec[k] = "CANCELED"
      \/ exec[k] \in {"FAILED", "TIMEOUT"} /\ k[2] = MaxRetries[k[1]] + 1

(* A record is settled once: no duplicate, late or concurrent result and   *)
(* no cancellation changes it after it has left RUNNING, and no record     *)
(* disappears.                                                             *)
SettledOnce ==
  [][\A k \in DOMAIN exec :
       /\ k \in DOMAIN exec'
       /\ exec[k] # "RUNNING" => exec'[k] = exec[k]]_rows

(* The execution records implement the abstract ledger of attempts: every  *)
(* commit of start_execution opens attempts the ledger may open, and every *)
(* commit of report_result or cancel_task settles open ones.               *)
Ledger == INSTANCE ExecutionLedger WITH ledger <- exec
ImplementsLedger == Ledger!LedgerSpec
-----------------------------------------------------------------------------
(* What the rows promise when the handlers do not overlap (checked of      *)
(* TaskLifecycle; some of it is refuted for overlapping handlers).         *)

(* A subtask waits only for a predecessor that has not succeeded yet: no   *)
(* join is forgotten by _unlock_successors.                                *)
JoinUnlocked ==
  \A s \in Subtask :
    sub[s] = "WAITING" => \E p \in Predecessors(s) : sub[p] # "SUCCESS"

(* The task is SUCCESS exactly when all its subtasks are. *)
TaskSuccessAggregates == task = "SUCCESS" <=> AllSucceeded(sub)

(* Subtask and record agree on what is being executed. *)
RunningHasRecord ==
  \A s \in Subtask : sub[s] = "RUNNING" <=> \E k \in Running : k[1] = s

(* Cancellation is complete: nothing of a CANCELED task can still run.     *)
CanceledIsQuiet ==
  task = "CANCELED" =>
    /\ Running = {}
    /\ \A s \in Subtask : sub[s] \in TerminalSubtask

(* A task that has not ended can still be moved on: by scheduling READY    *)
(* subtasks, by starting a plan whose subtasks are all still READY, or by  *)
(* the result of a running execution.                                      *)
CanProgress ==
  task \notin TerminalTask =>
    \/ TaskCanSchedule(task) /\ ReadySubtasks(sub) # {}
    \/ TaskCanRun(task) /\ \E p \in DOMAIN plan : PlanCanApply(sub, plan[p])
    \/ Running # {}

(* A task or subtask that has reached a terminal status keeps it. *)
TerminalTaskStays ==
  [][(task \in TerminalTask) => (task' = task)]_rows

TerminalSubtaskStays ==
  [][\A s \in Subtask : sub[s] \in TerminalSubtask => sub'[s] = sub[s]]_rows

(* A task moves only along the transitions of the state machine design.   *)
TaskMovesLegally ==
  [][task' # task => <<task, task'>> \in
       ({"PENDING"}   \X {"SCHEDULED", "CANCELED"}) \cup
       ({"SCHEDULED"} \X {"RUNNING", "CANCELED"}) \cup
       ({"RUNNING"}   \X {"SUCCESS", "FAILED", "CANCELED"})]_rows
=============================================================================
