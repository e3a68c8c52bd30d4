-------------------------- MODULE TaskTransactions --------------------------
(***************************************************************************)
(* The handlers of one DAG task as the concurrent READ COMMITTED           *)
(* transactions they are.  FastAPI runs the endpoints in a thread pool and *)
(* the Celery worker reports results beside them; each has its own         *)
(* SQLAlchemy session (autoflush off).                                     *)
(*                                                                         *)
(* A handler loads rows statement by statement, so what it loads first may *)
(* be stale when it loads the rest.  It computes new column values from    *)
(* what it loaded, and the unit of work writes the columns that differ     *)
(* from their loaded value, with UPDATE ... WHERE id = ..., whatever the   *)
(* row holds by then.  Those row locks are kept to the commit, so writing  *)
(* is one atomic step at the commit.  The only reads that lock are the two *)
(* SELECT ... FOR UPDATE of execution_records, in report_result and        *)
(* cancel_task.                                                            *)
(***************************************************************************)
EXTENDS TaskDatabase

CONSTANTS
  Session,    \* the concurrent database sessions
  MaxPlans    \* bound on the number of generated plans

ASSUME MaxPlansAssumption == MaxPlans \in Nat

VARIABLE tx   \* the transaction each session is in

vars == <<task, sub, retry, plan, exec, tx>>

Clean == "CLEAN"   \* a column that is not to be written

(* at: "idle", "begun" when the task row is loaded, "locking" while        *)
(* cancel_task collects its row locks, "dirty" when everything is loaded   *)
(* and computed and only the commit is left.                               *)
Transaction ==
  [op       : {"none", "schedule", "start", "report", "cancel"},
   at       : {"idle", "begun", "locking", "dirty"},
   task     : TaskStatus,                      \* loaded task status
   own      : SubtaskStatus,                   \* loaded status, retry count of
   ownRetry : Nat,                             \*   the subtask reported on
   result   : ExecutionStatus,                 \* status given to held records
   want     : SUBSET (Subtask \X Nat),         \* row locks still to acquire
   held     : SUBSET (Subtask \X Nat),         \* record rows locked
   setTask  : TaskStatus \cup {Clean},         \* dirty columns
   setSub   : [Subtask -> SubtaskStatus \cup {Clean}],
   setRetry : SUBSET Subtask,                  \*   retry_count := ownRetry + 1
   apply    : SUBSET Nat,                      \*   plans that become APPLIED
   insert   : SUBSET (Subtask \X Nat),         \*   new execution records
   items    : SUBSET Subtask]                  \*   items of the new plan

AllClean == [s \in Subtask |-> Clean]

Idle ==
  [op |-> "none", at |-> "idle", task |-> "PENDING", own |-> "WAITING",
   ownRetry |-> 0, result |-> "RUNNING", want |-> {}, held |-> {},
   setTask |-> Clean, setSub |-> AllClean, setRetry |-> {}, apply |-> {},
   insert |-> {}, items |-> {}]

TypeOK == RowsTypeOK /\ tx \in [Session -> Transaction]

Init == RowsInit /\ tx = [c \in Session |-> Idle]

(* The columns whose computed value differs from the loaded one. *)
DirtyTask(loaded, computed) == IF computed = loaded THEN Clean ELSE computed

DirtySub(loaded, computed) ==
  [s \in Subtask |-> IF computed[s] = loaded[s] THEN Clean ELSE computed[s]]

(* (mutant: a plain SELECT) *)
NoLock(c, k) == TRUE

(* SELECT ... FOR UPDATE waits while another transaction holds the row. *)
LockIsFree(c, k) == \A d \in Session \ {c} : k \notin tx[d].held
-----------------------------------------------------------------------------
(* generate_plan: the task row, then its subtasks *)
BeginSchedule(c) ==
  /\ tx[c] = Idle
  /\ TaskCanSchedule(task)
  /\ tx' = [tx EXCEPT ![c] = [Idle EXCEPT !.op = "schedule", !.at = "begun",
                                          !.task = task]]
  /\ UNCHANGED rows

LoadForSchedule(c) ==
  LET w == tx[c]
  IN /\ w.op = "schedule" /\ w.at = "begun"
     /\ ReadySubtasks(sub) # {}
     /\ tx' = [tx EXCEPT ![c] =
                 [Idle EXCEPT !.op = "schedule", !.at = "dirty",
                              !.setTask = DirtyTask(w.task, TaskAfterSchedule(w.task)),
                              !.items = GeneratedPlan(sub).items]]
     /\ UNCHANGED rows

CommitSchedule(c) ==
  LET w == tx[c]
  IN /\ w.op = "schedule" /\ w.at = "dirty"
     /\ Len(plan) < MaxPlans
     /\ task' = IF w.setTask = Clean THEN task ELSE w.setTask
     /\ plan' = Append(plan, [status |-> "GENERATED", items |-> w.items])
     /\ tx' = [tx EXCEPT ![c] = Idle]
     /\ UNCHANGED <<sub, retry, exec>>
-----------------------------------------------------------------------------
(* start_execution: the task row, then its subtasks and the plan *)
BeginStart(c) ==
  /\ tx[c] = Idle
  /\ TaskCanRun(task)
  /\ tx' = [tx EXCEPT ![c] = [Idle EXCEPT !.op = "start", !.at = "begun",
                                          !.task = task]]
  /\ UNCHANGED rows

LoadForStart(c, p) ==
  LET w == tx[c]
  IN /\ w.op = "start" /\ w.at = "begun"
     /\ PlanCanApply(sub, plan[p])
     /\ tx' = [tx EXCEPT ![c] =
                 [Idle EXCEPT !.op = "start", !.at = "dirty",
                              !.setTask = DirtyTask(w.task, "RUNNING"),
                              !.setSub = DirtySub(sub, SubtasksAfterStart(sub, plan[p].items)),
                              !.apply = {p},
                              !.insert = NewAttempts(retry, plan[p].items)]]
     /\ UNCHANGED rows
-----------------------------------------------------------------------------
(* (mutant: the status of the record was checked before the lock) *)
LockRecordUnchecked(c, k, result) ==
  /\ tx[c] = Idle
  /\ LockIsFree(c, k)
  /\ SubtaskCanEnd(sub[k[1]], result)
  /\ tx' = [tx EXCEPT ![c] = [Idle EXCEPT !.op = "report", !.at = "begun",
                                          !.task = task, !.own = sub[k[1]],
                                          !.ownRetry = retry[k[1]],
                                          !.result = result, !.held = {k}]]
  /\ UNCHANGED rows

(* report_result: locks the record row; the record, its subtask and the    *)
(* task are loaded with it.  A record that is not RUNNING any more ends    *)
(* the call with accepted=False, which changes nothing.                    *)
LockRecord(c, k, result) ==
  /\ tx[c] = Idle
  /\ LockIsFree(c, k)
  /\ exec[k] = "RUNNING"
  /\ SubtaskCanEnd(sub[k[1]], result)
  /\ tx' = [tx EXCEPT ![c] = [Idle EXCEPT !.op = "report", !.at = "begun",
                                          !.task = task, !.own = sub[k[1]],
                                          !.ownRetry = retry[k[1]],
                                          !.result = result, !.held = {k}]]
  /\ UNCHANGED rows

(* get_task: the other subtasks; the one loaded before keeps its values *)
LoadForReport(c, k) ==
  LET w == tx[c]
      s == k[1]
      loaded == [sub EXCEPT ![s] = w.own]
      computed == SubtasksAfterReport(loaded, s, w.ownRetry, w.result)
  IN /\ w.op = "report" /\ w.at = "begun" /\ k \in w.held
     /\ TaskCanFollow(w.task, computed, s, w.ownRetry, w.result)
     /\ tx' = [tx EXCEPT ![c] =
                 [Idle EXCEPT !.op = "report", !.at = "dirty",
                              !.ownRetry = w.ownRetry,
                              !.result = w.result,
                              !.held = w.held,
                              !.setTask = DirtyTask(w.task,
                                 TaskAfterReport(w.task, computed, s, w.ownRetry, w.result)),
                              !.setSub = DirtySub(loaded, computed),
                              !.setRetry = IF CanRetry(s, w.ownRetry, w.result)
                                           THEN {s} ELSE {}]]
     /\ UNCHANGED rows
-----------------------------------------------------------------------------
(* cancel_task: the task row; the RUNNING records as one statement sees    *)
(* them, locked one by one and taken only if still RUNNING once locked;    *)
(* then the subtasks anew (expire).                                        *)
BeginCancel(c) ==
  /\ tx[c] = Idle
  /\ TaskCanCancel(task)
  /\ tx' = [tx EXCEPT ![c] = [Idle EXCEPT !.op = "cancel", !.at = "begun",
                                          !.setTask = DirtyTask(task, "CANCELED")]]
  /\ UNCHANGED rows

(* (mutant: the RUNNING records are not looked up) *)
ScanNothing(c) ==
  /\ tx[c].op = "cancel" /\ tx[c].at = "begun"
  /\ tx' = [tx EXCEPT ![c] = [tx[c] EXCEPT !.at = "locking", !.result = "CANCELED"]]
  /\ UNCHANGED rows

ScanRunning(c) ==
  LET w == tx[c]
  IN /\ w.op = "cancel" /\ w.at = "begun"
     /\ tx' = [tx EXCEPT ![c] = [w EXCEPT !.at = "locking", !.want = Running,
                                          !.result = "CANCELED"]]
     /\ UNCHANGED rows

(* (mutant: a record is taken as it was scanned, not as it is once locked) *)
LockScannedStale(c, k) ==
  LET w == tx[c]
  IN /\ w.op = "cancel" /\ w.at = "locking" /\ k \in w.want
     /\ LockIsFree(c, k)
     /\ tx' = [tx EXCEPT ![c] = [w EXCEPT !.want = w.want \ {k},
                                          !.held = w.held \cup {k}]]
     /\ UNCHANGED rows

LockScanned(c, k) ==
  LET w == tx[c]
      taken == IF exec[k] = "RUNNING" THEN {k} ELSE {}
  IN /\ w.op = "cancel" /\ w.at = "locking" /\ k \in w.want
     /\ LockIsFree(c, k)
     /\ tx' = [tx EXCEPT ![c] = [w EXCEPT !.want = w.want \ {k},
                                          !.held = w.held \cup taken]]
     /\ UNCHANGED rows

ReloadForCancel(c) ==
  LET w == tx[c]
  IN /\ w.op = "cancel" /\ w.at = "locking" /\ w.want = {}
     /\ tx' = [tx EXCEPT ![c] =
                 [w EXCEPT !.at = "dirty",
                           !.setSub = DirtySub(sub, SubtasksAfterCancel(sub))]]
     /\ UNCHANGED rows
-----------------------------------------------------------------------------
(* flush and commit of start_execution, report_result and cancel_task.     *)
(* The unique key of execution_records refuses an attempt that exists.     *)
Commit(c) ==
  LET w == tx[c]
  IN /\ w.op # "schedule" /\ w.at = "dirty"
     /\ w.insert \cap DOMAIN exec = {}
     /\ task' = IF w.setTask = Clean THEN task ELSE w.setTask
     /\ sub' = [s \in Subtask |-> IF w.setSub[s] = Clean THEN sub[s] ELSE w.setSub[s]]
     /\ retry' = [s \in Subtask |-> IF s \in w.setRetry THEN w.ownRetry + 1 ELSE retry[s]]
     /\ plan' = PlansAfterApply(w.apply)
     /\ exec' = RecordsAfter(w.insert, w.held, w.result)
     /\ tx' = [tx EXCEPT ![c] = Idle]

(* The transaction is rolled back and its locks released: the call raised  *)
(* (a refused transition, the unique key), the deadlock detector chose it, *)
(* or its process or connection died before the commit.                    *)
Rollback(c) ==
  /\ tx[c] # Idle
  /\ tx' = [tx EXCEPT ![c] = Idle]
  /\ UNCHANGED rows

Next ==
  \E c \in Session :
    \/ BeginSchedule(c) \/ LoadForSchedule(c) \/ CommitSchedule(c)
    \/ BeginStart(c) \/ \E p \in DOMAIN plan : LoadForStart(c, p)
    \/ \E k \in DOMAIN exec, result \in Result : LockRecord(c, k, result)
    \/ \E k \in DOMAIN exec : LoadForReport(c, k)
    \/ BeginCancel(c) \/ ScanRunning(c) \/ ReloadForCancel(c)
    \/ \E k \in DOMAIN exec : LockScanned(c, k)
    \/ Commit(c)
    \/ Rollback(c)

Spec == Init /\ [][Next]_vars
-----------------------------------------------------------------------------
(* Locked records: whoever holds the row lock of a record is alone with    *)
(* it, and the record is RUNNING until that transaction settles it.        *)
LocksProtectRecords ==
  \A c \in Session :
    /\ tx[c].held \subseteq Running
    /\ \A d \in Session \ {c} : tx[c].held \cap tx[d].held = {}
=============================================================================
