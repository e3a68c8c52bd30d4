------------------------ MODULE TaskLifecycleProofs ------------------------
(***************************************************************************)
(* Proofs about TaskLifecycle: what the handlers promise of every task     *)
(* graph and every retry budget when no two of them overlap.               *)
(***************************************************************************)
EXTENDS TaskLifecycle, TLAPS

(* A subtask is FAILED or CANCELED only in a task that is. *)
FailuresEndTask ==
  \A s \in Subtask : sub[s] \in {"FAILED", "CANCELED"} => task \in {"FAILED", "CANCELED"}

(* Before the first plan is started nothing has been executed. *)
NothingStarted ==
  task \in {"PENDING", "SCHEDULED"} => \A s \in Subtask : sub[s] \in {"WAITING", "READY"}

(* A SCHEDULED task, which cannot be scheduled again, has a plan to start. *)
ScheduledHasPlan ==
  task = "SCHEDULED" => \E p \in DOMAIN plan : PlanCanApply(sub, plan[p])

(* The handlers pass through DISPATCHED and RETRYING but never commit them. *)
StatusesCommitted == \A s \in Subtask : sub[s] \notin {"DISPATCHED", "RETRYING"}

(* The inductive invariant. *)
LifecycleInv ==
  /\ RowsTypeOK
  /\ OneOpenAttempt
  /\ JoinUnlocked
  /\ TaskSuccessAggregates
  /\ RunningHasRecord
  /\ CanceledIsQuiet
  /\ FailuresEndTask
  /\ NothingStarted
  /\ ScheduledHasPlan
  /\ StatusesCommitted

(* The entries of the transition table that the guards look up. *)
LEMMA TransitionEntries ==
  ASSUME NEW x
  PROVE  /\ CanTransition(x, "DISPATCHED") <=> x = "READY"
         /\ CanTransition(x, "SUCCESS") <=> x = "RUNNING"
         /\ CanTransition(x, "FAILED") <=> x = "RUNNING"
         /\ CanTransition(x, "SCHEDULED") <=> x = "PENDING"
         /\ CanTransition(x, "RUNNING") <=> x \in {"SCHEDULED", "DISPATCHED"}
         /\ CanTransition(x, "APPLIED") <=> x = "GENERATED"
         /\ CanTransition(x, "CANCELED") => x \notin {"SUCCESS", "FAILED", "CANCELED"}
BY DEF CanTransition, AllowedTransitions

(* A task that may be scheduled or run has not ended. *)
LEMMA TaskGuards ==
  ASSUME task \in TaskStatus
  PROVE  /\ TaskCanSchedule(task) <=> task \in {"PENDING", "RUNNING"}
         /\ TaskCanRun(task) <=> task \in {"SCHEDULED", "RUNNING"}
         /\ TaskCanCancel(task) => task \in {"PENDING", "SCHEDULED", "RUNNING"}
BY TransitionEntries DEF TaskCanSchedule, TaskCanRun, TaskCanCancel, TaskStatus

(* The plan that start_execution applies has READY subtasks only. *)
LEMMA StartedSubtasks ==
  ASSUME RowsTypeOK, NEW p \in DOMAIN plan, PlanCanApply(sub, plan[p])
  PROVE  /\ plan[p].items \subseteq Subtask
         /\ plan[p].items # {}
         /\ \A s \in plan[p].items : sub[s] = "READY"
<1>1. plan[p] \in Plan
  BY DEF RowsTypeOK
<1> QED
  BY <1>1, TransitionEntries DEF PlanCanApply, Plan

LEMMA PlansKeepType ==
  ASSUME plan \in Seq(Plan), NEW applied
  PROVE  PlansAfterApply(applied) \in Seq(Plan)
<1>1. /\ Len(plan) \in Nat /\ DOMAIN plan = 1..Len(plan)
      /\ \A p \in DOMAIN plan : plan[p] \in Plan
  OBVIOUS
<1>2. \A p \in DOMAIN plan : [plan[p] EXCEPT !.status = "APPLIED"] \in Plan
  BY <1>1 DEF Plan, PlanStatus
<1>3. PlansAfterApply(applied) \in [1..Len(plan) -> Plan]
  BY <1>1, <1>2 DEF PlansAfterApply
<1> QED
  BY <1>1, <1>3
-----------------------------------------------------------------------------
(* generate_plan adds a plan of the READY subtasks and may set SCHEDULED. *)
LEMMA ScheduleStep ==
  ASSUME LifecycleInv, Schedule
  PROVE  LifecycleInv'
<1>1. /\ task' = (IF task = "PENDING" THEN "SCHEDULED" ELSE task)
      /\ task \in {"PENDING", "RUNNING"}
      /\ UNCHANGED <<sub, retry, exec>>
  BY TaskGuards DEF Schedule, TaskAfterSchedule, LifecycleInv, RowsTypeOK
<1>2. GeneratedPlan(sub) \in Plan
  BY DEF GeneratedPlan, ReadySubtasks, Plan, PlanStatus
<1>3. /\ plan' \in Seq(Plan)
      /\ Len(plan) + 1 \in DOMAIN plan'
      /\ plan'[Len(plan) + 1] = GeneratedPlan(sub)
  BY <1>2 DEF Schedule, LifecycleInv, RowsTypeOK
<1>4. RowsTypeOK'
  BY <1>1, <1>3 DEF LifecycleInv, RowsTypeOK, TaskStatus
<1>5. ScheduledHasPlan'
  <2>1. PlanCanApply(sub, GeneratedPlan(sub))
    BY TransitionEntries DEF Schedule, PlanCanApply, GeneratedPlan, ReadySubtasks
  <2> QED
    BY <1>1, <1>3, <2>1 DEF ScheduledHasPlan
<1>6. OneOpenAttempt' /\ JoinUnlocked' /\ RunningHasRecord' /\ StatusesCommitted'
  BY <1>1 DEF LifecycleInv, OneOpenAttempt, JoinUnlocked, RunningHasRecord, Running,
              StatusesCommitted
<1>7. TaskSuccessAggregates' /\ CanceledIsQuiet' /\ FailuresEndTask' /\ NothingStarted'
  BY <1>1 DEF LifecycleInv, TaskSuccessAggregates, AllSucceeded, CanceledIsQuiet,
              FailuresEndTask, NothingStarted
<1> QED
  BY <1>4, <1>5, <1>6, <1>7 DEF LifecycleInv

(* start_execution moves READY subtasks to RUNNING, each with a new record. *)
LEMMA StartStep ==
  ASSUME LifecycleInv, NEW p \in DOMAIN plan, Start(p)
  PROVE  LifecycleInv'
<1> DEFINE items == plan[p].items
           new == NewAttempts(retry, items)
<1>1. /\ items \subseteq Subtask /\ items # {}
      /\ \A s \in items : sub[s] = "READY"
  BY StartedSubtasks DEF Start, LifecycleInv
<1>2. /\ task' = "RUNNING" /\ retry' = retry
      /\ sub' = [s \in Subtask |-> IF s \in items THEN "RUNNING" ELSE sub[s]]
  BY DEF Start, SubtasksAfterStart
<1>3. /\ new \subseteq Subtask \X Nat /\ new \cap DOMAIN exec = {}
      /\ \A s \in items : <<s, retry[s] + 1>> \in new
      /\ \A k \in new : k[1] \in items /\ k = <<k[1], retry[k[1]] + 1>>
  BY <1>1 DEF Start, NewAttempts, LifecycleInv, RowsTypeOK
<1>4. /\ DOMAIN exec' = DOMAIN exec \cup new
      /\ \A k \in DOMAIN exec' : exec'[k] = IF k \in new THEN "RUNNING" ELSE exec[k]
      /\ exec' = [k \in DOMAIN exec' |-> exec'[k]]
  BY DEF Start, RecordsAfter
<1>5. Running' = Running \cup new
  BY <1>4, <1>3 DEF Running
<1> HIDE DEF new
<1>6. RowsTypeOK'
  <2>1. exec' \in [DOMAIN exec' -> ExecutionStatus]
    BY <1>4 DEF LifecycleInv, RowsTypeOK, ExecutionStatus
  <2>2. plan' \in Seq(Plan)
    BY PlansKeepType DEF Start, LifecycleInv, RowsTypeOK
  <2>3. DOMAIN exec' \subseteq Subtask \X Nat
    BY <1>3, <1>4 DEF LifecycleInv, RowsTypeOK
  <2> QED
    BY <1>2, <2>1, <2>2, <2>3 DEF LifecycleInv, RowsTypeOK, TaskStatus, SubtaskStatus
<1>7. \A k \in Running : k[1] \in Subtask /\ sub[k[1]] = "RUNNING"
  BY DEF LifecycleInv, RowsTypeOK, RunningHasRecord, Running
<1>8. OneOpenAttempt'
  <2>1. \A k \in Running : k[1] \notin items
    BY <1>1, <1>7
  <2> QED
    BY <1>3, <1>5, <2>1 DEF LifecycleInv, OneOpenAttempt
<1>9. RunningHasRecord'
  <2>1. ASSUME NEW s \in Subtask
        PROVE  sub'[s] = "RUNNING" <=> \E k \in Running' : k[1] = s
    <3>1. CASE s \in items
      BY <1>2, <1>3, <1>5, <3>1
    <3>2. CASE s \notin items
      BY <1>2, <1>3, <1>5, <3>2 DEF LifecycleInv, RunningHasRecord
    <3> QED
      BY <3>1, <3>2
  <2> QED
    BY <2>1 DEF RunningHasRecord
<1>10. JoinUnlocked'
  BY <1>1, <1>2 DEF LifecycleInv, JoinUnlocked, Predecessors
<1>11. TaskSuccessAggregates'
  BY <1>1, <1>2 DEF TaskSuccessAggregates, AllSucceeded
<1>12. FailuresEndTask'
  <2>1. task \in {"SCHEDULED", "RUNNING"}
    BY TaskGuards DEF Start, LifecycleInv, RowsTypeOK
  <2> QED
    BY <1>1, <1>2, <2>1 DEF LifecycleInv, FailuresEndTask
<1>13. CanceledIsQuiet' /\ NothingStarted' /\ ScheduledHasPlan' /\ StatusesCommitted'
  BY <1>2 DEF LifecycleInv, CanceledIsQuiet, NothingStarted, ScheduledHasPlan,
              StatusesCommitted
<1> QED
  BY <1>6, <1>8, <1>9, <1>10, <1>11, <1>12, <1>13 DEF LifecycleInv

(* _unlock_successors turns some WAITING subtasks READY. *)
LEMMA UnlockedStatuses ==
  ASSUME NEW f \in [Subtask -> SubtaskStatus], NEW s \in Subtask
  PROVE  /\ Unlocked(f, s) \in [Subtask -> SubtaskStatus]
         /\ \A x \in Subtask : \/ Unlocked(f, s)[x] = f[x]
                               \/ f[x] = "WAITING" /\ Unlocked(f, s)[x] = "READY"
BY DEF Unlocked, SubtaskStatus

(* What report_result makes of the statuses: the subtask reported on ends or
   becomes READY again, and WAITING subtasks may become READY. *)
LEMMA ReportedStatuses ==
  ASSUME RowsTypeOK, NEW k \in DOMAIN exec, NEW result \in Result, Report(k, result)
  PROVE  /\ k[1] \in Subtask /\ sub[k[1]] = "RUNNING" /\ k \in Running
         /\ sub' \in [Subtask -> SubtaskStatus]
         /\ sub'[k[1]] = IF result = "SUCCESS" THEN "SUCCESS"
                         ELSE IF CanRetry(k[1], retry[k[1]], result) THEN "READY" ELSE "FAILED"
         /\ \A s \in Subtask \ {k[1]} :
              sub'[s] = sub[s] \/ (sub[s] = "WAITING" /\ sub'[s] = "READY")
         /\ Running' = Running \ {k}
<1> DEFINE s == k[1]
<1>1. s \in Subtask /\ sub \in [Subtask -> SubtaskStatus]
  BY DEF RowsTypeOK
<1>2. sub[s] = "RUNNING" /\ k \in Running
  BY TransitionEntries DEF Report, SubtaskCanEnd, Running
<1>3. sub' = SubtasksAfterReport(sub, s, retry[s], result)
  BY DEF Report
<1>4. Running' = Running \ {k}
  BY ResultAssumption DEF Report, RecordsAfter, Running
<1>5. CASE result = "SUCCESS"
  <2> DEFINE f == [sub EXCEPT ![s] = "SUCCESS"]
  <2>1. f \in [Subtask -> SubtaskStatus] /\ f[s] = "SUCCESS"
    BY <1>1 DEF SubtaskStatus
  <2>2. sub' = Unlocked(f, s)
    BY <1>3, <1>5 DEF SubtasksAfterReport
  <2>3. \A x \in Subtask \ {s} : f[x] = sub[x]
    BY <1>1
  <2> HIDE DEF f
  <2>4. /\ sub' \in [Subtask -> SubtaskStatus]
        /\ \A x \in Subtask : sub'[x] = f[x] \/ (f[x] = "WAITING" /\ sub'[x] = "READY")
    BY <1>1, <2>1, <2>2, UnlockedStatuses
  <2> QED
    BY <1>1, <1>2, <1>4, <1>5, <2>1, <2>3, <2>4
<1>6. CASE result # "SUCCESS"
  <2> DEFINE u == IF CanRetry(s, retry[s], result) THEN "READY" ELSE "FAILED"
  <2>1. sub' = [sub EXCEPT ![s] = u] /\ u \in SubtaskStatus
    BY <1>3, <1>6 DEF SubtasksAfterReport, SubtaskStatus
  <2>2. /\ sub' \in [Subtask -> SubtaskStatus] /\ sub'[s] = u
        /\ \A x \in Subtask \ {s} : sub'[x] = sub[x]
    BY <1>1, <2>1
  <2>3. sub'[s] = IF result = "SUCCESS" THEN "SUCCESS" ELSE u
    BY <1>6, <2>2
  <2> HIDE DEF u
  <2>4. \A x \in Subtask \ {s} : sub'[x] = sub[x] \/ (sub[x] = "WAITING" /\ sub'[x] = "READY")
    BY <2>2
  <2> QED
    BY <1>1, <1>2, <1>4, <2>2, <2>3, <2>4, Zenon DEF u
<1> QED
  BY <1>5, <1>6

(* After a success, what still waits has another predecessor to wait for. *)
LEMMA ReportUnlocks ==
  ASSUME LifecycleInv, NEW k \in DOMAIN exec, NEW result \in Result, Report(k, result)
  PROVE  JoinUnlocked'
<1> DEFINE s == k[1]
<1>1. /\ s \in Subtask /\ sub[s] = "RUNNING"
      /\ \A x \in Subtask \ {s} : sub'[x] = sub[x] \/ (sub[x] = "WAITING" /\ sub'[x] = "READY")
      /\ sub'[s] \in {"SUCCESS", "READY", "FAILED"}
      /\ result # "SUCCESS" => sub'[s] # "SUCCESS"
  BY ReportedStatuses DEF LifecycleInv
<1>2. ASSUME NEW x \in Subtask, sub'[x] = "WAITING"
      PROVE  \E p \in Predecessors(x) : sub'[p] # "SUCCESS"
  <2>1. x # s /\ sub[x] = "WAITING"
    BY <1>1, <1>2
  <2>2. PICK p \in Predecessors(x) : sub[p] # "SUCCESS"
    BY <2>1 DEF LifecycleInv, JoinUnlocked
  <2>3. p \in Subtask
    BY DEF Predecessors
  <2>4. CASE p # s \/ result # "SUCCESS"
    BY <1>1, <2>2, <2>3, <2>4
  <2>5. CASE p = s /\ result = "SUCCESS"
    <3> DEFINE f == [sub EXCEPT ![s] = "SUCCESS"]
    <3>1. sub' = Unlocked(f, s)
      BY <2>5 DEF Report, SubtasksAfterReport
    <3>2. <<s, x>> \in Dep /\ f[x] = "WAITING"
      BY <2>1, <2>5 DEF Predecessors, LifecycleInv, RowsTypeOK
    <3>3. PICK q \in Predecessors(x) : f[q] # "SUCCESS"
      BY <1>2, <3>1, <3>2 DEF Unlocked
    <3>4. q \in Subtask /\ q # s /\ f[q] = sub[q]
      BY <1>1, <3>3 DEF Predecessors, LifecycleInv, RowsTypeOK
    <3> QED
      BY <1>1, <3>3, <3>4
  <2> QED
    BY <2>4, <2>5
<1> QED
  BY <1>2 DEF JoinUnlocked

LEMMA ReportStep ==
  ASSUME LifecycleInv, NEW k \in DOMAIN exec, NEW result \in Result, Report(k, result)
  PROVE  LifecycleInv'
<1> DEFINE s == k[1]
           again == CanRetry(s, retry[s], result)
<1>1. /\ s \in Subtask /\ sub[s] = "RUNNING" /\ k \in Running
      /\ sub' \in [Subtask -> SubtaskStatus]
      /\ sub'[s] = IF result = "SUCCESS" THEN "SUCCESS" ELSE IF again THEN "READY" ELSE "FAILED"
      /\ \A x \in Subtask \ {s} : sub'[x] = sub[x] \/ (sub[x] = "WAITING" /\ sub'[x] = "READY")
      /\ Running' = Running \ {k}
  BY ReportedStatuses DEF LifecycleInv
<1>2. /\ task' = IF result = "SUCCESS" THEN IF AllSucceeded(sub') THEN "SUCCESS" ELSE task
                 ELSE IF again THEN task ELSE "FAILED"
      /\ UNCHANGED plan
      /\ result = "SUCCESS" /\ AllSucceeded(sub') => task = "RUNNING"
      /\ result # "SUCCESS" /\ ~again => task = "RUNNING"
  BY TransitionEntries DEF Report, TaskAfterReport, TaskCanFollow
<1> HIDE DEF again
<1>3. task \in TaskStatus /\ task \in {"RUNNING", "FAILED"}
  BY <1>1 DEF LifecycleInv, RowsTypeOK, TaskStatus, NothingStarted, CanceledIsQuiet,
              TaskSuccessAggregates, AllSucceeded
<1>4. RowsTypeOK'
  <2>1. retry' \in [Subtask -> Nat]
    BY DEF Report, LifecycleInv, RowsTypeOK
  <2>2. /\ DOMAIN exec' = DOMAIN exec
        /\ exec' \in [DOMAIN exec' -> ExecutionStatus]
    BY ResultAssumption DEF Report, RecordsAfter, LifecycleInv, RowsTypeOK
  <2>3. task' \in TaskStatus
    BY <1>2, <1>3 DEF TaskStatus
  <2> QED
    BY <1>1, <1>2, <2>1, <2>2, <2>3 DEF LifecycleInv, RowsTypeOK
<1>5. OneOpenAttempt'
  BY <1>1 DEF LifecycleInv, OneOpenAttempt
<1>6. JoinUnlocked'
  BY ReportUnlocks
<1>7. RunningHasRecord'
  <2>1. ASSUME NEW x \in Subtask
        PROVE  sub'[x] = "RUNNING" <=> \E j \in Running' : j[1] = x
    <3>1. CASE x = s
      BY <1>1, <3>1 DEF LifecycleInv, OneOpenAttempt
    <3>2. CASE x # s
      <4>1. sub'[x] = "RUNNING" <=> sub[x] = "RUNNING"
        BY <1>1, <3>2
      <4> QED
        BY <1>1, <3>2, <4>1 DEF LifecycleInv, RunningHasRecord
    <3> QED
      BY <3>1, <3>2
  <2> QED
    BY <2>1 DEF RunningHasRecord
<1>8. TaskSuccessAggregates'
  <2>1. AllSucceeded(sub') => result = "SUCCESS"
    BY <1>1 DEF AllSucceeded
  <2>2. AllSucceeded(sub)' <=> AllSucceeded(sub')
    BY DEF AllSucceeded
  <2> QED
    BY <1>2, <1>3, <2>1, <2>2 DEF TaskSuccessAggregates
<1>9. FailuresEndTask'
  <2>1. ASSUME NEW x \in Subtask, sub'[x] \in {"FAILED", "CANCELED"}
        PROVE  task' \in {"FAILED", "CANCELED"}
    <3>1. CASE x = s
      BY <1>1, <1>2, <2>1, <3>1
    <3>2. CASE x # s
      <4>1. sub[x] \in {"FAILED", "CANCELED"}
        BY <1>1, <2>1, <3>2
      <4>2. task \in {"FAILED", "CANCELED"}
        BY <4>1 DEF LifecycleInv, FailuresEndTask
      <4>3. ~AllSucceeded(sub')
        BY <2>1 DEF AllSucceeded
      <4> QED
        BY <1>2, <4>2, <4>3
    <3> QED
      BY <3>1, <3>2
  <2> QED
    BY <2>1 DEF FailuresEndTask
<1>10. CanceledIsQuiet' /\ NothingStarted' /\ ScheduledHasPlan'
  BY <1>2, <1>3 DEF CanceledIsQuiet, NothingStarted, ScheduledHasPlan
<1>11. StatusesCommitted'
  BY <1>1 DEF LifecycleInv, StatusesCommitted
<1> QED
  BY <1>4, <1>5, <1>6, <1>7, <1>8, <1>9, <1>10, <1>11 DEF LifecycleInv

(* cancel_task leaves no record RUNNING and no subtask to be executed. *)
LEMMA CancelStep ==
  ASSUME LifecycleInv, Cancel
  PROVE  LifecycleInv'
<1>1. /\ task' = "CANCELED" /\ UNCHANGED <<retry, plan>>
      /\ sub' = [s \in Subtask |-> IF sub[s] \in TerminalSubtask THEN sub[s] ELSE "CANCELED"]
      /\ DOMAIN exec' = DOMAIN exec
      /\ exec' = [k \in DOMAIN exec |-> IF k \in Running THEN "CANCELED" ELSE exec[k]]
  BY DEF Cancel, SubtasksAfterCancel, RecordsAfter
<1>2. Running' = {}
  BY <1>1 DEF Running
<1>3. task \in {"PENDING", "SCHEDULED", "RUNNING"}
  BY TaskGuards DEF Cancel, LifecycleInv, RowsTypeOK
<1>4. \A s \in Subtask : sub'[s] \in TerminalSubtask
  BY <1>1 DEF TerminalSubtask
<1>5. RowsTypeOK'
  BY <1>1 DEF LifecycleInv, RowsTypeOK, TaskStatus, SubtaskStatus, ExecutionStatus
<1>6. TaskSuccessAggregates'
  <2>1. ~AllSucceeded(sub)
    BY <1>3 DEF LifecycleInv, TaskSuccessAggregates
  <2> QED
    BY <1>1, <2>1 DEF TaskSuccessAggregates, AllSucceeded
<1>7. OneOpenAttempt' /\ RunningHasRecord' /\ CanceledIsQuiet' /\ JoinUnlocked'
  BY <1>2, <1>4 DEF OneOpenAttempt, RunningHasRecord, CanceledIsQuiet, JoinUnlocked,
                    TerminalSubtask
<1>8. FailuresEndTask' /\ NothingStarted' /\ ScheduledHasPlan' /\ StatusesCommitted'
  BY <1>1, <1>4 DEF FailuresEndTask, NothingStarted, ScheduledHasPlan, StatusesCommitted,
                    TerminalSubtask
<1> QED
  BY <1>5, <1>6, <1>7, <1>8 DEF LifecycleInv
-----------------------------------------------------------------------------
LEMMA LifecycleInit == RowsInit => LifecycleInv
<1> SUFFICES ASSUME RowsInit PROVE LifecycleInv
  OBVIOUS
<1>1. /\ task = "PENDING" /\ DOMAIN exec = {} /\ plan = <<>>
      /\ \A s \in Subtask : sub[s] = IF Predecessors(s) # {} THEN "WAITING" ELSE "READY"
      /\ sub \in [Subtask -> {"WAITING", "READY"}]
  BY DEF RowsInit, InitialSubtask
<1>2. RowsTypeOK
  BY <1>1 DEF RowsInit, RowsTypeOK, TaskStatus, SubtaskStatus
<1>3. JoinUnlocked
  BY <1>1 DEF JoinUnlocked, Predecessors
<1>4. TaskSuccessAggregates
  BY <1>1, NonEmptyAssumption DEF TaskSuccessAggregates, AllSucceeded
<1>5. OneOpenAttempt /\ RunningHasRecord /\ CanceledIsQuiet
  BY <1>1 DEF OneOpenAttempt, RunningHasRecord, CanceledIsQuiet, Running
<1>6. FailuresEndTask /\ NothingStarted /\ ScheduledHasPlan /\ StatusesCommitted
  BY <1>1 DEF FailuresEndTask, NothingStarted, ScheduledHasPlan, StatusesCommitted
<1> QED
  BY <1>2, <1>3, <1>4, <1>5, <1>6 DEF LifecycleInv

LEMMA LifecycleNext == LifecycleInv /\ [Next]_rows => LifecycleInv'
<1> SUFFICES ASSUME LifecycleInv, [Next]_rows PROVE LifecycleInv'
  OBVIOUS
<1>1. CASE UNCHANGED rows
  BY <1>1
  DEF rows, LifecycleInv, RowsTypeOK, OneOpenAttempt, JoinUnlocked, TaskSuccessAggregates,
      AllSucceeded, RunningHasRecord, CanceledIsQuiet, Running, FailuresEndTask,
      NothingStarted, ScheduledHasPlan, StatusesCommitted
<1> QED
  BY <1>1, ScheduleStep, StartStep, ReportStep, CancelStep DEF Next

(* LifecycleInv is an invariant of the serial life of a task. *)
THEOREM LifecycleInvariance == Spec => []LifecycleInv
BY LifecycleInit, LifecycleNext, PTL DEF Spec

(* No join is forgotten: a subtask waits only for one that has not succeeded. *)
THEOREM NoJoinForgotten == Spec => []JoinUnlocked
<1>1. LifecycleInv => JoinUnlocked
  BY DEF LifecycleInv
<1> QED
  BY <1>1, LifecycleInvariance, PTL

(* The task is SUCCESS exactly when all its subtasks are. *)
THEOREM SuccessAggregates == Spec => []TaskSuccessAggregates
<1>1. LifecycleInv => TaskSuccessAggregates
  BY DEF LifecycleInv
<1> QED
  BY <1>1, LifecycleInvariance, PTL

(* A subtask is RUNNING exactly when one of its records is. *)
THEOREM SubtasksMatchRecords == Spec => []RunningHasRecord
<1>1. LifecycleInv => RunningHasRecord
  BY DEF LifecycleInv
<1> QED
  BY <1>1, LifecycleInvariance, PTL

(* Nothing of a CANCELED task is RUNNING or can be started. *)
THEOREM CancellationIsComplete == Spec => []CanceledIsQuiet
<1>1. LifecycleInv => CanceledIsQuiet
  BY DEF LifecycleInv
<1> QED
  BY <1>1, LifecycleInvariance, PTL

(* A task that has not ended is never stuck: of the subtasks that have not
   succeeded, one has only successful predecessors, because the graph has no
   cycle; it does not wait, so it is READY or RUNNING. *)
THEOREM NeverStuck == Spec => []CanProgress
<1>1. ASSUME LifecycleInv, task \notin TerminalTask
      PROVE  \/ TaskCanSchedule(task) /\ ReadySubtasks(sub) # {}
             \/ TaskCanRun(task) /\ \E p \in DOMAIN plan : PlanCanApply(sub, plan[p])
             \/ Running # {}
  <2> DEFINE S == {s \in Subtask : sub[s] # "SUCCESS"}
  <2>1. task \in {"PENDING", "SCHEDULED", "RUNNING"}
    BY <1>1 DEF LifecycleInv, RowsTypeOK, TaskStatus, TerminalTask
  <2>2. S # {}
    BY <1>1, <2>1 DEF LifecycleInv, TaskSuccessAggregates, AllSucceeded
  <2>3. PICK s \in S : Predecessors(s) \cap S = {}
    BY <2>2, AcyclicAssumption
  <2>4. \A p \in Predecessors(s) : sub[p] = "SUCCESS"
    BY <2>3 DEF Predecessors
  <2>5. sub[s] # "WAITING"
    BY <1>1, <2>4 DEF LifecycleInv, JoinUnlocked
  <2>6. sub[s] \notin {"FAILED", "CANCELED", "DISPATCHED", "RETRYING"}
    BY <1>1, <2>1 DEF LifecycleInv, FailuresEndTask, StatusesCommitted
  <2>7. s \in Subtask /\ sub[s] \in {"READY", "RUNNING"}
    BY <1>1, <2>5, <2>6 DEF LifecycleInv, RowsTypeOK, SubtaskStatus
  <2>8. CASE sub[s] = "RUNNING"
    BY <1>1, <2>7, <2>8 DEF LifecycleInv, RunningHasRecord
  <2>9. CASE sub[s] = "READY" /\ task \in {"PENDING", "RUNNING"}
    BY <2>7, <2>9, TransitionEntries DEF TaskCanSchedule, ReadySubtasks
  <2>10. CASE task = "SCHEDULED"
    BY <1>1, <2>10, TransitionEntries DEF LifecycleInv, ScheduledHasPlan, TaskCanRun
  <2> QED
    BY <2>1, <2>7, <2>8, <2>9, <2>10
<1>2. LifecycleInv => CanProgress
  BY <1>1 DEF CanProgress
<1> QED
  BY <1>2, LifecycleInvariance, PTL

(* What each handler may do to the status of the task. *)
LEMMA TaskMoves ==
  ASSUME LifecycleInv, [Next]_rows, task' # task
  PROVE  \/ task = "PENDING" /\ task' = "SCHEDULED"
         \/ task = "SCHEDULED" /\ task' = "RUNNING"
         \/ task = "RUNNING" /\ task' \in {"SUCCESS", "FAILED"}
         \/ task \in {"PENDING", "SCHEDULED", "RUNNING"} /\ task' = "CANCELED"
<1> USE TaskGuards DEF LifecycleInv, RowsTypeOK
<1>1. CASE Schedule
  BY <1>1 DEF Schedule, TaskAfterSchedule
<1>2. ASSUME NEW p \in DOMAIN plan, Start(p)
      PROVE  task = "SCHEDULED" /\ task' = "RUNNING"
  BY <1>2 DEF Start
<1>3. ASSUME NEW k \in DOMAIN exec, NEW result \in Result, Report(k, result)
      PROVE  task = "RUNNING" /\ task' \in {"SUCCESS", "FAILED"}
  BY <1>3, TransitionEntries DEF Report, TaskAfterReport, TaskCanFollow
<1>4. CASE Cancel
  BY <1>4 DEF Cancel
<1> QED
  BY <1>1, <1>2, <1>3, <1>4 DEF Next, rows

(* A task moves only as the state machine design has it. *)
THEOREM TaskFollowsDesign == Spec => TaskMovesLegally
<1>1. LifecycleInv /\ [Next]_rows =>
        [task' # task => <<task, task'>> \in
           ({"PENDING"}   \X {"SCHEDULED", "CANCELED"}) \cup
           ({"SCHEDULED"} \X {"RUNNING", "CANCELED"}) \cup
           ({"RUNNING"}   \X {"SUCCESS", "FAILED", "CANCELED"})]_rows
  BY TaskMoves
<1> QED
  BY <1>1, LifecycleInvariance, PTL DEF Spec, TaskMovesLegally

(* A task that has ended keeps its status. *)
THEOREM EndedTaskStays == Spec => TerminalTaskStays
<1>1. LifecycleInv /\ [Next]_rows => [(task \in TerminalTask) => (task' = task)]_rows
  BY TaskMoves DEF TerminalTask
<1> QED
  BY <1>1, LifecycleInvariance, PTL DEF Spec, TerminalTaskStays

(* A subtask that has ended keeps its status: not even a cancellation or a
   late result changes it. *)
THEOREM EndedSubtaskStays == Spec => TerminalSubtaskStays
<1>1. ASSUME LifecycleInv, [Next]_rows, NEW s \in Subtask, sub[s] \in TerminalSubtask
      PROVE  sub'[s] = sub[s]
  <2>1. ASSUME NEW p \in DOMAIN plan, Start(p) PROVE sub'[s] = sub[s]
    <3>1. s \notin plan[p].items
      BY <1>1, <2>1, StartedSubtasks DEF Start, LifecycleInv, TerminalSubtask
    <3> QED
      BY <2>1, <3>1 DEF Start, SubtasksAfterStart
  <2>2. ASSUME NEW k \in DOMAIN exec, NEW result \in Result, Report(k, result)
        PROVE  sub'[s] = sub[s]
    BY <1>1, <2>2, ReportedStatuses DEF LifecycleInv, TerminalSubtask
  <2>3. CASE Cancel
    BY <1>1, <2>3 DEF Cancel, SubtasksAfterCancel
  <2>4. CASE Schedule \/ UNCHANGED rows
    BY <2>4 DEF Schedule, rows
  <2> QED
    BY <1>1, <2>1, <2>2, <2>3, <2>4 DEF Next
<1>2. LifecycleInv /\ [Next]_rows =>
        [\A s \in Subtask : sub[s] \in TerminalSubtask => sub'[s] = sub[s]]_rows
  BY <1>1
<1> QED
  BY <1>2, LifecycleInvariance, PTL DEF Spec, TerminalSubtaskStays
=============================================================================
