--------------------------- MODULE TaskLifecycle ---------------------------
(***************************************************************************)
(* The life of one DAG task when no two handlers overlap: each service     *)
(* call reads, decides and commits in one step.  This is what the service  *)
(* methods do by themselves, and the abstract specification the handlers   *)
(* would implement if their transactions were serializable.                *)
(*                                                                         *)
(* A call that is refused (AppError, IntegrityError) is rolled back and    *)
(* changes nothing: it is a stuttering step, not an action.                *)
(***************************************************************************)
EXTENDS TaskDatabase

CONSTANT MaxPlans   \* bound on the number of generated plans

ASSUME MaxPlansAssumption == MaxPlans \in Nat

(* SchedulingService.generate_plan *)
Schedule ==
  /\ TaskCanSchedule(task)
  /\ ReadySubtasks(sub) # {}
  /\ Len(plan) < MaxPlans
  /\ task' = TaskAfterSchedule(task)
  /\ plan' = Append(plan, GeneratedPlan(sub))
  /\ UNCHANGED <<sub, retry, exec>>

(* ExecutionService.start_execution of plan p *)
Start(p) ==
  /\ TaskCanRun(task)
  /\ PlanCanApply(sub, plan[p])
  /\ NewAttempts(retry, plan[p].items) \cap DOMAIN exec = {}
  /\ task' = "RUNNING"
  /\ sub' = SubtasksAfterStart(sub, plan[p].items)
  /\ plan' = PlansAfterApply({p})
  /\ exec' = RecordsAfter(NewAttempts(retry, plan[p].items), {}, "RUNNING")
  /\ UNCHANGED retry

(* ExecutionService.report_result of result for the record with key k *)
Report(k, result) ==
  LET s == k[1]
      subAfter == SubtasksAfterReport(sub, s, retry[s], result)
  IN /\ exec[k] = "RUNNING"
     /\ SubtaskCanEnd(sub[s], result)
     /\ TaskCanFollow(task, subAfter, s, retry[s], result)
     /\ task' = TaskAfterReport(task, subAfter, s, retry[s], result)
     /\ sub' = subAfter
     /\ retry' = IF CanRetry(s, retry[s], result)
                 THEN [retry EXCEPT ![s] = @ + 1] ELSE retry
     /\ exec' = RecordsAfter({}, {k}, result)
     /\ UNCHANGED plan

(* (mutant: the records of a canceled task are forgotten) *)
CancelRowsOnly ==
  /\ TaskCanCancel(task)
  /\ task' = "CANCELED"
  /\ sub' = SubtasksAfterCancel(sub)
  /\ UNCHANGED <<retry, plan, exec>>

(* TaskService.cancel_task *)
Cancel ==
  /\ TaskCanCancel(task)
  /\ task' = "CANCELED"
  /\ sub' = SubtasksAfterCancel(sub)
  /\ exec' = RecordsAfter({}, Running, "CANCELED")
  /\ UNCHANGED <<retry, plan>>

Next ==
  \/ Schedule
  \/ \E p \in DOMAIN plan : Start(p)
  \/ \E k \in DOMAIN exec, result \in Result : Report(k, result)
  \/ Cancel

Spec == RowsInit /\ [][Next]_rows
=============================================================================
