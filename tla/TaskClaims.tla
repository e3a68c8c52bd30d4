----------------------------- MODULE TaskClaims -----------------------------
(***************************************************************************)
(* What the design documents say of a task and the handlers do not do.     *)
(* Each definition quotes the sentence it states; the runs that check it   *)
(* find it violated.                                                       *)
(***************************************************************************)
EXTENDS TaskDatabase

(* docs/07_state_machine_design.md:376 allows RUNNING -> FAILED whenever a *)
(* failure is reported.  report_result refuses the final failure of a      *)
(* subtask whose task is already FAILED, so its record stays RUNNING.      *)
EveryResultSettles ==
  \A k \in Running, result \in Result :
    LET s == k[1]
    IN /\ SubtaskCanEnd(sub[s], result)
       /\ TaskCanFollow(task, SubtasksAfterReport(sub, s, retry[s], result),
                        s, retry[s], result)

(* docs/07_state_machine_design.md:141 says that the task becomes SUCCESS  *)
(* once all its subtasks have succeeded.  Two results reported at the same *)
(* time each see the other's subtask RUNNING, and neither ends the task.   *)
AllSucceededEndsTask == AllSucceeded(sub) => task = "SUCCESS"

=============================================================================
