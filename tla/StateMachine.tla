---------------------------- MODULE StateMachine ----------------------------
(***************************************************************************)
(* The status vocabularies of app/domain/enums.py and the transition table *)
(* of app/domain/state_machine.py.                                         *)
(*                                                                         *)
(* Every status class is a StrEnum, so its members compare and hash as     *)
(* their strings: TaskStatus.RUNNING, SubtaskStatus.RUNNING and            *)
(* ExecutionStatus.RUNNING are ONE key of the dictionary, and the entry    *)
(* written last is the one the program looks up.  Statuses are therefore   *)
(* plain strings here, and AllowedTransitions has the merged entries.      *)
(***************************************************************************)

TaskStatus == {"PENDING", "SCHEDULED", "RUNNING", "SUCCESS", "FAILED", "CANCELED"}

SubtaskStatus == {"WAITING", "READY", "DISPATCHED", "RUNNING",
                  "SUCCESS", "FAILED", "RETRYING", "CANCELED"}

PlanStatus == {"GENERATED", "APPLIED", "CANCELED"}

ExecutionStatus == {"RUNNING", "SUCCESS", "FAILED", "TIMEOUT", "CANCELED"}

NodeStatus == {"ONLINE", "BUSY", "OFFLINE"}

(* The statuses the services treat as final. *)
TerminalTask == {"SUCCESS", "FAILED", "CANCELED"}
TerminalSubtask == {"SUCCESS", "FAILED", "CANCELED"}

(* The dictionary as the program sees it: the three RUNNING entries have   *)
(* collapsed into the execution one, and the FAILED entry, written for     *)
(* subtasks, also answers for tasks and executions.                        *)
AllowedTransitions ==
  UNION { {"PENDING"}    \X {"SCHEDULED", "CANCELED"},
          {"SCHEDULED"}  \X {"RUNNING", "CANCELED"},
          {"WAITING"}    \X {"READY", "CANCELED"},
          {"READY"}      \X {"DISPATCHED", "CANCELED"},
          {"DISPATCHED"} \X {"RUNNING", "CANCELED"},
          {"RUNNING"}    \X {"SUCCESS", "FAILED", "TIMEOUT", "CANCELED"},
          {"FAILED"}     \X {"RETRYING"},
          {"RETRYING"}   \X {"READY", "CANCELED"},
          {"ONLINE"}     \X {"BUSY", "OFFLINE"},
          {"BUSY"}       \X {"ONLINE", "OFFLINE"},
          {"OFFLINE"}    \X {"ONLINE"},
          {"GENERATED"}  \X {"APPLIED", "CANCELED"},
          {"APPLIED"}    \X {"CANCELED"} }

CanTransition(current, target) == <<current, target>> \in AllowedTransitions
=============================================================================
