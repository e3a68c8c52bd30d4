--------------------------- MODULE WorkerDelivery ---------------------------
(***************************************************************************)
(* From the commit of start_execution to the result in the database: the   *)
(* API enqueues one Celery message for each new execution record, workers  *)
(* run execute_subtask, and cancel_task revokes what it cancels.           *)
(*                                                                         *)
(* The records of one execute_task call are followed; a report is one      *)
(* step, as its row lock allows (TaskTransactions).  The message broker    *)
(* and Celery itself are external and modelled from their configuration    *)
(* in app/worker/celery_app.py: messages are acknowledged late, a message  *)
(* whose worker is lost goes back to the queue, one that is rejected goes  *)
(* to the dead letter queue.                                               *)
(***************************************************************************)
EXTENDS Naturals, FiniteSets, Bags, StateMachine

CONSTANTS
  Execution,    \* the records that start_execution has inserted
  Worker,       \* the worker processes
  MaxRetries,   \* celery_execution_max_retries
  Outcome,      \* the simulated result_status
  MaxFaults     \* bound on crashes, lost connections and rollbacks

ASSUME MaxRetriesAssumption == MaxRetries \in Nat
ASSUME MaxFaultsAssumption == MaxFaults \in Nat
ASSUME OutcomeAssumption == Outcome \in ExecutionStatus \ {"RUNNING"}

VARIABLES
  record,     \* execution_records.status
  celeryId,   \* the records whose celery_task_id is set
  api,        \* execute_task: where it is, and what it has enqueued
  queue,      \* the bag of messages in the execution queue
  worker,     \* what each worker process is doing
  broadcast,  \* the Celery tasks a revocation was sent for
  revoked,    \* those each worker has heard of and remembers
  cancel,     \* cancel_task: its locked records, its revocations left
  failed,     \* the Celery tasks that ended in FAILURE
  discarded,  \*   that a worker discarded as REVOKED
  dead,       \*   that were rejected to the dead letter queue
  alerts,     \* worker_alerts: executions with CELERY_RETRY_EXHAUSTED
  faults      \* counts the faults

vars == <<record, celeryId, api, queue, worker, broadcast, revoked, cancel,
          failed, discarded, dead, alerts, faults>>

workerVars == <<queue, worker, failed, discarded, dead, alerts>>
apiVars == <<celeryId, api>>
cancelVars == <<broadcast, revoked, cancel>>

Message == [exec : Execution, tries : 0..MaxRetries]

(* owns: the broker still waits for this worker's acknowledgement *)
Delivery ==
  [at : {"executing", "reporting", "retrying", "finished"},
   msg : Message, result : ExecutionStatus, owns : BOOLEAN]

Free == [at |-> "free"]

TypeOK ==
  /\ record \in [Execution -> ExecutionStatus]
  /\ celeryId \subseteq Execution
  /\ api \in [at : {"enqueueing", "done", "gone"}, sent : SUBSET Execution]
  /\ IsABag(queue) /\ BagToSet(queue) \subseteq Message
  /\ worker \in [Worker -> Delivery \cup {Free}]
  /\ broadcast \subseteq Execution
  /\ revoked \in [Worker -> SUBSET Execution]
  /\ cancel \in [at : {"none", "revoking", "done"},
                 locked : SUBSET Execution, left : SUBSET Execution]
  /\ failed \cup discarded \cup dead \cup alerts \subseteq Execution
  /\ faults \in 0..MaxFaults

NoCancel == [at |-> "none", locked |-> {}, left |-> {}]

(* start_execution has committed. *)
Init ==
  /\ record = [e \in Execution |-> "RUNNING"]
  /\ celeryId = {}
  /\ api = [at |-> "enqueueing", sent |-> {}]
  /\ queue = EmptyBag
  /\ worker = [w \in Worker |-> Free]
  /\ broadcast = {}
  /\ revoked = [w \in Worker |-> {}]
  /\ cancel = NoCancel
  /\ failed = {} /\ discarded = {} /\ dead = {} /\ alerts = {}
  /\ faults = 0

Fault == faults < MaxFaults /\ faults' = faults + 1

Put(m) == queue (+) SetToBag({m})
Take(m) == queue (-) SetToBag({m})
-----------------------------------------------------------------------------
(* execute_task after its first commit: one message for each record, then  *)
(* all Celery ids with a second commit, which waits for row locks.         *)
Enqueue(e) ==
  /\ api.at = "enqueueing" /\ e \notin api.sent
  /\ api' = [api EXCEPT !.sent = @ \cup {e}]
  /\ queue' = Put([exec |-> e, tries |-> 0])
  /\ UNCHANGED <<record, celeryId, worker, cancelVars, failed, discarded, dead,
                 alerts, faults>>

RecordIds ==
  /\ api.at = "enqueueing" /\ api.sent = Execution
  /\ cancel.locked = {}
  /\ celeryId' = Execution
  /\ api' = [api EXCEPT !.at = "done"]
  /\ UNCHANGED <<record, workerVars, cancelVars, faults>>

(* The broker refuses a message, the second commit fails, or the process   *)
(* dies: the rest is not enqueued, and no id is recorded.                  *)
ApiFails ==
  /\ api.at = "enqueueing" /\ Fault
  /\ api' = [api EXCEPT !.at = "gone"]
  /\ UNCHANGED <<record, celeryId, workerVars, cancelVars>>
-----------------------------------------------------------------------------
(* execute_subtask *)
Receive(w, m) ==
  /\ worker[w] = Free /\ BagIn(m, queue) /\ m.exec \notin revoked[w]
  /\ queue' = Take(m)
  /\ worker' = [worker EXCEPT ![w] = [at |-> "executing", msg |-> m,
                                      result |-> "RUNNING", owns |-> TRUE]]
  /\ UNCHANGED <<record, apiVars, cancelVars, failed, discarded, dead, alerts, faults>>

(* A message of a revoked Celery task is acknowledged unseen. *)
Discard(w, m) ==
  /\ worker[w] = Free /\ BagIn(m, queue) /\ m.exec \in revoked[w]
  /\ queue' = Take(m)
  /\ discarded' = discarded \cup {m.exec}
  /\ UNCHANGED <<record, apiVars, worker, cancelVars, failed, dead, alerts, faults>>

(* (mutant: the check reads what cancel_task has not committed) *)
CanceledOrLocked(e) == record[e] = "CANCELED" \/ e \in cancel.locked

(* is_execution_canceled: a plain SELECT sees what is committed. *)
IsCanceled(e) == record[e] = "CANCELED"

(* sleep_with_cancel_checks: one of its checks finds the record CANCELED,  *)
(* or all of them, the one after the sleep included, do not.               *)
EndWork(w) ==
  LET d == worker[w]
  IN /\ d.at = "executing"
     /\ worker' = [worker EXCEPT ![w] =
          [d EXCEPT !.at = "reporting",
                    !.result = IF IsCanceled(d.msg.exec) THEN "CANCELED" ELSE Outcome]]
     /\ UNCHANGED <<record, queue, apiVars, cancelVars, failed, discarded, dead,
                    alerts, faults>>

(* (mutant: a late result overwrites) *)
AlwaysSettled(e, result) == [record EXCEPT ![e] = result]

Settled(e, result) ==
  IF record[e] = "RUNNING" THEN [record EXCEPT ![e] = result] ELSE record

(* report_result and its commit: accepted if the record is RUNNING once    *)
(* its lock is granted.  The connection may be lost with the commit done:  *)
(* then the worker takes it for a failure.                                 *)
Report(w) ==
  LET d == worker[w]
  IN /\ d.at = "reporting" /\ d.msg.exec \notin cancel.locked
     /\ record' = Settled(d.msg.exec, d.result)
     /\ \E at \in {"finished", "retrying"} : worker' = [worker EXCEPT ![w].at = at]
     /\ UNCHANGED <<queue, apiVars, cancelVars, failed, discarded, dead, alerts, faults>>

(* The state of subtask or task refuses the result, or another error that  *)
(* is not retried: the Celery task has failed.                             *)
ReportRefused(w) ==
  LET d == worker[w]
  IN /\ d.at = "reporting" /\ d.msg.exec \notin cancel.locked
     /\ record[d.msg.exec] = "RUNNING"
     /\ worker' = [worker EXCEPT ![w].at = "finished"]
     /\ failed' = failed \cup {d.msg.exec}
     /\ UNCHANGED <<record, queue, apiVars, cancelVars, discarded, dead, alerts, faults>>

(* An OperationalError, a pool timeout or an invalidated connection.       *)
DatabaseFails(w) ==
  /\ worker[w].at \in {"executing", "reporting"}
  /\ worker' = [worker EXCEPT ![w].at = "retrying"]
  /\ UNCHANGED <<record, queue, apiVars, cancelVars, failed, discarded, dead, alerts, faults>>

HasRetryBudget(tries) == tries < MaxRetries

(* (mutant: the retry is sent with its old count) *)
SameMessage(m) == m

NextMessage(m) == [m EXCEPT !.tries = @ + 1]

(* self.retry sends the next message before this one is acknowledged. *)
Retry(w) ==
  LET d == worker[w]
  IN /\ d.at = "retrying" /\ HasRetryBudget(d.msg.tries)
     /\ queue' = Put(NextMessage(d.msg))
     /\ worker' = [worker EXCEPT ![w].at = "finished"]
     /\ UNCHANGED <<record, apiVars, cancelVars, failed, discarded, dead, alerts, faults>>

(* If it cannot be sent, Celery rejects this one. *)
RetryUnsent(w) ==
  LET d == worker[w]
  IN /\ d.at = "retrying" /\ HasRetryBudget(d.msg.tries) /\ Fault
     /\ dead' = IF d.owns THEN dead \cup {d.msg.exec} ELSE dead
     /\ worker' = [worker EXCEPT ![w] = Free]
     /\ UNCHANGED <<record, queue, apiVars, cancelVars, failed, discarded, alerts>>

(* report_retry_exhausted_alert: its own session, an error only logged *)
AlertedOrNot(e) == {alerts, alerts \cup {e}}

(* The budget is used up: the alert is tried and the exception is raised.  *)
GiveUp(w) ==
  LET d == worker[w]
  IN /\ d.at = "retrying" /\ ~HasRetryBudget(d.msg.tries)
     /\ alerts' \in AlertedOrNot(d.msg.exec)
     /\ failed' = failed \cup {d.msg.exec}
     /\ worker' = [worker EXCEPT ![w].at = "finished"]
     /\ UNCHANGED <<record, queue, apiVars, cancelVars, discarded, dead, faults>>

Acknowledge(w) ==
  /\ worker[w].at = "finished"
  /\ worker' = [worker EXCEPT ![w] = Free]
  /\ UNCHANGED <<record, queue, apiVars, cancelVars, failed, discarded, dead, alerts, faults>>

(* (mutant: messages are acknowledged when they are received) *)
LostMessage(w) == queue

Requeued(w) ==
  IF worker[w] # Free /\ worker[w].owns THEN Put(worker[w].msg) ELSE queue

(* The process is lost, and with it what it remembers of revocations or,   *)
(* if only a child of it died, not.                                        *)
Crash(w) ==
  /\ Fault
  /\ queue' = Requeued(w)
  /\ worker' = [worker EXCEPT ![w] = Free]
  /\ \E kept \in {{}, revoked[w]} : revoked' = [revoked EXCEPT ![w] = kept]
  /\ UNCHANGED <<record, apiVars, broadcast, cancel, failed, discarded, dead, alerts>>

(* The broker loses the worker's connection and delivers its message again *)
(* while the worker goes on with it.                                       *)
Disconnect(w) ==
  /\ worker[w] # Free /\ worker[w].owns /\ Fault
  /\ queue' = Requeued(w)
  /\ worker' = [worker EXCEPT ![w].owns = FALSE]
  /\ UNCHANGED <<record, apiVars, cancelVars, failed, discarded, dead, alerts>>
-----------------------------------------------------------------------------
(* cancel_task: locks the RUNNING records, revokes those with a Celery id, *)
(* and commits only then.                                                  *)
LockRunning ==
  LET running == {e \in Execution : record[e] = "RUNNING"}
  IN /\ cancel.at = "none"
     /\ cancel' = [at |-> "revoking", locked |-> running, left |-> running \cap celeryId]
     /\ UNCHANGED <<record, apiVars, workerVars, broadcast, revoked, faults>>

(* revoke: an error of the broker is only recorded *)
Revoke(e) ==
  /\ e \in cancel.left
  /\ cancel' = [cancel EXCEPT !.left = @ \ {e}]
  /\ broadcast' \in {broadcast, broadcast \cup {e}}
  /\ UNCHANGED <<record, apiVars, workerVars, revoked, faults>>

CommitCancel ==
  /\ cancel.at = "revoking" /\ cancel.left = {}
  /\ record' = [e \in Execution |-> IF e \in cancel.locked THEN "CANCELED" ELSE record[e]]
  /\ cancel' = [NoCancel EXCEPT !.at = "done"]
  /\ UNCHANGED <<apiVars, workerVars, broadcast, revoked, faults>>

RollbackCancel ==
  /\ cancel.at = "revoking" /\ Fault
  /\ cancel' = NoCancel
  /\ UNCHANGED <<record, apiVars, workerVars, broadcast, revoked>>

(* A worker that is up hears the broadcast. *)
Hear(w, e) ==
  /\ e \in broadcast \ revoked[w]
  /\ revoked' = [revoked EXCEPT ![w] = @ \cup {e}]
  /\ UNCHANGED <<record, apiVars, workerVars, broadcast, cancel, faults>>
-----------------------------------------------------------------------------
ApiStep == RecordIds \/ \E e \in Execution : Enqueue(e)

WorkerStep(w) ==
  \/ \E m \in BagToSet(queue) : Receive(w, m) \/ Discard(w, m)
  \/ EndWork(w) \/ Report(w) \/ ReportRefused(w) \/ DatabaseFails(w)
  \/ Retry(w) \/ GiveUp(w) \/ Acknowledge(w)

CancelStep == CommitCancel \/ \E e \in Execution : Revoke(e)

Next ==
  \/ ApiStep \/ ApiFails
  \/ \E w \in Worker : WorkerStep(w) \/ RetryUnsent(w) \/ Crash(w) \/ Disconnect(w)
  \/ LockRunning \/ CancelStep \/ RollbackCancel
  \/ \E w \in Worker, e \in Execution : Hear(w, e)

(* Requests run to their end and workers go on taking messages; nothing    *)
(* obliges anyone to cancel, a worker to hear, or a fault to happen.       *)
Fairness ==
  /\ WF_vars(ApiStep) /\ WF_vars(CancelStep)
  /\ \A w \in Worker : WF_vars(WorkerStep(w))

Spec == Init /\ [][Next]_vars /\ Fairness
-----------------------------------------------------------------------------
(* Somebody still has to answer for the execution e to the broker. *)
InHand(e) ==
  \/ \E m \in BagToSet(queue) : m.exec = e
  \/ \E w \in Worker : /\ worker[w].at \in {"executing", "reporting", "retrying"}
                       /\ worker[w].msg.exec = e
                       /\ worker[w].owns

(* The loss of e is on record: a failed or revoked Celery task, or a       *)
(* message in the dead letter queue.                                       *)
OnRecord(e) == e \in failed \cup discarded \cup dead

(* No execution is lost silently: while its record is RUNNING, a message   *)
(* or a worker has it, or it was never enqueued, or its loss is on record. *)
(* Crashes before and after the report, redelivery, retries and            *)
(* revocations never leave a record that nobody knows of.                  *)
RunningIsBacked ==
  \A e \in Execution :
    record[e] = "RUNNING" => e \notin api.sent \/ InHand(e) \/ OnRecord(e)

(* What the cancellation has locked is RUNNING until it commits. *)
LockedIsRunning == \A e \in cancel.locked : record[e] = "RUNNING"

(* A worker reports a terminal status, and CANCELED only if it has read it *)
(* from the record (or simulates it).                                      *)
ReportsWhatItRead ==
  \A w \in Worker :
    worker[w].at = "reporting" =>
      /\ worker[w].result # "RUNNING"
      /\ worker[w].result = "CANCELED" /\ Outcome # "CANCELED"
           => record[worker[w].msg.exec] = "CANCELED"

(* The inductive invariant of the delivery: nothing is lost silently, and  *)
(* what makes the first result final.                                      *)
DeliveryInv == TypeOK /\ RunningIsBacked /\ LockedIsRunning /\ ReportsWhatItRead

(* However often messages are delivered, only the first result counts:     *)
(* what has left RUNNING stays as it is.                                   *)
FirstResultCounts ==
  [][\A e \in Execution : record[e] # "RUNNING" => record'[e] = record[e]]_vars

(* Only the commit of cancel_task makes a record CANCELED.  A worker that  *)
(* reports CANCELED has seen that commit, so its report is never accepted: *)
(* accepted, it would make the subtask FAILED.  (A simulated CANCELED is.) *)
WorkerNeverCancels ==
  [][\A e \in Execution :
       record[e] = "RUNNING" /\ record'[e] = "CANCELED" /\ Outcome # "CANCELED"
         => cancel.at = "revoking" /\ cancel'.at = "done"]_vars

(* Every execution that is enqueued is settled in the end, or its loss is  *)
(* on record, whatever crashes, retries and cancellations come between.    *)
EnqueuedSettles ==
  \A e \in Execution : e \in api.sent ~> record[e] # "RUNNING" \/ OnRecord(e)

(* Redelivery and retries come to an end: the queue runs empty and the     *)
(* workers are free for good.                                              *)
QueueDrains == <>[](queue = EmptyBag /\ \A w \in Worker : worker[w] = Free)
=============================================================================
