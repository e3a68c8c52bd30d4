------------------------ MODULE WorkerDeliveryProofs ------------------------
(***************************************************************************)
(* Proofs about WorkerDelivery: for every number of executions, workers,   *)
(* retries and faults, nothing is lost silently and the first result       *)
(* counts.  The argument is that DeliveryInv is inductive: each step that  *)
(* takes a message or a worker's hand off an execution puts another on it, *)
(* settles its record, or leaves the loss on record.                       *)
(***************************************************************************)
EXTENDS WorkerDelivery, TLAPS

USE MaxRetriesAssumption, MaxFaultsAssumption, OutcomeAssumption

QueueOK(q) == IsABag(q) /\ BagToSet(q) \subseteq Message

(* A message that is sent is in the queue with all the others. *)
LEMMA PutMessage ==
  ASSUME NEW q, QueueOK(q), NEW m \in Message
  PROVE  /\ QueueOK(q (+) SetToBag({m}))
         /\ BagToSet(q (+) SetToBag({m})) = BagToSet(q) \cup {m}
<1>1. BagToSet(q (+) SetToBag({m})) = BagToSet(q) \cup {m}
  BY DEF BagToSet, SetToBag, (+)
<1>2. IsABag(q (+) SetToBag({m}))
  BY SMTT(30) DEF QueueOK, IsABag, BagToSet, SetToBag, (+)
<1> QED
  BY <1>1, <1>2 DEF QueueOK

(* Taking a message leaves the others in the queue. *)
LEMMA TakeMessage ==
  ASSUME NEW q, QueueOK(q), NEW m
  PROVE  /\ QueueOK(q (-) SetToBag({m}))
         /\ BagToSet(q) \ {m} \subseteq BagToSet(q (-) SetToBag({m}))
<1> DEFINE B == [e \in DOMAIN q |-> IF e \in {m} THEN q[e] - 1 ELSE q[e]]
           r == [e \in {d \in DOMAIN B : B[d] > 0} |-> B[e]]
<1>1. q (-) SetToBag({m}) = r
  BY DEF SetToBag, (-)
<1>2. q \in [DOMAIN q -> {n \in Nat : n > 0}] /\ DOMAIN q \subseteq Message
  BY DEF QueueOK, IsABag, BagToSet
<1>3. IsABag(r)
  BY <1>2 DEF IsABag
<1>4. DOMAIN r \subseteq DOMAIN q /\ DOMAIN q \ {m} \subseteq DOMAIN r
  BY <1>2
<1> HIDE DEF r
<1> QED
  BY <1>1, <1>2, <1>3, <1>4 DEF QueueOK, BagToSet

LEMMA NotFree ==
  ASSUME NEW d \in Delivery \cup {Free}, d # Free
  PROVE  d \in Delivery
OBVIOUS

LEMMA AtWork ==
  ASSUME NEW d \in Delivery \cup {Free}, d.at # "free"
  PROVE  d \in Delivery
BY DEF Free
-----------------------------------------------------------------------------
(* The steps of the API.  Sending a message puts it in hand. *)
LEMMA EnqueueKeeps ==
  ASSUME DeliveryInv, NEW e \in Execution, Enqueue(e)
  PROVE  DeliveryInv'
<1>1. [exec |-> e, tries |-> 0] \in Message
  BY DEF Message
<1>2. /\ QueueOK(queue')
      /\ BagToSet(queue') = BagToSet(queue) \cup {[exec |-> e, tries |-> 0]}
  BY <1>1, PutMessage DEF DeliveryInv, TypeOK, QueueOK, Enqueue, Put
<1>3. TypeOK'
  BY <1>2 DEF DeliveryInv, TypeOK, QueueOK, Enqueue, cancelVars
<1>4. RunningIsBacked'
  <2> SUFFICES ASSUME NEW x \in Execution, record'[x] = "RUNNING",
                      x \in api'.sent, ~OnRecord(x)'
               PROVE  InHand(x)'
    BY DEF RunningIsBacked
  <2>1. CASE x = e
    <3> DEFINE m == [exec |-> e, tries |-> 0]
    <3>1. m \in BagToSet(queue') /\ m.exec = x
      BY <1>2, <2>1
    <3> QED
      BY <3>1 DEF InHand
  <2>2. CASE x # e
    <3>1. x \in api.sent /\ ~OnRecord(x) /\ record[x] = "RUNNING"
      BY <2>2 DEF Enqueue, OnRecord, DeliveryInv, TypeOK
    <3>2. InHand(x)
      BY <3>1 DEF DeliveryInv, RunningIsBacked
    <3> QED
      BY <3>2, <1>2 DEF InHand, Enqueue
  <2> QED
    BY <2>1, <2>2
<1>5. LockedIsRunning' /\ ReportsWhatItRead'
  BY DEF DeliveryInv, LockedIsRunning, ReportsWhatItRead, Enqueue, cancelVars
<1> QED
  BY <1>3, <1>4, <1>5 DEF DeliveryInv

LEMMA RecordIdsKeeps ==
  ASSUME DeliveryInv, RecordIds
  PROVE  DeliveryInv'
BY DEF DeliveryInv, TypeOK, RunningIsBacked, InHand, OnRecord, LockedIsRunning,
       ReportsWhatItRead, RecordIds, workerVars, cancelVars

LEMMA ApiFailsKeeps ==
  ASSUME DeliveryInv, ApiFails
  PROVE  DeliveryInv'
BY DEF DeliveryInv, TypeOK, RunningIsBacked, InHand, OnRecord, LockedIsRunning,
       ReportsWhatItRead, ApiFails, Fault, workerVars, cancelVars
-----------------------------------------------------------------------------
(* Steps of one worker w. *)

AtHand(d) == d.at \in {"executing", "reporting", "retrying"} /\ d.owns

(* The step may take only w's hand off its execution, and then answers for *)
(* it: nothing else gets lost.                                             *)
LEMMA HandOver ==
  ASSUME RunningIsBacked, NEW w \in Worker,
         \A v \in Worker \ {w} : worker'[v] = worker[v],
         BagToSet(queue) \subseteq BagToSet(queue'),
         \A x \in Execution : record'[x] = "RUNNING" => record[x] = "RUNNING",
         \A x \in Execution : OnRecord(x) => OnRecord(x)',
         api' = api,
         \A x \in Execution :
           AtHand(worker[w]) /\ worker[w].msg.exec = x =>
             record'[x] # "RUNNING" \/ InHand(x)' \/ OnRecord(x)'
  PROVE  RunningIsBacked'
<1> SUFFICES ASSUME NEW x \in Execution, record'[x] = "RUNNING",
                    x \in api'.sent, ~OnRecord(x)'
             PROVE  InHand(x)'
  BY DEF RunningIsBacked
<1>1. InHand(x)
  BY DEF RunningIsBacked
<1>2. CASE \E m \in BagToSet(queue) : m.exec = x
  BY <1>2 DEF InHand
<1>3. ASSUME NEW v \in Worker, AtHand(worker[v]), worker[v].msg.exec = x
      PROVE  InHand(x)'
  <2>1. CASE v = w
    BY <1>3, <2>1
  <2>2. CASE v # w
    BY <1>3, <2>2 DEF InHand, AtHand
  <2> QED
    BY <2>1, <2>2
<1> QED
  BY <1>1, <1>2, <1>3 DEF InHand, AtHand


(* A worker that takes a message has it in hand. *)
LEMMA ReceiveKeeps ==
  ASSUME DeliveryInv, NEW w \in Worker, NEW m \in BagToSet(queue), Receive(w, m)
  PROVE  DeliveryInv'
<1> DEFINE d == [at |-> "executing", msg |-> m, result |-> "RUNNING", owns |-> TRUE]
<1>1. QueueOK(queue') /\ BagToSet(queue) \ {m} \subseteq BagToSet(queue')
  BY TakeMessage DEF DeliveryInv, TypeOK, QueueOK, Receive, Take
<1>2. worker' = [worker EXCEPT ![w] = d] /\ d \in Delivery
  BY DEF Receive, Delivery, DeliveryInv, TypeOK, ExecutionStatus
<1>3. TypeOK'
  BY <1>1, <1>2 DEF DeliveryInv, TypeOK, QueueOK, Receive, apiVars, cancelVars
<1>4. RunningIsBacked'
  <2> SUFFICES ASSUME NEW x \in Execution, InHand(x)
               PROVE  InHand(x)'
    BY DEF DeliveryInv, RunningIsBacked, OnRecord, Receive, apiVars
  <2>1. CASE \E n \in BagToSet(queue) : n.exec = x
    <3>1. CASE m.exec = x
      BY <1>2, <3>1 DEF InHand, DeliveryInv, TypeOK
    <3>2. CASE m.exec # x
      BY <1>1, <2>1, <3>2 DEF InHand
    <3> QED
      BY <3>1, <3>2
  <2>2. CASE \E v \in Worker : /\ worker[v].at \in {"executing", "reporting", "retrying"}
                               /\ worker[v].msg.exec = x
                               /\ worker[v].owns
    <3>1. PICK v \in Worker : /\ worker[v].at \in {"executing", "reporting", "retrying"}
                              /\ worker[v].msg.exec = x
                              /\ worker[v].owns
      BY <2>2
    <3>2. v # w
      BY <3>1 DEF Receive, Free
    <3> QED
      BY <1>2, <3>1, <3>2 DEF InHand, DeliveryInv, TypeOK
  <2> QED
    BY <2>1, <2>2 DEF InHand
<1>5. LockedIsRunning' /\ ReportsWhatItRead'
  BY <1>2 DEF DeliveryInv, TypeOK, LockedIsRunning, ReportsWhatItRead, Receive, cancelVars
<1> QED
  BY <1>3, <1>4, <1>5 DEF DeliveryInv
(* A revoked message is gone, and on record. *)
LEMMA DiscardKeeps ==
  ASSUME DeliveryInv, NEW w \in Worker, NEW m \in BagToSet(queue), Discard(w, m)
  PROVE  DeliveryInv'
<1>1. QueueOK(queue') /\ BagToSet(queue) \ {m} \subseteq BagToSet(queue')
  BY TakeMessage DEF DeliveryInv, TypeOK, QueueOK, Discard, Take
<1>2. m.exec \in Execution
  BY DEF DeliveryInv, TypeOK, Message
<1>3. TypeOK'
  BY <1>1, <1>2 DEF DeliveryInv, TypeOK, QueueOK, Discard, apiVars, cancelVars
<1>4. RunningIsBacked'
  BY <1>1 DEF DeliveryInv, RunningIsBacked, InHand, OnRecord, Discard, apiVars
<1>5. LockedIsRunning' /\ ReportsWhatItRead'
  BY DEF DeliveryInv, LockedIsRunning, ReportsWhatItRead, Discard, cancelVars
<1> QED
  BY <1>3, <1>4, <1>5 DEF DeliveryInv

LEMMA EndWorkKeeps ==
  ASSUME DeliveryInv, NEW w \in Worker, EndWork(w)
  PROVE  DeliveryInv'
<1> DEFINE d == worker[w]
           r == IF IsCanceled(d.msg.exec) THEN "CANCELED" ELSE Outcome
<1>1. d \in Delivery /\ d.at = "executing"
  BY AtWork DEF DeliveryInv, TypeOK, EndWork
<1>2. r \in ExecutionStatus
  BY DEF ExecutionStatus
<1>3. worker' = [worker EXCEPT ![w] = [d EXCEPT !.at = "reporting", !.result = r]]
  BY DEF EndWork
<1>4. [d EXCEPT !.at = "reporting", !.result = r] \in Delivery
  BY <1>1, <1>2 DEF Delivery
<1>5. TypeOK'
  BY <1>3, <1>4 DEF DeliveryInv, TypeOK, EndWork, apiVars, cancelVars
<1>6. worker'[w] = [d EXCEPT !.at = "reporting", !.result = r]
  BY <1>3 DEF DeliveryInv, TypeOK
<1>7. RunningIsBacked'
  <2>1. \A x \in Execution : AtHand(d) /\ d.msg.exec = x => InHand(x)'
    BY <1>1, <1>6 DEF AtHand, InHand, Delivery
  <2>2. \A v \in Worker \ {w} : worker'[v] = worker[v]
    BY <1>3 DEF DeliveryInv, TypeOK
  <2> QED
    BY <2>1, <2>2, HandOver DEF DeliveryInv, EndWork, OnRecord, apiVars
<1>8. ReportsWhatItRead'
  BY <1>1, <1>3, <1>6 DEF DeliveryInv, TypeOK, ReportsWhatItRead, EndWork, IsCanceled, Delivery
<1>9. LockedIsRunning'
  BY DEF DeliveryInv, LockedIsRunning, EndWork, cancelVars
<1> QED
  BY <1>5, <1>7, <1>8, <1>9 DEF DeliveryInv

(* A report settles the record, if nobody has. *)
LEMMA ReportKeeps ==
  ASSUME DeliveryInv, NEW w \in Worker, Report(w)
  PROVE  DeliveryInv'
<1> DEFINE d == worker[w]
<1>1. d \in Delivery /\ d.at = "reporting"
  BY AtWork DEF DeliveryInv, TypeOK, Report
<1>2. PICK at \in {"finished", "retrying"} :
        worker' = [worker EXCEPT ![w] = [d EXCEPT !.at = at]]
  BY DEF Report
<1>3. [d EXCEPT !.at = at] \in Delivery
  BY <1>1 DEF Delivery
<1>4. d.msg.exec \in Execution /\ d.result \in ExecutionStatus
  BY <1>1 DEF Delivery, Message
<1>5. record' \in [Execution -> ExecutionStatus]
  BY <1>4 DEF DeliveryInv, TypeOK, Report, Settled
<1>6. TypeOK'
  BY <1>2, <1>3, <1>5 DEF DeliveryInv, TypeOK, Report, apiVars, cancelVars
<1>7. \A x \in Execution \ {d.msg.exec} : record'[x] = record[x]
  BY DEF DeliveryInv, TypeOK, Report, Settled
<1>8. /\ record[d.msg.exec] # "RUNNING" => record' = record
      /\ record'[d.msg.exec] # "RUNNING"
  BY <1>1, <1>4 DEF DeliveryInv, TypeOK, ReportsWhatItRead, Report, Settled
<1>9. worker'[w] = [d EXCEPT !.at = at] /\ \A v \in Worker \ {w} : worker'[v] = worker[v]
  BY <1>2 DEF DeliveryInv, TypeOK
<1>10. RunningIsBacked'
  BY <1>7, <1>8, <1>9, HandOver DEF DeliveryInv, Report, OnRecord, apiVars
<1>11. LockedIsRunning'
  BY <1>7 DEF DeliveryInv, TypeOK, LockedIsRunning, Report, cancelVars
<1>12. ReportsWhatItRead'
  <2> SUFFICES ASSUME NEW v \in Worker, worker'[v].at = "reporting"
               PROVE  /\ worker'[v].result # "RUNNING"
                      /\ worker'[v].result = "CANCELED" /\ Outcome # "CANCELED"
                           => record'[worker'[v].msg.exec] = "CANCELED"
    BY DEF ReportsWhatItRead
  <2>1. v # w
    BY <1>1, <1>9 DEF Delivery
  <2>2. worker'[v] = worker[v] /\ worker[v].msg.exec \in Execution
    BY <1>9, <2>1, AtWork DEF DeliveryInv, TypeOK, Delivery, Message
  <2>3. record[worker[v].msg.exec] = "CANCELED" => record'[worker[v].msg.exec] = "CANCELED"
    BY <1>7, <1>8, <2>2
  <2> QED
    BY <2>2, <2>3 DEF DeliveryInv, ReportsWhatItRead
<1> QED
  BY <1>6, <1>10, <1>11, <1>12 DEF DeliveryInv

(* What a worker does besides leaves the records and the locks alone. *)
LEMMA RecordsKept ==
  ASSUME DeliveryInv, NEW w \in Worker, record' = record, cancel' = cancel,
         \A v \in Worker \ {w} : worker'[v] = worker[v], worker'[w].at # "reporting"
  PROVE  LockedIsRunning' /\ ReportsWhatItRead'
BY DEF DeliveryInv, LockedIsRunning, ReportsWhatItRead

LEMMA ReportRefusedKeeps ==
  ASSUME DeliveryInv, NEW w \in Worker, ReportRefused(w)
  PROVE  DeliveryInv'
<1> DEFINE d == worker[w]
           n == [d EXCEPT !.at = "finished"]
<1>1. d \in Delivery
  BY AtWork DEF DeliveryInv, TypeOK, ReportRefused
<1>2. n \in Delivery /\ d.msg.exec \in Execution
  BY <1>1 DEF Delivery, Message
<1>3. /\ worker' = [worker EXCEPT ![w] = n]
      /\ worker'[w] = n /\ \A v \in Worker \ {w} : worker'[v] = worker[v]
  BY DEF DeliveryInv, TypeOK, ReportRefused
<1>4. TypeOK'
  BY <1>2, <1>3 DEF DeliveryInv, TypeOK, ReportRefused, apiVars, cancelVars
<1>5. RunningIsBacked'
  BY <1>3, HandOver DEF DeliveryInv, ReportRefused, OnRecord, apiVars
<1>6. LockedIsRunning' /\ ReportsWhatItRead'
  <2>1. n.at # "reporting"
    BY <1>1 DEF Delivery
  <2> QED
    BY <1>3, <2>1, RecordsKept DEF ReportRefused, cancelVars
<1> QED
  BY <1>4, <1>5, <1>6 DEF DeliveryInv

LEMMA DatabaseFailsKeeps ==
  ASSUME DeliveryInv, NEW w \in Worker, DatabaseFails(w)
  PROVE  DeliveryInv'
<1> DEFINE d == worker[w]
           n == [d EXCEPT !.at = "retrying"]
<1>1. d \in Delivery
  BY AtWork DEF DeliveryInv, TypeOK, DatabaseFails
<1>2. n \in Delivery /\ n.at = "retrying" /\ n.msg = d.msg /\ n.owns = d.owns
  BY <1>1 DEF Delivery
<1>3. /\ worker' = [worker EXCEPT ![w] = n]
      /\ worker'[w] = n /\ \A v \in Worker \ {w} : worker'[v] = worker[v]
  BY DEF DeliveryInv, TypeOK, DatabaseFails
<1>4. TypeOK'
  BY <1>2, <1>3 DEF DeliveryInv, TypeOK, DatabaseFails, apiVars, cancelVars
<1>5. RunningIsBacked'
  <2>1. \A x \in Execution : AtHand(d) /\ d.msg.exec = x => InHand(x)'
    BY <1>2, <1>3 DEF AtHand, InHand
  <2> QED
    BY <1>3, <2>1, HandOver DEF DeliveryInv, DatabaseFails, OnRecord, apiVars
<1>6. LockedIsRunning' /\ ReportsWhatItRead'
  BY <1>2, <1>3, RecordsKept DEF DatabaseFails, cancelVars
<1> QED
  BY <1>4, <1>5, <1>6 DEF DeliveryInv

(* The next message is sent before this one is acknowledged. *)
LEMMA RetryKeeps ==
  ASSUME DeliveryInv, NEW w \in Worker, Retry(w)
  PROVE  DeliveryInv'
<1> DEFINE d == worker[w]
           n == [d EXCEPT !.at = "finished"]
           m == NextMessage(d.msg)
<1>1. d \in Delivery
  BY AtWork DEF DeliveryInv, TypeOK, Retry
<1>2. n \in Delivery /\ n.at = "finished"
  BY <1>1 DEF Delivery
<1>3. m \in Message /\ m.exec = d.msg.exec
  BY <1>1 DEF Delivery, Message, NextMessage, Retry, HasRetryBudget
<1>4. QueueOK(queue') /\ BagToSet(queue') = BagToSet(queue) \cup {m}
  BY <1>3, PutMessage DEF DeliveryInv, TypeOK, QueueOK, Retry, Put
<1>5. /\ worker' = [worker EXCEPT ![w] = n]
      /\ worker'[w] = n /\ \A v \in Worker \ {w} : worker'[v] = worker[v]
  BY DEF DeliveryInv, TypeOK, Retry
<1>6. TypeOK'
  BY <1>2, <1>4, <1>5 DEF DeliveryInv, TypeOK, QueueOK, Retry, apiVars, cancelVars
<1>7. RunningIsBacked'
  <2>1. \A x \in Execution : d.msg.exec = x => InHand(x)'
    BY <1>3, <1>4 DEF InHand
  <2> QED
    BY <1>4, <1>5, <2>1, HandOver DEF DeliveryInv, Retry, OnRecord, apiVars
<1>8. LockedIsRunning' /\ ReportsWhatItRead'
  BY <1>2, <1>5, RecordsKept DEF Retry, cancelVars
<1> QED
  BY <1>6, <1>7, <1>8 DEF DeliveryInv
LEMMA RetryUnsentKeeps ==
  ASSUME DeliveryInv, NEW w \in Worker, RetryUnsent(w)
  PROVE  DeliveryInv'
<1> DEFINE d == worker[w]
<1>1. d \in Delivery /\ d.msg.exec \in Execution
  BY AtWork DEF DeliveryInv, TypeOK, RetryUnsent, Delivery, Message
<1>2. /\ worker' = [worker EXCEPT ![w] = Free]
      /\ worker'[w] = Free /\ \A v \in Worker \ {w} : worker'[v] = worker[v]
  BY DEF DeliveryInv, TypeOK, RetryUnsent
<1>3. TypeOK'
  BY <1>1, <1>2 DEF DeliveryInv, TypeOK, RetryUnsent, Fault, apiVars, cancelVars
<1>4. RunningIsBacked'
  <2>1. \A x \in Execution : AtHand(d) /\ d.msg.exec = x => OnRecord(x)'
    BY DEF AtHand, OnRecord, RetryUnsent
  <2> QED
    BY <1>2, <2>1, HandOver DEF DeliveryInv, RetryUnsent, OnRecord, apiVars
<1>5. LockedIsRunning' /\ ReportsWhatItRead'
  BY <1>2, RecordsKept DEF RetryUnsent, cancelVars, Free
<1> QED
  BY <1>3, <1>4, <1>5 DEF DeliveryInv

LEMMA GiveUpKeeps ==
  ASSUME DeliveryInv, NEW w \in Worker, GiveUp(w)
  PROVE  DeliveryInv'
<1> DEFINE d == worker[w]
           n == [d EXCEPT !.at = "finished"]
<1>1. d \in Delivery /\ d.msg.exec \in Execution
  BY AtWork DEF DeliveryInv, TypeOK, GiveUp, Delivery, Message
<1>2. n \in Delivery /\ n.at = "finished"
  BY <1>1 DEF Delivery
<1>3. /\ worker' = [worker EXCEPT ![w] = n]
      /\ worker'[w] = n /\ \A v \in Worker \ {w} : worker'[v] = worker[v]
  BY DEF DeliveryInv, TypeOK, GiveUp
<1>4. TypeOK'
  BY <1>1, <1>2, <1>3 DEF DeliveryInv, TypeOK, GiveUp, AlertedOrNot, apiVars, cancelVars
<1>5. RunningIsBacked'
  BY <1>3, HandOver DEF DeliveryInv, GiveUp, OnRecord, apiVars
<1>6. LockedIsRunning' /\ ReportsWhatItRead'
  BY <1>2, <1>3, RecordsKept DEF GiveUp, cancelVars
<1> QED
  BY <1>4, <1>5, <1>6 DEF DeliveryInv

LEMMA AcknowledgeKeeps ==
  ASSUME DeliveryInv, NEW w \in Worker, Acknowledge(w)
  PROVE  DeliveryInv'
<1>1. /\ worker' = [worker EXCEPT ![w] = Free]
      /\ worker'[w] = Free /\ \A v \in Worker \ {w} : worker'[v] = worker[v]
  BY DEF DeliveryInv, TypeOK, Acknowledge
<1>2. TypeOK'
  BY <1>1 DEF DeliveryInv, TypeOK, Acknowledge, apiVars, cancelVars
<1>3. RunningIsBacked'
  BY <1>1, HandOver DEF DeliveryInv, Acknowledge, AtHand, OnRecord, apiVars
<1>4. LockedIsRunning' /\ ReportsWhatItRead'
  BY <1>1, RecordsKept DEF Acknowledge, cancelVars, Free
<1> QED
  BY <1>2, <1>3, <1>4 DEF DeliveryInv

(* The broker has the message of a lost worker again. *)
LEMMA RequeuedMessage ==
  ASSUME DeliveryInv, NEW w \in Worker, queue' = Requeued(w)
  PROVE  /\ QueueOK(queue')
         /\ BagToSet(queue) \subseteq BagToSet(queue')
         /\ \A x \in Execution : AtHand(worker[w]) /\ worker[w].msg.exec = x => InHand(x)'
<1>1. CASE worker[w] # Free /\ worker[w].owns
  <2>1. worker[w].msg \in Message
    BY <1>1, NotFree DEF DeliveryInv, TypeOK, Delivery
  <2>2. QueueOK(queue') /\ BagToSet(queue') = BagToSet(queue) \cup {worker[w].msg}
    BY <1>1, <2>1, PutMessage DEF DeliveryInv, TypeOK, QueueOK, Requeued, Put
  <2> QED
    BY <2>2 DEF InHand
<1>2. CASE ~(worker[w] # Free /\ worker[w].owns)
  <2>1. queue' = queue
    BY <1>2 DEF Requeued
  <2> QED
    BY <1>2, <2>1 DEF DeliveryInv, TypeOK, QueueOK, AtHand, Free
<1> QED
  BY <1>1, <1>2

LEMMA CrashKeeps ==
  ASSUME DeliveryInv, NEW w \in Worker, Crash(w)
  PROVE  DeliveryInv'
<1>1. /\ worker' = [worker EXCEPT ![w] = Free]
      /\ worker'[w] = Free /\ \A v \in Worker \ {w} : worker'[v] = worker[v]
  BY DEF DeliveryInv, TypeOK, Crash
<1>2. /\ QueueOK(queue')
      /\ BagToSet(queue) \subseteq BagToSet(queue')
      /\ \A x \in Execution : AtHand(worker[w]) /\ worker[w].msg.exec = x => InHand(x)'
  BY RequeuedMessage DEF Crash
<1>3. TypeOK'
  BY <1>1, <1>2 DEF DeliveryInv, TypeOK, QueueOK, Crash, Fault, apiVars
<1>4. RunningIsBacked'
  BY <1>1, <1>2, HandOver DEF DeliveryInv, Crash, OnRecord, apiVars
<1>5. LockedIsRunning' /\ ReportsWhatItRead'
  BY <1>1, RecordsKept DEF Crash, Free
<1> QED
  BY <1>3, <1>4, <1>5 DEF DeliveryInv

LEMMA DisconnectKeeps ==
  ASSUME DeliveryInv, NEW w \in Worker, Disconnect(w)
  PROVE  DeliveryInv'
<1> DEFINE d == worker[w]
           n == [d EXCEPT !.owns = FALSE]
<1>1. d \in Delivery
  BY NotFree DEF DeliveryInv, TypeOK, Disconnect
<1>2. n \in Delivery /\ n.at = d.at /\ n.msg = d.msg /\ n.result = d.result
  BY <1>1 DEF Delivery
<1>3. /\ worker' = [worker EXCEPT ![w] = n]
      /\ worker'[w] = n /\ \A v \in Worker \ {w} : worker'[v] = worker[v]
  BY DEF DeliveryInv, TypeOK, Disconnect
<1>4. /\ QueueOK(queue')
      /\ BagToSet(queue) \subseteq BagToSet(queue')
      /\ \A x \in Execution : AtHand(d) /\ d.msg.exec = x => InHand(x)'
  BY RequeuedMessage DEF Disconnect
<1>5. TypeOK'
  BY <1>2, <1>3, <1>4 DEF DeliveryInv, TypeOK, QueueOK, Disconnect, Fault, apiVars, cancelVars
<1>6. RunningIsBacked'
  BY <1>3, <1>4, HandOver DEF DeliveryInv, Disconnect, OnRecord, apiVars
<1>7. LockedIsRunning'
  BY DEF DeliveryInv, LockedIsRunning, Disconnect, cancelVars
<1>8. ReportsWhatItRead'
  BY <1>2, <1>3 DEF DeliveryInv, ReportsWhatItRead, Disconnect
<1> QED
  BY <1>5, <1>6, <1>7, <1>8 DEF DeliveryInv
-----------------------------------------------------------------------------
(* The steps of the cancellation.  Hands and messages are as before.       *)
LEMMA HandsKept ==
  ASSUME RunningIsBacked, UNCHANGED <<workerVars, api>>,
         \A x \in Execution : record'[x] = "RUNNING" => record[x] = "RUNNING"
  PROVE  RunningIsBacked'
BY DEF RunningIsBacked, InHand, OnRecord, workerVars

LEMMA LockRunningKeeps ==
  ASSUME DeliveryInv, LockRunning
  PROVE  DeliveryInv'
<1>1. TypeOK'
  BY DEF DeliveryInv, TypeOK, LockRunning, apiVars, workerVars
<1>2. RunningIsBacked'
  BY HandsKept DEF DeliveryInv, LockRunning, apiVars
<1>3. LockedIsRunning' /\ ReportsWhatItRead'
  BY DEF DeliveryInv, LockedIsRunning, ReportsWhatItRead, LockRunning, workerVars
<1> QED
  BY <1>1, <1>2, <1>3 DEF DeliveryInv

LEMMA RevokeKeeps ==
  ASSUME DeliveryInv, NEW e \in Execution, Revoke(e)
  PROVE  DeliveryInv'
<1>1. TypeOK'
  BY DEF DeliveryInv, TypeOK, Revoke, apiVars, workerVars
<1>2. RunningIsBacked'
  BY HandsKept DEF DeliveryInv, Revoke, apiVars
<1>3. LockedIsRunning' /\ ReportsWhatItRead'
  BY DEF DeliveryInv, TypeOK, LockedIsRunning, ReportsWhatItRead, Revoke, workerVars
<1> QED
  BY <1>1, <1>2, <1>3 DEF DeliveryInv

(* What the commit cancels was RUNNING, and what was CANCELED remains so. *)
LEMMA CommitCancelKeeps ==
  ASSUME DeliveryInv, CommitCancel
  PROVE  DeliveryInv'
<1>1. TypeOK'
  BY DEF DeliveryInv, TypeOK, CommitCancel, NoCancel, apiVars, workerVars, ExecutionStatus
<1>2. RunningIsBacked'
  BY HandsKept DEF DeliveryInv, CommitCancel, apiVars
<1>3. LockedIsRunning'
  BY DEF LockedIsRunning, CommitCancel, NoCancel
<1>4. ReportsWhatItRead'
  <2> SUFFICES ASSUME NEW v \in Worker, worker'[v].at = "reporting"
               PROVE  /\ worker'[v].result # "RUNNING"
                      /\ worker'[v].result = "CANCELED" /\ Outcome # "CANCELED"
                           => record'[worker'[v].msg.exec] = "CANCELED"
    BY DEF ReportsWhatItRead
  <2>1. worker'[v] = worker[v] /\ worker[v].msg.exec \in Execution
    BY AtWork DEF CommitCancel, workerVars, DeliveryInv, TypeOK, Delivery, Message
  <2> QED
    BY <2>1 DEF DeliveryInv, ReportsWhatItRead, CommitCancel
<1> QED
  BY <1>1, <1>2, <1>3, <1>4 DEF DeliveryInv

LEMMA RollbackCancelKeeps ==
  ASSUME DeliveryInv, RollbackCancel
  PROVE  DeliveryInv'
<1>1. TypeOK'
  BY DEF DeliveryInv, TypeOK, RollbackCancel, NoCancel, Fault, apiVars, workerVars
<1>2. RunningIsBacked'
  BY HandsKept DEF DeliveryInv, RollbackCancel, apiVars
<1>3. LockedIsRunning' /\ ReportsWhatItRead'
  BY DEF DeliveryInv, LockedIsRunning, ReportsWhatItRead, RollbackCancel, NoCancel, workerVars
<1> QED
  BY <1>1, <1>2, <1>3 DEF DeliveryInv

LEMMA HearKeeps ==
  ASSUME DeliveryInv, NEW w \in Worker, NEW e \in Execution, Hear(w, e)
  PROVE  DeliveryInv'
<1>1. TypeOK'
  BY DEF DeliveryInv, TypeOK, Hear, apiVars, workerVars
<1>2. RunningIsBacked'
  BY HandsKept DEF DeliveryInv, Hear, apiVars
<1>3. LockedIsRunning' /\ ReportsWhatItRead'
  BY DEF DeliveryInv, LockedIsRunning, ReportsWhatItRead, Hear, workerVars
<1> QED
  BY <1>1, <1>2, <1>3 DEF DeliveryInv
-----------------------------------------------------------------------------
LEMMA DeliveryInit == Init => DeliveryInv
<1> SUFFICES ASSUME Init PROVE DeliveryInv
  OBVIOUS
<1>1. IsABag(queue) /\ BagToSet(queue) \subseteq Message
  BY DEF Init, EmptyBag, SetToBag, IsABag, BagToSet
<1>2. TypeOK
  BY <1>1 DEF Init, TypeOK, ExecutionStatus, NoCancel
<1>3. RunningIsBacked /\ LockedIsRunning /\ ReportsWhatItRead
  BY DEF Init, RunningIsBacked, LockedIsRunning, ReportsWhatItRead, NoCancel, Free
<1> QED
  BY <1>2, <1>3 DEF DeliveryInv

LEMMA DeliveryStep == DeliveryInv /\ [Next]_vars => DeliveryInv'
<1> SUFFICES ASSUME DeliveryInv, [Next]_vars PROVE DeliveryInv'
  OBVIOUS
<1>1. CASE ApiStep
  BY <1>1, EnqueueKeeps, RecordIdsKeeps DEF ApiStep
<1>2. CASE ApiFails
  BY <1>2, ApiFailsKeeps
<1>3. ASSUME NEW w \in Worker, WorkerStep(w)
      PROVE  DeliveryInv'
  BY <1>3, ReceiveKeeps, DiscardKeeps, EndWorkKeeps, ReportKeeps, ReportRefusedKeeps,
     DatabaseFailsKeeps, RetryKeeps, GiveUpKeeps, AcknowledgeKeeps DEF WorkerStep
<1>4. ASSUME NEW w \in Worker, RetryUnsent(w) \/ Crash(w) \/ Disconnect(w)
      PROVE  DeliveryInv'
  BY <1>4, RetryUnsentKeeps, CrashKeeps, DisconnectKeeps
<1>5. CASE LockRunning \/ RollbackCancel
  BY <1>5, LockRunningKeeps, RollbackCancelKeeps
<1>6. CASE CancelStep
  BY <1>6, CommitCancelKeeps, RevokeKeeps DEF CancelStep
<1>7. ASSUME NEW w \in Worker, NEW e \in Execution, Hear(w, e)
      PROVE  DeliveryInv'
  BY <1>7, HearKeeps
<1>8. CASE UNCHANGED vars
  BY <1>8 DEF vars, DeliveryInv, TypeOK, RunningIsBacked, InHand, OnRecord,
              LockedIsRunning, ReportsWhatItRead
<1> QED
  BY <1>1, <1>2, <1>3, <1>4, <1>5, <1>6, <1>7, <1>8 DEF Next

(* The inductive invariant of the delivery holds: whatever crashes,        *)
(* redelivery, retries and cancellations do to messages and workers.       *)
THEOREM DeliveryInvariance == Spec => []DeliveryInv
<1>1. Init => DeliveryInv
  BY DeliveryInit
<1>2. DeliveryInv /\ [Next]_vars => DeliveryInv'
  BY DeliveryStep
<1> QED
  BY <1>1, <1>2, PTL DEF Spec

(* No execution that was enqueued is lost silently by a worker, the broker *)
(* or a cancellation.                                                      *)
THEOREM NothingLostSilently == Spec => []RunningIsBacked
<1>1. DeliveryInv => RunningIsBacked
  BY DEF DeliveryInv
<1> QED
  BY <1>1, DeliveryInvariance, PTL

(* The records change only by a report on a RUNNING one, and by the commit *)
(* of a cancellation for those it has locked.                              *)
LEMMA RecordSteps ==
  ASSUME DeliveryInv, [Next]_vars
  PROVE  \/ UNCHANGED record
         \/ \E w \in Worker : Report(w)
         \/ CommitCancel
<1>1. ApiStep => UNCHANGED record
  BY DEF ApiStep, Enqueue, RecordIds
<1>2. ApiFails => UNCHANGED record
  BY DEF ApiFails
<1>3. ASSUME NEW w \in Worker, WorkerStep(w)
      PROVE  UNCHANGED record \/ Report(w)
  BY <1>3 DEF WorkerStep, Receive, Discard, EndWork, ReportRefused, DatabaseFails,
              Retry, GiveUp, Acknowledge
<1>4. ASSUME NEW w \in Worker, RetryUnsent(w) \/ Crash(w) \/ Disconnect(w)
      PROVE  UNCHANGED record
  BY <1>4 DEF RetryUnsent, Crash, Disconnect
<1>5. LockRunning \/ RollbackCancel => UNCHANGED record
  BY DEF LockRunning, RollbackCancel
<1>6. CancelStep => UNCHANGED record \/ CommitCancel
  BY DEF CancelStep, Revoke
<1>7. ASSUME NEW w \in Worker, NEW e \in Execution, Hear(w, e)
      PROVE  UNCHANGED record
  BY <1>7 DEF Hear
<1>8. UNCHANGED vars => UNCHANGED record
  BY DEF vars
<1> QED
  BY <1>1, <1>2, <1>3, <1>4, <1>5, <1>6, <1>7, <1>8 DEF Next

(* However often an execution is delivered and reported, the first result  *)
(* is final: the locks of the cancellation are on RUNNING records.         *)
THEOREM FirstResultIsFinal == Spec => FirstResultCounts
<1> DEFINE Final == \A e \in Execution : record[e] # "RUNNING" => record'[e] = record[e]
<1>1. DeliveryInv /\ [Next]_vars => Final
  <2> SUFFICES ASSUME DeliveryInv, [Next]_vars PROVE Final
    OBVIOUS
  <2>1. CASE \E w \in Worker : Report(w)
    BY <2>1 DEF DeliveryInv, TypeOK, Report, Settled
  <2>2. CASE CommitCancel
    BY <2>2 DEF DeliveryInv, LockedIsRunning, CommitCancel
  <2> QED
    BY <2>1, <2>2, RecordSteps
<1>2. DeliveryInv /\ [Next]_vars => [Final]_vars
  BY <1>1
<1> QED
  BY <1>2, DeliveryInvariance, PTL DEF Spec, FirstResultCounts

(* A CANCELED that a worker reports is never accepted: only the commit of  *)
(* cancel_task cancels a record.                                           *)
THEOREM OnlyCancelTaskCancels == Spec => WorkerNeverCancels
<1> DEFINE ByCancel ==
      \A e \in Execution :
        record[e] = "RUNNING" /\ record'[e] = "CANCELED" /\ Outcome # "CANCELED"
          => cancel.at = "revoking" /\ cancel'.at = "done"
<1>1. DeliveryInv /\ [Next]_vars => ByCancel
  <2> SUFFICES ASSUME DeliveryInv, [Next]_vars PROVE ByCancel
    OBVIOUS
  <2>1. CASE \E w \in Worker : Report(w)
    BY <2>1 DEF DeliveryInv, TypeOK, ReportsWhatItRead, Report, Settled
  <2>2. CASE CommitCancel
    BY <2>2 DEF CommitCancel, NoCancel
  <2> QED
    BY <2>1, <2>2, RecordSteps
<1>2. DeliveryInv /\ [Next]_vars => [ByCancel]_vars
  BY <1>1
<1> QED
  BY <1>2, DeliveryInvariance, PTL DEF Spec, WorkerNeverCancels
=============================================================================
