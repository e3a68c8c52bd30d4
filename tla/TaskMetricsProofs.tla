------------------------- MODULE TaskMetricsProofs -------------------------
(***************************************************************************)
(* Proofs about TaskMetrics: what the four statements of get_task_metrics  *)
(* count fits together although any number of transactions commit between  *)
(* them.                                                                   *)
(***************************************************************************)
EXTENDS TaskMetrics, TaskTransactionsProofs, FiniteSetTheorems

Metrics ==
  [read : 0..4, task : TaskStatus, succeeded : Nat, executions : Nat,
   successes : Nat, failures : Nat, running : Nat, local : Nat, edge : Nat]

RecordsIn(statuses) == {k \in DOMAIN exec : exec[k] \in statuses}

(* The inductive invariant: what has been counted so far is covered by the *)
(* records that are committed now, because SUCCESS records only become     *)
(* more, and by the counts taken after it.                                 *)
MetricsInv ==
  /\ metrics \in Metrics
  /\ metrics.read >= 2 => metrics.succeeded <= Cardinality(RecordsIn({"SUCCESS"}))
  /\ metrics.read >= 3 =>
       /\ metrics.succeeded <= metrics.successes
       /\ metrics.successes + metrics.failures + metrics.running = metrics.executions
       /\ metrics.executions <= Cardinality(DOMAIN exec)
  /\ metrics.read >= 4 => metrics.executions <= metrics.local + metrics.edge
-----------------------------------------------------------------------------
(* A task has finitely many records: every subtask has at most             *)
(* max_retries + 1 of them.                                                *)
LEMMA FinitelyManyRecords == RecordInv => IsFiniteSet(DOMAIN exec)
<1> SUFFICES ASSUME RecordInv PROVE IsFiniteSet(DOMAIN exec)
  OBVIOUS
<1> DEFINE Keys(s) == {s} \X (1..MaxRetries[s] + 1)
           f == [s \in Subtask |-> Keys(s)]
           All == {Keys(s) : s \in Subtask}
<1>1. IsFiniteSet(All)
  <2>1. f \in Surjection(Subtask, All)
    BY DEF Surjection
  <2> QED
    BY <2>1, SubtasksAssumption, FS_Surjection
<1>2. ASSUME NEW s \in Subtask PROVE IsFiniteSet(Keys(s))
  <2>1. MaxRetries[s] + 1 \in Int /\ 1 \in Int
    BY MaxRetriesAssumption
  <2>2. IsFiniteSet(1..MaxRetries[s] + 1)
    BY <2>1, FS_Interval
  <2> QED
    BY <2>2, FS_Singleton, FS_Product
<1>3. IsFiniteSet(UNION All)
  BY <1>1, <1>2, FS_UNION
<1>4. ASSUME NEW k \in DOMAIN exec PROVE k \in UNION All
  <2>1. /\ k \in Subtask \X Nat /\ k[1] \in Subtask /\ k = <<k[1], k[2]>>
        /\ k[2] \in Nat /\ retry[k[1]] \in Nat /\ MaxRetries[k[1]] \in Nat
    BY MaxRetriesAssumption DEF RecordInv, TypeOK, RowsTypeOK
  <2>2. k[2] \in 1..retry[k[1]] + 1 /\ retry[k[1]] <= MaxRetries[k[1]]
    BY <2>1 DEF RecordInv, RetriesMatchAttempts
  <2>3. k[2] \in 1..MaxRetries[k[1]] + 1
    BY <2>1, <2>2
  <2>4. k \in Keys(k[1])
    BY <2>1, <2>3
  <2> QED
    BY <2>1, <2>4
<1>5. DOMAIN exec \in SUBSET (UNION All)
  BY <1>4
<1> QED
  BY <1>3, <1>5, FS_Subset

(* Between the statements of an answer records are added and settled; a    *)
(* successful one stays what it is.                                        *)
LEMMA RecordsOnlyGrow ==
  ASSUME RecordInv, [Next]_vars
  PROVE  /\ DOMAIN exec \subseteq DOMAIN exec'
         /\ RecordsIn({"SUCCESS"}) \subseteq RecordsIn({"SUCCESS"})'
<1>1. CASE UNCHANGED exec
  BY <1>1 DEF RecordsIn
<1>2. CASE ~UNCHANGED exec
  <2>1. PICK c \in Session : Commit(c)
    BY <1>2, OnlyCommitWritesRecords
  <2>2. /\ DOMAIN exec \subseteq DOMAIN exec'
        /\ \A k \in DOMAIN exec : exec[k] = "SUCCESS" => exec'[k] = "SUCCESS"
    BY <2>1, CommitRecords
  <2> QED
    BY <2>2 DEF RecordsIn
<1> QED
  BY <1>1, <1>2

(* Counting them gives at least as much later as before. *)
LEMMA CountsOnlyGrow ==
  ASSUME RecordInv, RecordInv', [Next]_vars
  PROVE  /\ Cardinality(DOMAIN exec) \in Nat
         /\ Cardinality(DOMAIN exec)' \in Nat
         /\ Cardinality(DOMAIN exec) <= Cardinality(DOMAIN exec)'
         /\ Cardinality(RecordsIn({"SUCCESS"})) \in Nat
         /\ Cardinality(RecordsIn({"SUCCESS"}))' \in Nat
         /\ Cardinality(RecordsIn({"SUCCESS"})) <= Cardinality(RecordsIn({"SUCCESS"}))'
<1>1. IsFiniteSet(DOMAIN exec)
  BY FinitelyManyRecords
<1>2. IsFiniteSet(DOMAIN exec)'
  BY FinitelyManyRecords, PTL
<1>3. /\ DOMAIN exec \in SUBSET DOMAIN exec'
      /\ RecordsIn({"SUCCESS"}) \in SUBSET (RecordsIn({"SUCCESS"})')
      /\ RecordsIn({"SUCCESS"})' \in SUBSET DOMAIN exec'
  BY RecordsOnlyGrow DEF RecordsIn
<1>4. IsFiniteSet(RecordsIn({"SUCCESS"})') /\ IsFiniteSet(RecordsIn({"SUCCESS"}))
  BY <1>2, <1>3, FS_Subset
<1> QED
  BY <1>1, <1>2, <1>3, <1>4, FS_Subset, FS_CardinalityType

(* Every succeeded subtask has a successful record of its own. *)
LEMMA SucceededSubtasksHaveRecords ==
  ASSUME RecordInv
  PROVE  /\ SubtasksWith("SUCCESS") \in Nat
         /\ SubtasksWith("SUCCESS") <= Cardinality(RecordsIn({"SUCCESS"}))
<1> DEFINE Done == {s \in Subtask : sub[s] = "SUCCESS"}
           f == [s \in Done |-> CHOOSE k \in RecordsIn({"SUCCESS"}) : k[1] = s]
<1>1. ASSUME NEW s \in Done
      PROVE  \E k \in RecordsIn({"SUCCESS"}) : k[1] = s
  BY DEF RecordInv, SuccessHasEvidence, Succeeded, RecordsIn
<1>2. \A s \in Done : f[s] \in RecordsIn({"SUCCESS"}) /\ f[s][1] = s
  BY <1>1
<1>3. f \in Injection(Done, RecordsIn({"SUCCESS"}))
  <2> HIDE DEF Done
  <2>1. f \in [Done -> RecordsIn({"SUCCESS"})]
    BY <1>2
  <2> HIDE DEF f
  <2>2. \A s, t \in Done : f[s] = f[t] => s = t
    BY <1>2
  <2> QED
    BY <2>1, <2>2 DEF Injection, IsInjective
<1>4. IsFiniteSet(RecordsIn({"SUCCESS"}))
  <2>1. RecordsIn({"SUCCESS"}) \in SUBSET DOMAIN exec
    BY DEF RecordsIn
  <2> QED
    BY <2>1, FinitelyManyRecords, FS_Subset
<1> HIDE DEF Done, f
<1>5. IsFiniteSet(Done) /\ Cardinality(Done) <= Cardinality(RecordsIn({"SUCCESS"}))
  BY <1>3, <1>4, FS_Injection
<1>6. SubtasksWith("SUCCESS") = Cardinality(Done)
  BY DEF SubtasksWith, Done
<1> QED
  BY <1>5, <1>6, FS_CardinalityType

(* Every record is counted once by its status. *)
LEMMA RecordsAreCountedOnce ==
  ASSUME RecordInv
  PROVE  /\ RecordsWith({"SUCCESS"}) \in Nat
         /\ RecordsWith({"FAILED", "TIMEOUT", "CANCELED"}) \in Nat
         /\ RecordsWith({"RUNNING"}) \in Nat
         /\ Cardinality(DOMAIN exec) \in Nat
         /\ RecordsWith({"SUCCESS"}) + RecordsWith({"FAILED", "TIMEOUT", "CANCELED"})
              + RecordsWith({"RUNNING"}) = Cardinality(DOMAIN exec)
<1> DEFINE S == RecordsIn({"SUCCESS"})
           F == RecordsIn({"FAILED", "TIMEOUT", "CANCELED"})
           R == RecordsIn({"RUNNING"})
<1>1. /\ S \in SUBSET DOMAIN exec /\ F \in SUBSET DOMAIN exec /\ R \in SUBSET DOMAIN exec
      /\ S \cap F = {} /\ (S \cup F) \cap R = {}
  BY DEF RecordsIn
<1>2. DOMAIN exec = (S \cup F) \cup R
  <2>1. \A k \in DOMAIN exec : exec[k] \in ExecutionStatus
    BY DEF RecordInv, TypeOK, RowsTypeOK
  <2> QED
    BY <2>1 DEF RecordsIn, ExecutionStatus
<1>3. IsFiniteSet(DOMAIN exec)
  BY FinitelyManyRecords
<1>4. /\ RecordsWith({"SUCCESS"}) = Cardinality(S)
      /\ RecordsWith({"FAILED", "TIMEOUT", "CANCELED"}) = Cardinality(F)
      /\ RecordsWith({"RUNNING"}) = Cardinality(R)
  BY DEF RecordsWith, RecordsIn
<1> HIDE DEF S, F, R
<1>5. IsFiniteSet(S) /\ IsFiniteSet(F) /\ IsFiniteSet(R)
  BY <1>1, <1>3, FS_Subset
<1>6. /\ Cardinality(S) \in Nat /\ Cardinality(F) \in Nat /\ Cardinality(R) \in Nat
      /\ Cardinality(DOMAIN exec) \in Nat /\ Cardinality({}) = 0
  BY <1>3, <1>5, FS_CardinalityType, FS_EmptySet
<1>7. IsFiniteSet(S \cup F) /\ Cardinality(S \cup F) = Cardinality(S) + Cardinality(F)
  <2>1. Cardinality(S \cup F) = Cardinality(S) + Cardinality(F) - Cardinality(S \cap F)
    BY <1>5, FS_Union
  <2>2. Cardinality(S \cap F) = 0
    BY <1>1, <1>6
  <2>3. IsFiniteSet(S \cup F)
    BY <1>5, FS_Union
  <2> QED
    BY <1>6, <2>1, <2>2, <2>3
<1>8. Cardinality(DOMAIN exec) = Cardinality(S \cup F) + Cardinality(R)
  <2>1. Cardinality((S \cup F) \cup R)
          = Cardinality(S \cup F) + Cardinality(R) - Cardinality((S \cup F) \cap R)
    BY <1>5, <1>7, FS_Union
  <2>2. Cardinality((S \cup F) \cap R) = 0
    BY <1>1, <1>6
  <2>3. Cardinality(DOMAIN exec) = Cardinality((S \cup F) \cup R)
    BY <1>2
  <2>4. Cardinality(S \cup F) \in Nat
    BY <1>7, FS_CardinalityType
  <2> QED
    BY <1>6, <2>1, <2>2, <2>3, <2>4
<1> QED
  BY <1>4, <1>6, <1>7, <1>8

(* ... and once by the type of its node. *)
LEMMA NodesAreCountedOnce ==
  ASSUME RecordInv
  PROVE  /\ Cardinality(DOMAIN exec \ Offloaded) \in Nat
         /\ Cardinality(DOMAIN exec \cap Offloaded) \in Nat
         /\ Cardinality(DOMAIN exec \ Offloaded) + Cardinality(DOMAIN exec \cap Offloaded)
              = Cardinality(DOMAIN exec)
<1>1. IsFiniteSet(DOMAIN exec)
  BY FinitelyManyRecords
<1>2. /\ IsFiniteSet(DOMAIN exec \ Offloaded)
      /\ Cardinality(DOMAIN exec \ Offloaded)
           = Cardinality(DOMAIN exec) - Cardinality(DOMAIN exec \cap Offloaded)
      /\ IsFiniteSet(DOMAIN exec \cap Offloaded)
  BY <1>1, FS_Difference, FS_Intersection
<1>3. /\ Cardinality(DOMAIN exec) \in Nat
      /\ Cardinality(DOMAIN exec \ Offloaded) \in Nat
      /\ Cardinality(DOMAIN exec \cap Offloaded) \in Nat
  BY <1>1, <1>2, FS_CardinalityType
<1> QED
  BY <1>2, <1>3
-----------------------------------------------------------------------------
(* The statement that runs next, by how many have run. *)
LEMMA ReadCases ==
  ASSUME Read, metrics \in Metrics
  PROVE  /\ UNCHANGED vars
         /\ \/ metrics.read = 0 /\ metrics' = [ReadTask EXCEPT !.read = 1]
            \/ metrics.read = 1 /\ metrics' = [ReadSubtasks EXCEPT !.read = 2]
            \/ metrics.read = 2 /\ metrics' = [ReadRecords EXCEPT !.read = 3]
            \/ metrics.read = 3 /\ metrics' = [ReadNodeTypes EXCEPT !.read = 4]
<1>1. /\ Len(Statement) = 4 /\ Statement[1] = "task" /\ Statement[2] = "subtasks"
      /\ Statement[3] = "records" /\ Statement[4] = "nodes"
  BY DEF Statement
<1>2. metrics.read \in 0..4 /\ metrics.read < 4 /\ UNCHANGED vars
  BY <1>1 DEF Read, Metrics
<1>3. /\ ReadTask.read = metrics.read /\ ReadSubtasks.read = metrics.read
      /\ ReadRecords.read = metrics.read /\ ReadNodeTypes.read = metrics.read
  BY DEF ReadTask, ReadSubtasks, ReadRecords, ReadNodeTypes, Metrics
<1>4. CASE metrics.read = 0
  <2>1. metrics' = [ReadTask EXCEPT !.read = ReadTask.read + 1]
    BY <1>1, <1>4 DEF Read
  <2> QED
    BY <1>2, <1>3, <1>4, <2>1
<1>5. CASE metrics.read = 1
  <2>1. metrics' = [ReadSubtasks EXCEPT !.read = ReadSubtasks.read + 1]
    BY <1>1, <1>5 DEF Read
  <2> QED
    BY <1>2, <1>3, <1>5, <2>1
<1>6. CASE metrics.read = 2
  <2>1. metrics' = [ReadRecords EXCEPT !.read = ReadRecords.read + 1]
    BY <1>1, <1>6 DEF Read
  <2> QED
    BY <1>2, <1>3, <1>6, <2>1
<1>7. CASE metrics.read = 3
  <2>1. metrics' = [ReadNodeTypes EXCEPT !.read = ReadNodeTypes.read + 1]
    BY <1>1, <1>7 DEF Read
  <2> QED
    BY <1>2, <1>3, <1>7, <2>1
<1> QED
  BY <1>2, <1>4, <1>5, <1>6, <1>7

LEMMA ReadKeeps ==
  ASSUME RecordInv, MetricsInv, Read
  PROVE  MetricsInv'
<1>1. metrics \in Metrics
  BY DEF MetricsInv
<1>2. UNCHANGED exec
  BY <1>1, ReadCases DEF vars
<1>3. UNCHANGED <<Cardinality(DOMAIN exec), Cardinality(RecordsIn({"SUCCESS"}))>>
  BY <1>2 DEF RecordsIn
<1>4. RecordsWith({"SUCCESS"}) = Cardinality(RecordsIn({"SUCCESS"}))
  BY DEF RecordsWith, RecordsIn
<1>5. CASE metrics.read = 0 /\ metrics' = [ReadTask EXCEPT !.read = 1]
  <2>1. task \in TaskStatus
    BY DEF RecordInv, TypeOK, RowsTypeOK
  <2>2. ReadTask \in Metrics
    BY <1>1, <2>1 DEF ReadTask, Metrics
  <2>3. metrics' \in Metrics /\ metrics'.read = 1
    BY <1>5, <2>2 DEF Metrics
  <2> QED
    BY <2>3 DEF MetricsInv
<1>6. CASE metrics.read = 1 /\ metrics' = [ReadSubtasks EXCEPT !.read = 2]
  <2>1. ReadSubtasks \in Metrics /\ ReadSubtasks.succeeded = SubtasksWith("SUCCESS")
    BY <1>1, SucceededSubtasksHaveRecords DEF ReadSubtasks, Metrics
  <2>2. /\ metrics' \in Metrics /\ metrics'.read = 2
        /\ metrics'.succeeded = SubtasksWith("SUCCESS")
    BY <1>6, <2>1 DEF Metrics
  <2> QED
    BY <1>3, <2>2, SucceededSubtasksHaveRecords DEF MetricsInv
<1>7. CASE metrics.read = 2 /\ metrics' = [ReadRecords EXCEPT !.read = 3]
  <2>0. /\ ReadRecords \in Metrics
        /\ ReadRecords.succeeded = metrics.succeeded
        /\ ReadRecords.executions = Cardinality(DOMAIN exec)
        /\ ReadRecords.successes = RecordsWith({"SUCCESS"})
        /\ ReadRecords.failures = RecordsWith({"FAILED", "TIMEOUT", "CANCELED"})
        /\ ReadRecords.running = RecordsWith({"RUNNING"})
    BY <1>1, RecordsAreCountedOnce DEF ReadRecords, Metrics
  <2>1. /\ metrics' \in Metrics /\ metrics'.read = 3
        /\ metrics'.succeeded = metrics.succeeded
        /\ metrics'.executions = Cardinality(DOMAIN exec)
        /\ metrics'.successes = RecordsWith({"SUCCESS"})
        /\ metrics'.failures = RecordsWith({"FAILED", "TIMEOUT", "CANCELED"})
        /\ metrics'.running = RecordsWith({"RUNNING"})
    BY <1>7, <2>0 DEF Metrics
  <2>2. metrics.succeeded <= RecordsWith({"SUCCESS"})
    BY <1>4, <1>7 DEF MetricsInv
  <2> QED
    BY <1>3, <1>4, <2>1, <2>2, RecordsAreCountedOnce DEF MetricsInv
<1>8. CASE metrics.read = 3 /\ metrics' = [ReadNodeTypes EXCEPT !.read = 4]
  <2>0. /\ ReadNodeTypes \in Metrics
        /\ ReadNodeTypes.succeeded = metrics.succeeded
        /\ ReadNodeTypes.executions = metrics.executions
        /\ ReadNodeTypes.successes = metrics.successes
        /\ ReadNodeTypes.failures = metrics.failures
        /\ ReadNodeTypes.running = metrics.running
        /\ ReadNodeTypes.local = Cardinality(DOMAIN exec \ Offloaded)
        /\ ReadNodeTypes.edge = Cardinality(DOMAIN exec \cap Offloaded)
    BY <1>1, NodesAreCountedOnce DEF ReadNodeTypes, Metrics
  <2>1. /\ metrics' \in Metrics /\ metrics'.read = 4
        /\ metrics'.succeeded = metrics.succeeded
        /\ metrics'.executions = metrics.executions
        /\ metrics'.successes = metrics.successes
        /\ metrics'.failures = metrics.failures
        /\ metrics'.running = metrics.running
        /\ metrics'.local = Cardinality(DOMAIN exec \ Offloaded)
        /\ metrics'.edge = Cardinality(DOMAIN exec \cap Offloaded)
    BY <1>8, <2>0 DEF Metrics
  <2> QED
    BY <1>3, <1>8, <2>1, NodesAreCountedOnce DEF MetricsInv
<1> QED
  BY <1>1, <1>5, <1>6, <1>7, <1>8, ReadCases

(* The invariants of the transactions and of the answer together. *)
LEMMA MetricsStart == Init /\ metrics = NoMetrics => RecordInv /\ MetricsInv
<1> SUFFICES ASSUME Init, metrics = NoMetrics PROVE RecordInv /\ MetricsInv
  OBVIOUS
<1>1. metrics \in Metrics /\ metrics.read = 0
  BY DEF NoMetrics, Metrics, TaskStatus
<1> QED
  BY <1>1, InitInv DEF MetricsInv

LEMMA MetricsStep ==
  RecordInv /\ MetricsInv
    /\ [(Next /\ UNCHANGED metrics) \/ Read \/ Answer]_<<vars, metrics>>
  => RecordInv' /\ MetricsInv'
<1> SUFFICES ASSUME RecordInv, MetricsInv,
                    [(Next /\ UNCHANGED metrics) \/ Read \/ Answer]_<<vars, metrics>>
             PROVE  RecordInv' /\ MetricsInv'
  OBVIOUS
<1>1. metrics \in Metrics
  BY DEF MetricsInv
<1>2. [Next]_vars
  BY DEF Read, Answer
<1>3. RecordInv'
  BY <1>2, StepInv
<1>4. CASE UNCHANGED metrics
  <2>1. metrics'.read = metrics.read /\ metrics'.succeeded = metrics.succeeded
        /\ metrics'.executions = metrics.executions
    BY <1>4
  <2>2. metrics.succeeded \in Nat /\ metrics.executions \in Nat
    BY <1>1 DEF Metrics
  <2>3. metrics.read >= 2 => metrics.succeeded <= Cardinality(RecordsIn({"SUCCESS"}))'
    BY <1>2, <1>3, <2>2, CountsOnlyGrow DEF MetricsInv
  <2>4. metrics.read >= 3 => metrics.executions <= Cardinality(DOMAIN exec)'
    BY <1>2, <1>3, <2>2, CountsOnlyGrow DEF MetricsInv
  <2> QED
    BY <1>3, <1>4, <2>3, <2>4 DEF MetricsInv
<1>5. CASE Read
  BY <1>3, <1>5, ReadKeeps
<1>6. CASE Answer
  <2>1. metrics' \in Metrics /\ metrics'.read = 0
    BY <1>6 DEF Answer, NoMetrics, Metrics, TaskStatus
  <2> QED
    BY <1>3, <2>1 DEF MetricsInv
<1> QED
  BY <1>4, <1>5, <1>6

(* The counts of an answer under way stay covered by the records, whatever *)
(* the handlers commit between its statements.                             *)
THEOREM MetricsInvariance == MetricsSpec => [](RecordInv /\ MetricsInv)
BY MetricsStart, MetricsStep, PTL DEF MetricsSpec

(* An answer of get_task_metrics never counts more succeeded subtasks than *)
(* successful records nor more records than local and edge executions, and *)
(* its records by status add up, whatever is committed meanwhile.          *)
THEOREM CountsAreExplained == MetricsSpec => []CountsExplained
<1>1. RecordInv /\ MetricsInv => CountsExplained
  <2>1. Len(Statement) = 4
    BY DEF Statement
  <2> QED
    BY <2>1 DEF MetricsInv, CountsExplained, Complete, Metrics
<1> QED
  BY <1>1, MetricsInvariance, PTL
-----------------------------------------------------------------------------
(***************************************************************************)
(* One session alone.  Nothing is committed while its transaction is under *)
(* way, so what it has loaded is what the rows hold, and its dirty columns *)
(* are what the serial step would write.                                   *)
(***************************************************************************)
FreshSchedule(w) ==
  w.op = "schedule" =>
    /\ TaskCanSchedule(task)
    /\ w.at = "begun" => w.task = task
    /\ w.at = "dirty" =>
         /\ ReadySubtasks(sub) # {}
         /\ w.setTask = DirtyTask(task, TaskAfterSchedule(task))
         /\ w.items = ReadySubtasks(sub)

FreshStart(w) ==
  w.op = "start" =>
    /\ TaskCanRun(task)
    /\ w.at = "begun" => w.task = task
    /\ w.at = "dirty" =>
         \E p \in DOMAIN plan :
           /\ PlanCanApply(sub, plan[p])
           /\ w.setTask = DirtyTask(task, "RUNNING")
           /\ w.setSub = DirtySub(sub, SubtasksAfterStart(sub, plan[p].items))
           /\ w.apply = {p}
           /\ w.insert = NewAttempts(retry, plan[p].items)
           /\ w.held = {} /\ w.setRetry = {} /\ w.result = "RUNNING"

(* The dirty columns of a report of result for the record with key k. *)
ReportComputed(w, k, subAfter) ==
  /\ TaskCanFollow(task, subAfter, k[1], retry[k[1]], w.result)
  /\ w.setTask = DirtyTask(task, TaskAfterReport(task, subAfter, k[1], retry[k[1]], w.result))
  /\ w.setSub = DirtySub(sub, subAfter)
  /\ w.setRetry = IF CanRetry(k[1], retry[k[1]], w.result) THEN {k[1]} ELSE {}
  /\ w.apply = {} /\ w.insert = {}

FreshReport(w) ==
  w.op = "report" =>
    \E k \in DOMAIN exec :
      /\ w.held = {k} /\ exec[k] = "RUNNING"
      /\ w.result \in Result /\ SubtaskCanEnd(sub[k[1]], w.result)
      /\ w.ownRetry = retry[k[1]]
      /\ w.at = "begun" => w.task = task /\ w.own = sub[k[1]]
      /\ w.at = "dirty" =>
           ReportComputed(w, k, SubtasksAfterReport(sub, k[1], retry[k[1]], w.result))

FreshCancel(w) ==
  w.op = "cancel" =>
    /\ TaskCanCancel(task)
    /\ w.setTask = DirtyTask(task, "CANCELED")
    /\ w.setRetry = {} /\ w.apply = {} /\ w.insert = {}
    /\ w.at = "begun" => w.held = {}
    /\ w.at = "locking" => w.result = "CANCELED" /\ w.want \cup w.held = Running
    /\ w.at = "dirty" =>
         /\ w.result = "CANCELED" /\ w.held = Running
         /\ w.setSub = DirtySub(sub, SubtasksAfterCancel(sub))

Fresh(w) ==
  /\ w.op = "none" => w.at = "idle"
  /\ FreshSchedule(w) /\ FreshStart(w) /\ FreshReport(w) /\ FreshCancel(w)

LEMMA IdleIsFresh == Fresh(Idle)
BY DEF Fresh, Idle, FreshSchedule, FreshStart, FreshReport, FreshCancel

(* A step that leaves the rows alone and gives the session a fresh         *)
(* transaction.                                                            *)
LEMMA FreshPrivate ==
  ASSUME RecordInv, NEW c \in Session, NEW w, UNCHANGED rows,
         tx' = [tx EXCEPT ![c] = w], Fresh(w)
  PROVE  Fresh(tx[c])' /\ UNCHANGED rows
<1>1. tx'[c] = w
  BY DEF RecordInv, TypeOK
<1>2. UNCHANGED <<task, sub, retry, plan, exec, Running>>
  BY DEF rows, Running
<1>3. (tx[c].op = "none" => tx[c].at = "idle")'
  BY <1>1 DEF Fresh
<1>4. FreshSchedule(tx[c])'
  BY <1>1, <1>2 DEF Fresh, FreshSchedule
<1>5. FreshStart(tx[c])'
  BY <1>1, <1>2 DEF Fresh, FreshStart
<1>6. FreshReport(tx[c])'
  BY <1>1, <1>2 DEF Fresh, FreshReport, ReportComputed
<1>7. FreshCancel(tx[c])'
  BY <1>1, <1>2 DEF Fresh, FreshCancel
<1> QED
  BY <1>3, <1>4, <1>5, <1>6, <1>7 DEF Fresh

LEMMA BeginsFresh ==
  ASSUME RecordInv, NEW c \in Session,
         BeginSchedule(c) \/ BeginStart(c) \/ BeginCancel(c)
  PROVE  Fresh(tx[c])' /\ UNCHANGED rows
<1>1. CASE BeginSchedule(c)
  <2> DEFINE w == [Idle EXCEPT !.op = "schedule", !.at = "begun", !.task = task]
  <2>1. Fresh(w)
    BY <1>1 DEF BeginSchedule, Fresh, Idle, FreshSchedule, FreshStart, FreshReport, FreshCancel
  <2> QED
    BY <1>1, <2>1, FreshPrivate DEF BeginSchedule
<1>2. CASE BeginStart(c)
  <2> DEFINE w == [Idle EXCEPT !.op = "start", !.at = "begun", !.task = task]
  <2>1. Fresh(w)
    BY <1>2 DEF BeginStart, Fresh, Idle, FreshSchedule, FreshStart, FreshReport, FreshCancel
  <2> QED
    BY <1>2, <2>1, FreshPrivate DEF BeginStart
<1>3. CASE BeginCancel(c)
  <2> DEFINE w == [Idle EXCEPT !.op = "cancel", !.at = "begun",
                               !.setTask = DirtyTask(task, "CANCELED")]
  <2>1. Fresh(w)
    BY <1>3 DEF BeginCancel, Fresh, Idle, FreshSchedule, FreshStart, FreshReport, FreshCancel
  <2> QED
    BY <1>3, <2>1, FreshPrivate DEF BeginCancel
<1> QED
  BY <1>1, <1>2, <1>3

LEMMA LoadsFreshForSchedule ==
  ASSUME RecordInv, NEW c \in Session, Fresh(tx[c]), LoadForSchedule(c)
  PROVE  Fresh(tx[c])' /\ UNCHANGED rows
<1> DEFINE w == [Idle EXCEPT !.op = "schedule", !.at = "dirty",
                             !.setTask = DirtyTask(tx[c].task, TaskAfterSchedule(tx[c].task)),
                             !.items = GeneratedPlan(sub).items]
<1>1. TaskCanSchedule(task) /\ tx[c].task = task /\ ReadySubtasks(sub) # {}
  BY DEF LoadForSchedule, Fresh, FreshSchedule
<1>2. GeneratedPlan(sub).items = ReadySubtasks(sub)
  BY DEF GeneratedPlan
<1>3. Fresh(w)
  BY <1>1, <1>2 DEF Fresh, Idle, FreshSchedule, FreshStart, FreshReport, FreshCancel
<1> QED
  BY <1>3, FreshPrivate DEF LoadForSchedule

LEMMA LoadsFreshForStart ==
  ASSUME RecordInv, NEW c \in Session, Fresh(tx[c]), NEW p \in DOMAIN plan, LoadForStart(c, p)
  PROVE  Fresh(tx[c])' /\ UNCHANGED rows
<1> DEFINE w == [Idle EXCEPT !.op = "start", !.at = "dirty",
                             !.setTask = DirtyTask(tx[c].task, "RUNNING"),
                             !.setSub = DirtySub(sub, SubtasksAfterStart(sub, plan[p].items)),
                             !.apply = {p},
                             !.insert = NewAttempts(retry, plan[p].items)]
<1>1. TaskCanRun(task) /\ tx[c].task = task /\ PlanCanApply(sub, plan[p])
  BY DEF LoadForStart, Fresh, FreshStart
<1>2. Fresh(w)
  BY <1>1 DEF Fresh, Idle, FreshSchedule, FreshStart, FreshReport, FreshCancel
<1> QED
  BY <1>2, FreshPrivate DEF LoadForStart

LEMMA LocksFreshRecord ==
  ASSUME RecordInv, NEW c \in Session, NEW k \in DOMAIN exec, NEW result \in Result,
         LockRecord(c, k, result)
  PROVE  Fresh(tx[c])' /\ UNCHANGED rows
<1> DEFINE w == [Idle EXCEPT !.op = "report", !.at = "begun",
                             !.task = task, !.own = sub[k[1]],
                             !.ownRetry = retry[k[1]],
                             !.result = result, !.held = {k}]
<1>1. Fresh(w)
  BY DEF LockRecord, Fresh, Idle, FreshSchedule, FreshStart, FreshReport, FreshCancel
<1> QED
  BY <1>1, FreshPrivate DEF LockRecord

LEMMA LoadsFreshForReport ==
  ASSUME RecordInv, NEW c \in Session, Fresh(tx[c]), NEW k \in DOMAIN exec, LoadForReport(c, k)
  PROVE  Fresh(tx[c])' /\ UNCHANGED rows
<1> DEFINE s == k[1]
           o == tx[c]
           after == SubtasksAfterReport(sub, s, retry[s], o.result)
           w == [Idle EXCEPT !.op = "report", !.at = "dirty",
                             !.ownRetry = o.ownRetry,
                             !.result = o.result,
                             !.held = o.held,
                             !.setTask = DirtyTask(o.task,
                                TaskAfterReport(o.task, after, s, o.ownRetry, o.result)),
                             !.setSub = DirtySub(sub, after),
                             !.setRetry = IF CanRetry(s, o.ownRetry, o.result)
                                          THEN {s} ELSE {}]
<1>1. o.op = "report" /\ o.at = "begun" /\ k \in o.held
  BY DEF LoadForReport
<1>2. /\ o.held = {k} /\ exec[k] = "RUNNING" /\ o.result \in Result
      /\ SubtaskCanEnd(sub[s], o.result) /\ o.ownRetry = retry[s]
      /\ o.task = task /\ o.own = sub[s]
  BY <1>1 DEF Fresh, FreshReport
<1>3. [sub EXCEPT ![s] = o.own] = sub
  BY <1>2 DEF RecordInv, TypeOK, RowsTypeOK
<1>4. /\ TaskCanFollow(task, after, s, retry[s], o.result)
      /\ tx' = [tx EXCEPT ![c] = w] /\ UNCHANGED rows
  BY <1>2, <1>3 DEF LoadForReport
<1> HIDE DEF after
<1>5. ReportComputed(w, k, after)
  BY <1>2, <1>4 DEF ReportComputed, Idle
<1>6. /\ w.op = "report" /\ w.at = "dirty" /\ w.held = {k} /\ w.result = o.result
      /\ w.ownRetry = retry[s]
  BY <1>2 DEF Idle
<1> HIDE DEF w, o
<1>7. Fresh(w)
  BY <1>2, <1>5, <1>6 DEF Fresh, FreshSchedule, FreshStart, FreshReport, FreshCancel, after
<1> QED
  BY <1>4, <1>7, FreshPrivate

LEMMA CancelContinuesFresh ==
  ASSUME RecordInv, NEW c \in Session, Fresh(tx[c]),
         \/ ScanRunning(c)
         \/ \E k \in DOMAIN exec : LockScanned(c, k)
         \/ ReloadForCancel(c)
  PROVE  Fresh(tx[c])' /\ UNCHANGED rows
<1> DEFINE o == tx[c]
<1>1. o \in Transaction
  BY DEF RecordInv, TypeOK
<1>2. CASE ScanRunning(c)
  <2> DEFINE w == [o EXCEPT !.at = "locking", !.want = Running, !.result = "CANCELED"]
  <2>1. /\ w.op = "cancel" /\ w.at = "locking" /\ w.setTask = o.setTask /\ w.held = o.held
        /\ w.setRetry = o.setRetry /\ w.apply = o.apply /\ w.insert = o.insert
        /\ w.result = "CANCELED" /\ w.want = Running
    BY <1>1, <1>2 DEF ScanRunning, Transaction
  <2>2. FreshCancel(o) /\ o.op = "cancel" /\ o.at = "begun"
    BY <1>2 DEF Fresh, ScanRunning
  <2>3. tx' = [tx EXCEPT ![c] = w] /\ UNCHANGED rows
    BY <1>2 DEF ScanRunning
  <2> HIDE DEF w, o
  <2>4. Fresh(w)
    BY <2>1, <2>2 DEF Fresh, FreshSchedule, FreshStart, FreshReport, FreshCancel
  <2> QED
    BY <2>3, <2>4, FreshPrivate
<1>3. ASSUME NEW k \in DOMAIN exec, LockScanned(c, k)
      PROVE  Fresh(tx[c])' /\ UNCHANGED rows
  <2> DEFINE taken == IF exec[k] = "RUNNING" THEN {k} ELSE {}
             w == [o EXCEPT !.want = o.want \ {k}, !.held = o.held \cup taken]
  <2>1. /\ w.op = "cancel" /\ w.at = "locking" /\ w.setTask = o.setTask
        /\ w.setRetry = o.setRetry /\ w.apply = o.apply /\ w.insert = o.insert
        /\ w.result = o.result /\ w.want = o.want \ {k} /\ w.held = o.held \cup taken
    BY <1>1, <1>3 DEF LockScanned, Transaction
  <2>2. FreshCancel(o) /\ o.op = "cancel" /\ o.at = "locking" /\ k \in o.want
    BY <1>3 DEF Fresh, LockScanned
  <2>3. tx' = [tx EXCEPT ![c] = w] /\ UNCHANGED rows
    BY <1>3 DEF LockScanned
  <2>4. taken = {k}
    BY <2>2 DEF FreshCancel, Running
  <2> HIDE DEF w, o, taken
  <2>5. w.want \cup w.held = Running
    BY <2>1, <2>2, <2>4 DEF FreshCancel
  <2>6. Fresh(w)
    BY <2>1, <2>2, <2>5 DEF Fresh, FreshSchedule, FreshStart, FreshReport, FreshCancel
  <2> QED
    BY <2>3, <2>6, FreshPrivate
<1>4. CASE ReloadForCancel(c)
  <2> DEFINE v == DirtySub(sub, SubtasksAfterCancel(sub))
             w == [o EXCEPT !.at = "dirty", !.setSub = v]
  <2>1. /\ w.op = "cancel" /\ w.at = "dirty" /\ w.setTask = o.setTask /\ w.held = o.held
        /\ w.setRetry = o.setRetry /\ w.apply = o.apply /\ w.insert = o.insert
        /\ w.result = o.result /\ w.setSub = v
    BY <1>1, <1>4 DEF ReloadForCancel, Transaction
  <2>2. FreshCancel(o) /\ o.op = "cancel" /\ o.at = "locking" /\ o.want = {}
    BY <1>4 DEF Fresh, ReloadForCancel
  <2>3. tx' = [tx EXCEPT ![c] = w] /\ UNCHANGED rows
    BY <1>4 DEF ReloadForCancel
  <2> HIDE DEF w, o
  <2>4. Fresh(w)
    BY <2>1, <2>2 DEF Fresh, FreshSchedule, FreshStart, FreshReport, FreshCancel
  <2> QED
    BY <2>3, <2>4, FreshPrivate
<1> QED
  BY <1>2, <1>3, <1>4

(* A transaction that is over leaves a fresh one. *)
LEMMA EndsFresh ==
  ASSUME RecordInv, NEW c \in Session, tx' = [tx EXCEPT ![c] = Idle]
  PROVE  Fresh(tx[c])'
<1>1. tx'[c] = Idle
  BY DEF RecordInv, TypeOK
<1> QED
  BY <1>1 DEF Fresh, Idle, FreshSchedule, FreshStart, FreshReport, FreshCancel
-----------------------------------------------------------------------------
(* Writing the dirty columns of a fresh transaction gives the computed     *)
(* values.                                                                 *)
LEMMA DirtyWrites ==
  ASSUME NEW loaded \in TaskStatus, NEW computed \in TaskStatus,
         NEW f \in [Subtask -> SubtaskStatus], NEW g \in [Subtask -> SubtaskStatus]
  PROVE  /\ (IF DirtyTask(loaded, computed) = Clean THEN loaded
             ELSE DirtyTask(loaded, computed)) = computed
         /\ [s \in Subtask |-> IF DirtySub(f, g)[s] = Clean THEN f[s]
                               ELSE DirtySub(f, g)[s]] = g
BY DEF DirtyTask, DirtySub, Clean, TaskStatus, SubtaskStatus

(* Plans and retry counts that are not written keep their values. *)
LEMMA NothingWritten ==
  ASSUME RecordInv
  PROVE  /\ PlansAfterApply({}) = plan
         /\ \A n : [s \in Subtask |-> IF s \in {} THEN n ELSE retry[s]] = retry
<1>1. plan \in Seq(Plan) /\ retry \in [Subtask -> Nat]
  BY DEF RecordInv, TypeOK, RowsTypeOK
<1> QED
  BY <1>1 DEF PlansAfterApply

(* The serial steps, in the words of this module. *)
LEMMA SerialSteps ==
  /\ rows = Serial!rows
  /\ /\ TaskCanSchedule(task)
     /\ ReadySubtasks(sub) # {}
     /\ Len(plan) < MaxPlans
     /\ task' = TaskAfterSchedule(task)
     /\ plan' = Append(plan, GeneratedPlan(sub))
     /\ UNCHANGED <<sub, retry, exec>>
     => Serial!Schedule
  /\ \A p \in DOMAIN plan :
       /\ TaskCanRun(task)
       /\ PlanCanApply(sub, plan[p])
       /\ NewAttempts(retry, plan[p].items) \cap DOMAIN exec = {}
       /\ task' = "RUNNING"
       /\ sub' = SubtasksAfterStart(sub, plan[p].items)
       /\ plan' = PlansAfterApply({p})
       /\ exec' = RecordsAfter(NewAttempts(retry, plan[p].items), {}, "RUNNING")
       /\ UNCHANGED retry
       => Serial!Start(p)
  /\ /\ TaskCanCancel(task)
     /\ task' = "CANCELED"
     /\ sub' = SubtasksAfterCancel(sub)
     /\ exec' = RecordsAfter({}, Running, "CANCELED")
     /\ UNCHANGED <<retry, plan>>
     => Serial!Cancel
BY DEF rows, Serial!rows, Serial!Schedule, Serial!Start, Serial!Cancel,
       TaskCanSchedule, Serial!TaskCanSchedule, CanTransition, Serial!CanTransition,
       AllowedTransitions, Serial!AllowedTransitions, ReadySubtasks, Serial!ReadySubtasks,
       TaskAfterSchedule, Serial!TaskAfterSchedule, GeneratedPlan, Serial!GeneratedPlan,
       TaskCanRun, Serial!TaskCanRun, PlanCanApply, Serial!PlanCanApply,
       NewAttempts, Serial!NewAttempts, SubtasksAfterStart, Serial!SubtasksAfterStart,
       PlansAfterApply, Serial!PlansAfterApply, RecordsAfter, Serial!RecordsAfter,
       TaskCanCancel, Serial!TaskCanCancel, SubtasksAfterCancel, Serial!SubtasksAfterCancel,
       Running, Serial!Running, TerminalSubtask, Serial!TerminalSubtask

LEMMA SerialReport ==
  ASSUME NEW k \in DOMAIN exec, NEW result, NEW subAfter,
         subAfter = SubtasksAfterReport(sub, k[1], retry[k[1]], result),
         exec[k] = "RUNNING",
         SubtaskCanEnd(sub[k[1]], result),
         TaskCanFollow(task, subAfter, k[1], retry[k[1]], result),
         task' = TaskAfterReport(task, subAfter, k[1], retry[k[1]], result),
         sub' = subAfter,
         retry' = IF CanRetry(k[1], retry[k[1]], result)
                  THEN [retry EXCEPT ![k[1]] = @ + 1] ELSE retry,
         exec' = RecordsAfter({}, {k}, result),
         UNCHANGED plan
  PROVE  Serial!Report(k, result)
<1>1. /\ \A x, y : CanTransition(x, y) <=> Serial!CanTransition(x, y)
      /\ \A s, n, r : CanRetry(s, n, r) <=> Serial!CanRetry(s, n, r)
      /\ \A f : AllSucceeded(f) <=> Serial!AllSucceeded(f)
  BY DEF CanTransition, Serial!CanTransition, AllowedTransitions, Serial!AllowedTransitions,
         CanRetry, Serial!CanRetry, AllSucceeded, Serial!AllSucceeded
<1>2. \A f, s : Unlocked(f, s) = Serial!Unlocked(f, s)
  BY DEF Unlocked, Serial!Unlocked, Predecessors, Serial!Predecessors
<1>3. subAfter = Serial!SubtasksAfterReport(sub, k[1], retry[k[1]], result)
  BY <1>1, <1>2 DEF SubtasksAfterReport, Serial!SubtasksAfterReport
<1>4. Serial!SubtaskCanEnd(sub[k[1]], result)
  BY <1>1 DEF SubtaskCanEnd, Serial!SubtaskCanEnd
<1>5. Serial!TaskCanFollow(task, subAfter, k[1], retry[k[1]], result)
  BY <1>1 DEF TaskCanFollow, Serial!TaskCanFollow
<1>6. task' = Serial!TaskAfterReport(task, subAfter, k[1], retry[k[1]], result)
  BY <1>1 DEF TaskAfterReport, Serial!TaskAfterReport
<1>7. exec' = Serial!RecordsAfter({}, {k}, result)
  BY DEF RecordsAfter, Serial!RecordsAfter
<1>8. retry' = IF Serial!CanRetry(k[1], retry[k[1]], result)
               THEN [retry EXCEPT ![k[1]] = @ + 1] ELSE retry
  BY <1>1
<1> QED
  BY <1>3, <1>4, <1>5, <1>6, <1>7, <1>8 DEF Serial!Report

LEMMA ScheduleIsSerial ==
  ASSUME RecordInv, NEW c \in Session, Fresh(tx[c]), CommitSchedule(c)
  PROVE  Serial!Next
<1> DEFINE w == tx[c]
<1>1. /\ w.op = "schedule" /\ w.at = "dirty" /\ Len(plan) < MaxPlans
      /\ task' = IF w.setTask = Clean THEN task ELSE w.setTask
      /\ plan' = Append(plan, [status |-> "GENERATED", items |-> w.items])
      /\ UNCHANGED <<sub, retry, exec>>
  BY DEF CommitSchedule
<1>2. /\ TaskCanSchedule(task) /\ ReadySubtasks(sub) # {}
      /\ w.setTask = DirtyTask(task, TaskAfterSchedule(task))
      /\ w.items = ReadySubtasks(sub)
  BY <1>1 DEF Fresh, FreshSchedule
<1>3. task \in TaskStatus /\ TaskAfterSchedule(task) \in TaskStatus
      /\ sub \in [Subtask -> SubtaskStatus]
  BY DEF RecordInv, TypeOK, RowsTypeOK, TaskAfterSchedule, TaskStatus
<1>4. task' = TaskAfterSchedule(task)
  BY <1>1, <1>2, <1>3, DirtyWrites
<1>5. plan' = Append(plan, GeneratedPlan(sub))
  BY <1>1, <1>2 DEF GeneratedPlan
<1>6. Serial!Schedule
  BY <1>1, <1>2, <1>4, <1>5, SerialSteps
<1> QED
  BY <1>6 DEF Serial!Next

(* The statuses the handlers compute. *)
LEMMA ComputedSubtasks ==
  ASSUME RecordInv
  PROVE  /\ task \in TaskStatus /\ sub \in [Subtask -> SubtaskStatus]
         /\ retry \in [Subtask -> Nat]
         /\ \A items : SubtasksAfterStart(sub, items) \in [Subtask -> SubtaskStatus]
         /\ SubtasksAfterCancel(sub) \in [Subtask -> SubtaskStatus]
         /\ \A s, n, r : SubtasksAfterReport(sub, s, n, r) \in [Subtask -> SubtaskStatus]
         /\ \A f, s, n, r : TaskAfterReport(task, f, s, n, r) \in TaskStatus
<1>1. /\ task \in TaskStatus /\ sub \in [Subtask -> SubtaskStatus]
      /\ retry \in [Subtask -> Nat]
  BY DEF RecordInv, TypeOK, RowsTypeOK
<1>2. \A items : SubtasksAfterStart(sub, items) \in [Subtask -> SubtaskStatus]
  BY <1>1 DEF SubtasksAfterStart, SubtaskStatus
<1>3. SubtasksAfterCancel(sub) \in [Subtask -> SubtaskStatus]
  BY <1>1 DEF SubtasksAfterCancel, SubtaskStatus
<1>4. \A s, n, r : SubtasksAfterReport(sub, s, n, r) \in [Subtask -> SubtaskStatus]
  <2> TAKE s, n, r
  <2>1. \A x \in SubtaskStatus : [sub EXCEPT ![s] = x] \in [Subtask -> SubtaskStatus]
    BY <1>1
  <2>2. "SUCCESS" \in SubtaskStatus /\ "READY" \in SubtaskStatus /\ "FAILED" \in SubtaskStatus
    BY DEF SubtaskStatus
  <2>3. \A f \in [Subtask -> SubtaskStatus] : Unlocked(f, s) \in [Subtask -> SubtaskStatus]
    BY <2>2 DEF Unlocked
  <2> QED
    BY <2>1, <2>2, <2>3 DEF SubtasksAfterReport
<1>5. \A f, s, n, r : TaskAfterReport(task, f, s, n, r) \in TaskStatus
  BY <1>1 DEF TaskAfterReport, TaskStatus
<1> QED
  BY <1>1, <1>2, <1>3, <1>4, <1>5

LEMMA CommitIsSerial ==
  ASSUME RecordInv, NEW c \in Session, Fresh(tx[c]), Commit(c)
  PROVE  Serial!Next
<1> DEFINE w == tx[c]
<1>1. /\ w.op # "schedule" /\ w.at = "dirty" /\ w.insert \cap DOMAIN exec = {}
      /\ task' = IF w.setTask = Clean THEN task ELSE w.setTask
      /\ sub' = [s \in Subtask |-> IF w.setSub[s] = Clean THEN sub[s] ELSE w.setSub[s]]
      /\ retry' = [s \in Subtask |-> IF s \in w.setRetry THEN w.ownRetry + 1 ELSE retry[s]]
      /\ plan' = PlansAfterApply(w.apply)
      /\ exec' = RecordsAfter(w.insert, w.held, w.result)
  BY DEF Commit
<1>2. w.op \in {"start", "report", "cancel"}
  BY <1>1 DEF Fresh, RecordInv, TypeOK, Transaction
<1>3. /\ task \in TaskStatus /\ sub \in [Subtask -> SubtaskStatus]
      /\ retry \in [Subtask -> Nat]
  BY ComputedSubtasks
<1>4. CASE w.op = "start"
  <2>1. PICK p \in DOMAIN plan :
           /\ TaskCanRun(task) /\ PlanCanApply(sub, plan[p])
           /\ w.setTask = DirtyTask(task, "RUNNING")
           /\ w.setSub = DirtySub(sub, SubtasksAfterStart(sub, plan[p].items))
           /\ w.apply = {p}
           /\ w.insert = NewAttempts(retry, plan[p].items)
           /\ w.held = {} /\ w.setRetry = {} /\ w.result = "RUNNING"
    BY <1>1, <1>4 DEF Fresh, FreshStart
  <2>2. "RUNNING" \in TaskStatus
    BY DEF TaskStatus
  <2>3. SubtasksAfterStart(sub, plan[p].items) \in [Subtask -> SubtaskStatus]
    BY ComputedSubtasks
  <2>4. task' = "RUNNING" /\ sub' = SubtasksAfterStart(sub, plan[p].items)
    BY <1>1, <1>3, <2>1, <2>2, <2>3, DirtyWrites
  <2>5. UNCHANGED retry
    BY <1>1, <2>1, NothingWritten
  <2>6. Serial!Start(p)
    BY <1>1, <2>1, <2>4, <2>5, SerialSteps
  <2>7. plan \in Seq(Plan) /\ p \in DOMAIN plan
    BY DEF RecordInv, TypeOK, RowsTypeOK
  <2> QED
    BY <2>6, <2>7 DEF Serial!Next
<1>5. CASE w.op = "report"
  <2>1. PICK k \in DOMAIN exec :
          /\ w.held = {k} /\ exec[k] = "RUNNING"
          /\ w.result \in Result /\ SubtaskCanEnd(sub[k[1]], w.result)
          /\ w.ownRetry = retry[k[1]]
          /\ ReportComputed(w, k, SubtasksAfterReport(sub, k[1], retry[k[1]], w.result))
    BY <1>1, <1>5 DEF Fresh, FreshReport
  <2> DEFINE s == k[1]
             after == SubtasksAfterReport(sub, s, retry[s], w.result)
             ended == TaskAfterReport(task, after, s, retry[s], w.result)
  <2>2. /\ TaskCanFollow(task, after, s, retry[s], w.result)
        /\ w.setTask = DirtyTask(task, ended)
        /\ w.setSub = DirtySub(sub, after)
        /\ w.setRetry = IF CanRetry(s, retry[s], w.result) THEN {s} ELSE {}
        /\ w.apply = {} /\ w.insert = {}
    BY <2>1 DEF ReportComputed
  <2>3. after \in [Subtask -> SubtaskStatus] /\ ended \in TaskStatus
    BY ComputedSubtasks
  <2>4. s \in Subtask
    BY DEF RecordInv, TypeOK, RowsTypeOK
  <2>5. plan' = plan /\ exec' = RecordsAfter({}, {k}, w.result)
    BY <1>1, <2>1, <2>2, NothingWritten
  <2> HIDE DEF after, ended
  <2>6. task' = ended /\ sub' = after
    BY <1>1, <1>3, <2>2, <2>3, DirtyWrites
  <2>7. retry' = IF CanRetry(s, retry[s], w.result)
                 THEN [retry EXCEPT ![s] = @ + 1] ELSE retry
    <3>1. CASE CanRetry(s, retry[s], w.result)
      <4>1. retry' = [x \in Subtask |-> IF x = s THEN retry[s] + 1 ELSE retry[x]]
        BY <1>1, <2>1, <2>2, <3>1
      <4> QED
        BY <1>3, <2>4, <3>1, <4>1
    <3>2. CASE ~CanRetry(s, retry[s], w.result)
      <4>1. w.setRetry = {}
        BY <2>2, <3>2
      <4>2. retry' = retry
        BY <1>1, <4>1, NothingWritten
      <4> QED
        BY <3>2, <4>2
    <3> QED
      BY <3>1, <3>2
  <2>8. Serial!Report(k, w.result)
    BY <2>1, <2>2, <2>5, <2>6, <2>7, SerialReport DEF after, ended
  <2> QED
    BY <2>1, <2>8 DEF Serial!Next
<1>6. CASE w.op = "cancel"
  <2>1. /\ TaskCanCancel(task) /\ w.setTask = DirtyTask(task, "CANCELED")
        /\ w.setRetry = {} /\ w.apply = {} /\ w.insert = {}
        /\ w.result = "CANCELED" /\ w.held = Running
        /\ w.setSub = DirtySub(sub, SubtasksAfterCancel(sub))
    BY <1>1, <1>6 DEF Fresh, FreshCancel
  <2>2. "CANCELED" \in TaskStatus /\ SubtasksAfterCancel(sub) \in [Subtask -> SubtaskStatus]
    BY ComputedSubtasks DEF TaskStatus
  <2>3. task' = "CANCELED" /\ sub' = SubtasksAfterCancel(sub)
    BY <1>1, <1>3, <2>1, <2>2, DirtyWrites
  <2>4. UNCHANGED <<retry, plan>> /\ exec' = RecordsAfter({}, Running, "CANCELED")
    BY <1>1, <2>1, NothingWritten
  <2>5. Serial!Cancel
    BY <2>1, <2>3, <2>4, SerialSteps
  <2> QED
    BY <2>5 DEF Serial!Next
<1> QED
  BY <1>2, <1>4, <1>5, <1>6

LEMMA LoneStep ==
  ASSUME NEW c, Session = {c}, RecordInv, Fresh(tx[c]), [Next]_vars
  PROVE  Fresh(tx[c])' /\ [Serial!Next]_rows
<1>1. c \in Session
  OBVIOUS
<1>2. CASE Next
  <2>1. \/ BeginSchedule(c) \/ LoadForSchedule(c) \/ CommitSchedule(c)
        \/ BeginStart(c) \/ \E p \in DOMAIN plan : LoadForStart(c, p)
        \/ \E k \in DOMAIN exec, result \in Result : LockRecord(c, k, result)
        \/ \E k \in DOMAIN exec : LoadForReport(c, k)
        \/ BeginCancel(c) \/ ScanRunning(c) \/ ReloadForCancel(c)
        \/ \E k \in DOMAIN exec : LockScanned(c, k)
        \/ Commit(c)
        \/ Rollback(c)
    BY <1>2 DEF Next
  <2>2. CASE CommitSchedule(c)
    BY <1>1, <2>2, EndsFresh, ScheduleIsSerial DEF CommitSchedule
  <2>3. CASE Commit(c)
    BY <1>1, <2>3, EndsFresh, CommitIsSerial DEF Commit
  <2>4. CASE Rollback(c)
    BY <1>1, <2>4, EndsFresh DEF Rollback
  <2> QED
    BY <1>1, <2>1, <2>2, <2>3, <2>4, BeginsFresh, LoadsFreshForSchedule, LoadsFreshForStart,
       LocksFreshRecord, LoadsFreshForReport, CancelContinuesFresh
<1>3. CASE UNCHANGED vars
  <2>1. UNCHANGED <<task, sub, retry, plan, exec, Running, tx>>
    BY <1>3 DEF vars, Running
  <2>2. Fresh(tx[c])'
    BY <2>1 DEF Fresh, FreshSchedule, FreshStart, FreshReport, ReportComputed, FreshCancel
  <2> QED
    BY <2>1, <2>2 DEF rows
<1> QED
  BY <1>2, <1>3

(* The transactions of one session alone, run statement by statement and   *)
(* rolled back at any point, implement the serial life cycle, in which     *)
(* generate_plan, start_execution, report_result and cancel_task are       *)
(* atomic steps.                                                           *)
THEOREM OneSessionIsSerial ==
  ASSUME NEW c, Session = {c}
  PROVE  MetricsSpec => ImplementsSerial
<1>1. Init => Serial!RowsInit
  BY DEF Init, RowsInit, Serial!RowsInit, InitialSubtask, Serial!InitialSubtask,
         Predecessors, Serial!Predecessors
<1>2. Init => Fresh(tx[c])
  BY IdleIsFresh DEF Init
<1>3. RecordInv /\ Fresh(tx[c])
        /\ [(Next /\ UNCHANGED metrics) \/ Read \/ Answer]_<<vars, metrics>>
      => Fresh(tx[c])' /\ [Serial!Next]_(Serial!rows)
  <2> SUFFICES ASSUME RecordInv, Fresh(tx[c]),
                      [(Next /\ UNCHANGED metrics) \/ Read \/ Answer]_<<vars, metrics>>
               PROVE  Fresh(tx[c])' /\ [Serial!Next]_(Serial!rows)
    OBVIOUS
  <2>1. [Next]_vars
    BY DEF Read, Answer
  <2>2. Serial!rows = rows
    BY DEF rows, Serial!rows
  <2>3. Fresh(tx[c])' /\ [Serial!Next]_rows
    BY <2>1, LoneStep
  <2> QED
    BY <2>2, <2>3 DEF rows, Serial!rows
<1> QED
  BY <1>1, <1>2, <1>3, MetricsInvariance, PTL DEF MetricsSpec, ImplementsSerial, Serial!Spec
-----------------------------------------------------------------------------
(* A task that has succeeded has no open record, under any interleaving:   *)
(* the successful record of a subtask is its newest attempt.               *)
LEMMA SuccessLeavesNothingOpen ==
  ASSUME RecordInv, task = "SUCCESS"
  PROVE  Running = {}
<1> SUFFICES ASSUME NEW k \in Running PROVE FALSE
  OBVIOUS
<1>1. RowsTypeOK /\ RetriesMatchAttempts
  BY DEF RecordInv, TypeOK
<1>2. k[1] \in Subtask /\ k = <<k[1], k[2]>> /\ k[2] = retry[k[1]] + 1 /\ exec[k] = "RUNNING"
  BY <1>1, RunningIsNewest DEF Running
<1>3. PICK j \in DOMAIN exec : j[1] = k[1] /\ exec[j] = "SUCCESS"
  BY <1>2 DEF RecordInv, SuccessHasEvidence, Succeeded
<1>4. j = <<j[1], j[2]>> /\ j[2] \in Nat /\ retry[k[1]] \in Nat
  BY <1>1, <1>2 DEF RowsTypeOK
<1>5. j[2] \in 1..retry[k[1]] + 1
  BY <1>1, <1>2, <1>3 DEF RetriesMatchAttempts
<1>6. j[2] \notin 1..retry[k[1]]
  <2>1. \A n \in 1..retry[k[1]] : exec[<<k[1], n>>] \in {"FAILED", "TIMEOUT"}
    BY <1>1, <1>2 DEF RetriesMatchAttempts
  <2> QED
    BY <1>3, <1>4, <2>1
<1>7. j[2] = retry[k[1]] + 1
  BY <1>4, <1>5, <1>6
<1> QED
  BY <1>2, <1>3, <1>4, <1>7

(* A serial step ends a task with SUCCESS only when all subtasks have      *)
(* succeeded, and no step leaves that state.                               *)
LEMMA SerialSuccess ==
  ASSUME RecordInv, task = "SUCCESS" => AllSucceeded(sub), [Serial!Next]_rows
  PROVE  /\ task' = "SUCCESS" => AllSucceeded(sub')
         /\ task = "SUCCESS" => task' = "SUCCESS"
<1>1. /\ \A x : Serial!CanTransition(x, "SCHEDULED") => x # "SUCCESS"
      /\ \A x : Serial!CanTransition(x, "RUNNING") => x # "SUCCESS"
      /\ \A x : Serial!CanTransition(x, "CANCELED") => x # "SUCCESS"
      /\ \A x : Serial!CanTransition(x, "SUCCESS") => x # "SUCCESS"
      /\ \A x : Serial!CanTransition(x, "FAILED") => x # "SUCCESS"
  BY DEF Serial!CanTransition, Serial!AllowedTransitions
<1>2. CASE UNCHANGED rows
  BY <1>2 DEF rows
<1>3. CASE Serial!Schedule
  BY <1>1, <1>3 DEF Serial!Schedule, Serial!TaskCanSchedule, Serial!TaskAfterSchedule
<1>4. ASSUME NEW p \in DOMAIN plan, Serial!Start(p)
      PROVE  task # "SUCCESS" /\ task' # "SUCCESS"
  BY <1>1, <1>4 DEF Serial!Start, Serial!TaskCanRun
<1>5. ASSUME NEW k \in DOMAIN exec, NEW result \in Result, Serial!Report(k, result)
      PROVE  task # "SUCCESS" /\ (task' = "SUCCESS" => AllSucceeded(sub'))
  <2>1. sub[k[1]] # "SUCCESS" /\ k[1] \in Subtask
    BY <1>1, <1>5 DEF Serial!Report, Serial!SubtaskCanEnd, RecordInv, TypeOK, RowsTypeOK
  <2>2. task # "SUCCESS"
    BY <2>1 DEF AllSucceeded
  <2>3. task' = "SUCCESS" => AllSucceeded(sub')
    BY <1>5, <2>2 DEF Serial!Report, Serial!TaskAfterReport, Serial!AllSucceeded, AllSucceeded
  <2> QED
    BY <2>2, <2>3
<1>6. CASE Serial!Cancel
  BY <1>1, <1>6 DEF Serial!Cancel, Serial!TaskCanCancel
<1> QED
  BY <1>2, <1>3, <1>4, <1>5, <1>6 DEF Serial!Next

(* What an answer knows of a task it has read as SUCCESS. *)
CompleteInv ==
  /\ task = "SUCCESS" => AllSucceeded(sub)
  /\ metrics.read >= 1 /\ metrics.task = "SUCCESS" => task = "SUCCESS"
  /\ metrics.read >= 2 /\ metrics.task = "SUCCESS" => metrics.succeeded = Cardinality(Subtask)
  /\ metrics.read >= 3 /\ metrics.task = "SUCCESS" => metrics.running = 0

LEMMA CompleteRead ==
  ASSUME RecordInv, MetricsInv, CompleteInv, Read
  PROVE  CompleteInv'
<1>1. metrics \in Metrics
  BY DEF MetricsInv
<1>2. UNCHANGED <<task, sub>>
  BY <1>1, ReadCases DEF vars
<1>3. (task = "SUCCESS" => AllSucceeded(sub))'
  BY <1>2 DEF CompleteInv, AllSucceeded
<1>4. CASE metrics.read = 0 /\ metrics' = [ReadTask EXCEPT !.read = 1]
  <2>1. metrics'.read = 1 /\ metrics'.task = task
    BY <1>1, <1>4 DEF ReadTask, Metrics
  <2> QED
    BY <1>2, <1>3, <2>1 DEF CompleteInv
<1>5. CASE metrics.read = 1 /\ metrics' = [ReadSubtasks EXCEPT !.read = 2]
  <2>1. /\ metrics'.read = 2 /\ metrics'.task = metrics.task
        /\ metrics'.succeeded = SubtasksWith("SUCCESS")
    BY <1>1, <1>5 DEF ReadSubtasks, Metrics
  <2>2. ASSUME task = "SUCCESS" PROVE SubtasksWith("SUCCESS") = Cardinality(Subtask)
    <3>1. {s \in Subtask : sub[s] = "SUCCESS"} = Subtask
      BY <2>2 DEF CompleteInv, AllSucceeded
    <3> QED
      BY <3>1 DEF SubtasksWith
  <2> QED
    BY <1>2, <1>3, <1>5, <2>1, <2>2 DEF CompleteInv
<1>6. CASE metrics.read = 2 /\ metrics' = [ReadRecords EXCEPT !.read = 3]
  <2>1. /\ metrics'.read = 3 /\ metrics'.task = metrics.task
        /\ metrics'.succeeded = metrics.succeeded
        /\ metrics'.running = RecordsWith({"RUNNING"})
    BY <1>1, <1>6 DEF ReadRecords, Metrics
  <2>2. ASSUME task = "SUCCESS" PROVE RecordsWith({"RUNNING"}) = 0
    <3>1. {k \in DOMAIN exec : exec[k] \in {"RUNNING"}} = {}
      BY <2>2, SuccessLeavesNothingOpen DEF Running
    <3> QED
      BY <3>1, FS_EmptySet DEF RecordsWith
  <2> QED
    BY <1>2, <1>3, <1>6, <2>1, <2>2 DEF CompleteInv
<1>7. CASE metrics.read = 3 /\ metrics' = [ReadNodeTypes EXCEPT !.read = 4]
  <2>1. /\ metrics'.read = 4 /\ metrics'.task = metrics.task
        /\ metrics'.succeeded = metrics.succeeded
        /\ metrics'.running = metrics.running
    BY <1>1, <1>7 DEF ReadNodeTypes, Metrics
  <2> QED
    BY <1>2, <1>3, <1>7, <2>1 DEF CompleteInv
<1> QED
  BY <1>1, <1>4, <1>5, <1>6, <1>7, ReadCases

(* With one session alone, an answer that says the task is SUCCESS counts  *)
(* all its subtasks as succeeded and none of its records as running,       *)
(* although the session may commit between the statements.                 *)
THEOREM SuccessAnswersAreComplete ==
  ASSUME NEW c, Session = {c}
  PROVE  MetricsSpec => []SuccessIsComplete
<1> DEFINE Lone == Fresh(tx[c]) /\ CompleteInv
           Step == [(Next /\ UNCHANGED metrics) \/ Read \/ Answer]_<<vars, metrics>>
<1>1. Init /\ metrics = NoMetrics => Lone
  BY IdleIsFresh DEF Init, RowsInit, NoMetrics, CompleteInv
<1>2. RecordInv /\ MetricsInv /\ Lone /\ Step => Lone'
  <2> SUFFICES ASSUME RecordInv, MetricsInv, Lone, Step PROVE Lone'
    OBVIOUS
  <2>1. [Next]_vars
    BY DEF Read, Answer
  <2>2. Fresh(tx[c])' /\ [Serial!Next]_rows
    BY <2>1, LoneStep
  <2>3. /\ task' = "SUCCESS" => AllSucceeded(sub')
        /\ task = "SUCCESS" => task' = "SUCCESS"
    BY <2>2, SerialSuccess DEF CompleteInv
  <2>4. CASE UNCHANGED metrics
    BY <2>2, <2>3, <2>4 DEF CompleteInv, AllSucceeded
  <2>5. CASE Read
    BY <2>2, <2>5, CompleteRead
  <2>6. CASE Answer
    BY <2>2, <2>3, <2>6 DEF Answer, NoMetrics, CompleteInv, AllSucceeded
  <2> QED
    BY <2>4, <2>5, <2>6
<1>3. RecordInv /\ MetricsInv /\ Lone => SuccessIsComplete
  <2>1. Len(Statement) = 4
    BY DEF Statement
  <2> QED
    BY <2>1 DEF SuccessIsComplete, Complete, CompleteInv
<1> QED
  BY <1>1, <1>2, <1>3, MetricsInvariance, PTL DEF MetricsSpec
=============================================================================
