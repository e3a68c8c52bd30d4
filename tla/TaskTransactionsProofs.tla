----------------------- MODULE TaskTransactionsProofs -----------------------
(***************************************************************************)
(* Proofs about TaskTransactions, for every task graph, every retry budget *)
(* and any number of concurrent sessions.                                  *)
(***************************************************************************)
EXTENDS RecordInvariant, TLAPS

(* The plans keep their type when some of them become APPLIED. *)
LEMMA PlansAfterApplyType ==
  ASSUME NEW applied, plan \in Seq(Plan)
  PROVE  PlansAfterApply(applied) \in Seq(Plan)
<1>1. /\ Len(plan) \in Nat
      /\ DOMAIN plan = 1..Len(plan)
      /\ \A p \in DOMAIN plan : plan[p] \in Plan
  OBVIOUS
<1>2. \A p \in DOMAIN plan : [plan[p] EXCEPT !.status = "APPLIED"] \in Plan
  BY <1>1 DEF Plan, PlanStatus
<1>3. PlansAfterApply(applied) \in [1..Len(plan) -> Plan]
  BY <1>1, <1>2 DEF PlansAfterApply
<1>. QED  BY <1>1, <1>3

LEMMA IdleType == Idle \in Transaction
BY DEF Idle, Transaction, TaskStatus, SubtaskStatus, ExecutionStatus, AllClean, Clean

(* The value an ORM session computes for the task and subtask columns.     *)
LEMMA ComputedTypes ==
  ASSUME TypeOK, NEW s \in Subtask, NEW count \in Nat, NEW result \in Result,
         NEW loaded \in [Subtask -> SubtaskStatus], NEW t \in TaskStatus
  PROVE  /\ SubtasksAfterReport(loaded, s, count, result) \in [Subtask -> SubtaskStatus]
         /\ SubtasksAfterCancel(loaded) \in [Subtask -> SubtaskStatus]
         /\ \A sa : TaskAfterReport(t, sa, s, count, result) \in TaskStatus
         /\ TaskAfterSchedule(t) \in TaskStatus
BY DEF SubtasksAfterReport, SubtasksAfterCancel, TaskAfterReport, TaskAfterSchedule,
       Unlocked, SubtaskStatus, TaskStatus

LEMMA DirtyTypes ==
  ASSUME NEW t \in TaskStatus, NEW u \in TaskStatus,
         NEW loaded \in [Subtask -> SubtaskStatus],
         NEW computed \in [Subtask -> SubtaskStatus]
  PROVE  /\ DirtyTask(t, u) \in TaskStatus \cup {Clean}
         /\ DirtySub(loaded, computed) \in [Subtask -> SubtaskStatus \cup {Clean}]
BY DEF DirtyTask, DirtySub

(* A step that leaves the rows alone and gives a session a transaction     *)
(* that is in order, with locks nobody else holds, keeps the invariant.    *)
LEMMA PrivateStep ==
  ASSUME RecordInv, NEW c \in Session, NEW w \in Transaction,
         UNCHANGED rows, tx' = [tx EXCEPT ![c] = w],
         TransactionOK(w),
         w.held \subseteq Running,
         \A d \in Session \ {c} : w.held \cap tx[d].held = {}
  PROVE  RecordInv'
<1> USE DEF rows
<1>1. tx' \in [Session -> Transaction] /\ \A d \in Session : tx'[d] = IF d = c THEN w ELSE tx[d]
  BY DEF RecordInv, TypeOK
<1>2. TypeOK'
  BY <1>1 DEF RecordInv, TypeOK, RowsTypeOK
<1>3. RetriesMatchAttempts' /\ FailureHasEvidence'
  BY DEF RecordInv, RetriesMatchAttempts, FailureHasEvidence
<1>4. \A s : Succeeded(s)' <=> Succeeded(s)
  BY DEF Succeeded
<1>5. PrecedenceByRecords' /\ SuccessHasEvidence' /\ ReadyHasPrecedence'
  BY <1>4 DEF RecordInv, PrecedenceByRecords, SuccessHasEvidence, ReadyHasPrecedence
<1>6. LocksProtectRecords'
  BY <1>1 DEF RecordInv, LocksProtectRecords, Running
<1>7. ASSUME NEW d \in Session PROVE TransactionOK(tx[d])'
  <2>1. TransactionOK(tx'[d])
    BY <1>1 DEF RecordInv
  <2>. QED
    BY <2>1, <1>4
    DEF TransactionOK, InsertsNextAttempt, ReportsNewestAttempt, SettlesHeld, GrantsRetry,
        WritesWithEvidence, WillHaveSucceeded, Pending
<1>. QED  BY <1>2, <1>3, <1>5, <1>6, <1>7 DEF RecordInv

(* What a session at rest, or one that begins, holds: nothing. *)
LEMMA NothingToCommit ==
  ASSUME NEW w \in Transaction, w.op # "report", w.at # "locking",
         w.held = {}, w.insert = {}, w.setRetry = {},
         w.setSub = AllClean, w.setTask \notin {"SUCCESS", "FAILED"}
  PROVE  TransactionOK(w)
BY DEF TransactionOK, InsertsNextAttempt, ReportsNewestAttempt, SettlesHeld,
       GrantsRetry, WritesWithEvidence, AllClean, Clean

LEMMA BeginScheduleStep ==
  ASSUME RecordInv, NEW c \in Session, BeginSchedule(c)
  PROVE  RecordInv'
<1> DEFINE w == [Idle EXCEPT !.op = "schedule", !.at = "begun", !.task = task]
<1>1. w \in Transaction
  BY IdleType DEF RecordInv, TypeOK, RowsTypeOK, Transaction
<1>2. TransactionOK(w)
  BY <1>1, NothingToCommit DEF Idle, Clean
<1>3. w.held = {}
  BY DEF Idle
<1>. QED  BY <1>1, <1>2, <1>3, PrivateStep DEF BeginSchedule

LEMMA LoadForScheduleStep ==
  ASSUME RecordInv, NEW c \in Session, LoadForSchedule(c)
  PROVE  RecordInv'
<1> DEFINE u == DirtyTask(tx[c].task, TaskAfterSchedule(tx[c].task))
           w == [Idle EXCEPT !.op = "schedule", !.at = "dirty",
                             !.setTask = u, !.items = GeneratedPlan(sub).items]
<1>1. u \in TaskStatus \cup {Clean} /\ u \notin {"SUCCESS", "FAILED"}
  BY DEF RecordInv, TypeOK, Transaction, DirtyTask, TaskAfterSchedule, Clean, TaskStatus
<1>2. w \in Transaction
  BY <1>1, IdleType DEF GeneratedPlan, ReadySubtasks, Transaction
<1>3. TransactionOK(w)
  BY <1>1, <1>2, NothingToCommit DEF Idle
<1>4. w.held = {}
  BY DEF Idle
<1>. QED  BY <1>2, <1>3, <1>4, PrivateStep DEF LoadForSchedule

LEMMA BeginStartStep ==
  ASSUME RecordInv, NEW c \in Session, BeginStart(c)
  PROVE  RecordInv'
<1> DEFINE w == [Idle EXCEPT !.op = "start", !.at = "begun", !.task = task]
<1>1. w \in Transaction
  BY IdleType DEF RecordInv, TypeOK, RowsTypeOK, Transaction
<1>2. TransactionOK(w)
  BY <1>1, NothingToCommit DEF Idle, Clean
<1>3. w.held = {}
  BY DEF Idle
<1>. QED  BY <1>1, <1>2, <1>3, PrivateStep DEF BeginStart

(* The rows of the transition table that the guards of the handlers read.  *)
LEMMA TransitionRows ==
  ASSUME NEW x
  PROVE  /\ CanTransition(x, "DISPATCHED") => x = "READY"
         /\ CanTransition(x, "SUCCESS") => x = "RUNNING"
         /\ CanTransition(x, "FAILED") => x = "RUNNING"
         /\ CanTransition(x, "CANCELED") => x \notin {"SUCCESS", "FAILED", "CANCELED"}
<1>1. ASSUME NEW y, CanTransition(x, y)
      PROVE  \/ x = "PENDING" /\ y \in {"SCHEDULED", "CANCELED"}
             \/ x = "SCHEDULED" /\ y \in {"RUNNING", "CANCELED"}
             \/ x = "WAITING" /\ y \in {"READY", "CANCELED"}
             \/ x = "READY" /\ y \in {"DISPATCHED", "CANCELED"}
             \/ x = "DISPATCHED" /\ y \in {"RUNNING", "CANCELED"}
             \/ x = "RUNNING" /\ y \in {"SUCCESS", "FAILED", "TIMEOUT", "CANCELED"}
             \/ x = "FAILED" /\ y = "RETRYING"
             \/ x = "RETRYING" /\ y \in {"READY", "CANCELED"}
             \/ x = "ONLINE" /\ y \in {"BUSY", "OFFLINE"}
             \/ x = "BUSY" /\ y \in {"ONLINE", "OFFLINE"}
             \/ x = "OFFLINE" /\ y = "ONLINE"
             \/ x = "GENERATED" /\ y \in {"APPLIED", "CANCELED"}
             \/ x = "APPLIED" /\ y = "CANCELED"
  BY <1>1 DEF CanTransition, AllowedTransitions
<1>. QED  BY <1>1

(* A start loads READY subtasks, whose predecessors have succeeded, and    *)
(* numbers their attempts after a retry_count that can only grow.          *)
LEMMA LoadForStartStep ==
  ASSUME RecordInv, NEW c \in Session, NEW p \in DOMAIN plan, LoadForStart(c, p)
  PROVE  RecordInv'
<1> DEFINE u == DirtyTask(tx[c].task, "RUNNING")
           v == DirtySub(sub, SubtasksAfterStart(sub, plan[p].items))
           new == NewAttempts(retry, plan[p].items)
           w == [Idle EXCEPT !.op = "start", !.at = "dirty", !.setTask = u,
                             !.setSub = v, !.apply = {p}, !.insert = new]
<1>1. /\ plan[p] \in Plan
      /\ p \in Nat
      /\ plan[p].items \subseteq Subtask
      /\ sub \in [Subtask -> SubtaskStatus]
      /\ retry \in [Subtask -> Nat]
  <2>1. /\ plan \in Seq(Plan)
        /\ sub \in [Subtask -> SubtaskStatus]
        /\ retry \in [Subtask -> Nat]
    BY DEF RecordInv, TypeOK, RowsTypeOK
  <2>2. plan[p] \in Plan /\ p \in Nat
    BY <2>1
  <2>. QED  BY <2>1, <2>2 DEF Plan
<1>2. \A s \in plan[p].items : sub[s] = "READY"
  BY TransitionRows DEF LoadForStart, PlanCanApply
<1>3. \A s \in plan[p].items : \A q \in Predecessors(s) : Succeeded(q)
  BY <1>1, <1>2 DEF RecordInv, ReadyHasPrecedence
<1>4. u \in {"RUNNING", Clean}
  BY DEF DirtyTask
<1>5. SubtasksAfterStart(sub, plan[p].items) \in [Subtask -> SubtaskStatus]
  BY <1>1 DEF SubtasksAfterStart, SubtaskStatus
<1>6. /\ v \in [Subtask -> SubtaskStatus \cup {Clean}]
      /\ \A s \in Subtask : v[s] # Clean => s \in plan[p].items /\ v[s] = "RUNNING"
  BY <1>1, <1>5 DEF DirtySub, SubtasksAfterStart
<1>7. new \in SUBSET (Subtask \X Nat)
  BY <1>1 DEF NewAttempts
<1>8. w \in Transaction
  <2>. HIDE DEF u, v, new
  <2>. QED  BY <1>1, <1>4, <1>6, <1>7, IdleType, ZenonT(60) DEF Transaction, TaskStatus
<1>9. InsertsNextAttempt(w)
  BY <1>1, <1>3 DEF InsertsNextAttempt, NewAttempts, Idle
<1>10. WritesWithEvidence(w)
  BY <1>3, <1>4, <1>6 DEF WritesWithEvidence, WillHaveSucceeded, Idle, Clean
<1>11. TransactionOK(w)
  BY <1>9, <1>10 DEF TransactionOK, ReportsNewestAttempt, SettlesHeld, GrantsRetry, Idle
<1>12. w.held = {}
  BY DEF Idle
<1>. QED  BY <1>8, <1>11, <1>12, PrivateStep DEF LoadForStart
-----------------------------------------------------------------------------
(* Only the newest attempt of a subtask can be RUNNING: the earlier ones   *)
(* were granted a retry after they had failed.                             *)
LEMMA RunningIsNewest ==
  ASSUME RowsTypeOK, RetriesMatchAttempts, NEW k \in Running
  PROVE  /\ k[1] \in Subtask /\ k[2] \in Nat /\ k = <<k[1], k[2]>>
         /\ k[2] = retry[k[1]] + 1
<1>1. /\ k \in Subtask \X Nat
      /\ k \in DOMAIN exec /\ exec[k] = "RUNNING"
      /\ retry \in [Subtask -> Nat]
  BY DEF RowsTypeOK, Running
<1>2. k[1] \in Subtask /\ k[2] \in Nat /\ k = <<k[1], k[2]>> /\ retry[k[1]] \in Nat
  BY <1>1
<1>3. k[2] \in 1..retry[k[1]] + 1
  BY <1>1, <1>2 DEF RetriesMatchAttempts
<1>4. k[2] \notin 1..retry[k[1]]
  <2>1. ASSUME k[2] \in 1..retry[k[1]] PROVE exec[<<k[1], k[2]>>] \in {"FAILED", "TIMEOUT"}
    BY <2>1, <1>2 DEF RetriesMatchAttempts
  <2>. QED  BY <2>1, <1>1, <1>2
<1>. QED  BY <1>2, <1>3, <1>4

(* A report locks the newest attempt of its subtask. *)
LEMMA LockRecordStep ==
  ASSUME RecordInv, NEW c \in Session, NEW k \in DOMAIN exec, NEW result \in Result,
         LockRecord(c, k, result)
  PROVE  RecordInv'
<1> DEFINE w == [Idle EXCEPT !.op = "report", !.at = "begun", !.task = task,
                             !.own = sub[k[1]], !.ownRetry = retry[k[1]],
                             !.result = result, !.held = {k}]
<1>1. k \in Running
  BY DEF LockRecord, Running
<1>2. k[1] \in Subtask /\ k[2] = retry[k[1]] + 1 /\ k \in Subtask \X Nat
  BY <1>1, RunningIsNewest DEF RecordInv, TypeOK, RowsTypeOK
<1>3. /\ task \in TaskStatus /\ sub[k[1]] \in SubtaskStatus /\ retry[k[1]] \in Nat
      /\ retry[k[1]] <= MaxRetries[k[1]]
      /\ result \in ExecutionStatus
  BY <1>2, ResultAssumption DEF RecordInv, TypeOK, RowsTypeOK, RetriesMatchAttempts
<1>4. w \in Transaction
  BY <1>2, <1>3, IdleType DEF Transaction
<1>5. ReportsNewestAttempt(w)
  BY <1>2, <1>3 DEF ReportsNewestAttempt, Idle
<1>6. TransactionOK(w)
  BY <1>5 DEF TransactionOK, InsertsNextAttempt, SettlesHeld, GrantsRetry,
              WritesWithEvidence, Idle, AllClean, Clean
<1>7. w.held = {k} /\ w.held \subseteq Running
  BY <1>1 DEF Idle
<1>8. \A d \in Session \ {c} : w.held \cap tx[d].held = {}
  BY <1>7 DEF LockRecord, LockIsFree
<1>. QED  BY <1>4, <1>6, <1>7, <1>8, PrivateStep DEF LockRecord

LEMMA BeginCancelStep ==
  ASSUME RecordInv, NEW c \in Session, BeginCancel(c)
  PROVE  RecordInv'
<1> DEFINE w == [Idle EXCEPT !.op = "cancel", !.at = "begun",
                             !.setTask = DirtyTask(task, "CANCELED")]
<1>1. DirtyTask(task, "CANCELED") \in {"CANCELED", Clean}
  BY DEF DirtyTask
<1>2. w \in Transaction
  BY <1>1, IdleType DEF Transaction, TaskStatus
<1>3. TransactionOK(w)
  BY <1>1, <1>2, NothingToCommit DEF Idle, Clean
<1>4. w.held = {}
  BY DEF Idle
<1>. QED  BY <1>2, <1>3, <1>4, PrivateStep DEF BeginCancel

LEMMA RollbackStep ==
  ASSUME RecordInv, NEW c \in Session, Rollback(c)
  PROVE  RecordInv'
<1>1. TransactionOK(Idle)
  BY IdleType, NothingToCommit DEF Idle, Clean
<1>2. Idle.held = {}
  BY DEF Idle
<1>. QED  BY <1>1, <1>2, IdleType, PrivateStep DEF Rollback

(* What is known of a cancellation that is collecting its locks. *)
LEMMA CancelFacts ==
  ASSUME RecordInv, NEW c \in Session, tx[c].op = "cancel"
  PROVE  /\ tx[c] \in Transaction
         /\ tx[c].insert = {} /\ tx[c].setRetry = {}
         /\ tx[c].held \subseteq Running
         /\ \A d \in Session \ {c} : tx[c].held \cap tx[d].held = {}
         /\ \A s : ~Pending(tx[c], s)
         /\ WritesWithEvidence(tx[c])
<1>1. tx[c] \in Transaction /\ TransactionOK(tx[c])
  BY DEF RecordInv, TypeOK
<1>2. tx[c].insert = {} /\ tx[c].setRetry = {}
  BY <1>1 DEF TransactionOK, SettlesHeld, GrantsRetry, Transaction
<1>3. \A s : ~Pending(tx[c], s)
  BY <1>1 DEF TransactionOK, SettlesHeld, Pending
<1>4. /\ tx[c].held \subseteq Running
      /\ \A d \in Session \ {c} : tx[c].held \cap tx[d].held = {}
  BY DEF RecordInv, LocksProtectRecords
<1>. QED  BY <1>1, <1>2, <1>3, <1>4 DEF TransactionOK

(* A cancellation settles what it has locked as CANCELED, whatever it      *)
(* still wants to lock, and writes only statuses that need no evidence or  *)
(* had it already.                                                         *)
LEMMA CancelContinues ==
  ASSUME RecordInv, NEW c \in Session, tx[c].op = "cancel",
         NEW w \in Transaction, w.op = "cancel", w.result = "CANCELED",
         w.insert = {}, w.setRetry = {}, w.setTask = tx[c].setTask,
         tx[c].held \subseteq w.held,
         \A s \in Subtask : w.setSub[s] \in {tx[c].setSub[s], "CANCELED", Clean}
  PROVE  TransactionOK(w)
<1>1. /\ \A s : ~Pending(tx[c], s)
      /\ WritesWithEvidence(tx[c])
  BY CancelFacts
<1>2. WritesWithEvidence(w)
  BY <1>1 DEF WritesWithEvidence, WillHaveSucceeded, Clean
<1>. QED
  BY <1>2 DEF TransactionOK, InsertsNextAttempt, ReportsNewestAttempt, SettlesHeld, GrantsRetry

LEMMA ScanRunningStep ==
  ASSUME RecordInv, NEW c \in Session, ScanRunning(c)
  PROVE  RecordInv'
<1> DEFINE w == [tx[c] EXCEPT !.at = "locking", !.want = Running, !.result = "CANCELED"]
<1>1. tx[c].op = "cancel"
  BY DEF ScanRunning
<1>2. tx[c] \in Transaction
  BY <1>1, CancelFacts
<1>3. Running \subseteq Subtask \X Nat
  BY DEF RecordInv, TypeOK, RowsTypeOK, Running
<1>4. w \in Transaction
  BY <1>2, <1>3 DEF Transaction, ExecutionStatus
<1>5. /\ w.op = "cancel" /\ w.result = "CANCELED" /\ w.insert = tx[c].insert
      /\ w.setRetry = tx[c].setRetry /\ w.setTask = tx[c].setTask
      /\ w.held = tx[c].held /\ w.setSub = tx[c].setSub
  BY <1>1, <1>2 DEF Transaction
<1>6. TransactionOK(w)
  BY <1>1, <1>4, <1>5, CancelFacts, CancelContinues
<1>7. tx' = [tx EXCEPT ![c] = w]
  BY DEF ScanRunning
<1>8. /\ UNCHANGED rows /\ w.held \subseteq Running
      /\ \A d \in Session \ {c} : w.held \cap tx[d].held = {}
  BY <1>1, <1>5, CancelFacts DEF ScanRunning
<1>. HIDE DEF w
<1>. QED  BY <1>4, <1>6, <1>7, <1>8, PrivateStep

LEMMA LockScannedStep ==
  ASSUME RecordInv, NEW c \in Session, NEW k \in DOMAIN exec, LockScanned(c, k)
  PROVE  RecordInv'
<1> DEFINE h == tx[c].held \cup (IF exec[k] = "RUNNING" THEN {k} ELSE {})
           w == [tx[c] EXCEPT !.want = tx[c].want \ {k}, !.held = h]
<1>1. tx[c].op = "cancel" /\ tx[c].at = "locking" /\ LockIsFree(c, k)
  BY DEF LockScanned
<1>2. tx[c] \in Transaction
  BY <1>1, CancelFacts
<1>3. k \in Subtask \X Nat
  BY DEF RecordInv, TypeOK, RowsTypeOK
<1>4. w \in Transaction
  BY <1>2, <1>3 DEF Transaction
<1>5. tx[c].result = "CANCELED"
  BY <1>1 DEF RecordInv, TransactionOK, SettlesHeld
<1>6. /\ w.op = "cancel" /\ w.result = "CANCELED" /\ w.insert = tx[c].insert
      /\ w.setRetry = tx[c].setRetry /\ w.setTask = tx[c].setTask
      /\ w.held = h /\ w.setSub = tx[c].setSub
  BY <1>1, <1>2, <1>5 DEF Transaction
<1>7. TransactionOK(w)
  <2>1. /\ w.insert = {} /\ w.setRetry = {} /\ tx[c].held \subseteq w.held
        /\ \A s \in Subtask : w.setSub[s] = tx[c].setSub[s]
    BY <1>1, <1>6, CancelFacts
  <2>. HIDE DEF w
  <2>. QED  BY <1>1, <1>4, <1>6, <2>1, CancelContinues
<1>8. h \subseteq Running
  BY <1>1, CancelFacts DEF Running
<1>9. \A d \in Session \ {c} : h \cap tx[d].held = {}
  BY <1>1, CancelFacts DEF LockIsFree
<1>10. tx' = [tx EXCEPT ![c] = w]
  BY DEF LockScanned
<1>11. UNCHANGED rows
  BY DEF LockScanned
<1>. HIDE DEF w
<1>. QED  BY <1>4, <1>6, <1>7, <1>8, <1>9, <1>10, <1>11, PrivateStep

LEMMA ReloadForCancelStep ==
  ASSUME RecordInv, NEW c \in Session, ReloadForCancel(c)
  PROVE  RecordInv'
<1> DEFINE v == DirtySub(sub, SubtasksAfterCancel(sub))
           w == [tx[c] EXCEPT !.at = "dirty", !.setSub = v]
<1>1. tx[c].op = "cancel" /\ tx[c].at = "locking"
  BY DEF ReloadForCancel
<1>2. tx[c] \in Transaction
  BY <1>1, CancelFacts
<1>3. /\ sub \in [Subtask -> SubtaskStatus]
      /\ v \in [Subtask -> {"CANCELED", Clean}]
  BY DEF RecordInv, TypeOK, RowsTypeOK, DirtySub, SubtasksAfterCancel
<1>4. w \in Transaction
  <2>. HIDE DEF v
  <2>. QED  BY <1>2, <1>3, ZenonT(60) DEF Transaction, SubtaskStatus
<1>5. tx[c].result = "CANCELED"
  BY <1>1 DEF RecordInv, TransactionOK, SettlesHeld
<1>6. /\ w.op = "cancel" /\ w.result = "CANCELED" /\ w.insert = tx[c].insert
      /\ w.setRetry = tx[c].setRetry /\ w.setTask = tx[c].setTask
      /\ w.held = tx[c].held /\ w.setSub = v
  BY <1>1, <1>2, <1>5 DEF Transaction
<1>7. TransactionOK(w)
  <2>1. /\ w.insert = {} /\ w.setRetry = {} /\ tx[c].held \subseteq w.held
        /\ \A s \in Subtask : w.setSub[s] \in {"CANCELED", Clean}
    BY <1>1, <1>3, <1>6, CancelFacts
  <2>. HIDE DEF w
  <2>. QED  BY <1>1, <1>4, <1>6, <2>1, CancelContinues
<1>8. tx' = [tx EXCEPT ![c] = w]
  BY DEF ReloadForCancel
<1>. QED  BY <1>1, <1>4, <1>6, <1>7, <1>8, CancelFacts, PrivateStep DEF ReloadForCancel
-----------------------------------------------------------------------------
(* What a report computes from a possibly stale list of subtasks rests on  *)
(* records that exist, or on the result it is about to settle.             *)
LEMMA LoadForReportStep ==
  ASSUME RecordInv, NEW c \in Session, NEW k \in DOMAIN exec, LoadForReport(c, k)
  PROVE  RecordInv'
<1> DEFINE t == tx[c]
           s == k[1]
           n == t.ownRetry
           loaded == [sub EXCEPT ![s] = t.own]
           computed == SubtasksAfterReport(loaded, s, n, t.result)
           u == DirtyTask(t.task, TaskAfterReport(t.task, computed, s, n, t.result))
           v == DirtySub(loaded, computed)
           g == IF CanRetry(s, n, t.result) THEN {s} ELSE {}
           w == [Idle EXCEPT !.op = "report", !.at = "dirty", !.ownRetry = n,
                             !.result = t.result, !.held = t.held,
                             !.setTask = u, !.setSub = v, !.setRetry = g]
<1>1. /\ t \in Transaction /\ t.op = "report" /\ k \in t.held
      /\ t.held \subseteq Running
      /\ \A d \in Session \ {c} : t.held \cap tx[d].held = {}
  BY DEF LoadForReport, RecordInv, TypeOK, LocksProtectRecords
<1>2. /\ t.held = {k} /\ k[2] = n + 1 /\ n <= MaxRetries[s] /\ t.result \in Result
  BY <1>1 DEF RecordInv, TransactionOK, ReportsNewestAttempt
<1>3. /\ k \in Subtask \X Nat
      /\ s \in Subtask /\ k = <<s, n + 1>>
  BY <1>1, <1>2, RunningIsNewest DEF RecordInv, TypeOK, RowsTypeOK
<1>4. /\ t.task \in TaskStatus /\ t.own \in SubtaskStatus /\ n \in Nat
      /\ t.result \in ExecutionStatus \ {"RUNNING"}
      /\ sub \in [Subtask -> SubtaskStatus] /\ loaded \in [Subtask -> SubtaskStatus]
      /\ MaxRetries[s] \in Nat
  BY <1>1, <1>2, <1>3, ResultAssumption, MaxRetriesAssumption
  DEF RecordInv, TypeOK, RowsTypeOK, Transaction
<1>5. computed \in [Subtask -> SubtaskStatus]
  BY <1>2, <1>3, <1>4, ComputedTypes DEF RecordInv
<1>6. TaskAfterReport(t.task, computed, s, n, t.result) \in TaskStatus
  BY <1>2, <1>3, <1>4, ComputedTypes DEF RecordInv
<1>7. u \in TaskStatus \cup {Clean} /\ v \in [Subtask -> SubtaskStatus \cup {Clean}]
  BY <1>4, <1>5, <1>6, DirtyTypes
<1>8. w \in Transaction
  <2>. HIDE DEF u, v, loaded, computed
  <2>. QED  BY <1>1, <1>3, <1>4, <1>7, IdleType, ZenonT(60) DEF Transaction
<1>9. /\ w.op = "report" /\ w.at = "dirty" /\ w.held = {k} /\ w.ownRetry = n
      /\ w.result = t.result /\ w.insert = {} /\ w.setRetry = g
      /\ w.setTask = u /\ w.setSub = v
  BY <1>2 DEF Idle
<1>10. CanRetry(s, n, t.result) => t.result \in {"FAILED", "TIMEOUT"} /\ n < MaxRetries[s]
  BY DEF CanRetry
<1>11. InsertsNextAttempt(w) /\ ReportsNewestAttempt(w) /\ SettlesHeld(w) /\ GrantsRetry(w)
  <2>. HIDE DEF w
  <2>. QED
    BY <1>2, <1>3, <1>9, <1>10
    DEF InsertsNextAttempt, ReportsNewestAttempt, SettlesHeld, GrantsRetry
<1>12. \A x \in Subtask : computed[x] = "SUCCESS" => WillHaveSucceeded(w, x)
  <2>. SUFFICES ASSUME NEW x \in Subtask, computed[x] = "SUCCESS"
                PROVE  WillHaveSucceeded(w, x)
    OBVIOUS
  <2>1. CASE x = s
    <3>1. t.result = "SUCCESS"
      BY <2>1, <1>3, <1>4 DEF SubtasksAfterReport
    <3>. HIDE DEF w
    <3>. QED  BY <3>1, <2>1, <1>9 DEF WillHaveSucceeded, Pending
  <2>2. CASE x # s
    <3>1. sub[x] = "SUCCESS"
      BY <2>2, <1>3, <1>4 DEF SubtasksAfterReport, Unlocked
    <3>. QED  BY <3>1 DEF RecordInv, SuccessHasEvidence, WillHaveSucceeded
  <2>. QED  BY <2>1, <2>2
<1>13. ASSUME NEW x \in Subtask, v[x] # Clean
       PROVE  /\ computed[x] # loaded[x] /\ v[x] = computed[x]
  BY <1>13, <1>4, <1>5 DEF DirtySub
<1>14. ASSUME NEW x \in Subtask, v[x] = "SUCCESS"
       PROVE  Pending(w, x)
  <2>1. x = s /\ t.result = "SUCCESS"
    <3>1. computed[x] = "SUCCESS" /\ loaded[x] # "SUCCESS"
      BY <1>13, <1>14 DEF Clean
    <3>. QED  BY <3>1, <1>3, <1>4 DEF SubtasksAfterReport, Unlocked
  <2>. HIDE DEF w
  <2>. QED  BY <2>1, <1>9 DEF Pending
<1>15. ASSUME NEW x \in Subtask, v[x] \in {"READY", "RUNNING"},
              NEW p \in Predecessors(x)
       PROVE  WillHaveSucceeded(w, p)
  <2>1. computed[x] # loaded[x] /\ computed[x] \in {"READY", "RUNNING"}
    BY <1>13, <1>15 DEF Clean
  <2>2. CASE t.result = "SUCCESS"
    <3>1. p \in Subtask
      BY DEF Predecessors
    <3>2. computed[p] = "SUCCESS"
      <4> DEFINE after == [loaded EXCEPT ![s] = "SUCCESS"]
      <4>1. computed = Unlocked(after, s)
        BY <2>2 DEF SubtasksAfterReport
      <4>2. computed[x] # after[x]
        BY <2>1, <1>3, <1>4
      <4>3. after[p] = "SUCCESS"
        <5>. HIDE DEF after
        <5>. QED  BY <4>1, <4>2, <1>15 DEF Unlocked
      <4>. QED
        BY <4>1, <4>3, <3>1 DEF Unlocked
    <3>. QED  BY <3>1, <3>2, <1>12
  <2>3. CASE t.result # "SUCCESS"
    <3>1. x = s
      BY <2>1, <2>3, <1>3, <1>4 DEF SubtasksAfterReport
    <3>. QED  BY <3>1 DEF RecordInv, PrecedenceByRecords, WillHaveSucceeded
  <2>. QED  BY <2>2, <2>3
<1>16. ASSUME u = "SUCCESS", NEW x \in Subtask PROVE WillHaveSucceeded(w, x)
  <2>1. AllSucceeded(computed)
    BY <1>16 DEF DirtyTask, TaskAfterReport, Clean
  <2>. QED  BY <2>1, <1>12 DEF AllSucceeded
<1>17. ASSUME u = "FAILED"
       PROVE  \/ t.result = "CANCELED"
              \/ t.result \in {"FAILED", "TIMEOUT"} /\ k[2] = MaxRetries[s] + 1
  <2>1. t.result # "SUCCESS" /\ ~CanRetry(s, n, t.result)
    BY <1>17 DEF DirtyTask, TaskAfterReport, Clean
  <2>. QED  BY <2>1, <1>2, <1>4 DEF CanRetry, ExecutionStatus
<1>18. WritesWithEvidence(w)
  <2>. HIDE DEF w, u, v
  <2>. QED  BY <1>9, <1>14, <1>15, <1>16, <1>17 DEF WritesWithEvidence
<1>19. TransactionOK(w)
  BY <1>11, <1>18 DEF TransactionOK
<1>20. tx' = [tx EXCEPT ![c] = w] /\ UNCHANGED rows
  BY DEF LoadForReport
<1>. HIDE DEF w
<1>. QED  BY <1>1, <1>2, <1>8, <1>9, <1>19, <1>20, PrivateStep
-----------------------------------------------------------------------------
(* The commit of generate_plan writes the task status and the plan; the    *)
(* records and subtasks are as before.                                     *)
LEMMA CommitScheduleStep ==
  ASSUME RecordInv, NEW c \in Session, CommitSchedule(c)
  PROVE  RecordInv'
<1> DEFINE w == tx[c]
<1>1. /\ w \in Transaction /\ w.op = "schedule" /\ TransactionOK(w)
      /\ UNCHANGED <<sub, retry, exec>>
      /\ tx' = [tx EXCEPT ![c] = Idle]
      /\ task' = IF w.setTask = Clean THEN task ELSE w.setTask
  BY DEF CommitSchedule, RecordInv, TypeOK
<1>2. tx' \in [Session -> Transaction] /\ \A d \in Session : tx'[d] = IF d = c THEN Idle ELSE tx[d]
  BY <1>1, IdleType DEF RecordInv, TypeOK
<1>3. \A s : Succeeded(s)' <=> Succeeded(s)
  BY <1>1 DEF Succeeded
<1>4. w.held = {} /\ \A s : ~Pending(w, s)
  BY <1>1 DEF TransactionOK, SettlesHeld, Pending
<1>5. TypeOK'
  <2>1. plan' \in Seq(Plan)
    <3>1. plan \in Seq(Plan) /\ [status |-> "GENERATED", items |-> w.items] \in Plan
      BY <1>1 DEF RecordInv, TypeOK, RowsTypeOK, Plan, PlanStatus, Transaction
    <3>. QED  BY <3>1 DEF CommitSchedule
  <2>2. task' \in TaskStatus
    BY <1>1 DEF RecordInv, TypeOK, RowsTypeOK, Transaction
  <2>. QED  BY <1>1, <1>2, <2>1, <2>2 DEF RecordInv, TypeOK, RowsTypeOK
<1>6. RetriesMatchAttempts'
  BY <1>1 DEF RecordInv, RetriesMatchAttempts
<1>7. PrecedenceByRecords' /\ ReadyHasPrecedence'
  BY <1>1, <1>3 DEF RecordInv, PrecedenceByRecords, ReadyHasPrecedence
<1>8. SuccessHasEvidence'
  BY <1>1, <1>3, <1>4
  DEF RecordInv, SuccessHasEvidence, TransactionOK, WritesWithEvidence, WillHaveSucceeded
<1>9. FailureHasEvidence'
  BY <1>1, <1>4 DEF RecordInv, FailureHasEvidence, TransactionOK, WritesWithEvidence
<1>10. LocksProtectRecords'
  BY <1>1, <1>2 DEF RecordInv, LocksProtectRecords, Running, Idle
<1>11. ASSUME NEW d \in Session PROVE TransactionOK(tx[d])'
  <2>1. TransactionOK(Idle)
    BY IdleType, NothingToCommit DEF Idle, Clean
  <2>2. TransactionOK(tx'[d])
    BY <1>2, <2>1 DEF RecordInv
  <2>. QED
    BY <2>2, <1>1, <1>3
    DEF TransactionOK, InsertsNextAttempt, ReportsNewestAttempt, SettlesHeld, GrantsRetry,
        WritesWithEvidence, WillHaveSucceeded, Pending
<1>. QED  BY <1>5, <1>6, <1>7, <1>8, <1>9, <1>10, <1>11 DEF RecordInv

(* What a commit does to the records: it opens the inserted attempts,      *)
(* which are new, and settles the locked ones, which were RUNNING.  So no  *)
(* evidence of an earlier result is ever lost.                             *)
LEMMA CommitRecords ==
  ASSUME RecordInv, NEW c \in Session, Commit(c)
  PROVE  /\ DOMAIN exec' = DOMAIN exec \cup tx[c].insert
         /\ \A k \in tx[c].insert : k \notin DOMAIN exec /\ exec'[k] = "RUNNING"
         /\ \A k \in tx[c].held :
              k \in DOMAIN exec /\ exec[k] = "RUNNING" /\ exec'[k] = tx[c].result
         /\ \A k \in DOMAIN exec \ tx[c].held : exec'[k] = exec[k]
         /\ \A s : Succeeded(s) \/ Pending(tx[c], s) => Succeeded(s)'
<1> DEFINE w == tx[c]
<1>1. /\ w.insert \cap DOMAIN exec = {}
      /\ exec' = RecordsAfter(w.insert, w.held, w.result)
  BY DEF Commit
<1>2. \A k \in w.held : k \in DOMAIN exec /\ exec[k] = "RUNNING"
  BY DEF RecordInv, LocksProtectRecords, Running
<1>3. DOMAIN exec' = DOMAIN exec \cup w.insert
  BY <1>1 DEF RecordsAfter
<1>4. \A k \in w.insert : k \notin DOMAIN exec /\ exec'[k] = "RUNNING"
  BY <1>1 DEF RecordsAfter
<1>5. \A k \in w.held : exec'[k] = w.result
  BY <1>1, <1>2 DEF RecordsAfter
<1>6. \A k \in DOMAIN exec \ w.held : exec'[k] = exec[k]
  BY <1>1 DEF RecordsAfter
<1>7. ASSUME NEW s, Succeeded(s) PROVE Succeeded(s)'
  <2>1. PICK k \in DOMAIN exec : k[1] = s /\ exec[k] = "SUCCESS"
    BY <1>7 DEF Succeeded
  <2>2. k \in DOMAIN exec' /\ exec'[k] = "SUCCESS"
    BY <2>1, <1>2, <1>3, <1>6
  <2>. QED  BY <2>1, <2>2 DEF Succeeded
<1>8. ASSUME NEW s, Pending(w, s) PROVE Succeeded(s)'
  BY <1>8, <1>2, <1>3, <1>5 DEF Pending, Succeeded
<1>. QED  BY <1>2, <1>3, <1>4, <1>5, <1>6, <1>7, <1>8

(* What a commit does to retry_count: one more for the locked attempt that *)
(* failed within the budget.                                               *)
LEMMA CommitRetries ==
  ASSUME RecordInv, NEW c \in Session, Commit(c), NEW s \in Subtask
  PROVE  /\ retry[s] \in Nat
         /\ \/ s \notin tx[c].setRetry /\ retry'[s] = retry[s]
            \/ /\ s \in tx[c].setRetry /\ retry'[s] = retry[s] + 1
               /\ retry[s] < MaxRetries[s]
               /\ <<s, retry[s] + 1>> \in tx[c].held
               /\ tx[c].result \in {"FAILED", "TIMEOUT"}
<1>1. retry[s] \in Nat /\ tx[c] \in Transaction /\ GrantsRetry(tx[c])
  BY DEF RecordInv, TypeOK, RowsTypeOK, TransactionOK
<1>2. retry'[s] = IF s \in tx[c].setRetry THEN tx[c].ownRetry + 1 ELSE retry[s]
  BY DEF Commit
<1>3. ASSUME s \in tx[c].setRetry PROVE tx[c].ownRetry = retry[s]
  <2> DEFINE k == <<s, tx[c].ownRetry + 1>>
  <2>1. k \in Running
    BY <1>1, <1>3 DEF GrantsRetry, RecordInv, LocksProtectRecords
  <2>2. k[2] = retry[k[1]] + 1
    <3>. HIDE DEF k
    <3>. QED  BY <2>1, RunningIsNewest DEF RecordInv, TypeOK
  <2>3. tx[c].ownRetry \in Nat
    BY <1>1 DEF Transaction
  <2>. QED  BY <2>2, <2>3, <1>1
<1>. QED  BY <1>1, <1>2, <1>3 DEF GrantsRetry

LEMMA CommitType ==
  ASSUME RecordInv, NEW c \in Session, Commit(c)
  PROVE  TypeOK'
<1> DEFINE w == tx[c]
<1>1. w \in Transaction /\ TypeOK /\ RowsTypeOK
  BY DEF RecordInv, TypeOK
<1>2. task' \in TaskStatus
  BY <1>1 DEF Commit, RowsTypeOK, Transaction
<1>3. sub' \in [Subtask -> SubtaskStatus]
  BY <1>1 DEF Commit, RowsTypeOK, Transaction
<1>4. retry' \in [Subtask -> Nat]
  BY <1>1 DEF Commit, RowsTypeOK, Transaction
<1>5. plan' \in Seq(Plan)
  BY <1>1, PlansAfterApplyType DEF Commit, RowsTypeOK
<1>6. DOMAIN exec' \subseteq Subtask \X Nat
  <2>1. DOMAIN exec' = DOMAIN exec \cup w.insert
    BY CommitRecords
  <2>2. w.insert \subseteq Subtask \X Nat
    BY <1>1 DEF Transaction
  <2>3. DOMAIN exec \subseteq Subtask \X Nat
    BY <1>1 DEF RowsTypeOK
  <2>. QED  BY <2>1, <2>2, <2>3
<1>7. exec' \in [DOMAIN exec' -> ExecutionStatus]
  <2>1. exec' = RecordsAfter(w.insert, w.held, w.result)
    BY DEF Commit
  <2>2. w.result \in ExecutionStatus /\ exec \in [DOMAIN exec -> ExecutionStatus]
    BY <1>1 DEF Transaction, RowsTypeOK
  <2>3. \A k \in DOMAIN exec' : exec'[k] \in ExecutionStatus
    BY <2>2, CommitRecords DEF ExecutionStatus
  <2>. QED  BY <2>1, <2>3 DEF RecordsAfter
<1>8. tx' \in [Session -> Transaction]
  BY <1>1, IdleType DEF Commit, TypeOK
<1>. QED  BY <1>2, <1>3, <1>4, <1>5, <1>6, <1>7, <1>8 DEF TypeOK, RowsTypeOK

LEMMA CommitRetriesMatch ==
  ASSUME RecordInv, NEW c \in Session, Commit(c)
  PROVE  RetriesMatchAttempts'
<1> DEFINE w == tx[c]
<1>. SUFFICES ASSUME NEW s \in Subtask
     PROVE  /\ retry'[s] <= MaxRetries[s]
            /\ \A a \in 1..retry'[s] :
                 /\ <<s, a>> \in DOMAIN exec'
                 /\ exec'[<<s, a>>] \in {"FAILED", "TIMEOUT"}
            /\ \A k \in DOMAIN exec' : k[1] = s => k[2] \in 1..retry'[s] + 1
  BY DEF RetriesMatchAttempts
<1>1. /\ retry[s] \in Nat
      /\ \/ s \notin w.setRetry /\ retry'[s] = retry[s]
         \/ /\ s \in w.setRetry /\ retry'[s] = retry[s] + 1
            /\ retry[s] < MaxRetries[s]
            /\ <<s, retry[s] + 1>> \in w.held
            /\ w.result \in {"FAILED", "TIMEOUT"}
  BY CommitRetries
<1>2. MaxRetries[s] \in Nat
  BY MaxRetriesAssumption
<1>3. retry'[s] <= MaxRetries[s]
  BY <1>1, <1>2 DEF RecordInv, RetriesMatchAttempts
<1>4. ASSUME NEW a \in 1..retry'[s]
      PROVE  <<s, a>> \in DOMAIN exec' /\ exec'[<<s, a>>] \in {"FAILED", "TIMEOUT"}
  <2>1. CASE a \in 1..retry[s]
    <3>1. <<s, a>> \in DOMAIN exec /\ exec[<<s, a>>] \in {"FAILED", "TIMEOUT"}
      BY <2>1 DEF RecordInv, RetriesMatchAttempts
    <3>. QED  BY <3>1, CommitRecords
  <2>2. CASE a \notin 1..retry[s]
    <3>1. a = retry[s] + 1 /\ <<s, a>> \in w.held /\ w.result \in {"FAILED", "TIMEOUT"}
      BY <2>2, <1>1
    <3>. QED  BY <3>1, CommitRecords
  <2>. QED  BY <2>1, <2>2
<1>5. ASSUME NEW k \in DOMAIN exec', k[1] = s
      PROVE  k[2] \in 1..retry'[s] + 1
  <2>1. k[2] \in 1..retry[s] + 1
    <3>1. k \in DOMAIN exec \/ k \in w.insert
      BY CommitRecords
    <3>. QED
      BY <3>1, <1>5 DEF RecordInv, RetriesMatchAttempts, TransactionOK, InsertsNextAttempt
  <2>. QED  BY <2>1, <1>1
<1>. QED  BY <1>3, <1>4, <1>5

LEMMA CommitEvidence ==
  ASSUME RecordInv, NEW c \in Session, Commit(c)
  PROVE  /\ PrecedenceByRecords'
         /\ ReadyHasPrecedence'
         /\ SuccessHasEvidence'
         /\ FailureHasEvidence'
<1> DEFINE w == tx[c]
<1>1. /\ WritesWithEvidence(w) /\ InsertsNextAttempt(w)
      /\ \A s : Succeeded(s) \/ Pending(w, s) => Succeeded(s)'
      /\ \A s : WillHaveSucceeded(w, s) => Succeeded(s)'
  BY CommitRecords DEF RecordInv, TransactionOK, WillHaveSucceeded
<1>2. /\ task' = IF w.setTask = Clean THEN task ELSE w.setTask
      /\ \A s \in Subtask : sub'[s] = IF w.setSub[s] = Clean THEN sub[s] ELSE w.setSub[s]
  BY DEF Commit
<1>3. PrecedenceByRecords'
  <2>. SUFFICES ASSUME NEW k \in DOMAIN exec', NEW p \in Predecessors(k[1])
                PROVE  Succeeded(p)'
    BY DEF PrecedenceByRecords
  <2>1. k \in DOMAIN exec \/ k \in w.insert
    BY CommitRecords
  <2>. QED  BY <2>1, <1>1 DEF RecordInv, PrecedenceByRecords, InsertsNextAttempt
<1>4. ReadyHasPrecedence'
  BY <1>1, <1>2 DEF RecordInv, ReadyHasPrecedence, WritesWithEvidence
<1>5. SuccessHasEvidence'
  BY <1>1, <1>2 DEF RecordInv, SuccessHasEvidence, WritesWithEvidence
<1>6. FailureHasEvidence'
  <2>. SUFFICES ASSUME task' = "FAILED"
                PROVE  \E k \in DOMAIN exec' :
                         \/ exec'[k] = "CANCELED"
                         \/ exec'[k] \in {"FAILED", "TIMEOUT"} /\ k[2] = MaxRetries[k[1]] + 1
    BY DEF FailureHasEvidence
  <2>1. CASE w.setTask = "FAILED"
    <3>1. PICK k \in w.held :
                 \/ w.result = "CANCELED"
                 \/ w.result \in {"FAILED", "TIMEOUT"} /\ k[2] = MaxRetries[k[1]] + 1
      BY <2>1, <1>1 DEF WritesWithEvidence
    <3>2. k \in DOMAIN exec' /\ exec'[k] = w.result
      BY CommitRecords
    <3>. QED  BY <3>1, <3>2
  <2>2. CASE w.setTask # "FAILED"
    <3>1. task = "FAILED"
      BY <2>2, <1>2
    <3>2. PICK k \in DOMAIN exec :
                 \/ exec[k] = "CANCELED"
                 \/ exec[k] \in {"FAILED", "TIMEOUT"} /\ k[2] = MaxRetries[k[1]] + 1
      BY <3>1 DEF RecordInv, FailureHasEvidence
    <3>3. k \in DOMAIN exec' /\ exec'[k] = exec[k]
      BY <3>2, CommitRecords
    <3>. QED  BY <3>2, <3>3
  <2>. QED  BY <2>1, <2>2
<1>. QED  BY <1>3, <1>4, <1>5, <1>6

LEMMA CommitStep ==
  ASSUME RecordInv, NEW c \in Session, Commit(c)
  PROVE  RecordInv'
<1>1. \A d \in Session : tx'[d] = IF d = c THEN Idle ELSE tx[d]
  BY DEF Commit, RecordInv, TypeOK
<1>2. LocksProtectRecords'
  <2>. SUFFICES ASSUME NEW d \in Session
                PROVE  /\ tx'[d].held \subseteq Running'
                       /\ \A e \in Session \ {d} : tx'[d].held \cap tx'[e].held = {}
    BY DEF LocksProtectRecords
  <2>1. CASE d = c
    BY <2>1, <1>1 DEF Idle
  <2>2. CASE d # c
    <3>1. tx'[d].held \subseteq Running /\ tx'[d].held \cap tx[c].held = {}
      BY <2>2, <1>1 DEF RecordInv, LocksProtectRecords
    <3>2. tx'[d].held \subseteq Running'
      BY <3>1, CommitRecords DEF Running
    <3>3. \A e \in Session \ {d} : tx'[d].held \cap tx'[e].held = {}
      BY <2>2, <1>1 DEF RecordInv, LocksProtectRecords, Idle
    <3>. QED  BY <3>2, <3>3
  <2>. QED  BY <2>1, <2>2
<1>3. ASSUME NEW d \in Session PROVE TransactionOK(tx[d])'
  <2>1. tx'[d] \in Transaction /\ TransactionOK(tx'[d])
    BY <1>1, IdleType, NothingToCommit DEF RecordInv, TypeOK, Idle, Clean
  <2>2. ASSUME NEW k \in tx'[d].insert
        PROVE  /\ k[2] \in 1..retry'[k[1]] + 1
               /\ \A p \in Predecessors(k[1]) : Succeeded(p)'
    <3>1. k[1] \in Subtask
      BY <2>1 DEF Transaction
    <3>2. k[2] \in 1..retry[k[1]] + 1 /\ \A p \in Predecessors(k[1]) : Succeeded(p)
      BY <2>1 DEF TransactionOK, InsertsNextAttempt
    <3>3. retry[k[1]] \in Nat /\ retry'[k[1]] \in {retry[k[1]], retry[k[1]] + 1}
      BY <3>1, CommitRetries
    <3>4. \A p : Succeeded(p) => Succeeded(p)'
      BY CommitRecords
    <3>. QED  BY <3>2, <3>3, <3>4
  <2>. QED
    BY <2>1, <2>2, CommitRecords
    DEF TransactionOK, InsertsNextAttempt, ReportsNewestAttempt, SettlesHeld, GrantsRetry,
        WritesWithEvidence, WillHaveSucceeded, Pending
<1>. QED
  BY <1>2, <1>3, CommitType, CommitRetriesMatch, CommitEvidence DEF RecordInv
-----------------------------------------------------------------------------
LEMMA InitInv == Init => RecordInv
<1>. SUFFICES ASSUME Init PROVE RecordInv
  OBVIOUS
<1>. USE DEF Init, RowsInit
<1>1. TypeOK
  BY IdleType DEF TypeOK, RowsTypeOK, TaskStatus, SubtaskStatus, InitialSubtask
<1>2. RetriesMatchAttempts
  BY MaxRetriesAssumption DEF RetriesMatchAttempts
<1>3. PrecedenceByRecords /\ FailureHasEvidence
  BY DEF PrecedenceByRecords, FailureHasEvidence
<1>4. SuccessHasEvidence
  BY DEF SuccessHasEvidence, InitialSubtask
<1>5. LocksProtectRecords
  BY DEF LocksProtectRecords, Idle
<1>6. ReadyHasPrecedence
  BY DEF ReadyHasPrecedence, InitialSubtask
<1>7. TransactionOK(Idle)
  BY IdleType, NothingToCommit DEF Idle, Clean
<1>. QED  BY <1>1, <1>2, <1>3, <1>4, <1>5, <1>6, <1>7 DEF RecordInv

LEMMA StepInv == RecordInv /\ [Next]_vars => RecordInv'
<1>. SUFFICES ASSUME RecordInv, [Next]_vars PROVE RecordInv'
  OBVIOUS
<1>1. CASE Next
  <2>1. PICK c \in Session :
          \/ BeginSchedule(c) \/ LoadForSchedule(c) \/ CommitSchedule(c)
          \/ BeginStart(c) \/ \E p \in DOMAIN plan : LoadForStart(c, p)
          \/ \E k \in DOMAIN exec, result \in Result : LockRecord(c, k, result)
          \/ \E k \in DOMAIN exec : LoadForReport(c, k)
          \/ BeginCancel(c) \/ ScanRunning(c) \/ ReloadForCancel(c)
          \/ \E k \in DOMAIN exec : LockScanned(c, k)
          \/ Commit(c)
          \/ Rollback(c)
    BY <1>1 DEF Next
  <2>. QED
    BY <2>1, BeginScheduleStep, LoadForScheduleStep, CommitScheduleStep,
       BeginStartStep, LoadForStartStep, LockRecordStep, LoadForReportStep,
       BeginCancelStep, ScanRunningStep, ReloadForCancelStep, LockScannedStep,
       CommitStep, RollbackStep
<1>2. CASE UNCHANGED vars
  <2>. USE <1>2 DEF vars
  <2>1. TypeOK' /\ RetriesMatchAttempts' /\ FailureHasEvidence' /\ LocksProtectRecords'
    BY DEF RecordInv, TypeOK, RowsTypeOK, RetriesMatchAttempts, FailureHasEvidence,
           LocksProtectRecords, Running
  <2>2. \A s : Succeeded(s)' <=> Succeeded(s)
    BY DEF Succeeded
  <2>3. PrecedenceByRecords' /\ SuccessHasEvidence' /\ ReadyHasPrecedence'
    BY <2>2 DEF RecordInv, PrecedenceByRecords, SuccessHasEvidence, ReadyHasPrecedence
  <2>4. \A c \in Session : TransactionOK(tx[c])'
    BY <2>2
    DEF RecordInv, TransactionOK, InsertsNextAttempt, ReportsNewestAttempt, SettlesHeld,
        GrantsRetry, WritesWithEvidence, WillHaveSucceeded, Pending
  <2>. QED  BY <2>1, <2>3, <2>4 DEF RecordInv
<1>. QED  BY <1>1, <1>2

(* The invariant holds in every reachable state: whatever a transaction    *)
(* loaded, its commit keeps the execution records in order.                *)
THEOREM Invariance == Spec => []RecordInv
BY InitInv, StepInv, PTL DEF Spec

(* Every row and every transaction keeps its type. *)
THEOREM TypeCorrect == Spec => []TypeOK
<1>1. RecordInv => TypeOK
  BY DEF RecordInv
<1>. QED  BY <1>1, Invariance, PTL

(* A subtask is never executed twice at the same time. *)
THEOREM NoConcurrentAttempts == Spec => []OneOpenAttempt
<1>1. ASSUME RecordInv PROVE OneOpenAttempt
  <2>. SUFFICES ASSUME NEW j \in Running, NEW k \in Running, j[1] = k[1]
                PROVE  j = k
    BY DEF OneOpenAttempt
  <2>1. /\ j = <<j[1], j[2]>> /\ j[2] = retry[j[1]] + 1
        /\ k = <<k[1], k[2]>> /\ k[2] = retry[k[1]] + 1
    BY <1>1, RunningIsNewest DEF RecordInv, TypeOK
  <2>. QED  BY <2>1
<1>. QED  BY <1>1, Invariance, PTL

(* The attempts of a subtask are numbered without gaps, retry_count counts *)
(* the failed ones that were granted a retry, and never exceeds its budget.*)
THEOREM AttemptsAreCounted == Spec => []RetriesMatchAttempts
<1>1. RecordInv => RetriesMatchAttempts
  BY DEF RecordInv
<1>. QED  BY <1>1, Invariance, PTL

(* No subtask is executed before its predecessors have succeeded. *)
THEOREM PrecedenceRespected == Spec => []PrecedenceByRecords
<1>1. RecordInv => PrecedenceByRecords
  BY DEF RecordInv
<1>. QED  BY <1>1, Invariance, PTL

(* SUCCESS of a task or subtask is written only on the evidence of         *)
(* successful records.                                                     *)
THEOREM SuccessIsEvident == Spec => []SuccessHasEvidence
<1>1. RecordInv => SuccessHasEvidence
  BY DEF RecordInv
<1>. QED  BY <1>1, Invariance, PTL

(* FAILED of a task is written only on the evidence of a record that could *)
(* not be retried.                                                         *)
THEOREM FailureIsEvident == Spec => []FailureHasEvidence
<1>1. RecordInv => FailureHasEvidence
  BY DEF RecordInv
<1>. QED  BY <1>1, Invariance, PTL

(* A locked record is RUNNING and locked by one transaction only. *)
THEOREM LocksExclude == Spec => []LocksProtectRecords
<1>1. RecordInv => LocksProtectRecords
  BY DEF RecordInv
<1>. QED  BY <1>1, Invariance, PTL

(* The only handlers that commit records open attempts (a start) or settle *)
(* them (a report one, a cancellation those it locked).                    *)
LEMMA OnlyCommitWritesRecords ==
  ASSUME RecordInv, [Next]_vars, ~UNCHANGED exec
  PROVE  \E c \in Session : Commit(c)
BY ZenonT(60)
DEF vars, rows, Next, BeginSchedule, LoadForSchedule, CommitSchedule, BeginStart,
    LoadForStart, LockRecord, LoadForReport, BeginCancel, ScanRunning,
    ReloadForCancel, LockScanned, Rollback

(* A record that has been settled keeps its status for ever: no duplicate, *)
(* late or concurrent result and no cancellation overwrites it.            *)
THEOREM RecordsSettleOnce == Spec => SettledOnce
<1>1. RecordInv /\ [Next]_vars =>
        [\A k \in DOMAIN exec :
           /\ k \in DOMAIN exec'
           /\ exec[k] # "RUNNING" => exec'[k] = exec[k]]_rows
  <2>. SUFFICES ASSUME RecordInv, [Next]_vars, rows' # rows, NEW k \in DOMAIN exec
                PROVE  /\ k \in DOMAIN exec'
                       /\ exec[k] # "RUNNING" => exec'[k] = exec[k]
    OBVIOUS
  <2>1. UNCHANGED exec \/ \E c \in Session : Commit(c)
    BY OnlyCommitWritesRecords
  <2>2. CASE UNCHANGED exec
    BY <2>2
  <2>3. ASSUME NEW c \in Session, Commit(c)
        PROVE  /\ k \in DOMAIN exec'
               /\ exec[k] # "RUNNING" => exec'[k] = exec[k]
    BY <2>3, CommitRecords
  <2>. QED  BY <2>1, <2>2, <2>3
<1>. QED  BY <1>1, Invariance, PTL DEF Spec, SettledOnce
-----------------------------------------------------------------------------
(* The attempts a start inserts are attempts the ledger may open. *)
LEMMA InsertedAreOpenable ==
  ASSUME RecordInv, NEW c \in Session, Commit(c), NEW k \in tx[c].insert
  PROVE  k \in Ledger!Attempt /\ Ledger!Openable(k)
<1> DEFINE s == k[1]
<1>1. /\ k \in Subtask \X Nat /\ s \in Subtask /\ k[2] \in Nat /\ k = <<s, k[2]>>
      /\ retry[s] \in Nat /\ MaxRetries[s] \in Nat
  BY MaxRetriesAssumption DEF RecordInv, TypeOK, RowsTypeOK, Transaction
<1>2. /\ k[2] \in 1..retry[s] + 1
      /\ \A p \in Predecessors(s) : Succeeded(p)
  BY DEF RecordInv, TransactionOK, InsertsNextAttempt
<1>3. retry[s] <= MaxRetries[s]
  BY <1>1 DEF RecordInv, RetriesMatchAttempts
<1>4. k \in Ledger!Attempt
  <2>1. k[2] \in 1..MaxRetries[s] + 1
    BY <1>1, <1>2, <1>3
  <2>2. k \in {s} \X (1..MaxRetries[s] + 1)
    BY <2>1, <1>1
  <2>. QED  BY <2>2, <1>1 DEF Ledger!Attempt
<1>5. k \notin DOMAIN exec
  BY CommitRecords
<1>6. ASSUME NEW a \in 1..k[2] - 1
      PROVE  <<s, a>> \in DOMAIN exec /\ exec[<<s, a>>] \in {"FAILED", "TIMEOUT"}
  <2>1. a \in 1..retry[s]
    BY <1>1, <1>2
  <2>. QED  BY <2>1, <1>1 DEF RecordInv, RetriesMatchAttempts
<1>7. \A p \in Ledger!Predecessors(s) : Ledger!HasSucceeded(p)
  BY <1>2 DEF Ledger!Predecessors, Predecessors, Ledger!HasSucceeded, Succeeded
<1>. QED  BY <1>4, <1>5, <1>6, <1>7 DEF Ledger!Openable

LEMMA CommitStepsLedger ==
  ASSUME RecordInv, NEW c \in Session, Commit(c)
  PROVE  [Ledger!LedgerNext]_exec
<1> DEFINE w == tx[c]
<1>1. SettlesHeld(w) /\ ReportsNewestAttempt(w) /\ w.held \subseteq DOMAIN exec
  BY CommitRecords DEF RecordInv, TransactionOK
<1>2. exec' = RecordsAfter(w.insert, w.held, w.result)
  BY DEF Commit
<1>3. CASE w.insert # {}
  <2>1. w.held = {}
    BY <1>1, <1>3 DEF SettlesHeld
  <2>2. exec' = [k \in DOMAIN exec \cup w.insert |->
                   IF k \in w.insert THEN "RUNNING" ELSE exec[k]]
    BY <1>2, <2>1 DEF RecordsAfter
  <2>3. Ledger!Open(w.insert) /\ w.insert \in SUBSET Ledger!Attempt
    BY <2>2, InsertedAreOpenable DEF Ledger!Open
  <2>. QED  BY <2>3 DEF Ledger!LedgerNext
<1>4. CASE w.insert = {}
  <2>1. exec' = [k \in DOMAIN exec |-> IF k \in w.held THEN w.result ELSE exec[k]]
    BY <1>2, <1>4 DEF RecordsAfter
  <2>2. Ledger!Settle(w.held, w.result)
    BY <2>1, CommitRecords DEF Ledger!Settle
  <2>3. CASE w.op = "report"
    <3>1. PICK k \in w.held : w.held = {k} /\ w.result \in Result
      BY <2>3, <1>1 DEF ReportsNewestAttempt
    <3>2. k \in DOMAIN exec /\ Ledger!Settle({k}, w.result)
      BY <3>1, <2>2, <1>1
    <3>. QED  BY <3>1, <3>2 DEF Ledger!LedgerNext
  <2>4. CASE w.op # "report" /\ w.held # {}
    <3>1. w.result = "CANCELED"
      BY <2>4, <1>1 DEF SettlesHeld
    <3>. QED  BY <3>1, <2>2, <1>1 DEF Ledger!LedgerNext
  <2>5. CASE w.held = {}
    <3>1. exec = [k \in DOMAIN exec |-> exec[k]]
      BY DEF RecordInv, TypeOK, RowsTypeOK
    <3>. QED  BY <3>1, <2>1, <2>5
  <2>. QED  BY <2>3, <2>4, <2>5
<1>. QED  BY <1>3, <1>4

(* The handlers implement the ledger of attempts, under every interleaving *)
(* of their transactions.                                                  *)
THEOREM TransactionsImplementLedger == Spec => ImplementsLedger
<1>1. Init => Ledger!LedgerInit
  BY DEF Init, RowsInit, Ledger!LedgerInit
<1>2. RecordInv /\ [Next]_vars => [Ledger!LedgerNext]_exec
  <2>. SUFFICES ASSUME RecordInv, [Next]_vars, ~UNCHANGED exec
                PROVE  [Ledger!LedgerNext]_exec
    OBVIOUS
  <2>1. PICK c \in Session : Commit(c)
    BY OnlyCommitWritesRecords
  <2>. QED  BY <2>1, CommitStepsLedger
<1>. QED  BY <1>1, <1>2, Invariance, PTL DEF Spec, ImplementsLedger, Ledger!LedgerSpec
=============================================================================
