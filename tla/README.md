# A TLA+ verification of the UAV DAG offload platform

The platform takes a task, a directed acyclic graph of subtasks, plans its
READY subtasks onto nodes, executes them through Celery workers and folds their
results back into the status of the subtasks and of the task. This directory
models that core in TLA+, checks it with TLC and proves with TLAPS what must
hold for any graph, any retry budget and any number of overlapping requests.

Paths below are relative to the repository (`app/...`, `docs/...`).

## 1. Inventory

| Component | State | Operations | Talks to |
|---|---|---|---|
| State machine (`app/domain/state_machine.py`, `enums.py`) | none | `can_transition`, `ensure_transition_allowed` | called by every service guard |
| DAG validation (`app/domain/dag.py`) | none | `validate_dag` | called by `create_task` |
| Task service (`app/services/task_service.py`) | `dag_tasks`, `dag_subtasks`, `dag_subtask_dependencies` | `create_task`, `cancel_task`, reads | locks `execution_records`; asks Celery to revoke |
| Scheduling service (`app/services/scheduling_service.py`, `app/scheduler/`) | `schedule_plans`, `schedule_plan_items`; writes the task status | `generate_plan`, `compare_strategies` (read only) | nodes and node status records; the strategies |
| Execution service (`app/services/execution_service.py`) | `execution_records`; writes task, subtasks, plan | `start_execution`, `report_result`, `record_celery_task_ids` | called by the API and by the worker |
| Dispatcher and revoker (`execution_dispatcher.py`, `execution_revoker.py`) | none; messages in RabbitMQ | `enqueue_started_executions`, `revoke` | after the commit of `start_execution`; inside `cancel_task` |
| Worker (`app/worker/tasks.py`, `celery_app.py`) | one message at a time | `execute_subtask`: heartbeat, cancel checks, report, retry, alert | reads and writes the database, acknowledges late |
| Worker heartbeats and alerts | `worker_heartbeats`, `worker_alerts` | upsert, insert, counts | written by the worker, read by monitoring |
| Node registry (`node_service.py`) | `nodes`, `node_status_records` | register, report status | read by the schedulers |
| Dead letter queue (`dead_letter_queue_service.py`, `dead_letter_flow_verifier.py`) | RabbitMQ queues | peek, probe | RabbitMQ management API |
| Metrics, monitoring (`metrics_service.py`, `monitoring_service.py`, `queue_monitoring_service.py`) | none | aggregate and render | reads everything |
| API endpoints and schemas (`app/api`, `app/schemas`) | none | validate, call a service, commit | FastAPI thread pool: the source of the concurrency |

What makes each of them correct, and what is hard about it:

* **Life cycle of a task** (services above). Many requests and workers act on
  the same rows at the same time. Every handler is one READ COMMITTED
  transaction that reads without locks, except for the record rows that
  `report_result` and `cancel_task` lock, and writes back columns computed from
  what it read. It is correct when a subtask is executed once at a time, after
  its predecessors, within its retry budget; when a result counts once; when
  SUCCESS and FAILED rest on results; and when the task ends exactly when its
  subtasks have.
* **Delivery** (dispatcher, broker, worker, revoker). The enqueue is after the
  commit, the acknowledgement after the report, the revocation before the
  commit. Processes die and calls fail between any two of these steps. It is
  correct when no execution is silently lost and none is counted twice.
* **Choice of nodes** (schedulers, estimation, node registry). Registrations of
  one name race, status reports overlap and arrive out of order, planning reads
  nodes and records at different moments, and estimates meet missing, zero and
  extreme inputs. It is correct when a name has one row, a plan rests on the
  latest reports, does not depend on the order of rows, and is the cheapest.
* **Heartbeats.** The processes of a worker share one row and update it in
  overlapping transactions that may fail. It is correct when a worker at rest
  does not look busy.
* **Dead letters.** A verification script and the API read the queue at the same
  time, over requests that fail or are executed late. It is correct when reading
  loses nothing and the verdict of the script can be trusted.
* **Metrics.** Counts of one answer are read one after the other while handlers
  commit. They are correct when they explain each other.

`PROJECT.json` lists every hazard found in the code at its line, with the
properties that cover it.

## 2. Plan

| Order | Module | Content | State |
|---|---|---|---|
| 1 | `StateMachine`, `TaskOperations` | transition table; guards and computations of the handlers as pure operators | done |
| 2 | `TaskDatabase`, `TaskLifecycle`, `TaskLifecycleProofs` | rows of a task, properties over them; handlers as atomic steps; proofs | done |
| 3 | `ExecutionLedger` | abstract specification of the execution records | done |
| 4 | `TaskTransactions`, `RecordInvariant`, `TaskTransactionsProofs` | handlers as overlapping transactions; inductive invariant; proofs | done |
| 5 | `WorkerDelivery`, `WorkerDeliveryProofs` | dispatch, queue, late acknowledgement, redelivery, retry with budget, cancel checks, revocation; liveness under worker fairness; proofs of its safety | done |
| 6 | `DagValidation`, `DagValidationProofs` | Kahn's algorithm with its queue and counters against the definition of a cycle; its loop invariant proved | done |
| 7 | `WorkerHeartbeats`, `WorkerHeartbeatsProofs` | the shared heartbeat row: upsert race, partial updates, lost reports, crashes, counts; proofs | done |
| 8 | `DeadLetterFlow`, `DeadLetterFlowProofs` | topology, dead lettering, the verification script request by request, peeks; proofs | done |
| 9 | `TaskMetrics`, `TaskMetricsProofs` | the task metrics beside the concurrent handlers; one session alone implements the serial life cycle; proofs | done |
| 10 | `SchedulerStrategies`, `NodeRegistry`, `SchedulePlanning`, `SchedulePlanningProofs` | strategies and estimates as operators; registration and status reports; planning and comparison over the live registry; proofs | done |

Abstract specifications worth stating: the ledger of attempts (done), the
serial life cycle (done), "at least once until settled" for the delivery.
Every invariant and action property that a run checks has a theorem; what is
left to TLC is liveness.

## 3. Modules and the code

`TaskDatabase` has the columns that carry the life cycle as variables:

| Variable | Column |
|---|---|
| `task` | `dag_tasks.status` |
| `sub`, `retry` | `dag_subtasks.status`, `.retry_count` |
| `plan` | `schedule_plans.status` with its items, in order of creation |
| `exec` | `execution_records.status`, keyed by the unique key `(subtask_id, attempt)` |

Statuses are strings, as they are in the program. `StrEnum` members of different
classes with the same name are the same dictionary key, so
`AllowedTransitions` has the entries the program really looks up: `RUNNING` has
the one of executions, `FAILED` the one of subtasks.

`TaskOperations` translates guards and computed columns. Two compositions use it:

* `TaskLifecycle`: each service method is one step on the rows. One action per
  operation: `Schedule` (`generate_plan`), `Start` (`start_execution`), `Report`
  (`report_result`), `Cancel` (`cancel_task`). `RowsInit` is what `create_task`
  commits.
* `TaskTransactions`: each session runs a handler statement by statement.
  `tx[c]` holds what it has loaded and computed.

  | Handler | Steps |
  |---|---|
  | `generate_plan` | `BeginSchedule` (task row), `LoadForSchedule` (subtasks; strategies), `CommitSchedule` |
  | `start_execution` | `BeginStart` (task row), `LoadForStart` (subtasks and plan), `Commit` |
  | `report_result` | `LockRecord` (record FOR UPDATE, with its subtask and task), `LoadForReport` (all subtasks), `Commit` |
  | `cancel_task` | `BeginCancel` (task row), `ScanRunning` (the statement's snapshot), `LockScanned` (row by row, re-checked once locked), `ReloadForCancel` (subtasks after `expire`), `Commit` |

  `Rollback` may come at any point: a refused transition, the unique key, the
  deadlock detector, a lost process or connection.

`ExecutionLedger` is the abstract specification: attempts are opened in order,
when their predecessors have succeeded and the earlier attempts have failed, and
are settled once. `Ledger == INSTANCE ExecutionLedger WITH ledger <- exec` in
`TaskDatabase` is the refinement mapping.

`WorkerDelivery` follows the records of one `execute_task` call from its commit
to their results. Its steps are those after which a process may die:

| Code | Actions |
|---|---|
| `execute_task` after its first commit | `Enqueue` (one message per record), `RecordIds` (second commit), `ApiFails` |
| `execute_subtask` | `Receive`, `EndWork` (the cancel checks and the sleep), `Report` or `ReportRefused`, `DatabaseFails`, then `Retry`, `RetryUnsent` or `GiveUp`, `Acknowledge` |
| Celery and RabbitMQ (external) | `Discard`, `Crash`, `Disconnect`, `Hear` |
| `cancel_task` | `LockRunning`, `Revoke` (sent before the commit), `CommitCancel`, `RollbackCancel` |

A report is one step there: the record's row lock and `TaskTransactions` justify
it. A report, and the commit of the Celery ids, wait while the cancellation
holds the rows. `Report` may commit and still look like a failure to the
worker. Celery and RabbitMQ are modelled from the configuration in
`celery_app.py` (`task_acks_late`, `task_reject_on_worker_lost`, the dead letter
exchange, `revoke(terminate=False)`): an unacknowledged message is delivered
again when its worker or connection is lost, a revoked message is dropped when
a worker that heard of the revocation receives it, and a message whose retry
cannot be published is rejected.
Backoff times, heartbeats and the audit rows of revocations steer nothing and
are left out, and so are results that a client posts beside the worker's, which
`TaskTransactions` has.

`DagValidation` is `validate_dag` with its variables: `incoming`
(`incoming_count`), `queue`, `current`, `visited` (`visited_count`), and `next`,
the position in the list of dependencies of the next edge of `current`. `Refuse`
is the checks before the graph is built, `SetUp` the counters and the first
queue, `Pick`, `Visit` and `Leave` the two loops, `Finish` the comparison at the
end. The lists keep their repetitions: a dependency listed twice counts twice.
The order of the first queue is left open. A self-contained module, it justifies
`AcyclicAssumption` of `TaskOperations`: `create_task` stores only what
`validate_dag` accepts. It stores no dependency twice, for the unique key
`uq_dag_dependencies_task_edge` then refuses what `validate_dag` let pass, with an
IntegrityError and a rollback; so the stored dependencies are the set `Dep`.

`WorkerHeartbeats` follows `execute_subtask` as far as its heartbeats go. A
process takes a message (`Take`), reports BUSY, works, ends (`EndWork`, the
`finally` clause) and reports ONLINE. A report is `Load` (the clock and the
`SELECT` of `upsert_heartbeat`) and `Save` (flush and commit), or `Fail`: the
unique name, or any other exception, which is logged. `loaded` keeps the columns
that the unit of work compares with; it writes those that differ. `Crash` is a
killed process. `Grow` lets time stamps pass the timeout. `CountTotal`,
`CountSeenSince` and `CountByStatus` are the statements of `load_snapshot`.

`DeadLetterFlow` has the broker's side (`main`, `topology`, `dead`, ...), the
worker that declares the topology and rejects messages, and any number of runs
of `scripts/verify_dlq_flow.py`. `Following` is the order of the script's
requests; each is `Answered`, `Refused`, or fails (`RequestFails`): not sent,
executed with its answer lost, or executed only later (`ExecutedLate`). `Raises`
is the `except` and `finally` of `verify_probe_flow`. `Poll` and `PollEnds` are
the two ends of a `get` with `ack_requeue_true`, which holds the messages in
between; `Peek` is the one of the API. That a poll gives up only once its message
has arrived is a timing assumption: RabbitMQ moves a message in less than the
script's ten seconds. RabbitMQ itself is external.

`TaskMetrics` adds `get_task_metrics` to `TaskTransactions`: four statements
(`Statement`), each on what is committed by then. Of the counts of subtasks it
keeps the succeeded ones; rates and durations are quotients and sums of what it has.
`Serial == INSTANCE TaskLifecycle` says what one session alone implements.

`NodeRegistry` has the rows of `nodes` and their records. A registration is
`LookUpName` and `Insert`, a status report `LoadNode` and `Save`; `Updated` is
what the unit of work writes. Capacities are rounded as the column does it, and
the table's CHECK refuses one that rounds to zero (`CapacityPositive`).
`SchedulerStrategies` translates estimates and strategies into exact integers: a
score is a number of 1/50000, so that the comparisons are those of the code
without its floating point error. Weights are integers: the infinite, NaN or
overflowing ones that `float_option` would let pass are outside the model.
`SchedulePlanning` composes the two:
`ListNodes` and one `ReadRecord` per node are `_load_node_snapshots`, then
`Generate` or `Compare` runs the strategies. What becomes of a plan is the
matter of `TaskOperations`. `random_offload` may choose any candidate: a seed
fixes positions in a list whose order the database does not fix. `known` is a
history variable, for the property only.

`TaskClaims` has sentences of the design documents that the code does not
follow. Operators with the comment "(mutant: ...)" are plausible bugs; the runs
find each of them, and no specification uses them.

### Abstractions

* **One task.** Every query of the handlers is restricted to a task id, and a plan
  of another task is refused, so tasks do not interact through these rows.
* **Refused calls** change nothing. In `TaskLifecycle` they are stuttering, in
  `TaskTransactions` rollbacks. A report on a settled record (`accepted=False`)
  changes nothing either.
* **Writing at the commit.** The session does not flush before queries
  (autoflush is off). The unit of work updates the columns that differ from what
  was loaded, by id, and the row locks of those updates last until the commit, so no other
  transaction can write in between and no other one sees the values before
  (READ COMMITTED). One atomic step at the commit has the same outcomes. The insert of
  a revoke event flushes `cancel_task` early; the locks last to the commit all the same.
* **Reads.** The first read of the task row is apart from all others, since staleness
  between them matters. Reads after it are one step: a plan's items never
  change, its id is known to a client only after its commit, and torn reads of
  subtask and plan only add refusals.
* **Identity map.** It holds rows weakly: once `cancel_task` expires
  `task.subtasks`, nothing refers to subtasks loaded earlier and they are
  loaded anew.
* **Celery ids, timestamps, reasons, durations, estimates and node ids** do not
  influence the life cycle and are left out.

## 4. Runs

A task may really stop, and so may deliveries, so deadlock is not checked
(`CHECK_DEADLOCK FALSE`). It is checked in `metrics_alone`,
`heartbeats` and `planning`, where a reader can always ask again. Only `WorkerDelivery` assumes fairness: weak fairness
of the request that enqueues, of the cancellation once it has its locks, and of
each worker process, which takes the next message and runs its handler to the
end (a Celery worker loop does; retry countdowns are finite). Nothing obliges a
client to cancel, a worker to hear a broadcast, or a fault to happen.
`SYMMETRY` on sessions is used with safety properties only.

| Run | Question | Bounds |
|---|---|---|
| `lifecycle_diamond` | Without overlap, are the rows consistent? Joins open, the task succeeds exactly when its subtasks do, a RUNNING subtask has a RUNNING record, a canceled task is quiet, a task that has not ended can go on, terminal statuses stay | fork and join of four, one retry, all results, 6 plans |
| `transactions_join` | Which of it survives any interleaving? Records in order, evidence for SUCCESS and FAILED, locks exclusive, results count once, the ledger is implemented, `RecordInv` holds | join of three, one retry, two sessions, 4 plans |
| `metrics_alone` | Do the counts of one answer explain each other? Do the transactions of one session implement the serial life cycle? | one session beside the metrics, join of three, one retry, 4 plans |
| `delivery_redelivered` | With crashes, redelivery, retries and a cancellation, is anything lost silently or counted twice, can a worker's CANCELED be accepted, is everything enqueued settled in the end? | one execution, two workers, one retry, two faults |
| `delivery_batch` | Is `DeliveryInv` an invariant, also when the API fails between two enqueues? | two executions, one worker, one retry, two faults |
| `dag_small` | Does `validate_dag` accept exactly the graphs without a cycle, and is its loop invariant right? | every list of up to four dependencies of three subtasks, and of up to two for no, one, a repeated and a missing subtask |
| `heartbeats` | Can a worker at rest look busy? Is a BUSY row owed a report? Do the counts fit together? | a worker of two processes and one of one, one execution id |
| `dead_letters` | Does reading lose messages, is the probe found, is its queue removed, does exit code 0 mean that rejected work is kept? | two runs, two rejected messages, windows of 2 and 1, two failed requests |
| `planning` | Are names unique, capacities positive and rows explained? Do plans rest on the latest reports, independent of row order? Is GREEDY cheapest, do comparisons agree? | four registrations with three names, two overlapping reports, three subtasks, two weights |
| `lifecycle_every_result_settles` | docs/07:376, a reported failure moves a RUNNING subtask to FAILED: violated once the task is FAILED | |
| `transactions_all_succeeded` | docs/07:141, all subtasks succeeded ends the task: violated by two concurrent last results | |
| `transactions_canceled_quiet` | docs/07:254-255, a canceled task has nothing running: violated by a start that overlaps the cancellation | |

Why the bounds are enough: the diamond has every shape the unlock logic tells
apart (no, one and two predecessors; one and two successors). Every handler
touches a task in one transaction, and the lost updates and missed
unlocks are races of two, so two sessions show them; the proof covers more. One retry makes attempts 1 and 2 and a used-up budget; subtasks
without a retry have a zero budget. `MaxPlans` bounds only `generate_plan`. In
`lifecycle_diamond` six plans are enough for the five starts the graph needs
at most; fewer plans in the concurrent runs still allow a retry and a competing
plan. `transactions_join` leaves out TIMEOUT, which the code treats as FAILED
everywhere (`_can_retry_subtask`); the other runs keep it.

A fault of `WorkerDelivery` is a crash, a lost connection, a lost request or a
rollback; two of them allow a redelivery of a redelivered message, and a
rollback after a revocation with a crash. Database errors are not counted: they may
come at every attempt, and only the retry budget ends them. Messages of
different executions meet only in the batch of the API and in the cancellation,
which `delivery_batch` has.

Three subtasks and four dependencies make every cycle of one, two and three
subtasks, acyclic graphs beside a cycle, and repeated dependencies on and off a cycle;
the proof covers larger requests.

Two processes behind one row make every race of the upsert; the third shows that
the counts add up over workers. An execution id is only compared with the loaded
one, and none, so one is enough. In `dead_letters` four messages can be
in front of each other in a window of two, so that a probe is buried by work, by
another probe, and found; two failures let a declaration be executed after
the deletion that failed too. In `planning` two reports overlap on one node,
arrive in the wrong order, or meet two nodes; one has full cpu usage, one no
bandwidth, two the same time; a name is registered twice, and one
capacity rounds to zero; the subtasks have no input, an input, and each constraint;
a weight of zero ties a UAV with an EDGE node, which only names tell apart.

### What the violations show

Handlers that do not overlap keep the documented rules, with the exceptions of
`lifecycle_every_result_settles` and of docs/07:344, one APPLIED plan at a time,
of which the code has no trace. Overlapping ones do not: reads of the task and
subtasks take no locks. Two successes reported at the same time miss each other,
so the task stays RUNNING with nothing left to run
(`transactions_all_succeeded`). A start that overlaps a cancellation leaves work
under a canceled task (`transactions_canceled_quiet`).

The same two causes, unlocked reads and blind writes, break further rules that
hold serially. TLC refutes each of them when its name replaces the property in the
cfg of `transactions_canceled_quiet`; no run is kept for them, since they show no
other cause:

* `JoinUnlocked` (docs/07:394-395): two predecessors succeed at the same time, each
  report finds the other subtask RUNNING, and the join stays WAITING.
* `TerminalTaskStays` (docs/07:65) and `TaskMovesLegally`: a plan that was loaded
  before a cancellation commits SCHEDULED over CANCELED.
* `TerminalSubtaskStays` (docs/07:65): a start commits RUNNING over CANCELED, or
  a subtask that was started and has succeeded since `cancel_task` loaded it ends
  as CANCELED, with a SUCCESS record.
* `RunningHasRecord` and `CanProgress` fail with them.

What never breaks, even with overlap, is the ledger of attempts: the unique key
and the record locks are enough for it.

### What the delivery guarantees

An execution whose record is RUNNING is in a message or with a worker, or it was
never enqueued, or its loss is on record: a Celery task in FAILURE, a
discarded one, or a message in the dead letter queue. `RunningIsBacked` names
these ways out because the code has them: no process takes up a record again that
the API did not get to enqueue, whose retries are used up (the alert of
that needs the same database that failed), whose message was discarded
for a cancellation that rolled back, or whose message is in the dead letter
queue. docs/09_learning_notes.md:1734 and :1872 name the missing outbox.

### What planning, heartbeats and dead letters guarantee

A node's row may show the heartbeat of one report and the status of another,
since each report writes only what differs from what it loaded, and an old
report that arrives late turns a BUSY node ONLINE; `RegistryInv` is what is left.
Plans read the records by `reported_at` and are not misled by late ones
(`FreshAsListed`), but the list of candidates goes by the row's status. Nothing sets
a silent node OFFLINE, and `start_execution` does not look at nodes again.

`QuietWorkerIsOnline` excepts a process whose last ONLINE was lost or that was
killed: its row stays BUSY until another process of that name reports.

`FoundUnlessBuried` says when the script finds its probe: exactly when it is among the first
50 messages (`Window`). Each run leaves its probe in the queue
(docs/09_learning_notes.md:2298), so after 50 runs, or 50 dead letters, a healthy
flow is reported as broken. The `dlq_message_count` it prints adds the messages
read to RabbitMQ's `message_count`, which is not checked here.

## 5. Proofs

`TaskTransactionsProofs` proves, for every graph, budget, set of sessions and
number of plans, from the named assumptions `DepAssumption`,
`AcyclicAssumption`, `NonEmptyAssumption`, `MaxRetriesAssumption`,
`ResultAssumption` and `MaxPlansAssumption`:

| Theorem | Property |
|---|---|
| `Invariance` | `RecordInv`, the inductive invariant |
| `TypeCorrect` | `TypeOK` |
| `NoConcurrentAttempts` | `OneOpenAttempt` |
| `AttemptsAreCounted` | `RetriesMatchAttempts` |
| `PrecedenceRespected` | `PrecedenceByRecords` |
| `SuccessIsEvident` | `SuccessHasEvidence` |
| `FailureIsEvident` | `FailureHasEvidence` |
| `LocksExclude` | `LocksProtectRecords` |
| `RecordsSettleOnce` | `SettledOnce` |
| `TransactionsImplementLedger` | `ImplementsLedger` |

The properties of the rows are not inductive: a commit writes what the
transaction computed earlier. `RecordInv` adds what a transaction under way may
commit (`TransactionOK`): it inserts at most the next attempt of subtasks whose
predecessors have succeeded; a report speaks of the one record it has locked,
which is the newest attempt of its subtask, so that nobody else can
move its `retry_count`; a retry is granted only to that attempt, after a
failure, within the budget; dirty statuses rest on records that exist or are
settled by the same commit.

The proof has two parts. A step that changes only `tx` keeps the rows and the
other transactions' obligations (lemma `PrivateStep`), so it remains to
show that the new transaction is in order. A commit may disturb the others: `Commit` is split into
records, retries and statuses, and the obligations of the other sessions
survive because successes are never taken back, retries only grow
together with the attempt that failed, and a held record is held by one. The
refinement follows from the same invariant: a commit either opens attempts,
settles the held records, or leaves the ledger alone.

`WorkerDeliveryProofs` proves the safety of the delivery for every set of
executions and workers and every number of retries and faults, from the
assumptions that `WorkerDelivery` names:

| Theorem | Property |
|---|---|
| `DeliveryInvariance` | `DeliveryInv`, the inductive invariant |
| `NothingLostSilently` | `RunningIsBacked` |
| `FirstResultIsFinal` | `FirstResultCounts` |
| `OnlyCancelTaskCancels` | `WorkerNeverCancels` |

`DeliveryInv` is `TypeOK`, `RunningIsBacked`, and what the other two need:
records that the cancellation has locked are RUNNING (`LockedIsRunning`), so that
nobody else settles them; and a worker that is about to report CANCELED, when this is
not the outcome it was asked to simulate, has read it from the record
(`ReportsWhatItRead`), so that its report is never accepted. The argument for `RunningIsBacked` is the lemma
`HandOver`: a step that takes a message or a worker off an execution puts
another on, settles the record, or leaves the loss on record, and a step that
does none of these leaves the execution in the hands it was in.

`DagValidationProofs` proves `validate_dag` right for requests of any size, from
`RequestAssumption` alone:

| Theorem | Property |
|---|---|
| `LoopInvariance` | `LoopInv`, with `TypeOK` |
| `DecidesAcyclicity` | `AcceptsExactlyDags` |

`LoopInv` says that a counter is the number of edges into a subtask that are not
taken yet, that a subtask enters the queue once, when its counter becomes zero,
and is counted when it leaves, and that the subtasks with a zero counter have
no cycle among them. When the queue is empty, all of these are done: either they
are all subtasks, or each of the others has a predecessor among
the others, which is a set without a first member. The definition of a cycle
is the one of `AcyclicAssumption`, over sets, so that the proof needs no
induction over paths.

`WorkerHeartbeatsProofs` proves for any number of workers, processes and
executions, from `NameOfAssumption` and `ExecutionAssumption`:

| Theorem | Property |
|---|---|
| `HeartbeatInvariance` | `HeartbeatInv`, the inductive invariant |
| `QuietWorkersAreOnline` | `QuietWorkerIsOnline` |
| `CountsAreInOrder` | `CountsInOrder` |

A report may leave a BUSY in the row because it has loaded ONLINE and takes the
column for unchanged. Then the process that wrote BUSY in between has yet to
report. `HeartbeatInv` makes this precise: a BUSY row is owed an
ONLINE by a process of that worker that will not skip the column (`Owes`), and the
same of the execution. When every process is idle and lost nothing, nobody owes anything.

`CountsInOrder` holds because rows are never deleted and the counts by status,
which come last, count every row.

`TaskLifecycleProofs` proves of the handlers that do not overlap, for every
graph, budget and number of plans, from the assumptions of `TaskOperations`:

| Theorem | Property |
|---|---|
| `LifecycleInvariance` | `LifecycleInv`, the inductive invariant |
| `NoJoinForgotten` | `JoinUnlocked` |
| `SuccessAggregates` | `TaskSuccessAggregates` |
| `SubtasksMatchRecords` | `RunningHasRecord` |
| `CancellationIsComplete` | `CanceledIsQuiet` |
| `NeverStuck` | `CanProgress` |
| `TaskFollowsDesign`, `EndedTaskStays`, `EndedSubtaskStays` | `TaskMovesLegally`, `TerminalTaskStays`, `TerminalSubtaskStays` |

`LifecycleInv` adds to these properties that a subtask fails or is canceled only
in a task that is, that nothing has been executed before the task is RUNNING,
that a SCHEDULED task has a plan that can be started, and that DISPATCHED and
RETRYING are never committed. `NeverStuck` is where the graph must have no cycle: if
nothing were READY or RUNNING in a task that has not ended, the subtasks that
have not succeeded would all be WAITING, and the first of them
(`AcyclicAssumption`) would wait for nobody, against `JoinUnlocked`.

`TaskMetricsProofs` joins the two views. From the same assumptions and
`SubtasksAssumption` (finitely many subtasks):

| Theorem | Property | Sessions |
|---|---|---|
| `MetricsInvariance` | `RecordInv` and `MetricsInv`, the inductive invariant | any |
| `CountsAreExplained` | `CountsExplained` | any |
| `OneSessionIsSerial` | `ImplementsSerial` | one |
| `SuccessAnswersAreComplete` | `SuccessIsComplete` | one |

`MetricsInv` says that what has been counted is covered by the records committed
now: every succeeded subtask has a successful record of its own (an injection),
and successful records are never taken back (`RecordsOnlyGrow`). So the counts
that are taken later cannot fall short of it. A lone session is fresh
(`Fresh`): what it loaded is what the rows hold, its locks are all the
RUNNING records, and its dirty columns are what the serial step computes; hence its
commit is that step and everything else stutters. This is what overlap breaks,
and why the theorems of `TaskLifecycleProofs` speak of handlers that do not overlap.
That a SUCCESS task has no open record holds for any number of sessions
(`SuccessLeavesNothingOpen`); that its subtasks are all SUCCESS does not.

`SchedulePlanningProofs` proves for any finite set of nodes and subtasks, any
number of overlapping sessions and any integer weights, from the assumptions of
`NodeRegistry`, `SchedulerStrategies` and `SchedulePlanning`:

| Theorem | Property |
|---|---|
| `RegistryInvariance`, `RegistryIsSound` | `RegistryIInv`, the inductive invariant; `RegistryInv` |
| `SnapshotInvariance`, `PlansAreFresh` | `SnapshotInv`; `FreshAsListed` |
| `AnswerInvariance`, `RowOrderIsIrrelevant` | `AnswerInv`; `RowOrderIrrelevant` |
| `GreedyPlansAreCheapest` | `GreedyIsCheapest` |
| `ComparisonsAreConsistent` | `ComparisonConsistent` |

`RegistryIInv` adds what a report under way has loaded: a row that has no record
yet is the row as inserted, so that what such a report leaves unwritten is right.
`SnapshotInv` says that the latest record of a node never becomes older while
the nodes are read. GREEDY takes the candidate with the least key of cost, queue, load
and name; names are unique, so the order of rows does not matter, and the least
cost for every subtask makes the least sum. The sums are folds over sets;
induction over them is by a minimal counterexample among the subsets
(`MinimalSet`), since subsets of a finite set are well founded.

`DeadLetterFlowProofs` proves for any number of messages, runs and failed
requests and any window, from `NamesAssumption` (probes, work and the API have
different names), `WindowAssumption` and `FaultsAssumption`:

| Theorem | Property |
|---|---|
| `QueueInvariance`, `LookingIsSafe` | `QueueInv`, the inductive invariant; `ReadersGiveBack` |
| `ProbeQueuesAreRemoved` | `ProbeQueueRemoved` |
| `TopologyInvariance`, `VerificationIsLasting` | `TopologyInv`; `VerifiedKeepsWork` |
| `FoundInvariance`, `FoundMeansInReach` | `FoundInv`; `FoundUnlessBuried` |

`QueueInv` adds that a probe message exists once, from its publication, late or
not, to the dead letter queue, and that only a run that polls, or has done so, holds
messages. `TopologyInv` says that a message is dead-lettered only when the
topology is there, which nobody removes. `FoundInv` follows a run without an
error: nothing of it but the deletion can still be executed late, and
when nobody else holds messages its poll holds the first `Window` of the queue, so that
it has the probe or the probe lies beyond them, where it stays.

TLC finds the inductive invariants true on the instances of the runs as well; the
runs list those that say more than the properties they serve.

Only model-checked: `EnqueuedSettles` and `QueueDrains`, the liveness properties of
`WorkerDelivery`, since liveness under fairness is out of the reach of the
prover; and the violations, which need a counterexample only. The recursive
functions behind the folds are reasoned about by minimal counterexamples, for
the library's induction theorems take an operator as a parameter, which the
installed provers cannot instantiate.

## 6. Not modelled

The Prometheus page (`monitoring_service.py`, `monitoring_repository.py`,
`queue_monitoring_service.py`) counts rows, copies RabbitMQ's numbers and renders
text. The schemas and the paged lists validate and serialise; what they guarantee
of the inputs appears as assumptions. The migrations create the tables of the
models and add CHECK constraints that the models lack: statuses and types, and
numbers that are positive, not negative or in a range. Schemas and code keep to
these before the database does, except for numbers that are positive until a column
rounds them: of those, `nodes.cpu_capacity` is in `NodeRegistry`, and
`dag_subtasks.compute_load` refuses a task before the model begins. The rows of `execution_revoke_events` and the fields of an alert
are read by nobody. Liveness of a whole task is not stated: overlapping handlers
refute it (a task can stay RUNNING with nothing left to run), so only the
delivery of each result has a liveness property.
