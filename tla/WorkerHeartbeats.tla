-------------------------- MODULE WorkerHeartbeats --------------------------
(***************************************************************************)
(* The heartbeat rows of the workers.  execute_subtask reports BUSY with   *)
(* its execution before it works, and ONLINE without one when it ends,     *)
(* however it ends.  Each report is a transaction of its own that reads    *)
(* the row of the worker's name and inserts or updates it; a report that   *)
(* fails is logged and forgotten.  The processes of one Celery worker      *)
(* share its name, and so its row.                                         *)
(*                                                                         *)
(* The unit of work updates the columns that differ from what was loaded;  *)
(* last_seen_at always does.  host name and process id steer nothing and   *)
(* are left out.  Time is abstracted to whether a time stamp is within     *)
(* worker_heartbeat_timeout_seconds.                                       *)
(***************************************************************************)
EXTENDS Naturals, FiniteSets

CONSTANTS
  Process,    \* worker processes
  Name,       \* worker names
  NameOf,     \* the worker a process belongs to
  Execution

ASSUME NameOfAssumption == NameOf \in [Process -> Name] /\ IsFiniteSet(Name)

NoExecution == "no execution"

ASSUME ExecutionAssumption == NoExecution \notin Execution

VARIABLES
  row,      \* worker_heartbeats by worker_name
  at,       \* where execute_subtask is in each process
  work,     \* the execution it is about
  loaded,   \* the row its report under way has read
  stamp,    \* the age of seen_at of that report
  lost,     \* whether the last ONLINE of the process was lost
  snap      \* the snapshot that a request for metrics is taking

vars == <<row, at, work, loaded, stamp, lost, snap>>

Age == {"recent", "old"}
Row == [status : {"NONE", "ONLINE", "BUSY"},
        execution : Execution \cup {NoExecution}, seen : Age]
NoRow == [status |-> "NONE", execution |-> NoExecution, seen |-> "old"]

(* the columns of a loaded row that an UPDATE is compared with *)
Columns == [status : {"NONE", "ONLINE", "BUSY"},
            execution : Execution \cup {NoExecution}]
NoColumns == [status |-> "NONE", execution |-> NoExecution]
ColumnsOf(r) == [status |-> r.status, execution |-> r.execution]

Reading == {"read BUSY", "read ONLINE"}
Saving == {"save BUSY", "save ONLINE"}

(* the snapshot: total_workers, online_workers, workers_by_status *)
Snapshot == [step : {"none", "total", "online", "complete"},
             total : Nat, online : Nat, busy : Nat, idle : Nat]

Known == {n \in Name : row[n].status # "NONE"}
SeenLately == {n \in Known : row[n].seen = "recent"}

(* (mutant: the counts by status leave out workers not seen lately) *)
SeenWithStatus(status) == {n \in SeenLately : row[n].status = status}

WithStatus(status) == {n \in Known : row[n].status = status}

Init ==
  /\ row = [n \in Name |-> NoRow]
  /\ at = [p \in Process |-> "idle"]
  /\ work = [p \in Process |-> NoExecution]
  /\ loaded = [p \in Process |-> NoColumns]
  /\ stamp = [p \in Process |-> "old"]
  /\ lost = [p \in Process |-> FALSE]
  /\ snap = [step |-> "none", total |-> 0, online |-> 0, busy |-> 0, idle |-> 0]
-----------------------------------------------------------------------------
(* a process takes a message *)
Take(p, e) ==
  /\ at[p] = "idle"
  /\ at' = [at EXCEPT ![p] = "read BUSY"]
  /\ work' = [work EXCEPT ![p] = e]
  /\ UNCHANGED <<row, loaded, stamp, lost, snap>>

(* report_heartbeat takes the time, upsert_heartbeat reads the row *)
Load(p) ==
  /\ at[p] \in Reading
  /\ at' = [at EXCEPT ![p] = IF @ = "read BUSY" THEN "save BUSY" ELSE "save ONLINE"]
  /\ loaded' = [loaded EXCEPT ![p] = ColumnsOf(row[NameOf[p]])]
  /\ stamp' = [stamp EXCEPT ![p] = "recent"]
  /\ UNCHANGED <<row, work, lost, snap>>

Status(p) == IF at[p] = "save BUSY" THEN "BUSY" ELSE "ONLINE"
Reported(p) == IF at[p] = "save BUSY" THEN work[p] ELSE NoExecution

(* (mutant: None does not replace the execution in the row) *)
WrittenIfGiven(current, old, new) ==
  IF new \in {old, NoExecution} THEN current ELSE new

(* the column after an UPDATE of what differs from what was loaded *)
Written(current, old, new) == IF new = old THEN current ELSE new

(* after a report the process works, or waits for the next message *)
After(p) == IF at[p] \in {"read BUSY", "save BUSY"} THEN "working" ELSE "idle"

(* the session of the report is closed, and so is the task when it ends *)
Close(p, next) ==
  /\ at' = [at EXCEPT ![p] = next]
  /\ work' = [work EXCEPT ![p] = IF next = "idle" THEN NoExecution ELSE @]
  /\ loaded' = [loaded EXCEPT ![p] = NoColumns]
  /\ stamp' = [stamp EXCEPT ![p] = "old"]

(* flush and commit of the report: an INSERT needs the name to be free *)
Save(p) ==
  LET n == NameOf[p]
  IN /\ at[p] \in Saving
     /\ loaded[p].status = "NONE" => row[n].status = "NONE"
     /\ row' = [row EXCEPT ![n] =
                  [status |-> Written(@.status, loaded[p].status, Status(p)),
                   execution |-> Written(@.execution, loaded[p].execution, Reported(p)),
                   seen |-> stamp[p]]]
     /\ lost' = [lost EXCEPT ![p] = IF at[p] = "save ONLINE" THEN FALSE ELSE @]
     /\ Close(p, After(p))
     /\ UNCHANGED snap

(* the report fails, at the unique name or anywhere else: a warning is logged *)
Fail(p) ==
  /\ at[p] \in Reading \cup Saving
  /\ lost' = [lost EXCEPT ![p] = @ \/ After(p) = "idle"]
  /\ Close(p, After(p))
  /\ UNCHANGED <<row, snap>>

(* (mutant: the ONLINE report is skipped when the work ends in an exception) *)
EndUnreported(p) ==
  /\ at[p] = "working"
  /\ \E next \in {"read ONLINE", "idle"} : at' = [at EXCEPT ![p] = next]
  /\ UNCHANGED <<row, work, loaded, stamp, lost, snap>>

(* the try block of execute_subtask ends, with a result or an exception *)
EndWork(p) ==
  /\ at[p] = "working"
  /\ at' = [at EXCEPT ![p] = "read ONLINE"]
  /\ UNCHANGED <<row, work, loaded, stamp, lost, snap>>

(* the process is killed; its successor has the same worker name *)
Crash(p) ==
  /\ at[p] # "idle"
  /\ lost' = [lost EXCEPT ![p] = TRUE]
  /\ Close(p, "idle")
  /\ UNCHANGED <<row, snap>>

(* time passes: what is stored, or what is about to be, gets old *)
Grow ==
  /\ \/ \E n \in Known : /\ row' = [row EXCEPT ![n] = [@ EXCEPT !.seen = "old"]]
                         /\ UNCHANGED stamp
     \/ \E p \in Process : /\ at[p] \in Saving
                           /\ stamp' = [stamp EXCEPT ![p] = "old"]
                           /\ UNCHANGED row
  /\ UNCHANGED <<at, work, loaded, lost, snap>>
-----------------------------------------------------------------------------
(* load_snapshot: one statement after the other, each with its own view *)
CountTotal ==
  /\ snap.step \in {"none", "complete"}
  /\ snap' = [step |-> "total", total |-> Cardinality(Known),
              online |-> 0, busy |-> 0, idle |-> 0]
  /\ UNCHANGED <<row, at, work, loaded, stamp, lost>>

CountSeenSince ==
  /\ snap.step = "total"
  /\ snap' = [snap EXCEPT !.step = "online",
                          !.online = Cardinality(SeenLately)]
  /\ UNCHANGED <<row, at, work, loaded, stamp, lost>>

CountByStatus ==
  /\ snap.step = "online"
  /\ snap' = [snap EXCEPT !.step = "complete",
                          !.busy = Cardinality(WithStatus("BUSY")),
                          !.idle = Cardinality(WithStatus("ONLINE"))]
  /\ UNCHANGED <<row, at, work, loaded, stamp, lost>>

Next ==
  \/ \E p \in Process, e \in Execution : Take(p, e)
  \/ \E p \in Process : Load(p) \/ Save(p) \/ Fail(p) \/ EndWork(p) \/ Crash(p)
  \/ Grow
  \/ CountTotal \/ CountSeenSince \/ CountByStatus

Spec == Init /\ [][Next]_vars
-----------------------------------------------------------------------------
TypeOK ==
  /\ row \in [Name -> Row]
  /\ at \in [Process -> {"idle", "working"} \cup Reading \cup Saving]
  /\ work \in [Process -> Execution \cup {NoExecution}]
  /\ loaded \in [Process -> Columns]
  /\ stamp \in [Process -> Age]
  /\ lost \in [Process -> BOOLEAN]
  /\ snap \in Snapshot

(* the process is still to report ONLINE, or failed to, and its report
   will not take the row for ONLINE without an execution already *)
Owes(p) ==
  \/ at[p] = "idle" /\ lost[p]
  \/ at[p] \notin {"idle", "save ONLINE"}
  \/ at[p] = "save ONLINE" /\ loaded[p].status # "ONLINE"

OwesExecution(p) ==
  \/ at[p] = "idle" /\ lost[p]
  \/ at[p] \notin {"idle", "save ONLINE"}
  \/ at[p] = "save ONLINE" /\ loaded[p].execution # NoExecution

BusyIsOwed ==
  \A n \in Name : row[n].status = "BUSY" =>
    \E p \in Process : NameOf[p] = n /\ Owes(p)

ExecutionIsOwed ==
  \A n \in Name : row[n].execution # NoExecution =>
    \E p \in Process : NameOf[p] = n /\ OwesExecution(p)

(* The inductive invariant: a BUSY row, and an execution in a row, are
   owed an ONLINE by a process of that worker.  An update that skips an
   unchanged column relies on the report of another process. *)
HeartbeatInv ==
  /\ TypeOK
  /\ BusyIsOwed
  /\ ExecutionIsOwed

(* Once all processes of a worker are idle and none of them lost its last
   ONLINE report, the row does not say BUSY and names no execution, however
   their reads, partial updates and failed inserts interleaved. *)
QuietWorkerIsOnline ==
  \A n \in Name :
    (\A p \in Process : NameOf[p] = n => at[p] = "idle" /\ ~lost[p])
      => row[n].status # "BUSY" /\ row[n].execution = NoExecution

(* The four counts of load_snapshot are not of one moment, but rows are
   never deleted and the counts by status come last: neither the total nor
   the workers seen lately exceed their sum. *)
CountsInOrder ==
  snap.step = "complete" => /\ snap.total <= snap.busy + snap.idle
                            /\ snap.online <= snap.busy + snap.idle
=============================================================================
