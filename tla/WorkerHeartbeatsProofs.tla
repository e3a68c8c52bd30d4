----------------------- MODULE WorkerHeartbeatsProofs -----------------------
(* Proofs about WorkerHeartbeats, for any workers, processes and executions. *)
EXTENDS WorkerHeartbeats, FiniteSetTheorems, TLAPS

(* The counts of load_snapshot are numbers. *)
LEMMA CountIsNat ==
  ASSUME NEW S, S \subseteq Name
  PROVE  Cardinality(S) \in Nat
BY NameOfAssumption, FS_Subset, FS_CardinalityType

(* Every step of a process, of the clock or of a snapshot keeps the types. *)
LEMMA TypePreserved ==
  ASSUME TypeOK, [Next]_vars
  PROVE  TypeOK'
<1> USE NameOfAssumption, ExecutionAssumption DEF TypeOK
<1>1. ASSUME NEW p \in Process, NEW e \in Execution, Take(p, e) PROVE TypeOK'
  BY <1>1 DEF Take, Reading
<1>2. ASSUME NEW p \in Process, Load(p) PROVE TypeOK'
  <2>1. ColumnsOf(row[NameOf[p]]) \in Columns
    BY DEF ColumnsOf, Columns, Row
  <2> QED
    BY <1>2, <2>1 DEF Load, Saving, Age
<1>3. ASSUME NEW p \in Process, NEW next \in {"idle", "working"}, Close(p, next)
      PROVE  /\ at' \in [Process -> {"idle", "working"} \cup Reading \cup Saving]
             /\ work' \in [Process -> Execution \cup {NoExecution}]
             /\ loaded' \in [Process -> Columns]
             /\ stamp' \in [Process -> Age]
  <2>1. NoColumns \in Columns /\ "old" \in Age
    BY DEF NoColumns, Columns, Age
  <2> QED
    BY <1>3, <2>1 DEF Close
<1>4. ASSUME NEW p \in Process, Save(p) PROVE TypeOK'
  <2> DEFINE n == NameOf[p]
             new == [status |-> Written(row[n].status, loaded[p].status, Status(p)),
                     execution |-> Written(row[n].execution, loaded[p].execution, Reported(p)),
                     seen |-> stamp[p]]
  <2>1. new \in Row
    BY DEF Row, Written, Status, Reported, Columns
  <2>2. row' \in [Name -> Row]
    BY <1>4, <2>1 DEF Save
  <2>3. lost' \in [Process -> BOOLEAN]
    BY <1>4 DEF Save
  <2>4. Close(p, After(p)) /\ After(p) \in {"idle", "working"} /\ UNCHANGED snap
    BY <1>4 DEF Save, After
  <2> QED
    BY <1>3, <2>2, <2>3, <2>4
<1>5. ASSUME NEW p \in Process, Fail(p) PROVE TypeOK'
  <2>1. After(p) \in {"idle", "working"}
    BY DEF After
  <2>2. lost' \in [Process -> BOOLEAN]
    BY <1>5 DEF Fail
  <2> QED
    BY <1>3, <1>5, <2>1, <2>2 DEF Fail
<1>6. ASSUME NEW p \in Process, EndWork(p) PROVE TypeOK'
  BY <1>6 DEF EndWork, Reading
<1>7. ASSUME NEW p \in Process, Crash(p) PROVE TypeOK'
  <2>1. lost' \in [Process -> BOOLEAN]
    BY <1>7 DEF Crash
  <2> QED
    BY <1>3, <1>7, <2>1 DEF Crash
<1>8. CASE Grow
  <2>1. CASE \E n \in Known : row' = [row EXCEPT ![n] = [@ EXCEPT !.seen = "old"]]
    <3>1. PICK n \in Name : row' = [row EXCEPT ![n] = [row[n] EXCEPT !.seen = "old"]]
      BY <2>1 DEF Known
    <3>2. [row[n] EXCEPT !.seen = "old"] \in Row
      BY DEF Row, Age
    <3>3. row' \in [Name -> Row]
      BY <3>1, <3>2
    <3> QED
      BY <1>8, <3>3 DEF Grow, Age
  <2>2. CASE UNCHANGED row
    BY <1>8, <2>2 DEF Grow, Age
  <2> QED
    BY <1>8, <2>1, <2>2 DEF Grow
<1>9. CASE CountTotal
  <2>1. Known \subseteq Name
    BY DEF Known
  <2>2. snap' \in Snapshot
    BY <1>9, <2>1, CountIsNat DEF CountTotal, Snapshot
  <2> QED
    BY <1>9, <2>2 DEF CountTotal
<1>10. CASE CountSeenSince
  <2>1. SeenLately \subseteq Name
    BY DEF Known, SeenLately
  <2>2. snap' \in Snapshot
    BY <1>10, <2>1, CountIsNat DEF CountSeenSince, Snapshot
  <2> QED
    BY <1>10, <2>2 DEF CountSeenSince
<1>11. CASE CountByStatus
  <2>1. WithStatus("BUSY") \subseteq Name /\ WithStatus("ONLINE") \subseteq Name
    BY DEF Known, WithStatus
  <2>2. snap' \in Snapshot
    BY <1>11, <2>1, CountIsNat DEF CountByStatus, Snapshot
  <2> QED
    BY <1>11, <2>2 DEF CountByStatus
<1>12. CASE UNCHANGED vars
  BY <1>12 DEF vars
<1> QED
  BY <1>1, <1>2, <1>4, <1>5, <1>6, <1>7, <1>8, <1>9, <1>10, <1>11, <1>12 DEF Next

(* A step that leaves the status of the rows alone keeps every BUSY owed,
   when whoever owes an ONLINE still does. *)
LEMMA StillOwed ==
  ASSUME BusyIsOwed,
         \A n \in Name : row'[n].status = "BUSY" => row[n].status = "BUSY",
         \A p \in Process : Owes(p) => Owes(p)'
  PROVE  BusyIsOwed'
BY DEF BusyIsOwed

LEMMA ExecutionStillOwed ==
  ASSUME ExecutionIsOwed,
         \A n \in Name : row'[n].execution # NoExecution => row[n].execution # NoExecution,
         \A p \in Process : OwesExecution(p) => OwesExecution(p)'
  PROVE  ExecutionIsOwed'
BY DEF ExecutionIsOwed

(* Steps of a process, other than the commit of its report, keep what it owes,
   unless it reads a row that is ONLINE already. *)
LEMMA BusyPreserved ==
  ASSUME TypeOK, BusyIsOwed, [Next]_vars
  PROVE  BusyIsOwed'
<1> USE NameOfAssumption DEF TypeOK
<1>1. ASSUME NEW p \in Process, NEW e \in Execution, Take(p, e) PROVE BusyIsOwed'
  BY <1>1, StillOwed DEF Take, Owes
<1>2. ASSUME NEW p \in Process, Load(p) PROVE BusyIsOwed'
  <2>1. ASSUME NEW n \in Name, row'[n].status = "BUSY"
        PROVE  \E q \in Process : NameOf[q] = n /\ Owes(q)'
    <3>1. PICK q \in Process : NameOf[q] = n /\ Owes(q)
      BY <1>2, <2>1 DEF Load, BusyIsOwed
    <3>2. CASE q = p
      <4>1. at'[p] \in {"save BUSY", "save ONLINE"}
        BY <1>2 DEF Load
      <4>2. loaded'[p].status = "BUSY"
        BY <1>2, <2>1, <3>1, <3>2 DEF Load, ColumnsOf
      <4> QED
        BY <3>1, <3>2, <4>1, <4>2 DEF Owes
    <3>3. CASE q # p
      BY <1>2, <3>1, <3>3 DEF Load, Owes
    <3> QED
      BY <3>2, <3>3
  <2> QED
    BY <2>1 DEF BusyIsOwed
<1>3. ASSUME NEW p \in Process, Save(p) PROVE BusyIsOwed'
  <2>1. ASSUME NEW n \in Name, row'[n].status = "BUSY"
        PROVE  \E q \in Process : NameOf[q] = n /\ Owes(q)'
    <3>1. CASE at[p] = "save BUSY" /\ NameOf[p] = n
      <4>1. at'[p] = "working"
        BY <1>3, <3>1 DEF Save, Close, After
      <4> QED
        BY <3>1, <4>1 DEF Owes
    <3>2. CASE ~(at[p] = "save BUSY" /\ NameOf[p] = n)
      <4>1. row[n].status = "BUSY"
        BY <1>3, <2>1, <3>2 DEF Save, Written, Status, Saving
      <4>2. PICK q \in Process : NameOf[q] = n /\ Owes(q)
        BY <4>1 DEF BusyIsOwed
      <4>3. q # p
        <5>1. CASE NameOf[p] # n
          BY <4>2, <5>1
        <5>2. CASE NameOf[p] = n
          <6>1. at[p] = "save ONLINE" /\ Status(p) = "ONLINE"
            BY <1>3, <3>2, <5>2 DEF Save, Saving, Status
          <6>2. loaded[p].status = "ONLINE"
            BY <1>3, <2>1, <5>2, <6>1 DEF Save, Written
          <6> QED
            BY <4>2, <6>1, <6>2 DEF Owes
        <5> QED
          BY <5>1, <5>2
      <4>4. Owes(q)'
        BY <1>3, <4>2, <4>3 DEF Save, Close, Owes
      <4> QED
        BY <4>2, <4>4
    <3> QED
      BY <3>1, <3>2
  <2> QED
    BY <2>1 DEF BusyIsOwed
<1>4. ASSUME NEW p \in Process, Fail(p) PROVE BusyIsOwed'
  BY <1>4, StillOwed DEF Fail, Close, After, Owes, Reading, Saving
<1>5. ASSUME NEW p \in Process, EndWork(p) PROVE BusyIsOwed'
  BY <1>5, StillOwed DEF EndWork, Owes
<1>6. ASSUME NEW p \in Process, Crash(p) PROVE BusyIsOwed'
  BY <1>6, StillOwed DEF Crash, Close, Owes
<1>7. CASE Grow
  <2>1. \A n \in Name : row'[n].status = "BUSY" => row[n].status = "BUSY"
    BY <1>7 DEF Grow, Known, Row
  <2>2. \A p \in Process : Owes(p) => Owes(p)'
    BY <1>7 DEF Grow, Owes
  <2> QED
    BY <2>1, <2>2, StillOwed
<1>8. CASE CountTotal \/ CountSeenSince \/ CountByStatus
  BY <1>8, StillOwed DEF CountTotal, CountSeenSince, CountByStatus, Owes
<1>9. CASE UNCHANGED vars
  BY <1>9, StillOwed DEF vars, Owes
<1> QED
  BY <1>1, <1>2, <1>3, <1>4, <1>5, <1>6, <1>7, <1>8, <1>9 DEF Next

(* The same for the execution in the row. *)
LEMMA ExecutionPreserved ==
  ASSUME TypeOK, ExecutionIsOwed, [Next]_vars
  PROVE  ExecutionIsOwed'
<1> USE NameOfAssumption DEF TypeOK
<1>1. ASSUME NEW p \in Process, NEW e \in Execution, Take(p, e) PROVE ExecutionIsOwed'
  BY <1>1, ExecutionStillOwed DEF Take, OwesExecution
<1>2. ASSUME NEW p \in Process, Load(p) PROVE ExecutionIsOwed'
  <2>1. ASSUME NEW n \in Name, row'[n].execution # NoExecution
        PROVE  \E q \in Process : NameOf[q] = n /\ OwesExecution(q)'
    <3>1. PICK q \in Process : NameOf[q] = n /\ OwesExecution(q)
      BY <1>2, <2>1 DEF Load, ExecutionIsOwed
    <3>2. CASE q = p
      <4>1. at'[p] \in {"save BUSY", "save ONLINE"}
        BY <1>2 DEF Load
      <4>2. loaded'[p].execution # NoExecution
        BY <1>2, <2>1, <3>1, <3>2 DEF Load, ColumnsOf
      <4> QED
        BY <3>1, <3>2, <4>1, <4>2 DEF OwesExecution
    <3>3. CASE q # p
      BY <1>2, <3>1, <3>3 DEF Load, OwesExecution
    <3> QED
      BY <3>2, <3>3
  <2> QED
    BY <2>1 DEF ExecutionIsOwed
<1>3. ASSUME NEW p \in Process, Save(p) PROVE ExecutionIsOwed'
  <2>1. ASSUME NEW n \in Name, row'[n].execution # NoExecution
        PROVE  \E q \in Process : NameOf[q] = n /\ OwesExecution(q)'
    <3>1. CASE at[p] = "save BUSY" /\ NameOf[p] = n
      <4>1. at'[p] = "working"
        BY <1>3, <3>1 DEF Save, Close, After
      <4> QED
        BY <3>1, <4>1 DEF OwesExecution
    <3>2. CASE ~(at[p] = "save BUSY" /\ NameOf[p] = n)
      <4>1. row[n].execution # NoExecution
        BY <1>3, <2>1, <3>2 DEF Save, Written, Reported, Saving
      <4>2. PICK q \in Process : NameOf[q] = n /\ OwesExecution(q)
        BY <4>1 DEF ExecutionIsOwed
      <4>3. q # p
        <5>1. CASE NameOf[p] # n
          BY <4>2, <5>1
        <5>2. CASE NameOf[p] = n
          <6>1. at[p] = "save ONLINE" /\ Reported(p) = NoExecution
            BY <1>3, <3>2, <5>2 DEF Save, Saving, Reported
          <6>2. loaded[p].execution = NoExecution
            BY <1>3, <2>1, <5>2, <6>1 DEF Save, Written
          <6> QED
            BY <4>2, <6>1, <6>2 DEF OwesExecution
        <5> QED
          BY <5>1, <5>2
      <4>4. OwesExecution(q)'
        BY <1>3, <4>2, <4>3 DEF Save, Close, OwesExecution
      <4> QED
        BY <4>2, <4>4
    <3> QED
      BY <3>1, <3>2
  <2> QED
    BY <2>1 DEF ExecutionIsOwed
<1>4. ASSUME NEW p \in Process, Fail(p) PROVE ExecutionIsOwed'
  BY <1>4, ExecutionStillOwed DEF Fail, Close, After, OwesExecution, Reading, Saving
<1>5. ASSUME NEW p \in Process, EndWork(p) PROVE ExecutionIsOwed'
  BY <1>5, ExecutionStillOwed DEF EndWork, OwesExecution
<1>6. ASSUME NEW p \in Process, Crash(p) PROVE ExecutionIsOwed'
  BY <1>6, ExecutionStillOwed DEF Crash, Close, OwesExecution
<1>7. CASE Grow
  <2>1. \A n \in Name : row'[n].execution # NoExecution => row[n].execution # NoExecution
    BY <1>7 DEF Grow, Known, Row
  <2>2. \A p \in Process : OwesExecution(p) => OwesExecution(p)'
    BY <1>7 DEF Grow, OwesExecution
  <2> QED
    BY <2>1, <2>2, ExecutionStillOwed
<1>8. CASE CountTotal \/ CountSeenSince \/ CountByStatus
  BY <1>8, ExecutionStillOwed DEF CountTotal, CountSeenSince, CountByStatus, OwesExecution
<1>9. CASE UNCHANGED vars
  BY <1>9, ExecutionStillOwed DEF vars, OwesExecution
<1> QED
  BY <1>1, <1>2, <1>3, <1>4, <1>5, <1>6, <1>7, <1>8, <1>9 DEF Next

(* HeartbeatInv is an invariant: every BUSY and every execution in a
   heartbeat row is owed an ONLINE report by a process of that worker. *)
THEOREM HeartbeatInvariance == Spec => []HeartbeatInv
<1>1. Init => HeartbeatInv
  BY ExecutionAssumption DEF Init, HeartbeatInv, TypeOK, BusyIsOwed, ExecutionIsOwed,
     NoRow, NoColumns, Row, Columns, Age, Snapshot
<1>2. HeartbeatInv /\ [Next]_vars => HeartbeatInv'
  BY TypePreserved, BusyPreserved, ExecutionPreserved DEF HeartbeatInv
<1> QED
  BY <1>1, <1>2, PTL DEF Spec

(* When the processes of a worker are idle and none lost its last report,
   the row neither says BUSY nor names an execution. *)
THEOREM QuietWorkersAreOnline == Spec => []QuietWorkerIsOnline
<1>1. ASSUME HeartbeatInv, NEW n \in Name,
             \A p \in Process : NameOf[p] = n => at[p] = "idle" /\ ~lost[p]
      PROVE  row[n].status # "BUSY" /\ row[n].execution = NoExecution
  <2>1. ASSUME NEW p \in Process, NameOf[p] = n
        PROVE  ~Owes(p) /\ ~OwesExecution(p)
    BY <1>1, <2>1 DEF Owes, OwesExecution
  <2>2. row[n].status # "BUSY"
    BY <1>1, <2>1 DEF HeartbeatInv, BusyIsOwed
  <2>3. row[n].execution = NoExecution
    BY <1>1, <2>1 DEF HeartbeatInv, ExecutionIsOwed
  <2> QED
    BY <2>2, <2>3
<1>2. HeartbeatInv => QuietWorkerIsOnline
  BY <1>1 DEF QuietWorkerIsOnline
<1> QED
  BY <1>2, HeartbeatInvariance, PTL
-----------------------------------------------------------------------------
(* What is counted so far is at most what is there now. *)
CountInv ==
  /\ snap.step \in {"total", "online"} => snap.total <= Cardinality(Known)
  /\ snap.step = "online" => snap.online <= Cardinality(Known)
  /\ CountsInOrder

(* No step takes a row of worker_heartbeats away. *)
LEMMA RowsStay ==
  ASSUME TypeOK, [Next]_vars
  PROVE  Known \subseteq Known'
<1> USE NameOfAssumption DEF TypeOK, Known
<1>1. ASSUME NEW p \in Process, Save(p) PROVE Known \subseteq Known'
  <2>1. \A old : Written(row[NameOf[p]].status, old, Status(p))
                   \in {row[NameOf[p]].status, "BUSY", "ONLINE"}
    BY DEF Written, Status
  <2> QED
    BY <1>1, <2>1 DEF Save
<1>2. CASE Grow
  BY <1>2 DEF Grow, Row
<1>3. CASE UNCHANGED row
  BY <1>3
<1>4. [Next]_vars => Grow \/ UNCHANGED row \/ \E p \in Process : Save(p)
  BY DEF Next, vars, Take, Load, Fail, EndWork, Crash, CountTotal, CountSeenSince,
         CountByStatus
<1> QED
  BY <1>1, <1>2, <1>3, <1>4

(* Every known worker has one of the two statuses that are counted. *)
LEMMA CountedByStatus ==
  ASSUME TypeOK
  PROVE  Cardinality(Known) = Cardinality(WithStatus("BUSY")) + Cardinality(WithStatus("ONLINE"))
<1>1. /\ Known = WithStatus("BUSY") \cup WithStatus("ONLINE")
      /\ WithStatus("BUSY") \cap WithStatus("ONLINE") = {}
  BY DEF TypeOK, Row, Known, WithStatus
<1>2. WithStatus("BUSY") \subseteq Name /\ WithStatus("ONLINE") \subseteq Name
  BY DEF Known, WithStatus
<1>3. IsFiniteSet(WithStatus("BUSY")) /\ IsFiniteSet(WithStatus("ONLINE"))
  BY <1>2, NameOfAssumption, FS_Subset
<1>4. /\ Cardinality(WithStatus("BUSY")) \in Nat
      /\ Cardinality(WithStatus("ONLINE")) \in Nat
  BY <1>3, FS_CardinalityType
<1>5. Cardinality(Known) = Cardinality(WithStatus("BUSY")) + Cardinality(WithStatus("ONLINE"))
                             - Cardinality({})
  BY <1>1, <1>3, FS_Union
<1> QED
  BY <1>4, <1>5, FS_EmptySet

(* A step that does not count keeps what was counted below what is there. *)
LEMMA CountsKept ==
  ASSUME TypeOK, CountInv, [Next]_vars, UNCHANGED snap
  PROVE  CountInv'
<1>1. Known \subseteq Known' /\ Known' \subseteq Name
  BY RowsStay DEF Known
<1>2. IsFiniteSet(Known')
  BY <1>1, NameOfAssumption, FS_Subset
<1>3. /\ Cardinality(Known) \in Nat /\ Cardinality(Known') \in Nat
      /\ Cardinality(Known) <= Cardinality(Known')
  BY <1>1, <1>2, FS_Subset, FS_CardinalityType
<1>4. snap.total \in Nat /\ snap.online \in Nat
  BY DEF TypeOK, Snapshot
<1> HIDE DEF Known
<1>5. Cardinality(Known)' = Cardinality(Known')
  OBVIOUS
<1> QED
  BY <1>3, <1>4, <1>5 DEF CountInv, CountsInOrder

(* The counts of one answer of load_snapshot, taken one after the other, are
   in order: no total exceeds the sum of the counts by status. *)
THEOREM CountsAreInOrder == Spec => []CountsInOrder
<1>1. Init => CountInv
  BY DEF Init, CountInv, CountsInOrder
<1>2. ASSUME TypeOK, CountInv, [Next]_vars PROVE CountInv'
  <2>1. CASE CountTotal
    <3>1. Known' = Known /\ Cardinality(Known) \in Nat
      BY <2>1, CountIsNat DEF CountTotal, Known
    <3>2. snap'.step = "total" /\ snap'.total = Cardinality(Known)
      BY <2>1 DEF CountTotal
    <3> QED
      BY <3>1, <3>2 DEF CountInv, CountsInOrder
  <2>2. CASE CountSeenSince
    <3>1. Known' = Known /\ Known \subseteq Name /\ SeenLately \subseteq Known
      BY <2>2 DEF CountSeenSince, Known, SeenLately
    <3>2. Cardinality(SeenLately) <= Cardinality(Known)
      BY <3>1, NameOfAssumption, FS_Subset
    <3>3. /\ snap'.step = "online" /\ snap'.total = snap.total
          /\ snap'.online = Cardinality(SeenLately) /\ snap.step = "total"
      BY <2>2 DEF CountSeenSince, TypeOK, Snapshot
    <3> QED
      BY <1>2, <3>1, <3>2, <3>3 DEF CountInv, CountsInOrder
  <2>3. CASE CountByStatus
    <3>1. /\ snap'.step = "complete" /\ snap'.total = snap.total
          /\ snap'.online = snap.online /\ snap.step = "online"
          /\ snap'.busy = Cardinality(WithStatus("BUSY"))
          /\ snap'.idle = Cardinality(WithStatus("ONLINE"))
      BY <1>2, <2>3 DEF CountByStatus, TypeOK, Snapshot
    <3> QED
      BY <1>2, <3>1, CountedByStatus DEF CountInv, CountsInOrder
  <2>4. CASE UNCHANGED snap
    BY <1>2, <2>4, CountsKept
  <2>5. CountTotal \/ CountSeenSince \/ CountByStatus \/ UNCHANGED snap
    BY <1>2 DEF Next, vars, Take, Load, Save, Fail, EndWork, Crash, Grow
  <2> QED
    BY <2>1, <2>2, <2>3, <2>4, <2>5
<1>3. CountInv => CountsInOrder
  BY DEF CountInv
<1>4. HeartbeatInv => TypeOK
  BY DEF HeartbeatInv
<1> QED
  BY <1>1, <1>2, <1>3, <1>4, HeartbeatInvariance, PTL DEF Spec
=============================================================================
