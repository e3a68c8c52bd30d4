----------------------- MODULE SchedulePlanningProofs -----------------------
(***************************************************************************)
(* Proofs about the node registry and the planning over it, for any nodes, *)
(* reports, sessions, subtasks and weights.                                *)
(***************************************************************************)
EXTENDS SchedulePlanning, FiniteSetTheorems, TLAPS

NewRow == [status |-> "ONLINE", heartbeat |-> None]

(* What is known of a status report under way: it is about a row, and as long
   as there is no record of that node it has loaded the row as inserted. *)
SessionOK(x) ==
  session[x] # Idle =>
    /\ session[x].node \in Rows
    /\ session[x].data \in Report
    /\ records[session[x].node] = <<>> => session[x].loaded = NewRow

(* A row shows what was inserted, or what was reported. *)
RowOK(n) ==
  IF records[n] = <<>> THEN nodes[n] = NewRow
  ELSE /\ \E d \in RecordsOf(n) : nodes[n].heartbeat = d.at
       /\ \E d \in RecordsOf(n) : nodes[n].status = _resolve_node_status(d)

(* The inductive invariant of the registry. *)
RegistryIInv ==
  /\ phase \in [Node -> {"new", "free", "registered", "refused"}]
  /\ nodes \in [Node -> Row]
  /\ records \in [Node -> Seq(Report)]
  /\ DOMAIN session = Session
  /\ \A m, n \in Rows : Registered[m].name = Registered[n].name => m = n
  /\ \A n \in Rows : CapacityPositive(n)
  /\ \A n \in Node \ Rows : records[n] = <<>>
  /\ \A n \in Rows : RowOK(n)
  /\ \A n \in Node : records[n] = <<>> => nodes[n] = NewRow
  /\ \A x \in Session : SessionOK(x)

LEMMA NewRowType == NewRow \in Row
BY DEF NewRow, Row

LEMMA ResolvedStatus == \A d : _resolve_node_status(d) \in {"ONLINE", "BUSY"}
BY DEF _resolve_node_status

LEMMA ReportFields ==
  ASSUME NEW d \in Report
  PROVE  d.at \in Nat /\ d.at # None /\ d.at \in {e.at : e \in Report}
<1>1. d \in [at : Nat, usage : 0..100, memory : 0..100,
             bandwidth : Optional, queue : Optional, load : Optional] /\ None \notin Nat
  BY ReportAssumption
<1> QED
  BY <1>1

(* One more record. *)
LEMMA OneMoreRecord ==
  ASSUME NEW s \in Seq(Report), NEW d \in Report
  PROVE  /\ Append(s, d) \in Seq(Report)
         /\ Append(s, d) # <<>>
         /\ {Append(s, d)[i] : i \in DOMAIN Append(s, d)} = {s[i] : i \in DOMAIN s} \cup {d}
<1>1. /\ Append(s, d) \in Seq(Report) /\ Append(s, d) # <<>>
      /\ DOMAIN s = 1..Len(s) /\ Len(s) \in Nat
      /\ DOMAIN Append(s, d) = 1..(Len(s) + 1)
      /\ \A i \in 1..Len(s) : Append(s, d)[i] = s[i]
      /\ Append(s, d)[Len(s) + 1] = d
  OBVIOUS
<1>2. 1..(Len(s) + 1) = (1..Len(s)) \cup {Len(s) + 1}
  BY <1>1
<1> QED
  BY <1>1, <1>2

LEMMA NoRecords == \A s : s = <<>> => {s[i] : i \in DOMAIN s} = {}
OBVIOUS
-----------------------------------------------------------------------------
(* A registration changes no row of another node and keeps names apart. *)
LEMMA RegistrationKeeps ==
  ASSUME RegistryIInv, NEW n \in Node, LookUpName(n) \/ Insert(n)
  PROVE  RegistryIInv' /\ Rows \subseteq Rows'
<1>1. UNCHANGED <<nodes, records, session>>
  BY DEF LookUpName, Insert
<1>2. /\ phase' \in [Node -> {"new", "free", "registered", "refused"}]
      /\ \A m \in Node \ {n} : phase'[m] = phase[m]
      /\ phase[n] # "registered"
      /\ phase'[n] = "registered" => Named(Registered[n].name) = {} /\ CapacityPositive(n)
  BY DEF RegistryIInv, LookUpName, Insert
<1>3. Rows' = IF phase'[n] = "registered" THEN Rows \cup {n} ELSE Rows
  BY <1>2 DEF Rows
<1>4. \A l, m \in Rows' : Registered[l].name = Registered[m].name => l = m
  BY <1>2, <1>3 DEF Named, RegistryIInv
<1>5. \A m \in Node : RowOK(m)' <=> RowOK(m)
  BY <1>1 DEF RowOK, RecordsOf
<1>6. \A m \in Node : records[m] = <<>> => RowOK(m)
  BY DEF RegistryIInv, RowOK
<1>7. \A m \in Rows' : RowOK(m)'
  <2>1. n \notin Rows
    BY <1>2 DEF Rows
  <2> QED
    BY <1>3, <1>5, <1>6, <2>1 DEF RegistryIInv, Rows
<1>8. \A x \in Session : SessionOK(x)'
  BY <1>1, <1>3 DEF RegistryIInv, SessionOK
<1>9. \A m \in Node \ Rows' : records'[m] = <<>>
  BY <1>1, <1>3 DEF RegistryIInv
<1> QED
  BY <1>1, <1>2, <1>3, <1>4, <1>7, <1>8, <1>9 DEF RegistryIInv

LEMMA LoadKeeps ==
  ASSUME RegistryIInv, NEW x \in Session, NEW n \in Node, NEW d \in Report, LoadNode(x, n, d)
  PROVE  RegistryIInv' /\ Rows' = Rows
<1>1. /\ UNCHANGED <<phase, nodes, records>> /\ n \in Rows
      /\ session' = [session EXCEPT ![x] = [node |-> n, data |-> d, loaded |-> nodes[n]]]
  BY DEF LoadNode
<1>2. Rows' = Rows /\ \A m \in Node : RowOK(m)' <=> RowOK(m)
  BY <1>1 DEF Rows, RowOK, RecordsOf
<1>3. \A y \in Session : SessionOK(y)'
  BY <1>1, <1>2 DEF RegistryIInv, SessionOK, Rows
<1>4. \A m \in Rows : RowOK(m)'
  BY <1>2 DEF RegistryIInv, Rows
<1> QED
  BY <1>1, <1>2, <1>3, <1>4 DEF RegistryIInv

(* The UPDATE of a report leaves in each column what was there, or what it
   reports. *)
LEMMA SaveKeeps ==
  ASSUME RegistryIInv, NEW x \in Session, Save(x)
  PROVE  /\ RegistryIInv' /\ Rows' = Rows
         /\ \E n \in Rows, d \in Report :
              /\ RecordsOf(n)' = RecordsOf(n) \cup {d}
              /\ \A m \in Node \ {n} : RecordsOf(m)' = RecordsOf(m)
<1>1. PICK n \in Rows, d \in Report :
        /\ n = session[x].node /\ n \in Node /\ d = session[x].data
        /\ records[n] = <<>> => session[x].loaded = NewRow
  BY DEF RegistryIInv, SessionOK, Save, Rows
<1> DEFINE new == Updated(nodes[n], session[x].loaded, d)
<1>2. /\ nodes' = [nodes EXCEPT ![n] = new]
      /\ records' = [records EXCEPT ![n] = Append(records[n], d)]
      /\ session' = [session EXCEPT ![x] = Idle]
      /\ UNCHANGED phase
  BY <1>1 DEF Save
<1>3. /\ records' \in [Node -> Seq(Report)]
      /\ records'[n] # <<>>
      /\ RecordsOf(n)' = RecordsOf(n) \cup {d}
      /\ \A m \in Node \ {n} : records'[m] = records[m] /\ RecordsOf(m)' = RecordsOf(m)
  <2>1. records[n] \in Seq(Report) /\ records'[n] = Append(records[n], d)
    BY <1>1, <1>2 DEF RegistryIInv
  <2>2. \A m \in Node \ {n} : records'[m] = records[m]
    BY <1>2 DEF RegistryIInv
  <2>3. records'[n] \in Seq(Report) /\ records'[n] # <<>>
    BY <2>1, OneMoreRecord
  <2>4. records' \in [Node -> Seq(Report)]
    BY <1>1, <1>2, <2>1, <2>3 DEF RegistryIInv
  <2>5. RecordsOf(n)' = RecordsOf(n) \cup {d}
    BY <2>1, OneMoreRecord DEF RecordsOf
  <2>6. \A m \in Node \ {n} : RecordsOf(m)' = RecordsOf(m)
    BY <2>2 DEF RecordsOf
  <2> QED
    BY <2>2, <2>3, <2>4, <2>5, <2>6
<1>4. Rows' = Rows
  BY <1>2 DEF Rows
<1>5. /\ nodes[n] \in Row
      /\ new = [status |-> IF _resolve_node_status(d) = session[x].loaded.status
                           THEN nodes[n].status ELSE _resolve_node_status(d),
                heartbeat |-> IF d.at = session[x].loaded.heartbeat
                              THEN nodes[n].heartbeat ELSE d.at]
  BY <1>1 DEF RegistryIInv, Updated
<1>6. new \in Row
  BY <1>1, <1>5, ResolvedStatus, ReportFields DEF Row
<1>7. /\ \E e \in RecordsOf(n) \cup {d} : new.heartbeat = e.at
      /\ \E e \in RecordsOf(n) \cup {d} : new.status = _resolve_node_status(e)
  <2>1. CASE records[n] = <<>>
    <3>1. nodes[n] = NewRow /\ session[x].loaded = NewRow
      BY <1>1, <2>1 DEF RegistryIInv
    <3> QED
      BY <1>1, <1>5, <3>1, ReportFields, ResolvedStatus DEF NewRow
  <2>2. CASE records[n] # <<>>
    <3>1. /\ \E e \in RecordsOf(n) : nodes[n].heartbeat = e.at
          /\ \E e \in RecordsOf(n) : nodes[n].status = _resolve_node_status(e)
      BY <1>1, <2>2 DEF RegistryIInv, RowOK
    <3> QED
      BY <1>5, <3>1
  <2> QED
    BY <2>1, <2>2
<1> HIDE DEF new
<1>8. nodes' \in [Node -> Row] /\ nodes'[n] = new
  BY <1>1, <1>2, <1>6 DEF RegistryIInv
<1>9. \A m \in Node \ {n} : nodes'[m] = nodes[m]
  BY <1>2 DEF RegistryIInv
<1>10. \A m \in Rows : RowOK(m)'
  <2>1. RowOK(n)'
    BY <1>1, <1>3, <1>7, <1>8 DEF RowOK
  <2>2. ASSUME NEW m \in Rows, m # n PROVE RowOK(m)'
    <3>1. m \in Node /\ RowOK(m)
      BY <2>2 DEF RegistryIInv, Rows
    <3> QED
      BY <1>3, <1>9, <2>2, <3>1 DEF RowOK
  <2> QED
    BY <2>1, <2>2
<1>11. \A y \in Session : SessionOK(y)'
  <2>1. ASSUME NEW y \in Session, y # x, session[y] # Idle PROVE SessionOK(y)'
    <3>1. session'[y] = session[y] /\ session[y].node \in Node
      BY <1>2, <2>1 DEF RegistryIInv, SessionOK, Rows
    <3> QED
      BY <1>3, <1>4, <2>1, <3>1 DEF RegistryIInv, SessionOK
  <2>2. session'[x] = Idle
    BY <1>2 DEF RegistryIInv
  <2>3. \A y \in Session : y # x => session'[y] = session[y]
    BY <1>2 DEF RegistryIInv
  <2> QED
    BY <2>1, <2>2, <2>3 DEF SessionOK
<1>12. \A m \in Node : records'[m] = <<>> => nodes'[m] = NewRow
  BY <1>3, <1>9 DEF RegistryIInv
<1>13. \A m \in Node \ Rows : records'[m] = <<>>
  BY <1>1, <1>3 DEF RegistryIInv
<1>14. RegistryIInv'
  BY <1>2, <1>3, <1>4, <1>8, <1>10, <1>11, <1>12, <1>13 DEF RegistryIInv
<1> QED
  BY <1>1, <1>3, <1>4, <1>14

(* The steps of the planning leave the registry alone. *)
LEMMA RegistrySteps ==
  ASSUME [Next]_vars
  PROVE  \/ RegistryNext /\ UNCHANGED planningVars
         \/ UNCHANGED registryVars
BY DEF Next, vars, ListNodes, ReadRecord, Generate, Compare, registryVars, planningVars

LEMMA RegistryKept ==
  ASSUME RegistryIInv, UNCHANGED registryVars
  PROVE  RegistryIInv' /\ Rows' = Rows /\ \A n \in Node : RecordsOf(n)' = RecordsOf(n)
<1>1. Rows' = Rows /\ \A n \in Node : RecordsOf(n)' = RecordsOf(n)
  BY DEF registryVars, Rows, RecordsOf
<1>2. \A n \in Node : RowOK(n)' <=> RowOK(n)
  BY <1>1 DEF registryVars, RowOK
<1>3. \A x \in Session : SessionOK(x)' <=> SessionOK(x)
  BY <1>1 DEF registryVars, SessionOK
<1>4. \A n \in Rows : n \in Node
  BY DEF Rows
<1> QED
  BY <1>1, <1>2, <1>3, <1>4 DEF RegistryIInv, registryVars

LEMMA RegistryStep ==
  ASSUME RegistryIInv, [Next]_vars
  PROVE  RegistryIInv' /\ Rows \subseteq Rows'
<1>1. CASE RegistryNext
  BY <1>1, RegistrationKeeps, LoadKeeps, SaveKeeps DEF RegistryNext
<1>2. CASE UNCHANGED registryVars
  BY <1>2, RegistryKept
<1> QED
  BY <1>1, <1>2, RegistrySteps

LEMMA RegistryStart == Init => RegistryIInv
<1> SUFFICES ASSUME Init PROVE RegistryIInv
  OBVIOUS
<1>1. Rows = {}
  BY DEF Init, RegistryInit, Rows
<1>2. nodes \in [Node -> Row] /\ \A n \in Node : nodes[n] = NewRow
  BY NewRowType DEF Init, RegistryInit, NewRow
<1>3. records \in [Node -> Seq(Report)] /\ \A n \in Node : records[n] = <<>>
  BY DEF Init, RegistryInit
<1>4. DOMAIN session = Session /\ \A x \in Session : SessionOK(x)
  BY DEF Init, RegistryInit, SessionOK
<1> QED
  BY <1>1, <1>2, <1>3, <1>4 DEF Init, RegistryInit, RegistryIInv

(* The inductive invariant of the registry holds always. *)
THEOREM RegistryInvariance == Spec => []RegistryIInv
BY RegistryStart, RegistryStep, PTL DEF Spec

(* No two rows have one name, no row has the capacity zero, and no row shows
   what was not reported. *)
THEOREM RegistryIsSound == Spec => []RegistryInv
<1>1. ASSUME RegistryIInv PROVE RegistryInv
  <2>1. \A n \in Node : RecordsOf(n) \subseteq Report
    BY <1>1 DEF RegistryIInv, RecordsOf
  <2> QED
    BY <1>1, <2>1 DEF RegistryIInv, RegistryInv, RowOK, NewRow
<1> QED
  BY <1>1, RegistryInvariance, PTL
-----------------------------------------------------------------------------
(* The latest record of a node is not older than t. *)
Reached(n, t) == IF Latest(n) = {} THEN t = 0 ELSE \A d \in Latest(n) : d.at >= t

(* The snapshots are of nodes that were listed, from records that are not
   older than what was known of the node then. *)
SnapshotInv ==
  /\ unread \cup DOMAIN snaps = DOMAIN known
  /\ DOMAIN known \subseteq Rows
  /\ \A n \in DOMAIN known : known[n] \in Nat
  /\ \A n \in unread : Reached(n, known[n])
  /\ \A n \in DOMAIN snaps :
       \E d \in Report \cup {NoRecord} : snaps[n] = Snapshot(n, d) /\ d.at >= known[n]

(* A record more never makes the latest one older. *)
LEMMA LatestAdvances ==
  ASSUME NEW n \in Node, NEW t \in Nat, NEW d \in Report, Reached(n, t),
         RecordsOf(n) \subseteq Report,
         RecordsOf(n)' = RecordsOf(n) \cup {d}
  PROVE  Reached(n, t)'
<1>1. \A e \in RecordsOf(n) \cup {d} : e.at \in Nat
  BY ReportFields
<1>2. Latest(n)' = {c \in RecordsOf(n) \cup {d} : \A e \in RecordsOf(n) \cup {d} : c.at >= e.at}
  BY DEF Latest
<1>3. CASE Latest(n) = {}
  BY <1>1, <1>2, <1>3 DEF Reached
<1>4. CASE Latest(n) # {}
  <2>1. PICK c \in RecordsOf(n) : c \in Latest(n)
    BY <1>4 DEF Latest
  <2>2. c.at >= t /\ \A e \in RecordsOf(n) : c.at >= e.at
    BY <1>4, <2>1 DEF Latest, Reached
  <2>3. (IF d.at >= c.at THEN d ELSE c) \in Latest(n)'
    BY <1>1, <1>2, <2>1, <2>2
  <2>4. \A e \in Latest(n)' : e.at >= t
    BY <1>1, <1>2, <2>1, <2>2
  <2> QED
    BY <2>3, <2>4 DEF Reached
<1> QED
  BY <1>3, <1>4

LEMMA ReachedStays ==
  ASSUME RegistryIInv, [Next]_vars, NEW n \in Node, NEW t \in Nat, Reached(n, t)
  PROVE  Reached(n, t)'
<1>1. RecordsOf(n) \subseteq Report
  BY DEF RegistryIInv, RecordsOf
<1>2. CASE RecordsOf(n)' = RecordsOf(n)
  BY <1>2 DEF Reached, Latest
<1>3. ASSUME NEW d \in Report, RecordsOf(n)' = RecordsOf(n) \cup {d} PROVE Reached(n, t)'
  BY <1>1, <1>3, LatestAdvances
<1>4. RecordsOf(n)' = RecordsOf(n) \/ \E d \in Report : RecordsOf(n)' = RecordsOf(n) \cup {d}
  <2>1. CASE UNCHANGED records
    BY <2>1 DEF RecordsOf
  <2>2. ASSUME NEW x \in Session, Save(x)
        PROVE  RecordsOf(n)' = RecordsOf(n) \/ \E d \in Report : RecordsOf(n)' = RecordsOf(n) \cup {d}
    BY <2>2, SaveKeeps
  <2> QED
    BY <2>1, <2>2, RegistrySteps DEF RegistryNext, LookUpName, Insert, LoadNode, registryVars
<1> QED
  BY <1>2, <1>3, <1>4

(* Steps that read no record keep the snapshots. *)
LEMMA SnapshotsKept ==
  ASSUME RegistryIInv, SnapshotInv, [Next]_vars, UNCHANGED <<unread, snaps, known>>
  PROVE  SnapshotInv'
<1>1. Rows \subseteq Rows'
  BY RegistryStep
<1>2. \A n \in unread : n \in Node /\ known[n] \in Nat
  BY DEF SnapshotInv, Rows
<1>3. \A n \in unread : Reached(n, known[n])'
  <2>1. ASSUME NEW n \in unread PROVE Reached(n, known[n])'
    <3>1. PICK t \in Nat : t = known[n]
      BY <1>2
    <3>2. Reached(n, t)'
      BY <1>2, <3>1, ReachedStays DEF SnapshotInv
    <3> QED
      BY <3>1, <3>2
  <2> QED
    BY <2>1
<1> QED
  BY <1>1, <1>3 DEF SnapshotInv

LEMMA ListNodesKeeps ==
  ASSUME RegistryIInv, ListNodes
  PROVE  SnapshotInv'
<1>1. /\ unread' = Online /\ snaps' = <<>> /\ known' = [n \in Online |-> LatestTime(n)]
      /\ UNCHANGED registryVars
  BY DEF ListNodes
<1>2. Rows' = Rows /\ \A n \in Node : RecordsOf(n)' = RecordsOf(n)
  BY <1>1, RegistryKept
<1>3. Online \subseteq Rows /\ Rows \subseteq Node
  BY DEF Online, Rows
<1>4. ASSUME NEW n \in Online
      PROVE  LatestTime(n) \in Nat /\ Reached(n, LatestTime(n))
  <2>1. \A d \in Latest(n) : d.at \in Nat
    BY <1>3, ReportFields DEF RegistryIInv, Latest, RecordsOf
  <2>2. CASE Latest(n) = {}
    BY <2>2 DEF LatestTime, Reached
  <2>3. CASE Latest(n) # {}
    <3>1. (CHOOSE d \in Latest(n) : TRUE) \in Latest(n)
      BY <2>3
    <3>2. LatestTime(n) = (CHOOSE d \in Latest(n) : TRUE).at
      BY <2>3 DEF LatestTime
    <3>3. PICK c \in Latest(n) : LatestTime(n) = c.at
      BY <3>1, <3>2
    <3> QED
      BY <2>1, <2>3, <3>3 DEF Reached, Latest
  <2> QED
    BY <2>2, <2>3
<1>5. \A n \in Online : known'[n] \in Nat /\ Reached(n, known'[n])
  BY <1>1, <1>4
<1>6. ASSUME NEW n \in Online PROVE Reached(n, known[n])'
  <2>1. Latest(n)' = Latest(n)
    BY <1>2, <1>3 DEF Latest
  <2> QED
    BY <1>5, <2>1 DEF Reached
<1>7. DOMAIN snaps' = {} /\ DOMAIN known' = Online
  BY <1>1
<1> QED
  BY <1>1, <1>2, <1>3, <1>5, <1>6, <1>7 DEF SnapshotInv

LEMMA ReadRecordKeeps ==
  ASSUME RegistryIInv, SnapshotInv, NEW n \in Node, ReadRecord(n)
  PROVE  SnapshotInv'
<1>1. PICK d \in IF Latest(n) = {} THEN {NoRecord} ELSE Latest(n) :
        snaps' = [m \in DOMAIN snaps \cup {n} |-> IF m = n THEN Snapshot(n, d) ELSE snaps[m]]
  BY DEF ReadRecord
<1>2. /\ n \in unread /\ unread' = unread \ {n}
      /\ UNCHANGED registryVars /\ UNCHANGED known
  BY DEF ReadRecord, registryVars
<1>3. d \in Report \cup {NoRecord} /\ d.at >= known[n]
  <2>1. n \in DOMAIN known /\ known[n] \in Nat /\ Reached(n, known[n])
    BY <1>2 DEF SnapshotInv
  <2>2. Latest(n) \subseteq Report
    BY DEF RegistryIInv, Latest, RecordsOf
  <2> QED
    BY <1>1, <2>1, <2>2 DEF Reached, NoRecord
<1>4. Rows' = Rows /\ \A m \in Node : RecordsOf(m)' = RecordsOf(m)
  BY <1>2, RegistryKept
<1>5. DOMAIN snaps' = DOMAIN snaps \cup {n}
  BY <1>1
<1>6. ASSUME NEW m \in DOMAIN snaps'
      PROVE  \E e \in Report \cup {NoRecord} : snaps'[m] = Snapshot(m, e) /\ e.at >= known'[m]
  <2>1. CASE m = n
    BY <1>1, <1>2, <1>3, <1>5, <2>1
  <2>2. CASE m # n
    BY <1>1, <1>2, <1>5, <2>2 DEF SnapshotInv
  <2> QED
    BY <2>1, <2>2
<1>7. ASSUME NEW m \in unread' PROVE Reached(m, known[m])'
  <2>1. m \in Node /\ Reached(m, known[m])
    BY <1>2 DEF SnapshotInv, Rows
  <2>2. Latest(m)' = Latest(m)
    BY <1>4, <2>1 DEF Latest
  <2> QED
    BY <1>2, <2>1, <2>2 DEF Reached
<1>8. unread' \cup DOMAIN snaps' = DOMAIN known'
  BY <1>2, <1>5 DEF SnapshotInv
<1> QED
  BY <1>2, <1>4, <1>6, <1>7, <1>8 DEF SnapshotInv, Snapshot

LEMMA SnapshotStep ==
  ASSUME RegistryIInv, SnapshotInv, [Next]_vars
  PROVE  SnapshotInv'
<1>1. ListNodes \/ (\E n \in Node : ReadRecord(n)) \/ UNCHANGED <<unread, snaps, known>>
  BY DEF Next, vars, Generate, Compare, planningVars
<1> QED
  BY <1>1, ListNodesKeeps, ReadRecordKeeps, SnapshotsKept

(* The snapshots are sound in every state. *)
THEOREM SnapshotInvariance == Spec => []SnapshotInv
<1>1. Init => SnapshotInv
  BY DEF Init, SnapshotInv
<1> QED
  BY <1>1, SnapshotStep, RegistryInvariance, PTL DEF Spec

(* No plan is made on a record older than what was known of its node when the
   nodes were listed. *)
THEOREM PlansAreFresh == Spec => []FreshAsListed
<1>1. ASSUME SnapshotInv PROVE FreshAsListed
  BY <1>1 DEF SnapshotInv, FreshAsListed, Snapshot
<1> QED
  BY <1>1, SnapshotInvariance, PTL
-----------------------------------------------------------------------------
(* What the strategies see of a node. *)
NodeSnapshot ==
  [name : Nat, type : Type, cpu : Nat, at : Nat, usage : 0..100,
   bandwidth : Optional, queue : Optional, load : Optional]

(* round() of a quotient is an integer, and not negative. *)
LEMMA QuotientType ==
  ASSUME NEW a \in Nat, NEW b \in Nat \ {0}
  PROVE  RoundedQuotient(a, b) \in Nat
<1>1. a \div b \in Nat /\ a % b \in Nat
  OBVIOUS
<1>2. \A q \in Nat : q + 1 \in Nat
  OBVIOUS
<1> QED
  BY <1>1, <1>2 DEF RoundedQuotient

LEMMA ProductPositive ==
  ASSUME NEW a \in Nat \ {0}, NEW b \in Nat \ {0}
  PROVE  a * b \in Nat \ {0}
OBVIOUS

LEMMA OrZeroType ==
  ASSUME NEW x \in Optional
  PROVE  OrZero(x) \in Nat
BY DEF OrZero, Optional

LEMMA EstimateTypes ==
  ASSUME NEW s \in Subtask, NEW node \in NodeSnapshot, node.cpu > 0
  PROVE  /\ compute_duration(s, node) \in Nat
         /\ transfer_duration(s, node) \in Nat
         /\ energy(s, node) \in Nat
         /\ \A weight \in Int : score(s, node, weight) \in Int
<1>1. /\ node.cpu \in Nat \ {0} /\ node.usage \in 0..100 /\ node.bandwidth \in Optional
      /\ Demand[s].load \in Nat /\ Demand[s].input \in Nat
  BY DemandAssumption DEF NodeSnapshot
<1>2. 100 - UsageCapped(node) \in Nat \ {0}
  BY <1>1 DEF UsageCapped
<1>3. node.cpu * (100 - UsageCapped(node)) \in Nat \ {0}
  BY <1>1, <1>2, ProductPositive
<1>4. compute_duration(s, node) \in Nat
  BY <1>1, <1>3, QuotientType DEF compute_duration
<1>5. transfer_duration(s, node) \in Nat
  <2>1. CASE node.type = "UAV" \/ Demand[s].input = 0 \/ OrZero(node.bandwidth) = 0
    BY <2>1 DEF transfer_duration
  <2>2. CASE ~(node.type = "UAV" \/ Demand[s].input = 0 \/ OrZero(node.bandwidth) = 0)
    <3>1. node.bandwidth \in Nat \ {0}
      BY <1>1, <2>2 DEF OrZero, Optional
    <3>2. 1000 * Demand[s].input \in Nat
      BY <1>1
    <3> QED
      BY <2>2, <3>1, <3>2, QuotientType DEF transfer_duration
  <2> QED
    BY <2>1, <2>2
<1>6. energy(s, node) \in Nat
  BY <1>4, <1>5 DEF energy
<1>7. \A weight \in Int : score(s, node, weight) \in Int
  BY <1>4, <1>5, <1>6 DEF score, Cost
<1> QED
  BY <1>4, <1>5, <1>6, <1>7


(* A key that the strategies compare: an estimate and the tie break. *)
IsKey(x) == DOMAIN x = 1..4 /\ \A i \in 1..4 : x[i] \in Int

LEMMA KeyFields ==
  ASSUME NEW a \in Int, NEW b \in Int, NEW c \in Int, NEW d \in Int
  PROVE  /\ IsKey(<<a>> \o <<b, c, d>>)
         /\ (<<a>> \o <<b, c, d>>)[1] = a /\ (<<a>> \o <<b, c, d>>)[4] = d
<1> DEFINE s == <<a>> \o <<b, c, d>>
<1>1. <<a>> \in Seq(Int) /\ <<b, c, d>> \in Seq(Int)
  OBVIOUS
<1>2. s \in Seq(Int) /\ Len(s) = 4 /\ s[1] = a /\ s[4] = d
  BY <1>1
<1> HIDE DEF s
<1>3. DOMAIN s = 1..4
  BY <1>2
<1>4. \A i \in 1..4 : s[i] \in Int
  BY <1>2, <1>3
<1>5. IsKey(s)
  BY <1>3, <1>4 DEF IsKey
<1> QED
  BY <1>2, <1>5 DEF s

(* Of two different keys one is below the other. *)
LEMMA KeysCompare ==
  ASSUME NEW x, NEW y, IsKey(x), IsKey(y), ~Below(x, y), ~Below(y, x)
  PROVE  x[1] = y[1] /\ x[4] = y[4]
<1>1. \A i \in 1..4 : /\ x[i] \in Int /\ y[i] \in Int
                      /\ ~(x[i] < y[i] /\ \A j \in 1..(i - 1) : x[j] = y[j])
                      /\ ~(y[i] < x[i] /\ \A j \in 1..(i - 1) : y[j] = x[j])
  BY DEF Below, IsKey
<1>2. x[1] = y[1]
  BY <1>1
<1>3. x[2] = y[2]
  BY <1>1, <1>2
<1>4. x[3] = y[3]
  BY <1>1, <1>2, <1>3
<1>5. x[4] = y[4]
  BY <1>1, <1>2, <1>3, <1>4
<1> QED
  BY <1>2, <1>5

(* The snapshots of rows with unique names. *)
Snapshots(f) ==
  /\ \A n \in DOMAIN f : f[n] \in NodeSnapshot
  /\ \A m, n \in DOMAIN f : f[m].name = f[n].name => m = n

(* What GREEDY and LOCAL_ONLY compare are keys that tell the nodes apart. *)
LEMMA CandidateKeys ==
  ASSUME NEW f, Snapshots(f), NEW s \in Subtask, NEW n \in Candidates(s, f)
  PROVE  /\ n \in DOMAIN f /\ f[n] \in NodeSnapshot /\ f[n].cpu > 0
         /\ \A weight \in Int :
              /\ IsKey(<<score(s, f[n], weight)>> \o TieBreak(f[n]))
              /\ (<<score(s, f[n], weight)>> \o TieBreak(f[n]))[1] = score(s, f[n], weight)
              /\ (<<score(s, f[n], weight)>> \o TieBreak(f[n]))[4] = f[n].name
         /\ IsKey(<<compute_duration(s, f[n])>> \o TieBreak(f[n]))
         /\ (<<compute_duration(s, f[n])>> \o TieBreak(f[n]))[4] = f[n].name
<1>1. n \in DOMAIN f /\ f[n] \in NodeSnapshot /\ f[n].cpu > 0
  BY DEF Candidates, Snapshots
<1>2. /\ \A weight \in Int : score(s, f[n], weight) \in Int
      /\ compute_duration(s, f[n]) \in Int
  BY <1>1, EstimateTypes
<1>3. OrZero(f[n].queue) \in Int /\ OrZero(f[n].load) \in Int /\ f[n].name \in Int
  BY <1>1, OrZeroType DEF NodeSnapshot
<1>4. ASSUME NEW a \in Int
      PROVE  /\ IsKey(<<a>> \o TieBreak(f[n]))
             /\ (<<a>> \o TieBreak(f[n]))[1] = a
             /\ (<<a>> \o TieBreak(f[n]))[4] = f[n].name
  BY <1>3, KeyFields DEF TieBreak
<1> QED
  BY <1>1, <1>2, <1>4

LEMMA GreedyUnique ==
  ASSUME NEW f, Snapshots(f), NEW s \in Subtask, NEW weight \in Int,
         NEW m \in Greedy(s, f, weight), NEW n \in Greedy(s, f, weight)
  PROVE  m = n
<1> DEFINE Key(o) == <<score(s, f[o], weight)>> \o TieBreak(f[o])
<1>1. /\ m \in Candidates(s, f) /\ n \in Candidates(s, f)
      /\ ~Below(Key(n), Key(m)) /\ ~Below(Key(m), Key(n))
  BY DEF Greedy, Smallest
<1>2. /\ IsKey(Key(m)) /\ IsKey(Key(n)) /\ m \in DOMAIN f /\ n \in DOMAIN f
      /\ Key(m)[4] = f[m].name /\ Key(n)[4] = f[n].name
  BY <1>1, CandidateKeys
<1> HIDE DEF Key
<1>3. Key(m)[4] = Key(n)[4]
  BY <1>1, <1>2, KeysCompare
<1> QED
  BY <1>2, <1>3 DEF Snapshots

LEMMA LocalOnlyUnique ==
  ASSUME NEW f, Snapshots(f), NEW s \in Subtask, NEW m \in LocalOnly(s, f), NEW n \in LocalOnly(s, f)
  PROVE  m = n
<1> DEFINE Key(o) == <<compute_duration(s, f[o])>> \o TieBreak(f[o])
<1>1. /\ m \in Candidates(s, f) /\ n \in Candidates(s, f)
      /\ ~Below(Key(n), Key(m)) /\ ~Below(Key(m), Key(n))
  BY DEF LocalOnly, Smallest
<1>2. /\ IsKey(Key(m)) /\ IsKey(Key(n)) /\ m \in DOMAIN f /\ n \in DOMAIN f
      /\ Key(m)[4] = f[m].name /\ Key(n)[4] = f[n].name
  BY <1>1, CandidateKeys
<1> HIDE DEF Key
<1>3. Key(m)[4] = Key(n)[4]
  BY <1>1, <1>2, KeysCompare
<1> QED
  BY <1>2, <1>3 DEF Snapshots

(* A strategy that chooses one node at most has one plan. *)
LEMMA PlanUnique ==
  ASSUME NEW f, Snapshots(f), NEW strategy \in Strategy \ {"RANDOM_OFFLOAD"},
         NEW ready \in SUBSET Subtask, NEW weight \in Int,
         NEW plan \in Plans(strategy, ready, f, weight)
  PROVE  Plans(strategy, ready, f, weight) = {plan}
<1> DEFINE Options(s) == ChoicesOf(strategy, s, f, weight)
<1>1. ASSUME NEW s \in ready, NEW m \in Options(s), NEW n \in Options(s) PROVE m = n
  BY <1>1, GreedyUnique, LocalOnlyUnique DEF ChoicesOf, Strategy
<1>2. CASE ready = {} \/ \E s \in ready : Options(s) = {}
  BY <1>2 DEF Plans, Refusal
<1>3. CASE ready # {} /\ \A s \in ready : Options(s) # {}
  <2> DEFINE F == {g \in [ready -> DOMAIN f] : \A s \in ready : g[s] \in Options(s)}
  <2>1. Plans(strategy, ready, f, weight) = {[code |-> "OK", assigned |-> g] : g \in F}
    BY <1>3 DEF Plans
  <2>2. \A g, h \in F : g = h
    <3> SUFFICES ASSUME NEW g \in F, NEW h \in F PROVE g = h
      OBVIOUS
    <3>1. \A s \in ready : g[s] = h[s]
      BY <1>1
    <3> QED
      BY <3>1
  <2> HIDE DEF F
  <2> QED
    BY <2>1, <2>2
<1> QED
  BY <1>2, <1>3
-----------------------------------------------------------------------------
(* A plan that was returned is one of those the snapshots still give: nothing
   is read again before the next call lists the nodes. *)
AnswerInv ==
  answer.at = "planned" =>
    /\ unread = {}
    /\ answer.strategy \in Strategy
    /\ answer.ready \in SUBSET Subtask
    /\ answer.weight \in Weight
    /\ answer.plan \in Plans(answer.strategy, answer.ready, snaps, answer.weight)

LEMMA AnswerStep ==
  ASSUME AnswerInv, [Next]_vars
  PROVE  AnswerInv'
<1>1. CASE UNCHANGED planningVars
  BY <1>1 DEF AnswerInv, planningVars
<1>2. CASE ListNodes
  BY <1>2 DEF AnswerInv, ListNodes, Underway
<1>3. ASSUME NEW n \in Node, ReadRecord(n) PROVE AnswerInv'
  BY <1>3 DEF AnswerInv, ReadRecord
<1>4. ASSUME NEW strategy \in Strategy, NEW ready \in SUBSET Subtask, NEW weight \in Weight,
             Generate(strategy, ready, weight)
      PROVE  AnswerInv'
  BY <1>4 DEF AnswerInv, Generate, Loaded
<1>5. ASSUME NEW ready \in SUBSET Subtask, Compare(ready) PROVE AnswerInv'
  BY <1>5 DEF AnswerInv, Compare
<1> QED
  BY <1>1, <1>2, <1>3, <1>4, <1>5 DEF Next, vars, planningVars

(* A plan that was returned is one the snapshots of its call give. *)
THEOREM AnswerInvariance == Spec => []AnswerInv
<1>1. Init => AnswerInv
  BY DEF Init, AnswerInv, NoAnswer
<1> QED
  BY <1>1, AnswerStep, PTL DEF Spec

(* What is read in one call are snapshots of rows with unique names. *)
LEMMA SnapshotsOfRows ==
  ASSUME RegistryIInv, SnapshotInv
  PROVE  Snapshots(snaps)
<1>1. DOMAIN snaps \subseteq Rows /\ Rows \subseteq Node
  BY DEF SnapshotInv, Rows
<1>2. \A n \in DOMAIN snaps : snaps[n] \in NodeSnapshot /\ snaps[n].name = Registered[n].name
  <2> SUFFICES ASSUME NEW n \in DOMAIN snaps
               PROVE  snaps[n] \in NodeSnapshot /\ snaps[n].name = Registered[n].name
    OBVIOUS
  <2>1. PICK d \in Report \cup {NoRecord} : snaps[n] = Snapshot(n, d)
    BY DEF SnapshotInv
  <2>2. /\ Registered[n].name \in Nat /\ Registered[n].type \in Type
        /\ Registered[n].cpu \in Nat
    BY <1>1, RegisteredAssumption
  <2>3. StoredCapacity(n) \in Nat
    BY <2>2 DEF StoredCapacity
  <2>4. /\ d.at \in Nat /\ d.usage \in 0..100 /\ d.bandwidth \in Optional
        /\ d.queue \in Optional /\ d.load \in Optional
    <3>1. CASE d = NoRecord
      BY <3>1 DEF NoRecord, Optional
    <3>2. CASE d \in Report
      <4>1. d \in [at : Nat, usage : 0..100, memory : 0..100,
                   bandwidth : Optional, queue : Optional, load : Optional]
        BY <3>2, ReportAssumption
      <4> QED
        BY <4>1
    <3> QED
      BY <3>1, <3>2
  <2> QED
    BY <2>1, <2>2, <2>3, <2>4 DEF Snapshot, NodeSnapshot
<1> QED
  BY <1>1, <1>2 DEF Snapshots, RegistryIInv

(* GREEDY and LOCAL_ONLY make one plan from one set of snapshots, in whatever
   order the nodes are listed, because names are unique. *)
THEOREM RowOrderIsIrrelevant == Spec => []RowOrderIrrelevant
<1>1. ASSUME RegistryIInv, SnapshotInv, AnswerInv PROVE RowOrderIrrelevant
  <2>1. Snapshots(snaps) /\ Weight \subseteq Int
    BY <1>1, SnapshotsOfRows, WeightAssumption
  <2>2. SUFFICES ASSUME answer.at = "planned", answer.strategy # "RANDOM_OFFLOAD"
                 PROVE  Plans(answer.strategy, answer.ready, snaps, answer.weight) = {answer.plan}
    BY DEF RowOrderIrrelevant
  <2>3. /\ answer.strategy \in Strategy \ {"RANDOM_OFFLOAD"} /\ answer.ready \in SUBSET Subtask
        /\ answer.weight \in Int
        /\ answer.plan \in Plans(answer.strategy, answer.ready, snaps, answer.weight)
    BY <1>1, <2>1, <2>2 DEF AnswerInv
  <2> QED
    BY <2>1, <2>3, PlanUnique
<1> QED
  BY <1>1, RegistryInvariance, SnapshotInvariance, AnswerInvariance, PTL
-----------------------------------------------------------------------------
(* Of a collection of subsets of a finite set, one has no smaller one in it. *)
LEMMA MinimalSet ==
  ASSUME NEW S, IsFiniteSet(S), NEW C, C \subseteq SUBSET S, C # {}
  PROVE  \E T \in C : \A U \in C : U \subseteq T => U = T
<1>1. IsWellFoundedOn(StrictSubsetOrdering(S), SUBSET S)
  BY FS_StrictSubsetOrderingWellFounded, FS_FiniteSubsetsOfFinite
<1>2. PICK T \in C : \A U \in C : ~(<<U, T>> \in StrictSubsetOrdering(S))
  BY <1>1, WFMin
<1> QED
  BY <1>2 DEF StrictSubsetOrdering

(* the element by which MapThenSumSet goes on *)
Chosen(s) == CHOOSE x \in s : TRUE

(* f gives the sums of w over the subsets of S, as MapThenSumSet makes them. *)
Sums(f, w, S) ==
  f = [s \in SUBSET S |-> IF s = {} THEN 0 ELSE w[Chosen(s)] + f[s \ {Chosen(s)}]]

LEMMA ChosenIn == \A s : s # {} => Chosen(s) \in s
BY DEF Chosen

LEMMA SumsExist ==
  ASSUME NEW S, IsFiniteSet(S), NEW w \in [S -> Int]
  PROVE  \E f \in [SUBSET S -> Int] : Sums(f, w, S)
<1> DEFINE Step(f, s) == IF s = {} THEN 0 ELSE w[Chosen(s)] + f[s \ {Chosen(s)}]
           Known(E) == \E f \in [(SUBSET S) \ E -> Int] :
                         \A s \in (SUBSET S) \ E :
                           /\ f[s] = Step(f, s)
                           /\ s # {} => s \ {Chosen(s)} \notin E
           C == {E \in SUBSET SUBSET S : Known(E)}
<1>1. SUBSET S \in C
  <2>1. (SUBSET S) \ (SUBSET S) = {}
    OBVIOUS
  <2>2. [s \in (SUBSET S) \ (SUBSET S) |-> 0] \in [(SUBSET S) \ (SUBSET S) -> Int]
    OBVIOUS
  <2>3. Known(SUBSET S)
    BY <2>1, <2>2
  <2> QED
    BY <2>3
<1>2. PICK E \in C : \A D \in C : D \subseteq E => D = E
  <2>1. IsFiniteSet(SUBSET S)
    BY FS_SUBSET
  <2>2. C \subseteq SUBSET SUBSET S /\ C # {}
    BY <1>1
  <2> HIDE DEF C
  <2> QED
    BY <2>1, <2>2, MinimalSet
<1>3. E = {}
  <2> SUFFICES ASSUME E # {} PROVE FALSE
    OBVIOUS
  <2>1. E \subseteq SUBSET S /\ Known(E)
    OBVIOUS
  <2>2. PICK U \in E : \A V \in E : V \subseteq U => V = U
    BY <2>1, MinimalSet
  <2>3. U # {} => /\ Chosen(U) \in U /\ U \ {Chosen(U)} \notin E
                  /\ U \ {Chosen(U)} \in SUBSET S /\ U \ {Chosen(U)} # U
                  /\ Chosen(U) \in S
    BY <2>1, <2>2, ChosenIn
  <2>4. PICK f \in [(SUBSET S) \ E -> Int] :
          \A s \in (SUBSET S) \ E :
            /\ f[s] = Step(f, s)
            /\ s # {} => s \ {Chosen(s)} \notin E
    BY <2>1
  <2> DEFINE D == E \ {U}
             g == [s \in (SUBSET S) \ D |-> IF s = U THEN Step(f, U) ELSE f[s]]
  <2>5. (SUBSET S) \ D = ((SUBSET S) \ E) \cup {U}
    BY <2>1, <2>2
  <2>6. Step(f, U) \in Int
    BY <2>3, <2>4
  <2>7. g \in [(SUBSET S) \ D -> Int]
    BY <2>4, <2>5, <2>6
  <2>8. ASSUME NEW s \in (SUBSET S) \ D
        PROVE  g[s] = Step(g, s) /\ (s # {} => s \ {Chosen(s)} \notin D)
    <3>1. CASE s = U
      <4>1. U # {} => g[U \ {Chosen(U)}] = f[U \ {Chosen(U)}]
        BY <2>3, <2>5
      <4> QED
        BY <2>3, <3>1, <4>1
    <3>2. CASE s # U
      <4>1. s \in (SUBSET S) \ E
        BY <2>5, <3>2
      <4>2. s # {} => s \ {Chosen(s)} \notin E /\ s \ {Chosen(s)} \in SUBSET S
        BY <2>4, <4>1
      <4>3. s # {} => s \ {Chosen(s)} # U /\ g[s \ {Chosen(s)}] = f[s \ {Chosen(s)}]
        BY <2>2, <2>5, <4>2
      <4> QED
        BY <2>4, <2>5, <3>2, <4>1, <4>2, <4>3
    <3> QED
      BY <3>1, <3>2
  <2> HIDE DEF g
  <2>9. Known(D)
    BY <2>7, <2>8
  <2> HIDE DEF Known
  <2> QED
    BY <1>2, <2>1, <2>2, <2>9
<1>4. Known({})
  BY <1>2, <1>3
<1>5. (SUBSET S) \ {} = SUBSET S
  OBVIOUS
<1>6. PICK f \in [SUBSET S -> Int] : \A s \in SUBSET S : f[s] = Step(f, s)
  BY <1>4, <1>5
<1> QED
  BY <1>6 DEF Sums

(* Any such f has integer values, and its values obey the equation. *)
LEMMA SumsValues ==
  ASSUME NEW S, IsFiniteSet(S), NEW w \in [S -> Int], NEW f, Sums(f, w, S)
  PROVE  /\ f[{}] = 0
         /\ \A s \in SUBSET S : /\ f[s] \in Int
                                /\ s # {} => f[s] = w[Chosen(s)] + f[s \ {Chosen(s)}]
<1>1. \A s \in SUBSET S : f[s] = IF s = {} THEN 0 ELSE w[Chosen(s)] + f[s \ {Chosen(s)}]
  BY DEF Sums
<1>2. f[{}] = 0
  BY <1>1
<1> DEFINE C == {s \in SUBSET S : f[s] \notin Int}
<1>3. ASSUME C # {} PROVE FALSE
  <2>1. PICK T \in C : \A U \in C : U \subseteq T => U = T
    <3>1. C \subseteq SUBSET S
      OBVIOUS
    <3> HIDE DEF C
    <3> QED
      BY <1>3, <3>1, MinimalSet
  <2>2. T # {} /\ T \subseteq S
    <3>1. T \subseteq S /\ f[T] \notin Int /\ 0 \in Int
      BY <2>1
    <3> QED
      BY <1>2, <3>1
  <2>3. Chosen(T) \in T /\ w[Chosen(T)] \in Int
    BY <2>2, ChosenIn
  <2>4. f[T \ {Chosen(T)}] \in Int
    BY <2>1, <2>2, <2>3
  <2> QED
    BY <1>1, <2>1, <2>2, <2>3, <2>4
<1> QED
  BY <1>1, <1>2, <1>3

LEMMA Distributes ==
  ASSUME NEW k \in Int, NEW a \in Int, NEW b \in Int
  PROVE  k * (a + b) = k * a + k * b /\ k * a \in Int /\ k * b \in Int
OBVIOUS

(* Sums compare as their terms do. *)
LEMMA SumsCompare ==
  ASSUME NEW S, IsFiniteSet(S), NEW k \in Int,
         NEW d \in [S -> Int], NEW e \in [S -> Int], NEW d2 \in [S -> Int], NEW e2 \in [S -> Int],
         \A s \in S : Cost(d[s], e[s], k) <= Cost(d2[s], e2[s], k),
         NEW fd, NEW fe, NEW fd2, NEW fe2,
         Sums(fd, d, S), Sums(fe, e, S), Sums(fd2, d2, S), Sums(fe2, e2, S)
  PROVE  Cost(fd[S], fe[S], k) <= Cost(fd2[S], fe2[S], k)
<1> DEFINE C == {s \in SUBSET S : ~(Cost(fd[s], fe[s], k) <= Cost(fd2[s], fe2[s], k))}
<1>1. ASSUME C # {} PROVE FALSE
  <2>1. PICK T \in C : \A U \in C : U \subseteq T => U = T
    <3>1. C \subseteq SUBSET S
      OBVIOUS
    <3> HIDE DEF C
    <3> QED
      BY <1>1, <3>1, MinimalSet
  <2>2. T # {}
    <3>1. fd[{}] = 0 /\ fe[{}] = 0 /\ fd2[{}] = 0 /\ fe2[{}] = 0
      BY SumsValues
    <3>2. Cost(fd[{}], fe[{}], k) <= Cost(fd2[{}], fe2[{}], k)
      BY <3>1 DEF Cost
    <3> QED
      BY <2>1, <3>2
  <2> DEFINE x == Chosen(T)
             R == T \ {Chosen(T)}
  <2>3. x \in S /\ R \in SUBSET S /\ R # T /\ R \subseteq T
    BY <2>1, <2>2, ChosenIn
  <2>4. Cost(fd[R], fe[R], k) <= Cost(fd2[R], fe2[R], k)
    BY <2>1, <2>3
  <2>5. /\ fd[T] = d[x] + fd[R] /\ fe[T] = e[x] + fe[R]
        /\ fd2[T] = d2[x] + fd2[R] /\ fe2[T] = e2[x] + fe2[R]
    BY <2>1, <2>2, SumsValues
  <2>6. /\ fd[R] \in Int /\ fe[R] \in Int /\ fd2[R] \in Int /\ fe2[R] \in Int
    BY <2>3, SumsValues
  <2>7. /\ d[x] \in Int /\ e[x] \in Int /\ d2[x] \in Int /\ e2[x] \in Int
        /\ Cost(d[x], e[x], k) <= Cost(d2[x], e2[x], k)
    BY <2>3
  <2> HIDE DEF x, R
  <2>8. /\ k * fe[T] = k * e[x] + k * fe[R] /\ k * e[x] \in Int /\ k * fe[R] \in Int
        /\ k * fe2[T] = k * e2[x] + k * fe2[R] /\ k * e2[x] \in Int /\ k * fe2[R] \in Int
    BY <2>5, <2>6, <2>7, Distributes
  <2>9. Cost(fd[T], fe[T], k) <= Cost(fd2[T], fe2[T], k)
    BY <2>4, <2>5, <2>6, <2>7, <2>8 DEF Cost
  <2> QED
    BY <2>1, <2>9
<1> QED
  BY <1>1

(* MapThenSumSet gives such a sum. *)
LEMMA DurationSum ==
  ASSUME NEW plan, NEW f, NEW S, S = DOMAIN plan.assigned, IsFiniteSet(S),
         NEW w \in [S -> Int],
         \A s \in S : w[s] = compute_duration(s, f[plan.assigned[s]])
                               + transfer_duration(s, f[plan.assigned[s]])
  PROVE  \E g : Sums(g, w, S) /\ TotalDuration(plan, f) = g[S]
<1> DEFINE Op(s) == compute_duration(s, f[plan.assigned[s]])
                      + transfer_duration(s, f[plan.assigned[s]])
           Eq(g) == g = [s \in SUBSET S |-> IF s = {} THEN 0
                                           ELSE Op(CHOOSE x \in s : TRUE) + g[s \ {CHOOSE x \in s : TRUE}]]
<1>1. \A g : Sums(g, w, S) <=> Eq(g)
  <2> SUFFICES ASSUME NEW g PROVE Sums(g, w, S) <=> Eq(g)
    OBVIOUS
  <2>1. \A s \in SUBSET S : s # {} => w[Chosen(s)] = Op(CHOOSE x \in s : TRUE)
    BY ChosenIn DEF Chosen
  <2> HIDE DEF Op
  <2>2. [s \in SUBSET S |-> IF s = {} THEN 0 ELSE w[Chosen(s)] + g[s \ {Chosen(s)}]]
        = [s \in SUBSET S |-> IF s = {} THEN 0
                              ELSE Op(CHOOSE x \in s : TRUE) + g[s \ {CHOOSE x \in s : TRUE}]]
    BY <2>1 DEF Chosen
  <2> QED
    BY <2>2 DEF Sums
<1>2. \E g : Eq(g)
  <2>1. \E g : Sums(g, w, S)
    BY SumsExist
  <2> HIDE DEF Eq
  <2> QED
    BY <1>1, <2>1
<1>3. Eq(CHOOSE g : Eq(g))
  BY <1>2
<1>4. TotalDuration(plan, f) = (CHOOSE g : Eq(g))[S]
  BY DEF TotalDuration, MapThenSumSet, MapThenFoldSet
<1> HIDE DEF Eq
<1> QED
  BY <1>1, <1>3, <1>4

LEMMA EnergySum ==
  ASSUME NEW plan, NEW f, NEW S, S = DOMAIN plan.assigned, IsFiniteSet(S),
         NEW w \in [S -> Int],
         \A s \in S : w[s] = energy(s, f[plan.assigned[s]])
  PROVE  \E g : Sums(g, w, S) /\ TotalEnergy(plan, f) = g[S]
<1> DEFINE Op(s) == energy(s, f[plan.assigned[s]])
           Eq(g) == g = [s \in SUBSET S |-> IF s = {} THEN 0
                                           ELSE Op(CHOOSE x \in s : TRUE) + g[s \ {CHOOSE x \in s : TRUE}]]
<1>1. \A g : Sums(g, w, S) <=> Eq(g)
  <2> SUFFICES ASSUME NEW g PROVE Sums(g, w, S) <=> Eq(g)
    OBVIOUS
  <2>1. \A s \in SUBSET S : s # {} => w[Chosen(s)] = Op(CHOOSE x \in s : TRUE)
    BY ChosenIn DEF Chosen
  <2> HIDE DEF Op
  <2>2. [s \in SUBSET S |-> IF s = {} THEN 0 ELSE w[Chosen(s)] + g[s \ {Chosen(s)}]]
        = [s \in SUBSET S |-> IF s = {} THEN 0
                              ELSE Op(CHOOSE x \in s : TRUE) + g[s \ {CHOOSE x \in s : TRUE}]]
    BY <2>1 DEF Chosen
  <2> QED
    BY <2>2 DEF Sums
<1>2. \E g : Eq(g)
  <2>1. \E g : Sums(g, w, S)
    BY SumsExist
  <2> HIDE DEF Eq
  <2> QED
    BY <1>1, <2>1
<1>3. Eq(CHOOSE g : Eq(g))
  BY <1>2
<1>4. TotalEnergy(plan, f) = (CHOOSE g : Eq(g))[S]
  BY DEF TotalEnergy, MapThenSumSet, MapThenFoldSet
<1> HIDE DEF Eq
<1> QED
  BY <1>1, <1>3, <1>4
-----------------------------------------------------------------------------
(* The order of keys is transitive and irreflexive. *)
LEMMA BelowMeans ==
  ASSUME NEW x, NEW y, IsKey(x), IsKey(y)
  PROVE  Below(x, y) <=> \/ x[1] < y[1]
                         \/ x[1] = y[1] /\ x[2] < y[2]
                         \/ x[1] = y[1] /\ x[2] = y[2] /\ x[3] < y[3]
                         \/ x[1] = y[1] /\ x[2] = y[2] /\ x[3] = y[3] /\ x[4] < y[4]
<1>1. 1..0 = {} /\ 1..1 = {1} /\ 1..2 = {1, 2} /\ 1..3 = {1, 2, 3} /\ 1..4 = {1, 2, 3, 4}
  OBVIOUS
<1>2. 1 - 1 = 0 /\ 2 - 1 = 1 /\ 3 - 1 = 2 /\ 4 - 1 = 3
  OBVIOUS
<1>3. Below(x, y) <=> \E i \in {1, 2, 3, 4} : x[i] < y[i] /\ \A j \in 1..(i - 1) : x[j] = y[j]
  BY <1>1 DEF Below, IsKey
<1> QED
  BY <1>1, <1>2, <1>3

LEMMA BelowOrders ==
  ASSUME NEW x, NEW y, NEW z, IsKey(x), IsKey(y), IsKey(z)
  PROVE  ~Below(x, x) /\ (Below(x, y) /\ Below(y, z) => Below(x, z))
<1>1. \A i \in 1..4 : x[i] \in Int /\ y[i] \in Int /\ z[i] \in Int
  BY DEF IsKey
<1>2. /\ x[1] \in Int /\ x[2] \in Int /\ x[3] \in Int /\ x[4] \in Int
      /\ y[1] \in Int /\ y[2] \in Int /\ y[3] \in Int /\ y[4] \in Int
      /\ z[1] \in Int /\ z[2] \in Int /\ z[3] \in Int /\ z[4] \in Int
  BY <1>1
<1>3. ~Below(x, x)
  BY <1>2, BelowMeans
<1>4. ASSUME Below(x, y), Below(y, z) PROVE Below(x, z)
  BY <1>2, <1>4, BelowMeans
<1> QED
  BY <1>3, <1>4

(* min() of finitely many finds one. *)
LEMMA SmallestExists ==
  ASSUME NEW S, IsFiniteSet(S), S # {}, NEW key, \A n \in S : IsKey(key[n])
  PROVE  \E n \in S : \A o \in S : ~Below(key[o], key[n])
<1> DEFINE Has(T) == \E n \in T : \A o \in T : ~Below(key[o], key[n])
           C == {T \in SUBSET S : T # {} /\ ~Has(T)}
<1>1. ASSUME C # {} PROVE FALSE
  <2>1. PICK T \in C : \A U \in C : U \subseteq T => U = T
    <3>1. C \subseteq SUBSET S
      OBVIOUS
    <3> HIDE DEF C
    <3> QED
      BY <1>1, <3>1, MinimalSet
  <2>2. T \subseteq S /\ T # {} /\ ~Has(T)
    BY <2>1
  <2>3. PICK x \in T : TRUE
    BY <2>2
  <2>4. ~Below(key[x], key[x])
    BY <2>2, BelowOrders
  <2>5. CASE T \ {x} = {}
    <3>1. \A o \in T : o = x
      BY <2>5
    <3> QED
      BY <2>2, <2>4, <3>1
  <2>6. CASE T \ {x} # {}
    <3>1. T \ {x} \subseteq S /\ T \ {x} # T
      BY <2>2
    <3>2. Has(T \ {x})
      <4> HIDE DEF Has
      <4> QED
        BY <2>1, <2>6, <3>1
    <3>3. PICK y \in T \ {x} : \A o \in T \ {x} : ~Below(key[o], key[y])
      BY <3>2
    <3>4. CASE ~Below(key[x], key[y])
      BY <2>2, <3>3, <3>4
    <3>5. CASE Below(key[x], key[y])
      <4>1. \A o \in T : ~Below(key[o], key[x])
        BY <2>2, <2>4, <3>3, <3>5, BelowOrders
      <4> QED
        BY <2>2, <4>1
    <3> QED
      BY <3>4, <3>5
  <2> QED
    BY <2>5, <2>6
<1>2. S \notin C
  BY <1>1
<1> QED
  BY <1>2

LEMMA GreedyFinds ==
  ASSUME NEW f, Snapshots(f), IsFiniteSet(DOMAIN f), NEW s \in Subtask, NEW weight \in Int,
         Candidates(s, f) # {}
  PROVE  Greedy(s, f, weight) # {}
<1> DEFINE S == Candidates(s, f)
           key == [n \in S |-> <<score(s, f[n], weight)>> \o TieBreak(f[n])]
<1>1. IsFiniteSet(S)
  BY FS_Subset DEF Candidates
<1>2. \A n \in S : IsKey(key[n])
  BY CandidateKeys
<1>3. \E n \in S : \A o \in S : ~Below(key[o], key[n])
  <2> HIDE DEF S, key
  <2>1. S # {}
    BY DEF S
  <2> QED
    BY <1>1, <1>2, <2>1, SmallestExists
<1> QED
  BY <1>3 DEF Greedy, Smallest

(* No candidate scores less than the one GREEDY chooses. *)
LEMMA GreedyLeast ==
  ASSUME NEW f, Snapshots(f), NEW s \in Subtask, NEW weight \in Int,
         NEW m \in Greedy(s, f, weight), NEW n \in Candidates(s, f)
  PROVE  score(s, f[m], weight) <= score(s, f[n], weight)
<1> DEFINE Key(o) == <<score(s, f[o], weight)>> \o TieBreak(f[o])
<1>1. m \in Candidates(s, f) /\ ~Below(Key(n), Key(m))
  BY DEF Greedy, Smallest
<1>2. /\ IsKey(Key(m)) /\ IsKey(Key(n))
      /\ Key(m)[1] = score(s, f[m], weight) /\ Key(n)[1] = score(s, f[n], weight)
  BY <1>1, CandidateKeys
<1> HIDE DEF Key
<1>3. ~(Key(n)[1] < Key(m)[1]) /\ Key(n)[1] \in Int /\ Key(m)[1] \in Int
  BY <1>1, <1>2, BelowMeans DEF IsKey
<1> QED
  BY <1>2, <1>3
-----------------------------------------------------------------------------
(* What a plan is: a refusal, for want of subtasks or for want of a node for
   one of them, or a choice of nodes. *)
LEMMA PlanShape ==
  ASSUME NEW strategy, NEW ready, NEW f, NEW weight, NEW plan \in Plans(strategy, ready, f, weight)
  PROVE  /\ plan.code = "NO_SCHEDULABLE_SUBTASK" <=> ready = {}
         /\ Feasible(plan) <=> /\ ready # {}
                               /\ \A s \in ready : ChoicesOf(strategy, s, f, weight) # {}
         /\ IF Feasible(plan)
            THEN /\ plan.assigned \in [ready -> DOMAIN f]
                 /\ \A s \in ready : plan.assigned[s] \in ChoicesOf(strategy, s, f, weight)
            ELSE DOMAIN plan.assigned = {}
<1>1. CASE ready = {}
  BY <1>1 DEF Plans, Refusal, Feasible
<1>2. CASE ready # {} /\ \E s \in ready : ChoicesOf(strategy, s, f, weight) = {}
  BY <1>2 DEF Plans, Refusal, Feasible
<1>3. CASE ready # {} /\ \A s \in ready : ChoicesOf(strategy, s, f, weight) # {}
  <2>1. PICK g \in [ready -> DOMAIN f] :
          /\ \A s \in ready : g[s] \in ChoicesOf(strategy, s, f, weight)
          /\ plan = [code |-> "OK", assigned |-> g]
    BY <1>3 DEF Plans
  <2> QED
    BY <1>3, <2>1 DEF Feasible
<1> QED
  BY <1>1, <1>2, <1>3

(* Every strategy chooses among the candidates, LOCAL_ONLY among the UAVs. *)
LEMMA ChoicesAreCandidates ==
  ASSUME NEW strategy \in Strategy, NEW s, NEW f, NEW weight,
         NEW n \in ChoicesOf(strategy, s, f, weight)
  PROVE  n \in Candidates(s, f) /\ (strategy = "LOCAL_ONLY" => f[n].type = "UAV")
BY DEF ChoicesOf, Greedy, LocalOnly, Smallest, Uavs, Strategy

(* GREEDY finds a node where any strategy does. *)
LEMMA GreedyFeasible ==
  ASSUME NEW f, Snapshots(f), IsFiniteSet(DOMAIN f), NEW ready \in SUBSET Subtask,
         NEW weight \in Int, NEW weight2 \in Int, NEW strategy \in Strategy,
         NEW plan \in Plans(strategy, ready, f, weight), Feasible(plan),
         NEW greedy \in Plans("GREEDY", ready, f, weight2)
  PROVE  Feasible(greedy)
<1>1. ready # {} /\ \A s \in ready : ChoicesOf(strategy, s, f, weight) # {}
  BY PlanShape
<1>2. \A s \in ready : Candidates(s, f) # {}
  BY <1>1, ChoicesAreCandidates
<1>3. \A s \in ready : ChoicesOf("GREEDY", s, f, weight2) # {}
  BY <1>2, GreedyFinds DEF ChoicesOf
<1> QED
  BY <1>1, <1>3, PlanShape

(* The terms of the totals of a plan. *)
DurationTerms(plan, f) ==
  [s \in DOMAIN plan.assigned |-> compute_duration(s, f[plan.assigned[s]])
                                    + transfer_duration(s, f[plan.assigned[s]])]
EnergyTerms(plan, f) == [s \in DOMAIN plan.assigned |-> energy(s, f[plan.assigned[s]])]

LEMMA TermTypes ==
  ASSUME NEW f, Snapshots(f), NEW ready \in SUBSET Subtask, NEW weight \in Int,
         NEW strategy \in Strategy, NEW plan \in Plans(strategy, ready, f, weight), Feasible(plan)
  PROVE  /\ DOMAIN plan.assigned = ready /\ IsFiniteSet(ready)
         /\ DurationTerms(plan, f) \in [ready -> Int] /\ EnergyTerms(plan, f) \in [ready -> Int]
         /\ \A s \in ready :
              /\ plan.assigned[s] \in Candidates(s, f)
              /\ Cost(DurationTerms(plan, f)[s], EnergyTerms(plan, f)[s], weight)
                   = score(s, f[plan.assigned[s]], weight)
<1>1. DOMAIN plan.assigned = ready /\ IsFiniteSet(ready)
  BY PlanShape, SubtaskAssumption, FS_Subset
<1>2. \A s \in ready : plan.assigned[s] \in Candidates(s, f)
  BY PlanShape, ChoicesAreCandidates
<1>3. \A s \in ready : /\ compute_duration(s, f[plan.assigned[s]]) \in Int
                       /\ transfer_duration(s, f[plan.assigned[s]]) \in Int
                       /\ energy(s, f[plan.assigned[s]]) \in Int
  <2> SUFFICES ASSUME NEW s \in ready
               PROVE  /\ compute_duration(s, f[plan.assigned[s]]) \in Int
                      /\ transfer_duration(s, f[plan.assigned[s]]) \in Int
                      /\ energy(s, f[plan.assigned[s]]) \in Int
    OBVIOUS
  <2>1. f[plan.assigned[s]] \in NodeSnapshot /\ f[plan.assigned[s]].cpu > 0
    BY <1>2, CandidateKeys
  <2> QED
    BY <2>1, EstimateTypes
<1>4. DurationTerms(plan, f) \in [ready -> Int]
  BY <1>1, <1>3 DEF DurationTerms
<1>5. EnergyTerms(plan, f) \in [ready -> Int]
  BY <1>1, <1>3 DEF EnergyTerms
<1>6. \A s \in ready : Cost(DurationTerms(plan, f)[s], EnergyTerms(plan, f)[s], weight)
                         = score(s, f[plan.assigned[s]], weight)
  BY <1>1 DEF DurationTerms, EnergyTerms, score
<1> QED
  BY <1>1, <1>2, <1>4, <1>5, <1>6

(* A GREEDY plan costs no more than any other plan for the same subtasks. *)
LEMMA GreedyCheapest ==
  ASSUME NEW f, Snapshots(f), NEW ready \in SUBSET Subtask, NEW weight \in Int,
         NEW greedy \in Plans("GREEDY", ready, f, weight), Feasible(greedy),
         NEW strategy \in Strategy, NEW plan \in Plans(strategy, ready, f, weight), Feasible(plan)
  PROVE  Cost(TotalDuration(greedy, f), TotalEnergy(greedy, f), weight)
           <= Cost(TotalDuration(plan, f), TotalEnergy(plan, f), weight)
<1> DEFINE d == DurationTerms(greedy, f)
           e == EnergyTerms(greedy, f)
           d2 == DurationTerms(plan, f)
           e2 == EnergyTerms(plan, f)
<1>1. "GREEDY" \in Strategy
  BY DEF Strategy
<1>2. /\ DOMAIN greedy.assigned = ready /\ IsFiniteSet(ready) /\ DOMAIN plan.assigned = ready
      /\ d \in [ready -> Int] /\ e \in [ready -> Int]
      /\ d2 \in [ready -> Int] /\ e2 \in [ready -> Int]
  BY <1>1, TermTypes
<1>3. \A s \in ready : Cost(d[s], e[s], weight) <= Cost(d2[s], e2[s], weight)
  <2> SUFFICES ASSUME NEW s \in ready PROVE Cost(d[s], e[s], weight) <= Cost(d2[s], e2[s], weight)
    OBVIOUS
  <2>1. /\ Cost(d[s], e[s], weight) = score(s, f[greedy.assigned[s]], weight)
        /\ Cost(d2[s], e2[s], weight) = score(s, f[plan.assigned[s]], weight)
        /\ plan.assigned[s] \in Candidates(s, f)
    BY <1>1, TermTypes
  <2>2. greedy.assigned[s] \in Greedy(s, f, weight)
    BY PlanShape DEF ChoicesOf
  <2> QED
    BY <2>1, <2>2, GreedyLeast
<1>4. PICK gd, gd2 : /\ Sums(gd, d, ready) /\ TotalDuration(greedy, f) = gd[ready]
                     /\ Sums(gd2, d2, ready) /\ TotalDuration(plan, f) = gd2[ready]
  <2>1. /\ \A s \in ready : d[s] = compute_duration(s, f[greedy.assigned[s]])
                                     + transfer_duration(s, f[greedy.assigned[s]])
        /\ \A s \in ready : d2[s] = compute_duration(s, f[plan.assigned[s]])
                                      + transfer_duration(s, f[plan.assigned[s]])
    BY <1>2 DEF DurationTerms
  <2> HIDE DEF d, d2
  <2> QED
    BY <1>2, <2>1, DurationSum
<1>5. PICK ge, ge2 : /\ Sums(ge, e, ready) /\ TotalEnergy(greedy, f) = ge[ready]
                     /\ Sums(ge2, e2, ready) /\ TotalEnergy(plan, f) = ge2[ready]
  <2>1. /\ \A s \in ready : e[s] = energy(s, f[greedy.assigned[s]])
        /\ \A s \in ready : e2[s] = energy(s, f[plan.assigned[s]])
    BY <1>2 DEF EnergyTerms
  <2> HIDE DEF e, e2
  <2> QED
    BY <1>2, <2>1, EnergySum
<1> HIDE DEF d, e, d2, e2
<1> QED
  BY <1>2, <1>3, <1>4, <1>5, SumsCompare

(* Only finitely many nodes are listed. *)
LEMMA FewSnapshots ==
  ASSUME SnapshotInv
  PROVE  IsFiniteSet(DOMAIN snaps)
<1>1. DOMAIN snaps \subseteq Node
  BY DEF SnapshotInv, Rows
<1> QED
  BY <1>1, NodeAssumption, FS_Subset

(* A GREEDY plan costs least of all the plans that could be made from the
   nodes it saw, and it refuses only when there is none. *)
THEOREM GreedyPlansAreCheapest == Spec => []GreedyIsCheapest
<1>1. ASSUME RegistryIInv, SnapshotInv, AnswerInv PROVE GreedyIsCheapest
  <2>1. /\ Snapshots(snaps) /\ Weight \subseteq Int /\ IsFiniteSet(DOMAIN snaps)
        /\ "RANDOM_OFFLOAD" \in Strategy
    BY <1>1, SnapshotsOfRows, WeightAssumption, FewSnapshots DEF Strategy
  <2>2. SUFFICES ASSUME answer.at = "planned", answer.strategy = "GREEDY"
                 PROVE  LET others == {p \in Plans("RANDOM_OFFLOAD", answer.ready, snaps,
                                                   answer.weight) : Feasible(p)}
                            TotalCost(p) == Cost(TotalDuration(p, snaps), TotalEnergy(p, snaps),
                                                 answer.weight)
                        IN  IF Feasible(answer.plan)
                            THEN \A p \in others : TotalCost(answer.plan) <= TotalCost(p)
                            ELSE others = {}
    BY DEF GreedyIsCheapest
  <2>3. /\ answer.ready \in SUBSET Subtask /\ answer.weight \in Int
        /\ answer.plan \in Plans("GREEDY", answer.ready, snaps, answer.weight)
    BY <1>1, <2>1, <2>2 DEF AnswerInv
  <2>4. ASSUME NEW p \in Plans("RANDOM_OFFLOAD", answer.ready, snaps, answer.weight), Feasible(p)
        PROVE  /\ Feasible(answer.plan)
               /\ Cost(TotalDuration(answer.plan, snaps), TotalEnergy(answer.plan, snaps),
                       answer.weight)
                    <= Cost(TotalDuration(p, snaps), TotalEnergy(p, snaps), answer.weight)
    <3>1. Feasible(answer.plan)
      BY <2>1, <2>3, <2>4, GreedyFeasible
    <3> QED
      BY <2>1, <2>3, <2>4, <3>1, GreedyCheapest
  <2> QED
    BY <2>4
<1> QED
  BY <1>1, RegistryInvariance, SnapshotInvariance, AnswerInvariance, PTL
-----------------------------------------------------------------------------
(* Every subtask of a feasible plan is counted once. *)
LEMMA CountedOnce ==
  ASSUME NEW f, Snapshots(f), NEW ready \in SUBSET Subtask, NEW weight \in Int,
         NEW strategy \in Strategy, NEW plan \in Plans(strategy, ready, f, weight), Feasible(plan)
  PROVE  AssignedTo("UAV", plan, f) + AssignedTo("EDGE", plan, f) = Cardinality(ready)
<1> DEFINE U == {s \in ready : f[plan.assigned[s]].type = "UAV"}
           E == {s \in ready : f[plan.assigned[s]].type = "EDGE"}
<1>1. DOMAIN plan.assigned = ready /\ IsFiniteSet(ready)
  BY TermTypes
<1>2. \A s \in ready : f[plan.assigned[s]].type \in {"UAV", "EDGE"}
  BY TermTypes, CandidateKeys DEF NodeSnapshot, Type
<1>3. U \cup E = ready /\ U \cap E = {}
  BY <1>2
<1>4. IsFiniteSet(U) /\ IsFiniteSet(E)
  BY <1>1, FS_Subset
<1>5. AssignedTo("UAV", plan, f) = Cardinality(U) /\ AssignedTo("EDGE", plan, f) = Cardinality(E)
  BY <1>1 DEF AssignedTo
<1> HIDE DEF U, E
<1>6. Cardinality(U) \in Nat /\ Cardinality(E) \in Nat
  BY <1>4, FS_CardinalityType
<1>7. Cardinality(U \cup E) = Cardinality(U) + Cardinality(E) - Cardinality(U \cap E)
  BY <1>4, FS_Union
<1>8. Cardinality(U \cap E) = 0
  BY <1>3, FS_EmptySet
<1>9. Cardinality(U \cup E) = Cardinality(ready)
  BY <1>3
<1> QED
  BY <1>5, <1>6, <1>7, <1>8, <1>9

(* LOCAL_ONLY sends nothing to the edge. *)
LEMMA NothingAtTheEdge ==
  ASSUME NEW f, NEW ready, NEW weight, NEW plan \in Plans("LOCAL_ONLY", ready, f, weight)
  PROVE  AssignedTo("EDGE", plan, f) = 0
<1>1. \A s \in DOMAIN plan.assigned : f[plan.assigned[s]].type = "UAV"
  BY PlanShape, ChoicesAreCandidates DEF Strategy
<1>2. {s \in DOMAIN plan.assigned : f[plan.assigned[s]].type = "EDGE"} = {}
  BY <1>1
<1> QED
  BY <1>2, FS_EmptySet DEF AssignedTo

LEMMA CompareIsConsistent ==
  ASSUME RegistryIInv, SnapshotInv, NEW ready \in SUBSET Subtask, Compare(ready)
  PROVE  ComparisonConsistent'
<1>1. PICK random \in Plans("RANDOM_OFFLOAD", ready, snaps, DefaultWeight),
           local \in Plans("LOCAL_ONLY", ready, snaps, DefaultWeight),
           greedy \in Plans("GREEDY", ready, snaps, DefaultWeight) :
        answer' = [at |-> "compared",
                   items |-> [LOCAL_ONLY |-> ComparisonItem(local, ready, snaps),
                              RANDOM_OFFLOAD |-> ComparisonItem(random, ready, snaps),
                              GREEDY |-> ComparisonItem(greedy, ready, snaps)]]
  BY DEF Compare
<1>2. Snapshots(snaps) /\ IsFiniteSet(DOMAIN snaps) /\ DefaultWeight \in Int
  BY SnapshotsOfRows, FewSnapshots DEF DefaultWeight
<1> DEFINE plan == [LOCAL_ONLY |-> local, RANDOM_OFFLOAD |-> random, GREEDY |-> greedy]
<1>3. \A s \in Strategy : plan[s] \in Plans(s, ready, snaps, DefaultWeight)
  <2>1. /\ plan["RANDOM_OFFLOAD"] = random /\ plan["LOCAL_ONLY"] = local
        /\ plan["GREEDY"] = greedy
    OBVIOUS
  <2> HIDE DEF plan
  <2> QED
    BY <1>1, <2>1 DEF Strategy
<1>4. \A s \in Strategy : answer'.items[s] = ComparisonItem(plan[s], ready, snaps)
  BY <1>1 DEF Strategy
<1> HIDE DEF plan
<1>5. {"LOCAL_ONLY", "RANDOM_OFFLOAD", "GREEDY"} = Strategy
  BY DEF Strategy
<1>6. \A s \in Strategy :
        /\ answer'.items[s].code = plan[s].code
        /\ answer'.items[s].count = Cardinality(ready)
        /\ answer'.items[s].duration = TotalDuration(plan[s], snaps)
        /\ answer'.items[s].energy = TotalEnergy(plan[s], snaps)
        /\ answer'.items[s].local = AssignedTo("UAV", plan[s], snaps)
        /\ answer'.items[s].edge = AssignedTo("EDGE", plan[s], snaps)
  <2> SUFFICES ASSUME NEW s \in Strategy
               PROVE  /\ answer'.items[s].code = plan[s].code
                      /\ answer'.items[s].count = Cardinality(ready)
                      /\ answer'.items[s].duration = TotalDuration(plan[s], snaps)
                      /\ answer'.items[s].energy = TotalEnergy(plan[s], snaps)
                      /\ answer'.items[s].local = AssignedTo("UAV", plan[s], snaps)
                      /\ answer'.items[s].edge = AssignedTo("EDGE", plan[s], snaps)
    OBVIOUS
  <2>1. answer'.items[s] = ComparisonItem(plan[s], ready, snaps)
    BY <1>4
  <2> QED
    BY <2>1 DEF ComparisonItem
<1>7. \A s \in Strategy : plan[s].code = "NO_SCHEDULABLE_SUBTASK" <=> ready = {}
  BY <1>3, PlanShape
<1>8. \A s \in Strategy : Feasible(plan[s]) => Feasible(plan["GREEDY"])
  BY <1>2, <1>3, <1>5, GreedyFeasible
<1>9. Feasible(plan["GREEDY"]) => Feasible(plan["RANDOM_OFFLOAD"])
  <2>1. \A s \in ready : ChoicesOf("GREEDY", s, snaps, DefaultWeight) # {}
                           => ChoicesOf("RANDOM_OFFLOAD", s, snaps, DefaultWeight) # {}
    BY DEF ChoicesOf, Greedy, Smallest
  <2>2. /\ plan["GREEDY"] \in Plans("GREEDY", ready, snaps, DefaultWeight)
        /\ plan["RANDOM_OFFLOAD"] \in Plans("RANDOM_OFFLOAD", ready, snaps, DefaultWeight)
    BY <1>3, <1>5
  <2>3. /\ Feasible(plan["GREEDY"]) =>
             ready # {} /\ \A s \in ready : ChoicesOf("GREEDY", s, snaps, DefaultWeight) # {}
        /\ ready # {} /\ (\A s \in ready : ChoicesOf("RANDOM_OFFLOAD", s, snaps, DefaultWeight) # {})
             => Feasible(plan["RANDOM_OFFLOAD"])
    BY <2>2, PlanShape
  <2> QED
    BY <2>1, <2>3
<1>10. AssignedTo("EDGE", plan["LOCAL_ONLY"], snaps) = 0
  BY <1>3, <1>5, NothingAtTheEdge
<1>11. \A s \in Strategy : Feasible(plan[s]) =>
         /\ AssignedTo("UAV", plan[s], snaps) + AssignedTo("EDGE", plan[s], snaps)
              = Cardinality(ready)
         /\ Cost(TotalDuration(plan["GREEDY"], snaps), TotalEnergy(plan["GREEDY"], snaps),
                 DefaultWeight)
              <= Cost(TotalDuration(plan[s], snaps), TotalEnergy(plan[s], snaps), DefaultWeight)
  BY <1>2, <1>3, <1>5, <1>8, CountedOnce, GreedyCheapest
<1>12. \A s \in Strategy : Feasible(answer'.items[s]) <=> Feasible(plan[s])
  BY <1>6 DEF Feasible
<1> QED
  BY <1>5, <1>6, <1>7, <1>8, <1>9, <1>10, <1>11, <1>12 DEF ComparisonConsistent

(* The items of every comparison agree, and by the totals shown GREEDY is
   nowhere beaten. *)
THEOREM ComparisonsAreConsistent == Spec => []ComparisonConsistent
<1>1. Init => ComparisonConsistent
  BY DEF Init, NoAnswer, ComparisonConsistent
<1>2. ASSUME RegistryIInv, SnapshotInv, ComparisonConsistent, [Next]_vars
      PROVE  ComparisonConsistent'
  <2>1. CASE UNCHANGED answer
    BY <1>2, <2>1 DEF ComparisonConsistent
  <2>2. CASE answer'.at # "compared"
    BY <2>2 DEF ComparisonConsistent
  <2>3. ASSUME NEW ready \in SUBSET Subtask, Compare(ready) PROVE ComparisonConsistent'
    BY <1>2, <2>3, CompareIsConsistent
  <2> QED
    <3>1. UNCHANGED answer \/ answer'.at # "compared" \/ \E ready \in SUBSET Subtask : Compare(ready)
      <4>1. ASSUME ListNodes PROVE answer'.at # "compared"
        BY <4>1 DEF ListNodes, Underway
      <4>2. ASSUME NEW n \in Node, ReadRecord(n) PROVE UNCHANGED answer
        BY <4>2 DEF ReadRecord
      <4>3. ASSUME NEW strategy, NEW ready, NEW weight, Generate(strategy, ready, weight)
            PROVE  answer'.at # "compared"
        BY <4>3 DEF Generate
      <4> QED
        BY <1>2, <4>1, <4>2, <4>3 DEF Next, vars, planningVars
    <3> QED
      BY <2>1, <2>2, <2>3, <3>1
<1> QED
  BY <1>1, <1>2, RegistryInvariance, SnapshotInvariance, PTL DEF Spec
=============================================================================
