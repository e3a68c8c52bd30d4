---------------------------- MODULE NodeRegistry ----------------------------
(***************************************************************************)
(* The nodes and their status records.  A registration looks its name up   *)
(* and then inserts a row; a status report loads the row of its node and   *)
(* then saves it together with a new record.  Each is a READ COMMITTED     *)
(* transaction: what it looked up or loaded may have changed when it       *)
(* writes, and the unit of work updates only the columns it changed.       *)
(*                                                                         *)
(* Nothing ever sets OFFLINE, and nothing deletes a row or a record.       *)
(***************************************************************************)
EXTENDS SchedulerStrategies

CONSTANTS
  Node,          \* requests to register a node, and the rows they insert
  Registered,    \* the data of these requests
  Session,       \* handlers of status reports
  Report,        \* what may be reported
  MaxReports     \* bound: status reports, saved or under way

ASSUME NodeAssumption == IsFiniteSet(Node)

ASSUME RegisteredAssumption ==
  Registered \in [Node -> [name : Nat, type : Type, cpu : Nat \ {0}]]

Optional == Nat \cup {None}

ASSUME ReportAssumption ==
  /\ None \notin Nat
  /\ \A d \in Report : d \in [at : Nat, usage : 0..100, memory : 0..100,
                             bandwidth : Optional, queue : Optional, load : Optional]

VARIABLES
  phase,      \* how far each request to register is
  nodes,      \* the mutable columns of each row of nodes
  records,    \* node_status_records of each node, in order of insertion
  session     \* the report of each session, and the row it loaded

registryVars == <<phase, nodes, records, session>>

Row == [status : {"ONLINE", "BUSY"}, heartbeat : {d.at : d \in Report} \cup {None}]
Idle == [node |-> None]

(* cpu_capacity as the column rounds it, to two of the three decimals given
   here: the smallest capacities round to zero *)
StoredCapacity(n) == (Registered[n].cpu + 5) \div 10

Rows == {n \in Node : phase[n] = "registered"}
Named(name) == {n \in Rows : Registered[n].name = name}

(* CHECK (cpu_capacity > 0) of the table, on the rounded value *)
CapacityPositive(n) == StoredCapacity(n) > 0

RegistryInit ==
  /\ phase = [n \in Node |-> "new"]
  /\ nodes = [n \in Node |-> [status |-> "ONLINE", heartbeat |-> None]]
  /\ records = [n \in Node |-> <<>>]
  /\ session = [x \in Session |-> Idle]
-----------------------------------------------------------------------------
(* create_node looks the name up: a taken one is refused *)
LookUpName(n) ==
  /\ phase[n] = "new"
  /\ phase' = [phase EXCEPT ![n] =
                 IF Named(Registered[n].name) = {} THEN "free" ELSE "refused"]
  /\ UNCHANGED <<nodes, records, session>>

(* (mutant: the lookup is all that keeps names apart) *)
InsertUnchecked(n) ==
  /\ phase[n] = "free"
  /\ phase' = [phase EXCEPT ![n] = IF CapacityPositive(n) THEN "registered" ELSE "refused"]
  /\ UNCHANGED <<nodes, records, session>>

(* the row is inserted and committed, unless the unique key on the name or the
   CHECK on the capacity refuses it: an IntegrityError, and a rollback *)
Insert(n) ==
  /\ phase[n] = "free"
  /\ phase' = [phase EXCEPT ![n] =
                 IF Named(Registered[n].name) = {} /\ CapacityPositive(n)
                 THEN "registered" ELSE "refused"]
  /\ UNCHANGED <<nodes, records, session>>

_resolve_node_status(d) ==
  IF \/ d.usage >= 90
     \/ d.memory >= 90
     \/ d.queue # None /\ d.queue >= 10
     \/ d.load # None /\ d.load >= 10
  THEN "BUSY" ELSE "ONLINE"

ReportsTaken ==
  MapThenSumSet(LAMBDA n : Len(records[n]), Node)
    + Cardinality({x \in Session : session[x] # Idle})

(* report_status loads the row of the node; an unknown node is refused *)
LoadNode(x, n, d) ==
  /\ session[x] = Idle
  /\ ReportsTaken < MaxReports
  /\ n \in Rows
  /\ session' = [session EXCEPT ![x] = [node |-> n, data |-> d, loaded |-> nodes[n]]]
  /\ UNCHANGED <<phase, nodes, records>>

(* the columns of the UPDATE: those that differ from the loaded row *)
Updated(row, loaded, d) ==
  [status |-> IF _resolve_node_status(d) = loaded.status
              THEN row.status ELSE _resolve_node_status(d),
   heartbeat |-> IF d.at = loaded.heartbeat THEN row.heartbeat ELSE d.at]

(* the row and the record are flushed and committed *)
Save(x) ==
  LET n == session[x].node
      d == session[x].data
  IN  /\ session[x] # Idle
      /\ nodes' = [nodes EXCEPT ![n] = Updated(@, session[x].loaded, d)]
      /\ records' = [records EXCEPT ![n] = Append(@, d)]
      /\ session' = [session EXCEPT ![x] = Idle]
      /\ UNCHANGED phase

RegistryNext ==
  \/ \E n \in Node : LookUpName(n) \/ Insert(n)
  \/ \E x \in Session : \E n \in Node, d \in Report : LoadNode(x, n, d)
  \/ \E x \in Session : Save(x)
-----------------------------------------------------------------------------
RecordsOf(n) == {records[n][i] : i \in DOMAIN records[n]}

(* list_by_status(ONLINE) *)
Online == {n \in Rows : nodes[n].status = "ONLINE"}

(* (mutant: the latest record is the one inserted last) *)
LastInserted(n) ==
  IF records[n] = <<>> THEN {} ELSE {records[n][Len(records[n])]}

(* get_latest_status_record: any of several reported at the same time *)
Latest(n) == {d \in RecordsOf(n) : \A e \in RecordsOf(n) : d.at >= e.at}

(***************************************************************************)
(* However registrations and reports interleave, no two rows have one      *)
(* name, although each registration only looked before it inserted, and no *)
(* row has the capacity zero, although the request is rounded; only        *)
(* registered nodes have records; and although a report overwrites only    *)
(* the columns in which it differs from what it loaded, a row never shows  *)
(* what was not reported: its heartbeat is the time of one of its records, *)
(* and its status is what one of them resolves to.                         *)
(***************************************************************************)
RegistryInv ==
  /\ phase \in [Node -> {"new", "free", "registered", "refused"}]
  /\ nodes \in [Node -> Row]
  /\ \A n \in Node : RecordsOf(n) \subseteq Report
  /\ \A m, n \in Rows : Registered[m].name = Registered[n].name => m = n
  /\ \A n \in Rows : CapacityPositive(n)
  /\ \A n \in Node \ Rows : records[n] = <<>>
  /\ \A n \in Rows :
       IF records[n] = <<>>
       THEN nodes[n] = [status |-> "ONLINE", heartbeat |-> None]
       ELSE /\ \E d \in RecordsOf(n) : nodes[n].heartbeat = d.at
            /\ \E d \in RecordsOf(n) : nodes[n].status = _resolve_node_status(d)
=============================================================================
