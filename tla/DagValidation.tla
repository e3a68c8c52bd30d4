--------------------------- MODULE DagValidation ---------------------------
(***************************************************************************)
(* validate_dag of app/domain/dag.py: Kahn's algorithm as it runs, with    *)
(* its counters and its queue, on the lists a request carries.  A          *)
(* dependency may be listed twice; it then counts twice, both when the     *)
(* counters are set up and when they are taken down.                       *)
(***************************************************************************)
EXTENDS Naturals, Sequences, FiniteSets

CONSTANTS
  Name,     \* the names a request may use
  Request   \* the requests considered: lists of subtasks and dependencies

ASSUME RequestAssumption ==
  Request \subseteq [ids : Seq(Name), deps : Seq(Name \X Name)]

VARIABLES
  request,    \* the arguments, never changed
  at,         \* where the call is, or how it ended
  incoming,   \* incoming_count
  queue,      \* the deque
  current,    \* the subtask whose successors are visited
  next,       \* the position in deps of the next edge to look at
  visited     \* visited_count

vars == <<request, at, incoming, queue, current, next, visited>>

Members(s) == {s[j] : j \in DOMAIN s}
Ids == Members(request.ids)
Edges == DOMAIN request.deps
From(j) == request.deps[j][1]
To(j) == request.deps[j][2]

(* The checks before the graph is looked at. *)
WellFormed ==
  /\ request.ids # <<>>
  /\ Cardinality(Ids) = Len(request.ids)
  /\ \A j \in Edges : {From(j), To(j)} \subseteq Ids /\ From(j) # To(j)

(* (mutant: the predecessors are counted, not the dependencies) *)
CountPredecessors(s) == Cardinality({From(j) : j \in {k \in Edges : To(k) = s}})

CountIncoming(s) == Cardinality({j \in Edges : To(j) = s})

(* The ways to put a set in a row: the order of the ids decides nothing.   *)
OnceEach(q) == \A j, k \in DOMAIN q : q[j] = q[k] => j = k

Rows(S) == {q \in [1..Cardinality(S) -> S] : OnceEach(q) /\ Members(q) = S}

Init ==
  /\ request \in Request
  /\ at = "start"
  /\ incoming = <<>> /\ queue = <<>> /\ current = <<>>
  /\ next = 1 /\ visited = 0

Refuse ==
  /\ at = "start" /\ ~WellFormed
  /\ at' = "refused"
  /\ UNCHANGED <<request, incoming, queue, current, next, visited>>

SetUp ==
  /\ at = "start" /\ WellFormed
  /\ at' = "picking"
  /\ incoming' = [s \in Ids |-> CountIncoming(s)]
  /\ queue' \in Rows({s \in Ids : CountIncoming(s) = 0})
  /\ visited' = 0
  /\ UNCHANGED <<request, current, next>>

Pick ==
  /\ at = "picking" /\ queue # <<>>
  /\ at' = "visiting"
  /\ current' = Head(queue)
  /\ queue' = Tail(queue)
  /\ visited' = visited + 1
  /\ next' = 1
  /\ UNCHANGED <<request, incoming>>

(* (mutant: a successor is queued whenever it is reached) *)
AlwaysFree(count) == TRUE

IsFree(count) == count = 0

(* The edges of current, in the order in which the request lists them. *)
Visit ==
  /\ at = "visiting" /\ next \in Edges
  /\ next' = next + 1
  /\ IF From(next) = current
     THEN /\ incoming' = [incoming EXCEPT ![To(next)] = @ - 1]
          /\ queue' = IF IsFree(incoming'[To(next)]) THEN Append(queue, To(next)) ELSE queue
     ELSE UNCHANGED <<incoming, queue>>
  /\ UNCHANGED <<request, at, current, visited>>

Leave ==
  /\ at = "visiting" /\ next \notin Edges
  /\ at' = "picking"
  /\ UNCHANGED <<request, incoming, queue, current, next, visited>>

AllVisited == visited = Len(request.ids)

Finish ==
  /\ at = "picking" /\ queue = <<>>
  /\ at' = IF AllVisited THEN "accepted" ELSE "refused"
  /\ UNCHANGED <<request, incoming, queue, current, next, visited>>

Next == Refuse \/ SetUp \/ Pick \/ Visit \/ Leave \/ Finish

Spec == Init /\ [][Next]_vars
-----------------------------------------------------------------------------
(* Types: above all the counters of the loop never go below zero, however  *)
(* often a dependency is listed.                                           *)
TypeOK ==
  /\ request \in Request
  /\ at \in {"start", "picking", "visiting", "accepted", "refused"}
  /\ next \in Nat \ {0} /\ visited \in Nat
  /\ queue \in Seq(Ids)
  /\ at \in {"picking", "visiting"} =>
       WellFormed /\ incoming \in [Ids -> Nat]
  /\ at = "visiting" => current \in Ids

(* A graph has no cycle when every set of subtasks has a member without    *)
(* predecessors in the set (AcyclicAssumption of TaskOperations).          *)
Predecessors(s) == {From(j) : j \in {k \in Edges : To(k) = s}}

Acyclic ==
  \A S \in SUBSET Ids : S # {} => \E s \in S : Predecessors(s) \cap S = {}

(* validate_dag accepts exactly the non-empty lists of distinct subtasks   *)
(* with dependencies among them that have no cycle, whatever is listed     *)
(* twice and in whatever order.                                            *)
AcceptsExactlyDags ==
  /\ at = "accepted" => WellFormed /\ Acyclic
  /\ at = "refused" => ~(WellFormed /\ Acyclic)
-----------------------------------------------------------------------------
(* The loop invariant.  Free has been in the queue; Done has left it.      *)
Free == {s \in Ids : incoming[s] = 0}
Done == Free \ Members(queue)

(* The edge j has been taken off the counter of its successor. *)
Taken(j) ==
  /\ From(j) \in Done
  /\ at = "visiting" /\ From(j) = current => j < next

Left(s) == {j \in Edges : To(j) = s /\ ~Taken(j)}

(* The counters are the edges that are left; everything is queued once,    *)
(* when its counter reaches zero, and counted when it leaves the queue;    *)
(* what is free has all its predecessors done, so it has no cycle.         *)
LoopInv ==
  at \in {"picking", "visiting"} =>
    /\ \A s \in Ids : incoming[s] = Cardinality(Left(s))
    /\ Members(queue) \subseteq Free
    /\ OnceEach(queue)
    /\ visited = Cardinality(Done)
    /\ at = "visiting" => current \in Done
    /\ \A S \in SUBSET Free : S # {} => \E s \in S : Predecessors(s) \cap S = {}
=============================================================================
