------------------------ MODULE DagValidationProofs ------------------------
(***************************************************************************)
(* validate_dag decides acyclicity, for requests of any size: the loop     *)
(* invariant is inductive, and it gives the answer when the queue is empty.*)
(***************************************************************************)
EXTENDS DagValidation, FiniteSetTheorems, SequenceTheorems, TLAPS

USE RequestAssumption

(* What a sequence holds is a finite part of what it ranges over. *)
LEMMA MembersOfSeq ==
  ASSUME NEW S, NEW q \in Seq(S)
  PROVE  /\ Members(q) \subseteq S
         /\ IsFiniteSet(Members(q))
<1>1. q \in [1..Len(q) -> S] /\ Len(q) \in Nat /\ DOMAIN q = 1..Len(q)
  BY LenProperties
<1>2. Members(q) \subseteq S
  BY <1>1 DEF Members
<1>3. q \in Surjection(1..Len(q), Members(q))
  BY <1>1 DEF Surjection, Members
<1>4. IsFiniteSet(1..Len(q))
  BY <1>1, FS_Interval
<1> QED
  BY <1>2, <1>3, <1>4, FS_Surjection

(* A request has finitely many subtasks and dependencies. *)
LEMMA Finiteness ==
  ASSUME request \in Request
  PROVE  /\ IsFiniteSet(Ids) /\ IsFiniteSet(Edges)
         /\ Edges = 1..Len(request.deps) /\ Len(request.deps) \in Nat
         /\ Len(request.ids) \in Nat
<1>1. request.ids \in Seq(Name) /\ request.deps \in Seq(Name \X Name)
  OBVIOUS
<1>2. IsFiniteSet(Ids)
  BY <1>1, MembersOfSeq DEF Ids
<1>3. Edges = 1..Len(request.deps) /\ Len(request.deps) \in Nat /\ Len(request.ids) \in Nat
  BY <1>1, LenProperties DEF Edges
<1>4. IsFiniteSet(1..Len(request.deps))
  BY <1>3, FS_Interval
<1> QED
  BY <1>2, <1>3, <1>4

(* Sets of edges and of subtasks can be counted. *)
LEMMA Countable ==
  ASSUME request \in Request
  PROVE  /\ \A T \in SUBSET Edges : IsFiniteSet(T) /\ Cardinality(T) \in Nat
         /\ \A T \in SUBSET Ids : IsFiniteSet(T) /\ Cardinality(T) \in Nat
BY Finiteness, FS_Subset, FS_CardinalityType

(* Head and tail of a queue that holds everything once. *)
LEMMA HeadOnce ==
  ASSUME NEW S, NEW q \in Seq(S), q # <<>>, OnceEach(q)
  PROVE  /\ Head(q) \in Members(q) /\ Tail(q) \in Seq(S) /\ OnceEach(Tail(q))
         /\ Members(Tail(q)) = Members(q) \ {Head(q)}
<1>1. /\ DOMAIN q = 1..Len(q) /\ Len(q) \in Nat \ {0}
      /\ Tail(q) \in Seq(S) /\ Len(Tail(q)) = Len(q) - 1
      /\ \A i \in 1..Len(Tail(q)) : Tail(q)[i] = q[i + 1]
  BY HeadTailProperties, LenProperties, EmptySeq
<1>2. DOMAIN Tail(q) = 1..(Len(q) - 1)
  BY <1>1, LenProperties
<1>3. Head(q) = q[1]
  BY <1>1
<1>4. Head(q) \in Members(q)
  BY <1>1, <1>3 DEF Members
<1>5. OnceEach(Tail(q))
  BY <1>1, <1>2 DEF OnceEach
<1>6. Members(Tail(q)) \subseteq Members(q) \ {Head(q)}
  BY <1>1, <1>2, <1>3 DEF Members, OnceEach
<1>7. ASSUME NEW x \in Members(q) \ {Head(q)}
      PROVE  x \in Members(Tail(q))
  <2>1. PICK j \in 1..Len(q) : q[j] = x
    BY <1>1 DEF Members
  <2>2. j - 1 \in DOMAIN Tail(q) /\ Tail(q)[j - 1] = x
    BY <1>1, <1>2, <1>3, <2>1
  <2> QED
    BY <2>2 DEF Members
<1> QED
  BY <1>1, <1>4, <1>5, <1>6, <1>7

(* Appending what the queue does not hold keeps everything once. *)
LEMMA AppendOnce ==
  ASSUME NEW S, NEW q \in Seq(S), NEW x \in S, OnceEach(q), x \notin Members(q)
  PROVE  /\ Append(q, x) \in Seq(S) /\ OnceEach(Append(q, x))
         /\ Members(Append(q, x)) = Members(q) \cup {x}
<1> DEFINE r == Append(q, x)
<1>1. DOMAIN q = 1..Len(q) /\ Len(q) \in Nat
  BY LenProperties
<1>2. r \in Seq(S) /\ DOMAIN r = 1..(Len(q) + 1)
  BY <1>1, AppendProperties, LenProperties
<1>3. /\ \A j \in 1..Len(q) : r[j] = q[j]
      /\ r[Len(q) + 1] = x
  BY <1>1, AppendProperties
<1> HIDE DEF r
<1>4. \A j \in DOMAIN q : q[j] # x
  BY DEF Members
<1>5. OnceEach(r)
  BY <1>1, <1>2, <1>3, <1>4 DEF OnceEach
<1>6. Members(r) = Members(q) \cup {x}
  <2>1. Members(r) \subseteq Members(q) \cup {x}
    BY <1>1, <1>2, <1>3 DEF Members
  <2>2. Members(q) \subseteq Members(r)
    BY <1>1, <1>2, <1>3 DEF Members
  <2>3. Len(q) + 1 \in DOMAIN r
    BY <1>1, <1>2
  <2>4. x \in Members(r)
    BY <1>3, <2>3 DEF Members
  <2> QED
    BY <2>1, <2>2, <2>4
<1> QED
  BY <1>2, <1>5, <1>6 DEF r
-----------------------------------------------------------------------------
(* The inductive invariant. *)
IInv == TypeOK /\ LoopInv /\ AcceptsExactlyDags

(* The request does not change, nor does what is read off it. *)
LEMMA RequestFixed ==
  ASSUME request' = request
  PROVE  /\ Ids' = Ids /\ Edges' = Edges /\ WellFormed' = WellFormed
         /\ \A j : From(j)' = From(j) /\ To(j)' = To(j)
         /\ \A s : Predecessors(s)' = Predecessors(s)
BY DEF Ids, Members, Edges, From, To, WellFormed, Predecessors

(* What has no edge into it has no predecessor. *)
LEMMA NoIncoming ==
  ASSUME request \in Request, NEW s \in Ids, CountIncoming(s) = 0
  PROVE  \A j \in Edges : To(j) # s
<1> DEFINE T == {j \in Edges : To(j) = s}
<1>1. IsFiniteSet(T) /\ Cardinality(T) = 0
  BY Countable DEF CountIncoming
<1>2. T = {}
  BY <1>1, FS_EmptySet
<1> QED
  BY <1>2

(* Nothing is done yet; what is queued has no incoming edge. *)
LEMMA SetUpStep ==
  ASSUME IInv, SetUp
  PROVE  IInv'
<1> DEFINE Z == {s \in Ids : CountIncoming(s) = 0}
<1>1. /\ request \in Request /\ request' = request /\ at' = "picking" /\ WellFormed
      /\ incoming' = [s \in Ids |-> CountIncoming(s)]
      /\ next' = next /\ visited' = 0
  BY DEF IInv, TypeOK, SetUp
<1>2. /\ queue' \in [1..Cardinality(Z) -> Z] /\ OnceEach(queue') /\ Members(queue') = Z
  BY DEF SetUp, Rows
<1>3. /\ Ids' = Ids /\ Edges' = Edges /\ WellFormed'
      /\ \A j : From(j)' = From(j) /\ To(j)' = To(j)
      /\ \A s : Predecessors(s)' = Predecessors(s)
  BY <1>1, RequestFixed
<1>4. Cardinality(Z) \in Nat /\ \A s \in Ids : CountIncoming(s) \in Nat
  <2>1. \A s \in Ids : {j \in Edges : To(j) = s} \in SUBSET Edges
    OBVIOUS
  <2> QED
    BY <1>1, <2>1, Countable DEF CountIncoming
<1>5. queue' \in Seq(Ids)
  <2>1. PICK n \in Nat : n = Cardinality(Z)
    BY <1>4
  <2>2. queue' \in [1..n -> Ids]
    BY <1>2, <2>1
  <2> QED
    BY <2>2, SeqDef
<1>6. Free' = Z /\ Done' = {} /\ Members(queue)' = Z /\ OnceEach(queue)'
  BY <1>1, <1>2, <1>3 DEF Free, Done, Members, OnceEach
<1>7. \A s : Left(s)' = {j \in Edges : To(j) = s}
  BY <1>3, <1>6 DEF Left, Taken
<1>8. \A t \in Z : Predecessors(t) = {}
  BY <1>1, NoIncoming DEF Predecessors
<1>9. TypeOK'
  BY <1>1, <1>3, <1>4, <1>5 DEF IInv, TypeOK
<1>10. LoopInv'
  <2>1. \A s \in Ids' : incoming'[s] = Cardinality(Left(s)')
    BY <1>1, <1>3, <1>7 DEF CountIncoming
  <2>2. visited' = Cardinality(Done')
    BY <1>1, <1>6, FS_EmptySet
  <2>3. \A S \in SUBSET Free' : S # {} => \E s \in S : Predecessors(s)' \cap S = {}
    BY <1>3, <1>6, <1>8
  <2> QED
    BY <1>1, <1>6, <2>1, <2>2, <2>3 DEF LoopInv
<1>11. AcceptsExactlyDags'
  BY <1>1 DEF AcceptsExactlyDags
<1> QED
  BY <1>9, <1>10, <1>11 DEF IInv

(* The head of the queue is done, but none of its edges is taken yet. *)
LEMMA PickStep ==
  ASSUME IInv, Pick
  PROVE  IInv'
<1>1. /\ request \in Request /\ request' = request /\ at = "picking" /\ at' = "visiting"
      /\ WellFormed /\ incoming \in [Ids -> Nat] /\ incoming' = incoming
      /\ queue \in Seq(Ids) /\ queue # <<>> /\ queue' = Tail(queue)
      /\ current' = Head(queue) /\ next' = 1
      /\ visited \in Nat /\ visited' = visited + 1
  BY DEF IInv, TypeOK, Pick
<1>2. /\ \A s \in Ids : incoming[s] = Cardinality(Left(s))
      /\ Members(queue) \subseteq Free /\ OnceEach(queue)
      /\ visited = Cardinality(Done)
      /\ \A S \in SUBSET Free : S # {} => \E s \in S : Predecessors(s) \cap S = {}
  BY <1>1 DEF IInv, LoopInv
<1>3. /\ Ids' = Ids /\ Edges' = Edges /\ WellFormed'
      /\ \A j : From(j)' = From(j) /\ To(j)' = To(j)
      /\ \A s : Predecessors(s)' = Predecessors(s)
  BY <1>1, RequestFixed
<1>4. /\ current' \in Members(queue) /\ queue' \in Seq(Ids) /\ OnceEach(queue')
      /\ Members(queue') = Members(queue) \ {current'}
  BY <1>1, <1>2, HeadOnce
<1>5. Members(queue)' = Members(queue') /\ (OnceEach(queue)' <=> OnceEach(queue'))
  BY DEF Members, OnceEach
<1>6. Free' = Free
  BY <1>1, <1>3 DEF Free
<1>7. Done' = Done \cup {current'} /\ current' \notin Done
  BY <1>2, <1>4, <1>5, <1>6 DEF Done
<1>8. \A j \in Edges : Taken(j)' <=> Taken(j)
  <2>1. Edges \subseteq Nat \ {0}
    BY <1>1, Finiteness
  <2> QED
    BY <1>1, <1>3, <1>7, <2>1 DEF Taken
<1>9. \A s : Left(s)' = Left(s)
  BY <1>3, <1>8 DEF Left
<1>10. Cardinality(Done') = Cardinality(Done) + 1
  <2>1. IsFiniteSet(Done)
    BY <1>1, Countable DEF Done, Free
  <2> QED
    BY <1>7, <2>1, FS_AddElement
<1>11. current' \in Ids
  BY <1>2, <1>4 DEF Free
<1>12. TypeOK'
  BY <1>1, <1>3, <1>4, <1>11 DEF IInv, TypeOK
<1>13. LoopInv'
  <2>1. Members(queue)' \subseteq Free' /\ OnceEach(queue)'
    BY <1>2, <1>4, <1>5, <1>6
  <2>2. visited' = Cardinality(Done') /\ current' \in Done'
    BY <1>1, <1>2, <1>7, <1>10
  <2>3. \A S \in SUBSET Free' : S # {} => \E s \in S : Predecessors(s)' \cap S = {}
    BY <1>2, <1>3, <1>6
  <2>4. \A s \in Ids' : incoming'[s] = Cardinality(Left(s)')
    BY <1>1, <1>2, <1>3, <1>9
  <2> QED
    BY <2>1, <2>2, <2>3, <2>4 DEF LoopInv
<1>14. AcceptsExactlyDags'
  BY <1>1 DEF AcceptsExactlyDags
<1> QED
  BY <1>12, <1>13, <1>14 DEF IInv

(* The edge does not start at the current subtask: nothing happens. *)
LEMMA PassByStep ==
  ASSUME IInv, Visit, From(next) # current
  PROVE  IInv'
<1>1. /\ request \in Request /\ request' = request /\ at = "visiting" /\ at' = at
      /\ WellFormed /\ next \in Edges /\ next \in Nat /\ next' = next + 1
      /\ incoming' = incoming /\ queue' = queue /\ current' = current /\ visited' = visited
  BY DEF IInv, TypeOK, Visit
<1>2. /\ Ids' = Ids /\ Edges' = Edges /\ WellFormed'
      /\ \A j : From(j)' = From(j) /\ To(j)' = To(j)
      /\ \A s : Predecessors(s)' = Predecessors(s)
  BY <1>1, RequestFixed
<1>3. /\ Free' = Free /\ Done' = Done /\ Members(queue)' = Members(queue)
      /\ OnceEach(queue)' <=> OnceEach(queue)
  BY <1>1, <1>2 DEF Free, Done, Members, OnceEach
<1>4. \A j \in Edges : Taken(j)' <=> Taken(j)
  <2>1. Edges \subseteq Nat
    BY <1>1, Finiteness
  <2> QED
    BY <1>1, <1>2, <1>3, <2>1 DEF Taken
<1>5. \A s : Left(s)' = Left(s)
  BY <1>2, <1>4 DEF Left
<1>6. TypeOK'
  BY <1>1, <1>2 DEF IInv, TypeOK
<1>7. LoopInv'
  BY <1>1, <1>2, <1>3, <1>5 DEF IInv, LoopInv
<1>8. AcceptsExactlyDags'
  BY <1>1 DEF AcceptsExactlyDags
<1> QED
  BY <1>6, <1>7, <1>8 DEF IInv

(* A free subtask joins the others: its predecessors are done, hence free, *)
(* and it precedes none of them, since theirs are done and it is not.      *)
LEMMA OneMoreFree ==
  ASSUME NEW F, NEW x, x \notin F,
         \A S \in SUBSET F : S # {} => \E s \in S : Predecessors(s) \cap S = {},
         x \notin Predecessors(x),
         \A s \in F : x \notin Predecessors(s),
         NEW S \in SUBSET (F \cup {x}), S # {}
  PROVE  \E s \in S : Predecessors(s) \cap S = {}
<1>1. CASE S \ {x} = {}
  <2>1. S = {x}
    BY <1>1
  <2> QED
    BY <2>1
<1>2. CASE S \ {x} # {}
  <2>1. PICK s \in S \ {x} : Predecessors(s) \cap (S \ {x}) = {}
    BY <1>2
  <2>2. s \in F
    OBVIOUS
  <2> QED
    BY <2>1, <2>2
<1> QED
  BY <1>1, <1>2

(* The edge is taken off its successor's counter, and the successor is     *)
(* queued when it was the last one.                                        *)
LEMMA TakeStep ==
  ASSUME IInv, Visit, From(next) = current
  PROVE  IInv'
<1> DEFINE x == To(next)
<1>1. /\ request \in Request /\ request' = request /\ at = "visiting" /\ at' = at
      /\ WellFormed /\ next \in Edges /\ next \in Nat /\ next' = next + 1
      /\ incoming \in [Ids -> Nat] /\ queue \in Seq(Ids)
      /\ incoming' = [incoming EXCEPT ![x] = @ - 1]
      /\ queue' = IF incoming'[x] = 0 THEN Append(queue, x) ELSE queue
      /\ current' = current /\ visited' = visited
  BY DEF IInv, TypeOK, Visit, IsFree
<1>2. /\ \A s \in Ids : incoming[s] = Cardinality(Left(s))
      /\ Members(queue) \subseteq Free /\ OnceEach(queue)
      /\ visited = Cardinality(Done) /\ current \in Done
      /\ \A S \in SUBSET Free : S # {} => \E s \in S : Predecessors(s) \cap S = {}
  BY <1>1 DEF IInv, LoopInv
<1>3. /\ Ids' = Ids /\ Edges' = Edges /\ WellFormed'
      /\ \A j : From(j)' = From(j) /\ To(j)' = To(j)
      /\ \A s : Predecessors(s)' = Predecessors(s)
  BY <1>1, RequestFixed
<1>4. Edges \subseteq Nat
  BY <1>1, Finiteness
<1>5. x \in Ids /\ x # current
  BY <1>1 DEF WellFormed
(* next was left, so the successor was not free *)
<1>6. next \in Left(x)
  BY <1>1 DEF Left, Taken
<1>7. IsFiniteSet(Left(x)) /\ Cardinality(Left(x)) \in Nat
  <2>1. Left(x) \in SUBSET Edges
    BY DEF Left
  <2> QED
    BY <1>1, <2>1, Countable
<1>8. Cardinality(Left(x) \ {next}) = Cardinality(Left(x)) - 1
  BY <1>6, <1>7, FS_RemoveElement
<1>9. incoming[x] \in Nat \ {0}
  <2>1. Cardinality(Left(x)) # 0
    BY <1>6, <1>7, FS_EmptySet
  <2> QED
    BY <1>2, <1>5, <1>7, <2>1
<1>10. x \notin Free
  BY <1>9 DEF Free
<1>11. /\ incoming' \in [Ids -> Nat] /\ incoming'[x] = incoming[x] - 1
       /\ \A s \in Ids \ {x} : incoming'[s] = incoming[s]
  BY <1>1, <1>5, <1>9
<1> HIDE DEF x
<1>12. Free' = IF incoming'[x] = 0 THEN Free \cup {x} ELSE Free
  BY <1>3, <1>5, <1>10, <1>11 DEF Free
<1>13. /\ queue' \in Seq(Ids) /\ OnceEach(queue')
       /\ Members(queue') = IF incoming'[x] = 0 THEN Members(queue) \cup {x} ELSE Members(queue)
  BY <1>1, <1>2, <1>5, <1>10, AppendOnce
<1>14. Members(queue)' = Members(queue') /\ (OnceEach(queue)' <=> OnceEach(queue'))
  BY DEF Members, OnceEach
<1>15. Done' = Done
  BY <1>2, <1>10, <1>12, <1>13, <1>14 DEF Done
<1>16. \A j \in Edges : Taken(j)' <=> Taken(j) \/ j = next
  BY <1>1, <1>2, <1>3, <1>4, <1>15 DEF Taken
<1>17. \A s \in Ids : Left(s)' = IF s = x THEN Left(s) \ {next} ELSE Left(s)
  BY <1>3, <1>16 DEF Left, x
<1>18. \A s \in Ids' : incoming'[s] = Cardinality(Left(s)')
  <2> SUFFICES ASSUME NEW s \in Ids
               PROVE  incoming'[s] = Cardinality(Left(s)')
    BY <1>3
  <2>1. CASE s = x
    BY <1>2, <1>5, <1>8, <1>11, <1>17, <2>1
  <2>2. CASE s # x
    BY <1>2, <1>11, <1>17, <2>2
  <2> QED
    BY <2>1, <2>2
(* what is free has no edge left, so its predecessors are done *)
<1>19. \A s \in Free : Predecessors(s) \subseteq Free
  <2> SUFFICES ASSUME NEW s \in Free, NEW j \in Edges, To(j) = s
               PROVE  From(j) \in Free
    BY DEF Predecessors
  <2>1. Left(s) \in SUBSET Edges /\ Cardinality(Left(s)) = 0
    BY <1>2 DEF Free, Left
  <2>2. Left(s) = {}
    BY <1>1, <2>1, Countable, FS_EmptySet
  <2>3. Taken(j)
    BY <2>2 DEF Left
  <2> QED
    BY <2>3 DEF Taken, Done
<1>20. x \notin Predecessors(x)
  BY <1>1 DEF Predecessors, WellFormed
<1>21. \A S \in SUBSET Free' : S # {} => \E s \in S : Predecessors(s)' \cap S = {}
  <2>1. \A S \in SUBSET (Free \cup {x}) : S # {} => \E s \in S : Predecessors(s) \cap S = {}
    BY <1>2, <1>10, <1>19, <1>20, OneMoreFree
  <2>2. Free' \subseteq Free \cup {x}
    BY <1>12
  <2> QED
    BY <1>3, <2>1, <2>2
<1>22. TypeOK'
  BY <1>1, <1>2, <1>3, <1>11, <1>13 DEF IInv, TypeOK
<1>23. LoopInv'
  <2>1. Members(queue)' \subseteq Free' /\ OnceEach(queue)'
    BY <1>2, <1>12, <1>13, <1>14
  <2>2. visited' = Cardinality(Done') /\ current' \in Done'
    BY <1>1, <1>2, <1>15
  <2> QED
    BY <1>18, <1>21, <2>1, <2>2 DEF LoopInv
<1>24. AcceptsExactlyDags'
  BY <1>1 DEF AcceptsExactlyDags
<1> QED
  BY <1>22, <1>23, <1>24 DEF IInv

(* All edges have been looked at, so those of current are all taken. *)
LEMMA LeaveStep ==
  ASSUME IInv, Leave
  PROVE  IInv'
<1>1. /\ request \in Request /\ request' = request /\ at = "visiting" /\ at' = "picking"
      /\ WellFormed /\ next \in Nat \ {0} /\ next \notin Edges
      /\ incoming' = incoming /\ queue' = queue /\ current' = current
      /\ visited' = visited /\ next' = next
  BY DEF IInv, TypeOK, Leave
<1>2. /\ Ids' = Ids /\ Edges' = Edges /\ WellFormed'
      /\ \A j : From(j)' = From(j) /\ To(j)' = To(j)
      /\ \A s : Predecessors(s)' = Predecessors(s)
  BY <1>1, RequestFixed
<1>3. /\ Free' = Free /\ Done' = Done /\ Members(queue)' = Members(queue)
      /\ OnceEach(queue)' <=> OnceEach(queue)
  BY <1>1, <1>2 DEF Free, Done, Members, OnceEach
<1>4. \A j \in Edges : j < next
  BY <1>1, Finiteness
<1>5. \A j \in Edges : Taken(j)' <=> Taken(j)
  BY <1>1, <1>2, <1>3, <1>4 DEF Taken
<1>6. \A s : Left(s)' = Left(s)
  BY <1>2, <1>5 DEF Left
<1>7. TypeOK'
  BY <1>1, <1>2 DEF IInv, TypeOK
<1>8. LoopInv'
  BY <1>1, <1>2, <1>3, <1>6 DEF IInv, LoopInv
<1>9. AcceptsExactlyDags'
  BY <1>1 DEF AcceptsExactlyDags
<1> QED
  BY <1>7, <1>8, <1>9 DEF IInv

(* The queue is empty: what is free is done.  Either this is everything,   *)
(* or the rest is a set in which everything has a predecessor.             *)
LEMMA FinishStep ==
  ASSUME IInv, Finish
  PROVE  IInv'
<1>1. /\ request \in Request /\ request' = request /\ at = "picking" /\ queue = <<>>
      /\ at' = IF AllVisited THEN "accepted" ELSE "refused"
      /\ WellFormed /\ incoming' = incoming /\ queue' = queue /\ current' = current
      /\ visited' = visited /\ next' = next
  BY DEF IInv, TypeOK, Finish
<1>2. /\ \A s \in Ids : incoming[s] = Cardinality(Left(s))
      /\ visited = Cardinality(Done)
      /\ \A S \in SUBSET Free : S # {} => \E s \in S : Predecessors(s) \cap S = {}
  BY <1>1 DEF IInv, LoopInv
<1>3. /\ Ids' = Ids /\ WellFormed' = WellFormed
      /\ \A s : Predecessors(s)' = Predecessors(s)
  BY <1>1, RequestFixed
<1>4. Done = Free /\ Free \subseteq Ids
  BY <1>1 DEF Done, Members, Free
<1>5. AllVisited <=> Free = Ids
  <2>1. AllVisited <=> Cardinality(Free) = Cardinality(Ids)
    BY <1>1, <1>2, <1>4 DEF AllVisited, WellFormed
  <2>2. IsFiniteSet(Ids)
    BY <1>1, Finiteness
  <2> QED
    BY <1>4, <2>1, <2>2, FS_Subset
<1>6. Acyclic <=> AllVisited
  <2>1. CASE Free = Ids
    BY <1>2, <1>5, <2>1 DEF Acyclic
  <2>2. CASE Free # Ids
    <3> DEFINE S == Ids \ Free
    <3>1. S \in SUBSET Ids /\ S # {}
      BY <1>4, <2>2
    <3>2. ASSUME NEW s \in S
          PROVE  Predecessors(s) \cap S # {}
      <4>1. Left(s) \in SUBSET Edges /\ Cardinality(Left(s)) # 0
        BY <1>2 DEF Left, Free
      <4>2. PICK j \in Left(s) : TRUE
        BY <4>1, FS_EmptySet
      <4>3. j \in Edges /\ To(j) = s /\ From(j) \notin Free
        BY <1>1, <1>4 DEF Left, Taken
      <4>4. From(j) \in Ids
        BY <1>1, <4>3 DEF WellFormed
      <4> QED
        BY <4>3, <4>4 DEF Predecessors
    <3>3. ~Acyclic
      BY <3>1, <3>2 DEF Acyclic
    <3> QED
      BY <1>5, <2>2, <3>3
  <2> QED
    BY <2>1, <2>2
<1>7. Acyclic' <=> Acyclic
  BY <1>3 DEF Acyclic
<1>8. TypeOK'
  BY <1>1, <1>3 DEF IInv, TypeOK
<1>9. LoopInv'
  BY <1>1 DEF LoopInv
<1>10. AcceptsExactlyDags'
  BY <1>1, <1>3, <1>6, <1>7 DEF AcceptsExactlyDags
<1> QED
  BY <1>8, <1>9, <1>10 DEF IInv

(* The first checks answer alone. *)
LEMMA RefuseStep ==
  ASSUME IInv, Refuse
  PROVE  IInv'
<1>1. /\ request \in Request /\ request' = request /\ at' = "refused" /\ ~WellFormed
      /\ incoming' = incoming /\ queue' = queue /\ current' = current
      /\ visited' = visited /\ next' = next
  BY DEF IInv, TypeOK, Refuse
<1>2. Ids' = Ids /\ WellFormed' = WellFormed
  BY <1>1, RequestFixed
<1> QED
  BY <1>1, <1>2 DEF IInv, TypeOK, LoopInv, AcceptsExactlyDags

(* The loop invariant holds through every call of validate_dag, for        *)
(* requests of any size.                                                   *)
THEOREM LoopInvariance == Spec => [](TypeOK /\ LoopInv /\ AcceptsExactlyDags)
<1>1. Init => IInv
  <2> SUFFICES ASSUME Init
               PROVE  IInv
    OBVIOUS
  <2>1. queue \in Seq(Ids)
    BY EmptySeq DEF Init
  <2> QED
    BY <2>1 DEF Init, IInv, TypeOK, LoopInv, AcceptsExactlyDags
<1>2. IInv /\ [Next]_vars => IInv'
  <2> SUFFICES ASSUME IInv, [Next]_vars
               PROVE  IInv'
    OBVIOUS
  <2>1. CASE Visit
    BY <2>1, PassByStep, TakeStep
  <2>2. CASE UNCHANGED vars
    <3>1. request' = request
      BY <2>2 DEF vars
    <3>2. /\ Ids' = Ids /\ Edges' = Edges /\ WellFormed' = WellFormed
          /\ \A j : From(j)' = From(j) /\ To(j)' = To(j)
          /\ \A s : Predecessors(s)' = Predecessors(s)
      BY <3>1, RequestFixed
    <3>3. TypeOK'
      BY <2>2, <3>2 DEF IInv, TypeOK, vars
    <3>4. /\ Free' = Free /\ Done' = Done /\ Members(queue)' = Members(queue)
          /\ OnceEach(queue)' <=> OnceEach(queue)
      BY <2>2, <3>2 DEF Free, Done, Members, OnceEach, vars
    <3>5. \A j : Taken(j)' <=> Taken(j)
      BY <2>2, <3>2, <3>4 DEF Taken, vars
    <3>6. \A s : Left(s)' = Left(s)
      BY <3>2, <3>5 DEF Left
    <3>7. LoopInv'
      BY <2>2, <3>2, <3>4, <3>6 DEF IInv, LoopInv, vars
    <3>8. Acyclic' <=> Acyclic
      BY <3>2 DEF Acyclic
    <3>9. AcceptsExactlyDags'
      BY <2>2, <3>2, <3>8 DEF IInv, AcceptsExactlyDags, vars
    <3> QED
      BY <3>3, <3>7, <3>9 DEF IInv
  <2> QED
    BY <2>1, <2>2, RefuseStep, SetUpStep, PickStep, LeaveStep, FinishStep DEF Next
<1> QED
  BY <1>1, <1>2, PTL DEF Spec, IInv

(* validate_dag accepts exactly the graphs without a cycle.                *)
THEOREM DecidesAcyclicity == Spec => []AcceptsExactlyDags
BY LoopInvariance, PTL
=============================================================================
