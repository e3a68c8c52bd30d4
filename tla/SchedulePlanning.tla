-------------------------- MODULE SchedulePlanning --------------------------
(***************************************************************************)
(* Planning over the live node registry: generate_plan and                 *)
(* compare_strategies list the ONLINE nodes in one statement, read the     *)
(* latest status record of each in a statement of its own, and hand the    *)
(* snapshots to the strategies.  Registrations and status reports commit   *)
(* in between.                                                             *)
(*                                                                         *)
(* The READY subtasks and the options come with the call and steer nothing *)
(* before the strategies run, where they are chosen.                       *)
(***************************************************************************)
EXTENDS NodeRegistry

CONSTANT Weight     \* energy_cost_weight that requests give, in tenths

ASSUME WeightAssumption == Weight \subseteq Int

DefaultWeight == 2

VARIABLES
  unread,     \* the listed nodes whose record has not been read yet
  snaps,      \* the snapshots of the others
  known,      \* when the listed nodes had last reported as they were listed
  answer      \* the answer of the last call

planningVars == <<unread, snaps, known, answer>>
vars == <<phase, nodes, records, session, unread, snaps, known, answer>>

NoAnswer == [at |-> "idle"]
Underway == [at |-> "reading"]

Init ==
  /\ RegistryInit
  /\ unread = {} /\ snaps = <<>> /\ known = <<>>
  /\ answer = NoAnswer

LatestTime(n) == IF Latest(n) = {} THEN 0 ELSE (CHOOSE d \in Latest(n) : TRUE).at

(* the first statement of _load_node_snapshots *)
ListNodes ==
  /\ answer # Underway
  /\ answer' = Underway
  /\ unread' = Online
  /\ snaps' = <<>>
  /\ known' = [n \in Online |-> LatestTime(n)]
  /\ UNCHANGED registryVars

NoRecord == [at |-> 0, usage |-> 0, memory |-> 0, bandwidth |-> None,
             queue |-> None, load |-> None]

(* what the estimation reads of a NodeSnapshot *)
Snapshot(n, d) ==
  [name |-> Registered[n].name, type |-> Registered[n].type, cpu |-> StoredCapacity(n),
   at |-> d.at, usage |-> d.usage, bandwidth |-> d.bandwidth,
   queue |-> d.queue, load |-> d.load]

(* one iteration of _load_node_snapshots, in any order *)
ReadRecord(n) ==
  /\ n \in unread
  /\ \E d \in IF Latest(n) = {} THEN {NoRecord} ELSE Latest(n) :
       snaps' = [m \in DOMAIN snaps \cup {n} |->
                   IF m = n THEN Snapshot(n, d) ELSE snaps[m]]
  /\ unread' = unread \ {n}
  /\ UNCHANGED <<phase, nodes, records, session, known, answer>>

Loaded == answer = Underway /\ unread = {}

(* generate_plan with one strategy, as far as the plan to persist *)
Generate(strategy, ready, weight) ==
  /\ Loaded
  /\ \E plan \in Plans(strategy, ready, snaps, weight) :
       answer' = [at |-> "planned", strategy |-> strategy, ready |-> ready,
                  weight |-> weight, plan |-> plan]
  /\ UNCHANGED <<phase, nodes, records, session, unread, snaps, known>>

(* compare_strategies: all of them on the same snapshots, default options *)
Compare(ready) ==
  /\ Loaded
  /\ \E random \in Plans("RANDOM_OFFLOAD", ready, snaps, DefaultWeight),
        local \in Plans("LOCAL_ONLY", ready, snaps, DefaultWeight),
        greedy \in Plans("GREEDY", ready, snaps, DefaultWeight) :
       answer' = [at |-> "compared",
                  items |-> [LOCAL_ONLY |-> ComparisonItem(local, ready, snaps),
                             RANDOM_OFFLOAD |-> ComparisonItem(random, ready, snaps),
                             GREEDY |-> ComparisonItem(greedy, ready, snaps)]]
  /\ UNCHANGED <<phase, nodes, records, session, unread, snaps, known>>

Next ==
  \/ RegistryNext /\ UNCHANGED planningVars
  \/ ListNodes
  \/ \E n \in Node : ReadRecord(n)
  \/ \E strategy \in Strategy, ready \in SUBSET Subtask, weight \in Weight :
       Generate(strategy, ready, weight)
  \/ \E ready \in SUBSET Subtask : Compare(ready)

Spec == Init /\ [][Next]_vars
-----------------------------------------------------------------------------
(***************************************************************************)
(* A plan is made on nothing older than what was known when the nodes were *)
(* listed, although the records are read later, one by one, and reports    *)
(* arrive out of order in between.                                         *)
(***************************************************************************)
FreshAsListed == \A n \in DOMAIN snaps : snaps[n].at >= known[n]

(***************************************************************************)
(* GREEDY and LOCAL_ONLY make one plan from one set of snapshots, in       *)
(* whatever order the database listed the nodes: the names that break the  *)
(* last ties are unique.                                                   *)
(***************************************************************************)
RowOrderIrrelevant ==
  answer.at = "planned" /\ answer.strategy # "RANDOM_OFFLOAD" =>
    Plans(answer.strategy, answer.ready, snaps, answer.weight) = {answer.plan}

(***************************************************************************)
(* A GREEDY plan costs least of all the plans that could be made from the  *)
(* nodes it saw: no feasible choice of nodes for the same subtasks has a   *)
(* lower total of duration and weighted energy, and it refuses only when   *)
(* there is none.  Subtasks are chosen for one by one and never contend.   *)
(***************************************************************************)
GreedyIsCheapest ==
  answer.at = "planned" /\ answer.strategy = "GREEDY" /\ answer.ready # {} =>
    LET others == {p \in Plans("RANDOM_OFFLOAD", answer.ready, snaps, answer.weight) :
                     Feasible(p)}
        TotalCost(p) == Cost(TotalDuration(p, snaps), TotalEnergy(p, snaps), answer.weight)
    IN  IF Feasible(answer.plan)
        THEN \A p \in others : TotalCost(answer.plan) <= TotalCost(p)
        ELSE others = {}

(***************************************************************************)
(* The items of a comparison agree: all or none lack subtasks; what is     *)
(* feasible locally is feasible for the others, which are feasible         *)
(* together; every subtask is counted once, none at the edge for           *)
(* LOCAL_ONLY; and by the totals shown, GREEDY is nowhere beaten.          *)
(***************************************************************************)
ComparisonConsistent ==
  answer.at = "compared" =>
    LET item == answer.items
        Shown(s) == Cost(item[s].duration, item[s].energy, DefaultWeight)
    IN  /\ \A s, t \in Strategy : item[s].code = "NO_SCHEDULABLE_SUBTASK"
                                    => item[t].code = "NO_SCHEDULABLE_SUBTASK"
        /\ Feasible(item.LOCAL_ONLY) => Feasible(item.GREEDY)
        /\ Feasible(item.RANDOM_OFFLOAD) <=> Feasible(item.GREEDY)
        /\ item.LOCAL_ONLY.edge = 0
        /\ \A s \in Strategy : Feasible(item[s]) =>
             /\ item[s].local + item[s].edge = item[s].count
             /\ Shown("GREEDY") <= Shown(s)
=============================================================================
