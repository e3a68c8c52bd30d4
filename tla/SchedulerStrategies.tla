------------------------ MODULE SchedulerStrategies ------------------------
(***************************************************************************)
(* The three scheduling strategies and the estimation they share, as       *)
(* operators.  A node snapshot is a record of what the estimation reads;   *)
(* nodes is a function from the ids of the listed nodes to their           *)
(* snapshots: the query that lists them gives no order, so a choice that   *)
(* depends on the order is a set of possible choices here.                 *)
(*                                                                         *)
(* Integers stand for the fractions of the code, exactly: capacities are   *)
(* in hundredths (the scale of the column), durations in ms, energies in   *)
(* 1/5000, weights in tenths, costs in 1/50000.  Names are ranks in the    *)
(* order of strings.                                                       *)
(***************************************************************************)
EXTENDS Integers, Sequences, FiniteSets, FiniteSetsExt

CONSTANTS
  Subtask,
  Demand,     \* compute_load, input_data_size_mb, execution_constraint
  None        \* an option, a column or a field without a value

Strategy == {"LOCAL_ONLY", "RANDOM_OFFLOAD", "GREEDY"}
Type == {"UAV", "EDGE"}
Constraint == {"OFFLOADABLE", "LOCAL_ONLY", "EDGE_ONLY"}

ASSUME SubtaskAssumption == IsFiniteSet(Subtask)

ASSUME DemandAssumption ==
  Demand \in [Subtask -> [load : Nat, input : Nat, constraint : Constraint]]

(* round(): to the nearest integer, halves to the even one *)
RoundedQuotient(a, b) ==
  LET q == a \div b
      r == a % b
  IN  IF 2 * r > b \/ (2 * r = b /\ q % 2 = 1) THEN q + 1 ELSE q

OrZero(x) == IF x = None THEN 0 ELSE x

node_matches_constraint(s, node) ==
  /\ Demand[s].constraint = "LOCAL_ONLY" => node.type = "UAV"
  /\ Demand[s].constraint = "EDGE_ONLY" => node.type = "EDGE"

UsageCapped(node) == IF node.usage > 95 THEN 95 ELSE node.usage

compute_duration(s, node) ==
  RoundedQuotient(10000000 * Demand[s].load, node.cpu * (100 - UsageCapped(node)))

(* whether transfer_duration_ms_for is finite *)
Transfers(s, node) ==
  \/ node.type = "UAV"
  \/ Demand[s].input = 0
  \/ OrZero(node.bandwidth) > 0

transfer_duration(s, node) ==
  IF node.type = "UAV" \/ Demand[s].input = 0 \/ OrZero(node.bandwidth) = 0
  THEN 0
  ELSE RoundedQuotient(1000 * Demand[s].input, node.bandwidth)

energy(s, node) ==
  IF node.type = "UAV"
  THEN 10 * compute_duration(s, node)
  ELSE 2 * compute_duration(s, node) + 4 * transfer_duration(s, node)

Cost(duration, energyUsed, weight) == 50000 * duration + weight * energyUsed

(* (mutant: the time to send the input is left out) *)
scoreOfCompute(s, node, weight) ==
  Cost(compute_duration(s, node), energy(s, node), weight)

score(s, node, weight) ==
  Cost(compute_duration(s, node) + transfer_duration(s, node), energy(s, node), weight)

(* An infinite transfer makes the score infinite, or not a number for a
   weight of zero or less: finite it is not, whatever the weight. *)
Candidates(s, nodes) ==
  {n \in DOMAIN nodes :
     /\ nodes[n].cpu > 0
     /\ node_matches_constraint(s, nodes[n])
     /\ Transfers(s, nodes[n])}
-----------------------------------------------------------------------------
(* the order of tuples *)
Below(x, y) ==
  \E i \in DOMAIN x : x[i] < y[i] /\ \A j \in 1..(i - 1) : x[j] = y[j]

(* what min() may return: which of several smallest depends on their order *)
Smallest(S, key(_)) == {n \in S : \A o \in S : ~Below(key(o), key(n))}

(* (mutant: nothing tells nodes with equal estimates and queues apart) *)
QueueOnly(node) == <<OrZero(node.queue), OrZero(node.load)>>

TieBreak(node) == <<OrZero(node.queue), OrZero(node.load), node.name>>

(* (mutant: nodes that cannot get the input are candidates too) *)
GreedyOfAll(s, nodes, weight) ==
  Smallest({n \in DOMAIN nodes : nodes[n].cpu > 0 /\ node_matches_constraint(s, nodes[n])},
           LAMBDA n : <<score(s, nodes[n], weight)>> \o TieBreak(nodes[n]))

Greedy(s, nodes, weight) ==
  Smallest(Candidates(s, nodes),
           LAMBDA n : <<score(s, nodes[n], weight)>> \o TieBreak(nodes[n]))

(* online_uavs *)
Uavs(nodes) == {n \in DOMAIN nodes : nodes[n].type = "UAV" /\ nodes[n].cpu > 0}

LocalOnly(s, nodes) ==
  Smallest(Candidates(s, nodes) \cap Uavs(nodes),
           LAMBDA n : <<compute_duration(s, nodes[n])>> \o TieBreak(nodes[n]))

(* random.choice: also with a fixed seed it picks by position in the list *)
ChoicesOf(strategy, s, nodes, weight) ==
  CASE strategy = "GREEDY" -> Greedy(s, nodes, weight)
    [] strategy = "LOCAL_ONLY" -> LocalOnly(s, nodes)
    [] strategy = "RANDOM_OFFLOAD" -> Candidates(s, nodes)

(* the plans a strategy may make: a node for every subtask, or a refusal *)
Refusal(code) == {[code |-> code, assigned |-> <<>>]}
Plans(strategy, ready, nodes, weight) ==
  LET choices == [s \in ready |-> ChoicesOf(strategy, s, nodes, weight)]
  IN  IF ready = {} THEN Refusal("NO_SCHEDULABLE_SUBTASK")
      ELSE IF \E s \in ready : choices[s] = {} THEN Refusal("NO_AVAILABLE_NODE")
      ELSE {[code |-> "OK", assigned |-> f] :
              f \in {g \in [ready -> DOMAIN nodes] : \A s \in ready : g[s] \in choices[s]}}

Feasible(plan) == plan.code = "OK"

(* estimated_total_duration_ms and estimated_total_energy of a plan *)
TotalDuration(plan, nodes) ==
  MapThenSumSet(LAMBDA s : compute_duration(s, nodes[plan.assigned[s]])
                             + transfer_duration(s, nodes[plan.assigned[s]]),
                DOMAIN plan.assigned)
TotalEnergy(plan, nodes) ==
  MapThenSumSet(LAMBDA s : energy(s, nodes[plan.assigned[s]]), DOMAIN plan.assigned)

AssignedTo(type, plan, nodes) ==
  Cardinality({s \in DOMAIN plan.assigned : nodes[plan.assigned[s]].type = type})

(* ScheduleComparisonItem; zero stands for the missing totals of a refusal *)
ComparisonItem(plan, ready, nodes) ==
  [code |-> plan.code, count |-> Cardinality(ready),
   duration |-> TotalDuration(plan, nodes), energy |-> TotalEnergy(plan, nodes),
   local |-> AssignedTo("UAV", plan, nodes), edge |-> AssignedTo("EDGE", plan, nodes)]
=============================================================================
