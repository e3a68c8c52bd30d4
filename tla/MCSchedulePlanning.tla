------------------------- MODULE MCSchedulePlanning -------------------------
(***************************************************************************)
(* Model-checking instance of SchedulePlanning: two requests register one  *)
(* name, the second with a capacity at which it computes for as long as e1 *)
(* computes and transfers; the capacity of z1 rounds to zero, so that the  *)
(* table refuses it.  The times of the reports repeat and arrive in any    *)
(* order; one of them has no bandwidth.                                    *)
(***************************************************************************)
EXTENDS SchedulePlanning, TLC

CONSTANTS u1, u2, e1, z1, s1, s2, s3

Data ==
  [n \in Node |->
     CASE n = u1 -> [name |-> 2, type |-> "UAV", cpu |-> 10000]
       [] n = u2 -> [name |-> 2, type |-> "UAV", cpu |-> 6670]
       [] n = e1 -> [name |-> 1, type |-> "EDGE", cpu |-> 10000]
       [] n = z1 -> [name |-> 3, type |-> "EDGE", cpu |-> 4]]

(* one for each constraint; one of them has no data to send *)
Demands ==
  [s \in Subtask |->
     CASE s = s1 -> [load |-> 1, input |-> 1, constraint |-> "OFFLOADABLE"]
       [] s = s2 -> [load |-> 1, input |-> 0, constraint |-> "EDGE_ONLY"]
       [] s = s3 -> [load |-> 1, input |-> 1, constraint |-> "LOCAL_ONLY"]]

Sample(at, usage, bandwidth, queue) ==
  [at |-> at, usage |-> usage, memory |-> 0, bandwidth |-> bandwidth,
   queue |-> queue, load |-> None]

Reports == {Sample(1, 0, 20, None), Sample(2, 100, 20, None), Sample(2, 40, 0, 3)}

SessionSymmetry == Permutations(Session)
=============================================================================
