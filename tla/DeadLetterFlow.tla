--------------------------- MODULE DeadLetterFlow ---------------------------
(***************************************************************************)
(* The dead letter queue: how it comes into being, how a rejected message  *)
(* gets into it, and the two programs that look into it over RabbitMQ's    *)
(* management API, the peek of the API and the script that verifies the    *)
(* flow with a probe message.                                              *)
(*                                                                         *)
(* Every call of the script is an HTTP request that may fail: refused, not *)
(* sent, executed although its answer is lost, or executed only after the  *)
(* script has gone on.  RabbitMQ is external and modelled from how the     *)
(* code uses it: names must exist, a rejected message is routed by the     *)
(* dead letter exchange as it is at that moment, and reading with          *)
(* ack_requeue_true holds the messages for the time of the request and     *)
(* puts them back where they were.                                         *)
(***************************************************************************)
EXTENDS Naturals, Sequences, FiniteSets, Functions

CONSTANTS
  Probe,      \* runs of scripts/verify_dlq_flow.py, each with its own probe_id
  Work,       \* messages of the execution queue that a worker rejects
  Window,     \* messages one poll of the script reads (50 in the code)
  Limit,      \* messages one peek of the API reads
  MaxFaults   \* bound on requests that fail

ASSUME NamesAssumption == Probe \cap Work = {} /\ "api" \notin Probe
ASSUME WindowAssumption == Window \in Nat \ {0} /\ Limit \in Nat \ {0}
ASSUME FaultsAssumption == MaxFaults \in Nat

VARIABLES
  main,       \* the execution queue: absent, without or with dead letter arguments
  topology,   \* which of dead letter exchange, queue and binding exist
  probe,      \* the temporary queue of each run, and whether its message is in it
  moving,     \* messages on their way into the dead letter queue
  dead,       \* messages of the dead letter queue, in the order they came
  ready,      \* those of them that no reader holds
  held,       \* what each reader holds
  dropped,    \* rejected messages that could not be routed
  at,         \* the next request of each run
  result,     \* its DeadLetterFlowVerificationResult
  failed,     \* its requests that failed
  look,       \* what the last poll of each run met
  late        \* requests given up by their run that are still to be executed

broker == <<main, topology, probe, moving, dead, ready, held, dropped>>
vars == <<broker, at, result, failed, look, late>>

Message == Probe \cup Work
Reader == Probe \cup {"api"}
Topology == {"exchange", "queue", "bind"}

(* the requests of verify_probe_flow before it polls, each with the next one *)
Following == [config |-> "exchange", exchange |-> "queue", queue |-> "bind",
              bind |-> "declare", declare |-> "bindProbe", bindProbe |-> "publish",
              publish |-> "reject", reject |-> "poll", delete |-> "done"]
Request == DOMAIN Following

Init ==
  /\ main \in {"absent", "plain"}
  /\ topology = {}
  /\ probe = [v \in Probe |-> [queue |-> "absent", full |-> FALSE]]
  /\ moving = {} /\ dead = <<>> /\ ready = {} /\ dropped = {}
  /\ held = [r \in Reader |-> {}]
  /\ at = [v \in Probe |-> "config"]
  /\ result = [v \in Probe |-> [configured |-> FALSE, published |-> FALSE,
                                rejected |-> FALSE, found |-> FALSE, error |-> FALSE]]
  /\ failed = [v \in Probe |-> {}]
  /\ look = [v \in Probe |-> [alone |-> FALSE, arrived |-> FALSE]]
  /\ late = {}
-----------------------------------------------------------------------------
(* dead lettering of a message whose queue names the dead letter exchange *)
Route(m) ==
  IF topology = Topology
  THEN moving' = moving \cup {m} /\ UNCHANGED dropped
  ELSE dropped' = dropped \cup {m} /\ UNCHANGED moving

Arrive(m) ==
  /\ m \in moving
  /\ moving' = moving \ {m}
  /\ dead' = Append(dead, m)
  /\ ready' = ready \cup {m}
  /\ UNCHANGED <<main, topology, probe, held, dropped, at, result, failed, look, late>>

(* a worker starts and declares the execution queue; a queue of that name
   with other arguments makes it fail *)
StartWorker ==
  /\ main = "absent"
  /\ main' = "dead-lettering"
  /\ UNCHANGED <<topology, probe, moving, dead, ready, held, dropped>>
  /\ UNCHANGED <<at, result, failed, look, late>>

(* declare_worker_dead_letter_topology: an exception at any point is logged *)
DeclareTopology ==
  /\ main = "dead-lettering"
  /\ \E declared \in {{"exchange"}, {"exchange", "queue"}, Topology} :
       topology' = topology \cup declared
  /\ UNCHANGED <<main, probe, moving, dead, ready, held, dropped>>
  /\ UNCHANGED <<at, result, failed, look, late>>

WorkerRejects(m) ==
  /\ main # "absent"
  /\ m \notin moving \cup dropped \cup Range(dead)
  /\ IF main = "dead-lettering" THEN Route(m)
     ELSE dropped' = dropped \cup {m} /\ UNCHANGED moving
  /\ UNCHANGED <<main, topology, probe, dead, ready, held>>
  /\ UNCHANGED <<at, result, failed, look, late>>
-----------------------------------------------------------------------------
(* whether RabbitMQ finds what request q of run v names *)
Accepts(v, q) ==
  CASE q = "config"    -> main # "absent"
    [] q = "bind"      -> {"exchange", "queue"} \subseteq topology
    [] q = "bindProbe" -> main # "absent" /\ probe[v].queue # "absent"
    [] q = "publish"   -> main # "absent"
    [] q \in {"reject", "delete"} -> probe[v].queue # "absent"
    [] OTHER           -> TRUE

(* the effect of request q of run v *)
Executes(v, q) ==
  /\ topology' = IF q \in Topology /\ Accepts(v, q) THEN topology \cup {q} ELSE topology
  /\ probe' = [probe EXCEPT ![v] =
       CASE q = "declare" /\ @.queue = "absent" -> [@ EXCEPT !.queue = "declared"]
         [] q = "bindProbe" /\ Accepts(v, q) -> [@ EXCEPT !.queue = "bound"]
         [] q = "publish" /\ @.queue = "bound" -> [@ EXCEPT !.full = TRUE]
         [] q = "reject" -> [@ EXCEPT !.full = FALSE]
         [] q = "delete" -> [queue |-> "absent", full |-> FALSE]
         [] OTHER -> @]
  /\ IF q = "reject" /\ probe[v].full THEN Route(v) ELSE UNCHANGED <<moving, dropped>>
  /\ UNCHANGED <<main, dead, ready, held>>

(* (mutant: the arguments of the execution queue are not compared) *)
AnyQueueConfigured == TRUE

(* _main_queue_has_dead_letter_config *)
MainQueueConfigured == main = "dead-lettering"

(* what the script notes of the answer to q *)
Noted(v, q) ==
  CASE q = "config"  -> [result[v] EXCEPT !.configured = MainQueueConfigured]
    [] q = "publish" -> [result[v] EXCEPT !.published = probe[v].queue = "bound"]
    [] q = "reject"  -> [result[v] EXCEPT !.rejected = probe[v].full]
    [] OTHER         -> result[v]

Answered(v) ==
  /\ at[v] \in Request
  /\ Accepts(v, at[v])
  /\ Executes(v, at[v])
  /\ result' = [result EXCEPT ![v] = Noted(v, at[v])]
  /\ at' = [at EXCEPT ![v] = Following[@]]
  /\ UNCHANGED <<failed, look, late>>

(* (mutant: an exception ends the run without the finally clause) *)
RaisesThrough(v) ==
  /\ at' = [at EXCEPT ![v] = "done"]
  /\ result' = [result EXCEPT ![v].error = TRUE]

(* the exception handlers: the finally clause deletes the temporary queue,
   and an exception there is swallowed *)
Raises(v) ==
  /\ at' = [at EXCEPT ![v] = IF @ = "delete" THEN "done" ELSE "delete"]
  /\ result' = [result EXCEPT ![v].error = @ \/ at[v] # "delete"]

Refused(v) ==
  /\ at[v] \in Request
  /\ ~Accepts(v, at[v])
  /\ Raises(v)
  /\ UNCHANGED <<broker, failed, look, late>>

(* the request, or its answer, is lost, or it is executed when the run has gone on *)
RequestFails(v) ==
  /\ at[v] \in Request
  /\ \/ UNCHANGED broker /\ UNCHANGED late
     \/ Executes(v, at[v]) /\ UNCHANGED late
     \/ UNCHANGED broker /\ late' = late \cup {<<v, at[v]>>}
  /\ failed' = [failed EXCEPT ![v] = @ \cup {at[v]}]
  /\ Raises(v)
  /\ UNCHANGED look

ExecutedLate(v, q) ==
  /\ <<v, q>> \in late
  /\ late' = late \ {<<v, q>>}
  /\ Executes(v, q)
  /\ UNCHANGED <<at, result, failed, look>>
-----------------------------------------------------------------------------
Position(m) == CHOOSE i \in DOMAIN dead : dead[i] = m

(* the first n messages that nobody holds *)
FirstReady(n) ==
  {m \in ready : Cardinality({x \in ready : Position(x) <= Position(m)}) <= n}

(* (mutant: the mode that does not requeue) *)
Consumed(r) == ready' = ready

(* the end of a request with ack_requeue_true *)
PutBack(r) == ready' = ready \cup held[r]

(* (mutant: any message is taken for the probe) *)
AnyMessage(v) == held[v] # {}

(* _contains_probe_id: the probe of run v is among the messages it read *)
ContainsProbe(v) == v \in held[v]

(* the script polls; at its deadline, later than any message takes to
   arrive, it stops *)
Poll(v) ==
  /\ at[v] = "poll"
  /\ held' = [held EXCEPT ![v] = FirstReady(Window)]
  /\ ready' = ready \ FirstReady(Window)
  /\ look' = [look EXCEPT ![v] = [alone |-> \A r \in Reader : held[r] = {},
                                  arrived |-> v \notin moving]]
  /\ at' = [at EXCEPT ![v] = "polling"]
  /\ UNCHANGED <<main, topology, probe, moving, dead, dropped, result, failed, late>>

PollEnds(v) ==
  /\ at[v] = "polling"
  /\ PutBack(v)
  /\ held' = [held EXCEPT ![v] = {}]
  /\ \/ ContainsProbe(v) /\ at' = [at EXCEPT ![v] = "delete"]
     \/ ~ContainsProbe(v) /\ at' = [at EXCEPT ![v] = "poll"]
     \/ ~ContainsProbe(v) /\ look[v].arrived /\ at' = [at EXCEPT ![v] = "delete"]
  /\ result' = [result EXCEPT ![v].found = ContainsProbe(v)]
  /\ UNCHANGED <<main, topology, probe, moving, dead, dropped, failed, look, late>>

PollFails(v) ==
  /\ at[v] \in {"poll", "polling"}
  /\ failed' = [failed EXCEPT ![v] = @ \cup {"poll"}]
  /\ Raises(v)
  /\ UNCHANGED <<broker, look, late>>

(* peek_messages takes messages; an error, or no queue, changes nothing *)
Peek ==
  /\ "queue" \in topology
  /\ held["api"] = {}
  /\ held' = [held EXCEPT !["api"] = FirstReady(Limit)]
  /\ ready' = ready \ FirstReady(Limit)
  /\ UNCHANGED <<main, topology, probe, moving, dead, dropped>>
  /\ UNCHANGED <<at, result, failed, look, late>>

(* a peek ends, or the request of a run that no longer waits for it *)
Requeue(r) ==
  /\ held[r] # {}
  /\ r \in Probe => at[r] # "polling"
  /\ PutBack(r)
  /\ held' = [held EXCEPT ![r] = {}]
  /\ UNCHANGED <<main, topology, probe, moving, dead, dropped>>
  /\ UNCHANGED <<at, result, failed, look, late>>

MayFail == Cardinality(UNION {{v} \X failed[v] : v \in Probe}) < MaxFaults

Next ==
  \/ StartWorker \/ DeclareTopology \/ Peek
  \/ \E m \in Message : Arrive(m)
  \/ \E m \in Work : WorkerRejects(m)
  \/ \E r \in Reader : Requeue(r)
  \/ \E v \in Probe : Answered(v) \/ Refused(v) \/ Poll(v) \/ PollEnds(v)
  \/ \E v \in Probe : MayFail /\ (RequestFails(v) \/ PollFails(v))
  \/ \E v \in Probe, q \in Request : ExecutedLate(v, q)

Spec == Init /\ [][Next]_vars
-----------------------------------------------------------------------------
TypeOK ==
  /\ main \in {"absent", "plain", "dead-lettering"}
  /\ topology \subseteq Topology
  /\ probe \in [Probe -> [queue : {"absent", "declared", "bound"}, full : BOOLEAN]]
  /\ moving \subseteq Message /\ dropped \subseteq Message /\ ready \subseteq Message
  /\ dead \in Seq(Message)
  /\ held \in [Reader -> SUBSET Message]
  /\ at \in [Probe -> Request \cup {"poll", "polling", "done"}]
  /\ result \in [Probe -> [configured : BOOLEAN, published : BOOLEAN,
                           rejected : BOOLEAN, found : BOOLEAN, error : BOOLEAN]]
  /\ failed \in [Probe -> SUBSET (Request \cup {"poll"})]
  /\ look \in [Probe -> [alone : BOOLEAN, arrived : BOOLEAN]]
  /\ late \subseteq Probe \X Request

(* Looking is safe: with any overlap of peeks, polls and lost answers, a
   message of the dead letter queue is there once, ready or held by one
   reader, and no reader ever removes it. *)
ReadersGiveBack ==
  /\ TypeOK
  /\ Range(dead) = ready \cup UNION {held[r] : r \in Reader}
  /\ \A r \in Reader : held[r] \cap ready = {}
  /\ \A r, s \in Reader : r # s => held[r] \cap held[s] = {}
  /\ \A i, j \in DOMAIN dead : dead[i] = dead[j] => i = j

(* What found_in_dlq means: a run that ended without an error, with its
   probe rejected and routed, and alone at its last poll, has found the
   probe exactly when fewer than Window messages came before it. *)
FoundUnlessBuried ==
  \A v \in Probe :
    at[v] = "done" /\ ~result[v].error /\ look[v].alone /\ v \in Range(dead)
      => (result[v].found <=> Position(v) <= Window)

Verified(v) == /\ at[v] = "done"
               /\ result[v].configured /\ result[v].published
               /\ result[v].rejected /\ result[v].found

(* Once the script has exited with 0, no message that a worker rejects is
   dropped any more. *)
VerifiedKeepsWork ==
  [][(\E v \in Probe : Verified(v)) => (dropped' \ dropped) \cap Work = {}]_vars

(* A run leaves its temporary queue behind only when the deletion failed, or
   the declaration did and was executed after the deletion. *)
ProbeQueueRemoved ==
  \A v \in Probe : at[v] = "done" /\ probe[v].queue # "absent"
                     => failed[v] \cap {"declare", "delete"} # {}
=============================================================================
