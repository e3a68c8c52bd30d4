------------------------ MODULE DeadLetterFlowProofs ------------------------
(***************************************************************************)
(* Proofs about the dead letter queue and its readers, for any number of   *)
(* probes, messages and failing requests, and any sizes of what one        *)
(* request reads.                                                          *)
(***************************************************************************)
EXTENDS DeadLetterFlow, FiniteSetTheorems, TLAPS

(* the requests of a run before its probe message is published *)
Unsent == {"config", "exchange", "queue", "bind", "declare", "bindProbe", "publish"}

(* The probe message of a run is in one place at most: still to be published,
   by the run or by a late request, in the temporary queue, or rejected. *)
OneProbeMessage(v) ==
  /\ at[v] \in Unsent => <<v, "publish">> \notin late /\ ~probe[v].full
  /\ at[v] \in Unsent \/ <<v, "publish">> \in late \/ probe[v].full
       => v \notin moving \cup Range(dead)
  /\ <<v, "publish">> \in late => ~probe[v].full

(* The inductive invariant of the queues: a message comes in once, and no
   reader starts while it holds messages. *)
QueueInv ==
  /\ ReadersGiveBack
  /\ moving \cap Range(dead) = {}
  /\ \A v \in Probe : OneProbeMessage(v)
  /\ \A v \in Probe : held[v] # {} => at[v] \in {"polling", "delete", "done"}

(* What a verified run knows of the broker stays true. *)
TopologyInv ==
  /\ moving \cup Range(dead) # {} => topology = Topology
  /\ \A v \in Probe : result[v].configured => main = "dead-lettering"
  /\ \A v \in Probe : result[v].found => topology = Topology

(* Only a request that failed is executed late. *)
LateInv == \A v \in Probe, q \in Request : <<v, q>> \in late => q \in failed[v]

(* A run without an error has had its probe rejected when it polls, and
   nothing of it but the deletion is still to come. *)
Clean(v) ==
  ~result[v].error =>
    /\ \A q \in Request : <<v, q>> \in late => q = "delete"
    /\ at[v] \in {"poll", "polling", "delete", "done"} => ~probe[v].full

(* What a poll that nobody disturbed has shown of the probe. *)
Seen(v) == v \in Range(dead) /\ Position(v) <= Window
Missed(v) ==
  look[v].arrived => /\ v \notin moving
                     /\ v \in Range(dead) => Position(v) > Window

(* What a run without an error knows while and after it polls. *)
Known(v) ==
  /\ at[v] = "polling" /\ look[v].alone => IF v \in held[v] THEN Seen(v) ELSE Missed(v)
  /\ at[v] \in {"delete", "done"} =>
       /\ result[v].found \/ look[v].arrived
       /\ look[v].alone => IF result[v].found THEN Seen(v) ELSE Missed(v)

FoundInv == \A v \in Probe : Clean(v) /\ (~result[v].error => Known(v))
-----------------------------------------------------------------------------
LEMMA ReaderNames ==
  /\ Probe \subseteq Reader /\ Probe \subseteq Message /\ Work \subseteq Message
  /\ "api" \in Reader /\ "api" \notin Probe /\ Probe \cap Work = {}
BY NamesAssumption DEF Reader, Message

LEMMA Requests ==
  /\ Request = Unsent \cup {"reject", "delete"}
  /\ Unsent \subseteq Request
  /\ \A q \in Request : Following[q] \in Request \cup {"poll", "done"}
  /\ \A q \in Request : Following[q] = "publish" <=> q = "bindProbe"
  /\ \A q \in Request : Following[q] \in Unsent => q \in Unsent \ {"publish"}
  /\ \A q \in Request : Following[q] \in {"polling", "delete"} => FALSE
  /\ \A q \in Request : Following[q] = "poll" <=> q = "reject"
  /\ \A q \in Request : Following[q] = "done" <=> q = "delete"
<1>1. Request = Unsent \cup {"reject", "delete"}
  BY DEF Request, Following, Unsent
<1> QED
  BY <1>1 DEF Following, Unsent

(* What the execution of a request may do. *)
LEMMA ExecutesEffect ==
  ASSUME TypeOK, NEW v \in Probe, NEW q \in Request, Executes(v, q)
  PROVE  /\ topology \subseteq topology' /\ topology' \subseteq Topology
         /\ probe' \in [Probe -> [queue : {"absent", "declared", "bound"}, full : BOOLEAN]]
         /\ \A u \in Probe \ {v} : probe'[u] = probe[u]
         /\ probe'[v].full => probe[v].full \/ q = "publish"
         /\ q = "reject" => ~probe'[v].full
         /\ q = "delete" => probe'[v].queue = "absent"
         /\ probe'[v].queue # "absent" => probe[v].queue # "absent" \/ q = "declare"
         /\ UNCHANGED <<main, dead, ready, held>>
         /\ \/ UNCHANGED <<moving, dropped>>
            \/ /\ q = "reject" /\ probe[v].full /\ topology = Topology
               /\ moving' = moving \cup {v} /\ UNCHANGED dropped
            \/ /\ q = "reject" /\ probe[v].full
               /\ dropped' = dropped \cup {v} /\ UNCHANGED moving
<1> DEFINE P == [queue : {"absent", "declared", "bound"}, full : BOOLEAN]
           new == CASE q = "declare" /\ probe[v].queue = "absent" ->
                         [probe[v] EXCEPT !.queue = "declared"]
                    [] q = "bindProbe" /\ Accepts(v, q) -> [probe[v] EXCEPT !.queue = "bound"]
                    [] q = "publish" /\ probe[v].queue = "bound" -> [probe[v] EXCEPT !.full = TRUE]
                    [] q = "reject" -> [probe[v] EXCEPT !.full = FALSE]
                    [] q = "delete" -> [queue |-> "absent", full |-> FALSE]
                    [] OTHER -> probe[v]
<1>1. probe \in [Probe -> P] /\ probe[v] \in P
  BY DEF TypeOK
<1>2. probe' = [probe EXCEPT ![v] = new]
  BY DEF Executes
<1>3. /\ new \in P
      /\ new.full => probe[v].full \/ q = "publish"
      /\ q = "reject" => ~new.full
      /\ q = "delete" => new.queue = "absent"
      /\ new.queue # "absent" => probe[v].queue # "absent" \/ q = "declare"
  <2>1. CASE q = "declare"
    BY <1>1, <2>1
  <2>2. CASE q = "bindProbe"
    <3>1. Accepts(v, q) => probe[v].queue # "absent"
      BY <2>2 DEF Accepts
    <3> QED
      BY <1>1, <2>2, <3>1
  <2>3. CASE q = "publish"
    BY <1>1, <2>3
  <2>4. CASE q = "reject"
    BY <1>1, <2>4
  <2>5. CASE q = "delete"
    BY <1>1, <2>5
  <2>6. CASE q \notin {"declare", "bindProbe", "publish", "reject", "delete"}
    BY <1>1, <2>6
  <2> QED
    BY <2>1, <2>2, <2>3, <2>4, <2>5, <2>6
<1> HIDE DEF new
<1>4. topology \subseteq topology' /\ topology' \subseteq Topology
  BY DEF Executes, TypeOK
<1>5. \/ UNCHANGED <<moving, dropped>>
      \/ /\ q = "reject" /\ probe[v].full /\ topology = Topology
         /\ moving' = moving \cup {v} /\ UNCHANGED dropped
      \/ /\ q = "reject" /\ probe[v].full
         /\ dropped' = dropped \cup {v} /\ UNCHANGED moving
  BY DEF Executes, Route
<1>6. probe' \in [Probe -> P] /\ probe'[v] = new /\ \A u \in Probe \ {v} : probe'[u] = probe[u]
  BY <1>1, <1>2, <1>3
<1>7. UNCHANGED <<main, dead, ready, held>>
  BY DEF Executes
<1> QED
  BY <1>3, <1>4, <1>5, <1>6, <1>7

(* What one more message does to the dead letter queue. *)
LEMMA Appended ==
  ASSUME NEW s \in Seq(Message), NEW m \in Message, m \notin Range(s),
         \A i, j \in DOMAIN s : s[i] = s[j] => i = j
  PROVE  /\ Append(s, m) \in Seq(Message)
         /\ Range(Append(s, m)) = Range(s) \cup {m}
         /\ \A i, j \in DOMAIN Append(s, m) : Append(s, m)[i] = Append(s, m)[j] => i = j
<1>1. /\ Append(s, m) \in Seq(Message)
      /\ DOMAIN s = 1..Len(s) /\ Len(s) \in Nat
      /\ DOMAIN Append(s, m) = 1..(Len(s) + 1)
      /\ \A i \in 1..Len(s) : Append(s, m)[i] = s[i]
      /\ Append(s, m)[Len(s) + 1] = m
  OBVIOUS
<1>2. 1..(Len(s) + 1) = (1..Len(s)) \cup {Len(s) + 1} /\ Len(s) + 1 \notin 1..Len(s)
  BY <1>1
<1>3. \A i \in 1..Len(s) : s[i] # m
  BY <1>1 DEF Range
<1> DEFINE t == Append(s, m)
<1> HIDE DEF t
<1>4. Range(t) = Range(s) \cup {m}
  BY <1>1, <1>2 DEF Range, t
<1>5. \A i, j \in DOMAIN t : t[i] = t[j] => i = j
  BY <1>1, <1>2, <1>3 DEF t
<1> QED
  BY <1>1, <1>4, <1>5 DEF t
-----------------------------------------------------------------------------
(* What a run does with the answer to a request, or without one. *)
LEMMA RequestEffect ==
  ASSUME TypeOK, NEW v \in Probe, Answered(v) \/ Refused(v) \/ RequestFails(v)
  PROVE  /\ at[v] \in Request
         /\ Executes(v, at[v]) \/ UNCHANGED broker
         /\ UNCHANGED look
         /\ at' \in [Probe -> Request \cup {"poll", "polling", "done"}]
         /\ failed' \in [Probe -> SUBSET (Request \cup {"poll"})]
         /\ \A u \in Probe \ {v} : /\ at'[u] = at[u] /\ result'[u] = result[u]
                                   /\ failed'[u] = failed[u]
         /\ \/ /\ Executes(v, at[v]) /\ at'[v] = Following[at[v]]
               /\ UNCHANGED <<late, failed>>
               /\ result' = [result EXCEPT ![v] = Noted(v, at[v])]
            \/ /\ at'[v] = (IF at[v] = "delete" THEN "done" ELSE "delete")
               /\ UNCHANGED broker /\ ~Accepts(v, at[v])
               /\ UNCHANGED <<late, failed>>
               /\ result' = [result EXCEPT ![v].error = @ \/ at[v] # "delete"]
            \/ /\ at'[v] = (IF at[v] = "delete" THEN "done" ELSE "delete")
               /\ failed'[v] = failed[v] \cup {at[v]}
               /\ UNCHANGED late \/ (UNCHANGED broker /\ late' = late \cup {<<v, at[v]>>})
               /\ result' = [result EXCEPT ![v].error = @ \/ at[v] # "delete"]
<1>1. CASE Answered(v)
  <2>1. /\ at[v] \in Request /\ Executes(v, at[v]) /\ UNCHANGED <<failed, look, late>>
        /\ result' = [result EXCEPT ![v] = Noted(v, at[v])]
        /\ at' = [at EXCEPT ![v] = Following[at[v]]]
    BY <1>1 DEF Answered
  <2>2. Following[at[v]] \in Request \cup {"poll", "polling", "done"}
    BY <2>1, Requests
  <2>3. /\ at' \in [Probe -> Request \cup {"poll", "polling", "done"}] /\ at'[v] = Following[at[v]]
        /\ \A u \in Probe \ {v} : at'[u] = at[u]
    BY <2>1, <2>2 DEF TypeOK
  <2>4. \A u \in Probe \ {v} : result'[u] = result[u] /\ failed'[u] = failed[u]
    BY <2>1 DEF TypeOK
  <2> QED
    BY <2>1, <2>3, <2>4 DEF TypeOK
<1>2. CASE Refused(v) \/ RequestFails(v)
  <2>1. at[v] \in Request /\ Raises(v) /\ UNCHANGED look /\ (Executes(v, at[v]) \/ UNCHANGED broker)
    BY <1>2 DEF Refused, RequestFails
  <2>2. "delete" \in Request
    BY Requests
  <2>3. /\ at' \in [Probe -> Request \cup {"poll", "polling", "done"}]
        /\ at'[v] = (IF at[v] = "delete" THEN "done" ELSE "delete")
        /\ \A u \in Probe \ {v} : at'[u] = at[u] /\ result'[u] = result[u]
        /\ result' = [result EXCEPT ![v].error = @ \/ at[v] # "delete"]
    BY <2>1, <2>2 DEF TypeOK, Raises
  <2>4. /\ failed' \in [Probe -> SUBSET (Request \cup {"poll"})]
        /\ \A u \in Probe \ {v} : failed'[u] = failed[u]
    <3>1. failed' = failed \/ failed' = [failed EXCEPT ![v] = failed[v] \cup {at[v]}]
      BY <1>2 DEF Refused, RequestFails
    <3>2. failed \in [Probe -> SUBSET (Request \cup {"poll"})]
      BY DEF TypeOK
    <3>3. failed[v] \cup {at[v]} \in SUBSET (Request \cup {"poll"})
      BY <2>1, <3>2
    <3> QED
      BY <3>1, <3>2, <3>3
  <2>5. CASE Refused(v)
    BY <2>1, <2>3, <2>4, <2>5 DEF Refused
  <2>6. CASE RequestFails(v)
    <3>1. failed'[v] = failed[v] \cup {at[v]}
      BY <2>6 DEF RequestFails, TypeOK
    <3> QED
      BY <2>1, <2>3, <2>4, <2>6, <3>1 DEF RequestFails
  <2> QED
    BY <1>2, <2>5, <2>6
<1> QED
  BY <1>1, <1>2

(* What a run notes is of its type, and touches no more than one field. *)
Result == [configured : BOOLEAN, published : BOOLEAN, rejected : BOOLEAN,
           found : BOOLEAN, error : BOOLEAN]

LEMMA NotedEffect ==
  ASSUME TypeOK, NEW v \in Probe, NEW q \in Request
  PROVE  /\ Noted(v, q) \in Result
         /\ Noted(v, q).found = result[v].found /\ Noted(v, q).error = result[v].error
         /\ Noted(v, q).configured => result[v].configured \/ main = "dead-lettering"
<1>1. result[v] \in Result /\ probe[v].full \in BOOLEAN
  BY DEF TypeOK, Result
<1>2. CASE q = "config"
  BY <1>1, <1>2 DEF Noted, Result, MainQueueConfigured
<1>3. CASE q = "publish"
  BY <1>1, <1>3 DEF Noted, Result
<1>4. CASE q = "reject"
  BY <1>1, <1>4 DEF Noted, Result
<1>5. CASE q \notin {"config", "publish", "reject"}
  BY <1>1, <1>5 DEF Noted, Result
<1> QED
  BY <1>2, <1>3, <1>4, <1>5

LEMMA ResultEffect ==
  ASSUME TypeOK, NEW v \in Probe, Answered(v) \/ Refused(v) \/ RequestFails(v)
  PROVE  /\ result' \in [Probe -> Result]
         /\ result'[v].found = result[v].found
         /\ result[v].error => result'[v].error
         /\ result'[v].configured => result[v].configured \/ main = "dead-lettering"
         /\ \A u \in Probe \ {v} : result'[u] = result[u]
         /\ result'[v].error
              \/ (at'[v] = Following[at[v]] /\ UNCHANGED <<late, failed>> /\ Executes(v, at[v]))
              \/ (at[v] = "delete" /\ at'[v] = "done")
<1>1. result \in [Probe -> Result] /\ result[v] \in Result /\ at[v] \in Request
  BY RequestEffect DEF TypeOK, Result
<1>2. CASE result' = [result EXCEPT ![v] = Noted(v, at[v])] /\ at'[v] = Following[at[v]]
           /\ UNCHANGED <<late, failed>> /\ Executes(v, at[v])
  <2>1. Noted(v, at[v]) \in Result
    BY <1>1, NotedEffect
  <2>2. /\ result' \in [Probe -> Result] /\ result'[v] = Noted(v, at[v])
        /\ \A u \in Probe \ {v} : result'[u] = result[u]
    BY <1>1, <1>2, <2>1
  <2> QED
    BY <1>1, <1>2, <2>2, NotedEffect
<1>3. CASE result' = [result EXCEPT ![v].error = @ \/ at[v] # "delete"]
           /\ at'[v] = (IF at[v] = "delete" THEN "done" ELSE "delete")
  <2> DEFINE new == [result[v] EXCEPT !.error = result[v].error \/ at[v] # "delete"]
  <2>1. /\ new \in Result /\ new.error = (result[v].error \/ at[v] # "delete")
        /\ new.found = result[v].found /\ new.configured = result[v].configured
    BY <1>1 DEF Result
  <2>2. result' = [result EXCEPT ![v] = new]
    BY <1>3
  <2> HIDE DEF new
  <2>3. /\ result' \in [Probe -> Result] /\ result'[v] = new
        /\ \A u \in Probe \ {v} : result'[u] = result[u]
    BY <1>1, <2>1, <2>2
  <2> QED
    BY <1>3, <2>1, <2>3
<1> QED
  BY <1>2, <1>3, RequestEffect
-----------------------------------------------------------------------------
(* The readers take ready messages and give them back. *)
LEMMA Taken ==
  ASSUME ReadersGiveBack, NEW r \in Reader, held[r] = {}, NEW F \in SUBSET ready,
         held' = [held EXCEPT ![r] = F], ready' = ready \ F, UNCHANGED dead
  PROVE  /\ held' \in [Reader -> SUBSET Message] /\ ready' \subseteq Message
         /\ Range(dead') = ready' \cup UNION {held'[s] : s \in Reader}
         /\ \A s \in Reader : held'[s] \cap ready' = {}
         /\ \A s, t \in Reader : s # t => held'[s] \cap held'[t] = {}
<1>1. /\ held \in [Reader -> SUBSET Message] /\ ready \subseteq Message
      /\ Range(dead) = ready \cup UNION {held[s] : s \in Reader}
      /\ \A s \in Reader : held[s] \cap ready = {}
      /\ \A s, t \in Reader : s # t => held[s] \cap held[t] = {}
  BY DEF ReadersGiveBack, TypeOK
<1>2. /\ held' \in [Reader -> SUBSET Message] /\ held'[r] = F
      /\ \A s \in Reader \ {r} : held'[s] = held[s]
  BY <1>1
<1>3. Range(dead') = ready' \cup UNION {held'[s] : s \in Reader}
  <2>1. Range(dead') = Range(dead)
    OBVIOUS
  <2>2. UNION {held'[s] : s \in Reader} = F \cup UNION {held[s] : s \in Reader}
    BY <1>2
  <2> QED
    BY <1>1, <2>1, <2>2
<1>4. \A s \in Reader : held'[s] \cap ready' = {}
  BY <1>1, <1>2
<1>5. \A s, t \in Reader : s # t => held'[s] \cap held'[t] = {}
  BY <1>1, <1>2
<1> QED
  BY <1>1, <1>2, <1>3, <1>4, <1>5

LEMMA GivenBack ==
  ASSUME ReadersGiveBack, NEW r \in Reader,
         held' = [held EXCEPT ![r] = {}], ready' = ready \cup held[r], UNCHANGED dead
  PROVE  /\ held' \in [Reader -> SUBSET Message] /\ ready' \subseteq Message
         /\ Range(dead') = ready' \cup UNION {held'[s] : s \in Reader}
         /\ \A s \in Reader : held'[s] \cap ready' = {}
         /\ \A s, t \in Reader : s # t => held'[s] \cap held'[t] = {}
<1>1. /\ held \in [Reader -> SUBSET Message] /\ ready \subseteq Message
      /\ Range(dead) = ready \cup UNION {held[s] : s \in Reader}
      /\ \A s \in Reader : held[s] \cap ready = {}
      /\ \A s, t \in Reader : s # t => held[s] \cap held[t] = {}
  BY DEF ReadersGiveBack, TypeOK
<1>2. /\ held' \in [Reader -> SUBSET Message] /\ held'[r] = {}
      /\ \A s \in Reader \ {r} : held'[s] = held[s]
  BY <1>1
<1>3. Range(dead') = ready' \cup UNION {held'[s] : s \in Reader}
  <2>1. Range(dead') = Range(dead)
    OBVIOUS
  <2>2. held[r] \cup UNION {held'[s] : s \in Reader} = UNION {held[s] : s \in Reader}
    BY <1>2
  <2> QED
    BY <1>1, <2>1, <2>2
<1>4. \A s \in Reader : held'[s] \cap ready' = {}
  BY <1>1, <1>2
<1>5. \A s, t \in Reader : s # t => held'[s] \cap held'[t] = {}
  BY <1>1, <1>2
<1> QED
  BY <1>1, <1>2, <1>3, <1>4, <1>5

(* Steps that leave the dead letter queue and its readers alone. *)
LEMMA ReadersKept ==
  ASSUME ReadersGiveBack, TypeOK', UNCHANGED <<dead, ready, held>>
  PROVE  ReadersGiveBack'
BY DEF ReadersGiveBack, Range

LEMMA ArriveKeeps ==
  ASSUME QueueInv, NEW m \in Message, Arrive(m)
  PROVE  QueueInv'
<1>1. /\ m \in moving /\ moving' = moving \ {m} /\ dead' = Append(dead, m)
      /\ ready' = ready \cup {m}
      /\ UNCHANGED <<main, topology, probe, held, dropped, at, result, failed, look, late>>
  BY DEF Arrive
<1>2. TypeOK /\ ReadersGiveBack /\ m \notin Range(dead)
  BY <1>1 DEF QueueInv, ReadersGiveBack
<1>3. /\ dead' \in Seq(Message) /\ Range(dead') = Range(dead) \cup {m}
      /\ \A i, j \in DOMAIN dead' : dead'[i] = dead'[j] => i = j
  BY <1>1, <1>2, Appended DEF TypeOK, ReadersGiveBack
<1>4. TypeOK'
  BY <1>1, <1>2, <1>3 DEF TypeOK
<1>5. ReadersGiveBack'
  <2>1. Range(dead') = ready' \cup UNION {held'[r] : r \in Reader}
    BY <1>1, <1>2, <1>3 DEF ReadersGiveBack
  <2>2. \A r \in Reader : held'[r] \cap ready' = {}
    BY <1>1, <1>2 DEF ReadersGiveBack
  <2>3. \A r, s \in Reader : r # s => held'[r] \cap held'[s] = {}
    BY <1>1, <1>2 DEF ReadersGiveBack
  <2> QED
    BY <1>3, <1>4, <2>1, <2>2, <2>3 DEF ReadersGiveBack
<1>6. moving' \cap Range(dead') = {} /\ moving' \cup Range(dead') = moving \cup Range(dead)
  BY <1>1, <1>3 DEF QueueInv
<1>7. \A v \in Probe : OneProbeMessage(v)'
  BY <1>1, <1>6 DEF QueueInv, OneProbeMessage
<1> QED
  BY <1>1, <1>5, <1>6, <1>7 DEF QueueInv

(* Steps of the workers. *)
LEMMA WorkerKeeps ==
  ASSUME QueueInv, StartWorker \/ DeclareTopology \/ \E m \in Work : WorkerRejects(m)
  PROVE  QueueInv'
<1>1. /\ UNCHANGED <<probe, dead, ready, held, at, result, failed, look, late>>
      /\ main' \in {main, "dead-lettering"}
      /\ topology' \subseteq Topology
      /\ \/ UNCHANGED <<moving, dropped>>
         \/ \E m \in Work : /\ m \notin moving \cup Range(dead)
                            /\ moving' \in {moving, moving \cup {m}}
                            /\ dropped' \in {dropped, dropped \cup {m}}
  <2>1. TypeOK
    BY DEF QueueInv, ReadersGiveBack
  <2>2. CASE StartWorker
    BY <2>1, <2>2 DEF StartWorker, TypeOK
  <2>3. CASE DeclareTopology
    BY <2>1, <2>3 DEF DeclareTopology, TypeOK, Topology
  <2>4. ASSUME NEW m \in Work, WorkerRejects(m)
        PROVE  /\ UNCHANGED <<probe, dead, ready, held, at, result, failed, look, late>>
               /\ UNCHANGED <<main, topology>>
               /\ m \notin moving \cup Range(dead)
               /\ moving' \in {moving, moving \cup {m}}
               /\ dropped' \in {dropped, dropped \cup {m}}
    BY <2>4 DEF WorkerRejects, Route
  <2> QED
    BY <2>1, <2>2, <2>3, <2>4 DEF TypeOK
<1>2. TypeOK'
  BY <1>1, ReaderNames DEF QueueInv, ReadersGiveBack, TypeOK
<1>3. ReadersGiveBack'
  BY <1>1, <1>2, ReadersKept DEF QueueInv
<1>4. moving' \cap Range(dead') = {} /\ \A v \in Probe : v \in moving' <=> v \in moving
  BY <1>1, ReaderNames DEF QueueInv
<1>5. \A v \in Probe : OneProbeMessage(v)'
  BY <1>1, <1>4 DEF QueueInv, OneProbeMessage
<1> QED
  BY <1>1, <1>3, <1>4, <1>5 DEF QueueInv

(* The requests of the runs. *)
LEMMA RequestKeeps ==
  ASSUME QueueInv, NEW v \in Probe, Answered(v) \/ Refused(v) \/ RequestFails(v)
  PROVE  QueueInv'
<1>1. TypeOK /\ ReadersGiveBack /\ at[v] \in Request
  BY RequestEffect DEF QueueInv, ReadersGiveBack
<1>2. /\ UNCHANGED <<main, dead, ready, held>>
      /\ topology' \subseteq Topology
      /\ probe' \in [Probe -> [queue : {"absent", "declared", "bound"}, full : BOOLEAN]]
      /\ \A u \in Probe \ {v} : probe'[u] = probe[u]
      /\ probe'[v].full => probe[v].full \/ at[v] = "publish"
      /\ at[v] = "reject" /\ probe[v].full /\ probe' # probe => ~probe'[v].full
      /\ \/ UNCHANGED <<moving, dropped>>
         \/ /\ at[v] = "reject" /\ probe[v].full /\ ~probe'[v].full
            /\ moving' \in {moving, moving \cup {v}} /\ dropped' \in {dropped, dropped \cup {v}}
  <2>1. CASE Executes(v, at[v])
    BY <1>1, <2>1, ExecutesEffect
  <2>2. CASE UNCHANGED broker
    BY <1>1, <2>2 DEF broker, TypeOK
  <2> QED
    BY <1>1, <2>1, <2>2, RequestEffect
<1>3. /\ at' \in [Probe -> Request \cup {"poll", "polling", "done"}]
      /\ failed' \in [Probe -> SUBSET (Request \cup {"poll"})]
      /\ \A u \in Probe \ {v} : at'[u] = at[u]
      /\ at'[v] \in {Following[at[v]], "done", "delete"}
      /\ UNCHANGED look
      /\ \/ UNCHANGED late
         \/ at'[v] \in {"done", "delete"} /\ UNCHANGED broker /\ late' = late \cup {<<v, at[v]>>}
  BY <1>1, RequestEffect
<1>4. TypeOK'
  <2>1. result' \in [Probe -> [configured : BOOLEAN, published : BOOLEAN,
                               rejected : BOOLEAN, found : BOOLEAN, error : BOOLEAN]]
    BY <1>1, ResultEffect DEF Result
  <2>2. late' \subseteq Probe \X Request
    BY <1>1, <1>3 DEF TypeOK
  <2>3. moving' \subseteq Message /\ dropped' \subseteq Message
    BY <1>1, <1>2, ReaderNames DEF TypeOK
  <2> QED
    BY <1>1, <1>2, <1>3, <2>1, <2>2, <2>3 DEF TypeOK
<1>5. ReadersGiveBack'
  BY <1>1, <1>2, <1>4, ReadersKept
<1>6. moving' \cap Range(dead') = {}
  BY <1>2 DEF QueueInv, OneProbeMessage
<1>7. ASSUME NEW u \in Probe PROVE OneProbeMessage(u)'
  <2>1. CASE u # v
    <3>1. /\ at'[u] = at[u] /\ probe'[u] = probe[u] /\ (u \in moving' <=> u \in moving)
          /\ \A q \in Request : <<u, q>> \in late' <=> <<u, q>> \in late
      BY <1>2, <1>3, <2>1
    <3> QED
      BY <1>2, <2>1, <3>1, Requests DEF QueueInv, OneProbeMessage, Unsent
  <2>2. CASE u = v
    <3>1. OneProbeMessage(v)
      BY DEF QueueInv
    <3>2. at'[v] \in Unsent => at[v] \in Unsent \ {"publish"} /\ UNCHANGED late
      <4>1. {"done", "delete"} \cap Unsent = {}
        BY DEF Unsent
      <4> QED
        BY <1>1, <1>3, <4>1, Requests
    <3>3. <<v, "publish">> \in late' =>
            <<v, "publish">> \in late \/ (at[v] = "publish" /\ UNCHANGED <<probe, moving, dead>>)
      BY <1>3 DEF broker
    <3>4. "publish" \in Unsent /\ "reject" \notin Unsent
      BY DEF Unsent
    <3>5. v \in moving' => v \in moving \/ (at[v] = "reject" /\ probe[v].full /\ ~probe'[v].full)
      BY <1>2
    <3>6. <<v, "publish">> \in late' => at'[v] \notin Unsent
      BY <3>1, <3>2 DEF OneProbeMessage
    <3>7. <<v, "publish">> \in late' => ~probe'[v].full
      BY <1>2, <3>1, <3>2, <3>3, <3>4 DEF OneProbeMessage
    <3>8. at'[v] \in Unsent => ~probe'[v].full
      BY <1>2, <3>1, <3>2, <3>4 DEF OneProbeMessage
    <3>9. at'[v] \in Unsent \/ <<v, "publish">> \in late' \/ probe'[v].full
            => v \notin moving' \cup Range(dead')
      BY <1>2, <3>1, <3>2, <3>3, <3>4, <3>5 DEF OneProbeMessage
    <3> QED
      BY <2>2, <3>6, <3>7, <3>8, <3>9 DEF OneProbeMessage
  <2> QED
    BY <2>1, <2>2
<1>8. ASSUME NEW u \in Probe, held'[u] # {} PROVE at'[u] \in {"polling", "delete", "done"}
  <2>1. CASE u # v
    BY <1>2, <1>3, <1>8, <2>1 DEF QueueInv
  <2>2. CASE u = v
    <3>1. at[v] = "delete"
      BY <1>1, <1>2, <1>8, <2>2, Requests DEF QueueInv, Unsent
    <3> QED
      BY <1>3, <2>2, <3>1, Requests
  <2> QED
    BY <2>1, <2>2
<1> QED
  BY <1>5, <1>6, <1>7, <1>8 DEF QueueInv

LEMMA LateKeeps ==
  ASSUME QueueInv, NEW v \in Probe, NEW q \in Request, ExecutedLate(v, q)
  PROVE  QueueInv'
<1>1. TypeOK /\ ReadersGiveBack /\ OneProbeMessage(v)
  BY DEF QueueInv, ReadersGiveBack
<1>2. /\ <<v, q>> \in late /\ late' = late \ {<<v, q>>} /\ Executes(v, q)
      /\ UNCHANGED <<at, result, failed, look>>
  BY DEF ExecutedLate
<1>3. /\ UNCHANGED <<main, dead, ready, held>>
      /\ topology' \subseteq Topology
      /\ probe' \in [Probe -> [queue : {"absent", "declared", "bound"}, full : BOOLEAN]]
      /\ \A u \in Probe \ {v} : probe'[u] = probe[u]
      /\ probe'[v].full => probe[v].full \/ q = "publish"
      /\ \/ UNCHANGED <<moving, dropped>>
         \/ /\ q = "reject" /\ probe[v].full /\ ~probe'[v].full
            /\ moving' \in {moving, moving \cup {v}} /\ dropped' \in {dropped, dropped \cup {v}}
  BY <1>1, <1>2, ExecutesEffect
<1>4. TypeOK'
  BY <1>1, <1>2, <1>3, ReaderNames DEF TypeOK
<1>5. ReadersGiveBack'
  BY <1>1, <1>3, <1>4, ReadersKept
<1>6. moving' \cap Range(dead') = {}
  BY <1>1, <1>3 DEF QueueInv, OneProbeMessage
<1>7. ASSUME NEW u \in Probe PROVE OneProbeMessage(u)'
  <2>1. CASE u # v
    <3>1. /\ at'[u] = at[u] /\ probe'[u] = probe[u] /\ (u \in moving' <=> u \in moving)
          /\ (<<u, "publish">> \in late' <=> <<u, "publish">> \in late)
      BY <1>2, <1>3, <2>1
    <3> QED
      BY <1>3, <2>1, <3>1 DEF QueueInv, OneProbeMessage
  <2>2. CASE u = v
    <3>1. /\ at'[v] = at[v]
          /\ <<v, "publish">> \in late' => q # "publish" /\ <<v, "publish">> \in late
          /\ q = "publish" => <<v, "publish">> \in late
          /\ v \in moving' => v \in moving \/ (q = "reject" /\ probe[v].full /\ ~probe'[v].full)
      BY <1>2, <1>3
    <3> QED
      BY <1>1, <1>3, <2>2, <3>1 DEF OneProbeMessage
  <2> QED
    BY <2>1, <2>2
<1> QED
  BY <1>2, <1>3, <1>5, <1>6, <1>7 DEF QueueInv

(* The polls of the runs, and the peeks of the API. *)
LEMMA ReadingKeeps ==
  ASSUME QueueInv,
         Peek \/ (\E r \in Reader : Requeue(r))
           \/ \E v \in Probe : Poll(v) \/ PollEnds(v) \/ PollFails(v)
  PROVE  QueueInv'
<1>1. TypeOK /\ ReadersGiveBack
  BY DEF QueueInv, ReadersGiveBack
<1>2. UNCHANGED <<main, topology, probe, moving, dead, dropped, late>>
  BY DEF Peek, Requeue, Poll, PollEnds, PollFails, broker
<1>3. ASSUME TypeOK', ReadersGiveBack', NEW v \in Probe,
             \A u \in Probe \ {v} : at'[u] = at[u] /\ (held'[u] # {} => held[u] # {}),
             at'[v] \notin Unsent,
             held'[v] # {} => at'[v] \in {"polling", "delete", "done"}
      PROVE  QueueInv'
  <2>1. moving' \cap Range(dead') = {}
    BY <1>2 DEF QueueInv
  <2>2. \A u \in Probe : OneProbeMessage(u)'
    BY <1>2, <1>3 DEF QueueInv, OneProbeMessage
  <2>3. \A u \in Probe : held'[u] # {} => at'[u] \in {"polling", "delete", "done"}
    BY <1>3 DEF QueueInv
  <2> QED
    BY <1>3, <2>1, <2>2, <2>3 DEF QueueInv
<1>4. \A n : FirstReady(n) \in SUBSET ready
  BY DEF FirstReady
<1>5. Reader = Probe \cup {"api"} /\ "api" \notin Probe
  BY ReaderNames DEF Reader
<1>6. ASSUME UNCHANGED <<at, result, failed, look>>,
             Peek \/ \E r \in Reader : Requeue(r)
      PROVE  QueueInv'
  <2>1. /\ held' \in [Reader -> SUBSET Message] /\ ready' \subseteq Message
        /\ Range(dead') = ready' \cup UNION {held'[s] : s \in Reader}
        /\ \A s \in Reader : held'[s] \cap ready' = {}
        /\ \A s, t \in Reader : s # t => held'[s] \cap held'[t] = {}
        /\ \A v \in Probe : held'[v] # {} => held[v] # {}
    <3>1. CASE Peek
      <4>1. /\ held["api"] = {} /\ held' = [held EXCEPT !["api"] = FirstReady(Limit)]
            /\ ready' = ready \ FirstReady(Limit) /\ UNCHANGED dead
        BY <3>1 DEF Peek
      <4> QED
        BY <1>1, <1>4, <1>5, <4>1, Taken DEF TypeOK
    <3>2. ASSUME NEW r \in Reader, Requeue(r)
          PROVE  /\ held' \in [Reader -> SUBSET Message] /\ ready' \subseteq Message
                 /\ Range(dead') = ready' \cup UNION {held'[s] : s \in Reader}
                 /\ \A s \in Reader : held'[s] \cap ready' = {}
                 /\ \A s, t \in Reader : s # t => held'[s] \cap held'[t] = {}
                 /\ \A v \in Probe : held'[v] # {} => held[v] # {}
      <4>1. /\ held' = [held EXCEPT ![r] = {}] /\ ready' = ready \cup held[r] /\ UNCHANGED dead
        BY <3>2 DEF Requeue, PutBack
      <4> QED
        BY <1>1, <1>5, <4>1, GivenBack DEF TypeOK
    <3> QED
      BY <1>6, <3>1, <3>2
  <2>2. TypeOK'
    BY <1>1, <1>2, <1>6, <2>1 DEF TypeOK
  <2>3. ReadersGiveBack'
    BY <1>1, <1>2, <2>1, <2>2 DEF ReadersGiveBack
  <2>4. \A u \in Probe : OneProbeMessage(u)'
    BY <1>2, <1>6 DEF QueueInv, OneProbeMessage
  <2> QED
    BY <1>2, <1>6, <2>1, <2>3, <2>4 DEF QueueInv
<1>7. ASSUME NEW v \in Probe, Poll(v) PROVE QueueInv'
  <2>1. /\ at[v] = "poll" /\ held' = [held EXCEPT ![v] = FirstReady(Window)]
        /\ ready' = ready \ FirstReady(Window)
        /\ look' = [look EXCEPT ![v] = [alone |-> \A r \in Reader : held[r] = {},
                                        arrived |-> v \notin moving]]
        /\ at' = [at EXCEPT ![v] = "polling"] /\ UNCHANGED <<result, failed, dead>>
    BY <1>7 DEF Poll
  <2>2. held[v] = {} /\ v \in Reader
    BY <1>5, <2>1 DEF QueueInv
  <2>3. /\ held' \in [Reader -> SUBSET Message] /\ ready' \subseteq Message
        /\ Range(dead') = ready' \cup UNION {held'[s] : s \in Reader}
        /\ \A s \in Reader : held'[s] \cap ready' = {}
        /\ \A s, t \in Reader : s # t => held'[s] \cap held'[t] = {}
    BY <1>1, <1>4, <2>1, <2>2, Taken
  <2>4. /\ at' \in [Probe -> Request \cup {"poll", "polling", "done"}] /\ at'[v] = "polling"
        /\ \A u \in Probe \ {v} : at'[u] = at[u]
    BY <1>1, <2>1 DEF TypeOK
  <2>5. \A u \in Probe \ {v} : held'[u] = held[u]
    BY <1>1, <1>5, <2>1 DEF TypeOK
  <2>6. look' \in [Probe -> [alone : BOOLEAN, arrived : BOOLEAN]]
    BY <1>1, <2>1 DEF TypeOK
  <2>7. TypeOK'
    BY <1>1, <1>2, <2>1, <2>3, <2>4, <2>6 DEF TypeOK
  <2>8. ReadersGiveBack'
    BY <1>1, <1>2, <2>3, <2>7 DEF ReadersGiveBack
  <2> QED
    BY <1>3, <2>4, <2>5, <2>7, <2>8 DEF Unsent
<1>8. ASSUME NEW v \in Probe, PollEnds(v) PROVE QueueInv'
  <2>1. /\ at[v] = "polling" /\ held' = [held EXCEPT ![v] = {}]
        /\ ready' = ready \cup held[v]
        /\ \E a \in {"delete", "poll"} : at' = [at EXCEPT ![v] = a]
        /\ result' = [result EXCEPT ![v].found = v \in held[v]]
        /\ UNCHANGED <<look, failed, dead>>
    BY <1>8 DEF PollEnds, PutBack, ContainsProbe
  <2>2. /\ held' \in [Reader -> SUBSET Message] /\ ready' \subseteq Message
        /\ Range(dead') = ready' \cup UNION {held'[s] : s \in Reader}
        /\ \A s \in Reader : held'[s] \cap ready' = {}
        /\ \A s, t \in Reader : s # t => held'[s] \cap held'[t] = {}
    BY <1>1, <1>5, <2>1, GivenBack
  <2>3. /\ at' \in [Probe -> Request \cup {"poll", "polling", "done"}]
        /\ at'[v] \in {"delete", "poll"}
        /\ \A u \in Probe \ {v} : at'[u] = at[u]
    BY <1>1, <2>1, Requests DEF TypeOK
  <2>4. held'[v] = {} /\ \A u \in Probe \ {v} : held'[u] = held[u]
    BY <1>1, <1>5, <2>1 DEF TypeOK
  <2>5. result' \in [Probe -> [configured : BOOLEAN, published : BOOLEAN,
                               rejected : BOOLEAN, found : BOOLEAN, error : BOOLEAN]]
    <3>1. result \in [Probe -> Result]
      BY <1>1 DEF TypeOK, Result
    <3>2. [result[v] EXCEPT !.found = v \in held[v]] \in Result
      <4>1. \A b \in BOOLEAN : [result[v] EXCEPT !.found = b] \in Result
        BY <3>1 DEF Result
      <4>2. (v \in held[v]) \in BOOLEAN
        OBVIOUS
      <4> QED
        BY <4>1, <4>2
    <3>3. result' = [result EXCEPT ![v] = [result[v] EXCEPT !.found = v \in held[v]]]
      BY <2>1
    <3>4. result' \in [Probe -> Result]
      BY <3>1, <3>2, <3>3
    <3> QED
      BY <3>4 DEF Result
  <2>6. TypeOK'
    BY <1>1, <1>2, <2>1, <2>2, <2>3, <2>5 DEF TypeOK
  <2>7. ReadersGiveBack'
    BY <1>1, <1>2, <2>2, <2>6 DEF ReadersGiveBack
  <2> QED
    BY <1>3, <2>3, <2>4, <2>6, <2>7 DEF Unsent
<1>9. ASSUME NEW v \in Probe, PollFails(v) PROVE QueueInv'
  <2>1. /\ at[v] \in {"poll", "polling"} /\ UNCHANGED <<broker, look, late>>
        /\ failed' = [failed EXCEPT ![v] = failed[v] \cup {"poll"}]
        /\ at' = [at EXCEPT ![v] = "delete"]
        /\ result' = [result EXCEPT ![v].error = TRUE]
    BY <1>1, <1>9 DEF PollFails, Raises, TypeOK
  <2>2. /\ at' \in [Probe -> Request \cup {"poll", "polling", "done"}]
        /\ at'[v] = "delete" /\ \A u \in Probe \ {v} : at'[u] = at[u]
    BY <1>1, <2>1, Requests DEF TypeOK
  <2>3. result' \in [Probe -> [configured : BOOLEAN, published : BOOLEAN,
                               rejected : BOOLEAN, found : BOOLEAN, error : BOOLEAN]]
    <3>1. result \in [Probe -> Result]
      BY <1>1 DEF TypeOK, Result
    <3>2. [result[v] EXCEPT !.error = TRUE] \in Result
      BY <3>1 DEF Result
    <3>3. result' = [result EXCEPT ![v] = [result[v] EXCEPT !.error = TRUE]]
      BY <2>1
    <3>4. result' \in [Probe -> Result]
      BY <3>1, <3>2, <3>3
    <3> QED
      BY <3>4 DEF Result
  <2>4. failed' \in [Probe -> SUBSET (Request \cup {"poll"})]
    BY <1>1, <2>1 DEF TypeOK
  <2>5. UNCHANGED <<dead, ready, held>>
    BY <2>1 DEF broker
  <2>6. TypeOK'
    BY <1>1, <1>2, <2>1, <2>2, <2>3, <2>4, <2>5 DEF TypeOK
  <2>7. ReadersGiveBack'
    BY <1>1, <2>5, <2>6, ReadersKept
  <2> QED
    BY <1>3, <2>2, <2>5, <2>6, <2>7 DEF Unsent
<1> QED
  BY <1>6, <1>7, <1>8, <1>9 DEF Peek, Requeue

LEMMA QueueStart == Init => QueueInv
<1> SUFFICES ASSUME Init PROVE QueueInv
  OBVIOUS
<1>1. "config" \in Request /\ "config" \in Unsent
  BY Requests DEF Unsent
<1>2. Range(dead) = {} /\ DOMAIN dead = {} /\ dead \in Seq(Message)
  BY DEF Init, Range
<1>3. TypeOK
  BY <1>1, <1>2 DEF Init, TypeOK
<1>4. ReadersGiveBack
  BY <1>2, <1>3 DEF Init, ReadersGiveBack
<1>5. \A v \in Probe : OneProbeMessage(v)
  BY <1>2 DEF Init, OneProbeMessage
<1>6. \A v \in Probe : held[v] = {}
  BY ReaderNames DEF Init
<1> QED
  BY <1>2, <1>4, <1>5, <1>6 DEF Init, QueueInv

LEMMA QueueKept ==
  ASSUME QueueInv, UNCHANGED vars
  PROVE  QueueInv'
<1>1. TypeOK'
  BY DEF QueueInv, ReadersGiveBack, TypeOK, vars, broker
<1>2. ReadersGiveBack'
  BY <1>1, ReadersKept DEF QueueInv, vars, broker
<1>3. \A v \in Probe : OneProbeMessage(v)'
  BY DEF QueueInv, OneProbeMessage, vars, broker
<1> QED
  BY <1>2, <1>3 DEF QueueInv, vars, broker

LEMMA QueueStep ==
  ASSUME QueueInv, [Next]_vars
  PROVE  QueueInv'
<1>1. CASE UNCHANGED vars
  BY <1>1, QueueKept
<1>2. CASE Next
  BY <1>2, ArriveKeeps, WorkerKeeps, RequestKeeps, LateKeeps, ReadingKeeps DEF Next
<1> QED
  BY <1>1, <1>2

(* The inductive invariant of the dead letter queue holds always. *)
THEOREM QueueInvariance == Spec => []QueueInv
BY QueueStart, QueueStep, PTL DEF Spec

(* Looking into the dead letter queue is safe: every message stays in it once,
   ready or held by one reader. *)
THEOREM LookingIsSafe == Spec => []ReadersGiveBack
<1>1. QueueInv => ReadersGiveBack
  BY DEF QueueInv
<1> QED
  BY <1>1, QueueInvariance, PTL
-----------------------------------------------------------------------------
(* A run leaves its queue behind only after a request for it failed. *)
LEMMA LateStep ==
  ASSUME QueueInv, LateInv, ProbeQueueRemoved, [Next]_vars
  PROVE  LateInv' /\ ProbeQueueRemoved'
<1>1. TypeOK
  BY DEF QueueInv, ReadersGiveBack
<1>2. ASSUME UNCHANGED <<probe, late>>,
             \A v \in Probe : /\ at'[v] = at[v] \/ at'[v] # "done"
                              /\ failed[v] \subseteq failed'[v]
      PROVE  LateInv' /\ ProbeQueueRemoved'
  BY <1>2 DEF LateInv, ProbeQueueRemoved
<1>3. ASSUME UNCHANGED <<probe, late, at, failed>> PROVE LateInv' /\ ProbeQueueRemoved'
  BY <1>3 DEF LateInv, ProbeQueueRemoved
<1>4. ASSUME NEW v \in Probe, Poll(v) \/ PollEnds(v) PROVE LateInv' /\ ProbeQueueRemoved'
  <2>1. UNCHANGED <<probe, late, failed>> /\ \E a \in {"polling", "poll", "delete"} : at' = [at EXCEPT ![v] = a]
    BY <1>4 DEF Poll, PollEnds
  <2>2. \A u \in Probe : at'[u] = at[u] \/ at'[u] # "done"
    BY <1>1, <2>1 DEF TypeOK
  <2> QED
    BY <1>2, <2>1, <2>2
<1>5. ASSUME NEW v \in Probe, PollFails(v) PROVE LateInv' /\ ProbeQueueRemoved'
  <2>1. /\ UNCHANGED <<probe, late>> /\ at' = [at EXCEPT ![v] = "delete"]
        /\ failed' = [failed EXCEPT ![v] = failed[v] \cup {"poll"}]
    BY <1>5 DEF PollFails, Raises, broker
  <2>2. \A u \in Probe : /\ at'[u] = at[u] \/ at'[u] # "done"
                         /\ failed[u] \subseteq failed'[u]
    BY <1>1, <2>1 DEF TypeOK
  <2> QED
    BY <1>2, <2>1, <2>2
<1>6. ASSUME NEW v \in Probe, NEW q \in Request, ExecutedLate(v, q)
      PROVE  LateInv' /\ ProbeQueueRemoved'
  <2>1. <<v, q>> \in late /\ late' \subseteq late /\ Executes(v, q) /\ UNCHANGED <<at, failed>>
    BY <1>6 DEF ExecutedLate
  <2>2. /\ \A u \in Probe \ {v} : probe'[u] = probe[u]
        /\ probe'[v].queue # "absent" => probe[v].queue # "absent" \/ q = "declare"
    BY <1>1, <2>1, ExecutesEffect
  <2>3. q \in failed[v]
    BY <2>1 DEF LateInv
  <2> QED
    BY <2>1, <2>2, <2>3 DEF LateInv, ProbeQueueRemoved
<1>7. ASSUME NEW v \in Probe, Answered(v) \/ Refused(v) \/ RequestFails(v)
      PROVE  LateInv' /\ ProbeQueueRemoved'
  <2>1. /\ at[v] \in Request
        /\ \A u \in Probe \ {v} : at'[u] = at[u] /\ failed'[u] = failed[u]
        /\ failed[v] \subseteq failed'[v]
    BY <1>1, <1>7, RequestEffect
  <2>2. \A u \in Probe \ {v} : probe'[u] = probe[u]
    BY <1>1, <1>7, <2>1, RequestEffect, ExecutesEffect DEF broker
  <2>3. LateInv'
    <3>1. UNCHANGED late \/ (late' = late \cup {<<v, at[v]>>} /\ at[v] \in failed'[v])
      BY <1>1, <1>7, RequestEffect
    <3> QED
      BY <2>1, <3>1 DEF LateInv
  <2>4. at'[v] = "done" /\ probe'[v].queue # "absent" => "delete" \in failed'[v]
    <3>1. at'[v] = "done" => at[v] = "delete"
      BY <1>1, <1>7, <2>1, RequestEffect, Requests
    <3>2. CASE at[v] # "delete"
      BY <3>1, <3>2
    <3>3. CASE at[v] = "delete" /\ Executes(v, at[v])
      BY <1>1, <2>1, <3>3, ExecutesEffect
    <3>4. CASE at[v] = "delete" /\ UNCHANGED broker /\ ~Accepts(v, at[v])
      BY <3>4 DEF Accepts, broker
    <3>5. CASE failed'[v] = failed[v] \cup {at[v]} /\ at[v] = "delete"
      BY <3>5
    <3> QED
      BY <1>1, <1>7, <3>2, <3>3, <3>4, <3>5, RequestEffect
  <2> QED
    BY <2>1, <2>2, <2>3, <2>4 DEF ProbeQueueRemoved
<1>8. CASE UNCHANGED vars
  BY <1>3, <1>8 DEF vars, broker
<1>9. ASSUME \/ StartWorker \/ DeclareTopology \/ Peek
             \/ (\E m \in Message : Arrive(m)) \/ (\E m \in Work : WorkerRejects(m))
             \/ \E r \in Reader : Requeue(r)
      PROVE  UNCHANGED <<probe, late, at, failed>>
  BY <1>9 DEF StartWorker, DeclareTopology, Peek, Arrive, WorkerRejects, Requeue
<1> QED
  BY <1>3, <1>4, <1>5, <1>6, <1>7, <1>8, <1>9 DEF Next

(* The temporary queue of a run stays only when its deletion or its
   declaration failed. *)
THEOREM ProbeQueuesAreRemoved == Spec => []ProbeQueueRemoved
<1>1. Init => LateInv /\ ProbeQueueRemoved
  BY DEF Init, LateInv, ProbeQueueRemoved
<1> QED
  BY <1>1, LateStep, QueueInvariance, PTL DEF Spec
-----------------------------------------------------------------------------
(* The topology never loses a part and the execution queue never changes once
   it dead-letters. *)
LEMMA TopologyGrows ==
  ASSUME TypeOK, [Next]_vars
  PROVE  /\ topology = Topology => topology' = Topology
         /\ main = "dead-lettering" => main' = "dead-lettering"
<1>1. UNCHANGED topology \/ (topology \subseteq topology' /\ topology' \subseteq Topology)
  <2>1. CASE DeclareTopology
    BY <2>1 DEF DeclareTopology, TypeOK, Topology
  <2>2. ASSUME NEW v \in Probe, NEW q \in Request, Executes(v, q)
        PROVE  topology \subseteq topology' /\ topology' \subseteq Topology
    BY <2>2, ExecutesEffect
  <2>3. ASSUME NEW v \in Probe, Answered(v) \/ Refused(v) \/ RequestFails(v)
        PROVE  UNCHANGED topology \/ (topology \subseteq topology' /\ topology' \subseteq Topology)
    BY <2>2, <2>3, RequestEffect DEF broker
  <2>4. ASSUME NEW v \in Probe, NEW q \in Request, ExecutedLate(v, q) PROVE Executes(v, q)
    BY <2>4 DEF ExecutedLate
  <2>5. ASSUME NEW v \in Probe, Poll(v) \/ PollEnds(v) \/ PollFails(v) PROVE UNCHANGED topology
    BY <2>5 DEF Poll, PollEnds, PollFails, broker
  <2>6. ASSUME \/ StartWorker \/ Peek \/ (\E m \in Message : Arrive(m))
               \/ (\E m \in Work : WorkerRejects(m)) \/ \E r \in Reader : Requeue(r)
        PROVE  UNCHANGED topology
    BY <2>6 DEF StartWorker, Peek, Arrive, WorkerRejects, Requeue
  <2>7. CASE UNCHANGED vars
    BY <2>7 DEF vars, broker
  <2> QED
    BY <2>1, <2>2, <2>3, <2>4, <2>5, <2>6, <2>7 DEF Next
<1>2. main = "dead-lettering" => main' = "dead-lettering"
  <2>1. ASSUME NEW v \in Probe, NEW q \in Request, Executes(v, q) PROVE UNCHANGED main
    BY <2>1 DEF Executes
  <2>2. ASSUME NEW v \in Probe, Answered(v) \/ Refused(v) \/ RequestFails(v)
        PROVE  UNCHANGED main
    BY <2>1, <2>2, RequestEffect DEF broker
  <2>3. ASSUME NEW v \in Probe, NEW q \in Request, ExecutedLate(v, q) PROVE UNCHANGED main
    BY <2>1, <2>3 DEF ExecutedLate
  <2>4. ASSUME NEW v \in Probe, Poll(v) \/ PollEnds(v) \/ PollFails(v) PROVE UNCHANGED main
    BY <2>4 DEF Poll, PollEnds, PollFails, broker
  <2>5. ASSUME \/ DeclareTopology \/ Peek \/ (\E m \in Message : Arrive(m))
               \/ (\E m \in Work : WorkerRejects(m)) \/ \E r \in Reader : Requeue(r)
        PROVE  UNCHANGED main
    BY <2>5 DEF DeclareTopology, Peek, Arrive, WorkerRejects, Requeue
  <2>6. CASE UNCHANGED vars
    BY <2>6 DEF vars, broker
  <2>7. CASE StartWorker
    BY <2>7 DEF StartWorker
  <2> QED
    BY <2>2, <2>3, <2>4, <2>5, <2>6, <2>7 DEF Next
<1> QED
  BY <1>1, <1>2

(* Messages come on their way, or are dropped, one by one: routed by the
   complete topology, or for the lack of it. *)
LEMMA RoutedOrDropped ==
  ASSUME QueueInv, [Next]_vars
  PROVE  /\ moving' \cup Range(dead') = moving \cup Range(dead) \/ topology = Topology
         /\ (dropped' \ dropped) \cap Work # {} => main # "dead-lettering" \/ topology # Topology
<1>1. TypeOK
  BY DEF QueueInv, ReadersGiveBack
<1>2. ASSUME NEW v \in Probe, NEW q \in Request, Executes(v, q)
      PROVE  /\ moving' \cup Range(dead') = moving \cup Range(dead) \/ topology = Topology
             /\ (dropped' \ dropped) \cap Work = {}
  <2>1. v \notin Work
    BY ReaderNames
  <2> QED
    BY <1>1, <1>2, <2>1, ExecutesEffect
<1>3. ASSUME NEW v \in Probe, Answered(v) \/ Refused(v) \/ RequestFails(v)
      PROVE  /\ moving' \cup Range(dead') = moving \cup Range(dead) \/ topology = Topology
             /\ (dropped' \ dropped) \cap Work = {}
  <2>1. at[v] \in Request /\ (Executes(v, at[v]) \/ UNCHANGED broker)
    BY <1>1, <1>3, RequestEffect
  <2>2. CASE UNCHANGED broker
    BY <2>2 DEF broker
  <2> QED
    BY <1>2, <2>1, <2>2
<1>4. ASSUME NEW v \in Probe, NEW q \in Request, ExecutedLate(v, q) PROVE Executes(v, q)
  BY <1>4 DEF ExecutedLate
<1>5. ASSUME NEW m \in Message, Arrive(m)
      PROVE  UNCHANGED dropped /\ moving' \cup Range(dead') = moving \cup Range(dead)
  <2>1. m \in moving /\ moving' = moving \ {m} /\ dead' = Append(dead, m) /\ UNCHANGED dropped
    BY <1>5 DEF Arrive
  <2>2. Range(dead') = Range(dead) \cup {m}
    BY <1>1, <2>1, Appended DEF QueueInv, ReadersGiveBack, TypeOK
  <2> QED
    BY <2>1, <2>2
<1>6. ASSUME NEW m \in Work, WorkerRejects(m)
      PROVE  /\ moving' \cup Range(dead') = moving \cup Range(dead) \/ topology = Topology
             /\ (dropped' \ dropped) \cap Work # {} => main # "dead-lettering" \/ topology # Topology
  BY <1>6 DEF WorkerRejects, Route
<1>7. ASSUME NEW v \in Probe, Poll(v) \/ PollEnds(v) \/ PollFails(v)
      PROVE  UNCHANGED <<moving, dead, dropped>>
  BY <1>7 DEF Poll, PollEnds, PollFails, broker
<1>8. ASSUME StartWorker \/ DeclareTopology \/ Peek \/ \E r \in Reader : Requeue(r)
      PROVE  UNCHANGED <<moving, dead, dropped>>
  BY <1>8 DEF StartWorker, DeclareTopology, Peek, Requeue
<1>9. CASE UNCHANGED vars
  BY <1>9 DEF vars, broker
<1>10. ASSUME UNCHANGED <<moving, dead, dropped>>
       PROVE  /\ moving' \cup Range(dead') = moving \cup Range(dead) \/ topology = Topology
              /\ (dropped' \ dropped) \cap Work = {}
  BY <1>10
<1> QED
  BY <1>2, <1>3, <1>4, <1>5, <1>6, <1>7, <1>8, <1>9, <1>10 DEF Next

(* What the steps do to what a run has noted. *)
LEMMA NotedStep ==
  ASSUME QueueInv, [Next]_vars, NEW v \in Probe
  PROVE  /\ result'[v].configured => result[v].configured \/ main = "dead-lettering"
         /\ result'[v].found => result[v].found \/ v \in Range(dead)
<1>1. TypeOK /\ result[v] \in Result /\ result \in [Probe -> Result]
  BY DEF QueueInv, ReadersGiveBack, TypeOK, Result
<1>2. ASSUME NEW u \in Probe, Answered(u) \/ Refused(u) \/ RequestFails(u)
      PROVE  /\ result'[v].configured => result[v].configured \/ main = "dead-lettering"
             /\ result'[v].found => result[v].found
  BY <1>1, <1>2, ResultEffect
<1>3. ASSUME NEW u \in Probe, PollEnds(u)
      PROVE  /\ result'[v].configured => result[v].configured
             /\ result'[v].found => result[v].found \/ v \in Range(dead)
  <2>1. result' = [result EXCEPT ![u].found = u \in held[u]]
    BY <1>3 DEF PollEnds, ContainsProbe
  <2>2. held[u] \subseteq Range(dead)
    BY ReaderNames DEF QueueInv, ReadersGiveBack
  <2>3. CASE u = v
    <3>1. result'[v] = [result[v] EXCEPT !.found = v \in held[v]]
      BY <1>1, <2>1, <2>3
    <3>2. result'[v].configured = result[v].configured /\ result'[v].found = (v \in held[v])
      BY <1>1, <3>1 DEF Result
    <3> QED
      BY <2>2, <2>3, <3>2
  <2>4. CASE u # v
    BY <1>1, <2>1, <2>4
  <2> QED
    BY <2>3, <2>4
<1>4. ASSUME NEW u \in Probe, PollFails(u)
      PROVE  result'[v].configured = result[v].configured /\ result'[v].found = result[v].found
  <2>1. result' = [result EXCEPT ![u].error = @ \/ at[u] # "delete"]
    BY <1>4 DEF PollFails, Raises
  <2>2. CASE u = v
    <3>1. result'[v] = [result[v] EXCEPT !.error = result[v].error \/ at[v] # "delete"]
      BY <1>1, <2>1, <2>2
    <3> QED
      BY <1>1, <3>1 DEF Result
  <2>3. CASE u # v
    BY <1>1, <2>1, <2>3
  <2> QED
    BY <2>2, <2>3
<1>5. ASSUME \/ StartWorker \/ DeclareTopology \/ Peek
             \/ (\E m \in Message : Arrive(m)) \/ (\E m \in Work : WorkerRejects(m))
             \/ (\E r \in Reader : Requeue(r)) \/ (\E u \in Probe : Poll(u))
             \/ (\E u \in Probe, q \in Request : ExecutedLate(u, q)) \/ UNCHANGED vars
      PROVE  UNCHANGED result
  BY <1>5 DEF StartWorker, DeclareTopology, Peek, Arrive, WorkerRejects, Requeue, Poll,
              ExecutedLate, vars
<1> QED
  BY <1>2, <1>3, <1>4, <1>5 DEF Next

LEMMA TopologyStep ==
  ASSUME QueueInv, TopologyInv, [Next]_vars
  PROVE  TopologyInv'
<1>1. TypeOK
  BY DEF QueueInv, ReadersGiveBack
<1>2. moving' \cup Range(dead') # {} => topology' = Topology
  BY <1>1, TopologyGrows, RoutedOrDropped DEF TopologyInv
<1>3. \A v \in Probe : result'[v].configured => main' = "dead-lettering"
  BY <1>1, TopologyGrows, NotedStep DEF TopologyInv
<1>4. \A v \in Probe : result'[v].found => topology' = Topology
  BY <1>1, TopologyGrows, NotedStep DEF TopologyInv
<1> QED
  BY <1>2, <1>3, <1>4 DEF TopologyInv

(* What a run of the script has seen of the topology stays true of it. *)
THEOREM TopologyInvariance == Spec => []TopologyInv
<1>1. Init => TopologyInv
  BY DEF Init, TopologyInv, Range
<1> QED
  BY <1>1, TopologyStep, QueueInvariance, PTL DEF Spec

(* Once a run of the script has verified the flow, no rejected message of a
   worker is dropped any more. *)
THEOREM VerificationIsLasting == Spec => VerifiedKeepsWork
<1>1. ASSUME QueueInv, TopologyInv, [Next]_vars, \E v \in Probe : Verified(v)
      PROVE  (dropped' \ dropped) \cap Work = {}
  <2>1. main = "dead-lettering" /\ topology = Topology
    BY <1>1 DEF Verified, TopologyInv
  <2> QED
    BY <1>1, <2>1, RoutedOrDropped
<1>2. QueueInv /\ TopologyInv /\ [Next]_vars =>
        [(\E v \in Probe : Verified(v)) => (dropped' \ dropped) \cap Work = {}]_vars
  BY <1>1
<1> QED
  BY <1>2, QueueInvariance, TopologyInvariance, PTL DEF Spec, VerifiedKeepsWork
-----------------------------------------------------------------------------
(* Where a message is in the dead letter queue. *)
LEMMA PositionIs ==
  ASSUME NEW m \in Range(dead)
  PROVE  Position(m) \in DOMAIN dead /\ dead[Position(m)] = m
<1>1. \E i \in DOMAIN dead : dead[i] = m
  BY DEF Range
<1> QED
  BY <1>1 DEF Position

LEMMA PositionIsUnique ==
  ASSUME ReadersGiveBack, NEW m \in Range(dead), NEW i \in DOMAIN dead, dead[i] = m
  PROVE  Position(m) = i
BY PositionIs DEF ReadersGiveBack

(* As many messages are not behind a message as its position says. *)
LEMMA RankIsPosition ==
  ASSUME ReadersGiveBack, NEW m \in Range(dead)
  PROVE  /\ Position(m) \in Nat
         /\ Cardinality({x \in Range(dead) : Position(x) <= Position(m)}) = Position(m)
<1> DEFINE n == Position(m)
           S == {x \in Range(dead) : Position(x) <= n}
           f == [i \in 1..n |-> dead[i]]
<1>1. dead \in Seq(Message) /\ DOMAIN dead = 1..Len(dead) /\ Len(dead) \in Nat
  BY DEF ReadersGiveBack, TypeOK
<1>2. n \in 1..Len(dead)
  BY <1>1, PositionIs
<1>3. \A i \in 1..n : i \in DOMAIN dead
  BY <1>1, <1>2
<1>4. \A i \in DOMAIN dead : dead[i] \in Range(dead) /\ Position(dead[i]) = i
  <2> TAKE i \in DOMAIN dead
  <2>1. dead[i] \in Range(dead)
    BY DEF Range
  <2> QED
    BY <2>1, PositionIsUnique
<1>5. f \in [1..n -> S]
  <2>1. \A i \in 1..n : dead[i] \in S
    BY <1>2, <1>3, <1>4
  <2> QED
    BY <2>1
<1>6. \A i, j \in 1..n : f[i] = f[j] => i = j
  BY <1>3 DEF ReadersGiveBack
<1>7. \A x \in S : \E i \in 1..n : f[i] = x
  <2> TAKE x \in S
  <2>1. Position(x) \in 1..Len(dead) /\ dead[Position(x)] = x /\ Position(x) <= n
    BY <1>1, PositionIs
  <2>2. Position(x) \in 1..n
    BY <1>2, <2>1
  <2> QED
    BY <2>1, <2>2
<1> HIDE DEF f, S
<1>8. f \in Bijection(1..n, S)
  BY <1>5, <1>6, <1>7 DEF Bijection, Injection, Surjection, IsInjective
<1>9. n \in Nat
  BY <1>1, <1>2
<1>10. Cardinality(S) = n
  BY <1>8, <1>9, FS_CountingElements DEF ExistsBijection
<1> QED
  BY <1>9, <1>10 DEF S

(* The dead letter queue only grows at its end. *)
LEMMA DeadGrows ==
  ASSUME QueueInv, [Next]_vars
  PROVE  /\ \A m \in Range(dead) : m \in Range(dead') /\ Position(m)' = Position(m)
         /\ \A v \in Probe : v \in Range(dead') => v \in Range(dead) \cup moving
         /\ \A v \in Probe : v \in moving' => v \in moving \/ probe[v].full
<1>1. TypeOK /\ ReadersGiveBack /\ ReadersGiveBack'
  BY QueueStep DEF QueueInv, ReadersGiveBack
<1>2. ASSUME UNCHANGED dead, \A v \in Probe : v \in moving' => v \in moving \/ probe[v].full
      PROVE  /\ \A m \in Range(dead) : m \in Range(dead') /\ Position(m)' = Position(m)
             /\ \A v \in Probe : v \in Range(dead') => v \in Range(dead) \cup moving
             /\ \A v \in Probe : v \in moving' => v \in moving \/ probe[v].full
  BY <1>2 DEF Position
<1>3. ASSUME NEW n \in Message, Arrive(n)
      PROVE  /\ \A m \in Range(dead) : m \in Range(dead') /\ Position(m)' = Position(m)
             /\ \A v \in Probe : v \in Range(dead') => v \in Range(dead) \cup moving
             /\ \A v \in Probe : v \in moving' => v \in moving \/ probe[v].full
  <2>1. n \in moving /\ moving' = moving \ {n} /\ dead' = Append(dead, n)
    BY <1>3 DEF Arrive
  <2>2. n \notin Range(dead) /\ dead \in Seq(Message)
    BY <1>1, <2>1 DEF QueueInv, TypeOK
  <2>3. Range(dead') = Range(dead) \cup {n}
    BY <1>1, <2>1, <2>2, Appended DEF ReadersGiveBack
  <2>4. ASSUME NEW m \in Range(dead) PROVE Position(m)' = Position(m)
    <3>1. Position(m) \in DOMAIN dead /\ dead[Position(m)] = m
      BY PositionIs
    <3>2. Position(m) \in DOMAIN dead' /\ dead'[Position(m)] = m
      BY <2>1, <2>2, <3>1
    <3>3. \E i \in DOMAIN dead' : dead'[i] = m
      BY <3>2
    <3>4. Position(m)' \in DOMAIN dead' /\ dead'[Position(m)'] = m
      BY <3>3 DEF Position
    <3> QED
      BY <1>1, <3>2, <3>4 DEF ReadersGiveBack
  <2> QED
    BY <2>1, <2>3, <2>4
<1>4. ASSUME NEW u \in Probe, NEW q \in Request, Executes(u, q)
      PROVE  UNCHANGED dead /\ \A v \in Probe : v \in moving' => v \in moving \/ probe[v].full
  BY <1>1, <1>4, ExecutesEffect
<1>5. ASSUME NEW u \in Probe, Answered(u) \/ Refused(u) \/ RequestFails(u)
      PROVE  UNCHANGED dead /\ \A v \in Probe : v \in moving' => v \in moving \/ probe[v].full
  <2>1. at[u] \in Request /\ (Executes(u, at[u]) \/ UNCHANGED broker)
    BY <1>1, <1>5, RequestEffect
  <2>2. CASE UNCHANGED broker
    BY <2>2 DEF broker
  <2> QED
    BY <1>4, <2>1, <2>2
<1>6. ASSUME NEW u \in Probe, NEW q \in Request, ExecutedLate(u, q) PROVE Executes(u, q)
  BY <1>6 DEF ExecutedLate
<1>7. ASSUME NEW m \in Work, WorkerRejects(m)
      PROVE  UNCHANGED dead /\ \A v \in Probe : v \in moving' => v \in moving \/ probe[v].full
  <2>1. UNCHANGED dead /\ (moving' = moving \/ moving' = moving \cup {m})
    BY <1>7 DEF WorkerRejects, Route
  <2> QED
    BY <2>1, ReaderNames
<1>8. ASSUME \/ StartWorker \/ DeclareTopology \/ Peek \/ (\E r \in Reader : Requeue(r))
             \/ (\E u \in Probe : Poll(u) \/ PollEnds(u) \/ PollFails(u)) \/ UNCHANGED vars
      PROVE  UNCHANGED <<dead, moving>>
  BY <1>8 DEF StartWorker, DeclareTopology, Peek, Requeue, Poll, PollEnds, PollFails, vars, broker
<1> QED
  BY <1>2, <1>3, <1>4, <1>5, <1>6, <1>7, <1>8 DEF Next

LEMMA ShownStays ==
  ASSUME QueueInv, [Next]_vars, NEW v \in Probe, look'[v] = look[v], ~probe[v].full
  PROVE  (Seen(v) => Seen(v)') /\ (Missed(v) => Missed(v)')
<1>1. Seen(v) => Seen(v)'
  BY DeadGrows DEF Seen
<1>2. ASSUME look[v].arrived, v \notin moving, v \in Range(dead) => Position(v) > Window,
             v \in Range(dead')
      PROVE  Position(v)' > Window
  BY <1>2, DeadGrows
<1>3. Missed(v) => Missed(v)'
  BY <1>2, DeadGrows DEF Missed
<1> QED
  BY <1>1, <1>3

(* What other actors do to a run. *)
Undisturbed(v) ==
  /\ at'[v] = at[v] /\ look'[v] = look[v] /\ result'[v] = result[v]
  /\ at[v] = "polling" => held'[v] = held[v]
  /\ \A q \in Request : <<v, q>> \in late' => <<v, q>> \in late
  /\ probe'[v].full => probe[v].full \/ <<v, "publish">> \in late

LEMMA OthersLeaveAlone ==
  ASSUME QueueInv, [Next]_vars, NEW v \in Probe,
         ~(Answered(v) \/ Refused(v) \/ RequestFails(v)),
         ~(Poll(v) \/ PollEnds(v) \/ PollFails(v))
  PROVE  Undisturbed(v)
<1>1. TypeOK /\ v \in Reader
  BY ReaderNames DEF QueueInv, ReadersGiveBack
<1>2. ASSUME NEW u \in Probe, u # v, Answered(u) \/ Refused(u) \/ RequestFails(u)
      PROVE  Undisturbed(v)
  <2>1. /\ at'[v] = at[v] /\ look'[v] = look[v] /\ result'[v] = result[v]
        /\ UNCHANGED late \/ late' = late \cup {<<u, at[u]>>}
    BY <1>1, <1>2, RequestEffect
  <2>2. held' = held /\ probe'[v] = probe[v]
    <3>1. at[u] \in Request /\ (Executes(u, at[u]) \/ UNCHANGED broker)
      BY <1>1, <1>2, RequestEffect
    <3>2. CASE UNCHANGED broker
      BY <3>2 DEF broker
    <3>3. CASE Executes(u, at[u])
      BY <1>1, <1>2, <3>1, <3>3, ExecutesEffect
    <3> QED
      BY <3>1, <3>2, <3>3
  <2> QED
    BY <1>2, <2>1, <2>2 DEF Undisturbed
<1>3. ASSUME NEW u \in Probe, NEW q \in Request, ExecutedLate(u, q) PROVE Undisturbed(v)
  <2>1. /\ <<u, q>> \in late /\ late' \subseteq late /\ Executes(u, q)
        /\ UNCHANGED <<at, result, failed, look>>
    BY <1>3 DEF ExecutedLate
  <2>2. /\ UNCHANGED held
        /\ u # v => probe'[v] = probe[v]
        /\ u = v => (probe'[v].full => probe[v].full \/ q = "publish")
    BY <1>1, <2>1, ExecutesEffect
  <2> QED
    BY <2>1, <2>2 DEF Undisturbed
<1>4. ASSUME NEW u \in Probe, u # v, Poll(u) \/ PollEnds(u) PROVE Undisturbed(v)
  <2>1. UNCHANGED <<probe, late>>
    BY <1>4 DEF Poll, PollEnds
  <2>2. held'[v] = held[v] /\ at'[v] = at[v] /\ look'[v] = look[v] /\ result'[v] = result[v]
    <3>1. CASE Poll(u)
      BY <1>1, <1>4, <3>1 DEF Poll, TypeOK
    <3>2. CASE PollEnds(u)
      BY <1>1, <1>4, <3>2 DEF PollEnds, TypeOK
    <3> QED
      BY <1>4, <3>1, <3>2
  <2> QED
    BY <2>1, <2>2 DEF Undisturbed
<1>5. ASSUME NEW u \in Probe, u # v, PollFails(u) PROVE Undisturbed(v)
  <2>1. UNCHANGED <<probe, late, held, look>>
    BY <1>5 DEF PollFails, broker
  <2>2. at'[v] = at[v] /\ result'[v] = result[v]
    BY <1>1, <1>5 DEF PollFails, Raises, TypeOK
  <2> QED
    BY <2>1, <2>2 DEF Undisturbed
<1>6. ASSUME NEW r \in Reader, Requeue(r) PROVE Undisturbed(v)
  <2>1. UNCHANGED <<probe, at, result, look, late>>
    BY <1>6 DEF Requeue
  <2>2. at[v] = "polling" => held'[v] = held[v]
    BY <1>1, <1>6 DEF Requeue, TypeOK
  <2> QED
    BY <2>1, <2>2 DEF Undisturbed
<1>7. ASSUME Peek PROVE Undisturbed(v)
  <2>1. UNCHANGED <<probe, at, result, look, late>>
    BY <1>7 DEF Peek
  <2>2. held'[v] = held[v]
    BY <1>1, <1>7, ReaderNames DEF Peek, TypeOK
  <2> QED
    BY <2>1, <2>2 DEF Undisturbed
<1>8. ASSUME \/ StartWorker \/ DeclareTopology \/ (\E m \in Message : Arrive(m))
             \/ (\E m \in Work : WorkerRejects(m)) \/ UNCHANGED vars
      PROVE  UNCHANGED <<probe, at, result, look, late, held>>
  BY <1>8 DEF StartWorker, DeclareTopology, Arrive, WorkerRejects, vars, broker
<1>9. ASSUME UNCHANGED <<probe, at, result, look, late, held>> PROVE Undisturbed(v)
  BY <1>9 DEF Undisturbed
<1> QED
  BY <1>2, <1>3, <1>4, <1>5, <1>6, <1>7, <1>8, <1>9 DEF Next

(* Undisturbed, a run keeps what it knows. *)
LEMMA UndisturbedKeeps ==
  ASSUME QueueInv, [Next]_vars, NEW v \in Probe, Undisturbed(v), Clean(v),
         ~result[v].error => Known(v)
  PROVE  Clean(v)' /\ (~result'[v].error => Known(v)')
<1>1. Clean(v)'
  BY Requests DEF Clean, Undisturbed, Unsent
<1>2. ASSUME ~result[v].error, at[v] \in {"polling", "delete", "done"}
      PROVE  (Seen(v) => Seen(v)') /\ (Missed(v) => Missed(v)')
  BY <1>2, ShownStays DEF Clean, Undisturbed
<1>3. ~result'[v].error => Known(v)'
  BY <1>2 DEF Known, Undisturbed
<1> QED
  BY <1>1, <1>3

(* A run that goes on without an error keeps what it knows. *)
LEMMA RequestKnows ==
  ASSUME QueueInv, [Next]_vars, NEW v \in Probe, Clean(v), ~result[v].error => Known(v),
         Answered(v) \/ Refused(v) \/ RequestFails(v)
  PROVE  Clean(v)' /\ (~result'[v].error => Known(v)')
<1>1. TypeOK
  BY DEF QueueInv, ReadersGiveBack
<1>2. SUFFICES ASSUME ~result'[v].error PROVE Clean(v)' /\ Known(v)'
  BY DEF Clean
<1>3. /\ at[v] \in Request /\ ~result[v].error /\ look'[v] = look[v]
      /\ result'[v].found = result[v].found
      /\ \/ at'[v] = Following[at[v]] /\ UNCHANGED late /\ Executes(v, at[v])
         \/ at[v] = "delete" /\ at'[v] = "done"
      /\ UNCHANGED late \/ late' = late \cup {<<v, at[v]>>}
  BY <1>1, <1>2, RequestEffect, ResultEffect
<1>4. probe'[v].full => probe[v].full \/ at[v] = "publish"
  <2>1. CASE UNCHANGED broker
    BY <2>1 DEF broker
  <2>2. CASE Executes(v, at[v])
    BY <1>1, <1>3, <2>2, ExecutesEffect
  <2> QED
    BY <1>1, <2>1, <2>2, RequestEffect
<1>5. at'[v] \in {"poll", "polling", "delete", "done"} =>
        at[v] = "delete" \/ (at[v] = "reject" /\ at'[v] = "poll" /\ Executes(v, at[v]))
  BY <1>3, Requests
<1>6. at'[v] \in {"poll", "polling", "delete", "done"} => ~probe'[v].full
  <2>1. CASE at[v] = "reject" /\ Executes(v, at[v])
    BY <1>1, <1>3, <2>1, ExecutesEffect
  <2>2. CASE at[v] = "delete"
    BY <1>3, <1>4, <2>2 DEF Clean
  <2> QED
    BY <1>5, <2>1, <2>2
<1>7. \A q \in Request : <<v, q>> \in late' => q = "delete"
  BY <1>3 DEF Clean
<1>8. Clean(v)'
  BY <1>6, <1>7 DEF Clean
<1>9. Known(v)'
  <2>1. CASE at'[v] \notin {"polling", "delete", "done"}
    BY <2>1 DEF Known
  <2>2. CASE at'[v] \in {"polling", "delete", "done"}
    <3>1. at[v] = "delete" /\ at'[v] = "done" /\ ~probe[v].full
      BY <1>3, <1>5, <2>2, Requests DEF Clean
    <3>2. (Seen(v) => Seen(v)') /\ (Missed(v) => Missed(v)')
      BY <1>3, <3>1, ShownStays
    <3> QED
      BY <1>3, <3>1, <3>2 DEF Known
  <2> QED
    BY <2>1, <2>2
<1> QED
  BY <1>8, <1>9

(* A poll that nobody disturbs shows whether the probe is within reach. *)
LEMMA PollKnows ==
  ASSUME QueueInv, NEW v \in Probe, Clean(v), Poll(v)
  PROVE  Clean(v)' /\ Known(v)'
<1>1. TypeOK /\ ReadersGiveBack /\ v \in Reader /\ Window \in Nat
  BY ReaderNames, WindowAssumption DEF QueueInv, ReadersGiveBack
<1>2. /\ at[v] = "poll" /\ at'[v] = "polling" /\ held'[v] = FirstReady(Window)
      /\ look'[v] = [alone |-> \A r \in Reader : held[r] = {}, arrived |-> v \notin moving]
      /\ UNCHANGED <<probe, late, result, moving, dead>>
  BY <1>1 DEF Poll, TypeOK
<1>3. Clean(v)'
  BY <1>2 DEF Clean
<1>4. ASSUME look'[v].alone PROVE IF v \in held'[v] THEN Seen(v)' ELSE Missed(v)'
  <2>1. \A r \in Reader : held[r] = {}
    BY <1>2, <1>4
  <2>2. ready = Range(dead)
    BY <1>1, <2>1 DEF ReadersGiveBack
  <2>3. v \in Range(dead) => (v \in FirstReady(Window) <=> Position(v) <= Window)
    BY <1>1, <2>2, RankIsPosition DEF FirstReady
  <2>4. v \in FirstReady(Window) => v \in Range(dead)
    BY <2>2 DEF FirstReady
  <2>5. Position(v)' = Position(v)
    BY <1>2 DEF Position
  <2>6. v \in Range(dead) => Position(v) \in Nat
    BY <1>1, RankIsPosition
  <2>7. look'[v].arrived => v \notin moving
    <3>1. look'[v].arrived = (v \notin moving)
      BY <1>2
    <3> QED
      BY <3>1
  <2>8. CASE v \in held'[v]
    BY <1>2, <2>3, <2>4, <2>5, <2>8 DEF Seen
  <2>9. CASE v \notin held'[v]
    BY <1>1, <1>2, <2>3, <2>5, <2>6, <2>7, <2>9 DEF Missed
  <2> QED
    BY <2>8, <2>9
<1> QED
  BY <1>2, <1>3, <1>4 DEF Known

LEMMA PollEndsKnows ==
  ASSUME QueueInv, NEW v \in Probe, Clean(v), ~result[v].error => Known(v), PollEnds(v)
  PROVE  Clean(v)' /\ (~result'[v].error => Known(v)')
<1>1. TypeOK /\ result[v] \in Result
  BY DEF QueueInv, ReadersGiveBack, TypeOK, Result
<1>2. /\ at[v] = "polling" /\ at'[v] \in {"poll", "delete"}
      /\ at'[v] = "delete" => v \in held[v] \/ look[v].arrived
      /\ result'[v] = [result[v] EXCEPT !.found = v \in held[v]]
      /\ UNCHANGED <<probe, late, look, moving, dead>>
  BY <1>1 DEF PollEnds, TypeOK, ContainsProbe
<1>3. result'[v].error = result[v].error /\ result'[v].found = (v \in held[v])
  BY <1>1, <1>2 DEF Result
<1>4. Clean(v)'
  BY <1>2, <1>3 DEF Clean
<1>5. (Seen(v)' <=> Seen(v)) /\ (Missed(v)' <=> Missed(v))
  BY <1>2 DEF Seen, Missed, Position
<1>6. ~result'[v].error => Known(v)'
  BY <1>2, <1>3, <1>5 DEF Known
<1> QED
  BY <1>4, <1>6

LEMMA FoundStep ==
  ASSUME QueueInv, FoundInv, [Next]_vars
  PROVE  FoundInv'
<1> SUFFICES ASSUME NEW v \in Probe PROVE Clean(v)' /\ (~result'[v].error => Known(v)')
  BY DEF FoundInv
<1>1. Clean(v) /\ (~result[v].error => Known(v))
  BY DEF FoundInv
<1>2. CASE PollFails(v)
  <2>1. result'[v].error
    <3>1. result \in [Probe -> Result] /\ at[v] # "delete"
      BY <1>2 DEF PollFails, QueueInv, ReadersGiveBack, TypeOK, Result
    <3>2. result' = [result EXCEPT ![v].error = @ \/ at[v] # "delete"]
      BY <1>2 DEF PollFails, Raises
    <3>3. result'[v] = [result[v] EXCEPT !.error = result[v].error \/ at[v] # "delete"]
      BY <3>1, <3>2
    <3>4. result'[v].error = (result[v].error \/ at[v] # "delete")
      BY <3>1, <3>3 DEF Result
    <3> QED
      BY <3>1, <3>4
  <2> QED
    BY <2>1 DEF Clean
<1> QED
  BY <1>1, <1>2, OthersLeaveAlone, UndisturbedKeeps, RequestKnows, PollKnows, PollEndsKnows

(* A run that met no error knows, once it has polled undisturbed, whether  *)
(* its probe lies within the window of the peek.                           *)
THEOREM FoundInvariance == Spec => []FoundInv
<1>1. Init => FoundInv
  BY DEF Init, FoundInv, Clean, Known
<1> QED
  BY <1>1, FoundStep, QueueInvariance, PTL DEF Spec

(* What found_in_dlq means, for any window: a run without an error that was
   alone at its last poll has found its probe exactly when fewer than Window
   messages came before it. *)
THEOREM FoundMeansInReach == Spec => []FoundUnlessBuried
<1>1. ASSUME QueueInv, FoundInv PROVE FoundUnlessBuried
  <2> SUFFICES ASSUME NEW v \in Probe, at[v] = "done", ~result[v].error, look[v].alone,
                      v \in Range(dead)
               PROVE  result[v].found <=> Position(v) <= Window
    BY DEF FoundUnlessBuried
  <2>1. Known(v) /\ result[v].found \in BOOLEAN
    BY <1>1 DEF FoundInv, QueueInv, ReadersGiveBack, TypeOK
  <2>2. Position(v) \in Nat /\ Window \in Nat
    BY <1>1, RankIsPosition, WindowAssumption DEF QueueInv
  <2>3. result[v].found => Position(v) <= Window
    BY <2>1 DEF Known, Seen
  <2>4. ~result[v].found => Position(v) > Window
    BY <2>1 DEF Known, Missed
  <2> QED
    BY <2>1, <2>2, <2>3, <2>4
<1> QED
  BY <1>1, QueueInvariance, FoundInvariance, PTL
=============================================================================
