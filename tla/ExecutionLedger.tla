-------------------------- MODULE ExecutionLedger --------------------------
(***************************************************************************)
(* What the execution records promise, abstractly: a ledger of attempts.   *)
(* An attempt is opened in order, only after the earlier attempts of its   *)
(* subtask have failed or timed out, only within the retry budget and only *)
(* when every predecessor has succeeded; it is settled once, alone by its  *)
(* result or together with others by a cancellation.                       *)
(***************************************************************************)
EXTENDS TaskOperations

VARIABLE ledger   \* the status of each attempt <<subtask, number>>

LedgerInit == ledger = <<>>

Attempt == UNION { {s} \X (1..MaxRetries[s] + 1) : s \in Subtask }

HasSucceeded(s) == \E k \in DOMAIN ledger : k[1] = s /\ ledger[k] = "SUCCESS"

Openable(k) ==
  /\ k \notin DOMAIN ledger
  /\ \A a \in 1..k[2] - 1 :
       /\ <<k[1], a>> \in DOMAIN ledger
       /\ ledger[<<k[1], a>>] \in {"FAILED", "TIMEOUT"}
  /\ \A p \in Predecessors(k[1]) : HasSucceeded(p)

Open(K) ==
  /\ \A k \in K : Openable(k)
  /\ ledger' = [k \in DOMAIN ledger \cup K |->
                  IF k \in K THEN "RUNNING" ELSE ledger[k]]

Settle(K, status) ==
  /\ \A k \in K : ledger[k] = "RUNNING"
  /\ ledger' = [k \in DOMAIN ledger |-> IF k \in K THEN status ELSE ledger[k]]

LedgerNext ==
  \/ \E K \in SUBSET Attempt : Open(K)
  \/ \E k \in DOMAIN ledger, r \in Result : Settle({k}, r)
  \/ \E K \in SUBSET DOMAIN ledger : Settle(K, "CANCELED")

LedgerSpec == LedgerInit /\ [][LedgerNext]_ledger
=============================================================================
