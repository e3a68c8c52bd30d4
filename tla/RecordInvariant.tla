-------------------------- MODULE RecordInvariant --------------------------
(***************************************************************************)
(* The inductive invariant behind the safety of the execution records.     *)
(* The properties of TaskDatabase speak of the committed rows; they are    *)
(* inductive only together with what is known of the values a transaction  *)
(* has loaded or computed and not yet written.                             *)
(***************************************************************************)
EXTENDS TaskTransactions

(* The result this transaction is about to settle makes s successful. *)
Pending(w, s) == w.result = "SUCCESS" /\ \E k \in w.held : k[1] = s

WillHaveSucceeded(w, s) == Succeeded(s) \/ Pending(w, s)

(* What a transaction may insert: an attempt that is at most the next one. *)
InsertsNextAttempt(w) ==
  \A k \in w.insert :
    /\ k[2] \in 1..retry[k[1]] + 1
    /\ \A p \in Predecessors(k[1]) : Succeeded(p)

(* A report speaks of the one record it has locked, which is the newest    *)
(* attempt of its subtask: nobody else can move retry_count meanwhile.     *)
ReportsNewestAttempt(w) ==
  w.op = "report" =>
    \E k \in w.held :
      /\ w.held = {k}
      /\ k[2] = w.ownRetry + 1
      /\ w.ownRetry <= MaxRetries[k[1]]
      /\ w.result \in Result

SettlesHeld(w) ==
  /\ w.held # {} /\ w.op # "report" => w.result = "CANCELED"
  /\ w.held # {} => w.op \in {"report", "cancel"}
  /\ w.at = "locking" => w.result = "CANCELED"
  /\ w.insert # {} => w.op = "start"

(* A retry is granted only to the locked attempt, after a failure. *)
GrantsRetry(w) ==
  \A s \in w.setRetry :
    /\ w.op = "report"
    /\ <<s, w.ownRetry + 1>> \in w.held
    /\ w.result \in {"FAILED", "TIMEOUT"}
    /\ w.ownRetry < MaxRetries[s]

(* The dirty statuses rest on records that are, or will be with the same   *)
(* commit, in the database.                                                *)
WritesWithEvidence(w) ==
  /\ \A s \in Subtask :
       /\ w.setSub[s] = "SUCCESS" => Pending(w, s)
       /\ w.setSub[s] \in {"READY", "RUNNING"} =>
            \A p \in Predecessors(s) : WillHaveSucceeded(w, p)
  /\ w.setTask = "SUCCESS" => \A s \in Subtask : WillHaveSucceeded(w, s)
  /\ w.setTask = "FAILED" =>
       \E k \in w.held :
         \/ w.result = "CANCELED"
         \/ w.result \in {"FAILED", "TIMEOUT"} /\ k[2] = MaxRetries[k[1]] + 1

(* A subtask that may be started, or was, has successful predecessors. *)
ReadyHasPrecedence ==
  \A s \in Subtask :
    sub[s] \in {"READY", "RUNNING"} => \A p \in Predecessors(s) : Succeeded(p)

TransactionOK(w) ==
  /\ InsertsNextAttempt(w)
  /\ ReportsNewestAttempt(w)
  /\ SettlesHeld(w)
  /\ GrantsRetry(w)
  /\ WritesWithEvidence(w)

(* The inductive invariant: every transaction that is under way can only   *)
(* commit what keeps the records in order.                                 *)
RecordInv ==
  /\ TypeOK
  /\ RetriesMatchAttempts
  /\ PrecedenceByRecords
  /\ SuccessHasEvidence
  /\ FailureHasEvidence
  /\ LocksProtectRecords
  /\ ReadyHasPrecedence
  /\ \A c \in Session : TransactionOK(tx[c])
=============================================================================
