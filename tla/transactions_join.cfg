CONSTANTS
  a = a  b = b  c = c
  Subtask = {a, b, c}
  Dep <- Join
  MaxRetries <- OneRetryOfA
  Result = {"SUCCESS", "FAILED", "CANCELED"}
  Session = {c1, c2}
  MaxPlans = 4
SPECIFICATION Spec
SYMMETRY SessionSymmetry
CHECK_DEADLOCK FALSE
INVARIANTS RecordInv OneOpenAttempt RetriesMatchAttempts PrecedenceByRecords
  SuccessHasEvidence FailureHasEvidence LocksProtectRecords
PROPERTIES SettledOnce ImplementsLedger
