CONSTANTS
  a = a  b = b  c = c  d = d
  Subtask = {a, b, c, d}
  Dep <- Diamond
  MaxRetries <- OneRetryOfB
  Result = {"SUCCESS", "FAILED", "TIMEOUT", "CANCELED"}
  MaxPlans = 6
SPECIFICATION Spec
CHECK_DEADLOCK FALSE
INVARIANTS JoinUnlocked TaskSuccessAggregates RunningHasRecord
  CanceledIsQuiet CanProgress
PROPERTIES TerminalTaskStays TerminalSubtaskStays TaskMovesLegally
