CONSTANTS
  a = a  b = b  c = c
  Subtask = {a, b, c}
  Dep <- Join
  MaxRetries <- OneRetryOfA
  Result = {"SUCCESS", "FAILED", "TIMEOUT", "CANCELED"}
  Session = {c1}
  MaxPlans = 4
  Offloaded <- MostlyOffloaded
SPECIFICATION MetricsSpec
INVARIANTS CountsExplained SuccessIsComplete
PROPERTY ImplementsSerial
