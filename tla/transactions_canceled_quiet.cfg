CONSTANTS
  a = a  b = b  c = c
  Subtask = {a, b, c}
  Dep <- Join
  MaxRetries <- OneRetryOfA
  Result = {"SUCCESS", "FAILED"}
  Session = {c1, c2}
  MaxPlans = 3
SPECIFICATION Spec
CHECK_DEADLOCK FALSE
INVARIANT CanceledIsQuiet
