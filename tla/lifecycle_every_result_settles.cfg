CONSTANTS
  a = a  b = b  c = c  d = d
  Subtask = {a, b, c, d}
  Dep <- Diamond
  MaxRetries <- OneRetryOfB
  Result = {"SUCCESS", "FAILED"}
  MaxPlans = 4
SPECIFICATION Spec
CHECK_DEADLOCK FALSE
INVARIANT EveryResultSettles
