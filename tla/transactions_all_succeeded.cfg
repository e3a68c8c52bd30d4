CONSTANTS
  a = a  b = b  c = c
  Subtask = {a, b}
  Dep = {}
  MaxRetries <- OneRetryOfA
  Result = {"SUCCESS"}
  Session = {c1, c2}
  MaxPlans = 1
SPECIFICATION Spec
CHECK_DEADLOCK FALSE
INVARIANT AllSucceededEndsTask
