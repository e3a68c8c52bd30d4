CONSTANTS
  a = a  b = b  c = c
  Name = {a, b, c}
  Request <- Requests
SPECIFICATION Spec
CHECK_DEADLOCK FALSE
INVARIANTS AcceptsExactlyDags LoopInv
