CONSTANTS
  Execution = {e1,e2}
  Worker = {w1}
  MaxRetries = 1
  Outcome = "SUCCESS"
  MaxFaults = 2
SPECIFICATION Spec
CHECK_DEADLOCK FALSE
INVARIANT DeliveryInv

