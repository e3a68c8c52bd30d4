CONSTANTS
  Execution = {e1}
  Worker = {w1,w2}
  MaxRetries = 1
  Outcome = "SUCCESS"
  MaxFaults = 2
SPECIFICATION Spec
CHECK_DEADLOCK FALSE
INVARIANT RunningIsBacked
PROPERTIES FirstResultCounts WorkerNeverCancels EnqueuedSettles QueueDrains
