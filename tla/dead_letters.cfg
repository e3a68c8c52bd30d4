CONSTANTS
  Probe = {v1, v2}
  Work = {m1, m2}
  Window = 2
  Limit = 1
  MaxFaults = 2
SPECIFICATION Spec
CHECK_DEADLOCK FALSE
INVARIANTS ReadersGiveBack FoundUnlessBuried ProbeQueueRemoved
PROPERTY VerifiedKeepsWork
