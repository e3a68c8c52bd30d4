CONSTANTS
  p1 = p1  p2 = p2  p3 = p3
  n1 = n1  n2 = n2
  Process = {p1, p2, p3}
  Name = {n1, n2}
  NameOf <- TwoAndOne
  Execution = {e1}
SPECIFICATION Spec
SYMMETRY ProcessSymmetry
INVARIANTS HeartbeatInv QuietWorkerIsOnline CountsInOrder
