CONSTANTS
  u1 = u1  u2 = u2  e1 = e1  z1 = z1  s1 = s1  s2 = s2  s3 = s3
  None = None
  Node = {u1, u2, e1, z1}
  Registered <- Data
  Session = {h1, h2}
  Report <- Reports
  MaxReports = 2
  Subtask = {s1, s2, s3}
  Demand <- Demands
  Weight = {0, 2}
SPECIFICATION Spec
SYMMETRY SessionSymmetry
INVARIANTS RegistryInv FreshAsListed RowOrderIrrelevant GreedyIsCheapest ComparisonConsistent
