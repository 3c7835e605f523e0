CONSTANTS
  p1 = p1
  p2 = p2
  Instances = {p1, p2}
  Splits = {2, 3}
  MaxRecords = 5
  MaxFaults = 3
SYMMETRY Symmetry
SPECIFICATION Spec
INVARIANT TypeOK
INVARIANT TailNeverBehind
INVARIANT TailExact
INVARIANT InOrder
INVARIANT LossBounded
CHECK_DEADLOCK FALSE
