CONSTANTS
  None = None
  SyncIds = {s1, s2}
  NodeIds = {n1, n2}
  Paths = {p1, p2}
  Roots = {d1}
  MaxEdits = 4
  MaxNew = 2
  MaxPasses = 1
SPECIFICATION Spec
PROPERTY RemovedStopsMirroring
SYMMETRY Symmetry
CHECK_DEADLOCK FALSE
