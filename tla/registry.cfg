CONSTANTS
  None = None
  SyncIds = {s1, s2}
  NodeIds = {n1, n2}
  Paths = {p1, p2}
  Roots = {d1, d2}
  MaxEdits = 4
  MaxNew = 1
  MaxPasses = 2
SPECIFICATION Spec
INVARIANTS TypeOK  RowsFollowMembers FreshStart
SYMMETRY Symmetry
CHECK_DEADLOCK FALSE
