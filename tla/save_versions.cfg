CONSTANTS
  None = None
  SyncIds = {s1, s2}
  NodeIds = {n1, n2}
  Contents = {c1, c2}
  Retain = 2
  MaxSeq = 5
SPECIFICATION Spec
INVARIANTS TypeOK BlobsExact ShownIsRestored
PROPERTY ImplementsHistories
SYMMETRY Symmetry
