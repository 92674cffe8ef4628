CONSTANTS
  None = None
  Users = {1, 2}
  Passwords = {p1, p2}
  Requests = {r1, r2}
  Tokens = {t1}
SPECIFICATION Spec
INVARIANTS TypeOK  GuardsDoNotDeadlock
PROPERTIES AdminRemainsUnlessBlind ImplementsUserTable
SYMMETRY Symmetry
