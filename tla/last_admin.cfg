CONSTANTS
  None = None
  Users = {1, 2}
  Passwords = {p1}
  Requests = {r1, r2}
  Tokens = {t1}
SPECIFICATION BootedSpec
PROPERTIES AdminRemains
CHECK_DEADLOCK FALSE
