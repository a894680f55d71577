SPECIFICATION FairSpec
CONSTANTS
  Loops = {l1, l2}
  Conns = {c1, c2}
  Users = {u1, u2}
  Passwords = {empty, secret}
  Empty = empty
  Absent = absent
  Nobody = nobody
  MaxRequests = 3
INVARIANTS
  TypeOK
  WritesUnsharedMap
  OneOrder
PROPERTIES
  ImplementsUserTable
  EveryoneHears
CHECK_DEADLOCK FALSE
