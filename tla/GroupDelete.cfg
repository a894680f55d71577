SPECIFICATION Spec
CONSTANTS
  Servers = {s1}
  Workers = {w1, w2}
  Users = {u1, u2}
  Groups = {g1}
  SerialUsers = TRUE
  MaxCrashes = 0
INVARIANTS
  DelOnlyEmptyGroups
