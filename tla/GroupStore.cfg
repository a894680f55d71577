SPECIFICATION Spec
CONSTANTS
  Servers = {s1, s2}
  Workers = {w1, w2}
  Users = {u1, u2}
  Groups = {g1, g2}
  SerialUsers = TRUE
  MaxCrashes = 1
SYMMETRY Symmetry
INVARIANTS
  TypeOK
  MembersSeeTheirGroups
  CrashDamageConfined
  AnswersShowOwnChange
PROPERTIES
  ImplementsGroupService
