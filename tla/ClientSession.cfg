SPECIFICATION Spec
CONSTANTS
  Users = {alice, bob, carol}
  Guest = guest
  MaxDrops = 3
  MaxPending = 4
INVARIANTS
  TypeOK
  ViewsAgree
PROPERTIES
  WaitingLeavesNothing
