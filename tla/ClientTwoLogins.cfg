SPECIFICATION Spec
CONSTANTS
  Users = {alice, bob}
  Guest = guest
  MaxDrops = 1
  MaxPending = 4
INVARIANTS
  ClosedConnectionsForgotten
