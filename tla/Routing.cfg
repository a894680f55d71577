SPECIFICATION Spec
CONSTANTS
  l1 = l1
  l2 = l2
  c1 = c1
  c2 = c2
  c3 = c3
  alice = alice
  bob = bob
  team = team
  empty = empty
  Loops = {l1, l2}
  Conns = {c1, c3}
  Senders = {c1}
  LoopOf <- MCLoopOfPair
  Users = {alice, bob}
  LogsInAs <- MCLogsInAs
  Offline = offline
  Groups = {team, empty}
  MembersOf <- MCMembersOf
  Workers = {w1}
  NumPubSubs = 2
  MaxMessages = 2
  MaxOutages = 1
INVARIANTS
  TypeOK
  AtMostOnce
  PrivateInOrder
  SessionsGetTheirMessages
CHECK_DEADLOCK FALSE
