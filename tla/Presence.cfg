SPECIFICATION FairSpec
CONSTANTS
  l1 = l1
  l2 = l2
  c1 = c1
  c2 = c2
  c3 = c3
  alice = alice
  Guest = guest
  Loops = {l1, l2}
  Conns = {c1, c2, c3}
  LoopOf <- MCLoopOf
  Users = {alice, guest}
  EmptyPassword = empty
  Passwords = {pw, empty}
  NoAccount = NoAccount
  Nobody = Nobody
  NumPubSubs = 2
  PipeCapacity = 2
INVARIANTS
  TypeOK
  IndexMatchesConnections
  SessionsAreSubscribed
  NoOrphanSubscription
  OnlyAccountsOnline
PROPERTIES
  HandlersReturn
  SessionsReachRedis
CHECK_DEADLOCK FALSE
