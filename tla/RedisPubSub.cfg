SPECIFICATION Spec
CONSTANTS
  Threads = {t1, t2}
  Channels = {ch}
  Unlock = unlock
  Listener = listener
  Nobody = nobody
  MaxCalls = 2
  MaxPublish = 2
  MaxUnlocks = 1
SYMMETRY Symmetry
INVARIANTS
  TypeOK
  ContextExclusive
  DeliveredInOrder
PROPERTIES
  ImplementsMailbox
CHECK_DEADLOCK FALSE
