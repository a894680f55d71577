SPECIFICATION LSpec
CONSTANTS
  Threads = {t1, t2}
  Channels = {ch}
  Unlock = unlock
  Listener = listener
  Nobody = nobody
  MaxCalls = 2
  MaxPublish = 1
  MaxUnlocks = 1
PROPERTIES
  SubscribeReturns
  StopEndsListener
  CallbackReturns
CHECK_DEADLOCK FALSE
