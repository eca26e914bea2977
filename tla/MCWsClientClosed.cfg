SPECIFICATION FairSpec
CONSTANTS
  u1 = u1
  k1 = k1
  m1 = m1
  m2 = m2
  Users <- MCUsers
  Closers <- MCClosers
  Messages <- MCMessages
  MaxDials = 2
  MaxAttempts = 1
  PingLimit = 2
  SendCap = 1
  BaseDelay = 2
  IntBits = 3
INVARIANT ClosedIsDisconnected
CHECK_DEADLOCK FALSE
