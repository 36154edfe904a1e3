SPECIFICATION FairSpec
CONSTANTS
  p1 = p1
  p2 = p2
  h1 = h1
  h2 = h2
  PDs = {p1}
  Handles = {h1}
  HandleOf <- OneEach
  MaxTime = 2
  Reactor = Reactor
  NULL = NULL
INVARIANTS NoUseAfterFree WatchedWhileParked ReasonIsTrue OpenLockGuards
PROPERTY ParkedIsWoken
CHECK_DEADLOCK FALSE
