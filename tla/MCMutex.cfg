SPECIFICATION SharedFairSpec
CONSTANTS
  c1 = c1
  c2 = c2
  b1 = b1
  b2 = b2
  Coros = {c1, c2}
  Blockers = {b1, b2}
  Users = {c1, c2, b1, b2}
  Inside = Inside
  NULL = NULL
CHECK_DEADLOCK FALSE
INVARIANTS MutualExclusion NoStrandedThread SharedIsAlive LastOutFrees
           MutexOutlivesUsers
PROPERTIES ImplementsFifoLock ParkedGetsLock
