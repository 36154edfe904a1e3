SPECIFICATION Spec
CONSTANTS
  a = a
  b = b
  d = d
  e = e
  c1 = c1
  c2 = c2
  c3 = c3
  c4 = c4
  c5 = c5
  t1 = t1
  t2 = t2
  t3 = t3
  Address <- InMemory
  NULL = NULL
  Chans = {a, b, d, e}
  Capacity <- OfEachKind
  Coros = {c1, c2, c3, c4, c5}
  Blockers = {t1, t2, t3}
  Plan <- PlainOrSelect
  MaxOps = 2
  Silent <- EitherSilent
CHECK_DEADLOCK FALSE
INVARIANTS NoStrandedReceiver NoStrandedSender RendezvousMeansTaken
           NodesMatchWaiters NoLockCycle
PROPERTIES ImplementsFifoChannel
