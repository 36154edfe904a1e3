SPECIFICATION Spec
CONSTANTS
  a = a
  b = b
  d = d
  e = e
  c1 = c1
  c2 = c2
  c3 = c3
  c4 = c4
  c5 = c5
  t1 = t1
  t2 = t2
  t3 = t3
  Address <- InMemory
  NULL = NULL
  Chans = {a}
  Capacity <- Buffered1
  Coros = {c1, c2, c3}
  Blockers = {}
  Plan <- Competing
  MaxOps = 1
  Silent = {{}}
CHECK_DEADLOCK FALSE
INVARIANT NoneMeansClosed
