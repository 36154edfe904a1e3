SPECIFICATION Spec
CONSTANTS
  g0 = g0
  g1 = g1
  g2 = g2
  g3 = g3
  g4 = g4
  g5 = g5
  Gs = {g0, g1, g2, g3, g4, g5}
  MainG = g0
  NumP = 2
  MaxM = 2
  RqCap = 4
  FairTick = 1
  Ops = {"spawn"}
  Monitor = FALSE
  Sysmon = Sysmon
  Reactor = Reactor
  MainThread = MainThread
  NULL = NULL
  POP = POP
CHECK_DEADLOCK FALSE
SYMMETRY OtherGs
INVARIANTS GInOnePlace NoLostWakeup RingWorkHasRunner RingBounded
