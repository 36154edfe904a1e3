SPECIFICATION TerminatingSpec
CONSTANTS
  g0 = g0
  g1 = g1
  g2 = g2
  g3 = g3
  g4 = g4
  g5 = g5
  Gs = {g0, g1}
  MainG = g0
  NumP = 1
  MaxM = 1
  RqCap = 1
  FairTick = 3
  Ops = {"spawn", "yield", "park", "join"}
  Monitor = TRUE
  Sysmon = Sysmon
  Reactor = Reactor
  MainThread = MainThread
  NULL = NULL
  POP = POP
CHECK_DEADLOCK FALSE
INVARIANT GInOnePlace
PROPERTIES EventuallyRuns ShutdownCompletes
