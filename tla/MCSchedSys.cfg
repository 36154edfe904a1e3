SPECIFICATION Spec
CONSTANTS
  g0 = g0
  g1 = g1
  g2 = g2
  g3 = g3
  g4 = g4
  g5 = g5
  Gs = {g0, g1}
  MainG = g0
  NumP = 2
  MaxM = 3
  RqCap = 2
  FairTick = 1
  Ops = {"spawn", "join", "syscall"}
  Monitor = FALSE
  Sysmon = Sysmon
  Reactor = Reactor
  MainThread = MainThread
  NULL = NULL
  POP = POP
CHECK_DEADLOCK FALSE
SYMMETRY OtherGs
INVARIANTS POwnership StackDiscipline PoppedIsSignalled GInOnePlace MAndPAgree
