SPECIFICATION Spec
CONSTANTS
  e1 = e1
  e2 = e2
  b1 = b1
  b2 = b2
  Procs = {q1, q2}
  Epochs = {e1, e2}
  Blobs = {b1, b2}
  Needs <- Overlapping
  Bundled = {e1}
  MaxCmds = 4
  NULL = NULL
INVARIANTS StagingKept NoLockCycleWithoutRepair
PROPERTIES LiveBlobsKept BuildKeepsItsFiles
SYMMETRY AnyProc
CHECK_DEADLOCK FALSE
