SPECIFICATION FairSpec
CONSTANTS
  t1 = t1
  t2 = t2
  Tasks = {t1, t2}
  Kinds = {"value", "void", "detached"}
  Uses = {"await", "drop"}
  NULL = NULL
CHECK_DEADLOCK FALSE
INVARIANTS ResultReady OwnerNotStranded Reclaimed
PROPERTY OwnerGetsThrough
