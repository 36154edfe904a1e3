---------------------------- MODULE StoresProofs ----------------------------
(***************************************************************************)
(* Theorems about Stores, for any number of processes, epochs and blobs.   *)
(***************************************************************************)
EXTENDS Stores, TLAPS

\* The control points at which a process has cache/.lock, llvm-view.lock, the
\* build directory's lock exclusively, and shared.
HoldsCas(q) ==
  \/ pc[q] \in {"stage", "refs", "fetch", "verify", "unref", "rmdir", "mark", "sweep"}
  \/ pc[q] \in {"vclean", "vremove"} /\ cmd[q] = "repair"

HoldsView(q) == pc[q] \in {"populate", "flock", "fetch", "vremove"}

HoldsExcl(q) ==
  \/ pc[q] = "cbuild"
  \/ pc[q] \in {"vclean", "vremove"} /\ cmd[q] = "clean"

HoldsShared(q) ==
  /\ cmd[q] = "build"
  /\ pc[q] \in {"precheck", "view", "vlock", "populate", "flock", "fetch", "use", "meta"}

\* The commands that reach a control point.
CmdInv ==
  \A q \in Procs :
    /\ pc[q] \in {"ilock", "stage", "refs", "prefetch"} => cmd[q] = "install"
    /\ pc[q] \in {"view", "vlock", "populate", "flock", "fetch"} =>
         cmd[q] \in {"install", "build"}
    /\ pc[q] \in {"mlock", "unref", "rmdir"} => cmd[q] = "remove"
    /\ pc[q] \in {"rlock", "verify"} => cmd[q] = "repair"
    /\ pc[q] \in {"mark", "sweep"} => cmd[q] \in {"remove", "repair"}
    /\ pc[q] \in {"vclean", "vremove"} => cmd[q] \in {"repair", "clean"}
    /\ pc[q] \in {"clock", "cbuild"} => cmd[q] = "clean"
    /\ pc[q] \in {"block", "precheck", "use", "meta"} => cmd[q] = "build"

\* A process that works on an epoch has one, and a fetch has its blob.
ArgInv ==
  \A q \in Procs :
    /\ pc[q] \in {"ilock", "stage", "refs", "prefetch", "view", "vlock", "populate", "flock",
                 "fetch", "mlock", "unref", "rmdir", "block", "precheck", "use"} =>
         arg[q] \in Epochs
    /\ pc[q] \in {"flock", "fetch"} => cur[q] \in Blobs

\* Every lock is held exactly where the code holds it.
LockInv ==
  /\ \A q \in Procs :
       /\ cas = q <=> HoldsCas(q)
       /\ vlock = q <=> HoldsView(q)
       /\ excl = q <=> HoldsExcl(q)
       /\ q \in shared <=> HoldsShared(q)
  /\ excl # NULL => shared = {}

\* A reference file lies in its directory; a removal has deleted the one before
\* it deletes the other, and an install that writes the one has the other.
RefsInv ==
  /\ \A e \in Epochs : refs[e] # "none" => e \in dir
  /\ \A q \in Procs :
       /\ pc[q] = "rmdir" => refs[arg[q]] = "none"
       /\ pc[q] = "refs" => arg[q] \in dir

\* b may be deleted.
Dead(b) ==
  \A e \in Epochs : /\ refs[e] = "whole" => b \notin Needs[e]
                    /\ e \in dir /\ refs[e] = "none" => b \notin staged[e]

\* The list a sweep works off stays dead while the sweep holds the lock.
SweepInv == \A q \in Procs : pc[q] = "sweep" => \A b \in todo[q] : Dead(b)

Inv ==
  /\ TypeOK /\ CmdInv /\ ArgInv /\ LockInv
  /\ RefsInv /\ SweepInv /\ StagingKept

\* Any step of a process.
Step(q) == Install(q) \/ ResolveView(q) \/ Reclaim(q) \/ Build(q) \/ Crash(q)

-----------------------------------------------------------------------------
LEMMA InitInv == Init => Inv
  <1> SUFFICES ASSUME Init PROVE Inv  OBVIOUS
  <1> USE DEF Init
  <1>1. TypeOK
    <2>1. obj \in BOOLEAN  BY Zenon
    <2>2. QED BY <2>1, StoresAssumption DEF TypeOK, States
  <1>2. CmdInv /\ ArgInv
    BY DEF CmdInv, ArgInv
  <1>3. LockInv
    BY StoresAssumption DEF LockInv, HoldsCas, HoldsView, HoldsExcl, HoldsShared
  <1>4. RefsInv /\ SweepInv
    BY DEF RefsInv, SweepInv
  <1>5. StagingKept
    BY DEF StagingKept
  <1>6. QED BY <1>1, <1>2, <1>3, <1>4, <1>5 DEF Inv

\* A step keeps the types.
LEMMA TypeStep ==
  ASSUME TypeOK, CmdInv, ArgInv, NEW q \in Procs, Step(q)
  PROVE  TypeOK'
  <1>1. CASE Install(q)
    <2>1. CASE \E e \in Epochs : BeginInstall(q, e)
      BY <2>1, StoresAssumption DEF BeginInstall, Begin, diskVars, lockVars, TypeOK,
        States, Commands
    <2>2. CASE InstallLock(q)
      BY <2>2, StoresAssumption DEF InstallLock, Goto, SweepResidue, diskVars, lockVars,
        TypeOK, States, Commands, CmdInv, ArgInv
    <2>3. CASE \E b \in Blobs : StageBlob(q, b)
      BY <2>3, StoresAssumption DEF StageBlob, Goto, diskVars, lockVars, TypeOK, States,
        Commands, CmdInv, ArgInv
    <2>4. CASE StageFails(q)
      BY <2>4, StoresAssumption DEF StageFails, Exit, ReleaseAll, Unlocked, SweepResidue,
        diskVars, lockVars, TypeOK, States, Commands
    <2>5. CASE OpenRefs(q)
      BY <2>5, StoresAssumption DEF OpenRefs, Goto, diskVars, lockVars, TypeOK, States,
        Commands, CmdInv, ArgInv
    <2>6. CASE WriteRefs(q)
      BY <2>6, StoresAssumption DEF WriteRefs, Goto, diskVars, lockVars, TypeOK, States,
        Commands, CmdInv, ArgInv
    <2>7. CASE WriteRefsFails(q)
      BY <2>7, StoresAssumption DEF WriteRefsFails, Goto, diskVars, lockVars, TypeOK,
        States, Commands
    <2>8. CASE Prefetch(q)
      BY <2>8, StoresAssumption DEF Prefetch, Goto, Exit, diskVars, lockVars, TypeOK,
        States, Commands
    <2>9. QED BY <1>1, <2>1, <2>2, <2>3, <2>4, <2>5, <2>6, <2>7, <2>8 DEF Install
  <1>2. CASE ResolveView(q)
    <2>1. CASE CheckView(q)
      BY <2>1, StoresAssumption DEF CheckView, HaveView, Goto, Exit, diskVars, lockVars,
        TypeOK, States, Commands, CmdInv, ArgInv
    <2>2. CASE ViewAppeared(q)
      BY <2>2, StoresAssumption DEF ViewAppeared, HaveView, Goto, Exit, diskVars,
        lockVars, TypeOK, States, Commands, CmdInv, ArgInv
    <2>3. CASE \E old \in SUBSET Procs : OpenStaging(q, old)
      BY <2>3, StoresAssumption DEF OpenStaging, Goto, diskVars, lockVars, TypeOK, States,
        Commands, CmdInv, ArgInv
    <2>4. CASE \E b \in Blobs : LinkBlob(q, b)
      BY <2>4, StoresAssumption DEF LinkBlob, Goto, diskVars, lockVars, TypeOK, States,
        Commands
    <2>5. CASE \E b \in Blobs : Missing(q, b)
      BY <2>5, StoresAssumption DEF Missing, Goto, diskVars, lockVars, TypeOK, States,
        Commands
    <2>6. CASE FetchedByOther(q)
      BY <2>6, StoresAssumption DEF FetchedByOther, Goto, diskVars, lockVars, TypeOK,
        States, Commands, CmdInv, ArgInv
    <2>7. CASE FetchLock(q)
      BY <2>7, StoresAssumption DEF FetchLock, Goto, diskVars, lockVars, TypeOK, States,
        Commands, CmdInv, ArgInv
    <2>8. CASE CommitBlob(q)
      BY <2>8, StoresAssumption DEF CommitBlob, Goto, diskVars, lockVars, TypeOK, States,
        Commands, CmdInv, ArgInv
    <2>9. CASE FetchFails(q)
      BY <2>9, StoresAssumption DEF FetchFails, Exit, ReleaseAll, Unlocked, diskVars,
        lockVars, TypeOK, States, Commands
    <2>10. CASE Publish(q)
      BY <2>10, StoresAssumption DEF Publish, HaveView, Goto, Exit, diskVars, lockVars,
        TypeOK, States, Commands, CmdInv, ArgInv
    <2>11. CASE Declined(q)
      BY <2>11, StoresAssumption DEF Declined, Exit, ReleaseAll, Unlocked, diskVars, lockVars,
        TypeOK, States, Commands
    <2>12. QED BY <1>2, <2>1, <2>2, <2>3, <2>4, <2>5, <2>6, <2>7, <2>8, <2>9, <2>10,
      <2>11 DEF ResolveView
  <1>3. CASE Reclaim(q)
    <2>1. CASE \E e \in Epochs : BeginRemove(q, e)
      BY <2>1, StoresAssumption DEF BeginRemove, Begin, diskVars, lockVars, TypeOK,
        States, Commands
    <2>2. CASE RemoveLock(q)
      BY <2>2, StoresAssumption DEF RemoveLock, Goto, Exit, diskVars, lockVars, TypeOK,
        States, Commands
    <2>3. CASE RemoveRefs(q)
      BY <2>3, StoresAssumption DEF RemoveRefs, Goto, diskVars, lockVars, TypeOK, States,
        Commands, CmdInv, ArgInv
    <2>4. CASE RemoveDir(q)
      BY <2>4, StoresAssumption DEF RemoveDir, Goto, diskVars, lockVars, TypeOK, States,
        Commands, CmdInv, ArgInv
    <2>5. CASE BeginRepair(q)
      BY <2>5, StoresAssumption DEF BeginRepair, Begin, diskVars, lockVars, TypeOK,
        States, Commands
    <2>6. CASE RepairLock(q)
      BY <2>6, StoresAssumption DEF RepairLock, Goto, diskVars, lockVars, TypeOK, States,
        Commands
    <2>7. CASE \E bad \in SUBSET Blobs : Verify(q, bad)
      BY <2>7, StoresAssumption DEF Verify, Goto, diskVars, lockVars, TypeOK, States,
        Commands
    <2>8. CASE Mark(q)
      BY <2>8, StoresAssumption DEF Mark, Goto, diskVars, lockVars, TypeOK, States, Commands
    <2>9. CASE \E b \in Blobs : SweepBlob(q, b)
      BY <2>9, StoresAssumption DEF SweepBlob, Goto, diskVars, lockVars, TypeOK, States,
        Commands
    <2>10. CASE Swept(q)
      BY <2>10, StoresAssumption DEF Swept, Goto, Exit, SweepResidue, diskVars, lockVars,
        TypeOK, States, Commands
    <2>11. CASE BeginClean(q)
      BY <2>11, StoresAssumption DEF BeginClean, Begin, diskVars, lockVars, TypeOK,
        States, Commands
    <2>12. CASE CleanLock(q)
      BY <2>12, StoresAssumption DEF CleanLock, Goto, diskVars, lockVars, TypeOK, States,
        Commands
    <2>13. CASE CleanBuildCache(q)
      BY <2>13, StoresAssumption DEF CleanBuildCache, Goto, diskVars, lockVars, TypeOK,
        States, Commands
    <2>14. CASE CleanViewsLock(q)
      BY <2>14, StoresAssumption DEF CleanViewsLock, Goto, diskVars, lockVars, TypeOK,
        States, Commands
    <2>15. CASE CleanViews(q)
      BY <2>15, StoresAssumption DEF CleanViews, Exit, ReleaseAll, Unlocked, diskVars,
        lockVars, TypeOK, States, Commands
    <2>16. QED BY <1>3, <2>1, <2>2, <2>3, <2>4, <2>5, <2>6, <2>7, <2>8, <2>9, <2>10,
      <2>11, <2>12, <2>13, <2>14, <2>15 DEF Reclaim
  <1>4. CASE Build(q)
    <2>1. CASE \E e \in Epochs : BeginBuild(q, e)
      BY <2>1, StoresAssumption DEF BeginBuild, Begin, diskVars, lockVars, TypeOK, States,
        Commands
    <2>2. CASE BuildLock(q)
      BY <2>2, StoresAssumption DEF BuildLock, Goto, diskVars, lockVars, TypeOK, States,
        Commands
    <2>3. CASE Precheck(q)
      BY <2>3, StoresAssumption DEF Precheck, Goto, diskVars, lockVars, TypeOK, States,
        Commands
    <2>4. CASE UseTools(q)
      <3>1. obj' \in BOOLEAN
        BY <2>4, Zenon DEF UseTools, TypeOK
      <3>2. shared' \subseteq Procs
        BY <2>4 DEF UseTools, TypeOK
      <3>3. /\ cmd' \in [Procs -> Commands \cup {NULL}]
            /\ arg' \in [Procs -> Epochs \cup {NULL}]
            /\ pc' \in [Procs -> States]
            /\ todo' \in [Procs -> SUBSET Blobs]
            /\ cur' \in [Procs -> Blobs \cup {NULL}]
            /\ seen' \subseteq Procs
            /\ ran' = ran
        BY <2>4 DEF UseTools, Goto, Exit, TypeOK, States
      <3>4. QED BY <2>4, <3>1, <3>2, <3>3 DEF UseTools, TypeOK
    <2>5. CASE SaveMeta(q)
      BY <2>5, StoresAssumption DEF SaveMeta, Exit, diskVars, lockVars, TypeOK, States,
        Commands
    <2>6. QED BY <1>4, <2>1, <2>2, <2>3, <2>4, <2>5 DEF Build
  <1>5. CASE Crash(q)
    BY <1>5, StoresAssumption DEF Crash, Exit, ReleaseAll, Unlocked, diskVars, lockVars,
      TypeOK, States, Commands
  <1>6. QED BY <1>1, <1>2, <1>3, <1>4, <1>5 DEF Step

\* A step takes a command only where the command goes.
LEMMA CmdStep ==
  ASSUME TypeOK, CmdInv, NEW q \in Procs, Step(q)
  PROVE  CmdInv'
  <1>1. CASE Install(q)
    <2>1. CASE \E e \in Epochs : BeginInstall(q, e)
      BY <2>1 DEF BeginInstall, Begin, diskVars, lockVars, TypeOK, CmdInv
    <2>2. CASE InstallLock(q)
      BY <2>2 DEF InstallLock, Goto, SweepResidue, diskVars, lockVars, TypeOK, CmdInv
    <2>3. CASE \E b \in Blobs : StageBlob(q, b)
      BY <2>3 DEF StageBlob, Goto, diskVars, lockVars, TypeOK, CmdInv
    <2>4. CASE StageFails(q)
      BY <2>4 DEF StageFails, Exit, ReleaseAll, Unlocked, SweepResidue, diskVars,
        lockVars, TypeOK, CmdInv
    <2>5. CASE OpenRefs(q)
      BY <2>5 DEF OpenRefs, Goto, diskVars, lockVars, TypeOK, CmdInv
    <2>6. CASE WriteRefs(q)
      BY <2>6 DEF WriteRefs, Goto, diskVars, lockVars, TypeOK, CmdInv
    <2>7. CASE WriteRefsFails(q)
      BY <2>7 DEF WriteRefsFails, Goto, diskVars, lockVars, TypeOK, CmdInv
    <2>8. CASE Prefetch(q)
      BY <2>8 DEF Prefetch, Goto, Exit, diskVars, lockVars, TypeOK, CmdInv
    <2>9. QED BY <1>1, <2>1, <2>2, <2>3, <2>4, <2>5, <2>6, <2>7, <2>8 DEF Install
  <1>2. CASE ResolveView(q)
    <2>1. CASE CheckView(q)
      BY <2>1 DEF CheckView, HaveView, Goto, Exit, diskVars, lockVars, TypeOK, CmdInv
    <2>2. CASE ViewAppeared(q)
      BY <2>2 DEF ViewAppeared, HaveView, Goto, Exit, diskVars, lockVars, TypeOK, CmdInv
    <2>3. CASE \E old \in SUBSET Procs : OpenStaging(q, old)
      BY <2>3 DEF OpenStaging, Goto, diskVars, lockVars, TypeOK, CmdInv
    <2>4. CASE \E b \in Blobs : LinkBlob(q, b)
      BY <2>4 DEF LinkBlob, Goto, diskVars, lockVars, TypeOK, CmdInv
    <2>5. CASE \E b \in Blobs : Missing(q, b)
      BY <2>5 DEF Missing, Goto, diskVars, lockVars, TypeOK, CmdInv
    <2>6. CASE FetchedByOther(q)
      BY <2>6 DEF FetchedByOther, Goto, diskVars, lockVars, TypeOK, CmdInv
    <2>7. CASE FetchLock(q)
      BY <2>7 DEF FetchLock, Goto, diskVars, lockVars, TypeOK, CmdInv
    <2>8. CASE CommitBlob(q)
      BY <2>8 DEF CommitBlob, Goto, diskVars, lockVars, TypeOK, CmdInv
    <2>9. CASE FetchFails(q)
      BY <2>9 DEF FetchFails, Exit, ReleaseAll, Unlocked, diskVars, lockVars, TypeOK, CmdInv
    <2>10. CASE Publish(q)
      BY <2>10 DEF Publish, HaveView, Goto, Exit, diskVars, lockVars, TypeOK, CmdInv
    <2>11. CASE Declined(q)
      BY <2>11 DEF Declined, Exit, ReleaseAll, Unlocked, diskVars, lockVars, TypeOK, CmdInv
    <2>12. QED BY <1>2, <2>1, <2>2, <2>3, <2>4, <2>5, <2>6, <2>7, <2>8, <2>9, <2>10,
      <2>11 DEF ResolveView
  <1>3. CASE Reclaim(q)
    <2>1. CASE \E e \in Epochs : BeginRemove(q, e)
      BY <2>1 DEF BeginRemove, Begin, diskVars, lockVars, TypeOK, CmdInv
    <2>2. CASE RemoveLock(q)
      BY <2>2 DEF RemoveLock, Goto, Exit, diskVars, lockVars, TypeOK, CmdInv
    <2>3. CASE RemoveRefs(q)
      BY <2>3 DEF RemoveRefs, Goto, diskVars, lockVars, TypeOK, CmdInv
    <2>4. CASE RemoveDir(q)
      BY <2>4 DEF RemoveDir, Goto, diskVars, lockVars, TypeOK, CmdInv
    <2>5. CASE BeginRepair(q)
      BY <2>5 DEF BeginRepair, Begin, diskVars, lockVars, TypeOK, CmdInv
    <2>6. CASE RepairLock(q)
      BY <2>6 DEF RepairLock, Goto, diskVars, lockVars, TypeOK, CmdInv
    <2>7. CASE \E bad \in SUBSET Blobs : Verify(q, bad)
      BY <2>7 DEF Verify, Goto, diskVars, lockVars, TypeOK, CmdInv
    <2>8. CASE Mark(q)
      BY <2>8 DEF Mark, Goto, diskVars, lockVars, TypeOK, CmdInv
    <2>9. CASE \E b \in Blobs : SweepBlob(q, b)
      BY <2>9 DEF SweepBlob, Goto, diskVars, lockVars, TypeOK, CmdInv
    <2>10. CASE Swept(q)
      BY <2>10 DEF Swept, Goto, Exit, SweepResidue, diskVars, lockVars, TypeOK, CmdInv
    <2>11. CASE BeginClean(q)
      BY <2>11 DEF BeginClean, Begin, diskVars, lockVars, TypeOK, CmdInv
    <2>12. CASE CleanLock(q)
      BY <2>12 DEF CleanLock, Goto, diskVars, lockVars, TypeOK, CmdInv
    <2>13. CASE CleanBuildCache(q)
      BY <2>13 DEF CleanBuildCache, Goto, diskVars, lockVars, TypeOK, CmdInv
    <2>14. CASE CleanViewsLock(q)
      BY <2>14 DEF CleanViewsLock, Goto, diskVars, lockVars, TypeOK, CmdInv
    <2>15. CASE CleanViews(q)
      BY <2>15 DEF CleanViews, Exit, ReleaseAll, Unlocked, diskVars, lockVars, TypeOK,
        CmdInv
    <2>16. QED BY <1>3, <2>1, <2>2, <2>3, <2>4, <2>5, <2>6, <2>7, <2>8, <2>9, <2>10,
      <2>11, <2>12, <2>13, <2>14, <2>15 DEF Reclaim
  <1>4. CASE Build(q)
    <2>1. CASE \E e \in Epochs : BeginBuild(q, e)
      BY <2>1 DEF BeginBuild, Begin, diskVars, lockVars, TypeOK, CmdInv
    <2>2. CASE BuildLock(q)
      BY <2>2 DEF BuildLock, Goto, diskVars, lockVars, TypeOK, CmdInv
    <2>3. CASE Precheck(q)
      BY <2>3 DEF Precheck, Goto, diskVars, lockVars, TypeOK, CmdInv
    <2>4. CASE UseTools(q)
      BY <2>4 DEF UseTools, Goto, Exit, diskVars, lockVars, TypeOK, CmdInv
    <2>5. CASE SaveMeta(q)
      BY <2>5 DEF SaveMeta, Exit, diskVars, lockVars, TypeOK, CmdInv
    <2>6. QED BY <1>4, <2>1, <2>2, <2>3, <2>4, <2>5 DEF Build
  <1>5. CASE Crash(q)
    BY <1>5 DEF Crash, Exit, ReleaseAll, Unlocked, diskVars, lockVars, TypeOK, CmdInv
  <1>6. QED BY <1>1, <1>2, <1>3, <1>4, <1>5 DEF Step

\* A step keeps the operands a command needs.
LEMMA ArgStep ==
  ASSUME TypeOK, CmdInv, ArgInv, NEW q \in Procs, Step(q)
  PROVE  ArgInv'
  <1>1. CASE Install(q)
    <2>1. CASE \E e \in Epochs : BeginInstall(q, e)
      BY <2>1, StoresAssumption DEF BeginInstall, Begin, diskVars, lockVars, TypeOK, ArgInv
    <2>2. CASE InstallLock(q)
      BY <2>2, StoresAssumption DEF InstallLock, Goto, SweepResidue, diskVars, lockVars,
        TypeOK, ArgInv
    <2>3. CASE \E b \in Blobs : StageBlob(q, b)
      BY <2>3, StoresAssumption DEF StageBlob, Goto, diskVars, lockVars, TypeOK, ArgInv
    <2>4. CASE StageFails(q)
      BY <2>4, StoresAssumption DEF StageFails, Exit, ReleaseAll, Unlocked, SweepResidue,
        diskVars, lockVars, TypeOK, ArgInv
    <2>5. CASE OpenRefs(q)
      BY <2>5, StoresAssumption DEF OpenRefs, Goto, diskVars, lockVars, TypeOK, ArgInv
    <2>6. CASE WriteRefs(q)
      BY <2>6, StoresAssumption DEF WriteRefs, Goto, diskVars, lockVars, TypeOK, ArgInv
    <2>7. CASE WriteRefsFails(q)
      BY <2>7, StoresAssumption DEF WriteRefsFails, Goto, diskVars, lockVars, TypeOK, ArgInv
    <2>8. CASE Prefetch(q)
      BY <2>8, StoresAssumption DEF Prefetch, Goto, Exit, diskVars, lockVars, TypeOK, ArgInv
    <2>9. QED BY <1>1, <2>1, <2>2, <2>3, <2>4, <2>5, <2>6, <2>7, <2>8 DEF Install
  <1>2. CASE ResolveView(q)
    <2>1. CASE CheckView(q)
      BY <2>1, StoresAssumption DEF CheckView, HaveView, Goto, Exit, diskVars, lockVars,
        TypeOK, ArgInv
    <2>2. CASE ViewAppeared(q)
      BY <2>2, StoresAssumption DEF ViewAppeared, HaveView, Goto, Exit, diskVars,
        lockVars, TypeOK, ArgInv
    <2>3. CASE \E old \in SUBSET Procs : OpenStaging(q, old)
      BY <2>3, StoresAssumption DEF OpenStaging, Goto, diskVars, lockVars, TypeOK, ArgInv
    <2>4. CASE \E b \in Blobs : LinkBlob(q, b)
      BY <2>4, StoresAssumption DEF LinkBlob, Goto, diskVars, lockVars, TypeOK, ArgInv
    <2>5. CASE \E b \in Blobs : Missing(q, b)
      BY <2>5, StoresAssumption DEF Missing, Goto, diskVars, lockVars, TypeOK, ArgInv
    <2>6. CASE FetchedByOther(q)
      BY <2>6, StoresAssumption DEF FetchedByOther, Goto, diskVars, lockVars, TypeOK, ArgInv
    <2>7. CASE FetchLock(q)
      BY <2>7, StoresAssumption DEF FetchLock, Goto, diskVars, lockVars, TypeOK, ArgInv
    <2>8. CASE CommitBlob(q)
      BY <2>8, StoresAssumption DEF CommitBlob, Goto, diskVars, lockVars, TypeOK, ArgInv
    <2>9. CASE FetchFails(q)
      BY <2>9, StoresAssumption DEF FetchFails, Exit, ReleaseAll, Unlocked, diskVars,
        lockVars, TypeOK, ArgInv
    <2>10. CASE Publish(q)
      BY <2>10, StoresAssumption DEF Publish, HaveView, Goto, Exit, diskVars, lockVars,
        TypeOK, ArgInv
    <2>11. CASE Declined(q)
      BY <2>11, StoresAssumption DEF Declined, Exit, ReleaseAll, Unlocked, diskVars, lockVars,
        TypeOK, ArgInv
    <2>12. QED BY <1>2, <2>1, <2>2, <2>3, <2>4, <2>5, <2>6, <2>7, <2>8, <2>9, <2>10,
      <2>11 DEF ResolveView
  <1>3. CASE Reclaim(q)
    <2>1. CASE \E e \in Epochs : BeginRemove(q, e)
      BY <2>1, StoresAssumption DEF BeginRemove, Begin, diskVars, lockVars, TypeOK, ArgInv
    <2>2. CASE RemoveLock(q)
      BY <2>2, StoresAssumption DEF RemoveLock, Goto, Exit, diskVars, lockVars, TypeOK,
        ArgInv
    <2>3. CASE RemoveRefs(q)
      BY <2>3, StoresAssumption DEF RemoveRefs, Goto, diskVars, lockVars, TypeOK, ArgInv
    <2>4. CASE RemoveDir(q)
      BY <2>4, StoresAssumption DEF RemoveDir, Goto, diskVars, lockVars, TypeOK, ArgInv
    <2>5. CASE BeginRepair(q)
      BY <2>5, StoresAssumption DEF BeginRepair, Begin, diskVars, lockVars, TypeOK, ArgInv
    <2>6. CASE RepairLock(q)
      BY <2>6, StoresAssumption DEF RepairLock, Goto, diskVars, lockVars, TypeOK, ArgInv
    <2>7. CASE \E bad \in SUBSET Blobs : Verify(q, bad)
      BY <2>7, StoresAssumption DEF Verify, Goto, diskVars, lockVars, TypeOK, ArgInv
    <2>8. CASE Mark(q)
      BY <2>8, StoresAssumption DEF Mark, Goto, diskVars, lockVars, TypeOK, ArgInv
    <2>9. CASE \E b \in Blobs : SweepBlob(q, b)
      BY <2>9, StoresAssumption DEF SweepBlob, Goto, diskVars, lockVars, TypeOK, ArgInv
    <2>10. CASE Swept(q)
      BY <2>10, StoresAssumption DEF Swept, Goto, Exit, SweepResidue, diskVars, lockVars,
        TypeOK, ArgInv
    <2>11. CASE BeginClean(q)
      BY <2>11, StoresAssumption DEF BeginClean, Begin, diskVars, lockVars, TypeOK, ArgInv
    <2>12. CASE CleanLock(q)
      BY <2>12, StoresAssumption DEF CleanLock, Goto, diskVars, lockVars, TypeOK, ArgInv
    <2>13. CASE CleanBuildCache(q)
      BY <2>13, StoresAssumption DEF CleanBuildCache, Goto, diskVars, lockVars, TypeOK,
        ArgInv
    <2>14. CASE CleanViewsLock(q)
      BY <2>14, StoresAssumption DEF CleanViewsLock, Goto, diskVars, lockVars, TypeOK,
        ArgInv
    <2>15. CASE CleanViews(q)
      BY <2>15, StoresAssumption DEF CleanViews, Exit, ReleaseAll, Unlocked, diskVars,
        lockVars, TypeOK, ArgInv
    <2>16. QED BY <1>3, <2>1, <2>2, <2>3, <2>4, <2>5, <2>6, <2>7, <2>8, <2>9, <2>10,
      <2>11, <2>12, <2>13, <2>14, <2>15 DEF Reclaim
  <1>4. CASE Build(q)
    <2>1. CASE \E e \in Epochs : BeginBuild(q, e)
      BY <2>1, StoresAssumption DEF BeginBuild, Begin, diskVars, lockVars, TypeOK, ArgInv
    <2>2. CASE BuildLock(q)
      BY <2>2, StoresAssumption DEF BuildLock, Goto, diskVars, lockVars, TypeOK, ArgInv
    <2>3. CASE Precheck(q)
      BY <2>3, StoresAssumption DEF Precheck, Goto, diskVars, lockVars, TypeOK, ArgInv
    <2>4. CASE UseTools(q)
      BY <2>4, StoresAssumption DEF UseTools, Goto, Exit, diskVars, lockVars, TypeOK, ArgInv
    <2>5. CASE SaveMeta(q)
      BY <2>5, StoresAssumption DEF SaveMeta, Exit, diskVars, lockVars, TypeOK, ArgInv
    <2>6. QED BY <1>4, <2>1, <2>2, <2>3, <2>4, <2>5 DEF Build
  <1>5. CASE Crash(q)
    BY <1>5, StoresAssumption DEF Crash, Exit, ReleaseAll, Unlocked, diskVars, lockVars,
      TypeOK, ArgInv
  <1>6. QED BY <1>1, <1>2, <1>3, <1>4, <1>5 DEF Step

\* A step takes and releases a lock where it enters and leaves the part it guards.
LEMMA LockStep ==
  ASSUME TypeOK, CmdInv, LockInv, NEW q \in Procs, Step(q)
  PROVE  LockInv'
  <1>1. CASE Install(q)
    <2>1. CASE \E e \in Epochs : BeginInstall(q, e)
      BY <2>1, StoresAssumption DEF BeginInstall, Begin, diskVars, lockVars, TypeOK,
        CmdInv, LockInv, HoldsCas, HoldsView, HoldsExcl, HoldsShared
    <2>2. CASE InstallLock(q)
      BY <2>2, StoresAssumption DEF InstallLock, Goto, SweepResidue, diskVars, lockVars,
        TypeOK, CmdInv, LockInv, HoldsCas, HoldsView, HoldsExcl, HoldsShared
    <2>3. CASE \E b \in Blobs : StageBlob(q, b)
      BY <2>3, StoresAssumption DEF StageBlob, Goto, diskVars, lockVars, TypeOK, CmdInv,
        LockInv, HoldsCas, HoldsView, HoldsExcl, HoldsShared
    <2>4. CASE StageFails(q)
      BY <2>4, StoresAssumption DEF StageFails, Exit, ReleaseAll, Unlocked, SweepResidue,
        diskVars, lockVars, TypeOK, CmdInv, LockInv, HoldsCas, HoldsView, HoldsExcl,
        HoldsShared
    <2>5. CASE OpenRefs(q)
      BY <2>5, StoresAssumption DEF OpenRefs, Goto, diskVars, lockVars, TypeOK, CmdInv,
        LockInv, HoldsCas, HoldsView, HoldsExcl, HoldsShared
    <2>6. CASE WriteRefs(q)
      BY <2>6, StoresAssumption DEF WriteRefs, Goto, diskVars, lockVars, TypeOK, CmdInv,
        LockInv, HoldsCas, HoldsView, HoldsExcl, HoldsShared
    <2>7. CASE WriteRefsFails(q)
      BY <2>7, StoresAssumption DEF WriteRefsFails, Goto, diskVars, lockVars, TypeOK,
        CmdInv, LockInv, HoldsCas, HoldsView, HoldsExcl, HoldsShared
    <2>8. CASE Prefetch(q)
      BY <2>8, StoresAssumption DEF Prefetch, Goto, Exit, diskVars, lockVars, TypeOK,
        CmdInv, LockInv, HoldsCas, HoldsView, HoldsExcl, HoldsShared
    <2>9. QED BY <1>1, <2>1, <2>2, <2>3, <2>4, <2>5, <2>6, <2>7, <2>8 DEF Install
  <1>2. CASE ResolveView(q)
    <2>1. CASE CheckView(q)
      BY <2>1, StoresAssumption DEF CheckView, HaveView, Goto, Exit, diskVars, lockVars,
        TypeOK, CmdInv, LockInv, HoldsCas, HoldsView, HoldsExcl, HoldsShared
    <2>2. CASE ViewAppeared(q)
      BY <2>2, StoresAssumption DEF ViewAppeared, HaveView, Goto, Exit, diskVars,
        lockVars, TypeOK, CmdInv, LockInv, HoldsCas, HoldsView, HoldsExcl, HoldsShared
    <2>3. CASE \E old \in SUBSET Procs : OpenStaging(q, old)
      BY <2>3, StoresAssumption DEF OpenStaging, Goto, diskVars, lockVars, TypeOK, CmdInv,
        LockInv, HoldsCas, HoldsView, HoldsExcl, HoldsShared
    <2>4. CASE \E b \in Blobs : LinkBlob(q, b)
      BY <2>4, StoresAssumption DEF LinkBlob, Goto, diskVars, lockVars, TypeOK, CmdInv,
        LockInv, HoldsCas, HoldsView, HoldsExcl, HoldsShared
    <2>5. CASE \E b \in Blobs : Missing(q, b)
      BY <2>5, StoresAssumption DEF Missing, Goto, diskVars, lockVars, TypeOK, CmdInv,
        LockInv, HoldsCas, HoldsView, HoldsExcl, HoldsShared
    <2>6. CASE FetchedByOther(q)
      BY <2>6, StoresAssumption DEF FetchedByOther, Goto, diskVars, lockVars, TypeOK,
        CmdInv, LockInv, HoldsCas, HoldsView, HoldsExcl, HoldsShared
    <2>7. CASE FetchLock(q)
      BY <2>7, StoresAssumption DEF FetchLock, Goto, diskVars, lockVars, TypeOK, CmdInv,
        LockInv, HoldsCas, HoldsView, HoldsExcl, HoldsShared
    <2>8. CASE CommitBlob(q)
      BY <2>8, StoresAssumption DEF CommitBlob, Goto, diskVars, lockVars, TypeOK, CmdInv,
        LockInv, HoldsCas, HoldsView, HoldsExcl, HoldsShared
    <2>9. CASE FetchFails(q)
      BY <2>9, StoresAssumption DEF FetchFails, Exit, ReleaseAll, Unlocked, diskVars,
        lockVars, TypeOK, CmdInv, LockInv, HoldsCas, HoldsView, HoldsExcl, HoldsShared
    <2>10. CASE Publish(q)
      BY <2>10, StoresAssumption DEF Publish, HaveView, Goto, Exit, diskVars, lockVars,
        TypeOK, CmdInv, LockInv, HoldsCas, HoldsView, HoldsExcl, HoldsShared
    <2>11. CASE Declined(q)
      BY <2>11, StoresAssumption DEF Declined, Exit, ReleaseAll, Unlocked, diskVars, lockVars,
        TypeOK, CmdInv, LockInv, HoldsCas, HoldsView, HoldsExcl, HoldsShared
    <2>12. QED BY <1>2, <2>1, <2>2, <2>3, <2>4, <2>5, <2>6, <2>7, <2>8, <2>9, <2>10,
      <2>11 DEF ResolveView
  <1>3. CASE Reclaim(q)
    <2>1. CASE \E e \in Epochs : BeginRemove(q, e)
      BY <2>1, StoresAssumption DEF BeginRemove, Begin, diskVars, lockVars, TypeOK,
        CmdInv, LockInv, HoldsCas, HoldsView, HoldsExcl, HoldsShared
    <2>2. CASE RemoveLock(q)
      BY <2>2, StoresAssumption DEF RemoveLock, Goto, Exit, diskVars, lockVars, TypeOK,
        CmdInv, LockInv, HoldsCas, HoldsView, HoldsExcl, HoldsShared
    <2>3. CASE RemoveRefs(q)
      BY <2>3, StoresAssumption DEF RemoveRefs, Goto, diskVars, lockVars, TypeOK, CmdInv,
        LockInv, HoldsCas, HoldsView, HoldsExcl, HoldsShared
    <2>4. CASE RemoveDir(q)
      BY <2>4, StoresAssumption DEF RemoveDir, Goto, diskVars, lockVars, TypeOK, CmdInv,
        LockInv, HoldsCas, HoldsView, HoldsExcl, HoldsShared
    <2>5. CASE BeginRepair(q)
      BY <2>5, StoresAssumption DEF BeginRepair, Begin, diskVars, lockVars, TypeOK,
        CmdInv, LockInv, HoldsCas, HoldsView, HoldsExcl, HoldsShared
    <2>6. CASE RepairLock(q)
      BY <2>6, StoresAssumption DEF RepairLock, Goto, diskVars, lockVars, TypeOK, CmdInv,
        LockInv, HoldsCas, HoldsView, HoldsExcl, HoldsShared
    <2>7. CASE \E bad \in SUBSET Blobs : Verify(q, bad)
      BY <2>7, StoresAssumption DEF Verify, Goto, diskVars, lockVars, TypeOK, CmdInv,
        LockInv, HoldsCas, HoldsView, HoldsExcl, HoldsShared
    <2>8. CASE Mark(q)
      BY <2>8, StoresAssumption DEF Mark, Goto, diskVars, lockVars, TypeOK, CmdInv,
        LockInv, HoldsCas, HoldsView, HoldsExcl, HoldsShared
    <2>9. CASE \E b \in Blobs : SweepBlob(q, b)
      BY <2>9, StoresAssumption DEF SweepBlob, Goto, diskVars, lockVars, TypeOK, CmdInv,
        LockInv, HoldsCas, HoldsView, HoldsExcl, HoldsShared
    <2>10. CASE Swept(q)
      BY <2>10, StoresAssumption DEF Swept, Goto, Exit, SweepResidue, diskVars, lockVars,
        TypeOK, CmdInv, LockInv, HoldsCas, HoldsView, HoldsExcl, HoldsShared
    <2>11. CASE BeginClean(q)
      BY <2>11, StoresAssumption DEF BeginClean, Begin, diskVars, lockVars, TypeOK,
        CmdInv, LockInv, HoldsCas, HoldsView, HoldsExcl, HoldsShared
    <2>12. CASE CleanLock(q)
      BY <2>12, StoresAssumption DEF CleanLock, Goto, diskVars, lockVars, TypeOK, CmdInv,
        LockInv, HoldsCas, HoldsView, HoldsExcl, HoldsShared
    <2>13. CASE CleanBuildCache(q)
      BY <2>13, StoresAssumption DEF CleanBuildCache, Goto, diskVars, lockVars, TypeOK,
        CmdInv, LockInv, HoldsCas, HoldsView, HoldsExcl, HoldsShared
    <2>14. CASE CleanViewsLock(q)
      BY <2>14, StoresAssumption DEF CleanViewsLock, Goto, diskVars, lockVars, TypeOK,
        CmdInv, LockInv, HoldsCas, HoldsView, HoldsExcl, HoldsShared
    <2>15. CASE CleanViews(q)
      BY <2>15, StoresAssumption DEF CleanViews, Exit, ReleaseAll, Unlocked, diskVars,
        lockVars, TypeOK, CmdInv, LockInv, HoldsCas, HoldsView, HoldsExcl, HoldsShared
    <2>16. QED BY <1>3, <2>1, <2>2, <2>3, <2>4, <2>5, <2>6, <2>7, <2>8, <2>9, <2>10,
      <2>11, <2>12, <2>13, <2>14, <2>15 DEF Reclaim
  <1>4. CASE Build(q)
    <2>1. CASE \E e \in Epochs : BeginBuild(q, e)
      BY <2>1, StoresAssumption DEF BeginBuild, Begin, diskVars, lockVars, TypeOK, CmdInv,
        LockInv, HoldsCas, HoldsView, HoldsExcl, HoldsShared
    <2>2. CASE BuildLock(q)
      BY <2>2, StoresAssumption DEF BuildLock, Goto, diskVars, lockVars, TypeOK, CmdInv,
        LockInv, HoldsCas, HoldsView, HoldsExcl, HoldsShared
    <2>3. CASE Precheck(q)
      BY <2>3, StoresAssumption DEF Precheck, Goto, diskVars, lockVars, TypeOK, CmdInv,
        LockInv, HoldsCas, HoldsView, HoldsExcl, HoldsShared
    <2>4. CASE UseTools(q)
      BY <2>4, StoresAssumption DEF UseTools, Goto, Exit, diskVars, lockVars, TypeOK,
        CmdInv, LockInv, HoldsCas, HoldsView, HoldsExcl, HoldsShared
    <2>5. CASE SaveMeta(q)
      BY <2>5, StoresAssumption DEF SaveMeta, Exit, diskVars, lockVars, TypeOK, CmdInv,
        LockInv, HoldsCas, HoldsView, HoldsExcl, HoldsShared
    <2>6. QED BY <1>4, <2>1, <2>2, <2>3, <2>4, <2>5 DEF Build
  <1>5. CASE Crash(q)
    BY <1>5, StoresAssumption DEF Crash, Exit, ReleaseAll, Unlocked, diskVars, lockVars,
      TypeOK, CmdInv, LockInv, HoldsCas, HoldsView, HoldsExcl, HoldsShared
  <1>6. QED BY <1>1, <1>2, <1>3, <1>4, <1>5 DEF Step

\* Whoever changes what a sweep has relied on holds the lock the sweep needs.
LEMMA StoreStep ==
  ASSUME TypeOK, CmdInv, ArgInv, LockInv, RefsInv, SweepInv, NEW q \in Procs, Step(q)
  PROVE  RefsInv' /\ SweepInv'
  <1>1. CASE Install(q)
    <2>1. CASE \E e \in Epochs : BeginInstall(q, e)
      BY <2>1, StoresAssumption DEF BeginInstall, Begin, diskVars, lockVars, TypeOK,
        RefsInv, SweepInv, Dead, ArgInv, LockInv, HoldsCas
    <2>2. CASE InstallLock(q)
      BY <2>2, StoresAssumption DEF InstallLock, Goto, SweepResidue, diskVars, lockVars,
        TypeOK, RefsInv, SweepInv, Dead, ArgInv, LockInv, HoldsCas
    <2>3. CASE \E b \in Blobs : StageBlob(q, b)
      BY <2>3, StoresAssumption DEF StageBlob, Goto, diskVars, lockVars, TypeOK, RefsInv,
        SweepInv, Dead, ArgInv, LockInv, HoldsCas
    <2>4. CASE StageFails(q)
      BY <2>4, StoresAssumption DEF StageFails, Exit, ReleaseAll, Unlocked, SweepResidue,
        diskVars, lockVars, TypeOK, RefsInv, SweepInv, Dead, ArgInv, LockInv, HoldsCas
    <2>5. CASE OpenRefs(q)
      BY <2>5, StoresAssumption DEF OpenRefs, Goto, diskVars, lockVars, TypeOK, RefsInv,
        SweepInv, Dead, ArgInv, LockInv, HoldsCas
    <2>6. CASE WriteRefs(q)
      BY <2>6, StoresAssumption DEF WriteRefs, Goto, diskVars, lockVars, TypeOK, RefsInv,
        SweepInv, Dead, ArgInv, LockInv, HoldsCas
    <2>7. CASE WriteRefsFails(q)
      BY <2>7, StoresAssumption DEF WriteRefsFails, Goto, diskVars, lockVars, TypeOK,
        RefsInv, SweepInv, Dead, ArgInv, LockInv, HoldsCas
    <2>8. CASE Prefetch(q)
      BY <2>8, StoresAssumption DEF Prefetch, Goto, Exit, diskVars, lockVars, TypeOK,
        RefsInv, SweepInv, Dead, ArgInv, LockInv, HoldsCas
    <2>9. QED BY <1>1, <2>1, <2>2, <2>3, <2>4, <2>5, <2>6, <2>7, <2>8 DEF Install
  <1>2. CASE ResolveView(q)
    <2>1. CASE CheckView(q)
      BY <2>1, StoresAssumption DEF CheckView, HaveView, Goto, Exit, diskVars, lockVars,
        TypeOK, RefsInv, SweepInv, Dead, ArgInv, LockInv, HoldsCas
    <2>2. CASE ViewAppeared(q)
      BY <2>2, StoresAssumption DEF ViewAppeared, HaveView, Goto, Exit, diskVars,
        lockVars, TypeOK, RefsInv, SweepInv, Dead, ArgInv, LockInv, HoldsCas
    <2>3. CASE \E old \in SUBSET Procs : OpenStaging(q, old)
      BY <2>3, StoresAssumption DEF OpenStaging, Goto, diskVars, lockVars, TypeOK,
        RefsInv, SweepInv, Dead, ArgInv, LockInv, HoldsCas
    <2>4. CASE \E b \in Blobs : LinkBlob(q, b)
      BY <2>4, StoresAssumption DEF LinkBlob, Goto, diskVars, lockVars, TypeOK, RefsInv,
        SweepInv, Dead, ArgInv, LockInv, HoldsCas
    <2>5. CASE \E b \in Blobs : Missing(q, b)
      BY <2>5, StoresAssumption DEF Missing, Goto, diskVars, lockVars, TypeOK, RefsInv,
        SweepInv, Dead, ArgInv, LockInv, HoldsCas
    <2>6. CASE FetchedByOther(q)
      BY <2>6, StoresAssumption DEF FetchedByOther, Goto, diskVars, lockVars, TypeOK,
        RefsInv, SweepInv, Dead, ArgInv, LockInv, HoldsCas
    <2>7. CASE FetchLock(q)
      BY <2>7, StoresAssumption DEF FetchLock, Goto, diskVars, lockVars, TypeOK, RefsInv,
        SweepInv, Dead, ArgInv, LockInv, HoldsCas
    <2>8. CASE CommitBlob(q)
      BY <2>8, StoresAssumption DEF CommitBlob, Goto, diskVars, lockVars, TypeOK, RefsInv,
        SweepInv, Dead, ArgInv, LockInv, HoldsCas
    <2>9. CASE FetchFails(q)
      BY <2>9, StoresAssumption DEF FetchFails, Exit, ReleaseAll, Unlocked, diskVars,
        lockVars, TypeOK, RefsInv, SweepInv, Dead, ArgInv, LockInv, HoldsCas
    <2>10. CASE Publish(q)
      BY <2>10, StoresAssumption DEF Publish, HaveView, Goto, Exit, diskVars, lockVars,
        TypeOK, RefsInv, SweepInv, Dead, ArgInv, LockInv, HoldsCas
    <2>11. CASE Declined(q)
      BY <2>11, StoresAssumption DEF Declined, Exit, ReleaseAll, Unlocked, diskVars, lockVars,
        TypeOK, RefsInv, SweepInv, Dead, ArgInv, LockInv, HoldsCas
    <2>12. QED BY <1>2, <2>1, <2>2, <2>3, <2>4, <2>5, <2>6, <2>7, <2>8, <2>9, <2>10,
      <2>11 DEF ResolveView
  <1>3. CASE Reclaim(q)
    <2>1. CASE \E e \in Epochs : BeginRemove(q, e)
      BY <2>1, StoresAssumption DEF BeginRemove, Begin, diskVars, lockVars, TypeOK,
        RefsInv, SweepInv, Dead, ArgInv, LockInv, HoldsCas
    <2>2. CASE RemoveLock(q)
      BY <2>2, StoresAssumption DEF RemoveLock, Goto, Exit, diskVars, lockVars, TypeOK,
        RefsInv, SweepInv, Dead, ArgInv, LockInv, HoldsCas
    <2>3. CASE RemoveRefs(q)
      BY <2>3, StoresAssumption DEF RemoveRefs, Goto, diskVars, lockVars, TypeOK, RefsInv,
        SweepInv, Dead, ArgInv, LockInv, HoldsCas
    <2>4. CASE RemoveDir(q)
      BY <2>4, StoresAssumption DEF RemoveDir, Goto, diskVars, lockVars, TypeOK, RefsInv,
        SweepInv, Dead, ArgInv, LockInv, HoldsCas
    <2>5. CASE BeginRepair(q)
      BY <2>5, StoresAssumption DEF BeginRepair, Begin, diskVars, lockVars, TypeOK,
        RefsInv, SweepInv, Dead, ArgInv, LockInv, HoldsCas
    <2>6. CASE RepairLock(q)
      BY <2>6, StoresAssumption DEF RepairLock, Goto, diskVars, lockVars, TypeOK, RefsInv,
        SweepInv, Dead, ArgInv, LockInv, HoldsCas
    <2>7. CASE \E bad \in SUBSET Blobs : Verify(q, bad)
      BY <2>7, StoresAssumption DEF Verify, Goto, diskVars, lockVars, TypeOK, RefsInv,
        SweepInv, Dead, ArgInv, LockInv, HoldsCas
    <2>8. CASE Mark(q)
      BY <2>8, StoresAssumption DEF Mark, Goto, diskVars, lockVars, TypeOK, RefsInv,
        SweepInv, Dead, ArgInv, LockInv, HoldsCas, AllRefsReadable, LiveSet
    <2>9. CASE \E b \in Blobs : SweepBlob(q, b)
      BY <2>9, StoresAssumption DEF SweepBlob, Goto, diskVars, lockVars, TypeOK, RefsInv,
        SweepInv, Dead, ArgInv, LockInv, HoldsCas
    <2>10. CASE Swept(q)
      BY <2>10, StoresAssumption DEF Swept, Goto, Exit, SweepResidue, diskVars, lockVars,
        TypeOK, RefsInv, SweepInv, Dead, ArgInv, LockInv, HoldsCas
    <2>11. CASE BeginClean(q)
      BY <2>11, StoresAssumption DEF BeginClean, Begin, diskVars, lockVars, TypeOK,
        RefsInv, SweepInv, Dead, ArgInv, LockInv, HoldsCas
    <2>12. CASE CleanLock(q)
      BY <2>12, StoresAssumption DEF CleanLock, Goto, diskVars, lockVars, TypeOK, RefsInv,
        SweepInv, Dead, ArgInv, LockInv, HoldsCas
    <2>13. CASE CleanBuildCache(q)
      BY <2>13, StoresAssumption DEF CleanBuildCache, Goto, diskVars, lockVars, TypeOK,
        RefsInv, SweepInv, Dead, ArgInv, LockInv, HoldsCas
    <2>14. CASE CleanViewsLock(q)
      BY <2>14, StoresAssumption DEF CleanViewsLock, Goto, diskVars, lockVars, TypeOK,
        RefsInv, SweepInv, Dead, ArgInv, LockInv, HoldsCas
    <2>15. CASE CleanViews(q)
      BY <2>15, StoresAssumption DEF CleanViews, Exit, ReleaseAll, Unlocked, diskVars,
        lockVars, TypeOK, RefsInv, SweepInv, Dead, ArgInv, LockInv, HoldsCas
    <2>16. QED BY <1>3, <2>1, <2>2, <2>3, <2>4, <2>5, <2>6, <2>7, <2>8, <2>9, <2>10,
      <2>11, <2>12, <2>13, <2>14, <2>15 DEF Reclaim
  <1>4. CASE Build(q)
    <2>1. CASE \E e \in Epochs : BeginBuild(q, e)
      BY <2>1, StoresAssumption DEF BeginBuild, Begin, diskVars, lockVars, TypeOK,
        RefsInv, SweepInv, Dead, ArgInv, LockInv, HoldsCas
    <2>2. CASE BuildLock(q)
      BY <2>2, StoresAssumption DEF BuildLock, Goto, diskVars, lockVars, TypeOK, RefsInv,
        SweepInv, Dead, ArgInv, LockInv, HoldsCas
    <2>3. CASE Precheck(q)
      BY <2>3, StoresAssumption DEF Precheck, Goto, diskVars, lockVars, TypeOK, RefsInv,
        SweepInv, Dead, ArgInv, LockInv, HoldsCas
    <2>4. CASE UseTools(q)
      BY <2>4, StoresAssumption DEF UseTools, Goto, Exit, diskVars, lockVars, TypeOK,
        RefsInv, SweepInv, Dead, ArgInv, LockInv, HoldsCas
    <2>5. CASE SaveMeta(q)
      BY <2>5, StoresAssumption DEF SaveMeta, Exit, diskVars, lockVars, TypeOK, RefsInv,
        SweepInv, Dead, ArgInv, LockInv, HoldsCas
    <2>6. QED BY <1>4, <2>1, <2>2, <2>3, <2>4, <2>5 DEF Build
  <1>5. CASE Crash(q)
    BY <1>5, StoresAssumption DEF Crash, Exit, ReleaseAll, Unlocked, diskVars, lockVars,
      TypeOK, RefsInv, SweepInv, Dead, ArgInv, LockInv, HoldsCas
  <1>6. QED BY <1>1, <1>2, <1>3, <1>4, <1>5 DEF Step

\* Whoever removes a staging directory knows that its owner is gone.
LEMMA StagingStep ==
  ASSUME TypeOK, CmdInv, LockInv, StagingKept, NEW q \in Procs, Step(q)
  PROVE  StagingKept'
  <1>1. CASE Install(q)
    <2>1. CASE \E e \in Epochs : BeginInstall(q, e)
      BY <2>1, StoresAssumption DEF BeginInstall, Begin, diskVars, lockVars, TypeOK,
        StagingKept, LockInv, HoldsView
    <2>2. CASE InstallLock(q)
      BY <2>2, StoresAssumption DEF InstallLock, Goto, SweepResidue, diskVars, lockVars,
        TypeOK, StagingKept, LockInv, HoldsView
    <2>3. CASE \E b \in Blobs : StageBlob(q, b)
      BY <2>3, StoresAssumption DEF StageBlob, Goto, diskVars, lockVars, TypeOK,
        StagingKept, LockInv, HoldsView
    <2>4. CASE StageFails(q)
      BY <2>4, StoresAssumption DEF StageFails, Exit, ReleaseAll, Unlocked, SweepResidue,
        diskVars, lockVars, TypeOK, StagingKept, LockInv, HoldsView
    <2>5. CASE OpenRefs(q)
      BY <2>5, StoresAssumption DEF OpenRefs, Goto, diskVars, lockVars, TypeOK,
        StagingKept, LockInv, HoldsView
    <2>6. CASE WriteRefs(q)
      BY <2>6, StoresAssumption DEF WriteRefs, Goto, diskVars, lockVars, TypeOK,
        StagingKept, LockInv, HoldsView
    <2>7. CASE WriteRefsFails(q)
      BY <2>7, StoresAssumption DEF WriteRefsFails, Goto, diskVars, lockVars, TypeOK,
        StagingKept, LockInv, HoldsView
    <2>8. CASE Prefetch(q)
      BY <2>8, StoresAssumption DEF Prefetch, Goto, Exit, diskVars, lockVars, TypeOK,
        StagingKept, LockInv, HoldsView
    <2>9. QED BY <1>1, <2>1, <2>2, <2>3, <2>4, <2>5, <2>6, <2>7, <2>8 DEF Install
  <1>2. CASE ResolveView(q)
    <2>1. CASE CheckView(q)
      BY <2>1, StoresAssumption DEF CheckView, HaveView, Goto, Exit, diskVars, lockVars,
        TypeOK, StagingKept, LockInv, HoldsView
    <2>2. CASE ViewAppeared(q)
      BY <2>2, StoresAssumption DEF ViewAppeared, HaveView, Goto, Exit, diskVars,
        lockVars, TypeOK, StagingKept, LockInv, HoldsView
    <2>3. CASE \E old \in SUBSET Procs : OpenStaging(q, old)
      BY <2>3, StoresAssumption DEF OpenStaging, Goto, diskVars, lockVars, TypeOK,
        StagingKept, LockInv, HoldsView
    <2>4. CASE \E b \in Blobs : LinkBlob(q, b)
      BY <2>4, StoresAssumption DEF LinkBlob, Goto, diskVars, lockVars, TypeOK,
        StagingKept, LockInv, HoldsView
    <2>5. CASE \E b \in Blobs : Missing(q, b)
      BY <2>5, StoresAssumption DEF Missing, Goto, diskVars, lockVars, TypeOK,
        StagingKept, LockInv, HoldsView
    <2>6. CASE FetchedByOther(q)
      BY <2>6, StoresAssumption DEF FetchedByOther, Goto, diskVars, lockVars, TypeOK,
        StagingKept, LockInv, HoldsView
    <2>7. CASE FetchLock(q)
      BY <2>7, StoresAssumption DEF FetchLock, Goto, diskVars, lockVars, TypeOK,
        StagingKept, LockInv, HoldsView
    <2>8. CASE CommitBlob(q)
      BY <2>8, StoresAssumption DEF CommitBlob, Goto, diskVars, lockVars, TypeOK,
        StagingKept, LockInv, HoldsView
    <2>9. CASE FetchFails(q)
      BY <2>9, StoresAssumption DEF FetchFails, Exit, ReleaseAll, Unlocked, diskVars,
        lockVars, TypeOK, StagingKept, LockInv, HoldsView
    <2>10. CASE Publish(q)
      BY <2>10, StoresAssumption DEF Publish, HaveView, Goto, Exit, diskVars, lockVars,
        TypeOK, StagingKept, LockInv, HoldsView
    <2>11. CASE Declined(q)
      BY <2>11, StoresAssumption DEF Declined, Exit, ReleaseAll, Unlocked, diskVars, lockVars,
        TypeOK, StagingKept, LockInv, HoldsView
    <2>12. QED BY <1>2, <2>1, <2>2, <2>3, <2>4, <2>5, <2>6, <2>7, <2>8, <2>9, <2>10,
      <2>11 DEF ResolveView
  <1>3. CASE Reclaim(q)
    <2>1. CASE \E e \in Epochs : BeginRemove(q, e)
      BY <2>1, StoresAssumption DEF BeginRemove, Begin, diskVars, lockVars, TypeOK,
        StagingKept, LockInv, HoldsView
    <2>2. CASE RemoveLock(q)
      BY <2>2, StoresAssumption DEF RemoveLock, Goto, Exit, diskVars, lockVars, TypeOK,
        StagingKept, LockInv, HoldsView
    <2>3. CASE RemoveRefs(q)
      BY <2>3, StoresAssumption DEF RemoveRefs, Goto, diskVars, lockVars, TypeOK,
        StagingKept, LockInv, HoldsView
    <2>4. CASE RemoveDir(q)
      BY <2>4, StoresAssumption DEF RemoveDir, Goto, diskVars, lockVars, TypeOK,
        StagingKept, LockInv, HoldsView
    <2>5. CASE BeginRepair(q)
      BY <2>5, StoresAssumption DEF BeginRepair, Begin, diskVars, lockVars, TypeOK,
        StagingKept, LockInv, HoldsView
    <2>6. CASE RepairLock(q)
      BY <2>6, StoresAssumption DEF RepairLock, Goto, diskVars, lockVars, TypeOK,
        StagingKept, LockInv, HoldsView
    <2>7. CASE \E bad \in SUBSET Blobs : Verify(q, bad)
      BY <2>7, StoresAssumption DEF Verify, Goto, diskVars, lockVars, TypeOK, StagingKept,
        LockInv, HoldsView
    <2>8. CASE Mark(q)
      BY <2>8, StoresAssumption DEF Mark, Goto, diskVars, lockVars, TypeOK, StagingKept,
        LockInv, HoldsView
    <2>9. CASE \E b \in Blobs : SweepBlob(q, b)
      BY <2>9, StoresAssumption DEF SweepBlob, Goto, diskVars, lockVars, TypeOK,
        StagingKept, LockInv, HoldsView
    <2>10. CASE Swept(q)
      BY <2>10, StoresAssumption DEF Swept, Goto, Exit, SweepResidue, diskVars, lockVars,
        TypeOK, StagingKept, LockInv, HoldsView
    <2>11. CASE BeginClean(q)
      BY <2>11, StoresAssumption DEF BeginClean, Begin, diskVars, lockVars, TypeOK,
        StagingKept, LockInv, HoldsView
    <2>12. CASE CleanLock(q)
      BY <2>12, StoresAssumption DEF CleanLock, Goto, diskVars, lockVars, TypeOK,
        StagingKept, LockInv, HoldsView
    <2>13. CASE CleanBuildCache(q)
      BY <2>13, StoresAssumption DEF CleanBuildCache, Goto, diskVars, lockVars, TypeOK,
        StagingKept, LockInv, HoldsView
    <2>14. CASE CleanViewsLock(q)
      BY <2>14, StoresAssumption DEF CleanViewsLock, Goto, diskVars, lockVars, TypeOK,
        StagingKept, LockInv, HoldsView
    <2>15. CASE CleanViews(q)
      BY <2>15, StoresAssumption DEF CleanViews, Exit, ReleaseAll, Unlocked, diskVars,
        lockVars, TypeOK, StagingKept, LockInv, HoldsView
    <2>16. QED BY <1>3, <2>1, <2>2, <2>3, <2>4, <2>5, <2>6, <2>7, <2>8, <2>9, <2>10,
      <2>11, <2>12, <2>13, <2>14, <2>15 DEF Reclaim
  <1>4. CASE Build(q)
    <2>1. CASE \E e \in Epochs : BeginBuild(q, e)
      BY <2>1, StoresAssumption DEF BeginBuild, Begin, diskVars, lockVars, TypeOK,
        StagingKept, LockInv, HoldsView
    <2>2. CASE BuildLock(q)
      BY <2>2, StoresAssumption DEF BuildLock, Goto, diskVars, lockVars, TypeOK,
        StagingKept, LockInv, HoldsView
    <2>3. CASE Precheck(q)
      BY <2>3, StoresAssumption DEF Precheck, Goto, diskVars, lockVars, TypeOK,
        StagingKept, LockInv, HoldsView
    <2>4. CASE UseTools(q)
      BY <2>4, StoresAssumption DEF UseTools, Goto, Exit, diskVars, lockVars, TypeOK,
        StagingKept, LockInv, HoldsView
    <2>5. CASE SaveMeta(q)
      BY <2>5, StoresAssumption DEF SaveMeta, Exit, diskVars, lockVars, TypeOK,
        StagingKept, LockInv, HoldsView
    <2>6. QED BY <1>4, <2>1, <2>2, <2>3, <2>4, <2>5 DEF Build
  <1>5. CASE Crash(q)
    BY <1>5, StoresAssumption DEF Crash, Exit, ReleaseAll, Unlocked, diskVars, lockVars,
      TypeOK, StagingKept, LockInv, HoldsView
  <1>6. QED BY <1>1, <1>2, <1>3, <1>4, <1>5 DEF Step

-----------------------------------------------------------------------------
\* The invariant holds in every state.
THEOREM Invariance == Spec => []Inv
  <1>1. Init => Inv
    BY InitInv
  <1>2. Inv /\ [Next]_vars => Inv'
    <2> SUFFICES ASSUME Inv, [Next]_vars PROVE Inv'  OBVIOUS
    <2>1. CASE Next
      <3>1. PICK q \in Procs : Step(q)
        BY <2>1 DEF Next, Step
      <3>2. TypeOK' /\ CmdInv' /\ ArgInv'
        BY <3>1, TypeStep, CmdStep, ArgStep DEF Inv
      <3>3. LockInv'
        BY <3>1, LockStep DEF Inv
      <3>4. RefsInv' /\ SweepInv'
        BY <3>1, StoreStep DEF Inv
      <3>5. StagingKept'
        BY <3>1, StagingStep DEF Inv
      <3>6. QED BY <3>2, <3>3, <3>4, <3>5 DEF Inv
    <2>2. CASE UNCHANGED vars
      BY <2>2 DEF vars, diskVars, lockVars, procVars, Inv, TypeOK, CmdInv, ArgInv, LockInv,
        RefsInv, SweepInv, StagingKept, Dead, HoldsCas, HoldsView, HoldsExcl, HoldsShared
    <2>3. QED BY <2>1, <2>2
  <1>3. QED BY <1>1, <1>2, PTL DEF Spec

\* Every variable keeps its type, for every number of processes, epochs and blobs.
THEOREM TypeCorrect == Spec => []TypeOK
  <1>1. Inv => TypeOK  BY DEF Inv
  <1>2. QED BY <1>1, Invariance, PTL

\* No sweep and no clean takes the staging directory of a process at work away.
THEOREM StagingIsKept == Spec => []StagingKept
  <1>1. Inv => StagingKept  BY DEF Inv
  <1>2. QED BY <1>1, Invariance, PTL

\* The commands other than doctor --repair take their locks in one order: the build
\* directory's, the views', the store's.
THEOREM LocksAreOrdered == Spec => []NoLockCycleWithoutRepair
  <1>1. Inv => NoLockCycleWithoutRepair
    <2> SUFFICES ASSUME Inv,
                        NEW S \in SUBSET Procs,
                        Deadlocked(S),
                        \A q \in S : cmd[q] # "repair"
                 PROVE  FALSE
      BY DEF NoLockCycleWithoutRepair
    <2>1. \A q \in S : /\ q \in Procs
                       /\ \E r \in S : WaitsOn(q, r)
                       /\ pc[q] \in {"ilock", "flock", "mlock", "rlock", "vlock", "vclean",
                                     "block", "clock"}
      BY DEF Deadlocked, WaitsOn
    <2>2. \A q \in S : pc[q] \notin {"ilock", "flock", "mlock", "rlock"}
      <3> SUFFICES ASSUME NEW q \in S, pc[q] \in {"ilock", "flock", "mlock", "rlock"}
                   PROVE  FALSE
        OBVIOUS
      <3>1. PICK r \in S : cas = r
        BY <2>1 DEF WaitsOn
      <3>2. HoldsCas(r)
        BY <3>1, <2>1 DEF Inv, LockInv
      <3>3. QED BY <3>2, <2>1 DEF HoldsCas
    <2>3. \A q \in S : pc[q] \notin {"vlock", "vclean"}
      <3> SUFFICES ASSUME NEW q \in S, pc[q] \in {"vlock", "vclean"} PROVE FALSE
        OBVIOUS
      <3>1. PICK r \in S : vlock = r
        BY <2>1 DEF WaitsOn
      <3>2. HoldsView(r)
        BY <3>1, <2>1 DEF Inv, LockInv
      <3>3. QED BY <3>2, <2>1, <2>2 DEF HoldsView
    <2>4. PICK q \in S : pc[q] \in {"block", "clock"}
      BY <2>1, <2>2, <2>3 DEF Deadlocked
    <2>5. PICK r \in S : excl = r \/ r \in shared
      BY <2>1, <2>4 DEF WaitsOn
    <2>6. HoldsExcl(r) \/ HoldsShared(r)
      BY <2>1, <2>5 DEF Inv, LockInv
    <2>7. QED BY <2>1, <2>2, <2>3, <2>6 DEF HoldsExcl, HoldsShared
  <1>2. QED BY <1>1, Invariance, PTL

\* What takes a blob out of the store: Verify, and a sweep that has it on its list.
LEMMA BlobGone ==
  ASSUME TypeOK, NEW q \in Procs, Step(q), NEW b \in blobs, b \notin blobs'
  PROVE  pc[q] = "verify" \/ (pc[q] = "sweep" /\ b \in todo[q])
  <1>1. CASE Install(q)
    BY <1>1 DEF Install, diskVars, BeginInstall, InstallLock, StageBlob, StageFails,
      OpenRefs, WriteRefs, WriteRefsFails, Prefetch
  <1>2. CASE ResolveView(q)
    BY <1>2 DEF ResolveView, diskVars, CheckView, ViewAppeared, Declined, OpenStaging, LinkBlob,
      Missing, FetchedByOther, FetchLock, CommitBlob, FetchFails, Publish
  <1>3. CASE Reclaim(q)
    BY <1>3 DEF Reclaim, diskVars, BeginRemove, RemoveLock, RemoveRefs, RemoveDir,
      BeginRepair, RepairLock, Verify, Mark, SweepBlob, Swept, BeginClean, CleanLock,
      CleanBuildCache, CleanViewsLock, CleanViews
  <1>4. CASE Build(q)
    BY <1>4 DEF Build, diskVars, BeginBuild, BuildLock, Precheck, UseTools, SaveMeta
  <1>5. CASE Crash(q)
    BY <1>5 DEF Crash, diskVars
  <1>6. QED BY <1>1, <1>2, <1>3, <1>4, <1>5 DEF Step

\* A sweep deletes nothing that an epoch's reference file names or that an install
\* without one has staged.
THEOREM LiveBlobsAreKept == Spec => LiveBlobsKept
  <1> DEFINE Kept ==
        \A b \in blobs \ blobs' :
          \/ \E q \in Procs : pc[q] = "verify"
          \/ \A e \in Epochs : /\ refs[e] = "whole" => b \notin Needs[e]
                               /\ e \in dir /\ refs[e] = "none" => b \notin staged[e]
  <1>1. Inv /\ [Next]_vars => [Kept]_vars
    <2> SUFFICES ASSUME Inv, Next, NEW b \in blobs, b \notin blobs'
                 PROVE  (\E q \in Procs : pc[q] = "verify") \/ Dead(b)
      BY DEF Dead
    <2>1. PICK q \in Procs : Step(q)
      BY DEF Next, Step
    <2>2. pc[q] = "verify" \/ (pc[q] = "sweep" /\ b \in todo[q])
      BY <2>1, BlobGone DEF Inv
    <2>3. QED BY <2>2 DEF Inv, SweepInv
  <1>2. QED BY <1>1, Invariance, PTL DEF Spec, LiveBlobsKept

\* What takes a view away, and what takes a cached object away.
LEMMA FileGone ==
  ASSUME TypeOK, NEW q \in Procs, Step(q)
  PROVE  /\ \A e \in view : e \notin view' => pc[q] = "vremove"
         /\ obj /\ ~obj' => pc[q] \in {"cbuild", "meta"}
  <1>1. CASE Install(q)
    <2>1. obj' = obj /\ view' = view
      BY <1>1, Zenon DEF Install, diskVars, BeginInstall, InstallLock, StageBlob,
        StageFails, OpenRefs, WriteRefs, WriteRefsFails, Prefetch
    <2>2. QED BY <2>1
  <1>2. CASE ResolveView(q)
    <2>1. obj' = obj
      BY <1>2, Zenon DEF ResolveView, diskVars, CheckView, ViewAppeared, Declined, OpenStaging,
        LinkBlob, Missing, FetchedByOther, FetchLock, CommitBlob, FetchFails, Publish
    <2>2. \A e \in view : e \in view'
      BY <1>2 DEF ResolveView, diskVars, CheckView, ViewAppeared, Declined, OpenStaging, LinkBlob,
        Missing, FetchedByOther, FetchLock, CommitBlob, FetchFails, Publish
    <2>3. QED BY <2>1, <2>2
  <1>3. CASE Reclaim(q)
    <2>1. obj' = obj \/ pc[q] = "cbuild"
      BY <1>3, Zenon DEF Reclaim, diskVars, BeginRemove, RemoveLock, RemoveRefs, RemoveDir,
        BeginRepair, RepairLock, Verify, Mark, SweepBlob, Swept, BeginClean, CleanLock,
        CleanBuildCache, CleanViewsLock, CleanViews
    <2>2. view' = view \/ pc[q] = "vremove"
      BY <1>3, Zenon DEF Reclaim, diskVars, BeginRemove, RemoveLock, RemoveRefs, RemoveDir,
        BeginRepair, RepairLock, Verify, Mark, SweepBlob, Swept, BeginClean, CleanLock,
        CleanBuildCache, CleanViewsLock, CleanViews
    <2>3. QED BY <2>1, <2>2
  <1>4. CASE Build(q)
    <2>1. view' = view
      BY <1>4, Zenon DEF Build, diskVars, BeginBuild, BuildLock, Precheck, UseTools,
        SaveMeta
    <2>2. obj' = obj \/ obj' = TRUE \/ pc[q] = "meta"
      BY <1>4, Zenon DEF Build, diskVars, BeginBuild, BuildLock, Precheck, UseTools,
        SaveMeta
    <2>3. obj /\ ~obj' => pc[q] = "meta"
      BY <2>2, Zenon
    <2>4. QED BY <2>1, <2>3, Zenon
  <1>5. CASE Crash(q)
    BY <1>5, Zenon DEF Crash, diskVars
  <1>6. QED BY <1>1, <1>2, <1>3, <1>4, <1>5 DEF Step

\* A clean removes nothing under a running build: it has waited for all of them.
THEOREM BuildFilesAreKept == Spec => BuildKeepsItsFiles
  <1> DEFINE Kept ==
        \A q \in Procs : q \in shared =>
          /\ pc[q] = "use" /\ arg[q] \in view \ view' =>
               \E r \in Procs : pc[r] = "vremove" /\ cmd[r] = "repair"
          /\ q \in seen /\ obj /\ ~obj' => \E r \in Procs : pc[r] = "meta"
  <1>1. Inv /\ [Next]_vars => [Kept]_vars
    <2> SUFFICES ASSUME Inv, Next, NEW q \in Procs, q \in shared
                 PROVE  /\ pc[q] = "use" /\ arg[q] \in view \ view' =>
                             \E r \in Procs : pc[r] = "vremove" /\ cmd[r] = "repair"
                        /\ q \in seen /\ obj /\ ~obj' => \E r \in Procs : pc[r] = "meta"
      OBVIOUS
    <2>1. PICK r \in Procs : Step(r)
      BY DEF Next, Step
    <2>2. /\ \A e \in view : e \notin view' => pc[r] = "vremove"
          /\ obj /\ ~obj' => pc[r] \in {"cbuild", "meta"}
      BY <2>1, FileGone DEF Inv
    <2>3. ~HoldsExcl(r)
      BY StoresAssumption DEF Inv, LockInv
    <2>4. pc[r] = "vremove" => cmd[r] = "repair"
      BY <2>3 DEF Inv, CmdInv, HoldsExcl
    <2>5. pc[r] # "cbuild"
      BY <2>3 DEF HoldsExcl
    <2>6. QED BY <2>2, <2>4, <2>5
  <1>2. QED BY <1>1, Invariance, PTL DEF Spec, BuildKeepsItsFiles
=============================================================================
