------------------------------- MODULE Stores -------------------------------
(***************************************************************************)
(* What several promise processes share under PROMISE_HOME: the content-   *)
(* addressed blob store and the epochs' reference files (internal/         *)
(* blobstore), the toolchain views linked to it (cmd/promise/llvm_cas.go)  *)
(* and the build cache (internal/module/cache.go), as the commands install,*)
(* remove, doctor --repair, clean -global and build use them.              *)
(*                                                                         *)
(* A process is at one command at a time.  File locks die with their       *)
(* holder, what is on disk stays: Crash may follow any step.  A step is    *)
(* one change of the directory tree, or one lock; `refs' is written by     *)
(* truncating and then filling the file.  Archives, which are only a       *)
(* source for blobs, are part of a fetch; one view stands for the four.    *)
(***************************************************************************)
EXTENDS Integers, FiniteSets

CONSTANTS Procs,     \* processes
          Epochs,    \* compiler versions
          Blobs,     \* content hashes
          Needs,     \* the blobs an epoch's manifest names
          Bundled,   \* epochs whose binary carries its blobs (-full)
          MaxCmds,   \* the bound on commands begun
          NULL

ASSUME StoresAssumption ==
  /\ Needs \in [Epochs -> SUBSET Blobs]
  /\ Bundled \subseteq Epochs
  /\ MaxCmds \in Nat
  /\ NULL \notin Procs \cup Blobs \cup Epochs

VARIABLES
  dir,       \* epochs whose directory exists
  refs,      \* their blobs.refs: "none", "torn" (truncated) or "whole"
  blobs,     \* cache/blobs/sha256
  tmp,       \* processes whose .fetch-tmp-* directory exists, dead ones' too
  sentinel,  \* those that hold its sentinel lock
  view,      \* epochs whose view is published
  vtmp,      \* processes whose view staging directory exists
  obj,       \* the build cache holds the object
  cas,       \* the holder of cache/.lock
  vlock,     \* the holder of llvm-view.lock
  shared,    \* the builds that hold the build directory's lock
  excl,      \* the clean that holds it
  cmd,       \* the command of a process
  arg,       \* its epoch
  pc,        \* where it is
  todo,      \* the blobs it has still to stage, link or sweep
  cur,       \* the blob it fetches
  seen,      \* the builds that generate no body for the object: the cache has it
  ran,       \* the number of commands begun
  staged     \* history: what unfinished installs have staged for a directory

diskVars == <<dir, refs, blobs, tmp, view, vtmp, obj, staged>>
lockVars == <<sentinel, cas, vlock, shared, excl>>
procVars == <<cmd, arg, pc, todo, cur, seen>>
vars == <<diskVars, lockVars, procVars, ran>>

Commands == {"install", "remove", "repair", "clean", "build"}

States == {"idle", "ilock", "stage", "refs", "prefetch", "view", "vlock",
           "populate", "flock", "fetch", "rlock", "verify", "mlock", "unref",
           "rmdir", "mark", "sweep", "block", "precheck", "use", "meta",
           "clock", "cbuild", "vclean", "vremove"}

TypeOK ==
  /\ dir \subseteq Epochs
  /\ refs \in [Epochs -> {"none", "torn", "whole"}]
  /\ blobs \subseteq Blobs
  /\ tmp \subseteq Procs
  /\ sentinel \subseteq Procs
  /\ view \subseteq Epochs
  /\ vtmp \subseteq Procs
  /\ obj \in BOOLEAN
  /\ cas \in Procs \cup {NULL}
  /\ vlock \in Procs \cup {NULL}
  /\ shared \subseteq Procs
  /\ excl \in Procs \cup {NULL}
  /\ cmd \in [Procs -> Commands \cup {NULL}]
  /\ arg \in [Procs -> Epochs \cup {NULL}]
  /\ pc \in [Procs -> States]
  /\ todo \in [Procs -> SUBSET Blobs]
  /\ cur \in [Procs -> Blobs \cup {NULL}]
  /\ seen \subseteq Procs
  /\ ran \in 0 .. MaxCmds
  /\ staged \in [Epochs -> SUBSET Blobs]

Init ==
  /\ dir = {}
  /\ refs = [e \in Epochs |-> "none"]
  /\ blobs = {}
  /\ tmp = {}
  /\ sentinel = {}
  /\ view = {}
  /\ vtmp = {}
  /\ obj = FALSE
  /\ cas = NULL
  /\ vlock = NULL
  /\ shared = {}
  /\ excl = NULL
  /\ cmd = [q \in Procs |-> NULL]
  /\ arg = [q \in Procs |-> NULL]
  /\ pc = [q \in Procs |-> "idle"]
  /\ todo = [q \in Procs |-> {}]
  /\ cur = [q \in Procs |-> NULL]
  /\ seen = {}
  /\ ran = 0
  /\ staged = [e \in Epochs |-> {}]

-----------------------------------------------------------------------------
(* Commands begin and end.                                                  *)

Begin(q, c, e, first) ==
  /\ pc[q] = "idle"
  /\ ran < MaxCmds
  /\ ran' = ran + 1
  /\ cmd' = [cmd EXCEPT ![q] = c]
  /\ arg' = [arg EXCEPT ![q] = e]
  /\ pc' = [pc EXCEPT ![q] = first]
  /\ UNCHANGED <<lockVars, todo, cur, seen>>

Goto(q, where) ==
  /\ pc' = [pc EXCEPT ![q] = where]
  /\ UNCHANGED <<cmd, arg, ran>>

\* The process exits, and with it everything only it knew.
Exit(q) ==
  /\ cmd' = [cmd EXCEPT ![q] = NULL]
  /\ arg' = [arg EXCEPT ![q] = NULL]
  /\ pc' = [pc EXCEPT ![q] = "idle"]
  /\ todo' = [todo EXCEPT ![q] = {}]
  /\ cur' = [cur EXCEPT ![q] = NULL]
  /\ seen' = seen \ {q}
  /\ UNCHANGED ran

\* The kernel releases the locks of a process that has ended.
Unlocked(holder, q) == IF holder = q THEN NULL ELSE holder

ReleaseAll(q) ==
  /\ sentinel' = sentinel \ {q}
  /\ cas' = Unlocked(cas, q)
  /\ vlock' = Unlocked(vlock, q)
  /\ shared' = shared \ {q}
  /\ excl' = Unlocked(excl, q)

\* A kill or a power failure: the disk stays as it is.
Crash(q) ==
  /\ pc[q] # "idle"
  /\ Exit(q)
  /\ ReleaseAll(q)
  /\ UNCHANGED diskVars

SweepResidue_Faulty == {}

\* SweepStagingResidue, with the store's lock held: every .fetch-tmp directory
\* whose sentinel nobody holds.
SweepResidue == tmp \cap sentinel

-----------------------------------------------------------------------------
(* install                                                                  *)

\* The epoch's directories are made before the store is locked.
BeginInstall(q, e) ==
  /\ Begin(q, "install", e, "ilock")
  /\ dir' = dir \cup {e}
  /\ staged' = IF e \in dir THEN staged ELSE [staged EXCEPT ![e] = {}]
  /\ UNCHANGED <<refs, blobs, tmp, view, vtmp, obj>>

InstallLock(q) ==
  /\ pc[q] = "ilock"
  /\ cas = NULL
  /\ cas' = q
  /\ tmp' = SweepResidue
  /\ todo' = [todo EXCEPT ![q] = IF arg[q] \in Bundled THEN Needs[arg[q]] ELSE {}]
  /\ Goto(q, "stage")
  /\ UNCHANGED <<dir, refs, blobs, view, vtmp, obj, staged, sentinel, vlock, shared,
                 excl, cur, seen>>

StageBlob(q, b) ==
  /\ pc[q] = "stage"
  /\ b \in todo[q]
  /\ blobs' = blobs \cup {b}
  /\ staged' = [staged EXCEPT ![arg[q]] = @ \cup {b}]
  /\ todo' = [todo EXCEPT ![q] = @ \ {b}]
  /\ Goto(q, "stage")
  /\ UNCHANGED <<dir, refs, tmp, view, vtmp, obj, lockVars, cur, seen>>

\* A blob cannot be written: the install ends without a reference file.
StageFails(q) ==
  /\ pc[q] = "stage"
  /\ todo[q] # {}
  /\ tmp' = SweepResidue
  /\ Exit(q)
  /\ ReleaseAll(q)
  /\ UNCHANGED <<dir, refs, blobs, view, vtmp, obj, staged>>

\* WriteEpochRefs: the directory, if a remove has taken it away, and the file,
\* opened with truncation.
OpenRefs(q) ==
  /\ pc[q] = "stage"
  /\ todo[q] = {}
  /\ dir' = dir \cup {arg[q]}
  /\ refs' = [refs EXCEPT ![arg[q]] = "torn"]
  /\ Goto(q, "refs")
  /\ UNCHANGED <<blobs, tmp, view, vtmp, obj, staged, lockVars, todo, cur, seen>>

WriteRefs_Faulty(q) ==
  /\ pc[q] = "refs"
  /\ refs' = [refs EXCEPT ![arg[q]] = "whole"]
  /\ staged' = [staged EXCEPT ![arg[q]] = {}]
  /\ Goto(q, "prefetch")
  /\ UNCHANGED <<dir, blobs, tmp, view, vtmp, obj, lockVars, todo, cur, seen>>

\* The file is filled, and the store's lock released before the prefetch.
WriteRefs(q) ==
  /\ pc[q] = "refs"
  /\ refs' = [refs EXCEPT ![arg[q]] = "whole"]
  /\ staged' = [staged EXCEPT ![arg[q]] = {}]
  /\ cas' = NULL
  /\ Goto(q, "prefetch")
  /\ UNCHANGED <<dir, blobs, tmp, view, vtmp, obj, sentinel, vlock, shared, excl,
                 todo, cur, seen>>

\* A write that fails is only warned about.
WriteRefsFails(q) ==
  /\ pc[q] = "refs"
  /\ cas' = NULL
  /\ Goto(q, "prefetch")
  /\ UNCHANGED <<diskVars, sentinel, vlock, shared, excl, todo, cur, seen>>

\* prefetchHostToolchain, or not (-thin).
Prefetch(q) ==
  /\ pc[q] = "prefetch"
  /\ \/ Goto(q, "view") /\ UNCHANGED <<todo, cur, seen>>
     \/ Exit(q)
  /\ UNCHANGED <<diskVars, lockVars>>

-----------------------------------------------------------------------------
(* resolveLLVMView, for a build or for install's prefetch.                  *)

\* The view is there; a build goes on to its tools, the prefetch is over.
HaveView(q) ==
  IF cmd[q] = "build"
  THEN Goto(q, "use") /\ todo' = [todo EXCEPT ![q] = {}] /\ UNCHANGED <<cur, seen>>
  ELSE Exit(q)

\* The fast path, without a lock.
CheckView(q) ==
  /\ pc[q] = "view"
  /\ IF arg[q] \in view THEN HaveView(q)
                        ELSE Goto(q, "vlock") /\ UNCHANGED <<todo, cur, seen>>
  /\ UNCHANGED <<diskVars, lockVars>>

\* llvm-view.lock is granted, and another process has published the view.
ViewAppeared(q) ==
  /\ pc[q] = "vlock"
  /\ vlock = NULL
  /\ arg[q] \in view
  /\ HaveView(q)
  /\ UNCHANGED <<diskVars, lockVars>>

\* ... or it has not, and the user declines the download: the error ends the
\* command.
Declined(q) ==
  /\ pc[q] = "vlock"
  /\ vlock = NULL
  /\ arg[q] \notin view
  /\ Needs[arg[q]] \ blobs # {}
  /\ Exit(q)
  /\ ReleaseAll(q)
  /\ UNCHANGED diskVars

\* ... or publishViewDir makes its staging directory, after
\* reaping those, all of dead processes, that are old enough.
OpenStaging(q, old) ==
  /\ pc[q] = "vlock"
  /\ vlock = NULL
  /\ arg[q] \notin view
  /\ vlock' = q
  /\ old \subseteq vtmp
  /\ vtmp' = (vtmp \ old) \cup {q}
  /\ todo' = [todo EXCEPT ![q] = Needs[arg[q]]]
  /\ Goto(q, "populate")
  /\ UNCHANGED <<dir, refs, blobs, tmp, view, obj, staged, sentinel, cas, shared,
                 excl, cur, seen>>

\* A blob that is present is linked into the staging directory.
LinkBlob(q, b) ==
  /\ pc[q] = "populate"
  /\ b \in todo[q] \cap blobs
  /\ todo' = [todo EXCEPT ![q] = @ \ {b}]
  /\ Goto(q, "populate")
  /\ UNCHANGED <<diskVars, lockVars, cur, seen>>

\* Resolve, for a blob that is not: it waits for the store's lock.
Missing(q, b) ==
  /\ pc[q] = "populate"
  /\ b \in todo[q] \ blobs
  /\ cur' = [cur EXCEPT ![q] = b]
  /\ Goto(q, "flock")
  /\ UNCHANGED <<diskVars, lockVars, todo, seen>>

\* Under the lock another process's blob may be there by now ...
FetchedByOther(q) ==
  /\ pc[q] = "flock"
  /\ cas = NULL
  /\ cur[q] \in blobs
  /\ cur' = [cur EXCEPT ![q] = NULL]
  /\ todo' = [todo EXCEPT ![q] = @ \ {cur[q]}]
  /\ Goto(q, "populate")
  /\ UNCHANGED <<diskVars, lockVars, seen>>

\* ... or ensureTmp makes the resolver's directory and locks its sentinel.
FetchLock(q) ==
  /\ pc[q] = "flock"
  /\ cas = NULL
  /\ cur[q] \notin blobs
  /\ cas' = q
  /\ tmp' = tmp \cup {q}
  /\ sentinel' = sentinel \cup {q}
  /\ Goto(q, "fetch")
  /\ UNCHANGED <<dir, refs, blobs, view, vtmp, obj, staged, vlock, shared, excl, todo,
                 cur, seen>>

\* The bytes verify and are renamed into the store.
CommitBlob(q) ==
  /\ pc[q] = "fetch"
  /\ blobs' = blobs \cup {cur[q]}
  /\ cas' = NULL
  /\ cur' = [cur EXCEPT ![q] = NULL]
  /\ todo' = [todo EXCEPT ![q] = @ \ {cur[q]}]
  /\ Goto(q, "populate")
  /\ UNCHANGED <<dir, refs, tmp, view, vtmp, obj, staged, sentinel, vlock, shared,
                 excl, seen>>

\* A link cannot be made, or no source delivers: the error ends the population
\* and the command.
FetchFails(q) ==
  /\ pc[q] \in {"populate", "fetch"}
  /\ tmp' = tmp \ {q}
  /\ vtmp' = vtmp \ {q}
  /\ Exit(q)
  /\ ReleaseAll(q)
  /\ UNCHANGED <<dir, refs, blobs, view, obj, staged>>

\* The staging directory is renamed to the view, the resolver closed, the lock
\* released.
Publish(q) ==
  /\ pc[q] = "populate"
  /\ todo[q] = {}
  /\ view' = view \cup {arg[q]}
  /\ vtmp' = vtmp \ {q}
  /\ tmp' = tmp \ {q}
  /\ sentinel' = sentinel \ {q}
  /\ vlock' = NULL
  /\ HaveView(q)
  /\ UNCHANGED <<dir, refs, blobs, obj, staged, cas, shared, excl>>

-----------------------------------------------------------------------------
(* remove and doctor --repair                                               *)

BeginRemove(q, e) ==
  /\ e \in dir
  /\ Begin(q, "remove", e, "mlock")
  /\ UNCHANGED diskVars

\* An epoch that is gone by then is an error.
RemoveLock(q) ==
  /\ pc[q] = "mlock"
  /\ cas = NULL
  /\ IF arg[q] \in dir
     THEN cas' = q /\ Goto(q, "unref") /\ UNCHANGED <<todo, cur, seen>>
     ELSE Exit(q) /\ UNCHANGED cas
  /\ UNCHANGED <<diskVars, sentinel, vlock, shared, excl>>

\* RemoveAll of the epoch's directory: its files, then itself.
RemoveRefs(q) ==
  /\ pc[q] = "unref"
  /\ refs' = [refs EXCEPT ![arg[q]] = "none"]
  /\ staged' = [staged EXCEPT ![arg[q]] = {}]
  /\ Goto(q, "rmdir")
  /\ UNCHANGED <<dir, blobs, tmp, view, vtmp, obj, lockVars, todo, cur, seen>>

RemoveDir(q) ==
  /\ pc[q] = "rmdir"
  /\ dir' = dir \ {arg[q]}
  /\ Goto(q, "mark")
  /\ UNCHANGED <<refs, blobs, tmp, view, vtmp, obj, staged, lockVars, todo, cur, seen>>

BeginRepair(q) ==
  /\ Begin(q, "repair", NULL, "rlock")
  /\ UNCHANGED diskVars

RepairLock(q) ==
  /\ pc[q] = "rlock"
  /\ cas = NULL
  /\ cas' = q
  /\ Goto(q, "verify")
  /\ UNCHANGED <<diskVars, sentinel, vlock, shared, excl, todo, cur, seen>>

\* Verify moves the blobs whose bytes have rotted to the quarantine.
Verify(q, bad) ==
  /\ pc[q] = "verify"
  /\ bad \subseteq blobs
  /\ blobs' = blobs \ bad
  /\ Goto(q, "mark")
  /\ UNCHANGED <<dir, refs, tmp, view, vtmp, obj, staged, lockVars, todo, cur, seen>>

AllRefsReadable_Faulty == \E e \in dir : refs[e] # "none"

\* ReadEpochRefs has no result for an epoch without the file; a truncated file
\* is read as one that names nothing.
AllRefsReadable ==
  /\ \A e \in dir : refs[e] # "none"
  /\ dir # {}

LiveSet == UNION {Needs[e] : e \in {d \in dir : refs[d] = "whole"}}

\* LiveSet, and the list of what Sweep will delete.
Mark(q) ==
  /\ pc[q] = "mark"
  /\ todo' = [todo EXCEPT ![q] = IF AllRefsReadable THEN blobs \ LiveSet ELSE {}]
  /\ Goto(q, "sweep")
  /\ UNCHANGED <<diskVars, lockVars, cur, seen>>

SweepBlob(q, b) ==
  /\ pc[q] = "sweep"
  /\ b \in todo[q]
  /\ blobs' = blobs \ {b}
  /\ todo' = [todo EXCEPT ![q] = @ \ {b}]
  /\ Goto(q, "sweep")
  /\ UNCHANGED <<dir, refs, tmp, view, vtmp, obj, staged, lockVars, cur, seen>>

\* Then the staging residue; remove is over, repair goes on to the views with
\* the store's lock held.
Swept(q) ==
  /\ pc[q] = "sweep"
  /\ todo[q] = {}
  /\ tmp' = SweepResidue
  /\ IF cmd[q] = "repair"
     THEN Goto(q, "vclean") /\ UNCHANGED <<todo, cur, seen, cas>>
     ELSE Exit(q) /\ cas' = NULL
  /\ UNCHANGED <<dir, refs, blobs, view, vtmp, obj, staged, sentinel, vlock, shared,
                 excl>>

-----------------------------------------------------------------------------
(* clean -global, and the views of repair                                   *)

BeginClean(q) ==
  /\ Begin(q, "clean", NULL, "clock")
  /\ UNCHANGED diskVars

CleanLock_Faulty(q) ==
  /\ pc[q] = "clock"
  /\ excl = NULL
  /\ excl' = q
  /\ Goto(q, "cbuild")
  /\ UNCHANGED <<diskVars, sentinel, cas, vlock, shared, todo, cur, seen>>

\* LockBuildDirExclusive waits for every build.
CleanLock(q) ==
  /\ pc[q] = "clock"
  /\ excl = NULL
  /\ shared = {}
  /\ excl' = q
  /\ Goto(q, "cbuild")
  /\ UNCHANGED <<diskVars, sentinel, cas, vlock, shared, todo, cur, seen>>

CleanBuildCache(q) ==
  /\ pc[q] = "cbuild"
  /\ obj' = FALSE
  /\ Goto(q, "vclean")
  /\ UNCHANGED <<dir, refs, blobs, tmp, view, vtmp, staged, lockVars, todo, cur, seen>>

\* cleanViewsUnderLock takes the view lock ...  (A lock call that fails is
\* left out here as everywhere; the code would go on without that lock.)
CleanViewsLock(q) ==
  /\ pc[q] = "vclean"
  /\ vlock = NULL
  /\ vlock' = q
  /\ Goto(q, "vremove")
  /\ UNCHANGED <<diskVars, sentinel, cas, shared, excl, todo, cur, seen>>

\* ... and removes the tree, staging directories included.
CleanViews(q) ==
  /\ pc[q] = "vremove"
  /\ view' = {}
  /\ vtmp' = {}
  /\ Exit(q)
  /\ ReleaseAll(q)
  /\ UNCHANGED <<dir, refs, blobs, tmp, obj, staged>>

-----------------------------------------------------------------------------
(* build                                                                    *)

BeginBuild(q, e) ==
  /\ e \in dir
  /\ Begin(q, "build", e, "block")
  /\ UNCHANGED diskVars

BuildLock(q) ==
  /\ pc[q] = "block"
  /\ excl = NULL
  /\ shared' = shared \cup {q}
  /\ Goto(q, "precheck")
  /\ UNCHANGED <<diskVars, sentinel, cas, vlock, excl, todo, cur, seen>>

\* lookupCachedInstances: a cached instance gets no body.
Precheck(q) ==
  /\ pc[q] = "precheck"
  /\ seen' = IF obj THEN seen \cup {q} ELSE seen
  /\ Goto(q, "view")
  /\ UNCHANGED <<diskVars, lockVars, todo, cur>>

\* The tools run: a cached object is linked; one that was not there is
\* compiled, unless it is by now, and SaveBuildCache publishes it.
UseTools(q) ==
  /\ pc[q] = "use"
  /\ \/ /\ q \in seen \/ obj
        /\ Exit(q)
        /\ shared' = shared \ {q}
        /\ UNCHANGED obj
     \/ /\ q \notin seen /\ ~obj
        /\ obj' = TRUE
        /\ Goto(q, "meta")
        /\ UNCHANGED <<todo, cur, seen, shared>>
  /\ UNCHANGED <<dir, refs, blobs, tmp, view, vtmp, staged, sentinel, cas, vlock,
                 excl>>

\* Its metadata is written, or cannot be and the object is removed again.
SaveMeta(q) ==
  /\ pc[q] = "meta"
  /\ UNCHANGED obj \/ obj' = FALSE
  /\ Exit(q)
  /\ shared' = shared \ {q}
  /\ UNCHANGED <<dir, refs, blobs, tmp, view, vtmp, staged, sentinel, cas, vlock,
                 excl>>

-----------------------------------------------------------------------------
Install(q) ==
  \/ \E e \in Epochs : BeginInstall(q, e)
  \/ InstallLock(q)
  \/ \E b \in Blobs : StageBlob(q, b)
  \/ StageFails(q) \/ OpenRefs(q) \/ WriteRefs(q) \/ WriteRefsFails(q) \/ Prefetch(q)

ResolveView(q) ==
  \/ CheckView(q) \/ ViewAppeared(q) \/ Declined(q)
  \/ \E old \in SUBSET Procs : OpenStaging(q, old)
  \/ \E b \in Blobs : LinkBlob(q, b) \/ Missing(q, b)
  \/ FetchedByOther(q) \/ FetchLock(q) \/ CommitBlob(q) \/ FetchFails(q)
  \/ Publish(q)

Reclaim(q) ==
  \/ \E e \in Epochs : BeginRemove(q, e)
  \/ RemoveLock(q) \/ RemoveRefs(q) \/ RemoveDir(q)
  \/ BeginRepair(q) \/ RepairLock(q)
  \/ \E bad \in SUBSET Blobs : Verify(q, bad)
  \/ Mark(q)
  \/ \E b \in Blobs : SweepBlob(q, b)
  \/ Swept(q)
  \/ BeginClean(q) \/ CleanLock(q) \/ CleanBuildCache(q)
  \/ CleanViewsLock(q) \/ CleanViews(q)

Build(q) ==
  \/ \E e \in Epochs : BeginBuild(q, e)
  \/ BuildLock(q) \/ Precheck(q) \/ UseTools(q) \/ SaveMeta(q)

Next == \E q \in Procs :
  Install(q) \/ ResolveView(q) \/ Reclaim(q) \/ Build(q) \/ Crash(q)

Spec == Init /\ [][Next]_vars

-----------------------------------------------------------------------------
(* Properties.                                                              *)

\* Sweep deletes no blob an installed epoch needs, and none that the install of
\* an epoch has staged and not yet referenced, crashed or not (gc.go's
\* fail-safe).  A reference file torn by a failed write is the exception; what
\* Verify quarantines was no longer the blob.
LiveBlobsKept ==
  [][\A b \in blobs \ blobs' :
       \/ \E q \in Procs : pc[q] = "verify"
       \/ \A e \in Epochs : /\ refs[e] = "whole" => b \notin Needs[e]
                            /\ e \in dir /\ refs[e] = "none" => b \notin staged[e]]_vars

\* The staging directories of a process at work stay in place, whoever sweeps
\* or cleans: the resolver's between its fetches, the view's until its rename.
StagingKept ==
  \A q \in Procs :
    /\ q \in sentinel => q \in tmp
    /\ pc[q] \in {"populate", "flock", "fetch"} => q \in vtmp

\* q waits for a lock that r has.
WaitsOn(q, r) ==
  \/ pc[q] \in {"ilock", "flock", "mlock", "rlock"} /\ cas = r
  \/ pc[q] \in {"vlock", "vclean"} /\ vlock = r
  \/ pc[q] = "block" /\ excl = r
  \/ pc[q] = "clock" /\ (excl = r \/ r \in shared)

\* The processes of S wait for each other, for ever.
Deadlocked(S) == S # {} /\ \A q \in S : \E r \in S : WaitsOn(q, r)

\* No two commands wait for each other, a build for the store and a clean for the
\* build, unless a repair is among them: it keeps the store's lock while it waits
\* for the views'.
NoLockCycleWithoutRepair ==
  \A S \in SUBSET Procs : Deadlocked(S) => \E q \in S : cmd[q] = "repair"

\* What a build has found stays until it is done: its view is removed by a repair
\* only, a cached object only by a build whose metadata could not be written; a
\* clean waits for both.
BuildKeepsItsFiles ==
  [][\A q \in Procs : q \in shared =>
       /\ pc[q] = "use" /\ arg[q] \in view \ view' =>
            \E r \in Procs : pc[r] = "vremove" /\ cmd[r] = "repair"
       /\ q \in seen /\ obj /\ ~obj' => \E r \in Procs : pc[r] = "meta"]_vars
=============================================================================
