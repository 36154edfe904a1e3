---------------------------- MODULE SharedMutex ----------------------------
(***************************************************************************)
(* Ref[Mutex[T]], the way goroutines share a Mutex                          *)
(* (tests/concurrency/mutex_concurrent.pr): every caller locks through a    *)
(* Ref of its own, and the drop of the last one destroys the Mutex.         *)
(***************************************************************************)
EXTENDS Mutex, Arc

ASSUME SharedAssumption == Users = Callers

sharedVars == <<vars, arcVars>>

SharedInit == Init /\ ArcInit

\* c.borrow.lock()
LockShared(c) == Idle(c) /\ c \in refs /\ Lock(c) /\ UNCHANGED arcVars

\* Callers that are inside lock() go on, and guards are dropped.
GoOn(c) ==
  /\ Unlock(c) \/ Recheck(c) \/ SpuriousWakeup(c) \/ Release(c) \/ Resume(c)
  /\ UNCHANGED arcVars

\* A caller with or without a guard runs; one that waits for the lock does not.
Runs(c) == pc[c] \in {"out", "guard"}

\* The Ref dropped at its last use, though a guard came from it.
Discards_Faulty(c) == Runs(c) /\ (DropRef(c) \/ DropWeak(c))

\* Variables are dropped last declared first, and a last use that leaves a
\* guard behind is not one to drop the Ref at.
Discards(c) == (pc[c] = "out" /\ DropRef(c)) \/ (Runs(c) /\ DropWeak(c))

UsesRef(c) ==
  /\ Discards(c) \/ (Runs(c) /\ Share(c)) \/ Proceed(c)
  /\ UNCHANGED vars

SharedNext == \E c \in Callers : LockShared(c) \/ GoOn(c) \/ UsesRef(c)

SharedSpec == SharedInit /\ [][SharedNext]_sharedVars

\* The fairness of Mutex.  Of the references nothing is asked: lock() and the
\* guard wait for no drop, and an upgrade may lose its race for ever.
SharedFairSpec == SharedSpec /\ Fairness
-----------------------------------------------------------------------------
\* Mutex[T].drop destroys the PAL mutex and the condition only when nobody
\* holds, waits for or hands over the lock, or is about to.
MutexOutlivesUsers ==
  dropped \/ (\E u \in Users : stage[u] = "value") =>
    /\ handle = NULL /\ ~held /\ waiters = <<>>
    /\ \A c \in Callers : pc[c] = "out"
=============================================================================
