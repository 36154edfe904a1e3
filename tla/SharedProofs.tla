---------------------------- MODULE SharedProofs ----------------------------
(***************************************************************************)
(* Proofs about Ref[Mutex[T]]: sharing changes nothing about the Mutex or   *)
(* the references, so what is proved of each holds of both together, and    *)
(* the Mutex is destroyed only when its last user is done with it.          *)
(***************************************************************************)
EXTENDS SharedMutex, MutexProofs, ArcProofs

\* A step of the whole is a step of each part, or leaves the part alone.
LEMMA SharedStep ==
  SharedNext => [Next]_vars /\ [ArcNext]_arcVars
BY SharedAssumption
   DEF SharedNext, LockShared, GoOn, UsesRef, Discards, Next, ArcNext

\* A shared Mutex is a Mutex and its references are references: every theorem
\* about either part is one about the two together.
THEOREM Composes == SharedSpec => Spec /\ ArcSpec
<1>1. SharedInit => Init /\ ArcInit
  BY DEF SharedInit
<1>2. [SharedNext]_sharedVars => [Next]_vars /\ [ArcNext]_arcVars
  BY SharedStep DEF sharedVars
<1> QED
  BY <1>1, <1>2, PTL DEF SharedSpec, Spec, ArcSpec
-----------------------------------------------------------------------------
\* Whoever is inside lock() or has a guard has the Ref it locked through, and
\* the PAL mutex is kept only by a goroutine that is being suspended.
UsersHaveRefs ==
  /\ \A c \in Callers : pc[c] # "out" => c \in refs
  /\ handle # NULL => pc[handle] = "suspended"

SharedInv == IInv /\ ArcInv /\ UsersHaveRefs

\* Steps of the Mutex by callers that are inside: nobody comes in.
LEMMA NobodyEnters ==
  ASSUME IInv, NEW c \in Callers,
         Unlock(c) \/ Recheck(c) \/ SpuriousWakeup(c) \/ Release(c) \/ Resume(c)
  PROVE  \A d \in Callers : pc'[d] # "out" => pc[d] # "out"
<1> USE DEF IInv, TypeOK
<1>1. CASE UnlockHandoff(c)
  <2>1. Head(waiters) \in Elems(waiters)
    BY <1>1 DEF UnlockHandoff, Elems
  <2>2. pc[Head(waiters)] # "out"
    BY <2>1 DEF ParkedAreListed, At
  <2> QED
    BY <1>1, <2>2 DEF UnlockHandoff
<1>2. CASE UnlockFree(c)
  BY <1>2 DEF UnlockFree, Signal, At
<1>3. CASE Recheck(c) \/ SpuriousWakeup(c) \/ Release(c) \/ Resume(c)
  BY <1>3 DEF Recheck, WaitLoop, SpuriousWakeup, Release, Resume
<1> QED
  BY <1>1, <1>2, <1>3 DEF Unlock

\* The PAL mutex passes only to a goroutine that suspends, and back.
LEMMA HandleKept ==
  ASSUME IInv, handle # NULL => pc[handle] = "suspended", [Next]_vars
  PROVE  (handle # NULL => pc[handle] = "suspended")'
<1> USE DEF IInv, TypeOK
<1>1. CASE UNCHANGED vars
  BY <1>1 DEF vars
<1>2. ASSUME NEW c \in Callers, Lock(c) \/ Unlock(c) \/ Recheck(c)
      PROVE  (handle # NULL => pc[handle] = "suspended")'
  BY <1>2 DEF Lock, LockFree, LockPark, LockBlock, WaitLoop, Unlock,
              UnlockHandoff, UnlockFree, Recheck
<1>3. ASSUME NEW c \in Callers, SpuriousWakeup(c) \/ Release(c) \/ Resume(c)
      PROVE  (handle # NULL => pc[handle] = "suspended")'
  BY <1>3 DEF SpuriousWakeup, Release, Resume, Callers
<1> QED
  BY <1>1, <1>2, <1>3 DEF Next

LEMMA SharedStepInv == SharedInv /\ [SharedNext]_sharedVars => SharedInv'
<1> SUFFICES ASSUME SharedInv, [SharedNext]_sharedVars
             PROVE  SharedInv'
  OBVIOUS
<1>1. [Next]_vars /\ [ArcNext]_arcVars
  BY SharedStep DEF sharedVars
<1>2. IInv' /\ ArcInv'
  BY <1>1, Step, ArcStep DEF SharedInv
<1>3. (handle # NULL => pc[handle] = "suspended")'
  BY <1>1, HandleKept DEF SharedInv, UsersHaveRefs
<1>4. (\A c \in Callers : pc[c] # "out" => c \in refs)'
  <2>1. CASE UNCHANGED sharedVars
    BY <2>1 DEF sharedVars, vars, arcVars, SharedInv, UsersHaveRefs
  <2>2. ASSUME NEW c \in Callers, LockShared(c)
        PROVE  (\A d \in Callers : pc[d] # "out" => d \in refs)'
    <3>1. refs' = refs /\ c \in refs
      BY <2>2 DEF LockShared, arcVars
    <3>2. \A d \in Callers : d # c => pc'[d] = pc[d]
      BY <2>2 DEF LockShared, Lock, LockFree, LockPark, LockBlock, WaitLoop,
                  SharedInv, IInv, TypeOK
    <3> QED
      BY <3>1, <3>2 DEF SharedInv, UsersHaveRefs
  <2>3. ASSUME NEW c \in Callers, GoOn(c)
        PROVE  (\A d \in Callers : pc[d] # "out" => d \in refs)'
    BY <2>3, NobodyEnters DEF GoOn, arcVars, SharedInv, UsersHaveRefs
  <2>4. ASSUME NEW c \in Callers, UsesRef(c)
        PROVE  (\A d \in Callers : pc[d] # "out" => d \in refs)'
    <3>1. pc' = pc
      BY <2>4 DEF UsesRef, vars
    <3>2. refs \subseteq refs' \/ (pc[c] = "out" /\ refs' = refs \ {c})
      BY <2>4 DEF UsesRef, Discards, DropRef, DropWeak, ReleaseWeak, Share, Clone,
                  CloneWeak, Downgrade, NewWeak, Proceed, UpgradeLoad, UpgradeCas,
                  DropValue, Collect, Free
    <3> QED
      BY <3>1, <3>2 DEF SharedInv, UsersHaveRefs
  <2> QED
    BY <2>1, <2>2, <2>3, <2>4 DEF SharedNext
<1> QED
  BY <1>2, <1>3, <1>4 DEF SharedInv, UsersHaveRefs

\* Without a Ref there is nobody at the Mutex.
LEMMA NoRefNoUser == SharedInv => MutexOutlivesUsers
<1> SUFFICES ASSUME SharedInv, dropped \/ (\E u \in Users : stage[u] = "value")
             PROVE  /\ handle = NULL /\ ~held /\ waiters = <<>>
                    /\ \A c \in Callers : pc[c] = "out"
  BY DEF MutexOutlivesUsers
<1>1. refs = {}
  BY DEF SharedInv, ArcInv, Ending, Closing
<1>2. \A c \in Callers : pc[c] = "out"
  BY <1>1 DEF SharedInv, UsersHaveRefs
<1>3. handle = NULL
  BY <1>2 DEF SharedInv, UsersHaveRefs, IInv, TypeOK, Callers
<1>4. ~held
  BY <1>2 DEF SharedInv, IInv, MutualExclusion, Owners, At
<1>5. waiters = <<>>
  BY <1>4 DEF SharedInv, IInv, ParkedAreListed
<1> QED
  BY <1>2, <1>3, <1>4, <1>5

\* For any number of goroutines and threads, and however they clone, upgrade and
\* drop their references: Mutex[T].drop finds nobody at the Mutex.
THEOREM DestroyedUnused == SharedSpec => []MutexOutlivesUsers
<1>1. SharedInit => SharedInv
  <2>1. SharedInit => UsersHaveRefs
    BY DEF SharedInit, Init, UsersHaveRefs
  <2> QED
    BY <2>1, InitIInv, ArcInitInv DEF SharedInit, SharedInv
<1> QED
  BY <1>1, SharedStepInv, NoRefNoUser, PTL DEF SharedSpec
=============================================================================
