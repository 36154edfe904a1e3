----------------------------- MODULE TaskProofs -----------------------------
(***************************************************************************)
(* Proofs about Task[T] handles, for any number of tasks that share         *)
(* done_lock: a parked owner is always going to be woken, what an owner     *)
(* loads has been stored, and everything is freed by one party only.        *)
(***************************************************************************)
EXTENDS Task, TLAPS

\* G.done and done_lock follow the program counters.
LockInv ==
  \A t \in Tasks :
    /\ done[t] <=> exitPc[t] \in {"stored", "taken", "unlocked", "gone"}
    /\ doneLock = <<"exit", t>> <=> exitPc[t] \in {"locked", "stored", "taken"}
    /\ doneLock = <<"own", t>> <=> ownPc[t] = "suspended"

\* An owner is on done_waiters, or taken off it, only while it is parked.
WaiterInv ==
  \A t \in Tasks :
    /\ waiter[t] => ownPc[t] \in {"suspended", "parked"}
    /\ toWake[t] => ownPc[t] = "parked" /\ exitPc[t] = "taken" /\ ~waiter[t]

\* Who has freed the G: the owner, or goroutine_exit when there is none.
FreesInv ==
  \A t \in Tasks :
    /\ kind[t] = "detached" =>
         /\ ownPc[t] = "gone"
         /\ frees[t] = IF exitPc[t] = "gone" THEN 1 ELSE 0
    /\ kind[t] # "detached" =>
         frees[t] = IF ownPc[t] = "gone" THEN 1 ELSE 0

\* What the body has left in the buffer and in the panic fields.
DataInv ==
  \A t \in Tasks :
    /\ ownPc[t] = "ready" => done[t]
    /\ ownPc[t] = "gone" /\ kind[t] # "detached" => done[t]
    /\ kind[t] # "value" => buf[t] = "none"
    /\ kind[t] = "value" /\ exitPc[t] = "body" => buf[t] = "raw"
    /\ kind[t] = "value" /\ exitPc[t] # "body" /\ panicked[t] = 0
         => buf[t] = IF ownPc[t] = "gone" THEN "freed" ELSE "written"
    /\ exitPc[t] = "body" => panicked[t] = 0
    /\ panicked[t] = 0 => msg[t] = "none"
    /\ panicked[t] = 1 => msg[t] = "static"
    /\ panicked[t] = 2 => msg[t] \in {"heap", "freed"}
    /\ panicked[t] = 2 /\ frees[t] = 0 => msg[t] = "heap"

\* What is gone has been freed, as far as dropping promises it.
GoneInv ==
  \A t \in Tasks :
    /\ how[t] = "drop" /\ ownPc[t] = "gone" /\ kind[t] # "detached" =>
         buf[t] \in {"none", "freed"} /\ msg[t] # "heap"
    /\ kind[t] = "detached" /\ exitPc[t] = "gone" => msg[t] # "heap"

IInv ==
  /\ TypeOK /\ LockInv /\ WaiterInv /\ OwnerNotStranded
  /\ FreesInv /\ DataInv /\ GoneInv

-----------------------------------------------------------------------------
\* A program that starts its tasks satisfies the invariant.
LEMMA InitIInv == Init => IInv
<1> SUFFICES ASSUME Init PROVE IInv
  OBVIOUS
<1>1. TypeOK
  BY TaskAssumption DEF Init, TypeOK, ExitPCs, OwnPCs
<1>2. LockInv /\ WaiterInv /\ OwnerNotStranded
  BY TaskAssumption DEF Init, LockInv, WaiterInv, OwnerNotStranded
<1>3. FreesInv /\ DataInv /\ GoneInv
  BY TaskAssumption DEF Init, FreesInv, DataInv, GoneInv
<1> QED
  BY <1>1, <1>2, <1>3 DEF IInv

\* Every step of a goroutine or of an owner preserves the invariant.
LEMMA Step == IInv /\ [Next]_vars => IInv'
<1> SUFFICES ASSUME IInv, [Next]_vars PROVE IInv'
  OBVIOUS
<1> USE TaskAssumption DEF IInv
<1>1. ASSUME NEW t \in Tasks, BodyReturns(t) PROVE IInv'
  <2> USE <1>1 DEF BodyReturns, shape, memory, Stored
  <2>1. TypeOK'
    BY DEF TypeOK, ExitPCs, OwnPCs
  <2>2. LockInv'
    BY DEF LockInv, TypeOK
  <2>3. WaiterInv'
    BY DEF WaiterInv, TypeOK, LockInv
  <2>4. OwnerNotStranded'
    BY DEF OwnerNotStranded, TypeOK, LockInv, WaiterInv
  <2>5. FreesInv'
    BY DEF FreesInv, TypeOK, WaiterInv, OwnerNotStranded, LockInv
  <2>6. DataInv'
    BY DEF DataInv, TypeOK, LockInv, WaiterInv, FreesInv, OwnerNotStranded
  <2>7. GoneInv'
    BY DEF GoneInv, TypeOK, FreesInv, WaiterInv, DataInv, LockInv
  <2> QED
    BY <2>1, <2>2, <2>3, <2>4, <2>5, <2>6, <2>7
<1>2. ASSUME NEW t \in Tasks, NEW m \in {"static", "heap"}, BodyPanics(t, m)
      PROVE  IInv'
  <2> USE <1>2 DEF BodyPanics, shape, memory
  <2>1. TypeOK'
    BY DEF TypeOK, ExitPCs, OwnPCs
  <2>2. LockInv'
    BY DEF LockInv, TypeOK
  <2>3. WaiterInv'
    BY DEF WaiterInv, TypeOK, LockInv
  <2>4. OwnerNotStranded'
    BY DEF OwnerNotStranded, TypeOK, LockInv, WaiterInv
  <2>5. FreesInv'
    BY DEF FreesInv, TypeOK, WaiterInv, OwnerNotStranded, LockInv
  <2>6. DataInv'
    BY DEF DataInv, TypeOK, LockInv, WaiterInv, FreesInv, OwnerNotStranded
  <2>7. GoneInv'
    BY DEF GoneInv, TypeOK, FreesInv, WaiterInv, DataInv, LockInv
  <2> QED
    BY <2>1, <2>2, <2>3, <2>4, <2>5, <2>6, <2>7
<1>3. ASSUME NEW t \in Tasks, ExitLock(t) PROVE IInv'
  <2> USE <1>3 DEF ExitLock, shape, memory
  <2>1. TypeOK'
    BY DEF TypeOK, ExitPCs, OwnPCs
  <2>2. LockInv'
    BY DEF LockInv, TypeOK
  <2>3. WaiterInv'
    BY DEF WaiterInv, TypeOK, LockInv
  <2>4. OwnerNotStranded'
    BY DEF OwnerNotStranded, TypeOK, LockInv, WaiterInv
  <2>5. FreesInv'
    BY DEF FreesInv, TypeOK, WaiterInv, OwnerNotStranded, LockInv
  <2>6. DataInv'
    BY DEF DataInv, TypeOK, LockInv, WaiterInv, FreesInv, OwnerNotStranded
  <2>7. GoneInv'
    BY DEF GoneInv, TypeOK, FreesInv, WaiterInv, DataInv, LockInv
  <2> QED
    BY <2>1, <2>2, <2>3, <2>4, <2>5, <2>6, <2>7
<1>4. ASSUME NEW t \in Tasks, SetDone(t) PROVE IInv'
  <2> USE <1>4 DEF SetDone, shape, memory
  <2>1. TypeOK'
    BY DEF TypeOK, ExitPCs, OwnPCs
  <2>2. LockInv'
    BY DEF LockInv, TypeOK
  <2>3. WaiterInv'
    BY DEF WaiterInv, TypeOK, LockInv
  <2>4. OwnerNotStranded'
    BY DEF OwnerNotStranded, TypeOK, LockInv, WaiterInv
  <2>5. FreesInv'
    BY DEF FreesInv, TypeOK, WaiterInv, OwnerNotStranded, LockInv
  <2>6. DataInv'
    BY DEF DataInv, TypeOK, LockInv, WaiterInv, FreesInv, OwnerNotStranded
  <2>7. GoneInv'
    BY DEF GoneInv, TypeOK, FreesInv, WaiterInv, DataInv, LockInv
  <2> QED
    BY <2>1, <2>2, <2>3, <2>4, <2>5, <2>6, <2>7
<1>5. ASSUME NEW t \in Tasks, TakeWaiters(t) PROVE IInv'
  <2> USE <1>5 DEF TakeWaiters, shape, memory
  <2>1. TypeOK'
    BY DEF TypeOK, ExitPCs, OwnPCs
  <2>2. LockInv'
    BY DEF LockInv, TypeOK
  <2>3. WaiterInv'
    BY DEF WaiterInv, TypeOK, LockInv
  <2>4. OwnerNotStranded'
    BY DEF OwnerNotStranded, TypeOK, LockInv, WaiterInv
  <2>5. FreesInv'
    BY DEF FreesInv, TypeOK, WaiterInv, OwnerNotStranded, LockInv
  <2>6. DataInv'
    BY DEF DataInv, TypeOK, LockInv, WaiterInv, FreesInv, OwnerNotStranded
  <2>7. GoneInv'
    BY DEF GoneInv, TypeOK, FreesInv, WaiterInv, DataInv, LockInv
  <2> QED
    BY <2>1, <2>2, <2>3, <2>4, <2>5, <2>6, <2>7
<1>6. ASSUME NEW t \in Tasks, WakeAndUnlock(t) PROVE IInv'
  <2> USE <1>6 DEF WakeAndUnlock, shape, memory
  <2>1. TypeOK'
    BY DEF TypeOK, ExitPCs, OwnPCs
  <2>2. LockInv'
    BY DEF LockInv, TypeOK
  <2>3. WaiterInv'
    BY DEF WaiterInv, TypeOK, LockInv
  <2>4. OwnerNotStranded'
    BY DEF OwnerNotStranded, TypeOK, LockInv, WaiterInv
  <2>5. FreesInv'
    BY DEF FreesInv, TypeOK, WaiterInv, OwnerNotStranded, LockInv
  <2>6. DataInv'
    BY DEF DataInv, TypeOK, LockInv, WaiterInv, FreesInv, OwnerNotStranded
  <2>7. GoneInv'
    BY DEF GoneInv, TypeOK, FreesInv, WaiterInv, DataInv, LockInv
  <2> QED
    BY <2>1, <2>2, <2>3, <2>4, <2>5, <2>6, <2>7
<1>7. ASSUME NEW t \in Tasks, ExitFree(t) PROVE IInv'
  <2> USE <1>7 DEF ExitFree, shape, memory, IsTask
  <2>1. TypeOK'
    BY DEF TypeOK, ExitPCs, OwnPCs, FreesInv, WaiterInv, DataInv
  <2>2. LockInv'
    BY DEF LockInv, TypeOK
  <2>3. WaiterInv'
    BY DEF WaiterInv, TypeOK, LockInv
  <2>4. OwnerNotStranded'
    BY DEF OwnerNotStranded, TypeOK, LockInv, WaiterInv
  <2>5. FreesInv'
    BY DEF FreesInv, TypeOK, WaiterInv, OwnerNotStranded, LockInv
  <2>6. DataInv'
    BY DEF DataInv, TypeOK, LockInv, WaiterInv, FreesInv, OwnerNotStranded
  <2>7. GoneInv'
    BY DEF GoneInv, TypeOK, FreesInv, WaiterInv, DataInv, LockInv
  <2> QED
    BY <2>1, <2>2, <2>3, <2>4, <2>5, <2>6, <2>7
<1>8. ASSUME NEW t \in Tasks, FastCheck(t) PROVE IInv'
  <2> USE <1>8 DEF FastCheck, shape, memory
  <2>1. TypeOK'
    BY DEF TypeOK, ExitPCs, OwnPCs
  <2>2. LockInv'
    BY DEF LockInv, TypeOK
  <2>3. WaiterInv'
    BY DEF WaiterInv, TypeOK, LockInv
  <2>4. OwnerNotStranded'
    BY DEF OwnerNotStranded, TypeOK, LockInv, WaiterInv
  <2>5. FreesInv'
    BY DEF FreesInv, TypeOK, WaiterInv, OwnerNotStranded, LockInv
  <2>6. DataInv'
    BY DEF DataInv, TypeOK, LockInv, WaiterInv, FreesInv, OwnerNotStranded
  <2>7. GoneInv'
    BY DEF GoneInv, TypeOK, FreesInv, WaiterInv, DataInv, LockInv
  <2> QED
    BY <2>1, <2>2, <2>3, <2>4, <2>5, <2>6, <2>7
<1>9. ASSUME NEW t \in Tasks, Poll(t) PROVE IInv'
  <2> USE <1>9 DEF Poll, shape, memory
  <2>1. TypeOK'
    BY DEF TypeOK, ExitPCs, OwnPCs
  <2>2. LockInv'
    BY DEF LockInv, TypeOK
  <2>3. WaiterInv'
    BY DEF WaiterInv, TypeOK, LockInv
  <2>4. OwnerNotStranded'
    BY DEF OwnerNotStranded, TypeOK, LockInv, WaiterInv
  <2>5. FreesInv'
    BY DEF FreesInv, TypeOK, WaiterInv, OwnerNotStranded, LockInv
  <2>6. DataInv'
    BY DEF DataInv, TypeOK, LockInv, WaiterInv, FreesInv, OwnerNotStranded
  <2>7. GoneInv'
    BY DEF GoneInv, TypeOK, FreesInv, WaiterInv, DataInv, LockInv
  <2> QED
    BY <2>1, <2>2, <2>3, <2>4, <2>5, <2>6, <2>7
<1>10. ASSUME NEW t \in Tasks, LockAndPark(t) PROVE IInv'
  <2> USE <1>10 DEF LockAndPark, shape, memory, SeenDone
  <2>1. TypeOK'
    <3>1. CASE done[t]
      BY <3>1 DEF TypeOK, OwnPCs
    <3>2. CASE ~done[t]
      <4>1. ownPc' \in [Tasks -> OwnPCs]
        BY <3>2 DEF TypeOK, OwnPCs
      <4>2. waiter' \in [Tasks -> BOOLEAN]
        BY <3>2 DEF TypeOK
      <4>3. doneLock' \in ({"exit", "own"} \X Tasks) \cup {NULL}
        BY <3>2
      <4> QED
        BY <4>1, <4>2, <4>3 DEF TypeOK
    <3> QED
      BY <3>1, <3>2
  <2>2. LockInv'
    BY DEF LockInv, TypeOK
  <2>3. WaiterInv'
    BY DEF WaiterInv, TypeOK, LockInv
  <2>4. OwnerNotStranded'
    <3>1. CASE done[t]
      BY <3>1 DEF OwnerNotStranded, TypeOK
    <3>2. CASE ~done[t]
      <4>1. exitPc[t] \in {"body", "exit", "locked", "stored"} /\ waiter'[t]
        BY <3>2 DEF TypeOK, LockInv, ExitPCs
      <4> QED
        BY <3>2, <4>1 DEF OwnerNotStranded, TypeOK
    <3> QED
      BY <3>1, <3>2
  <2>5. FreesInv'
    BY DEF FreesInv, TypeOK, WaiterInv, OwnerNotStranded, LockInv
  <2>6. DataInv'
    BY DEF DataInv, TypeOK, LockInv, WaiterInv, FreesInv, OwnerNotStranded
  <2>7. GoneInv'
    BY DEF GoneInv, TypeOK, FreesInv, WaiterInv, DataInv, LockInv
  <2> QED
    BY <2>1, <2>2, <2>3, <2>4, <2>5, <2>6, <2>7
<1>11. ASSUME NEW t \in Tasks, Release(t) PROVE IInv'
  <2> USE <1>11 DEF Release, shape, memory
  <2>1. TypeOK'
    BY DEF TypeOK, ExitPCs, OwnPCs
  <2>2. LockInv'
    BY DEF LockInv, TypeOK
  <2>3. WaiterInv'
    BY DEF WaiterInv, TypeOK, LockInv
  <2>4. OwnerNotStranded'
    BY DEF OwnerNotStranded, TypeOK, LockInv, WaiterInv
  <2>5. FreesInv'
    BY DEF FreesInv, TypeOK, WaiterInv, OwnerNotStranded, LockInv
  <2>6. DataInv'
    BY DEF DataInv, TypeOK, LockInv, WaiterInv, FreesInv, OwnerNotStranded
  <2>7. GoneInv'
    BY DEF GoneInv, TypeOK, FreesInv, WaiterInv, DataInv, LockInv
  <2> QED
    BY <2>1, <2>2, <2>3, <2>4, <2>5, <2>6, <2>7
<1>12. ASSUME NEW t \in Tasks, Await(t) PROVE IInv'
  <2> USE <1>12 DEF Await, shape, memory
  <2>1. TypeOK'
    BY DEF TypeOK, ExitPCs, OwnPCs, FreesInv, WaiterInv, DataInv
  <2>2. LockInv'
    BY DEF LockInv, TypeOK
  <2>3. WaiterInv'
    BY DEF WaiterInv, TypeOK, LockInv
  <2>4. OwnerNotStranded'
    BY DEF OwnerNotStranded, TypeOK, LockInv, WaiterInv
  <2>5. FreesInv'
    BY DEF FreesInv, TypeOK, WaiterInv, OwnerNotStranded, LockInv
  <2>6. DataInv'
    BY DEF DataInv, TypeOK, LockInv, WaiterInv, FreesInv, OwnerNotStranded
  <2>7. GoneInv'
    BY DEF GoneInv, TypeOK, FreesInv, WaiterInv, DataInv, LockInv
  <2> QED
    BY <2>1, <2>2, <2>3, <2>4, <2>5, <2>6, <2>7
<1>13. ASSUME NEW t \in Tasks, Drop(t) PROVE IInv'
  <2> USE <1>13 DEF Drop, shape, memory, DroppedMsg
  <2>1. TypeOK'
    BY DEF TypeOK, ExitPCs, OwnPCs, FreesInv, WaiterInv, DataInv
  <2>2. LockInv'
    BY DEF LockInv, TypeOK
  <2>3. WaiterInv'
    BY DEF WaiterInv, TypeOK, LockInv
  <2>4. OwnerNotStranded'
    BY DEF OwnerNotStranded, TypeOK, LockInv, WaiterInv
  <2>5. FreesInv'
    BY DEF FreesInv, TypeOK, WaiterInv, OwnerNotStranded, LockInv
  <2>6. DataInv'
    BY DEF DataInv, TypeOK, LockInv, WaiterInv, FreesInv, OwnerNotStranded
  <2>7. GoneInv'
    BY DEF GoneInv, TypeOK, FreesInv, WaiterInv, DataInv, LockInv
  <2> QED
    BY <2>1, <2>2, <2>3, <2>4, <2>5, <2>6, <2>7
<1>14. ASSUME UNCHANGED vars PROVE IInv'
  BY <1>14 DEF vars, TypeOK, LockInv, WaiterInv, OwnerNotStranded, FreesInv,
               DataInv, GoneInv
<1> QED
  BY <1>1, <1>2, <1>3, <1>4, <1>5, <1>6, <1>7, <1>8, <1>9, <1>10, <1>11, <1>12, <1>13, <1>14
  DEF Next, Body, Exit, Own

\* The invariant holds in every state.
LEMMA Invariance == Spec => []IInv
BY InitIInv, Step, PTL DEF Spec

\* The G of a task is freed at most once, and every field keeps its type.
THEOREM TypeCorrect == Spec => []TypeOK
BY Invariance, PTL DEF IInv

\* The test of done under done_lock and goroutine_exit cannot miss each other.
THEOREM NeverStranded == Spec => []OwnerNotStranded
BY Invariance, PTL DEF IInv

\* No owner loads a result or a panic message that was not stored.
THEOREM LoadsWhatWasStored == Spec => []ResultReady
<1>1. IInv => ResultReady
  BY DEF IInv, TypeOK, LockInv, FreesInv, DataInv, ResultReady
<1> QED
  BY <1>1, Invariance, PTL

\* Between them the goroutine and the owner free what a task leaves.
THEOREM EverythingReclaimed == Spec => []Reclaimed
<1>1. IInv => Reclaimed
  BY DEF IInv, TypeOK, FreesInv, DataInv, GoneInv, Reclaimed
<1> QED
  BY <1>1, Invariance, PTL
=============================================================================
