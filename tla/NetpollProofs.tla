---------------------------- MODULE NetpollProofs ----------------------------
(***************************************************************************)
(* Theorems about Netpoll, for any number of sockets and cancel handles    *)
(* and any bound on the clock.                                             *)
(***************************************************************************)
EXTENDS Netpoll, FiniteSetTheorems, TLAPS

\* The socket is closed, and it has dropped its reference.
Leaving == {"closing", "unref", "gone"}

\* An operation has recorded its deadline in the PollDesc.
Armed(p) == opc[p] \in {"link", "wait", "suspending", "parked", "blocked", "runnable",
                        "signalled", "reason"}

\* The cancel handles that hold a reference to p.
Held(p) == {h \in Handles : HandleOf[h] = p /\ hpc[h] \in {"live", "cancel", "inside"}}

\* The descriptor follows the owner; a handle is made for a socket that is open.
OwnerInv ==
  /\ \A p \in PDs : /\ fd[p] = "none" <=> opc[p] = "none"
                    /\ fd[p] = "closed" <=> opc[p] \in Leaving
  /\ \A h \in Handles : hpc[h] # "none" => opc[HandleOf[h]] # "none"

\* The registry lock belongs to the cancel or to the scan inside it.
RegistryInv ==
  /\ registry = Reactor <=> rpc = "walk"
  /\ \A h \in Handles : registry = h <=> hpc[h] \in {"cancel", "inside"}
  /\ todo # {} => rpc = "walk"

\* The batch lock covers the event buffer, and close drops its reference only
\* after the batch in which its PollDesc may occur.
BatchInv ==
  /\ batch = Reactor <=> rpc \in {"events", "next", "scan", "walk"}
  /\ events # {} => rpc \in {"events", "next"}
  /\ cur # NULL <=> rpc = "next"
  /\ \A e \in events : opc[e.pd] \notin {"none", "unref", "gone"}
  /\ cur # NULL => opc[cur] \notin {"none", "unref", "gone"}

\* On an open socket pd.lock is held by whoever is in a section under it.
PdLockInv ==
  /\ OpenLockGuards
  /\ rpc = "next" /\ fd[cur] = "open" => plock[cur] = Reactor

\* The reference count counts the socket and the handles.
RefInv ==
  \A p \in PDs :
    refcount[p] = (IF opc[p] \in {"none", "gone"} THEN 0 ELSE 1) + Cardinality(Held(p))

\* A PollDesc is allocated as long as it is referenced.
AllocInv == \A p \in PDs : p \in alloc <=> refcount[p] > 0

\* Only allocated PollDescs are on the registry and on the walk over it.
ListInv == linked \cup todo \subseteq alloc

\* A waiter is published exactly while its owner is parked.
SlotInv ==
  \A p \in PDs, d \in Dirs : slot[p][d] # NULL <=> Parked(p) /\ d = odir[p]

\* A cancelled PollDesc, and one with an armed deadline, is on the registry.
WatchInv ==
  \A p \in PDs :
    /\ cancelled[p] => opc[p] # "none"
    /\ cancelled[p] /\ p \in alloc => p \in linked
    /\ Armed(p) => deadline[p][odir[p]] = odl[p]
    /\ Armed(p) /\ opc[p] # "link" /\ odl[p] # 0 => p \in linked

\* The reason stored since the operation was armed is true.
ReasonInv ==
  /\ rnow <= now
  /\ \A p \in PDs : Armed(p) =>
       /\ reason[p][odir[p]] = "timeout" => odl[p] # 0 /\ now >= odl[p]
       /\ reason[p][odir[p]] = "cancelled" => cancelled[p]

ControlInv == OwnerInv /\ RegistryInv /\ BatchInv /\ PdLockInv

WaitInv == SlotInv /\ WatchInv /\ ReasonInv

Inv ==
  /\ TypeOK /\ ControlInv
  /\ RefInv /\ AllocInv /\ ListInv
  /\ WaitInv

-----------------------------------------------------------------------------
LEMMA InitInv == Init => Inv
  <1> SUFFICES ASSUME Init PROVE Inv  OBVIOUS
  <1> USE NetpollAssumption DEF Init
  <1>1. TypeOK
    <2>1. cancelled \in [PDs -> BOOLEAN] /\ down \in BOOLEAN
      BY Zenon
    <2>2. QED BY <2>1 DEF TypeOK, Dirs, Reasons, Times, Deadlines, OwnerStates
  <1>2. ControlInv
    BY DEF ControlInv, OwnerInv, RegistryInv, BatchInv, PdLockInv, OpenLockGuards, Leaving
  <1>3. \A p \in PDs : Held(p) = {}
    BY DEF Held
  <1>4. RefInv
    <2>1. \A p \in PDs : Cardinality(Held(p)) = 0
      BY <1>3, FS_EmptySet, Zenon
    <2>2. QED BY <2>1 DEF RefInv
  <1>5. AllocInv /\ ListInv
    BY DEF AllocInv, ListInv
  <1>6. WaitInv
    BY DEF WaitInv, SlotInv, WatchInv, ReasonInv, Armed, Parked, Dirs
  <1>7. QED BY <1>1, <1>2, <1>4, <1>5, <1>6 DEF Inv

\* The handles that hold a reference are finitely many, and the count knows of them.
LEMMA RefCounts ==
  ASSUME TypeOK, RefInv, NEW p \in PDs
  PROVE  /\ IsFiniteSet(Held(p))
         /\ Cardinality(Held(p)) \in Nat
         /\ opc[p] \notin {"none", "gone"} => refcount[p] > 0
         /\ \A h \in Held(p) : /\ refcount[p] > 0
                               /\ opc[p] \notin {"none", "gone"} => refcount[p] > 1
  <1>1. IsFiniteSet(Held(p))
    <2>1. Held(p) \subseteq Handles  BY DEF Held
    <2>2. QED BY <2>1, NetpollAssumption, FS_Subset
  <1>2. Cardinality(Held(p)) \in Nat
    BY <1>1, FS_CardinalityType
  <1>3. \A h \in Held(p) : Cardinality(Held(p)) # 0
    BY <1>1, FS_EmptySet
  <1>4. QED BY <1>1, <1>2, <1>3 DEF RefInv

\* A step that makes and drops no reference keeps the count right.
LEMMA RefFrame ==
  ASSUME RefInv, refcount' = refcount,
         \A p \in PDs : opc'[p] \in {"none", "gone"} <=> opc[p] \in {"none", "gone"},
         \A h \in Handles : hpc'[h] \in {"live", "cancel", "inside"} <=>
                            hpc[h] \in {"live", "cancel", "inside"}
  PROVE  RefInv'
  <1>1. \A p \in PDs : Held(p)' = Held(p)
    BY DEF Held
  <1>2. \A p \in PDs : Cardinality(Held(p))' = Cardinality(Held(p))
    BY <1>1
  <1>3. QED BY <1>2 DEF RefInv

\* A wake frees the waiter whose direction it is for, and nobody else.
LEMMA WakeEffect ==
  ASSUME TypeOK, SlotInv, NEW p \in PDs, NEW D \in SUBSET Dirs, NEW why \in Reasons,
         WakeSlots(p, D, why)
  PROVE  /\ slot' \in [PDs -> [Dirs -> {NULL, "G", "thread"}]]
         /\ reason' \in [PDs -> [Dirs -> Reasons]]
         /\ opc' \in [PDs -> OwnerStates]
         /\ \A r \in PDs : r # p => /\ slot'[r] = slot[r]
                                   /\ reason'[r] = reason[r]
                                   /\ opc'[r] = opc[r]
         /\ \/ /\ Parked(p) /\ odir[p] \in D
               /\ opc'[p] \in {"runnable", "signalled"}
               /\ \A d \in Dirs : slot'[p][d] = NULL
               /\ why = "ready" => reason'[p][odir[p]] = reason[p][odir[p]]
               /\ why # "ready" => reason'[p][odir[p]] = why
            \/ /\ ~Parked(p) \/ odir[p] \notin D
               /\ opc'[p] = opc[p]
               /\ \A d \in Dirs : slot'[p][d] = slot[p][d] /\ reason'[p][d] = reason[p][d]
  <1>1. slot' \in [PDs -> [Dirs -> {NULL, "G", "thread"}]]
    BY DEF TypeOK, WakeSlots, Waiting
  <1>2. reason' \in [PDs -> [Dirs -> Reasons]]
    BY DEF TypeOK, WakeSlots, Waiting
  <1>3. opc' \in [PDs -> OwnerStates]
    BY DEF TypeOK, WakeSlots, Waiting, OwnerStates
  <1>4. \A r \in PDs :
          r # p => slot'[r] = slot[r] /\ reason'[r] = reason[r] /\ opc'[r] = opc[r]
    BY DEF TypeOK, WakeSlots
  <1>5. CASE Parked(p) /\ odir[p] \in D
    <2>1. Waiting(p, D) = {odir[p]}
      BY <1>5 DEF Waiting, SlotInv, TypeOK
    <2>2. opc'[p] \in {"runnable", "signalled"}
      BY <1>5, <2>1 DEF WakeSlots, TypeOK, Parked
    <2>3. \A d \in Dirs : slot'[p][d] = NULL
      BY <2>1 DEF WakeSlots, TypeOK, SlotInv
    <2>4. /\ why = "ready" => reason'[p][odir[p]] = reason[p][odir[p]]
          /\ why # "ready" => reason'[p][odir[p]] = why
      BY <2>1 DEF WakeSlots, TypeOK
    <2>5. QED BY <1>1, <1>2, <1>3, <1>4, <1>5, <2>2, <2>3, <2>4
  <1>6. CASE ~(Parked(p) /\ odir[p] \in D)
    <2>1. Waiting(p, D) = {}
      BY <1>6 DEF Waiting, SlotInv, TypeOK
    <2>2. opc'[p] = opc[p]
      BY <2>1 DEF WakeSlots, TypeOK
    <2>3. \A d \in Dirs : slot'[p][d] = slot[p][d] /\ reason'[p][d] = reason[p][d]
      BY <2>1 DEF WakeSlots, TypeOK
    <2>4. QED BY <1>1, <1>2, <1>3, <1>4, <1>6, <2>2, <2>3
  <1>7. QED BY <1>5, <1>6

\* ... so a step with a wake leaves an owner alone or resumes it.
LEMMA WakeOwners ==
  ASSUME TypeOK, SlotInv, NEW p \in PDs, NEW D \in SUBSET Dirs, NEW why \in Reasons,
         WakeSlots(p, D, why), NEW r \in PDs
  PROVE  opc'[r] = opc[r] \/ (Parked(r) /\ opc'[r] \in {"runnable", "signalled"})
  <1>1. CASE r = p
    BY <1>1, WakeEffect
  <1>2. CASE r # p
    BY <1>2, WakeEffect
  <1>3. QED BY <1>1, <1>2

\* _park_ready's checks go on to the arm or return.
LEMMA CheckEffect ==
  ASSUME NEW p \in PDs, Check(p)
  PROVE  /\ opc[p] = "check"
         /\ Return(p) \/ (opc' = [opc EXCEPT ![p] = "arm"] /\ odir' = odir /\ odl' = odl)
         /\ UNCHANGED <<pdVars, lockVars, hpc, rxVars, envVars>>
  BY Zenon DEF Check

\* _park_ready after its wake goes round again or returns.
LEMMA ReasonEffect ==
  ASSUME TypeOK, NEW p \in PDs, WakeReason(p)
  PROVE  /\ opc[p] = "reason"
         /\ Return(p) \/ (opc' = [opc EXCEPT ![p] = "check"] /\ odir' = odir /\ odl' = odl)
         /\ ready' \in [PDs -> SUBSET Dirs]
         /\ UNCHANGED <<pdVars, lockVars, hpc, rxVars, now, down>>
  <1>1. ready' \in [PDs -> SUBSET Dirs]
    <2>1. ready' = ready \/ ready' = [ready EXCEPT ![p] = @ \ {odir[p]}]
      BY Zenon DEF WakeReason
    <2>2. CASE ready' = ready
      BY <2>2 DEF TypeOK
    <2>3. CASE ready' = [ready EXCEPT ![p] = @ \ {odir[p]}]
      BY <2>3 DEF TypeOK
    <2>4. QED BY <2>1, <2>2, <2>3
  <1>2. Return(p) \/ (opc' = [opc EXCEPT ![p] = "check"] /\ odir' = odir /\ odl' = odl)
    BY Zenon DEF WakeReason
  <1>3. opc[p] = "reason" /\ UNCHANGED <<pdVars, lockVars, hpc, rxVars, now, down>>
    BY Zenon DEF WakeReason
  <1>4. QED BY <1>1, <1>2, <1>3

\* A step keeps the types.
LEMMA TypeStep ==
  ASSUME TypeOK, RefInv, SlotInv, BatchInv, Next
  PROVE  TypeOK'
  <1>1. ASSUME NEW p \in PDs, OwnerStep(p) \/ OwnerBegins(p) PROVE TypeOK'
    <2>1. CASE Check(p)
      <3>1. UNCHANGED <<pdVars, lockVars, hpc, rxVars, envVars>> /\ opc[p] = "check"
        BY <2>1, CheckEffect
      <3>2. CASE Return(p)
        BY <3>1, <3>2, NetpollAssumption DEF Return, pdVars, lockVars, rxVars, envVars,
          TypeOK, Dirs, Reasons, Times, Deadlines, OwnerStates
      <3>3. CASE opc' = [opc EXCEPT ![p] = "arm"] /\ odir' = odir /\ odl' = odl
        BY <3>1, <3>3, NetpollAssumption DEF pdVars, lockVars, rxVars, envVars, TypeOK,
          Dirs, Reasons, Times, Deadlines, OwnerStates
      <3>4. QED BY <2>1, <3>2, <3>3, CheckEffect
    <2>2. CASE Arm(p)
      BY <2>2, NetpollAssumption DEF Arm, lockVars, rxVars, envVars, TypeOK, Dirs,
        Reasons, Times, Deadlines, OwnerStates
    <2>3. CASE Link(p)
      BY <2>3, NetpollAssumption DEF Link, lockVars, rxVars, envVars, TypeOK, Dirs,
        Reasons, Times, Deadlines, OwnerStates
    <2>4. CASE WaitG(p)
      BY <2>4, NetpollAssumption DEF WaitG, lockVars, rxVars, envVars, TypeOK, Dirs,
        Reasons, Times, Deadlines, OwnerStates
    <2>5. CASE Suspended(p)
      BY <2>5, NetpollAssumption DEF Suspended, lockVars, rxVars, envVars, TypeOK, Dirs,
        Reasons, Times, Deadlines, OwnerStates
    <2>6. CASE ResumeG(p)
      BY <2>6, NetpollAssumption DEF ResumeG, pdVars, lockVars, rxVars, envVars, TypeOK,
        Dirs, Reasons, Times, Deadlines, OwnerStates
    <2>7. CASE WaitThread(p)
      BY <2>7, NetpollAssumption DEF WaitThread, lockVars, rxVars, envVars, TypeOK, Dirs,
        Reasons, Times, Deadlines, OwnerStates
    <2>8. CASE ResumeThread(p)
      BY <2>8, NetpollAssumption DEF ResumeThread, FromCondWait, lockVars, rxVars,
        envVars, TypeOK, Dirs, Reasons, Times, Deadlines, OwnerStates
    <2>9. CASE WakeReason(p)
      <3>1. /\ UNCHANGED <<pdVars, lockVars, hpc, rxVars, now, down>>
            /\ ready' \in [PDs -> SUBSET Dirs]
        BY <2>9, ReasonEffect
      <3>2. CASE Return(p)
        BY <3>1, <3>2, NetpollAssumption DEF Return, pdVars, lockVars, rxVars, TypeOK,
          Dirs, Reasons, Times, Deadlines, OwnerStates
      <3>3. CASE opc' = [opc EXCEPT ![p] = "check"] /\ odir' = odir /\ odl' = odl
        BY <3>1, <3>3 DEF pdVars, lockVars, rxVars, TypeOK, OwnerStates
      <3>4. QED BY <2>9, <3>2, <3>3, ReasonEffect
    <2>10. CASE DrainBatch(p)
      BY <2>10, NetpollAssumption DEF DrainBatch, pdVars, lockVars, rxVars, envVars,
        TypeOK, Dirs, Reasons, Times, Deadlines, OwnerStates
    <2>11. CASE CloseUnref(p)
      <3>1. refcount[p] > 0
        BY <2>11, RefCounts DEF CloseUnref
      <3>2. QED BY <2>11, <3>1 DEF CloseUnref, Unref, lockVars, rxVars, envVars, TypeOK,
        Dirs, Reasons, Times, Deadlines, OwnerStates
    <2>12. CASE Open(p)
      BY <2>12, NetpollAssumption DEF Open, lockVars, rxVars, envVars, TypeOK, Dirs,
        Reasons, Times, Deadlines, OwnerStates
    <2>13. CASE \E d \in Dirs : Transfer(p, d)
      BY <2>13, NetpollAssumption DEF Transfer, pdVars, lockVars, ownerVars, rxVars,
        TypeOK, Dirs, Reasons, Times, Deadlines, OwnerStates
    <2>14. CASE \E d \in Dirs, dl \in Deadlines : WouldBlock(p, d, dl)
      BY <2>14, NetpollAssumption DEF WouldBlock, pdVars, lockVars, rxVars, envVars,
        TypeOK, Dirs, Reasons, Times, Deadlines, OwnerStates
    <2>15. CASE Close(p)
      BY <2>15, NetpollAssumption DEF Close, Waiting, lockVars, rxVars, envVars, TypeOK,
        Dirs, Reasons, Times, Deadlines, OwnerStates
    <2>16. CASE SpuriousWake(p)
      BY <2>16, NetpollAssumption DEF SpuriousWake, FromCondWait, lockVars, rxVars,
        envVars, TypeOK, Dirs, Reasons, Times, Deadlines, OwnerStates
    <2>17. QED BY <1>1, <2>1, <2>2, <2>3, <2>4, <2>5, <2>6, <2>7, <2>8, <2>9, <2>10,
      <2>11, <2>12, <2>13, <2>14, <2>15, <2>16 DEF OwnerStep, OwnerBegins
  <1>2. ASSUME NEW h \in Handles, HandleStep(h) \/ HandleBegins(h) PROVE TypeOK'
    <2>1. CASE Cancel(h)
      <3>1. HandleOf[h] \in PDs
        BY NetpollAssumption
      <3>2. WakeSlots(HandleOf[h], Dirs, "cancelled") /\ "cancelled" \in Reasons
        BY <2>1 DEF Cancel, Reasons
      <3>3. /\ slot' \in [PDs -> [Dirs -> {NULL, "G", "thread"}]]
            /\ reason' \in [PDs -> [Dirs -> Reasons]]
            /\ opc' \in [PDs -> OwnerStates]
        BY <3>1, <3>2, WakeEffect
      <3>4. cancelled' \in [PDs -> BOOLEAN]
        BY <2>1, <3>1 DEF Cancel, TypeOK
      <3>5. plock' \in [PDs -> {NULL, Reactor} \cup PDs \cup Handles]
        BY <2>1, <3>1 DEF Cancel, TypeOK
      <3>6. hpc' \in [Handles -> {"none", "live", "cancel", "inside", "dropped"}]
        BY <2>1 DEF Cancel, TypeOK
      <3>7. linked' \subseteq PDs
        BY <2>1, <3>1 DEF Cancel, TypeOK
      <3>8. QED BY <2>1, <3>3, <3>4, <3>5, <3>6, <3>7 DEF Cancel, lockVars, rxVars,
        envVars, TypeOK
    <2>2. CASE CancelLeave(h)
      BY <2>2, NetpollAssumption DEF CancelLeave, ownerVars, rxVars, envVars, TypeOK,
        Dirs, Reasons, Times, Deadlines, OwnerStates
    <2>3. CASE Ref(h)
      <3>1. HandleOf[h] \in PDs
        BY NetpollAssumption
      <3>2. QED BY <2>3, <3>1 DEF Ref, lockVars, ownerVars, rxVars, envVars, TypeOK, Dirs,
        Reasons, Times, Deadlines, OwnerStates
    <2>4. CASE CancelRegistry(h)
      BY <2>4, NetpollAssumption DEF CancelRegistry, pdVars, ownerVars, rxVars, envVars,
        TypeOK, Dirs, Reasons, Times, Deadlines, OwnerStates
    <2>5. CASE DropHandle(h)
      <3>1. HandleOf[h] \in PDs /\ h \in Held(HandleOf[h])
        BY <2>5, NetpollAssumption DEF DropHandle, Held
      <3>2. refcount[HandleOf[h]] > 0
        BY <3>1, RefCounts
      <3>3. QED BY <2>5, <3>1, <3>2 DEF DropHandle, Unref, lockVars, ownerVars, rxVars,
        envVars, TypeOK, Dirs, Reasons, Times, Deadlines, OwnerStates
    <2>6. QED BY <1>2, <2>1, <2>2, <2>3, <2>4, <2>5 DEF HandleStep, HandleBegins
  <1>3. CASE ReactorStep
    <2>1. CASE Poll
      BY <2>1, NetpollAssumption DEF Poll, pdVars, ownerVars, envVars, TypeOK, Dirs,
        Reasons, Times, Deadlines, OwnerStates
    <2>2. CASE \E e \in events : Event(e)
      <3>1. PICK e \in events : Event(e)
        BY <2>2
      <3>2. e.pd \in PDs /\ e.dirs \in SUBSET Dirs
        BY <3>1 DEF TypeOK
      <3>3. CASE fd[e.pd] = "closed"
        BY <3>1, <3>2, <3>3, NetpollAssumption DEF Event, lockVars, envVars, TypeOK
      <3>4. CASE fd[e.pd] # "closed"
        <4>1. /\ WakeSlots(e.pd, e.dirs, "ready") /\ "ready" \in Reasons
              /\ plock' = [plock EXCEPT ![e.pd] = Reactor]
          BY <3>1, <3>4 DEF Event, Reasons
        <4>2. /\ slot' \in [PDs -> [Dirs -> {NULL, "G", "thread"}]]
              /\ reason' \in [PDs -> [Dirs -> Reasons]]
              /\ opc' \in [PDs -> OwnerStates]
          BY <3>2, <4>1, WakeEffect
        <4>3. plock' \in [PDs -> {NULL, Reactor} \cup PDs \cup Handles]
          BY <3>2, <4>1 DEF TypeOK
        <4>4. QED BY <3>1, <3>2, <4>2, <4>3 DEF Event, lockVars, envVars, TypeOK
      <3>5. QED BY <3>3, <3>4
    <2>3. CASE EventNext
      BY <2>3, NetpollAssumption DEF EventNext, lockVars, ownerVars, envVars, TypeOK,
        Dirs, Reasons, Times, Deadlines, OwnerStates
    <2>4. CASE ScanNow
      BY <2>4, NetpollAssumption DEF ScanNow, pdVars, lockVars, ownerVars, envVars,
        TypeOK, Dirs, Reasons, Times, Deadlines, OwnerStates
    <2>5. CASE ScanLock
      BY <2>5, NetpollAssumption DEF ScanLock, pdVars, ownerVars, envVars, TypeOK, Dirs,
        Reasons, Times, Deadlines, OwnerStates
    <2>6. CASE \E p \in todo : ScanOne(p)
      <3>1. PICK p \in todo : ScanOne(p)
        BY <2>6
      <3>2. p \in PDs /\ Expired(p) \in SUBSET Dirs
        BY <3>1 DEF TypeOK, Expired
      <3>3. \/ cancelled[p] /\ WakeSlots(p, Dirs, "cancelled")
            \/ ~cancelled[p] /\ WakeSlots(p, Expired(p), "timeout")
        BY <3>1, Zenon DEF ScanOne
      <3>4. /\ slot' \in [PDs -> [Dirs -> {NULL, "G", "thread"}]]
            /\ reason' \in [PDs -> [Dirs -> Reasons]]
            /\ opc' \in [PDs -> OwnerStates]
        BY <3>2, <3>3, WakeEffect DEF Reasons
      <3>5. linked' \subseteq PDs /\ todo' \subseteq PDs
        BY <3>1 DEF ScanOne, TypeOK
      <3>6. QED BY <3>1, <3>4, <3>5 DEF ScanOne, lockVars, envVars, TypeOK
    <2>7. CASE ScanDone
      BY <2>7, NetpollAssumption DEF ScanDone, pdVars, ownerVars, envVars, TypeOK, Dirs,
        Reasons, Times, Deadlines, OwnerStates
    <2>8. CASE ReactorExit
      BY <2>8, NetpollAssumption DEF ReactorExit, pdVars, lockVars, ownerVars, envVars,
        TypeOK, Dirs, Reasons, Times, Deadlines, OwnerStates
    <2>9. QED BY <1>3, <2>1, <2>2, <2>3, <2>4, <2>5, <2>6, <2>7, <2>8 DEF ReactorStep
  <1>4. CASE Environment
    <2>1. CASE \E p \in PDs, d \in Dirs : BecomeReady(p, d)
      BY <2>1, NetpollAssumption DEF BecomeReady, pdVars, lockVars, ownerVars, rxVars,
        TypeOK, Dirs, Reasons, Times, Deadlines, OwnerStates
    <2>2. CASE Tick
      BY <2>2, NetpollAssumption DEF Tick, pdVars, lockVars, ownerVars, rxVars, TypeOK,
        Dirs, Reasons, Times, Deadlines, OwnerStates
    <2>3. CASE Shutdown
      BY <2>3, NetpollAssumption DEF Shutdown, pdVars, lockVars, ownerVars, rxVars,
        TypeOK, Dirs, Reasons, Times, Deadlines, OwnerStates
    <2>4. QED BY <1>4, <2>1, <2>2, <2>3 DEF Environment
  <1>5. QED BY <1>1, <1>2, <1>3, <1>4 DEF Next

\* A step keeps the descriptor and the owner together.
LEMMA OwnerStepInv ==
  ASSUME TypeOK, OwnerInv, SlotInv, Next
  PROVE  OwnerInv'
  <1>1. ASSUME NEW p \in PDs, OwnerStep(p) \/ OwnerBegins(p) PROVE OwnerInv'
    <2>1. CASE Check(p)
      <3>1. UNCHANGED <<pdVars, lockVars, hpc, rxVars, envVars>> /\ opc[p] = "check"
        BY <2>1, CheckEffect
      <3>2. CASE Return(p)
        BY <3>1, <3>2, NetpollAssumption DEF Return, pdVars, lockVars, rxVars, envVars,
          TypeOK, OwnerStates, OwnerInv, Leaving
      <3>3. CASE opc' = [opc EXCEPT ![p] = "arm"] /\ odir' = odir /\ odl' = odl
        BY <3>1, <3>3, NetpollAssumption DEF pdVars, lockVars, rxVars, envVars, TypeOK,
          OwnerStates, OwnerInv, Leaving
      <3>4. QED BY <2>1, <3>2, <3>3, CheckEffect
    <2>2. CASE Arm(p)
      BY <2>2, NetpollAssumption DEF Arm, lockVars, rxVars, envVars, TypeOK, OwnerStates,
        OwnerInv, Leaving
    <2>3. CASE Link(p)
      BY <2>3, NetpollAssumption DEF Link, lockVars, rxVars, envVars, TypeOK, OwnerStates,
        OwnerInv, Leaving
    <2>4. CASE WaitG(p)
      BY <2>4, NetpollAssumption DEF WaitG, lockVars, rxVars, envVars, TypeOK,
        OwnerStates, OwnerInv, Leaving
    <2>5. CASE Suspended(p)
      BY <2>5, NetpollAssumption DEF Suspended, lockVars, rxVars, envVars, TypeOK,
        OwnerStates, OwnerInv, Leaving
    <2>6. CASE ResumeG(p)
      BY <2>6, NetpollAssumption DEF ResumeG, pdVars, lockVars, rxVars, envVars, TypeOK,
        OwnerStates, OwnerInv, Leaving
    <2>7. CASE WaitThread(p)
      BY <2>7, NetpollAssumption DEF WaitThread, lockVars, rxVars, envVars, TypeOK,
        OwnerStates, OwnerInv, Leaving
    <2>8. CASE ResumeThread(p)
      BY <2>8, NetpollAssumption DEF ResumeThread, FromCondWait, lockVars, rxVars,
        envVars, TypeOK, OwnerStates, OwnerInv, Leaving
    <2>9. CASE WakeReason(p)
      <3>1. UNCHANGED <<pdVars, lockVars, hpc, rxVars, now, down>> /\ opc[p] = "reason"
        BY <2>9, ReasonEffect
      <3>2. CASE Return(p)
        BY <3>1, <3>2, NetpollAssumption DEF Return, pdVars, lockVars, rxVars, envVars,
          TypeOK, OwnerStates, OwnerInv, Leaving
      <3>3. CASE opc' = [opc EXCEPT ![p] = "check"] /\ odir' = odir /\ odl' = odl
        BY <3>1, <3>3, NetpollAssumption DEF pdVars, lockVars, rxVars, envVars, TypeOK,
          OwnerStates, OwnerInv, Leaving
      <3>4. QED BY <2>9, <3>2, <3>3, ReasonEffect
    <2>10. CASE DrainBatch(p)
      BY <2>10, NetpollAssumption DEF DrainBatch, pdVars, lockVars, rxVars, envVars,
        TypeOK, OwnerStates, OwnerInv, Leaving
    <2>11. CASE CloseUnref(p)
      BY <2>11, NetpollAssumption DEF CloseUnref, Unref, lockVars, rxVars, envVars,
        TypeOK, OwnerStates, OwnerInv, Leaving
    <2>12. CASE Open(p)
      BY <2>12, NetpollAssumption DEF Open, lockVars, rxVars, envVars, TypeOK,
        OwnerStates, OwnerInv, Leaving
    <2>13. CASE \E d \in Dirs : Transfer(p, d)
      BY <2>13, NetpollAssumption DEF Transfer, pdVars, lockVars, ownerVars, rxVars,
        TypeOK, OwnerStates, OwnerInv, Leaving
    <2>14. CASE \E d \in Dirs, dl \in Deadlines : WouldBlock(p, d, dl)
      BY <2>14, NetpollAssumption DEF WouldBlock, pdVars, lockVars, rxVars, envVars,
        TypeOK, OwnerStates, OwnerInv, Leaving
    <2>15. CASE Close(p)
      BY <2>15, NetpollAssumption DEF Close, Waiting, lockVars, rxVars, envVars, TypeOK,
        OwnerStates, OwnerInv, Leaving
    <2>16. CASE SpuriousWake(p)
      BY <2>16, NetpollAssumption DEF SpuriousWake, FromCondWait, lockVars, rxVars,
        envVars, TypeOK, OwnerStates, OwnerInv, Leaving
    <2>17. QED BY <1>1, <2>1, <2>2, <2>3, <2>4, <2>5, <2>6, <2>7, <2>8, <2>9, <2>10,
      <2>11, <2>12, <2>13, <2>14, <2>15, <2>16 DEF OwnerStep, OwnerBegins
  <1>2. ASSUME NEW h \in Handles, HandleStep(h) \/ HandleBegins(h) PROVE OwnerInv'
    <2>1. CASE Cancel(h)
      <3>1. HandleOf[h] \in PDs
        BY NetpollAssumption
      <3>2. WakeSlots(HandleOf[h], Dirs, "cancelled") /\ "cancelled" \in Reasons
        BY <2>1 DEF Cancel, Reasons
      <3>4. \A r \in PDs :
              opc'[r] = opc[r] \/ (Parked(r) /\ opc'[r] \in {"runnable", "signalled"})
        BY <3>1, <3>2, WakeOwners
      <3>5. \A r \in PDs : /\ fd'[r] = "none" <=> opc'[r] = "none"
                           /\ fd'[r] = "closed" <=> opc'[r] \in Leaving
        BY <2>1, <3>4 DEF Cancel, TypeOK, OwnerStates, OwnerInv, Leaving, Parked
      <3>6. \A g \in Handles : hpc'[g] # "none" => hpc[g] # "none"
        BY <2>1 DEF Cancel, TypeOK
      <3>7. \A g \in Handles : hpc'[g] # "none" => opc'[HandleOf[g]] # "none"
        BY <3>4, <3>6, NetpollAssumption DEF OwnerInv, Parked
      <3>8. QED BY <3>5, <3>7 DEF OwnerInv
    <2>2. CASE CancelLeave(h)
      BY <2>2, NetpollAssumption DEF CancelLeave, ownerVars, rxVars, envVars, TypeOK,
        OwnerStates, OwnerInv, Leaving
    <2>3. CASE Ref(h)
      BY <2>3, NetpollAssumption DEF Ref, lockVars, ownerVars, rxVars, envVars, TypeOK,
        OwnerStates, OwnerInv, Leaving
    <2>4. CASE CancelRegistry(h)
      BY <2>4, NetpollAssumption DEF CancelRegistry, pdVars, ownerVars, rxVars, envVars,
        TypeOK, OwnerStates, OwnerInv, Leaving
    <2>5. CASE DropHandle(h)
      BY <2>5, NetpollAssumption DEF DropHandle, Unref, lockVars, ownerVars, rxVars,
        envVars, TypeOK, OwnerStates, OwnerInv, Leaving
    <2>6. QED BY <1>2, <2>1, <2>2, <2>3, <2>4, <2>5 DEF HandleStep, HandleBegins
  <1>3. CASE ReactorStep
    <2>1. CASE Poll
      BY <2>1, NetpollAssumption DEF Poll, pdVars, ownerVars, envVars, TypeOK,
        OwnerStates, OwnerInv, Leaving
    <2>2. CASE \E e \in events : Event(e)
      <3>1. PICK e \in events : Event(e)
        BY <2>2
      <3>2. e.pd \in PDs /\ e.dirs \in SUBSET Dirs
        BY <3>1 DEF TypeOK
      <3>3. CASE fd[e.pd] = "closed"
        BY <3>1, <3>2, <3>3, NetpollAssumption DEF Event, lockVars, envVars, TypeOK,
          OwnerStates, OwnerInv, Leaving
      <3>4. CASE fd[e.pd] # "closed"
        <4>1. /\ WakeSlots(e.pd, e.dirs, "ready") /\ "ready" \in Reasons
              /\ plock' = [plock EXCEPT ![e.pd] = Reactor]
          BY <3>1, <3>4 DEF Event, Reasons
        <4>2. \A r \in PDs :
                opc'[r] = opc[r] \/ (Parked(r) /\ opc'[r] \in {"runnable", "signalled"})
          BY <3>2, <4>1, WakeOwners
        <4>3. QED BY <3>1, <3>2, <3>4, <4>1, <4>2, NetpollAssumption DEF Event, lockVars,
          envVars, TypeOK, OwnerStates, OwnerInv, Leaving, Parked
      <3>5. QED BY <3>3, <3>4
    <2>3. CASE EventNext
      BY <2>3, NetpollAssumption DEF EventNext, lockVars, ownerVars, envVars, TypeOK,
        OwnerStates, OwnerInv, Leaving
    <2>4. CASE ScanNow
      BY <2>4, NetpollAssumption DEF ScanNow, pdVars, lockVars, ownerVars, envVars,
        TypeOK, OwnerStates, OwnerInv, Leaving
    <2>5. CASE ScanLock
      BY <2>5, NetpollAssumption DEF ScanLock, pdVars, ownerVars, envVars, TypeOK,
        OwnerStates, OwnerInv, Leaving
    <2>6. CASE \E p \in todo : ScanOne(p)
      <3>1. PICK p \in todo : ScanOne(p)
        BY <2>6
      <3>2. p \in PDs /\ Expired(p) \in SUBSET Dirs
        BY <3>1 DEF TypeOK, Expired
      <3>3. \/ cancelled[p] /\ WakeSlots(p, Dirs, "cancelled")
            \/ ~cancelled[p] /\ WakeSlots(p, Expired(p), "timeout")
        BY <3>1, Zenon DEF ScanOne
      <3>4. \A r \in PDs :
              opc'[r] = opc[r] \/ (Parked(r) /\ opc'[r] \in {"runnable", "signalled"})
        BY <3>2, <3>3, WakeOwners DEF Reasons
      <3>5. QED BY <3>1, <3>2, <3>4, NetpollAssumption DEF ScanOne, lockVars, envVars,
        TypeOK, OwnerStates, OwnerInv, Leaving, Parked
    <2>7. CASE ScanDone
      BY <2>7, NetpollAssumption DEF ScanDone, pdVars, ownerVars, envVars, TypeOK,
        OwnerStates, OwnerInv, Leaving
    <2>8. CASE ReactorExit
      BY <2>8, NetpollAssumption DEF ReactorExit, pdVars, lockVars, ownerVars, envVars,
        TypeOK, OwnerStates, OwnerInv, Leaving
    <2>9. QED BY <1>3, <2>1, <2>2, <2>3, <2>4, <2>5, <2>6, <2>7, <2>8 DEF ReactorStep
  <1>4. CASE Environment
    <2>1. CASE \E p \in PDs, d \in Dirs : BecomeReady(p, d)
      BY <2>1, NetpollAssumption DEF BecomeReady, pdVars, lockVars, ownerVars, rxVars,
        TypeOK, OwnerStates, OwnerInv, Leaving
    <2>2. CASE Tick
      BY <2>2, NetpollAssumption DEF Tick, pdVars, lockVars, ownerVars, rxVars, TypeOK,
        OwnerStates, OwnerInv, Leaving
    <2>3. CASE Shutdown
      BY <2>3, NetpollAssumption DEF Shutdown, pdVars, lockVars, ownerVars, rxVars,
        TypeOK, OwnerStates, OwnerInv, Leaving
    <2>4. QED BY <1>4, <2>1, <2>2, <2>3 DEF Environment
  <1>5. QED BY <1>1, <1>2, <1>3, <1>4 DEF Next

\* A step takes and releases the registry lock where it enters and leaves its section.
LEMMA RegistryStep ==
  ASSUME TypeOK, RegistryInv, Next
  PROVE  RegistryInv'
  <1>1. ASSUME NEW p \in PDs, OwnerStep(p) \/ OwnerBegins(p) PROVE RegistryInv'
    <2>1. CASE Check(p)
      BY <2>1, NetpollAssumption DEF Check, Return, pdVars, lockVars, rxVars, envVars,
        TypeOK, RegistryInv
    <2>2. CASE Arm(p)
      BY <2>2, NetpollAssumption DEF Arm, lockVars, rxVars, envVars, TypeOK, RegistryInv
    <2>3. CASE Link(p)
      BY <2>3, NetpollAssumption DEF Link, lockVars, rxVars, envVars, TypeOK, RegistryInv
    <2>4. CASE WaitG(p)
      BY <2>4, NetpollAssumption DEF WaitG, lockVars, rxVars, envVars, TypeOK, RegistryInv
    <2>5. CASE Suspended(p)
      BY <2>5, NetpollAssumption DEF Suspended, lockVars, rxVars, envVars, TypeOK,
        RegistryInv
    <2>6. CASE ResumeG(p)
      BY <2>6, NetpollAssumption DEF ResumeG, pdVars, lockVars, rxVars, envVars, TypeOK,
        RegistryInv
    <2>7. CASE WaitThread(p)
      BY <2>7, NetpollAssumption DEF WaitThread, lockVars, rxVars, envVars, TypeOK,
        RegistryInv
    <2>8. CASE ResumeThread(p)
      BY <2>8, NetpollAssumption DEF ResumeThread, FromCondWait, lockVars, rxVars,
        envVars, TypeOK, RegistryInv
    <2>9. CASE WakeReason(p)
      BY <2>9, NetpollAssumption DEF WakeReason, Return, pdVars, lockVars, rxVars, TypeOK,
        RegistryInv
    <2>10. CASE DrainBatch(p)
      BY <2>10, NetpollAssumption DEF DrainBatch, pdVars, lockVars, rxVars, envVars,
        TypeOK, RegistryInv
    <2>11. CASE CloseUnref(p)
      BY <2>11, NetpollAssumption DEF CloseUnref, Unref, lockVars, rxVars, envVars,
        TypeOK, RegistryInv
    <2>12. CASE Open(p)
      BY <2>12, NetpollAssumption DEF Open, lockVars, rxVars, envVars, TypeOK, RegistryInv
    <2>13. CASE \E d \in Dirs : Transfer(p, d)
      BY <2>13, NetpollAssumption DEF Transfer, pdVars, lockVars, ownerVars, rxVars,
        TypeOK, RegistryInv
    <2>14. CASE \E d \in Dirs, dl \in Deadlines : WouldBlock(p, d, dl)
      BY <2>14, NetpollAssumption DEF WouldBlock, pdVars, lockVars, rxVars, envVars,
        TypeOK, RegistryInv
    <2>15. CASE Close(p)
      BY <2>15, NetpollAssumption DEF Close, Waiting, lockVars, rxVars, envVars, TypeOK,
        RegistryInv
    <2>16. CASE SpuriousWake(p)
      BY <2>16, NetpollAssumption DEF SpuriousWake, FromCondWait, lockVars, rxVars,
        envVars, TypeOK, RegistryInv
    <2>17. QED BY <1>1, <2>1, <2>2, <2>3, <2>4, <2>5, <2>6, <2>7, <2>8, <2>9, <2>10,
      <2>11, <2>12, <2>13, <2>14, <2>15, <2>16 DEF OwnerStep, OwnerBegins
  <1>2. ASSUME NEW h \in Handles, HandleStep(h) \/ HandleBegins(h) PROVE RegistryInv'
    <2>1. CASE Cancel(h)
      BY <2>1, NetpollAssumption DEF Cancel, WakeSlots, Waiting, lockVars, rxVars,
        envVars, TypeOK, RegistryInv
    <2>2. CASE CancelLeave(h)
      BY <2>2, NetpollAssumption DEF CancelLeave, ownerVars, rxVars, envVars, TypeOK,
        RegistryInv
    <2>3. CASE Ref(h)
      BY <2>3, NetpollAssumption DEF Ref, lockVars, ownerVars, rxVars, envVars, TypeOK,
        RegistryInv
    <2>4. CASE CancelRegistry(h)
      BY <2>4, NetpollAssumption DEF CancelRegistry, pdVars, ownerVars, rxVars, envVars,
        TypeOK, RegistryInv
    <2>5. CASE DropHandle(h)
      BY <2>5, NetpollAssumption DEF DropHandle, Unref, lockVars, ownerVars, rxVars,
        envVars, TypeOK, RegistryInv
    <2>6. QED BY <1>2, <2>1, <2>2, <2>3, <2>4, <2>5 DEF HandleStep, HandleBegins
  <1>3. CASE ReactorStep
    <2>1. CASE Poll
      BY <2>1, NetpollAssumption DEF Poll, pdVars, ownerVars, envVars, TypeOK, RegistryInv
    <2>2. CASE \E e \in events : Event(e)
      BY <2>2, NetpollAssumption DEF Event, WakeSlots, Waiting, lockVars, envVars, TypeOK,
        RegistryInv
    <2>3. CASE EventNext
      BY <2>3, NetpollAssumption DEF EventNext, lockVars, ownerVars, envVars, TypeOK,
        RegistryInv
    <2>4. CASE ScanNow
      BY <2>4, NetpollAssumption DEF ScanNow, pdVars, lockVars, ownerVars, envVars,
        TypeOK, RegistryInv
    <2>5. CASE ScanLock
      BY <2>5, NetpollAssumption DEF ScanLock, pdVars, ownerVars, envVars, TypeOK,
        RegistryInv
    <2>6. CASE \E p \in todo : ScanOne(p)
      BY <2>6, NetpollAssumption DEF ScanOne, WakeSlots, Waiting, Expired, lockVars,
        envVars, TypeOK, RegistryInv
    <2>7. CASE ScanDone
      BY <2>7, NetpollAssumption DEF ScanDone, pdVars, ownerVars, envVars, TypeOK,
        RegistryInv
    <2>8. CASE ReactorExit
      BY <2>8, NetpollAssumption DEF ReactorExit, pdVars, lockVars, ownerVars, envVars,
        TypeOK, RegistryInv
    <2>9. QED BY <1>3, <2>1, <2>2, <2>3, <2>4, <2>5, <2>6, <2>7, <2>8 DEF ReactorStep
  <1>4. CASE Environment
    <2>1. CASE \E p \in PDs, d \in Dirs : BecomeReady(p, d)
      BY <2>1, NetpollAssumption DEF BecomeReady, pdVars, lockVars, ownerVars, rxVars,
        TypeOK, RegistryInv
    <2>2. CASE Tick
      BY <2>2, NetpollAssumption DEF Tick, pdVars, lockVars, ownerVars, rxVars, TypeOK,
        RegistryInv
    <2>3. CASE Shutdown
      BY <2>3, NetpollAssumption DEF Shutdown, pdVars, lockVars, ownerVars, rxVars,
        TypeOK, RegistryInv
    <2>4. QED BY <1>4, <2>1, <2>2, <2>3 DEF Environment
  <1>5. QED BY <1>1, <1>2, <1>3, <1>4 DEF Next

\* A step keeps what the event buffer points to in place.
LEMMA BatchStep ==
  ASSUME TypeOK, OwnerInv, BatchInv, Next
  PROVE  BatchInv'
  <1>1. ASSUME NEW p \in PDs, OwnerStep(p) \/ OwnerBegins(p) PROVE BatchInv'
    <2>1. CASE Check(p)
      BY <2>1, NetpollAssumption DEF Check, Return, pdVars, lockVars, rxVars, envVars,
        TypeOK, OwnerStates, BatchInv
    <2>2. CASE Arm(p)
      BY <2>2, NetpollAssumption DEF Arm, lockVars, rxVars, envVars, TypeOK, OwnerStates,
        BatchInv
    <2>3. CASE Link(p)
      BY <2>3, NetpollAssumption DEF Link, lockVars, rxVars, envVars, TypeOK, OwnerStates,
        BatchInv
    <2>4. CASE WaitG(p)
      BY <2>4, NetpollAssumption DEF WaitG, lockVars, rxVars, envVars, TypeOK,
        OwnerStates, BatchInv
    <2>5. CASE Suspended(p)
      BY <2>5, NetpollAssumption DEF Suspended, lockVars, rxVars, envVars, TypeOK,
        OwnerStates, BatchInv
    <2>6. CASE ResumeG(p)
      BY <2>6, NetpollAssumption DEF ResumeG, pdVars, lockVars, rxVars, envVars, TypeOK,
        OwnerStates, BatchInv
    <2>7. CASE WaitThread(p)
      BY <2>7, NetpollAssumption DEF WaitThread, lockVars, rxVars, envVars, TypeOK,
        OwnerStates, BatchInv
    <2>8. CASE ResumeThread(p)
      BY <2>8, NetpollAssumption DEF ResumeThread, FromCondWait, lockVars, rxVars,
        envVars, TypeOK, OwnerStates, BatchInv
    <2>9. CASE WakeReason(p)
      BY <2>9, NetpollAssumption DEF WakeReason, Return, pdVars, lockVars, rxVars, TypeOK,
        OwnerStates, BatchInv
    <2>10. CASE DrainBatch(p)
      BY <2>10, NetpollAssumption DEF DrainBatch, pdVars, lockVars, rxVars, envVars,
        TypeOK, OwnerStates, BatchInv
    <2>11. CASE CloseUnref(p)
      BY <2>11, NetpollAssumption DEF CloseUnref, Unref, lockVars, rxVars, envVars,
        TypeOK, OwnerStates, BatchInv
    <2>12. CASE Open(p)
      BY <2>12, NetpollAssumption DEF Open, lockVars, rxVars, envVars, TypeOK,
        OwnerStates, BatchInv
    <2>13. CASE \E d \in Dirs : Transfer(p, d)
      BY <2>13, NetpollAssumption DEF Transfer, pdVars, lockVars, ownerVars, rxVars,
        TypeOK, OwnerStates, BatchInv
    <2>14. CASE \E d \in Dirs, dl \in Deadlines : WouldBlock(p, d, dl)
      BY <2>14, NetpollAssumption DEF WouldBlock, pdVars, lockVars, rxVars, envVars,
        TypeOK, OwnerStates, BatchInv
    <2>15. CASE Close(p)
      BY <2>15, NetpollAssumption DEF Close, Waiting, lockVars, rxVars, envVars, TypeOK,
        OwnerStates, BatchInv
    <2>16. CASE SpuriousWake(p)
      BY <2>16, NetpollAssumption DEF SpuriousWake, FromCondWait, lockVars, rxVars,
        envVars, TypeOK, OwnerStates, BatchInv
    <2>17. QED BY <1>1, <2>1, <2>2, <2>3, <2>4, <2>5, <2>6, <2>7, <2>8, <2>9, <2>10,
      <2>11, <2>12, <2>13, <2>14, <2>15, <2>16 DEF OwnerStep, OwnerBegins
  <1>2. ASSUME NEW h \in Handles, HandleStep(h) \/ HandleBegins(h) PROVE BatchInv'
    <2>1. CASE Cancel(h)
      BY <2>1, NetpollAssumption DEF Cancel, WakeSlots, Waiting, lockVars, rxVars,
        envVars, TypeOK, OwnerStates, BatchInv
    <2>2. CASE CancelLeave(h)
      BY <2>2, NetpollAssumption DEF CancelLeave, ownerVars, rxVars, envVars, TypeOK,
        OwnerStates, BatchInv
    <2>3. CASE Ref(h)
      BY <2>3, NetpollAssumption DEF Ref, lockVars, ownerVars, rxVars, envVars, TypeOK,
        OwnerStates, BatchInv
    <2>4. CASE CancelRegistry(h)
      BY <2>4, NetpollAssumption DEF CancelRegistry, pdVars, ownerVars, rxVars, envVars,
        TypeOK, OwnerStates, BatchInv
    <2>5. CASE DropHandle(h)
      BY <2>5, NetpollAssumption DEF DropHandle, Unref, lockVars, ownerVars, rxVars,
        envVars, TypeOK, OwnerStates, BatchInv
    <2>6. QED BY <1>2, <2>1, <2>2, <2>3, <2>4, <2>5 DEF HandleStep, HandleBegins
  <1>3. CASE ReactorStep
    <2>1. CASE Poll
      BY <2>1, NetpollAssumption DEF Poll, pdVars, ownerVars, envVars, TypeOK,
        OwnerStates, BatchInv, OwnerInv, Leaving
    <2>2. CASE \E e \in events : Event(e)
      BY <2>2, NetpollAssumption DEF Event, WakeSlots, Waiting, lockVars, envVars, TypeOK,
        OwnerStates, BatchInv
    <2>3. CASE EventNext
      BY <2>3, NetpollAssumption DEF EventNext, lockVars, ownerVars, envVars, TypeOK,
        OwnerStates, BatchInv
    <2>4. CASE ScanNow
      BY <2>4, NetpollAssumption DEF ScanNow, pdVars, lockVars, ownerVars, envVars,
        TypeOK, OwnerStates, BatchInv
    <2>5. CASE ScanLock
      BY <2>5, NetpollAssumption DEF ScanLock, pdVars, ownerVars, envVars, TypeOK,
        OwnerStates, BatchInv
    <2>6. CASE \E p \in todo : ScanOne(p)
      BY <2>6, NetpollAssumption DEF ScanOne, WakeSlots, Waiting, Expired, lockVars,
        envVars, TypeOK, OwnerStates, BatchInv
    <2>7. CASE ScanDone
      BY <2>7, NetpollAssumption DEF ScanDone, pdVars, ownerVars, envVars, TypeOK,
        OwnerStates, BatchInv
    <2>8. CASE ReactorExit
      BY <2>8, NetpollAssumption DEF ReactorExit, pdVars, lockVars, ownerVars, envVars,
        TypeOK, OwnerStates, BatchInv
    <2>9. QED BY <1>3, <2>1, <2>2, <2>3, <2>4, <2>5, <2>6, <2>7, <2>8 DEF ReactorStep
  <1>4. CASE Environment
    <2>1. CASE \E p \in PDs, d \in Dirs : BecomeReady(p, d)
      BY <2>1, NetpollAssumption DEF BecomeReady, pdVars, lockVars, ownerVars, rxVars,
        TypeOK, OwnerStates, BatchInv
    <2>2. CASE Tick
      BY <2>2, NetpollAssumption DEF Tick, pdVars, lockVars, ownerVars, rxVars, TypeOK,
        OwnerStates, BatchInv
    <2>3. CASE Shutdown
      BY <2>3, NetpollAssumption DEF Shutdown, pdVars, lockVars, ownerVars, rxVars,
        TypeOK, OwnerStates, BatchInv
    <2>4. QED BY <1>4, <2>1, <2>2, <2>3 DEF Environment
  <1>5. QED BY <1>1, <1>2, <1>3, <1>4 DEF Next

\* A step releases pd.lock of an open socket only where it holds it.
LEMMA PdLockStep ==
  ASSUME TypeOK, OwnerInv, SlotInv, BatchInv, PdLockInv, Next
  PROVE  PdLockInv'
  <1>1. ASSUME NEW p \in PDs, OwnerStep(p) \/ OwnerBegins(p) PROVE PdLockInv'
    <2>1. CASE Check(p)
      BY <2>1, NetpollAssumption DEF Check, Return, pdVars, lockVars, rxVars, envVars,
        TypeOK, OwnerStates, OwnerInv, Leaving, BatchInv, PdLockInv, OpenLockGuards
    <2>2. CASE Arm(p)
      BY <2>2, NetpollAssumption DEF Arm, lockVars, rxVars, envVars, TypeOK, OwnerStates,
        OwnerInv, Leaving, BatchInv, PdLockInv, OpenLockGuards
    <2>3. CASE Link(p)
      BY <2>3, NetpollAssumption DEF Link, lockVars, rxVars, envVars, TypeOK, OwnerStates,
        OwnerInv, Leaving, BatchInv, PdLockInv, OpenLockGuards
    <2>4. CASE WaitG(p)
      BY <2>4, NetpollAssumption DEF WaitG, lockVars, rxVars, envVars, TypeOK,
        OwnerStates, OwnerInv, Leaving, BatchInv, PdLockInv, OpenLockGuards
    <2>5. CASE Suspended(p)
      BY <2>5, NetpollAssumption DEF Suspended, lockVars, rxVars, envVars, TypeOK,
        OwnerStates, OwnerInv, Leaving, BatchInv, PdLockInv, OpenLockGuards
    <2>6. CASE ResumeG(p)
      BY <2>6, NetpollAssumption DEF ResumeG, pdVars, lockVars, rxVars, envVars, TypeOK,
        OwnerStates, OwnerInv, Leaving, BatchInv, PdLockInv, OpenLockGuards
    <2>7. CASE WaitThread(p)
      BY <2>7, NetpollAssumption DEF WaitThread, lockVars, rxVars, envVars, TypeOK,
        OwnerStates, OwnerInv, Leaving, BatchInv, PdLockInv, OpenLockGuards
    <2>8. CASE ResumeThread(p)
      BY <2>8, NetpollAssumption DEF ResumeThread, FromCondWait, lockVars, rxVars,
        envVars, TypeOK, OwnerStates, OwnerInv, Leaving, BatchInv, PdLockInv,
        OpenLockGuards
    <2>9. CASE WakeReason(p)
      BY <2>9, NetpollAssumption DEF WakeReason, Return, pdVars, lockVars, rxVars, TypeOK,
        OwnerStates, OwnerInv, Leaving, BatchInv, PdLockInv, OpenLockGuards
    <2>10. CASE DrainBatch(p)
      BY <2>10, NetpollAssumption DEF DrainBatch, pdVars, lockVars, rxVars, envVars,
        TypeOK, OwnerStates, OwnerInv, Leaving, BatchInv, PdLockInv, OpenLockGuards
    <2>11. CASE CloseUnref(p)
      BY <2>11, NetpollAssumption DEF CloseUnref, Unref, lockVars, rxVars, envVars,
        TypeOK, OwnerStates, OwnerInv, Leaving, BatchInv, PdLockInv, OpenLockGuards
    <2>12. CASE Open(p)
      BY <2>12, NetpollAssumption DEF Open, lockVars, rxVars, envVars, TypeOK,
        OwnerStates, OwnerInv, Leaving, BatchInv, PdLockInv, OpenLockGuards
    <2>13. CASE \E d \in Dirs : Transfer(p, d)
      BY <2>13, NetpollAssumption DEF Transfer, pdVars, lockVars, ownerVars, rxVars,
        TypeOK, OwnerStates, OwnerInv, Leaving, BatchInv, PdLockInv, OpenLockGuards
    <2>14. CASE \E d \in Dirs, dl \in Deadlines : WouldBlock(p, d, dl)
      BY <2>14, NetpollAssumption DEF WouldBlock, pdVars, lockVars, rxVars, envVars,
        TypeOK, OwnerStates, OwnerInv, Leaving, BatchInv, PdLockInv, OpenLockGuards
    <2>15. CASE Close(p)
      BY <2>15, NetpollAssumption DEF Close, Waiting, lockVars, rxVars, envVars, TypeOK,
        OwnerStates, OwnerInv, Leaving, BatchInv, PdLockInv, OpenLockGuards
    <2>16. CASE SpuriousWake(p)
      BY <2>16, NetpollAssumption DEF SpuriousWake, FromCondWait, lockVars, rxVars,
        envVars, TypeOK, OwnerStates, OwnerInv, Leaving, BatchInv, PdLockInv,
        OpenLockGuards
    <2>17. QED BY <1>1, <2>1, <2>2, <2>3, <2>4, <2>5, <2>6, <2>7, <2>8, <2>9, <2>10,
      <2>11, <2>12, <2>13, <2>14, <2>15, <2>16 DEF OwnerStep, OwnerBegins
  <1>2. ASSUME NEW h \in Handles, HandleStep(h) \/ HandleBegins(h) PROVE PdLockInv'
    <2>1. CASE Cancel(h)
      BY <2>1, NetpollAssumption DEF Cancel, WakeSlots, Waiting, lockVars, rxVars,
        envVars, TypeOK, OwnerStates, OwnerInv, Leaving, BatchInv, PdLockInv,
        OpenLockGuards
    <2>2. CASE CancelLeave(h)
      BY <2>2, NetpollAssumption DEF CancelLeave, ownerVars, rxVars, envVars, TypeOK,
        OwnerStates, OwnerInv, Leaving, BatchInv, PdLockInv, OpenLockGuards
    <2>3. CASE Ref(h)
      BY <2>3, NetpollAssumption DEF Ref, lockVars, ownerVars, rxVars, envVars, TypeOK,
        OwnerStates, OwnerInv, Leaving, BatchInv, PdLockInv, OpenLockGuards
    <2>4. CASE CancelRegistry(h)
      BY <2>4, NetpollAssumption DEF CancelRegistry, pdVars, ownerVars, rxVars, envVars,
        TypeOK, OwnerStates, OwnerInv, Leaving, BatchInv, PdLockInv, OpenLockGuards
    <2>5. CASE DropHandle(h)
      BY <2>5, NetpollAssumption DEF DropHandle, Unref, lockVars, ownerVars, rxVars,
        envVars, TypeOK, OwnerStates, OwnerInv, Leaving, BatchInv, PdLockInv,
        OpenLockGuards
    <2>6. QED BY <1>2, <2>1, <2>2, <2>3, <2>4, <2>5 DEF HandleStep, HandleBegins
  <1>3. CASE ReactorStep
    <2>1. CASE Poll
      BY <2>1, NetpollAssumption DEF Poll, pdVars, ownerVars, envVars, TypeOK,
        OwnerStates, OwnerInv, Leaving, BatchInv, PdLockInv, OpenLockGuards
    <2>2. CASE \E e \in events : Event(e)
      <3>1. PICK e \in events : Event(e)
        BY <2>2
      <3>2. e.pd \in PDs /\ e.dirs \in SUBSET Dirs
        BY <3>1 DEF TypeOK
      <3>3. CASE fd[e.pd] = "closed"
        BY <3>1, <3>2, <3>3, NetpollAssumption DEF Event, lockVars, envVars, TypeOK,
          OwnerStates, OwnerInv, Leaving, BatchInv, PdLockInv, OpenLockGuards
      <3>4. CASE fd[e.pd] # "closed"
        <4>1. /\ WakeSlots(e.pd, e.dirs, "ready") /\ "ready" \in Reasons
              /\ plock' = [plock EXCEPT ![e.pd] = Reactor]
          BY <3>1, <3>4 DEF Event, Reasons
        <4>2. \A r \in PDs : opc'[r] = "suspending" => opc[r] = "suspending"
          BY <3>2, <4>1, WakeOwners
        <4>3. fd' = fd /\ hpc' = hpc /\ cur' = e.pd /\ plock[e.pd] = NULL
          BY <3>1 DEF Event
        <4>4. \A r \in PDs : opc'[r] = "suspending" => plock'[r] = r
          BY <3>2, <4>1, <4>2, <4>3, NetpollAssumption DEF PdLockInv, OpenLockGuards, TypeOK
        <4>5. \A r \in PDs : fd'[r] = "open" =>
                \A g \in Handles : hpc'[g] = "inside" /\ HandleOf[g] = r => plock'[r] = g
          BY <3>2, <4>1, <4>3, NetpollAssumption DEF PdLockInv, OpenLockGuards, TypeOK
        <4>6. plock'[cur'] = Reactor
          BY <3>2, <4>1, <4>3 DEF TypeOK
        <4>7. QED BY <4>4, <4>5, <4>6 DEF PdLockInv, OpenLockGuards
      <3>5. QED BY <3>3, <3>4
    <2>3. CASE EventNext
      BY <2>3, NetpollAssumption DEF EventNext, lockVars, ownerVars, envVars, TypeOK,
        OwnerStates, OwnerInv, Leaving, BatchInv, PdLockInv, OpenLockGuards
    <2>4. CASE ScanNow
      BY <2>4, NetpollAssumption DEF ScanNow, pdVars, lockVars, ownerVars, envVars,
        TypeOK, OwnerStates, OwnerInv, Leaving, BatchInv, PdLockInv, OpenLockGuards
    <2>5. CASE ScanLock
      BY <2>5, NetpollAssumption DEF ScanLock, pdVars, ownerVars, envVars, TypeOK,
        OwnerStates, OwnerInv, Leaving, BatchInv, PdLockInv, OpenLockGuards
    <2>6. CASE \E p \in todo : ScanOne(p)
      BY <2>6, NetpollAssumption DEF ScanOne, WakeSlots, Waiting, Expired, lockVars,
        envVars, TypeOK, OwnerStates, OwnerInv, Leaving, BatchInv, PdLockInv,
        OpenLockGuards
    <2>7. CASE ScanDone
      BY <2>7, NetpollAssumption DEF ScanDone, pdVars, ownerVars, envVars, TypeOK,
        OwnerStates, OwnerInv, Leaving, BatchInv, PdLockInv, OpenLockGuards
    <2>8. CASE ReactorExit
      BY <2>8, NetpollAssumption DEF ReactorExit, pdVars, lockVars, ownerVars, envVars,
        TypeOK, OwnerStates, OwnerInv, Leaving, BatchInv, PdLockInv, OpenLockGuards
    <2>9. QED BY <1>3, <2>1, <2>2, <2>3, <2>4, <2>5, <2>6, <2>7, <2>8 DEF ReactorStep
  <1>4. CASE Environment
    <2>1. CASE \E p \in PDs, d \in Dirs : BecomeReady(p, d)
      BY <2>1, NetpollAssumption DEF BecomeReady, pdVars, lockVars, ownerVars, rxVars,
        TypeOK, OwnerStates, OwnerInv, Leaving, BatchInv, PdLockInv, OpenLockGuards
    <2>2. CASE Tick
      BY <2>2, NetpollAssumption DEF Tick, pdVars, lockVars, ownerVars, rxVars, TypeOK,
        OwnerStates, OwnerInv, Leaving, BatchInv, PdLockInv, OpenLockGuards
    <2>3. CASE Shutdown
      BY <2>3, NetpollAssumption DEF Shutdown, pdVars, lockVars, ownerVars, rxVars,
        TypeOK, OwnerStates, OwnerInv, Leaving, BatchInv, PdLockInv, OpenLockGuards
    <2>4. QED BY <1>4, <2>1, <2>2, <2>3 DEF Environment
  <1>5. QED BY <1>1, <1>2, <1>3, <1>4 DEF Next

\* A step counts the references it makes and drops.
LEMMA RefStep ==
  ASSUME TypeOK, OwnerInv, SlotInv, RefInv, Next
  PROVE  RefInv'
  <1>1. ASSUME NEW p \in PDs, OwnerStep(p) \/ OwnerBegins(p) PROVE RefInv'
    <2>1. CASE Check(p)
      <3>1. \A r \in PDs : opc'[r] \in {"none", "gone"} <=> opc[r] \in {"none", "gone"}
        <4>1. CASE Return(p)
          BY <2>1, <4>1, CheckEffect DEF Return, TypeOK
        <4>2. CASE ~Return(p)
          BY <2>1, <4>2, CheckEffect DEF TypeOK
        <4>3. QED BY <4>1, <4>2
      <3>2. refcount' = refcount /\ hpc' = hpc
        BY <2>1 DEF Check, pdVars
      <3>3. QED BY <3>1, <3>2, RefFrame
    <2>2. CASE Arm(p)
      BY <2>2, RefFrame DEF Arm, TypeOK
    <2>3. CASE Link(p)
      BY <2>3, RefFrame DEF Link, TypeOK
    <2>4. CASE WaitG(p)
      BY <2>4, RefFrame DEF WaitG, TypeOK
    <2>5. CASE Suspended(p)
      BY <2>5, RefFrame DEF Suspended, TypeOK
    <2>6. CASE ResumeG(p)
      BY <2>6, RefFrame DEF ResumeG, pdVars, TypeOK
    <2>7. CASE WaitThread(p)
      BY <2>7, RefFrame DEF WaitThread, TypeOK
    <2>8. CASE ResumeThread(p)
      BY <2>8, RefFrame DEF ResumeThread, FromCondWait, TypeOK
    <2>9. CASE WakeReason(p)
      <3>1. \A r \in PDs : opc'[r] \in {"none", "gone"} <=> opc[r] \in {"none", "gone"}
        <4>1. CASE Return(p)
          BY <2>9, <4>1, ReasonEffect DEF Return, TypeOK
        <4>2. CASE ~Return(p)
          BY <2>9, <4>2, ReasonEffect DEF TypeOK
        <4>3. QED BY <4>1, <4>2
      <3>2. refcount' = refcount /\ hpc' = hpc
        BY <2>9 DEF WakeReason, pdVars
      <3>3. QED BY <3>1, <3>2, RefFrame
    <2>10. CASE DrainBatch(p)
      BY <2>10, RefFrame DEF DrainBatch, pdVars, TypeOK
    <2>11. CASE CloseUnref(p)
      <3>1. \A r \in PDs : Held(r)' = Held(r)
        BY <2>11 DEF CloseUnref, Held
      <3>2. \A r \in PDs : Cardinality(Held(r))' = Cardinality(Held(r))
        BY <3>1
      <3>3. \A r \in PDs : Cardinality(Held(r)) \in Nat
        BY RefCounts
      <3>4. QED BY <2>11, <3>2, <3>3 DEF CloseUnref, Unref, RefInv, TypeOK
    <2>12. CASE Open(p)
      <3>1. Held(p) = {} /\ \A r \in PDs : Held(r)' = Held(r)
        BY <2>12 DEF Open, Held, OwnerInv
      <3>2. /\ Cardinality(Held(p)) = 0
            /\ \A r \in PDs : Cardinality(Held(r))' = Cardinality(Held(r))
        BY <3>1, FS_EmptySet
      <3>3. QED BY <2>12, <3>2 DEF Open, RefInv, TypeOK
    <2>13. CASE \E d \in Dirs : Transfer(p, d)
      BY <2>13, RefFrame DEF Transfer, pdVars, ownerVars, TypeOK
    <2>14. CASE \E d \in Dirs, dl \in Deadlines : WouldBlock(p, d, dl)
      BY <2>14, RefFrame DEF WouldBlock, pdVars, TypeOK
    <2>15. CASE Close(p)
      BY <2>15, RefFrame DEF Close, TypeOK
    <2>16. CASE SpuriousWake(p)
      BY <2>16, RefFrame DEF SpuriousWake, FromCondWait, TypeOK
    <2>17. QED BY <1>1, <2>1, <2>2, <2>3, <2>4, <2>5, <2>6, <2>7, <2>8, <2>9, <2>10,
      <2>11, <2>12, <2>13, <2>14, <2>15, <2>16 DEF OwnerStep, OwnerBegins
  <1>2. ASSUME NEW h \in Handles, HandleStep(h) \/ HandleBegins(h) PROVE RefInv'
    <2>1. CASE Cancel(h)
      <3>1. HandleOf[h] \in PDs
        BY NetpollAssumption
      <3>2. WakeSlots(HandleOf[h], Dirs, "cancelled") /\ "cancelled" \in Reasons
        BY <2>1 DEF Cancel, Reasons
      <3>3. \A r \in PDs : opc'[r] \in {"none", "gone"} <=> opc[r] \in {"none", "gone"}
        BY <3>1, <3>2, WakeOwners DEF Parked
      <3>4. \A g \in Handles : hpc'[g] \in {"live", "cancel", "inside"} <=>
              hpc[g] \in {"live", "cancel", "inside"}
        BY <2>1 DEF Cancel, TypeOK
      <3>5. QED BY <2>1, <3>3, <3>4, RefFrame DEF Cancel
    <2>2. CASE CancelLeave(h)
      BY <2>2, RefFrame DEF CancelLeave, ownerVars, TypeOK
    <2>3. CASE Ref(h)
      <3> DEFINE p == HandleOf[h]
      <3>1. p \in PDs
        BY NetpollAssumption
      <3>2. Held(p)' = Held(p) \cup {h} /\ \A r \in PDs : r # p => Held(r)' = Held(r)
        BY <2>3, <3>1 DEF Ref, Held, TypeOK
      <3>3. h \notin Held(p)
        BY <2>3 DEF Ref, Held
      <3>4. /\ Cardinality(Held(p))' = Cardinality(Held(p)) + 1
            /\ \A r \in PDs : r # p => Cardinality(Held(r))' = Cardinality(Held(r))
        BY <3>1, <3>2, <3>3, RefCounts, FS_AddElement
      <3>5. \A r \in PDs : Cardinality(Held(r)) \in Nat
        BY RefCounts
      <3>6. /\ refcount' = [refcount EXCEPT ![p] = refcount[p] + 1]
            /\ opc' = opc
        BY <2>3 DEF Ref, ownerVars
      <3>7. \A r \in PDs : refcount'[r] = IF r = p THEN refcount[r] + 1 ELSE refcount[r]
        BY <3>1, <3>6 DEF TypeOK
      <3>8. QED BY <3>4, <3>5, <3>6, <3>7 DEF RefInv
    <2>4. CASE CancelRegistry(h)
      BY <2>4, RefFrame DEF CancelRegistry, pdVars, ownerVars, TypeOK
    <2>5. CASE DropHandle(h)
      <3> DEFINE p == HandleOf[h]
      <3>1. p \in PDs
        BY NetpollAssumption
      <3>2. Held(p)' = Held(p) \ {h} /\ \A r \in PDs : r # p => Held(r)' = Held(r)
        BY <2>5, <3>1 DEF DropHandle, Held, TypeOK
      <3>3. h \in Held(p)
        BY <2>5 DEF DropHandle, Held
      <3>4. /\ Cardinality(Held(p))' = Cardinality(Held(p)) - 1
            /\ \A r \in PDs : r # p => Cardinality(Held(r))' = Cardinality(Held(r))
        BY <3>1, <3>2, <3>3, RefCounts, FS_RemoveElement
      <3>5. \A r \in PDs : Cardinality(Held(r)) \in Nat
        BY RefCounts
      <3>6. /\ refcount' = [refcount EXCEPT ![p] = refcount[p] - 1]
            /\ opc' = opc
        BY <2>5 DEF DropHandle, Unref, ownerVars
      <3>7. \A r \in PDs : refcount'[r] = IF r = p THEN refcount[r] - 1 ELSE refcount[r]
        BY <3>1, <3>6 DEF TypeOK
      <3>8. QED BY <3>4, <3>5, <3>6, <3>7 DEF RefInv
    <2>6. QED BY <1>2, <2>1, <2>2, <2>3, <2>4, <2>5 DEF HandleStep, HandleBegins
  <1>3. CASE ReactorStep
    <2>1. CASE Poll
      BY <2>1, RefFrame DEF Poll, pdVars, ownerVars, TypeOK
    <2>2. CASE \E e \in events : Event(e)
      <3>1. PICK e \in events : Event(e)
        BY <2>2
      <3>2. e.pd \in PDs /\ e.dirs \in SUBSET Dirs
        BY <3>1 DEF TypeOK
      <3>3. CASE fd[e.pd] = "closed"
        BY <3>1, <3>3, RefFrame DEF Event
      <3>4. CASE fd[e.pd] # "closed"
        <4>1. /\ WakeSlots(e.pd, e.dirs, "ready") /\ "ready" \in Reasons
              /\ plock' = [plock EXCEPT ![e.pd] = Reactor]
          BY <3>1, <3>4 DEF Event, Reasons
        <4>2. \A r \in PDs : opc'[r] \in {"none", "gone"} <=> opc[r] \in {"none", "gone"}
          BY <3>2, <4>1, WakeOwners DEF Parked
        <4>3. refcount' = refcount /\ hpc' = hpc
          BY <3>1 DEF Event
        <4>4. QED BY <4>2, <4>3, RefFrame
      <3>5. QED BY <3>3, <3>4
    <2>3. CASE EventNext
      BY <2>3, RefFrame DEF EventNext, ownerVars, TypeOK
    <2>4. CASE ScanNow
      BY <2>4, RefFrame DEF ScanNow, pdVars, ownerVars, TypeOK
    <2>5. CASE ScanLock
      BY <2>5, RefFrame DEF ScanLock, pdVars, ownerVars, TypeOK
    <2>6. CASE \E p \in todo : ScanOne(p)
      <3>1. PICK p \in todo : ScanOne(p)
        BY <2>6
      <3>2. p \in PDs /\ Expired(p) \in SUBSET Dirs
        BY <3>1 DEF TypeOK, Expired
      <3>3. \/ cancelled[p] /\ WakeSlots(p, Dirs, "cancelled")
            \/ ~cancelled[p] /\ WakeSlots(p, Expired(p), "timeout")
        BY <3>1, Zenon DEF ScanOne
      <3>4. \A r \in PDs : opc'[r] \in {"none", "gone"} <=> opc[r] \in {"none", "gone"}
        BY <3>2, <3>3, WakeOwners DEF Parked, Reasons
      <3>5. refcount' = refcount /\ hpc' = hpc
        BY <3>1 DEF ScanOne
      <3>6. QED BY <3>4, <3>5, RefFrame
    <2>7. CASE ScanDone
      BY <2>7, RefFrame DEF ScanDone, pdVars, ownerVars, TypeOK
    <2>8. CASE ReactorExit
      BY <2>8, RefFrame DEF ReactorExit, pdVars, ownerVars, TypeOK
    <2>9. QED BY <1>3, <2>1, <2>2, <2>3, <2>4, <2>5, <2>6, <2>7, <2>8 DEF ReactorStep
  <1>4. CASE Environment
    <2>1. CASE \E p \in PDs, d \in Dirs : BecomeReady(p, d)
      BY <2>1, RefFrame DEF BecomeReady, pdVars, ownerVars, TypeOK
    <2>2. CASE Tick
      BY <2>2, RefFrame DEF Tick, pdVars, ownerVars, TypeOK
    <2>3. CASE Shutdown
      BY <2>3, RefFrame DEF Shutdown, pdVars, ownerVars, TypeOK
    <2>4. QED BY <1>4, <2>1, <2>2, <2>3 DEF Environment
  <1>5. QED BY <1>1, <1>2, <1>3, <1>4 DEF Next

\* A step frees a PollDesc with its last reference, and takes it off the lists.
LEMMA AllocStep ==
  ASSUME TypeOK, RegistryInv, RefInv, AllocInv, ListInv, Next
  PROVE  AllocInv' /\ ListInv'
  <1>1. ASSUME NEW p \in PDs, OwnerStep(p) \/ OwnerBegins(p) PROVE AllocInv' /\ ListInv'
    <2>1. CASE Check(p)
      BY <2>1 DEF Check, pdVars, rxVars, AllocInv, ListInv
    <2>2. CASE Arm(p)
      BY <2>2 DEF Arm, rxVars, AllocInv, ListInv
    <2>3. CASE Link(p)
      <3>1. refcount[p] > 0
        BY <2>3, RefCounts DEF Link
      <3>2. QED BY <2>3, <3>1 DEF Link, rxVars, TypeOK, AllocInv, ListInv
    <2>4. CASE WaitG(p)
      BY <2>4 DEF WaitG, rxVars, AllocInv, ListInv
    <2>5. CASE Suspended(p)
      BY <2>5 DEF Suspended, rxVars, AllocInv, ListInv
    <2>6. CASE ResumeG(p)
      BY <2>6 DEF ResumeG, pdVars, rxVars, AllocInv, ListInv
    <2>7. CASE WaitThread(p)
      BY <2>7 DEF WaitThread, rxVars, AllocInv, ListInv
    <2>8. CASE ResumeThread(p)
      BY <2>8 DEF ResumeThread, FromCondWait, rxVars, AllocInv, ListInv
    <2>9. CASE WakeReason(p)
      BY <2>9 DEF WakeReason, pdVars, rxVars, AllocInv, ListInv
    <2>10. CASE DrainBatch(p)
      BY <2>10 DEF DrainBatch, pdVars, rxVars, AllocInv, ListInv
    <2>11. CASE CloseUnref(p)
      <3>1. p \in PDs /\ todo = {} /\ todo' = todo
        BY <2>11, NetpollAssumption DEF CloseUnref, Unref, RegistryInv, rxVars, TypeOK
      <3>2. CASE refcount[p] - 1 > 0
        BY <2>11, <3>1, <3>2 DEF CloseUnref, Unref, TypeOK, AllocInv, ListInv
      <3>3. CASE ~(refcount[p] - 1 > 0)
        BY <2>11, <3>1, <3>3 DEF CloseUnref, Unref, TypeOK, AllocInv, ListInv
      <3>4. QED BY <3>2, <3>3
    <2>12. CASE Open(p)
      BY <2>12 DEF Open, rxVars, AllocInv, ListInv, TypeOK
    <2>13. CASE \E d \in Dirs : Transfer(p, d)
      BY <2>13 DEF Transfer, pdVars, rxVars, AllocInv, ListInv
    <2>14. CASE \E d \in Dirs, dl \in Deadlines : WouldBlock(p, d, dl)
      BY <2>14 DEF WouldBlock, pdVars, rxVars, AllocInv, ListInv
    <2>15. CASE Close(p)
      BY <2>15 DEF Close, rxVars, AllocInv, ListInv
    <2>16. CASE SpuriousWake(p)
      BY <2>16 DEF SpuriousWake, FromCondWait, rxVars, AllocInv, ListInv
    <2>17. QED BY <1>1, <2>1, <2>2, <2>3, <2>4, <2>5, <2>6, <2>7, <2>8, <2>9, <2>10,
      <2>11, <2>12, <2>13, <2>14, <2>15, <2>16 DEF OwnerStep, OwnerBegins
  <1>2. ASSUME NEW h \in Handles, HandleStep(h) \/ HandleBegins(h) PROVE AllocInv' /\ ListInv'
    <2>1. CASE Cancel(h)
      <3>1. HandleOf[h] \in PDs /\ h \in Held(HandleOf[h])
        BY <2>1, NetpollAssumption DEF Cancel, Held
      <3>2. refcount[HandleOf[h]] > 0
        BY <3>1, RefCounts
      <3>3. QED BY <2>1, <3>1, <3>2 DEF Cancel, rxVars, TypeOK, AllocInv, ListInv
    <2>2. CASE CancelLeave(h)
      BY <2>2 DEF CancelLeave, rxVars, AllocInv, ListInv
    <2>3. CASE Ref(h)
      <3>1. HandleOf[h] \in PDs
        BY NetpollAssumption
      <3>2. refcount[HandleOf[h]] > 0
        BY <2>3, <3>1, RefCounts DEF Ref
      <3>3. QED BY <2>3, <3>1, <3>2 DEF Ref, rxVars, TypeOK, AllocInv, ListInv
    <2>4. CASE CancelRegistry(h)
      BY <2>4 DEF CancelRegistry, pdVars, rxVars, AllocInv, ListInv
    <2>5. CASE DropHandle(h)
      <3>1. HandleOf[h] \in PDs /\ todo = {} /\ todo' = todo
        BY <2>5, NetpollAssumption DEF DropHandle, Unref, RegistryInv, rxVars, TypeOK
      <3>2. CASE refcount[HandleOf[h]] - 1 > 0
        BY <2>5, <3>1, <3>2 DEF DropHandle, Unref, TypeOK, AllocInv, ListInv
      <3>3. CASE ~(refcount[HandleOf[h]] - 1 > 0)
        BY <2>5, <3>1, <3>3 DEF DropHandle, Unref, TypeOK, AllocInv, ListInv
      <3>4. QED BY <3>2, <3>3
    <2>6. QED BY <1>2, <2>1, <2>2, <2>3, <2>4, <2>5 DEF HandleStep, HandleBegins
  <1>3. CASE ReactorStep
    <2>1. CASE Poll
      BY <2>1 DEF Poll, pdVars, AllocInv, ListInv
    <2>2. CASE \E e \in events : Event(e)
      BY <2>2 DEF Event, AllocInv, ListInv
    <2>3. CASE EventNext
      BY <2>3 DEF EventNext, AllocInv, ListInv
    <2>4. CASE ScanNow
      BY <2>4 DEF ScanNow, pdVars, AllocInv, ListInv
    <2>5. CASE ScanLock
      BY <2>5 DEF ScanLock, pdVars, AllocInv, ListInv
    <2>6. CASE \E p \in todo : ScanOne(p)
      BY <2>6 DEF ScanOne, AllocInv, ListInv
    <2>7. CASE ScanDone
      BY <2>7 DEF ScanDone, pdVars, AllocInv, ListInv
    <2>8. CASE ReactorExit
      BY <2>8 DEF ReactorExit, pdVars, AllocInv, ListInv
    <2>9. QED BY <1>3, <2>1, <2>2, <2>3, <2>4, <2>5, <2>6, <2>7, <2>8 DEF ReactorStep
  <1>4. CASE Environment
    <2>1. CASE \E p \in PDs, d \in Dirs : BecomeReady(p, d)
      BY <2>1 DEF BecomeReady, pdVars, rxVars, AllocInv, ListInv
    <2>2. CASE Tick
      BY <2>2 DEF Tick, pdVars, rxVars, AllocInv, ListInv
    <2>3. CASE Shutdown
      BY <2>3 DEF Shutdown, pdVars, rxVars, AllocInv, ListInv
    <2>4. QED BY <1>4, <2>1, <2>2, <2>3 DEF Environment
  <1>5. QED BY <1>1, <1>2, <1>3, <1>4 DEF Next

\* A step publishes a waiter where it parks it, and wakes the one it takes off.
LEMMA SlotStep ==
  ASSUME TypeOK, SlotInv, Next
  PROVE  SlotInv'
  <1>1. ASSUME NEW p \in PDs, OwnerStep(p) \/ OwnerBegins(p) PROVE SlotInv'
    <2>1. CASE Check(p)
      <3>1. UNCHANGED <<pdVars, lockVars, hpc, rxVars, envVars>> /\ opc[p] = "check"
        BY <2>1, CheckEffect
      <3>2. CASE Return(p)
        BY <3>1, <3>2 DEF Return, pdVars, lockVars, rxVars, envVars, TypeOK, SlotInv,
          Parked, Dirs, OwnerStates
      <3>3. CASE opc' = [opc EXCEPT ![p] = "arm"] /\ odir' = odir /\ odl' = odl
        BY <3>1, <3>3 DEF pdVars, lockVars, rxVars, envVars, TypeOK, SlotInv, Parked,
          Dirs, OwnerStates
      <3>4. QED BY <2>1, <3>2, <3>3, CheckEffect
    <2>2. CASE Arm(p)
      BY <2>2 DEF Arm, SlotInv, Parked, TypeOK
    <2>3. CASE Link(p)
      BY <2>3 DEF Link, SlotInv, Parked, TypeOK
    <2>4. CASE WaitG(p)
      BY <2>4, NetpollAssumption DEF WaitG, SlotInv, Parked, TypeOK
    <2>5. CASE Suspended(p)
      BY <2>5 DEF Suspended, SlotInv, Parked, TypeOK
    <2>6. CASE ResumeG(p)
      BY <2>6 DEF ResumeG, pdVars, SlotInv, Parked, TypeOK
    <2>7. CASE WaitThread(p)
      BY <2>7, NetpollAssumption DEF WaitThread, SlotInv, Parked, TypeOK
    <2>8. CASE ResumeThread(p)
      BY <2>8 DEF ResumeThread, FromCondWait, SlotInv, Parked, TypeOK
    <2>9. CASE WakeReason(p)
      <3>1. UNCHANGED <<pdVars, lockVars, hpc, rxVars, now, down>> /\ opc[p] = "reason"
        BY <2>9, ReasonEffect
      <3>2. CASE Return(p)
        BY <3>1, <3>2 DEF Return, pdVars, lockVars, rxVars, envVars, TypeOK, SlotInv,
          Parked, Dirs, OwnerStates
      <3>3. CASE opc' = [opc EXCEPT ![p] = "check"] /\ odir' = odir /\ odl' = odl
        BY <3>1, <3>3 DEF pdVars, lockVars, rxVars, envVars, TypeOK, SlotInv, Parked,
          Dirs, OwnerStates
      <3>4. QED BY <2>9, <3>2, <3>3, ReasonEffect
    <2>10. CASE DrainBatch(p)
      BY <2>10 DEF DrainBatch, pdVars, SlotInv, Parked, TypeOK
    <2>11. CASE CloseUnref(p)
      BY <2>11 DEF CloseUnref, Unref, SlotInv, Parked, TypeOK
    <2>12. CASE Open(p)
      BY <2>12 DEF Open, SlotInv, Parked, TypeOK
    <2>13. CASE \E d \in Dirs : Transfer(p, d)
      BY <2>13 DEF Transfer, pdVars, ownerVars, SlotInv, Parked, TypeOK
    <2>14. CASE \E d \in Dirs, dl \in Deadlines : WouldBlock(p, d, dl)
      BY <2>14 DEF WouldBlock, pdVars, SlotInv, Parked, TypeOK
    <2>15. CASE Close(p)
      BY <2>15 DEF Close, Waiting, SlotInv, Parked, TypeOK
    <2>16. CASE SpuriousWake(p)
      BY <2>16 DEF SpuriousWake, FromCondWait, SlotInv, Parked, TypeOK
    <2>17. QED BY <1>1, <2>1, <2>2, <2>3, <2>4, <2>5, <2>6, <2>7, <2>8, <2>9, <2>10,
      <2>11, <2>12, <2>13, <2>14, <2>15, <2>16 DEF OwnerStep, OwnerBegins
  <1>2. ASSUME NEW h \in Handles, HandleStep(h) \/ HandleBegins(h) PROVE SlotInv'
    <2>1. CASE Cancel(h)
      <3>1. HandleOf[h] \in PDs
        BY NetpollAssumption
      <3>2. WakeSlots(HandleOf[h], Dirs, "cancelled") /\ "cancelled" \in Reasons
        BY <2>1 DEF Cancel, Reasons
      <3>3. \A r \in PDs, d \in Dirs : slot'[r][d] # NULL <=> Parked(r)' /\ d = odir[r]
        BY <3>1, <3>2, WakeEffect DEF SlotInv, Parked
      <3>4. odir' = odir
        BY <2>1 DEF Cancel
      <3>5. QED BY <3>3, <3>4 DEF SlotInv
    <2>2. CASE CancelLeave(h)
      BY <2>2 DEF CancelLeave, ownerVars, SlotInv, Parked
    <2>3. CASE Ref(h)
      BY <2>3 DEF Ref, ownerVars, SlotInv, Parked
    <2>4. CASE CancelRegistry(h)
      BY <2>4 DEF CancelRegistry, pdVars, ownerVars, SlotInv, Parked
    <2>5. CASE DropHandle(h)
      BY <2>5 DEF DropHandle, Unref, ownerVars, SlotInv, Parked
    <2>6. QED BY <1>2, <2>1, <2>2, <2>3, <2>4, <2>5 DEF HandleStep, HandleBegins
  <1>3. CASE ReactorStep
    <2>1. CASE Poll
      BY <2>1 DEF Poll, pdVars, ownerVars, SlotInv, Parked
    <2>2. CASE \E e \in events : Event(e)
      <3>1. PICK e \in events : Event(e)
        BY <2>2
      <3>2. e.pd \in PDs /\ e.dirs \in SUBSET Dirs
        BY <3>1 DEF TypeOK
      <3>3. CASE fd[e.pd] = "closed"
        BY <3>1, <3>2, <3>3, NetpollAssumption DEF Event, lockVars, envVars, SlotInv, Parked
      <3>4. CASE fd[e.pd] # "closed"
        <4>1. /\ WakeSlots(e.pd, e.dirs, "ready") /\ "ready" \in Reasons
              /\ plock' = [plock EXCEPT ![e.pd] = Reactor]
          BY <3>1, <3>4 DEF Event, Reasons
        <4>2. \A r \in PDs, d \in Dirs : slot'[r][d] # NULL <=> Parked(r)' /\ d = odir[r]
          <5>1. PICK p \in PDs, D \in SUBSET Dirs : WakeSlots(p, D, "ready")
            BY <3>2, <4>1
          <5>2. "ready" \in Reasons
            BY <4>1
          <5>3. \A d \in Dirs : slot'[p][d] # NULL <=> Parked(p)' /\ d = odir[p]
            <6>1. CASE Parked(p) /\ odir[p] \in D
              BY <5>1, <5>2, <6>1, WakeEffect DEF Parked
            <6>2. CASE ~(Parked(p) /\ odir[p] \in D)
              BY <5>1, <5>2, <6>2, WakeEffect DEF SlotInv, Parked
            <6>3. QED BY <6>1, <6>2
          <5>4. \A r \in PDs :
                  r # p => \A d \in Dirs : slot'[r][d] # NULL <=> Parked(r)' /\ d = odir[r]
            BY <5>1, <5>2, WakeEffect DEF SlotInv, Parked
          <5>5. QED BY <5>3, <5>4
        <4>3. odir' = odir
          BY <3>1 DEF Event
        <4>4. QED BY <4>2, <4>3 DEF SlotInv
      <3>5. QED BY <3>3, <3>4
    <2>3. CASE EventNext
      BY <2>3 DEF EventNext, ownerVars, SlotInv, Parked
    <2>4. CASE ScanNow
      BY <2>4 DEF ScanNow, pdVars, ownerVars, SlotInv, Parked
    <2>5. CASE ScanLock
      BY <2>5 DEF ScanLock, pdVars, ownerVars, SlotInv, Parked
    <2>6. CASE \E p \in todo : ScanOne(p)
      <3>1. PICK p \in todo : ScanOne(p)
        BY <2>6
      <3>2. p \in PDs /\ Expired(p) \in SUBSET Dirs
        BY <3>1 DEF TypeOK, Expired
      <3>3. \/ cancelled[p] /\ WakeSlots(p, Dirs, "cancelled")
            \/ ~cancelled[p] /\ WakeSlots(p, Expired(p), "timeout")
        BY <3>1, Zenon DEF ScanOne
      <3>4. \A r \in PDs, d \in Dirs : slot'[r][d] # NULL <=> Parked(r)' /\ d = odir[r]
        BY <3>2, <3>3, WakeEffect DEF SlotInv, Parked, Reasons
      <3>5. odir' = odir
        BY <3>1 DEF ScanOne
      <3>6. QED BY <3>4, <3>5 DEF SlotInv
    <2>7. CASE ScanDone
      BY <2>7 DEF ScanDone, pdVars, ownerVars, SlotInv, Parked
    <2>8. CASE ReactorExit
      BY <2>8 DEF ReactorExit, pdVars, ownerVars, SlotInv, Parked
    <2>9. QED BY <1>3, <2>1, <2>2, <2>3, <2>4, <2>5, <2>6, <2>7, <2>8 DEF ReactorStep
  <1>4. CASE Environment
    <2>1. CASE \E p \in PDs, d \in Dirs : BecomeReady(p, d)
      BY <2>1 DEF BecomeReady, pdVars, ownerVars, SlotInv, Parked
    <2>2. CASE Tick
      BY <2>2 DEF Tick, pdVars, ownerVars, SlotInv, Parked
    <2>3. CASE Shutdown
      BY <2>3 DEF Shutdown, pdVars, ownerVars, SlotInv, Parked
    <2>4. QED BY <1>4, <2>1, <2>2, <2>3 DEF Environment
  <1>5. QED BY <1>1, <1>2, <1>3, <1>4 DEF Next

\* A step takes no PollDesc off the registry that is cancelled or has a deadline.
LEMMA WatchStep ==
  ASSUME TypeOK, OwnerInv, SlotInv, RefInv, WatchInv, Next
  PROVE  WatchInv'
  <1>1. ASSUME NEW p \in PDs, OwnerStep(p) \/ OwnerBegins(p) PROVE WatchInv'
    <2>1. CASE Check(p)
      <3>1. UNCHANGED <<pdVars, lockVars, hpc, rxVars, envVars>> /\ opc[p] = "check"
        BY <2>1, CheckEffect
      <3>2. CASE Return(p)
        BY <3>1, <3>2 DEF Return, pdVars, lockVars, rxVars, envVars, TypeOK, WatchInv, Armed
      <3>3. CASE opc' = [opc EXCEPT ![p] = "arm"] /\ odir' = odir /\ odl' = odl
        BY <3>1, <3>3 DEF pdVars, lockVars, rxVars, envVars, TypeOK, WatchInv, Armed
      <3>4. QED BY <2>1, <3>2, <3>3, CheckEffect
    <2>2. CASE Arm(p)
      BY <2>2 DEF Arm, WatchInv, Armed, TypeOK
    <2>3. CASE Link(p)
      BY <2>3 DEF Link, WatchInv, Armed, TypeOK
    <2>4. CASE WaitG(p)
      BY <2>4 DEF WaitG, WatchInv, Armed, TypeOK
    <2>5. CASE Suspended(p)
      BY <2>5 DEF Suspended, WatchInv, Armed, TypeOK
    <2>6. CASE ResumeG(p)
      BY <2>6 DEF ResumeG, pdVars, WatchInv, Armed, TypeOK
    <2>7. CASE WaitThread(p)
      BY <2>7 DEF WaitThread, WatchInv, Armed, TypeOK
    <2>8. CASE ResumeThread(p)
      BY <2>8 DEF ResumeThread, FromCondWait, WatchInv, Armed, TypeOK
    <2>9. CASE WakeReason(p)
      <3>1. UNCHANGED <<pdVars, lockVars, hpc, rxVars, now, down>> /\ opc[p] = "reason"
        BY <2>9, ReasonEffect
      <3>2. CASE Return(p)
        BY <3>1, <3>2 DEF Return, pdVars, lockVars, rxVars, envVars, TypeOK, WatchInv, Armed
      <3>3. CASE opc' = [opc EXCEPT ![p] = "check"] /\ odir' = odir /\ odl' = odl
        BY <3>1, <3>3 DEF pdVars, lockVars, rxVars, envVars, TypeOK, WatchInv, Armed
      <3>4. QED BY <2>9, <3>2, <3>3, ReasonEffect
    <2>10. CASE DrainBatch(p)
      BY <2>10 DEF DrainBatch, pdVars, WatchInv, Armed, TypeOK
    <2>11. CASE CloseUnref(p)
      <3>1. p \in PDs
        BY NetpollAssumption
      <3>2. CASE refcount[p] - 1 > 0
        BY <2>11, <3>1, <3>2 DEF CloseUnref, Unref, ownerVars, TypeOK, WatchInv, Armed
      <3>3. CASE ~(refcount[p] - 1 > 0)
        BY <2>11, <3>3 DEF CloseUnref, Unref, TypeOK, WatchInv, Armed
      <3>4. QED BY <3>2, <3>3
    <2>12. CASE Open(p)
      BY <2>12 DEF Open, WatchInv, Armed, TypeOK
    <2>13. CASE \E d \in Dirs : Transfer(p, d)
      BY <2>13 DEF Transfer, pdVars, ownerVars, WatchInv, Armed, TypeOK
    <2>14. CASE \E d \in Dirs, dl \in Deadlines : WouldBlock(p, d, dl)
      BY <2>14 DEF WouldBlock, pdVars, WatchInv, Armed, TypeOK
    <2>15. CASE Close(p)
      BY <2>15 DEF Close, Waiting, WatchInv, Armed, TypeOK
    <2>16. CASE SpuriousWake(p)
      BY <2>16 DEF SpuriousWake, FromCondWait, WatchInv, Armed, TypeOK
    <2>17. QED BY <1>1, <2>1, <2>2, <2>3, <2>4, <2>5, <2>6, <2>7, <2>8, <2>9, <2>10,
      <2>11, <2>12, <2>13, <2>14, <2>15, <2>16 DEF OwnerStep, OwnerBegins
  <1>2. ASSUME NEW h \in Handles, HandleStep(h) \/ HandleBegins(h) PROVE WatchInv'
    <2>1. CASE Cancel(h)
      <3>1. HandleOf[h] \in PDs
        BY NetpollAssumption
      <3>2. WakeSlots(HandleOf[h], Dirs, "cancelled") /\ "cancelled" \in Reasons
        BY <2>1 DEF Cancel, Reasons
      <3>3. \A r \in PDs : Armed(r)' => Armed(r) /\ (opc[r] = "link" <=> opc'[r] = "link")
        BY <3>1, <3>2, WakeOwners DEF Armed, Parked
      <3>4. \A r \in PDs : opc[r] # "none" => opc'[r] # "none"
        BY <3>1, <3>2, WakeOwners
      <3>5. alloc' = alloc /\ deadline' = deadline /\ odir' = odir /\ odl' = odl
        BY <2>1 DEF Cancel
      <3>6. HandleOf[h] \in linked' /\ linked \subseteq linked'
        BY <2>1 DEF Cancel
      <3>7. opc[HandleOf[h]] # "none"
        BY <2>1 DEF Cancel, OwnerInv
      <3>8. \A r \in PDs : r # HandleOf[h] => cancelled'[r] = cancelled[r]
        BY <2>1, <3>1 DEF Cancel, TypeOK
      <3>9. QED BY <3>1, <3>3, <3>4, <3>5, <3>6, <3>7, <3>8 DEF WatchInv
    <2>2. CASE CancelLeave(h)
      BY <2>2 DEF CancelLeave, ownerVars, WatchInv, Armed
    <2>3. CASE Ref(h)
      BY <2>3 DEF Ref, ownerVars, WatchInv, Armed
    <2>4. CASE CancelRegistry(h)
      BY <2>4 DEF CancelRegistry, pdVars, ownerVars, WatchInv, Armed
    <2>5. CASE DropHandle(h)
      <3>1. HandleOf[h] \in PDs
        BY NetpollAssumption
      <3>2. CASE refcount[HandleOf[h]] - 1 > 0
        BY <2>5, <3>1, <3>2 DEF DropHandle, Unref, ownerVars, TypeOK, WatchInv, Armed
      <3>3. CASE ~(refcount[HandleOf[h]] - 1 > 0)
        <4>1. h \in Held(HandleOf[h])
          BY <2>5, NetpollAssumption DEF DropHandle, Held
        <4>2. opc[HandleOf[h]] \in {"none", "gone"}
          BY <3>1, <3>3, <4>1, RefCounts DEF TypeOK
        <4>3. QED BY <2>5, <3>1, <3>3, <4>2 DEF DropHandle, Unref, ownerVars, TypeOK,
          WatchInv, Armed
      <3>4. QED BY <3>2, <3>3
    <2>6. QED BY <1>2, <2>1, <2>2, <2>3, <2>4, <2>5 DEF HandleStep, HandleBegins
  <1>3. CASE ReactorStep
    <2>1. CASE Poll
      BY <2>1 DEF Poll, pdVars, ownerVars, WatchInv, Armed
    <2>2. CASE \E e \in events : Event(e)
      <3>1. PICK e \in events : Event(e)
        BY <2>2
      <3>2. e.pd \in PDs /\ e.dirs \in SUBSET Dirs
        BY <3>1 DEF TypeOK
      <3>3. CASE fd[e.pd] = "closed"
        BY <3>1, <3>2, <3>3, NetpollAssumption DEF Event, lockVars, envVars, WatchInv, Armed
      <3>4. CASE fd[e.pd] # "closed"
        <4>1. /\ WakeSlots(e.pd, e.dirs, "ready") /\ "ready" \in Reasons
              /\ plock' = [plock EXCEPT ![e.pd] = Reactor]
          BY <3>1, <3>4 DEF Event, Reasons
        <4>2. \A r \in PDs : Armed(r)' => Armed(r) /\ (opc[r] = "link" <=> opc'[r] = "link")
          BY <3>2, <4>1, WakeOwners DEF Armed, Parked
        <4>3. \A r \in PDs : opc[r] # "none" => opc'[r] # "none"
          BY <3>2, <4>1, WakeOwners
        <4>4. /\ alloc' = alloc /\ linked' = linked /\ deadline' = deadline
              /\ cancelled' = cancelled /\ odir' = odir /\ odl' = odl
          BY <3>1 DEF Event
        <4>5. QED BY <4>2, <4>3, <4>4 DEF WatchInv
      <3>5. QED BY <3>3, <3>4
    <2>3. CASE EventNext
      BY <2>3 DEF EventNext, ownerVars, WatchInv, Armed
    <2>4. CASE ScanNow
      BY <2>4 DEF ScanNow, pdVars, ownerVars, WatchInv, Armed
    <2>5. CASE ScanLock
      BY <2>5 DEF ScanLock, pdVars, ownerVars, WatchInv, Armed
    <2>6. CASE \E p \in todo : ScanOne(p)
      <3>1. PICK p \in todo : ScanOne(p)
        BY <2>6
      <3>2. p \in PDs /\ Expired(p) \in SUBSET Dirs
        BY <3>1 DEF TypeOK, Expired
      <3>3. \/ cancelled[p] /\ WakeSlots(p, Dirs, "cancelled")
            \/ ~cancelled[p] /\ WakeSlots(p, Expired(p), "timeout")
        BY <3>1, Zenon DEF ScanOne
      <3>4. \A r \in PDs : Armed(r)' => Armed(r) /\ (opc[r] = "link" <=> opc'[r] = "link")
        BY <3>2, <3>3, WakeOwners DEF Armed, Parked, Reasons
      <3>5. \A r \in PDs : opc[r] # "none" => opc'[r] # "none"
        BY <3>2, <3>3, WakeOwners DEF Reasons
      <3>6. /\ alloc' = alloc /\ deadline' = deadline /\ cancelled' = cancelled
            /\ odir' = odir /\ odl' = odl
        BY <3>1 DEF ScanOne
      <3>7. \A r \in PDs :
              r \in linked /\ (r # p \/ cancelled[r] \/ \E d \in Dirs : deadline[r][d] # 0) =>
              r \in linked'
        <4>1. CASE cancelled[p] \/ \E d \in Dirs : deadline[p][d] # 0
          BY <3>1, <4>1, Zenon DEF ScanOne
        <4>2. CASE ~(cancelled[p] \/ \E d \in Dirs : deadline[p][d] # 0)
          <5>1. linked' = linked \ {p}
            BY <3>1, <4>2, Zenon DEF ScanOne
          <5>2. QED BY <4>2, <5>1
        <4>3. QED BY <4>1, <4>2
      <3>8. QED BY <3>4, <3>5, <3>6, <3>7 DEF WatchInv, TypeOK
    <2>7. CASE ScanDone
      BY <2>7 DEF ScanDone, pdVars, ownerVars, WatchInv, Armed
    <2>8. CASE ReactorExit
      BY <2>8 DEF ReactorExit, pdVars, ownerVars, WatchInv, Armed
    <2>9. QED BY <1>3, <2>1, <2>2, <2>3, <2>4, <2>5, <2>6, <2>7, <2>8 DEF ReactorStep
  <1>4. CASE Environment
    <2>1. CASE \E p \in PDs, d \in Dirs : BecomeReady(p, d)
      BY <2>1 DEF BecomeReady, pdVars, ownerVars, WatchInv, Armed
    <2>2. CASE Tick
      BY <2>2 DEF Tick, pdVars, ownerVars, WatchInv, Armed
    <2>3. CASE Shutdown
      BY <2>3 DEF Shutdown, pdVars, ownerVars, WatchInv, Armed
    <2>4. QED BY <1>4, <2>1, <2>2, <2>3 DEF Environment
  <1>5. QED BY <1>1, <1>2, <1>3, <1>4 DEF Next

\* A step stores no reason that is not so.
LEMMA ReasonStep ==
  ASSUME TypeOK, SlotInv, WatchInv, ReasonInv, Next
  PROVE  ReasonInv'
  <1>1. ASSUME NEW p \in PDs, OwnerStep(p) \/ OwnerBegins(p) PROVE ReasonInv'
    <2>1. CASE Check(p)
      <3>1. UNCHANGED <<pdVars, lockVars, hpc, rxVars, envVars>> /\ opc[p] = "check"
        BY <2>1, CheckEffect
      <3>2. CASE Return(p)
        BY <3>1, <3>2 DEF Return, pdVars, lockVars, rxVars, envVars, TypeOK, ReasonInv,
          Armed
      <3>3. CASE opc' = [opc EXCEPT ![p] = "arm"] /\ odir' = odir /\ odl' = odl
        BY <3>1, <3>3 DEF pdVars, lockVars, rxVars, envVars, TypeOK, ReasonInv, Armed
      <3>4. QED BY <2>1, <3>2, <3>3, CheckEffect
    <2>2. CASE Arm(p)
      BY <2>2 DEF Arm, rxVars, envVars, ReasonInv, Armed, TypeOK
    <2>3. CASE Link(p)
      BY <2>3 DEF Link, rxVars, envVars, ReasonInv, Armed, TypeOK
    <2>4. CASE WaitG(p)
      BY <2>4 DEF WaitG, rxVars, envVars, ReasonInv, Armed, TypeOK
    <2>5. CASE Suspended(p)
      BY <2>5 DEF Suspended, rxVars, envVars, ReasonInv, Armed, TypeOK
    <2>6. CASE ResumeG(p)
      BY <2>6 DEF ResumeG, pdVars, rxVars, envVars, ReasonInv, Armed, TypeOK
    <2>7. CASE WaitThread(p)
      BY <2>7 DEF WaitThread, rxVars, envVars, ReasonInv, Armed, TypeOK
    <2>8. CASE ResumeThread(p)
      BY <2>8 DEF ResumeThread, FromCondWait, rxVars, envVars, ReasonInv, Armed, TypeOK
    <2>9. CASE WakeReason(p)
      <3>1. UNCHANGED <<pdVars, lockVars, hpc, rxVars, now, down>> /\ opc[p] = "reason"
        BY <2>9, ReasonEffect
      <3>2. CASE Return(p)
        BY <3>1, <3>2 DEF Return, pdVars, lockVars, rxVars, envVars, TypeOK, ReasonInv,
          Armed
      <3>3. CASE opc' = [opc EXCEPT ![p] = "check"] /\ odir' = odir /\ odl' = odl
        BY <3>1, <3>3 DEF pdVars, lockVars, rxVars, envVars, TypeOK, ReasonInv, Armed
      <3>4. QED BY <2>9, <3>2, <3>3, ReasonEffect
    <2>10. CASE DrainBatch(p)
      BY <2>10 DEF DrainBatch, pdVars, rxVars, envVars, ReasonInv, Armed, TypeOK
    <2>11. CASE CloseUnref(p)
      BY <2>11 DEF CloseUnref, Unref, rxVars, envVars, ReasonInv, Armed, TypeOK
    <2>12. CASE Open(p)
      BY <2>12 DEF Open, rxVars, envVars, ReasonInv, Armed, TypeOK
    <2>13. CASE \E d \in Dirs : Transfer(p, d)
      BY <2>13 DEF Transfer, pdVars, ownerVars, rxVars, ReasonInv, Armed, TypeOK
    <2>14. CASE \E d \in Dirs, dl \in Deadlines : WouldBlock(p, d, dl)
      BY <2>14 DEF WouldBlock, pdVars, rxVars, envVars, ReasonInv, Armed, TypeOK
    <2>15. CASE Close(p)
      BY <2>15 DEF Close, Waiting, rxVars, envVars, ReasonInv, Armed, TypeOK
    <2>16. CASE SpuriousWake(p)
      BY <2>16 DEF SpuriousWake, FromCondWait, rxVars, envVars, ReasonInv, Armed, TypeOK
    <2>17. QED BY <1>1, <2>1, <2>2, <2>3, <2>4, <2>5, <2>6, <2>7, <2>8, <2>9, <2>10,
      <2>11, <2>12, <2>13, <2>14, <2>15, <2>16 DEF OwnerStep, OwnerBegins
  <1>2. ASSUME NEW h \in Handles, HandleStep(h) \/ HandleBegins(h) PROVE ReasonInv'
    <2>1. CASE Cancel(h)
      <3>1. HandleOf[h] \in PDs
        BY NetpollAssumption
      <3>2. WakeSlots(HandleOf[h], Dirs, "cancelled") /\ "cancelled" \in Reasons
        BY <2>1 DEF Cancel, Reasons
      <3>3. \A r \in PDs : Armed(r)' =>
              /\ Armed(r)
              /\ \/ reason'[r][odir[r]] = reason[r][odir[r]]
                 \/ r = HandleOf[h] /\ reason'[r][odir[r]] = "cancelled"
        <4>1. \A r \in PDs : odir[r] \in Dirs  BY DEF TypeOK
        <4>2. QED BY <3>1, <3>2, <4>1, WakeEffect DEF Armed, Parked
      <3>4. odir' = odir /\ odl' = odl /\ now' = now /\ rnow' = rnow
        BY <2>1 DEF Cancel, rxVars, envVars
      <3>5. cancelled'[HandleOf[h]] /\ \A r \in PDs : cancelled[r] => cancelled'[r]
        BY <2>1, <3>1 DEF Cancel, TypeOK
      <3>6. QED BY <3>3, <3>4, <3>5 DEF ReasonInv
    <2>2. CASE CancelLeave(h)
      BY <2>2 DEF CancelLeave, ownerVars, rxVars, envVars, ReasonInv, Armed
    <2>3. CASE Ref(h)
      BY <2>3 DEF Ref, ownerVars, rxVars, envVars, ReasonInv, Armed
    <2>4. CASE CancelRegistry(h)
      BY <2>4 DEF CancelRegistry, pdVars, ownerVars, rxVars, envVars, ReasonInv, Armed
    <2>5. CASE DropHandle(h)
      BY <2>5 DEF DropHandle, Unref, ownerVars, rxVars, envVars, ReasonInv, Armed
    <2>6. QED BY <1>2, <2>1, <2>2, <2>3, <2>4, <2>5 DEF HandleStep, HandleBegins
  <1>3. CASE ReactorStep
    <2>1. CASE Poll
      BY <2>1 DEF Poll, pdVars, ownerVars, envVars, ReasonInv, Armed
    <2>2. CASE \E e \in events : Event(e)
      <3>1. PICK e \in events : Event(e)
        BY <2>2
      <3>2. e.pd \in PDs /\ e.dirs \in SUBSET Dirs
        BY <3>1 DEF TypeOK
      <3>3. CASE fd[e.pd] = "closed"
        BY <3>1, <3>2, <3>3, NetpollAssumption DEF Event, lockVars, envVars, ReasonInv,
          Armed
      <3>4. CASE fd[e.pd] # "closed"
        <4>1. /\ WakeSlots(e.pd, e.dirs, "ready") /\ "ready" \in Reasons
              /\ plock' = [plock EXCEPT ![e.pd] = Reactor]
          BY <3>1, <3>4 DEF Event, Reasons
        <4>2. \A r \in PDs :
                Armed(r)' => Armed(r) /\ reason'[r][odir[r]] = reason[r][odir[r]]
          <5>1. \A r \in PDs : odir[r] \in Dirs  BY DEF TypeOK
          <5>2. PICK p \in PDs, D \in SUBSET Dirs : WakeSlots(p, D, "ready")
            BY <3>2, <4>1
          <5>3. QED BY <4>1, <5>1, <5>2, WakeEffect DEF Armed, Parked
        <4>3. /\ odir' = odir /\ odl' = odl /\ now' = now
              /\ rnow' = rnow /\ cancelled' = cancelled
          BY <3>1 DEF Event, envVars
        <4>4. QED BY <4>2, <4>3 DEF ReasonInv
      <3>5. QED BY <3>3, <3>4
    <2>3. CASE EventNext
      BY <2>3 DEF EventNext, ownerVars, envVars, ReasonInv, Armed
    <2>4. CASE ScanNow
      BY <2>4 DEF ScanNow, pdVars, ownerVars, envVars, ReasonInv, Armed, TypeOK, Times,
        Deadlines
    <2>5. CASE ScanLock
      BY <2>5 DEF ScanLock, pdVars, ownerVars, envVars, ReasonInv, Armed
    <2>6. CASE \E p \in todo : ScanOne(p)
      <3>1. PICK p \in todo : ScanOne(p)
        BY <2>6
      <3>2. p \in PDs /\ Expired(p) \in SUBSET Dirs
        BY <3>1 DEF TypeOK, Expired
      <3>3. \/ cancelled[p] /\ WakeSlots(p, Dirs, "cancelled")
            \/ ~cancelled[p] /\ WakeSlots(p, Expired(p), "timeout")
        BY <3>1, Zenon DEF ScanOne
      <3>4. \A r \in PDs : Armed(r)' =>
              /\ Armed(r)
              /\ \/ reason'[r][odir[r]] = reason[r][odir[r]]
                 \/ r = p /\ cancelled[p] /\ reason'[r][odir[r]] = "cancelled"
                 \/ r = p /\ odir[p] \in Expired(p) /\ reason'[r][odir[r]] = "timeout"
        <4>1. \A r \in PDs : odir[r] \in Dirs  BY DEF TypeOK
        <4>2. QED BY <3>2, <3>3, <4>1, WakeEffect DEF Armed, Parked, Reasons
      <3>5. /\ odir' = odir /\ odl' = odl /\ now' = now
            /\ rnow' = rnow /\ cancelled' = cancelled
        BY <3>1 DEF ScanOne, envVars
      <3>6. Armed(p) /\ odir[p] \in Expired(p) => odl[p] # 0 /\ now >= odl[p]
        BY <3>2 DEF Expired, WatchInv, ReasonInv, TypeOK, Times, Deadlines
      <3>7. QED BY <3>2, <3>4, <3>5, <3>6 DEF ReasonInv
    <2>7. CASE ScanDone
      BY <2>7 DEF ScanDone, pdVars, ownerVars, envVars, ReasonInv, Armed, TypeOK, Times,
        Deadlines
    <2>8. CASE ReactorExit
      BY <2>8 DEF ReactorExit, pdVars, ownerVars, envVars, ReasonInv, Armed
    <2>9. QED BY <1>3, <2>1, <2>2, <2>3, <2>4, <2>5, <2>6, <2>7, <2>8 DEF ReactorStep
  <1>4. CASE Environment
    <2>1. CASE \E p \in PDs, d \in Dirs : BecomeReady(p, d)
      BY <2>1 DEF BecomeReady, pdVars, ownerVars, rxVars, ReasonInv, Armed
    <2>2. CASE Tick
      BY <2>2 DEF Tick, pdVars, ownerVars, rxVars, ReasonInv, Armed, TypeOK, Times,
        Deadlines
    <2>3. CASE Shutdown
      BY <2>3 DEF Shutdown, pdVars, ownerVars, rxVars, ReasonInv, Armed
    <2>4. QED BY <1>4, <2>1, <2>2, <2>3 DEF Environment
  <1>5. QED BY <1>1, <1>2, <1>3, <1>4 DEF Next

-----------------------------------------------------------------------------
\* The invariant holds in every state.
THEOREM Invariance == Spec => []Inv
  <1>1. Init => Inv
    BY InitInv
  <1>2. Inv /\ [Next]_vars => Inv'
    <2> SUFFICES ASSUME Inv, [Next]_vars PROVE Inv'  OBVIOUS
    <2>1. CASE Next
      <3>1. TypeOK' /\ OwnerInv' /\ RegistryInv' /\ BatchInv' /\ PdLockInv'
        BY <2>1, TypeStep, OwnerStepInv, RegistryStep, BatchStep, PdLockStep
           DEF Inv, ControlInv, WaitInv
      <3>2. RefInv' /\ AllocInv' /\ ListInv'
        BY <2>1, RefStep, AllocStep DEF Inv, ControlInv, WaitInv
      <3>3. SlotInv' /\ WatchInv' /\ ReasonInv'
        BY <2>1, SlotStep, WatchStep, ReasonStep DEF Inv, ControlInv, WaitInv
      <3>4. QED BY <3>1, <3>2, <3>3 DEF Inv, ControlInv, WaitInv
    <2>2. CASE UNCHANGED vars
      <3> USE <2>2 DEF vars, pdVars, lockVars, ownerVars, rxVars, envVars
      <3>1. TypeOK'
        BY DEF Inv, TypeOK
      <3>2. ControlInv'
        BY DEF Inv, ControlInv, OwnerInv, RegistryInv, BatchInv, PdLockInv, OpenLockGuards
      <3>3. RefInv'
        <4>1. refcount' = refcount /\ opc' = opc /\ hpc' = hpc
          OBVIOUS
        <4>2. QED BY <4>1, RefFrame DEF Inv
      <3>4. AllocInv' /\ ListInv'
        BY DEF Inv, AllocInv, ListInv
      <3>5. WaitInv'
        BY DEF Inv, WaitInv, SlotInv, WatchInv, ReasonInv, Armed, Parked
      <3>6. QED BY <3>1, <3>2, <3>3, <3>4, <3>5 DEF Inv
    <2>3. QED BY <2>1, <2>2
  <1>3. QED BY <1>1, <1>2, PTL DEF Spec

\* Every variable keeps its type.
THEOREM TypeCorrect == Spec => []TypeOK
  <1>1. Inv => TypeOK  BY DEF Inv
  <1>2. QED BY <1>1, Invariance, PTL

\* However many handles a socket has, and in whatever order they and the socket are
\* dropped, nobody reaches a PollDesc that is freed.
THEOREM NothingFreedIsUsed == Spec => []NoUseAfterFree
  <1>1. Inv => NoUseAfterFree
    <2> SUFFICES ASSUME Inv PROVE NoUseAfterFree  OBVIOUS
    <2>1. \A p \in PDs : opc[p] \notin {"none", "gone"} => p \in alloc
      BY RefCounts DEF Inv, AllocInv
    <2>2. \A h \in Handles : hpc[h] \notin {"none", "dropped"} => HandleOf[h] \in alloc
      <3> SUFFICES ASSUME NEW h \in Handles, hpc[h] \notin {"none", "dropped"}
                   PROVE  HandleOf[h] \in alloc
        OBVIOUS
      <3>1. HandleOf[h] \in PDs /\ h \in Held(HandleOf[h])
        BY NetpollAssumption DEF Inv, TypeOK, Held
      <3>2. QED BY <3>1, RefCounts DEF Inv, AllocInv
    <2>3. \A e \in events : e.pd \in alloc
      <3> SUFFICES ASSUME NEW e \in events PROVE e.pd \in alloc  OBVIOUS
      <3>1. e.pd \in PDs
        BY DEF Inv, TypeOK
      <3>2. opc[e.pd] \notin {"none", "gone"}
        BY DEF Inv, ControlInv, BatchInv
      <3>3. QED BY <3>1, <3>2, <2>1
    <2>4. cur # NULL => cur \in alloc
      BY <2>1 DEF Inv, TypeOK, ControlInv, BatchInv
    <2>5. QED BY <2>1, <2>2, <2>3, <2>4 DEF Inv, ListInv, NoUseAfterFree
  <1>2. QED BY <1>1, Invariance, PTL

\* The scan sees every parked waiter that it has to wake, with its own deadline.
THEOREM ParkedIsWatched == Spec => []WatchedWhileParked
  <1>1. Inv => WatchedWhileParked
    <2>1. Inv => \A p \in PDs : Parked(p) => p \in alloc
      BY RefCounts DEF Inv, AllocInv, Parked
    <2>2. QED BY <2>1 DEF Inv, WaitInv, WatchInv, WatchedWhileParked, Parked, Armed
  <1>2. QED BY <1>1, Invariance, PTL

\* An operation raises a timeout or a cancellation only when there is one.
THEOREM ReasonsAreTrue == Spec => []ReasonIsTrue
  <1>1. Inv => ReasonIsTrue
    BY DEF Inv, WaitInv, ReasonInv, ReasonIsTrue, Armed
  <1>2. QED BY <1>1, Invariance, PTL

\* On an open socket nobody releases pd.lock under another.
THEOREM OpenLockIsHeld == Spec => []OpenLockGuards
  <1>1. Inv => OpenLockGuards  BY DEF Inv, ControlInv, PdLockInv
  <1>2. QED BY <1>1, Invariance, PTL
=============================================================================
