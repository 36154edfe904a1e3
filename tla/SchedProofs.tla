---------------------------- MODULE SchedProofs ----------------------------
(***************************************************************************)
(* Proofs about the scheduler, for every number of goroutines, processors  *)
(* and threads.                                                            *)
(*                                                                         *)
(* IInv adds to TypeOK what the program counter of an M says about its P   *)
(* and its G, and the discipline of the idle and spare stacks.  WorkInv    *)
(* adds what those say about the goroutines: who was popped is signalled,  *)
(* what a parked P leaves in its ring, whose goroutine P.current_g names,  *)
(* who still has to look for work, and where each goroutine is.            *)
(***************************************************************************)
EXTENDS Sched, FiniteSetTheorems, TLAPS

(* Taking the head off a sequence removes nothing but that element, as the  *)
(* stack pops of wake_m and startm and the queue pops of find_runnable do.   *)
LEMMA ElemsTail ==
  ASSUME NEW S, NEW s \in Seq(S), s # <<>>
  PROVE  /\ Head(s) \in Elems(s) /\ Head(s) \in S
         /\ Tail(s) \in Seq(S)
         /\ Elems(Tail(s)) \subseteq Elems(s)
BY DEF Elems

(* A stack without repetitions keeps that property when it is popped, and   *)
(* the popped M is no longer on it.                                         *)
LEMMA NoRepeatTail ==
  ASSUME NEW S, NEW s \in Seq(S), s # <<>>, NoRepeat(s)
  PROVE  /\ NoRepeat(Tail(s))
         /\ Head(s) \notin Elems(Tail(s))
BY DEF Elems, NoRepeat

\* The two facts about a push, for a sequence t that is x followed by s.
LEMMA ElemsOfPushed ==
  ASSUME NEW S, NEW s \in Seq(S), NEW t \in Seq(S), NEW x \in S,
         Len(t) = Len(s) + 1, t[1] = x,
         \A i \in 1 .. Len(s) : t[i + 1] = s[i]
  PROVE  /\ Elems(t) = {x} \cup Elems(s)
         /\ NoRepeat(s) /\ x \notin Elems(s) => NoRepeat(t)
<1>1. DOMAIN s = 1 .. Len(s) /\ DOMAIN t = 1 .. Len(s) + 1
  OBVIOUS
<1>2. \A i \in 2 .. Len(s) + 1 : i - 1 \in 1 .. Len(s) /\ t[i] = s[i - 1]
  OBVIOUS
<1>3. ASSUME NEW i \in 1 .. Len(s) + 1
      PROVE  t[i] \in {x} \cup Elems(s)
  <2>1. CASE i = 1
    BY <2>1
  <2>2. CASE i # 1
    <3>1. i \in 2 .. Len(s) + 1
      BY <2>2
    <3> QED
      BY <3>1, <1>1, <1>2 DEF Elems
  <2> QED
    BY <2>1, <2>2
<1>4. ASSUME NEW i \in 1 .. Len(s)
      PROVE  s[i] \in Elems(t)
  BY <1>1 DEF Elems
<1>5. x \in Elems(t)
  BY <1>1 DEF Elems
<1>6. Elems(t) = {x} \cup Elems(s)
  <2>1. \A y \in Elems(t) : y \in {x} \cup Elems(s)
    BY <1>1, <1>3 DEF Elems
  <2>2. \A y \in Elems(s) : y \in Elems(t)
    BY <1>1, <1>4 DEF Elems
  <2> QED
    BY <2>1, <2>2, <1>5
<1>7. ASSUME NoRepeat(s), x \notin Elems(s),
             NEW i \in 1 .. Len(s) + 1, NEW j \in 1 .. Len(s) + 1, t[i] = t[j]
      PROVE  i = j
  <2>1. \A k \in 1 .. Len(s) : s[k] # x
    BY <1>1, <1>7 DEF Elems
  <2>2. \A k \in 2 .. Len(s) + 1 : t[k] # x
    BY <2>1, <1>2
  <2>3. CASE i = 1 \/ j = 1
    BY <2>2, <2>3, <1>7
  <2>4. CASE i # 1 /\ j # 1
    <3>1. i \in 2 .. Len(s) + 1 /\ j \in 2 .. Len(s) + 1
      BY <2>4
    <3>2. s[i - 1] = s[j - 1] /\ i - 1 \in DOMAIN s /\ j - 1 \in DOMAIN s
      BY <3>1, <1>1, <1>2, <1>7
    <3>3. i - 1 = j - 1
      BY <3>2, <1>7 DEF NoRepeat
    <3> QED
      BY <3>3
  <2> QED
    BY <2>3, <2>4
<1> QED
  BY <1>1, <1>6, <1>7 DEF NoRepeat

(* Pushing an M on an idle or spare stack adds exactly that M.              *)
LEMMA ElemsPush ==
  ASSUME NEW S, NEW s \in Seq(S), NEW x \in S
  PROVE  /\ <<x>> \o s \in Seq(S)
         /\ Elems(<<x>> \o s) = {x} \cup Elems(s)
         /\ NoRepeat(s) /\ x \notin Elems(s) => NoRepeat(<<x>> \o s)
<1> DEFINE t == <<x>> \o s
<1>1. t \in Seq(S) /\ Len(t) = Len(s) + 1 /\ t[1] = x
  OBVIOUS
<1>2. \A i \in 1 .. Len(s) : t[i + 1] = s[i]
  OBVIOUS
<1> HIDE DEF t
<1>3. /\ Elems(t) = {x} \cup Elems(s)
      /\ NoRepeat(s) /\ x \notin Elems(s) => NoRepeat(t)
  BY <1>1, <1>2, ElemsOfPushed
<1> QED
  BY <1>1, <1>3 DEF t
-----------------------------------------------------------------------------
(* The inductive invariant.                                                 *)

Executing == {"run", "startm", "suspended", "unlock", "released",
              "reenqueue", "exit", "exitwake", "exitfree"}

\* What the program counter of an M says: an M that looks for work has a P,
\* one that runs a G has a G, only a call of startm holds a detached P.
PcInv ==
  /\ \A m \in Ms :
       /\ pc[m] \in Searching => mp[m] # NULL
       /\ pc[m] \in Executing => cur[m] # NULL
       /\ pc[m] = "startm" <=> hp[m] # NULL
       /\ pc[m] = "spare" => mp[m] = NULL
       /\ pc[m] = "off" <=> m \notin allM
       /\ pc[m] = "off" => mp[m] = NULL
  /\ smG # NULL => smP < NumP

\* M waits on a stack, or has left its wait because of shutdown.
Waits(m, where) ==
  pc[m] \in where \/ (shutdown /\ pc[m] \in {"loop", "exited"})

\* An M on a stack, or popped from it and not yet signalled, is in its wait
\* loop, so it cannot push itself a second time.
IdleInv ==
  /\ NoRepeat(idle)
  /\ \A m \in Elems(idle) :
       Waits(m, {"parked", "parkchk"}) /\ mp[m] # NULL /\ ~spin[m]

SpareInv ==
  /\ NoRepeat(spare)
  /\ \A m \in Elems(spare) :
       Waits(m, {"spared", "sparechk"}) /\ mp[m] = NULL /\ ~spin[m]

WakingInv ==
  \A t \in Threads : waking[t] \in Ms =>
    /\ Waits(waking[t], {"parked", "parkchk", "spared", "sparechk"})
    /\ mp[waking[t]] # NULL /\ ~spin[waking[t]]
    /\ waking[t] \notin Elems(idle)
    /\ \A u \in Threads : waking[u] = waking[t] => u = t

StackInv == IdleInv /\ SpareInv /\ WakingInv

IInv == TypeOK /\ PcInv /\ StackInv /\ POwnership
-----------------------------------------------------------------------------
(* The groups of variables, and what the assumptions say of the domains.    *)
USE DEF queues, stacks, thread, gvars, smvars, mainvars

(* What the assumptions on the constants say of the derived sets.           *)
LEMMA Domains ==
  /\ NumP \in Nat \ {0} /\ MaxM \in Nat /\ MaxM >= NumP
  /\ FairTick \in Nat \ {0}
  /\ Ms \subseteq Threads /\ {Sysmon, Reactor, MainThread} \subseteq Threads
  /\ NULL \notin Gs /\ NULL \notin Ms /\ NULL \notin Ps /\ POP \notin Ms
  /\ POP # NULL /\ MainG \in Gs
BY SchedAssumption DEF Ms, Ps, Threads

\* The helpers of the actions keep the types of what they assign.
LEMMA NextTick ==
  \A n \in 0 .. FairTick - 1 : (n + 1) % FairTick \in 0 .. FairTick - 1
BY Domains

(* steal_work takes at least one and at most all of the victim's goroutines.*)
LEMMA StealCountRange == \A n \in Nat \ {0} : StealCount(n) \in 1 .. n
BY DEF StealCount

(* The part of a ring that steal_work takes or leaves is again a ring.      *)
LEMMA SubSeqType ==
  ASSUME NEW S, NEW s \in Seq(S), NEW i \in Nat, i >= 1, NEW j \in 0 .. Len(s)
  PROVE  SubSeq(s, i, j) \in Seq(S)
OBVIOUS

(* Appending what was stolen to the thief's ring gives a ring.              *)
LEMMA ConcatType ==
  ASSUME NEW S, NEW s \in Seq(S), NEW t \in Seq(S)
  PROVE  s \o t \in Seq(S)
OBVIOUS

(* sched_enqueue keeps the queues and the pending wake-up well typed.       *)
LEMMA EnqueueType ==
  ASSUME gq \in Seq(Gs), rq \in [Ps -> Seq(Gs)],
         waking \in [Threads -> Ms \cup {NULL, POP}],
         NEW t \in Threads, NEW p \in Ps \cup {NULL}, NEW g \in Gs,
         Enqueue(t, p, g)
  PROVE  /\ gq' \in Seq(Gs) /\ rq' \in [Ps -> Seq(Gs)]
         /\ waking' \in [Threads -> Ms \cup {NULL, POP}]
<1>1. \A s \in Seq(Gs) : Append(s, g) \in Seq(Gs)
  OBVIOUS
<1>2. CASE p # NULL /\ HasRoom(p)
  BY <1>1, <1>2 DEF Enqueue
<1>3. CASE ~(p # NULL /\ HasRoom(p))
  BY <1>1, <1>3 DEF Enqueue
<1> QED
  BY <1>2, <1>3

(* The run_g block keeps the current goroutine and the tick well typed.     *)
LEMMA DispatchType ==
  ASSUME ProcTypes, ThreadTypes, NEW m \in Ms, NEW g \in Gs, mp[m] \in Ps, Dispatch(m, g)
  PROVE  /\ cur' \in [Ms -> Gs \cup {NULL}] /\ curG' \in [Ps -> Gs \cup {NULL}]
         /\ tick' \in [Ps -> 0 .. FairTick - 1] /\ pc' \in [Ms -> PCs]
<1>1. tick' \in [Ps -> 0 .. FairTick - 1]
  BY NextTick DEF Dispatch, ProcTypes
<1> QED
  BY <1>1 DEF Dispatch, ProcTypes, ThreadTypes, PCs

(* sched_init establishes the inductive invariant.                          *)
LEMMA InitIInv == Init => IInv
<1> SUFFICES ASSUME Init PROVE IInv
  OBVIOUS
<1>1. TypeOK
  <2>1. QueueTypes
    BY Domains DEF Init, QueueTypes
  <2>2. ProcTypes
    BY Domains DEF Init, ProcTypes
  <2>3. ThreadTypes
    BY Domains DEF Init, ThreadTypes, PCs, Ms, Ps
  <2>4. StackTypes
    BY Domains DEF Init, StackTypes
  <2>5. GTypes
    BY Domains DEF Init, GTypes, Uninit
  <2>6. SysmonTypes
    BY Domains DEF Init, SysmonTypes
  <2>7. MainTypes
    BY DEF Init, MainTypes
  <2> QED
    BY <2>1, <2>2, <2>3, <2>4, <2>5, <2>6, <2>7 DEF TypeOK
<1>2. PcInv
  BY Domains DEF Init, PcInv, Searching, Executing
<1>3. StackInv
  BY Domains DEF Init, StackInv, IdleInv, SpareInv, WakingInv, NoRepeat, Elems
<1>4. POwnership
  <2>1. ASSUME NEW p \in Ps PROVE p \in Ms /\ mp[p] = p
    BY Domains DEF Init, Ms, Ps
  <2>2. \A m \in Ms : hp[m] = NULL /\ (mp[m] # NULL => mp[m] = m)
    BY Domains DEF Init
  <2> QED
    BY Domains, <2>1, <2>2 DEF POwnership, OwnersOf
<1> QED
  BY <1>1, <1>2, <1>3, <1>4 DEF IInv

\* A step keeps every variable in its type.
LEMMA TypeStep ==
  ASSUME TypeOK, PcInv, [Next]_vars
  PROVE  TypeOK'
<1> USE Domains
<1>0. QueueTypes /\ ProcTypes /\ ThreadTypes /\ StackTypes /\ GTypes 
      /\ SysmonTypes /\ MainTypes
  BY DEF TypeOK
<1>1. ASSUME NEW m \in Ms, Loop(m)
      PROVE  TypeOK'
  <2>1. ProcTypes'
    BY <1>1, <1>0 DEF Loop, GlobalTurn, ProcTypes
  <2>2. ThreadTypes'
    BY <1>1, <1>0 DEF Loop, GlobalTurn, ThreadTypes, PCs
  <2>3. QueueTypes' /\ StackTypes' /\ GTypes' /\ SysmonTypes' /\ MainTypes'
    BY <1>1, <1>0 DEF Loop, QueueTypes, StackTypes, GTypes, SysmonTypes,
       MainTypes
  <2> QED
    BY <2>1, <2>2, <2>3 DEF TypeOK
<1>2. ASSUME NEW m \in Ms, TakeGlobal(m)
      PROVE  TypeOK'
  <2>1. QueueTypes' /\ ProcTypes' /\ ThreadTypes'
    <3>1. mp[m] \in Ps
      BY <1>2, <1>0 DEF TakeGlobal, PcInv, Searching, ThreadTypes
    <3>2. CASE gq # <<>>
      <4>1. Head(gq) \in Gs /\ Tail(gq) \in Seq(Gs)
        BY <3>1, <3>2, <1>0 DEF QueueTypes
      <4>2. Dispatch(m, Head(gq))
        BY <1>2, <3>2 DEF TakeGlobal
      <4>3. QueueTypes'
        BY <1>2, <3>1, <3>2, <4>1, <1>0 DEF TakeGlobal, QueueTypes
      <4>4. /\ cur' \in [Ms -> Gs \cup {NULL}] /\ pc' \in [Ms -> PCs]
            /\ ProcTypes'
        BY <3>1, <4>1, <4>2, <1>0, DispatchType DEF ProcTypes
      <4>5. ThreadTypes'
        BY <1>2, <3>2, <4>4, <1>0 DEF TakeGlobal, ThreadTypes
      <4> QED
        BY <4>3, <4>4, <4>5
    <3>3. CASE ~(gq # <<>>)
      <4>1. UNCHANGED <<gq, rq, cur, curG, tick, mp, hp, spin>>
        BY <1>2, <3>3 DEF TakeGlobal
      <4>2. pc' \in [Ms -> PCs] /\ scan' \in [Ms -> 0 .. NumP]
        <5>1. pc \in [Ms -> PCs] /\ scan \in [Ms -> 0 .. NumP] /\ 0 \in 0 .. NumP
          BY <1>0 DEF ThreadTypes
        <5> QED
          BY <1>2, <3>3, <5>1 DEF TakeGlobal, AfterGlobal, PCs
      <4> QED
        BY <4>1, <4>2, <1>0 DEF QueueTypes, ProcTypes, ThreadTypes
    <3> QED
      BY <3>2, <3>3
  <2>2. StackTypes' /\ GTypes' /\ SysmonTypes' /\ MainTypes'
    BY <1>2, <1>0 DEF TakeGlobal, StackTypes, GTypes, SysmonTypes, MainTypes
  <2> QED
    BY <2>1, <2>2 DEF TypeOK
<1>3. ASSUME NEW m \in Ms, TakeLocal(m)
      PROVE  TypeOK'
  <2>1. QueueTypes' /\ ProcTypes' /\ ThreadTypes'
    <3>1. mp[m] \in Ps
      BY <1>3, <1>0 DEF TakeLocal, PcInv, Searching, ThreadTypes
    <3>2. CASE rq[mp[m]] # <<>>
      <4>1. Head(rq[mp[m]]) \in Gs /\ Tail(rq[mp[m]]) \in Seq(Gs)
        BY <3>1, <3>2, <1>0 DEF QueueTypes
      <4>2. Dispatch(m, Head(rq[mp[m]]))
        BY <1>3, <3>2 DEF TakeLocal
      <4>3. QueueTypes'
        BY <1>3, <3>1, <3>2, <4>1, <1>0 DEF TakeLocal, QueueTypes
      <4>4. /\ cur' \in [Ms -> Gs \cup {NULL}] /\ pc' \in [Ms -> PCs]
            /\ ProcTypes'
        BY <3>1, <4>1, <4>2, <1>0, DispatchType DEF ProcTypes
      <4>5. ThreadTypes'
        BY <1>3, <3>2, <4>4, <1>0 DEF TakeLocal, ThreadTypes
      <4> QED
        BY <4>3, <4>4, <4>5
    <3>3. CASE ~(rq[mp[m]] # <<>>)
      <4>1. UNCHANGED <<gq, rq, cur, curG, tick, mp, hp, spin>>
        BY <1>3, <3>3 DEF TakeLocal
      <4>2. pc' \in [Ms -> PCs] /\ scan' \in [Ms -> 0 .. NumP]
        <5>1. pc \in [Ms -> PCs] /\ scan \in [Ms -> 0 .. NumP] /\ 0 \in 0 .. NumP
          BY <1>0 DEF ThreadTypes
        <5> QED
          BY <1>3, <3>3, <5>1 DEF TakeLocal, PCs
      <4> QED
        BY <4>1, <4>2, <1>0 DEF QueueTypes, ProcTypes, ThreadTypes
    <3> QED
      BY <3>2, <3>3
  <2>2. StackTypes' /\ GTypes' /\ SysmonTypes' /\ MainTypes'
    BY <1>3, <1>0 DEF TakeLocal, StackTypes, GTypes, SysmonTypes, MainTypes
  <2> QED
    BY <2>1, <2>2 DEF TypeOK
<1>4. ASSUME NEW m \in Ms, Steal(m)
      PROVE  TypeOK'
  <2>1. QueueTypes' /\ ProcTypes' /\ ThreadTypes'
    <3> DEFINE v == scan[m]
               k == StealCount(Len(rq[v]))
               Found == v < NumP /\ v # mp[m] /\ rq[v] # <<>>
    <3>1. mp[m] \in Ps /\ v \in 0 .. NumP
      BY <1>4, <1>0 DEF Steal, PcInv, Searching, ThreadTypes
    <3>2. scan' \in [Ms -> 0 .. NumP]
      <4>1. 0 \in 0 .. NumP /\ (v < NumP => v + 1 \in 0 .. NumP)
        BY <3>1, Domains
      <4> QED
        BY <1>4, <4>1, <1>0 DEF Steal, ThreadTypes
    <3>3. CASE Found
      <4>1. v \in Ps /\ rq[v] \in Seq(Gs) /\ Len(rq[v]) \in Nat \ {0}
        BY <3>1, <3>3, <1>0 DEF QueueTypes, Ps
      <4>2. Head(rq[v]) \in Gs
        BY <3>3, <4>1
      <4>3. Dispatch(m, Head(rq[v])) /\ UNCHANGED <<gq, mp, hp, spin>>
        BY <1>4, <3>3 DEF Steal
      <4>4. k \in 1 .. Len(rq[v])
        BY <4>1, StealCountRange
      <4>5. Left(rq[v], k) \in Seq(Gs) /\ SubSeq(rq[v], 2, k) \in Seq(Gs)
        BY <4>1, <4>4, SubSeqType DEF Left
      <4>6. rq[mp[m]] \o SubSeq(rq[v], 2, k) \in Seq(Gs)
        BY <3>1, <4>5, <1>0, ConcatType DEF QueueTypes
      <4>7. rq' \in [Ps -> Seq(Gs)]
        BY <1>4, <3>1, <3>3, <4>1, <4>5, <4>6, <1>0 DEF Steal, QueueTypes
      <4>8. QueueTypes'
        BY <4>3, <4>7, <1>0 DEF QueueTypes
      <4>9. /\ cur' \in [Ms -> Gs \cup {NULL}] /\ pc' \in [Ms -> PCs]
            /\ ProcTypes'
        BY <3>1, <4>2, <4>3, <1>0, DispatchType DEF ProcTypes
      <4>10. ThreadTypes'
        BY <3>2, <4>3, <4>9, <1>0 DEF ThreadTypes
      <4> QED
        BY <4>8, <4>9, <4>10
    <3>4. CASE ~Found
      <4>1. UNCHANGED <<gq, rq, cur, curG, tick, mp, hp, spin>>
        BY <1>4, <3>4 DEF Steal
      <4>2. pc' \in [Ms -> PCs]
        BY <1>4, <3>4, <1>0 DEF Steal, ThreadTypes, PCs
      <4> QED
        BY <3>2, <4>1, <4>2, <1>0 DEF QueueTypes, ProcTypes, ThreadTypes
    <3> QED
      BY <3>3, <3>4
  <2>2. StackTypes' /\ GTypes' /\ SysmonTypes' /\ MainTypes'
    BY <1>4, <1>0 DEF Steal, StackTypes, GTypes, SysmonTypes, MainTypes
  <2> QED
    BY <2>1, <2>2 DEF TypeOK
<1>5. ASSUME NEW m \in Ms, ParkM(m)
      PROVE  TypeOK'
  <2>1. ThreadTypes'
    BY <1>5, <1>0 DEF ParkM, WorkAppeared, ThreadTypes, PCs
  <2>2. StackTypes'
    <3>1. <<m>> \o idle \in Seq(Ms)
      BY <1>0, ElemsPush DEF StackTypes
    <3> QED
      BY <1>5, <3>1, <1>0 DEF ParkM, StackTypes
  <2>3. QueueTypes' /\ ProcTypes' /\ GTypes' /\ SysmonTypes' /\ MainTypes'
    BY <1>5, <1>0 DEF ParkM, QueueTypes, ProcTypes, GTypes, SysmonTypes,
       MainTypes
  <2> QED
    BY <2>1, <2>2, <2>3 DEF TypeOK
<1>6. ASSUME NEW m \in Ms, ParkSpare(m)
      PROVE  TypeOK'
  <2>1. ThreadTypes'
    BY <1>6, <1>0 DEF ParkSpare, ThreadTypes, PCs
  <2>2. StackTypes'
    BY <1>6, <1>0 DEF ParkSpare, StackTypes
  <2>3. QueueTypes' /\ ProcTypes' /\ GTypes' /\ SysmonTypes' /\ MainTypes'
    BY <1>6, <1>0 DEF ParkSpare, QueueTypes, ProcTypes, GTypes, SysmonTypes,
       MainTypes
  <2> QED
    BY <2>1, <2>2, <2>3 DEF TypeOK
<1>7. ASSUME NEW m \in Ms, WaitCheck(m)
      PROVE  TypeOK'
  <2>1. ThreadTypes'
    BY <1>7, <1>0 DEF WaitCheck, Woken, ThreadTypes, PCs
  <2>2. QueueTypes' /\ ProcTypes' /\ StackTypes' /\ GTypes' /\ SysmonTypes' /\ MainTypes'
    BY <1>7, <1>0 DEF WaitCheck, QueueTypes, ProcTypes, StackTypes, GTypes,
       SysmonTypes, MainTypes
  <2> QED
    BY <2>1, <2>2 DEF TypeOK
<1>8. ASSUME NEW m \in Ms, StartM(m)
      PROVE  TypeOK'
  <2>1. ThreadTypes'
    BY <1>8, <1>0 DEF StartM, SignalSpare, ThreadTypes, PCs
  <2>2. StackTypes'
    <3>1. CASE spare # <<>>
      <4>1. Head(spare) \in Ms /\ Tail(spare) \in Seq(Ms)
        BY <3>1, <1>0 DEF StackTypes
      <4>2. /\ spare' = Tail(spare) /\ UNCHANGED <<idle, allM>>
            /\ waking' = [waking EXCEPT ![m] = Head(spare)]
        BY <1>8, <3>1 DEF StartM, SignalSpare
      <4> QED
        BY <4>1, <4>2, <1>0 DEF StackTypes
    <3>2. CASE spare = <<>>
      BY <1>8, <3>2, <1>0 DEF StartM, StackTypes
    <3> QED
      BY <3>1, <3>2
  <2>3. QueueTypes' /\ ProcTypes' /\ GTypes' /\ SysmonTypes' /\ MainTypes'
    BY <1>8, <1>0 DEF StartM, QueueTypes, ProcTypes, GTypes, SysmonTypes,
       MainTypes
  <2> QED
    BY <2>1, <2>2, <2>3 DEF TypeOK
<1>9. ASSUME NEW m \in Ms, ReleaseParkMutex(m)
      PROVE  TypeOK'
  <2>1. ThreadTypes'
    BY <1>9, <1>0 DEF ReleaseParkMutex, ThreadTypes, PCs
  <2>2. GTypes'
    BY <1>9, <1>0 DEF ReleaseParkMutex, GTypes
  <2>3. QueueTypes' /\ ProcTypes' /\ StackTypes' /\ SysmonTypes' /\ MainTypes'
    BY <1>9, <1>0 DEF ReleaseParkMutex, QueueTypes, ProcTypes, StackTypes,
       SysmonTypes, MainTypes
  <2> QED
    BY <2>1, <2>2, <2>3 DEF TypeOK
<1>10. ASSUME NEW m \in Ms, AfterRelease(m)
      PROVE  TypeOK'
  <2>1. ProcTypes'
    BY <1>10, <1>0 DEF AfterRelease, ClearCurG, ProcTypes
  <2>2. ThreadTypes'
    BY <1>10, <1>0 DEF AfterRelease, ClearCurG, ThreadTypes, PCs
  <2>3. QueueTypes' /\ StackTypes' /\ GTypes' /\ SysmonTypes' /\ MainTypes'
    BY <1>10, <1>0 DEF AfterRelease, QueueTypes, StackTypes, GTypes,
       SysmonTypes, MainTypes
  <2> QED
    BY <2>1, <2>2, <2>3 DEF TypeOK
<1>11. ASSUME NEW m \in Ms, YieldReenqueue(m)
      PROVE  TypeOK'
  <2>1. QueueTypes'
    <3>1. CASE pc[m] = "suspended"
      BY <1>11, <3>1, <1>0 DEF YieldReenqueue, QueueTypes
    <3>2. CASE pc[m] = "reenqueue"
      <4>1. Enqueue(m, mp[m], cur[m])
        BY <1>11, <3>2 DEF YieldReenqueue
      <4>2. mp[m] \in Ps \cup {NULL} /\ cur[m] \in Gs
        BY <3>2, <1>0 DEF PcInv, Executing, ThreadTypes
      <4> QED
        BY <4>1, <4>2, <1>0, EnqueueType DEF QueueTypes, StackTypes
    <3> QED
      BY <1>11, <3>1, <3>2 DEF YieldReenqueue
  <2>2. ProcTypes'
    BY <1>11, <1>0 DEF YieldReenqueue, ClearCurG, Enqueue, ProcTypes
  <2>3. ThreadTypes'
    BY <1>11, <1>0 DEF YieldReenqueue, ClearCurG, Enqueue, ThreadTypes, PCs
  <2>4. StackTypes'
    BY <1>11, <1>0 DEF YieldReenqueue, ClearCurG, Enqueue, StackTypes
  <2>5. GTypes' /\ SysmonTypes' /\ MainTypes'
    BY <1>11, <1>0 DEF YieldReenqueue, GTypes, SysmonTypes, MainTypes
  <2> QED
    BY <2>1, <2>2, <2>3, <2>4, <2>5 DEF TypeOK
<1>12. ASSUME NEW m \in Ms, ExitLock(m)
      PROVE  TypeOK'
  <2>1. ThreadTypes'
    BY <1>12, <1>0 DEF ExitLock, ThreadTypes, PCs
  <2>2. GTypes'
    BY <1>12, <1>0 DEF ExitLock, GTypes
  <2>3. QueueTypes' /\ ProcTypes' /\ StackTypes' /\ SysmonTypes' /\ MainTypes'
    BY <1>12, <1>0 DEF ExitLock, QueueTypes, ProcTypes, StackTypes,
       SysmonTypes, MainTypes
  <2> QED
    BY <2>1, <2>2, <2>3 DEF TypeOK
<1>13. ASSUME NEW m \in Ms, ExitUnlock(m)
      PROVE  TypeOK'
  <2>1. ThreadTypes'
    BY <1>13, <1>0 DEF ExitUnlock, ThreadTypes, PCs
  <2>2. GTypes'
    BY <1>13, <1>0 DEF ExitUnlock, GTypes
  <2>3. QueueTypes' /\ ProcTypes' /\ StackTypes' /\ SysmonTypes' /\ MainTypes'
    BY <1>13, <1>0 DEF ExitUnlock, QueueTypes, ProcTypes, StackTypes,
       SysmonTypes, MainTypes
  <2> QED
    BY <2>1, <2>2, <2>3 DEF TypeOK
<1>14. ASSUME NEW m \in Ms, ExitFree(m)
      PROVE  TypeOK'
  <2>1. ThreadTypes'
    BY <1>14, <1>0 DEF ExitFree, ThreadTypes, PCs
  <2>2. GTypes'
    BY <1>14, <1>0 DEF ExitFree, GTypes
  <2>3. MainTypes'
    BY <1>14, <1>0 DEF ExitFree, MainTypes
  <2>4. QueueTypes' /\ ProcTypes' /\ StackTypes' /\ SysmonTypes'
    BY <1>14, <1>0 DEF ExitFree, QueueTypes, ProcTypes, StackTypes,
       SysmonTypes
  <2> QED
    BY <2>1, <2>2, <2>3, <2>4 DEF TypeOK
<1>15. ASSUME NEW m \in Ms, NEW g \in Gs, ExitWake(m, g)
      PROVE  TypeOK'
  <2>1. QueueTypes'
    <3>1. Enqueue(m, mp[m], g)
      BY <1>15 DEF ExitWake
    <3>2. mp[m] \in Ps \cup {NULL} /\ g \in Gs
      BY <1>15, <1>0 DEF ExitWake, PcInv, Executing, ThreadTypes
    <3> QED
      BY <3>1, <3>2, <1>0, EnqueueType DEF QueueTypes, StackTypes
  <2>2. StackTypes'
    BY <1>15, <1>0 DEF ExitWake, Enqueue, StackTypes
  <2>3. GTypes'
    BY <1>15, <1>0 DEF ExitWake, Enqueue, GTypes
  <2>4. ProcTypes' /\ ThreadTypes' /\ SysmonTypes' /\ MainTypes'
    BY <1>15, <1>0 DEF ExitWake, ProcTypes, ThreadTypes, SysmonTypes,
       MainTypes
  <2> QED
    BY <2>1, <2>2, <2>3, <2>4 DEF TypeOK
<1>16. ASSUME NEW m \in Ms, ParkEvent(m)
      PROVE  TypeOK'
  <2>1. ThreadTypes'
    BY <1>16, <1>0 DEF ParkEvent, Running, ThreadTypes, PCs
  <2>2. GTypes'
    BY <1>16, <1>0 DEF ParkEvent, Running, GTypes
  <2>3. QueueTypes' /\ ProcTypes' /\ StackTypes' /\ SysmonTypes' /\ MainTypes'
    BY <1>16, <1>0 DEF ParkEvent, QueueTypes, ProcTypes, StackTypes,
       SysmonTypes, MainTypes
  <2> QED
    BY <2>1, <2>2, <2>3 DEF TypeOK
<1>17. ASSUME NEW m \in Ms, Yield(m)
      PROVE  TypeOK'
  <2>1. ThreadTypes'
    BY <1>17, <1>0 DEF Yield, Running, ThreadTypes, PCs
  <2>2. GTypes'
    BY <1>17, <1>0 DEF Yield, Running, GTypes
  <2>3. QueueTypes' /\ ProcTypes' /\ StackTypes' /\ SysmonTypes' /\ MainTypes'
    BY <1>17, <1>0 DEF Yield, QueueTypes, ProcTypes, StackTypes, SysmonTypes,
       MainTypes
  <2> QED
    BY <2>1, <2>2, <2>3 DEF TypeOK
<1>18. ASSUME NEW m \in Ms, EnterSyscall(m)
      PROVE  TypeOK'
  <2>1. ProcTypes'
    BY <1>18, <1>0 DEF EnterSyscall, Running, DetachP, ProcTypes
  <2>2. ThreadTypes'
    BY <1>18, <1>0 DEF EnterSyscall, Running, DetachP, ThreadTypes, PCs
  <2>3. QueueTypes' /\ StackTypes' /\ GTypes' /\ SysmonTypes' /\ MainTypes'
    BY <1>18, <1>0 DEF EnterSyscall, QueueTypes, StackTypes, GTypes,
       SysmonTypes, MainTypes
  <2> QED
    BY <2>1, <2>2, <2>3 DEF TypeOK
<1>19. ASSUME NEW m \in Ms, Complete(m)
      PROVE  TypeOK'
  <2>1. ProcTypes'
    BY <1>19, <1>0 DEF Complete, Running, ClearCurG, ProcTypes
  <2>2. ThreadTypes'
    BY <1>19, <1>0 DEF Complete, Running, ClearCurG, ThreadTypes, PCs
  <2>3. QueueTypes' /\ StackTypes' /\ GTypes' /\ SysmonTypes' /\ MainTypes'
    BY <1>19, <1>0 DEF Complete, QueueTypes, StackTypes, GTypes, SysmonTypes,
       MainTypes
  <2> QED
    BY <2>1, <2>2, <2>3 DEF TypeOK
<1>20. ASSUME NEW m \in Ms, NEW g \in Gs, Spawn(m, g)
      PROVE  TypeOK'
  <2>1. QueueTypes'
    <3>1. Enqueue(m, mp[m], g)
      BY <1>20 DEF Spawn
    <3>2. mp[m] \in Ps \cup {NULL} /\ g \in Gs
      BY <1>20, <1>0 DEF Spawn, PcInv, Executing, ThreadTypes
    <3> QED
      BY <3>1, <3>2, <1>0, EnqueueType DEF QueueTypes, StackTypes
  <2>2. StackTypes'
    BY <1>20, <1>0 DEF Spawn, Running, Enqueue, Uninit, StackTypes
  <2>3. GTypes'
    BY <1>20, <1>0 DEF Spawn, Running, Enqueue, Uninit, GTypes
  <2>4. ProcTypes' /\ ThreadTypes' /\ SysmonTypes' /\ MainTypes'
    BY <1>20, <1>0 DEF Spawn, ProcTypes, ThreadTypes, SysmonTypes, MainTypes
  <2> QED
    BY <2>1, <2>2, <2>3, <2>4 DEF TypeOK
<1>21. ASSUME NEW m \in Ms, NEW g \in Gs, Unpark(m, g)
      PROVE  TypeOK'
  <2>1. QueueTypes'
    <3>1. Enqueue(m, mp[m], g)
      BY <1>21 DEF Unpark, Wake
    <3>2. mp[m] \in Ps \cup {NULL} /\ g \in Gs
      BY <1>21, <1>0 DEF Unpark, PcInv, Executing, ThreadTypes
    <3> QED
      BY <3>1, <3>2, <1>0, EnqueueType DEF QueueTypes, StackTypes
  <2>2. StackTypes'
    BY <1>21, <1>0 DEF Unpark, Running, Wake, Enqueue, StackTypes
  <2>3. GTypes'
    BY <1>21, <1>0 DEF Unpark, Running, Wake, Enqueue, GTypes
  <2>4. ProcTypes' /\ ThreadTypes' /\ SysmonTypes' /\ MainTypes'
    BY <1>21, <1>0 DEF Unpark, Wake, ProcTypes, ThreadTypes, SysmonTypes,
       MainTypes
  <2> QED
    BY <2>1, <2>2, <2>3, <2>4 DEF TypeOK
<1>22. ASSUME NEW m \in Ms, NEW g \in Gs, Join(m, g)
      PROVE  TypeOK'
  <2>1. ThreadTypes'
    BY <1>22, <1>0 DEF Join, Running, NotDone, ThreadTypes, PCs
  <2>2. GTypes'
    <3>1. cur[m] \in Gs
      BY <1>22, <1>0 DEF Join, Running, PcInv, Executing, ThreadTypes
    <3> QED
      BY <1>22, <3>1, <1>0 DEF Join, GTypes
  <2>3. QueueTypes' /\ ProcTypes' /\ StackTypes' /\ SysmonTypes' /\ MainTypes'
    BY <1>22, <1>0 DEF Join, QueueTypes, ProcTypes, StackTypes, SysmonTypes,
       MainTypes
  <2> QED
    BY <2>1, <2>2, <2>3 DEF TypeOK
<1>23. ASSUME NEW m \in Ms, SpuriousWakeup(m)
      PROVE  TypeOK'
  <2>1. ThreadTypes'
    BY <1>23, <1>0 DEF SpuriousWakeup, Signalled, ThreadTypes, PCs
  <2>2. QueueTypes' /\ ProcTypes' /\ StackTypes' /\ GTypes' /\ SysmonTypes' /\ MainTypes'
    BY <1>23, <1>0 DEF SpuriousWakeup, QueueTypes, ProcTypes, StackTypes,
       GTypes, SysmonTypes, MainTypes
  <2> QED
    BY <2>1, <2>2 DEF TypeOK
<1>24. ASSUME NEW t \in Threads, WakePop(t)
      PROVE  TypeOK'
  <2>1. StackTypes'
    <3>1. CASE idle # <<>>
      <4>1. Head(idle) \in Ms /\ Tail(idle) \in Seq(Ms)
        BY <3>1, <1>0 DEF StackTypes
      <4> QED
        BY <1>24, <3>1, <4>1, <1>0 DEF WakePop, StackTypes
    <3>2. CASE idle = <<>>
      BY <1>24, <3>2, <1>0 DEF WakePop, StackTypes
    <3> QED
      BY <3>1, <3>2
  <2>2. QueueTypes' /\ ProcTypes' /\ ThreadTypes' /\ GTypes' /\ SysmonTypes' /\ MainTypes'
    BY <1>24, <1>0 DEF WakePop, QueueTypes, ProcTypes, ThreadTypes, GTypes,
       SysmonTypes, MainTypes
  <2> QED
    BY <2>1, <2>2 DEF TypeOK
<1>25. ASSUME NEW t \in Threads, WakeSignal(t)
      PROVE  TypeOK'
  <2>1. ThreadTypes'
    BY <1>25, <1>0 DEF WakeSignal, Signalled, ThreadTypes, PCs
  <2>2. StackTypes'
    BY <1>25, <1>0 DEF WakeSignal, Signalled, StackTypes
  <2>3. QueueTypes' /\ ProcTypes' /\ GTypes' /\ SysmonTypes' /\ MainTypes'
    BY <1>25, <1>0 DEF WakeSignal, QueueTypes, ProcTypes, GTypes,
       SysmonTypes, MainTypes
  <2> QED
    BY <2>1, <2>2, <2>3 DEF TypeOK
<1>26. ASSUME NEW g \in Gs, ReactorUnpark(g)
      PROVE  TypeOK'
  <2>1. QueueTypes'
    <3>1. Enqueue(Reactor, NULL, g)
      BY <1>26 DEF ReactorUnpark, Wake
    <3>2. NULL \in Ps \cup {NULL} /\ g \in Gs
      BY <1>26, <1>0 DEF ReactorUnpark, PcInv, Executing, ThreadTypes
    <3> QED
      BY <3>1, <3>2, <1>0, EnqueueType DEF QueueTypes, StackTypes
  <2>2. StackTypes'
    BY <1>26, <1>0 DEF ReactorUnpark, Wake, Enqueue, StackTypes
  <2>3. GTypes'
    BY <1>26, <1>0 DEF ReactorUnpark, Wake, Enqueue, GTypes
  <2>4. ProcTypes' /\ ThreadTypes' /\ SysmonTypes' /\ MainTypes'
    BY <1>26, <1>0 DEF ReactorUnpark, Wake, ProcTypes, ThreadTypes,
       SysmonTypes, MainTypes
  <2> QED
    BY <2>1, <2>2, <2>3, <2>4 DEF TypeOK
<1>27. ASSUME SysmonLoad
      PROVE  TypeOK'
  <2>1. SysmonTypes'
    <3>1. smP \in Ps /\ smP + 1 \in 0 .. NumP
      BY <1>27, <1>0 DEF SysmonLoad, SysmonTypes, Ps
    <3>2. curG[smP] \in Gs \cup {NULL}
      BY <3>1, <1>0 DEF ProcTypes
    <3> QED
      BY <1>27, <3>1, <3>2, <1>0 DEF SysmonLoad, SysmonTypes
  <2>2. QueueTypes' /\ ProcTypes' /\ ThreadTypes' /\ StackTypes' /\ GTypes' /\ MainTypes'
    BY <1>27, <1>0 DEF SysmonLoad, QueueTypes, ProcTypes, ThreadTypes,
       StackTypes, GTypes, MainTypes
  <2> QED
    BY <2>1, <2>2 DEF TypeOK
<1>28. ASSUME SysmonStore
      PROVE  TypeOK'
  <2>1. GTypes'
    BY <1>28, <1>0 DEF SysmonStore, GTypes
  <2>2. SysmonTypes'
    BY <1>28, <1>0 DEF SysmonStore, SysmonTypes, PcInv
  <2>3. QueueTypes' /\ ProcTypes' /\ ThreadTypes' /\ StackTypes' /\ MainTypes'
    BY <1>28, <1>0 DEF SysmonStore, QueueTypes, ProcTypes, ThreadTypes,
       StackTypes, MainTypes
  <2> QED
    BY <2>1, <2>2, <2>3 DEF TypeOK
<1>29. ASSUME SysmonWake
      PROVE  TypeOK'
  <2>1. StackTypes'
    BY <1>29, <1>0 DEF SysmonWake, StackTypes
  <2>2. SysmonTypes'
    BY <1>29, <1>0 DEF SysmonWake, SysmonTypes
  <2>3. QueueTypes' /\ ProcTypes' /\ ThreadTypes' /\ GTypes' /\ MainTypes'
    BY <1>29, <1>0 DEF SysmonWake, QueueTypes, ProcTypes, ThreadTypes,
       GTypes, MainTypes
  <2> QED
    BY <2>1, <2>2, <2>3 DEF TypeOK
<1>30. ASSUME MainShutdown
      PROVE  TypeOK'
  <2>1. MainTypes'
    BY <1>30, <1>0 DEF MainShutdown, MainTypes
  <2>2. QueueTypes' /\ ProcTypes' /\ ThreadTypes' /\ StackTypes' /\ GTypes' /\ SysmonTypes'
    BY <1>30, <1>0 DEF MainShutdown, QueueTypes, ProcTypes, ThreadTypes,
       StackTypes, GTypes, SysmonTypes
  <2> QED
    BY <2>1, <2>2 DEF TypeOK
<1>31. ASSUME MainSnapshot
      PROVE  TypeOK'
  <2>1. MainTypes'
    BY <1>31, <1>0 DEF MainSnapshot, MainTypes, StackTypes
  <2>2. QueueTypes' /\ ProcTypes' /\ ThreadTypes' /\ StackTypes' /\ GTypes' /\ SysmonTypes'
    BY <1>31, <1>0 DEF MainSnapshot, QueueTypes, ProcTypes, ThreadTypes,
       StackTypes, GTypes, SysmonTypes
  <2> QED
    BY <2>1, <2>2 DEF TypeOK
<1>32. ASSUME NEW m \in Ms, MainSignal(m)
      PROVE  TypeOK'
  <2>1. ThreadTypes'
    BY <1>32, <1>0 DEF MainSignal, Signalled, ThreadTypes, PCs
  <2>2. MainTypes'
    BY <1>32, <1>0 DEF MainSignal, Signalled, MainTypes
  <2>3. QueueTypes' /\ ProcTypes' /\ StackTypes' /\ GTypes' /\ SysmonTypes'
    BY <1>32, <1>0 DEF MainSignal, QueueTypes, ProcTypes, StackTypes, GTypes,
       SysmonTypes
  <2> QED
    BY <2>1, <2>2, <2>3 DEF TypeOK
<1>33. ASSUME MainJoin
      PROVE  TypeOK'
  <2>1. MainTypes'
    BY <1>33, <1>0 DEF MainJoin, MainTypes
  <2>2. QueueTypes' /\ ProcTypes' /\ ThreadTypes' /\ StackTypes' /\ GTypes' /\ SysmonTypes'
    BY <1>33, <1>0 DEF MainJoin, QueueTypes, ProcTypes, ThreadTypes,
       StackTypes, GTypes, SysmonTypes
  <2> QED
    BY <2>1, <2>2 DEF TypeOK
<1>34. ASSUME UNCHANGED vars
      PROVE  TypeOK'
  BY <1>34, <1>0 DEF vars, TypeOK, QueueTypes, ProcTypes, ThreadTypes,
     StackTypes, GTypes, SysmonTypes, MainTypes
<1> QED
  BY <1>1, <1>2, <1>3, <1>4, <1>5, <1>6, <1>7, <1>8, <1>9, <1>10, <1>11,
     <1>12, <1>13, <1>14, <1>15, <1>16, <1>17, <1>18, <1>19, <1>20, <1>21,
     <1>22, <1>23, <1>24, <1>25, <1>26, <1>27, <1>28, <1>29, <1>30, <1>31,
     <1>32, <1>33, <1>34 DEF Next, MStep, GStep, WakerStep, SysmonStep,
     MainStep

\* A step keeps what the program counters say.
LEMMA PcStep ==
  ASSUME IInv, [Next]_vars
  PROVE  PcInv'
<1> USE Domains
<1>0. PcInv /\ StackInv /\ QueueTypes /\ ThreadTypes /\ StackTypes /\ SysmonTypes
  BY DEF IInv, TypeOK
<1>1. ASSUME NEW m \in Ms, Loop(m)
      PROVE  PcInv'
  BY <1>1, <1>0 DEF Loop, GlobalTurn, PcInv, Searching, Executing, ThreadTypes
<1>2. ASSUME NEW m \in Ms, TakeGlobal(m)
      PROVE  PcInv'
  <2>1. CASE gq # <<>>
    <3>2. Head(gq) \in Gs
      BY <2>1, <1>0 DEF QueueTypes
    <3>3. /\ pc' = [pc EXCEPT ![m] = "run"] /\ cur' = [cur EXCEPT ![m] = Head(gq)]
          /\ UNCHANGED <<mp, hp, allM, smP, smG>>
      BY <1>2, <2>1 DEF TakeGlobal, Dispatch
    <3> QED
      BY <1>2, <3>2, <3>3, <1>0 DEF TakeGlobal, PcInv, Searching, Executing,
         ThreadTypes
  <2>2. CASE ~(gq # <<>>)
    <3>1. UNCHANGED <<cur, mp, hp, allM, smP, smG>>
      BY <1>2, <2>2 DEF TakeGlobal
    <3> QED
      BY <1>2, <2>2, <3>1, <1>0
         DEF TakeGlobal, AfterGlobal, PcInv, Searching, Executing, ThreadTypes
  <2> QED
    BY <2>1, <2>2
<1>3. ASSUME NEW m \in Ms, TakeLocal(m)
      PROVE  PcInv'
  <2>1. CASE rq[mp[m]] # <<>>
    <3>1. mp[m] \in Ps
      BY <1>3, <2>1, <1>0 DEF TakeLocal, PcInv, Searching, ThreadTypes, Ps
    <3>2. Head(rq[mp[m]]) \in Gs
      BY <2>1, <3>1, <1>0 DEF QueueTypes
    <3>3. /\ pc' = [pc EXCEPT ![m] = "run"] /\ cur' = [cur EXCEPT ![m] = Head(rq[mp[m]])]
          /\ UNCHANGED <<mp, hp, allM, smP, smG>>
      BY <1>3, <2>1 DEF TakeLocal, Dispatch
    <3> QED
      BY <1>3, <3>2, <3>3, <1>0 DEF TakeLocal, PcInv, Searching, Executing,
         ThreadTypes
  <2>2. CASE ~(rq[mp[m]] # <<>>)
    <3>1. UNCHANGED <<cur, mp, hp, allM, smP, smG>>
      BY <1>3, <2>2 DEF TakeLocal
    <3> QED
      BY <1>3, <2>2, <3>1, <1>0
         DEF TakeLocal, PcInv, Searching, Executing, ThreadTypes
  <2> QED
    BY <2>1, <2>2
<1>4. ASSUME NEW m \in Ms, Steal(m)
      PROVE  PcInv'
  <2>1. CASE scan[m] < NumP /\ scan[m] # mp[m] /\ rq[scan[m]] # <<>>
    <3>1. scan[m] \in Ps
      BY <1>4, <2>1, <1>0 DEF Steal, PcInv, Searching, ThreadTypes, Ps
    <3>2. Head(rq[scan[m]]) \in Gs
      BY <2>1, <3>1, <1>0 DEF QueueTypes
    <3>3. /\ pc' = [pc EXCEPT ![m] = "run"] /\ cur' = [cur EXCEPT ![m] = Head(rq[scan[m]])]
          /\ UNCHANGED <<mp, hp, allM, smP, smG>>
      BY <1>4, <2>1 DEF Steal, Dispatch
    <3> QED
      BY <1>4, <3>2, <3>3, <1>0 DEF Steal, PcInv, Searching, Executing,
         ThreadTypes
  <2>2. CASE ~(scan[m] < NumP /\ scan[m] # mp[m] /\ rq[scan[m]] # <<>>)
    <3>1. UNCHANGED <<cur, mp, hp, allM, smP, smG>>
      BY <1>4, <2>2 DEF Steal
    <3> QED
      BY <1>4, <2>2, <3>1, <1>0
         DEF Steal, PcInv, Searching, Executing, ThreadTypes
  <2> QED
    BY <2>1, <2>2
<1>5. ASSUME NEW m \in Ms, ParkM(m)
      PROVE  PcInv'
  BY <1>5, <1>0 DEF ParkM, WorkAppeared, PcInv, Searching, Executing,
     ThreadTypes
<1>6. ASSUME NEW m \in Ms, ParkSpare(m)
      PROVE  PcInv'
  BY <1>6, <1>0 DEF ParkSpare, PcInv, Searching, Executing, ThreadTypes
<1>7. ASSUME NEW m \in Ms, WaitCheck(m)
      PROVE  PcInv'
  BY <1>7, <1>0 DEF WaitCheck, Woken, PcInv, Searching, Executing, ThreadTypes
<1>8. ASSUME NEW m \in Ms, StartM(m)
      PROVE  PcInv'
  <2>1. hp[m] # NULL /\ hp' = [hp EXCEPT ![m] = NULL] /\ UNCHANGED <<cur, smP, smG>>
    BY <1>8, <1>0 DEF StartM, PcInv
  <2>2. CASE spare # <<>>
    <3> DEFINE s == Head(spare)
    <3>1. s \in Ms /\ Waits(s, {"spared", "sparechk"})
      BY <2>2, <1>0, ElemsTail DEF StackInv, SpareInv, StackTypes
    <3>2. mp' = [mp EXCEPT ![s] = hp[m]] /\ pc' = [pc EXCEPT ![m] = "run"]
          /\ UNCHANGED allM
      BY <1>8, <2>2 DEF StartM
    <3> HIDE DEF s
    <3> QED
      BY <1>8, <2>1, <3>1, <3>2, <1>0
         DEF StartM, Waits, PcInv, Searching, Executing, ThreadTypes
  <2>3. CASE spare = <<>> /\ allM # Ms
    <3>1. PICK n \in Ms \ allM :
            /\ allM' = allM \cup {n}
            /\ mp' = [mp EXCEPT ![n] = hp[m]]
            /\ pc' = [pc EXCEPT ![m] = "run", ![n] = "loop"]
      BY <1>8, <2>3 DEF StartM
    <3> QED
      BY <1>8, <2>1, <3>1, <1>0
         DEF StartM, PcInv, Searching, Executing, ThreadTypes
  <2>4. CASE spare = <<>> /\ allM = Ms
    BY <1>8, <2>1, <2>4, <1>0
       DEF StartM, PcInv, Searching, Executing, ThreadTypes
  <2> QED
    BY <2>2, <2>3, <2>4
<1>9. ASSUME NEW m \in Ms, ReleaseParkMutex(m)
      PROVE  PcInv'
  BY <1>9, <1>0 DEF ReleaseParkMutex, PcInv, Searching, Executing, ThreadTypes
<1>10. ASSUME NEW m \in Ms, AfterRelease(m)
      PROVE  PcInv'
  BY <1>10, <1>0 DEF AfterRelease, ClearCurG, PcInv, Searching, Executing,
     ThreadTypes
<1>11. ASSUME NEW m \in Ms, YieldReenqueue(m)
      PROVE  PcInv'
  BY <1>11, <1>0 DEF YieldReenqueue, ClearCurG, Enqueue, PcInv, Searching,
     Executing, ThreadTypes
<1>12. ASSUME NEW m \in Ms, ExitLock(m)
      PROVE  PcInv'
  BY <1>12, <1>0 DEF ExitLock, PcInv, Searching, Executing, ThreadTypes
<1>13. ASSUME NEW m \in Ms, ExitUnlock(m)
      PROVE  PcInv'
  BY <1>13, <1>0 DEF ExitUnlock, PcInv, Searching, Executing, ThreadTypes
<1>14. ASSUME NEW m \in Ms, ExitFree(m)
      PROVE  PcInv'
  BY <1>14, <1>0 DEF ExitFree, PcInv, Searching, Executing, ThreadTypes
<1>15. ASSUME NEW m \in Ms, ParkEvent(m)
      PROVE  PcInv'
  BY <1>15, <1>0 DEF ParkEvent, Running, PcInv, Searching, Executing,
     ThreadTypes
<1>16. ASSUME NEW m \in Ms, Yield(m)
      PROVE  PcInv'
  BY <1>16, <1>0 DEF Yield, Running, PcInv, Searching, Executing, ThreadTypes
<1>17. ASSUME NEW m \in Ms, EnterSyscall(m)
      PROVE  PcInv'
  BY <1>17, <1>0 DEF EnterSyscall, Running, DetachP, PcInv, Searching,
     Executing, ThreadTypes
<1>18. ASSUME NEW m \in Ms, Complete(m)
      PROVE  PcInv'
  BY <1>18, <1>0 DEF Complete, Running, ClearCurG, PcInv, Searching,
     Executing, ThreadTypes
<1>19. ASSUME NEW m \in Ms, NEW g \in Gs, Join(m, g)
      PROVE  PcInv'
  BY <1>19, <1>0 DEF Join, Running, NotDone, PcInv, Searching, Executing,
     ThreadTypes
<1>20. ASSUME NEW m \in Ms, SpuriousWakeup(m)
      PROVE  PcInv'
  BY <1>20, <1>0 DEF SpuriousWakeup, Signalled, PcInv, Searching, Executing,
     ThreadTypes
<1>21. ASSUME NEW t \in Threads, WakeSignal(t)
      PROVE  PcInv'
  BY <1>21, <1>0 DEF WakeSignal, Signalled, PcInv, Searching, Executing,
     ThreadTypes
<1>22. ASSUME SysmonLoad
      PROVE  PcInv'
  BY <1>22, <1>0 DEF SysmonLoad, PcInv, Searching, Executing, ThreadTypes
<1>23. ASSUME SysmonStore
      PROVE  PcInv'
  BY <1>23, <1>0 DEF SysmonStore, PcInv, Searching, Executing, ThreadTypes
<1>24. ASSUME SysmonWake
      PROVE  PcInv'
  BY <1>24, <1>0 DEF SysmonWake, PcInv, Searching, Executing, ThreadTypes
<1>25. ASSUME NEW m \in Ms, MainSignal(m)
      PROVE  PcInv'
  BY <1>25, <1>0 DEF MainSignal, Signalled, PcInv, Searching, Executing,
     ThreadTypes
<1>26. ASSUME UNCHANGED <<pc, mp, hp, cur, allM, smP, smG>>
      PROVE  PcInv'
  BY <1>26, <1>0 DEF PcInv, Searching, Executing, ThreadTypes
<1> QED
  <2>1. ASSUME NEW m \in Ms, NEW g \in Gs, ExitWake(m, g)
        PROVE  UNCHANGED <<pc, mp, hp, cur, allM, smP, smG>>
    BY <2>1 DEF ExitWake
  <2>2. ASSUME NEW m \in Ms, NEW g \in Gs, Spawn(m, g)
        PROVE  UNCHANGED <<pc, mp, hp, cur, allM, smP, smG>>
    BY <2>2 DEF Spawn
  <2>3. ASSUME NEW m \in Ms, NEW g \in Gs, Unpark(m, g)
        PROVE  UNCHANGED <<pc, mp, hp, cur, allM, smP, smG>>
    BY <2>3 DEF Unpark, Wake
  <2>4. ASSUME NEW t \in Threads, WakePop(t)
        PROVE  UNCHANGED <<pc, mp, hp, cur, allM, smP, smG>>
    BY <2>4 DEF WakePop
  <2>5. ASSUME NEW g \in Gs, ReactorUnpark(g)
        PROVE  UNCHANGED <<pc, mp, hp, cur, allM, smP, smG>>
    BY <2>5 DEF ReactorUnpark, Wake
  <2>6. ASSUME MainShutdown
        PROVE  UNCHANGED <<pc, mp, hp, cur, allM, smP, smG>>
    BY <2>6 DEF MainShutdown
  <2>7. ASSUME MainSnapshot
        PROVE  UNCHANGED <<pc, mp, hp, cur, allM, smP, smG>>
    BY <2>7 DEF MainSnapshot
  <2>8. ASSUME MainJoin
        PROVE  UNCHANGED <<pc, mp, hp, cur, allM, smP, smG>>
    BY <2>8 DEF MainJoin
  <2>9. ASSUME UNCHANGED vars
        PROVE  UNCHANGED <<pc, mp, hp, cur, allM, smP, smG>>
    BY <2>9 DEF vars
  <2> QED
    BY <1>1, <1>2, <1>3, <1>4, <1>5, <1>6, <1>7, <1>8, <1>9, <1>10, <1>11,
       <1>12, <1>13, <1>14, <1>15, <1>16, <1>17, <1>18, <1>19, <1>20, <1>21,
       <1>22, <1>23, <1>24, <1>25, <1>26, <2>1, <2>2, <2>3, <2>4, <2>5, <2>6,
       <2>7, <2>8, <2>9 DEF Next, MStep, GStep, WakerStep, SysmonStep,
       MainStep

\* An M that does not wait is on no stack and nobody is about to signal it, so
\* it may go anywhere.
LEMMA MovesOffStack ==
  ASSUME IInv, NEW m \in Ms,
         pc[m] \in {"gfirst", "local", "global", "steal"},
         UNCHANGED <<mp, spin, idle, spare, waking, shutdown>>,
         \A x \in Ms : x # m => pc'[x] = pc[x]
  PROVE  StackInv'
<1>0. StackInv /\ Elems(idle) \subseteq Ms /\ Elems(spare) \subseteq Ms
  BY DEF IInv, TypeOK, StackTypes, Elems
<1>1. /\ m \notin Elems(spare) /\ m \notin Elems(idle)
      /\ \A t \in Threads : waking[t] # m
  BY <1>0 DEF StackInv, IdleInv, SpareInv, WakingInv, Waits
<1>2. IdleInv' /\ SpareInv'
  BY <1>0, <1>1 DEF StackInv, IdleInv, SpareInv, Waits, NoRepeat, Elems
<1>3. WakingInv'
  BY <1>0, <1>1 DEF StackInv, WakingInv, Waits, Elems
<1> QED
  BY <1>2, <1>3 DEF StackInv

\* A step keeps the discipline of the stacks.
LEMMA StackStep ==
  ASSUME IInv, [Next]_vars
  PROVE  StackInv'
<1> USE Domains
<1>0. /\ PcInv /\ StackInv /\ QueueTypes /\ ThreadTypes /\ StackTypes
      /\ Elems(idle) \subseteq Ms /\ Elems(spare) \subseteq Ms
  BY DEF IInv, TypeOK, StackTypes, Elems
<1>1. ASSUME NEW m \in Ms, Loop(m)
      PROVE  StackInv'
  <2>1. UNCHANGED <<mp, spin, idle, spare, waking, shutdown>>
    BY <1>1 DEF Loop
  <2>2. CASE shutdown
    <3>1. pc' = [pc EXCEPT ![m] = "exited"]
      BY <1>1, <2>2 DEF Loop
    <3> QED
      BY <2>1, <2>2, <3>1, <1>0 DEF StackInv, IdleInv, SpareInv, WakingInv,
         Waits, ThreadTypes
  <2>3. CASE ~shutdown
    <3>1. /\ m \notin Elems(spare) /\ m \notin Elems(idle)
          /\ \A t \in Threads : waking[t] # m
      BY <1>1, <2>3, <1>0 DEF Loop, StackInv, IdleInv, SpareInv, WakingInv,
         Waits
    <3>2. \A x \in Ms : x # m => pc'[x] = pc[x]
      BY <1>1, <1>0 DEF Loop, ThreadTypes
    <3> QED
      BY <2>1, <2>3, <3>1, <3>2, <1>0 DEF StackInv, IdleInv, SpareInv,
         WakingInv, Waits, ThreadTypes
  <2> QED
    BY <2>2, <2>3
<1>2. ASSUME NEW m \in Ms, TakeGlobal(m)
      PROVE  StackInv'
  <2>1. \A x \in Ms : x # m => pc'[x] = pc[x]
    BY <1>2, <1>0 DEF TakeGlobal, Dispatch, ThreadTypes
  <2> QED
    BY <1>2, <2>1, MovesOffStack DEF TakeGlobal
<1>3. ASSUME NEW m \in Ms, TakeLocal(m)
      PROVE  StackInv'
  <2>1. \A x \in Ms : x # m => pc'[x] = pc[x]
    BY <1>3, <1>0 DEF TakeLocal, Dispatch, ThreadTypes
  <2> QED
    BY <1>3, <2>1, MovesOffStack DEF TakeLocal
<1>4. ASSUME NEW m \in Ms, Steal(m)
      PROVE  StackInv'
  <2>1. \A x \in Ms : x # m => pc'[x] = pc[x]
    BY <1>4, <1>0 DEF Steal, Dispatch, ThreadTypes
  <2> QED
    BY <1>4, <2>1, MovesOffStack DEF Steal
<1>5. ASSUME NEW m \in Ms, ParkM(m)
      PROVE  StackInv'
  <2>1. m \notin Elems(idle) /\ \A t \in Threads : waking[t] # m
    BY <1>5, <1>0 DEF ParkM, StackInv, IdleInv, SpareInv, WakingInv, Waits
  <2>2. CASE WorkAppeared
    BY <1>5, <2>1, <2>2, <1>0 DEF ParkM, StackInv, IdleInv, SpareInv,
       WakingInv, Waits, ThreadTypes, StackTypes
  <2>3. CASE ~WorkAppeared
    <3>1. idle' = <<m>> \o idle /\ idle \in Seq(Ms) /\ NoRepeat(idle)
      BY <1>5, <2>3, <1>0 DEF ParkM, StackInv, IdleInv, StackTypes
    <3>4. NoRepeat(idle') /\ Elems(idle') = {m} \cup Elems(idle)
      BY <2>1, <3>1, ElemsPush
    <3>2. mp[m] # NULL /\ m \notin Elems(spare)
      BY <1>5, <1>0 DEF ParkM, PcInv, Searching, StackInv, IdleInv, SpareInv,
         WakingInv, Waits
    <3>3. /\ UNCHANGED <<mp, spare, waking, shutdown>>
          /\ spin' = [spin EXCEPT ![m] = FALSE]
          /\ pc' = [pc EXCEPT ![m] = IF shutdown THEN "loop" ELSE "parked"]
      BY <1>5, <2>3 DEF ParkM
    <3> QED
      <4>1. IdleInv'
        BY <2>1, <3>2, <3>3, <3>4, <1>0 DEF StackInv, IdleInv, Waits,
           ThreadTypes
      <4>2. SpareInv'
        BY <2>1, <3>2, <3>3, <1>0 DEF StackInv, SpareInv, Waits, ThreadTypes
      <4>3. WakingInv'
        BY <2>1, <3>3, <3>4, <1>0 DEF StackInv, WakingInv, Waits, ThreadTypes
      <4> QED
        BY <4>1, <4>2, <4>3 DEF StackInv
  <2> QED
    BY <2>2, <2>3
<1>6. ASSUME NEW m \in Ms, ParkSpare(m)
      PROVE  StackInv'
  <2>1. /\ m \notin Elems(spare) /\ m \notin Elems(idle)
        /\ \A t \in Threads : waking[t] # m
    BY <1>6, <1>0 DEF ParkSpare, StackInv, IdleInv, SpareInv, WakingInv, Waits
  <2>2. /\ NoRepeat(spare') /\ Elems(spare') = {m} \cup Elems(spare)
    BY <1>6, <2>1, <1>0, ElemsPush DEF ParkSpare, StackInv, IdleInv,
       SpareInv, WakingInv, StackTypes
  <2>3. mp[m] = NULL
    BY <1>6, <1>0 DEF ParkSpare, PcInv
  <2>4. /\ UNCHANGED <<mp, idle, waking, shutdown>>
        /\ spin' = [spin EXCEPT ![m] = FALSE]
        /\ pc' = [pc EXCEPT ![m] = IF shutdown THEN "loop" ELSE "spared"]
    BY <1>6 DEF ParkSpare
  <2>5. IdleInv'
    BY <2>1, <2>4, <1>0 DEF StackInv, IdleInv, Waits, ThreadTypes
  <2>6. SpareInv'
    BY <2>1, <2>2, <2>3, <2>4, <1>0 DEF StackInv, SpareInv, Waits, ThreadTypes
  <2>7. WakingInv'
    BY <2>1, <2>4, <1>0 DEF StackInv, WakingInv, Waits, ThreadTypes
  <2> QED
    BY <2>5, <2>6, <2>7 DEF StackInv
<1>7. ASSUME NEW m \in Ms, WaitCheck(m)
      PROVE  StackInv'
  BY <1>7, <1>0 DEF WaitCheck, Woken, StackInv, IdleInv, SpareInv, WakingInv,
     Waits, ThreadTypes, StackTypes
<1>8. ASSUME NEW m \in Ms, StartM(m)
      PROVE  StackInv'
  <2>1. hp[m] # NULL /\ UNCHANGED <<idle, spin, shutdown>>
    BY <1>8, <1>0 DEF StartM, PcInv
  <2>2. m \notin Elems(idle) /\ m \notin Elems(spare)
        /\ \A t \in Threads : waking[t] # m
    BY <1>8, <1>0 DEF StartM, StackInv, IdleInv, SpareInv, WakingInv, Waits
  <2>3. CASE spare # <<>>
    <3> DEFINE s == Head(spare)
    <3>1. /\ s \in Elems(spare) /\ s \in Ms
          /\ Elems(Tail(spare)) \subseteq Elems(spare)
          /\ NoRepeat(Tail(spare)) /\ s \notin Elems(Tail(spare))
      BY <2>3, <1>0, ElemsTail, NoRepeatTail DEF StackInv, IdleInv, SpareInv,
         WakingInv, StackTypes
    <3>2. /\ waking' = [waking EXCEPT ![m] = s] /\ spare' = Tail(spare)
          /\ mp' = [mp EXCEPT ![s] = hp[m]] /\ pc' = [pc EXCEPT ![m] = "run"]
      BY <1>8, <2>3 DEF StartM, SignalSpare
    <3>3. s \notin Elems(idle) /\ \A u \in Threads : waking[u] # s
      BY <3>1, <1>0 DEF StackInv, IdleInv, SpareInv, WakingInv, StackTypes
    <3> HIDE DEF s
    <3> QED
      BY <2>1, <2>2, <3>1, <3>2, <3>3, <1>0
         DEF StackInv, IdleInv, SpareInv, WakingInv, Waits, ThreadTypes,
         StackTypes
  <2>4. CASE spare = <<>> /\ allM # Ms
    <3>1. PICK n \in Ms \ allM :
            /\ mp' = [mp EXCEPT ![n] = hp[m]]
            /\ pc' = [pc EXCEPT ![m] = "run", ![n] = "loop"]
      BY <1>8, <2>4 DEF StartM
    <3>2. pc[n] = "off"
      BY <3>1, <1>0 DEF PcInv
    <3>3. n \notin Elems(idle) /\ n \notin Elems(spare)
          /\ \A t \in Threads : waking[t] # n
      BY <3>1, <3>2, <1>0 DEF StackInv, IdleInv, SpareInv, WakingInv, Waits
    <3>4. UNCHANGED <<spare, waking>>
      BY <1>8, <2>4 DEF StartM
    <3> QED
      BY <2>1, <2>2, <3>1, <3>3, <3>4, <1>0
         DEF StackInv, IdleInv, SpareInv, WakingInv, Waits, ThreadTypes,
         StackTypes
  <2>5. CASE spare = <<>> /\ allM = Ms
    <3>1. pc' = [pc EXCEPT ![m] = "run"] /\ UNCHANGED <<spare, waking, mp>>
      BY <1>8, <2>5 DEF StartM
    <3> QED
      BY <2>1, <2>2, <3>1, <1>0 DEF StackInv, IdleInv, SpareInv, WakingInv,
         Waits, ThreadTypes, StackTypes
  <2> QED
    BY <2>3, <2>4, <2>5
<1>9. ASSUME NEW m \in Ms, ReleaseParkMutex(m)
      PROVE  StackInv'
  BY <1>9, <1>0 DEF ReleaseParkMutex, StackInv, IdleInv, SpareInv, WakingInv,
     Waits, ThreadTypes, StackTypes
<1>10. ASSUME NEW m \in Ms, AfterRelease(m)
      PROVE  StackInv'
  BY <1>10, <1>0 DEF AfterRelease, ClearCurG, StackInv, IdleInv, SpareInv,
     WakingInv, Waits, ThreadTypes, StackTypes
<1>11. ASSUME NEW m \in Ms, YieldReenqueue(m)
      PROVE  StackInv'
  <2>1. /\ m \notin Elems(spare) /\ m \notin Elems(idle)
        /\ \A t \in Threads : waking[t] # m
    BY <1>11, <1>0 DEF YieldReenqueue, StackInv, IdleInv, SpareInv,
       WakingInv, Waits
  <2>2. UNCHANGED <<mp, spin, idle, spare, shutdown>>
    BY <1>11 DEF YieldReenqueue
  <2>3. \A x \in Ms : x # m => pc'[x] = pc[x]
    BY <1>11, <1>0 DEF YieldReenqueue, ThreadTypes
  <2>4. \A t \in Threads : waking'[t] = waking[t] \/ waking'[t] = POP
    BY <1>11, <1>0 DEF YieldReenqueue, Enqueue, StackTypes
  <2>5. IdleInv'
    BY <2>1, <2>2, <2>3, <1>0 DEF StackInv, IdleInv, Waits
  <2>6. SpareInv'
    BY <2>1, <2>2, <2>3, <1>0 DEF StackInv, SpareInv, Waits
  <2>7. WakingInv'
    BY <2>1, <2>2, <2>3, <2>4, <1>0 DEF StackInv, WakingInv, Waits
  <2> QED
    BY <2>5, <2>6, <2>7 DEF StackInv
<1>12. ASSUME NEW m \in Ms, ExitLock(m)
      PROVE  StackInv'
  BY <1>12, <1>0 DEF ExitLock, StackInv, IdleInv, SpareInv, WakingInv, Waits,
     ThreadTypes, StackTypes
<1>13. ASSUME NEW m \in Ms, ExitUnlock(m)
      PROVE  StackInv'
  BY <1>13, <1>0 DEF ExitUnlock, StackInv, IdleInv, SpareInv, WakingInv,
     Waits, ThreadTypes, StackTypes
<1>14. ASSUME NEW m \in Ms, ExitFree(m)
      PROVE  StackInv'
  BY <1>14, <1>0 DEF ExitFree, StackInv, IdleInv, SpareInv, WakingInv, Waits,
     ThreadTypes, StackTypes
<1>15. ASSUME NEW m \in Ms, NEW g \in Gs, ExitWake(m, g)
      PROVE  StackInv'
  BY <1>15, <1>0 DEF ExitWake, Enqueue, StackInv, IdleInv, SpareInv,
     WakingInv, Waits, ThreadTypes, StackTypes
<1>16. ASSUME NEW m \in Ms, ParkEvent(m)
      PROVE  StackInv'
  BY <1>16, <1>0 DEF ParkEvent, Running, StackInv, IdleInv, SpareInv,
     WakingInv, Waits, ThreadTypes, StackTypes
<1>17. ASSUME NEW m \in Ms, Yield(m)
      PROVE  StackInv'
  BY <1>17, <1>0 DEF Yield, Running, StackInv, IdleInv, SpareInv, WakingInv,
     Waits, ThreadTypes, StackTypes
<1>18. ASSUME NEW m \in Ms, EnterSyscall(m)
      PROVE  StackInv'
  BY <1>18, <1>0 DEF EnterSyscall, Running, DetachP, StackInv, IdleInv,
     SpareInv, WakingInv, Waits, ThreadTypes, StackTypes
<1>19. ASSUME NEW m \in Ms, Complete(m)
      PROVE  StackInv'
  BY <1>19, <1>0 DEF Complete, Running, ClearCurG, StackInv, IdleInv,
     SpareInv, WakingInv, Waits, ThreadTypes, StackTypes
<1>20. ASSUME NEW m \in Ms, NEW g \in Gs, Spawn(m, g)
      PROVE  StackInv'
  BY <1>20, <1>0 DEF Spawn, Running, Enqueue, Uninit, StackInv, IdleInv,
     SpareInv, WakingInv, Waits, ThreadTypes, StackTypes
<1>21. ASSUME NEW m \in Ms, NEW g \in Gs, Unpark(m, g)
      PROVE  StackInv'
  BY <1>21, <1>0 DEF Unpark, Running, Wake, Enqueue, StackInv, IdleInv,
     SpareInv, WakingInv, Waits, ThreadTypes, StackTypes
<1>22. ASSUME NEW m \in Ms, NEW g \in Gs, Join(m, g)
      PROVE  StackInv'
  BY <1>22, <1>0 DEF Join, Running, NotDone, StackInv, IdleInv, SpareInv,
     WakingInv, Waits, ThreadTypes, StackTypes
<1>23. ASSUME NEW m \in Ms, SpuriousWakeup(m)
      PROVE  StackInv'
  BY <1>23, <1>0 DEF SpuriousWakeup, Signalled, StackInv, IdleInv, SpareInv,
     WakingInv, Waits, ThreadTypes, StackTypes
<1>24. ASSUME NEW t \in Threads, WakePop(t)
      PROVE  StackInv'
  <2>1. CASE idle = <<>>
    BY <1>24, <2>1, <1>0 DEF WakePop, StackInv, IdleInv, SpareInv, WakingInv,
       Waits, StackTypes
  <2>2. CASE idle # <<>>
    <3> DEFINE s == Head(idle)
    <3>1. /\ s \in Elems(idle) /\ s \in Ms
          /\ Elems(Tail(idle)) \subseteq Elems(idle)
          /\ NoRepeat(Tail(idle)) /\ s \notin Elems(Tail(idle))
      BY <2>2, <1>0, ElemsTail, NoRepeatTail DEF StackInv, IdleInv, SpareInv,
         WakingInv, StackTypes
    <3>2. /\ waking' = [waking EXCEPT ![t] = s] /\ idle' = Tail(idle)
          /\ UNCHANGED <<pc, mp, spin, spare, shutdown>> /\ waking[t] = POP
      BY <1>24, <2>2 DEF WakePop
    <3>3. \A u \in Threads : waking[u] # s
      BY <3>1, <1>0 DEF StackInv, IdleInv, SpareInv, WakingInv, StackTypes
    <3> HIDE DEF s
    <3> QED
      BY <3>1, <3>2, <3>3, <1>0 DEF StackInv, IdleInv, SpareInv, WakingInv,
         Waits, StackTypes
  <2> QED
    BY <2>1, <2>2
<1>25. ASSUME NEW t \in Threads, WakeSignal(t)
      PROVE  StackInv'
  BY <1>25, <1>0 DEF WakeSignal, Signalled, StackInv, IdleInv, SpareInv,
     WakingInv, Waits, ThreadTypes, StackTypes
<1>26. ASSUME NEW g \in Gs, ReactorUnpark(g)
      PROVE  StackInv'
  BY <1>26, <1>0 DEF ReactorUnpark, Wake, Enqueue, StackInv, IdleInv,
     SpareInv, WakingInv, Waits, ThreadTypes, StackTypes
<1>27. ASSUME SysmonWake
      PROVE  StackInv'
  BY <1>27, <1>0 DEF SysmonWake, StackInv, IdleInv, SpareInv, WakingInv,
     Waits, ThreadTypes, StackTypes
<1>28. ASSUME MainShutdown
      PROVE  StackInv'
  BY <1>28, <1>0 DEF MainShutdown, StackInv, IdleInv, SpareInv, WakingInv,
     Waits, ThreadTypes, StackTypes
<1>29. ASSUME NEW m \in Ms, MainSignal(m)
      PROVE  StackInv'
  BY <1>29, <1>0 DEF MainSignal, Signalled, StackInv, IdleInv, SpareInv,
     WakingInv, Waits, ThreadTypes, StackTypes
<1>30. ASSUME UNCHANGED <<pc, mp, spin, idle, spare, waking, shutdown>>
      PROVE  StackInv'
  BY <1>30, <1>0 DEF StackInv, IdleInv, SpareInv, WakingInv, Waits,
     ThreadTypes, StackTypes
<1> QED
  <2>1. ASSUME SysmonLoad
        PROVE  UNCHANGED <<pc, mp, spin, idle, spare, waking, shutdown>>
    BY <2>1 DEF SysmonLoad
  <2>2. ASSUME SysmonStore
        PROVE  UNCHANGED <<pc, mp, spin, idle, spare, waking, shutdown>>
    BY <2>2 DEF SysmonStore
  <2>3. ASSUME MainSnapshot
        PROVE  UNCHANGED <<pc, mp, spin, idle, spare, waking, shutdown>>
    BY <2>3 DEF MainSnapshot
  <2>4. ASSUME MainJoin
        PROVE  UNCHANGED <<pc, mp, spin, idle, spare, waking, shutdown>>
    BY <2>4 DEF MainJoin
  <2>5. ASSUME UNCHANGED vars
        PROVE  UNCHANGED <<pc, mp, spin, idle, spare, waking, shutdown>>
    BY <2>5 DEF vars
  <2> QED
    BY <1>1, <1>2, <1>3, <1>4, <1>5, <1>6, <1>7, <1>8, <1>9, <1>10, <1>11,
       <1>12, <1>13, <1>14, <1>15, <1>16, <1>17, <1>18, <1>19, <1>20, <1>21,
       <1>22, <1>23, <1>24, <1>25, <1>26, <1>27, <1>28, <1>29, <1>30, <2>1,
       <2>2, <2>3, <2>4, <2>5 DEF Next, MStep, GStep, WakerStep, SysmonStep,
       MainStep

\* Only enter_syscall and startm move a P.
LEMMA OwnStep ==
  ASSUME IInv, [Next]_vars
  PROVE  POwnership'
<1> USE Domains
<1>0. /\ PcInv /\ StackInv /\ ThreadTypes /\ StackTypes /\ POwnership
  BY DEF IInv, TypeOK
<1>1. ASSUME NEW m \in Ms, EnterSyscall(m)
      PROVE  POwnership'
  <2>1. hp[m] = NULL /\ mp[m] # NULL
    BY <1>1, <1>0 DEF EnterSyscall, Running, PcInv
  <2>2. /\ mp' = [mp EXCEPT ![m] = NULL] /\ hp' = [hp EXCEPT ![m] = mp[m]]
        /\ UNCHANGED allM
    BY <1>1 DEF EnterSyscall, DetachP
  <2>3. \A p \in Ps : OwnersOf(p) # {} => OwnersOf(p)' # {}
    BY <2>1, <2>2, <1>0 DEF OwnersOf, ThreadTypes
  <2> QED
    BY <2>1, <2>2, <2>3, <1>0 DEF POwnership, ThreadTypes
<1>2. ASSUME NEW m \in Ms, StartM(m)
      PROVE  POwnership'
  <2>1. hp[m] # NULL /\ hp[m] \in Ps /\ hp' = [hp EXCEPT ![m] = NULL]
    BY <1>2, <1>0 DEF StartM, PcInv, ThreadTypes
  <2>2. ASSUME NEW n \in Ms, mp[n] = NULL, mp' = [mp EXCEPT ![n] = hp[m]],
               allM \subseteq allM'
        PROVE  POwnership'
    <3>1. \A p \in Ps : OwnersOf(p) # {} => OwnersOf(p)' # {}
      BY <2>1, <2>2, <1>0 DEF OwnersOf, ThreadTypes
    <3>2. allM = Ms => allM' = Ms
      BY <1>2, <2>2, <1>0 DEF StartM, StackTypes
    <3> QED
      BY <2>1, <2>2, <3>1, <3>2, <1>0 DEF POwnership, ThreadTypes
  <2>3. CASE spare # <<>>
    <3>1. Head(spare) \in Ms /\ mp[Head(spare)] = NULL
      BY <2>3, <1>0, ElemsTail DEF StackInv, SpareInv, StackTypes
    <3>2. mp' = [mp EXCEPT ![Head(spare)] = hp[m]] /\ UNCHANGED allM
      BY <1>2, <2>3 DEF StartM
    <3> QED
      BY <2>2, <3>1, <3>2
  <2>4. CASE spare = <<>> /\ allM # Ms
    <3>1. PICK n \in Ms \ allM :
            allM' = allM \cup {n} /\ mp' = [mp EXCEPT ![n] = hp[m]]
      BY <1>2, <2>4 DEF StartM
    <3>2. mp[n] = NULL
      BY <3>1, <1>0 DEF PcInv
    <3> QED
      BY <2>2, <3>1, <3>2
  <2>5. CASE spare = <<>> /\ allM = Ms
    <3>1. UNCHANGED <<mp, allM>>
      BY <1>2, <2>5 DEF StartM
    <3> QED
      BY <2>1, <2>5, <3>1, <1>0 DEF POwnership, OwnersOf, ThreadTypes
  <2> QED
    BY <2>3, <2>4, <2>5
<1>3. ASSUME UNCHANGED <<mp, hp, allM>>
      PROVE  POwnership'
  BY <1>3, <1>0 DEF POwnership, OwnersOf
<1>4. ASSUME NEW m \in Ms, MStep(m), ~StartM(m)
      PROVE  UNCHANGED <<mp, hp, allM>>
  BY <1>4 DEF MStep, Loop, TakeGlobal, TakeLocal, Steal, ParkM, ParkSpare,
     WaitCheck, ReleaseParkMutex, AfterRelease, YieldReenqueue, ExitLock,
     ExitUnlock, ExitFree, ExitWake
<1>5. ASSUME NEW m \in Ms, GStep(m), ~EnterSyscall(m)
      PROVE  UNCHANGED <<mp, hp, allM>>
  BY <1>5 DEF GStep, ParkEvent, Yield, Complete, Spawn, Unpark, Wake, Join
<1>6. ASSUME NEW m \in Ms, SpuriousWakeup(m)
      PROVE  UNCHANGED <<mp, hp, allM>>
  BY <1>6 DEF SpuriousWakeup
<1>7. ASSUME NEW t \in Threads, WakerStep(t)
      PROVE  UNCHANGED <<mp, hp, allM>>
  BY <1>7 DEF WakerStep, WakePop, WakeSignal
<1>8. ASSUME NEW g \in Gs, ReactorUnpark(g)
      PROVE  UNCHANGED <<mp, hp, allM>>
  BY <1>8 DEF ReactorUnpark, Wake
<1>9. ASSUME SysmonStep \/ MainStep \/ UNCHANGED vars
      PROVE  UNCHANGED <<mp, hp, allM>>
  BY <1>9 DEF SysmonStep, SysmonLoad, SysmonStore, SysmonWake, MainStep,
     MainShutdown, MainSnapshot, MainSignal, MainJoin, vars
<1> QED
  BY <1>1, <1>2, <1>3, <1>4, <1>5, <1>6, <1>7, <1>8, <1>9 DEF Next

(* The inductive invariant holds in every state of every behaviour.         *)
LEMMA Invariance == Spec => []IInv
<1>1. IInv /\ [Next]_vars => IInv'
  BY TypeStep, PcStep, StackStep, OwnStep DEF IInv
<1> QED
  BY <1>1, InitIInv, PTL DEF Spec

\* Every reachable state of the scheduler is well typed: in particular no M
\* indexes a ring, a tick or a goroutine through a null P or G.
THEOREM TypeCorrect == Spec => []TypeOK
<1>1. IInv => TypeOK
  BY DEF IInv
<1> QED
  BY <1>1, Invariance, PTL

\* For any number of processors, threads and handoffs (enter_syscall,
\* startm), no two Ms ever hold the same P, no P is held by an M and by a
\* startm call at once, and a P is without an M only after the cap on Ms is
\* reached.
THEOREM ExclusiveOwnership == Spec => []POwnership
<1>1. IInv => POwnership
  BY DEF IInv
<1> QED
  BY <1>1, Invariance, PTL

\* park_m, park_spare, wake_m and startm keep the idle and spare stacks
\* uncorrupted under spurious wakeups and concurrent pops.
THEOREM StacksStayWellFormed == Spec => []StackDiscipline
<1>1. IInv => StackDiscipline
  BY DEF IInv, StackInv, IdleInv, SpareInv, Waits, StackDiscipline
<1> QED
  BY <1>1, Invariance, PTL

-----------------------------------------------------------------------------
(* Wake-ups: which threads are inside wake_m or startm, and who signals an M.*)

\* An M that is inside wake_m or startm's signal is at one of the places that
\* call them, and sysmon calls wake_m only between two rounds.
BusyInv ==
  /\ \A m \in Ms :
       waking[m] # NULL => pc[m] \in {"run", "loop", "exitwake"}
  /\ waking[Sysmon] # NULL => smP = 0 /\ smG = NULL

\* An M in a wait loop that has not been told to leave it is on a stack, or
\* some thread has popped it and will signal it.
SignalInv ==
  \A m \in Ms :
    /\ pc[m] \in {"parked", "spared"} => ~spin[m]
    /\ pc[m] \in {"parked", "parkchk", "spared", "sparechk"} /\ ~spin[m]
         /\ m \notin Elems(idle) \cup Elems(spare) =>
         \E t \in Threads : waking[t] = m

(* A sequence holds its head and what its tail holds.                       *)
LEMMA ElemsHeadTail ==
  ASSUME NEW S, NEW s \in Seq(S), s # <<>>
  PROVE  Elems(s) = {Head(s)} \cup Elems(Tail(s))
<1>1. /\ DOMAIN s = 1 .. Len(s) /\ DOMAIN Tail(s) = 1 .. Len(s) - 1
      /\ Len(s) \in Nat \ {0} /\ Head(s) = s[1]
      /\ \A i \in 1 .. Len(s) - 1 : Tail(s)[i] = s[i + 1]
  OBVIOUS
<1>2. ASSUME NEW i \in DOMAIN s
      PROVE  s[i] \in {Head(s)} \cup Elems(Tail(s))
  <2>1. CASE i = 1
    BY <2>1, <1>1
  <2>2. CASE i # 1
    <3>1. i - 1 \in DOMAIN Tail(s) /\ Tail(s)[i - 1] = s[i]
      BY <2>2, <1>1
    <3> QED
      BY <3>1 DEF Elems
  <2> QED
    BY <2>1, <2>2
<1>3. Head(s) \in Elems(s) /\ Elems(Tail(s)) \subseteq Elems(s)
  BY ElemsTail
<1> QED
  BY <1>2, <1>3 DEF Elems

(* Only threads at the places of BusyInv are inside wake_m or startm.       *)
LEMMA BusyStep ==
  ASSUME IInv, BusyInv, [Next]_vars
  PROVE  BusyInv'
<1> USE Domains
<1>0. PcInv /\ StackInv /\ ThreadTypes /\ StackTypes /\ SysmonTypes /\ BusyInv
      /\ Sysmon \notin Ms /\ Reactor \notin Ms /\ Sysmon # Reactor
  BY SchedAssumption DEF IInv, TypeOK, Ms
<1>1. ASSUME NEW m \in Ms, Loop(m)
      PROVE  BusyInv'
  BY <1>1, <1>0 DEF Loop, GlobalTurn, Free, BusyInv, ThreadTypes, StackTypes,
     SysmonTypes
<1>2. ASSUME NEW m \in Ms, TakeGlobal(m)
      PROVE  BusyInv'
  BY <1>2, <1>0 DEF TakeGlobal, Dispatch, AfterGlobal, BusyInv, ThreadTypes,
     StackTypes, SysmonTypes
<1>3. ASSUME NEW m \in Ms, TakeLocal(m)
      PROVE  BusyInv'
  BY <1>3, <1>0 DEF TakeLocal, Dispatch, BusyInv, ThreadTypes, StackTypes,
     SysmonTypes
<1>4. ASSUME NEW m \in Ms, Steal(m)
      PROVE  BusyInv'
  BY <1>4, <1>0 DEF Steal, Dispatch, BusyInv, ThreadTypes, StackTypes,
     SysmonTypes
<1>5. ASSUME NEW m \in Ms, ParkM(m)
      PROVE  BusyInv'
  BY <1>5, <1>0 DEF ParkM, WorkAppeared, BusyInv, ThreadTypes, StackTypes,
     SysmonTypes
<1>6. ASSUME NEW m \in Ms, ParkSpare(m)
      PROVE  BusyInv'
  BY <1>6, <1>0 DEF ParkSpare, BusyInv, ThreadTypes, StackTypes, SysmonTypes
<1>7. ASSUME NEW m \in Ms, WaitCheck(m)
      PROVE  BusyInv'
  BY <1>7, <1>0 DEF WaitCheck, Woken, BusyInv, ThreadTypes, StackTypes,
     SysmonTypes
<1>8. ASSUME NEW m \in Ms, StartM(m)
      PROVE  BusyInv'
  BY <1>8, <1>0 DEF StartM, SignalSpare, BusyInv, ThreadTypes, StackTypes,
     SysmonTypes
<1>9. ASSUME NEW m \in Ms, ReleaseParkMutex(m)
      PROVE  BusyInv'
  BY <1>9, <1>0 DEF ReleaseParkMutex, BusyInv, ThreadTypes, StackTypes,
     SysmonTypes
<1>10. ASSUME NEW m \in Ms, AfterRelease(m)
       PROVE  BusyInv'
  BY <1>10, <1>0 DEF AfterRelease, ClearCurG, BusyInv, ThreadTypes,
     StackTypes, SysmonTypes
<1>11. ASSUME NEW m \in Ms, YieldReenqueue(m)
       PROVE  BusyInv'
  BY <1>11, <1>0 DEF YieldReenqueue, Enqueue, ClearCurG, BusyInv, ThreadTypes,
     StackTypes, SysmonTypes
<1>12. ASSUME NEW m \in Ms, ExitLock(m)
       PROVE  BusyInv'
  BY <1>12, <1>0 DEF ExitLock, BusyInv, ThreadTypes, StackTypes, SysmonTypes
<1>13. ASSUME NEW m \in Ms, ExitUnlock(m)
       PROVE  BusyInv'
  BY <1>13, <1>0 DEF ExitUnlock, Free, BusyInv, ThreadTypes, StackTypes,
     SysmonTypes
<1>14. ASSUME NEW m \in Ms, ExitFree(m)
       PROVE  BusyInv'
  BY <1>14, <1>0 DEF ExitFree, BusyInv, ThreadTypes, StackTypes, SysmonTypes
<1>15. ASSUME NEW m \in Ms, NEW g \in Gs, ExitWake(m, g)
       PROVE  BusyInv'
  BY <1>15, <1>0 DEF ExitWake, Enqueue, Free, BusyInv, ThreadTypes,
     StackTypes, SysmonTypes
<1>16. ASSUME NEW m \in Ms, ParkEvent(m)
       PROVE  BusyInv'
  BY <1>16, <1>0 DEF ParkEvent, Running, Free, BusyInv, ThreadTypes,
     StackTypes, SysmonTypes
<1>17. ASSUME NEW m \in Ms, Yield(m)
       PROVE  BusyInv'
  BY <1>17, <1>0 DEF Yield, Running, Free, BusyInv, ThreadTypes, StackTypes,
     SysmonTypes
<1>18. ASSUME NEW m \in Ms, EnterSyscall(m)
       PROVE  BusyInv'
  BY <1>18, <1>0 DEF EnterSyscall, Running, DetachP, Free, BusyInv,
     ThreadTypes, StackTypes, SysmonTypes
<1>19. ASSUME NEW m \in Ms, Complete(m)
       PROVE  BusyInv'
  BY <1>19, <1>0 DEF Complete, Running, ClearCurG, Free, BusyInv, ThreadTypes,
     StackTypes, SysmonTypes
<1>20. ASSUME NEW m \in Ms, NEW g \in Gs, Spawn(m, g)
       PROVE  BusyInv'
  BY <1>20, <1>0 DEF Spawn, Running, Enqueue, Free, BusyInv, ThreadTypes,
     StackTypes, SysmonTypes
<1>21. ASSUME NEW m \in Ms, NEW g \in Gs, Unpark(m, g)
       PROVE  BusyInv'
  BY <1>21, <1>0 DEF Unpark, Running, Wake, Enqueue, Free, BusyInv,
     ThreadTypes, StackTypes, SysmonTypes
<1>22. ASSUME NEW m \in Ms, NEW g \in Gs, Join(m, g)
       PROVE  BusyInv'
  BY <1>22, <1>0 DEF Join, Running, NotDone, Free, BusyInv, ThreadTypes,
     StackTypes, SysmonTypes
<1>23. ASSUME NEW m \in Ms, SpuriousWakeup(m)
       PROVE  BusyInv'
  BY <1>23, <1>0 DEF SpuriousWakeup, Signalled, BusyInv, ThreadTypes,
     StackTypes, SysmonTypes
<1>24. ASSUME NEW t \in Threads, WakePop(t)
       PROVE  BusyInv'
  BY <1>24, <1>0 DEF WakePop, BusyInv, ThreadTypes, StackTypes, SysmonTypes
<1>25. ASSUME NEW t \in Threads, WakeSignal(t)
       PROVE  BusyInv'
  BY <1>25, <1>0 DEF WakeSignal, Signalled, BusyInv, ThreadTypes, StackTypes,
     SysmonTypes
<1>26. ASSUME NEW g \in Gs, ReactorUnpark(g)
       PROVE  BusyInv'
  BY <1>26, <1>0 DEF ReactorUnpark, Wake, Enqueue, Free, BusyInv, ThreadTypes,
     StackTypes, SysmonTypes
<1>27. ASSUME SysmonLoad
       PROVE  BusyInv'
  BY <1>27, <1>0 DEF SysmonLoad, Free, BusyInv, ThreadTypes, StackTypes,
     SysmonTypes
<1>28. ASSUME SysmonStore
       PROVE  BusyInv'
  BY <1>28, <1>0 DEF SysmonStore, BusyInv, ThreadTypes, StackTypes,
     SysmonTypes
<1>29. ASSUME SysmonWake
       PROVE  BusyInv'
  BY <1>29, <1>0 DEF SysmonWake, BusyInv, ThreadTypes, StackTypes,
     SysmonTypes, PcInv
<1>30. ASSUME MainShutdown
       PROVE  BusyInv'
  BY <1>30, <1>0 DEF MainShutdown, Free, BusyInv, ThreadTypes, StackTypes,
     SysmonTypes
<1>31. ASSUME MainSnapshot
       PROVE  BusyInv'
  BY <1>31, <1>0 DEF MainSnapshot, BusyInv, ThreadTypes, StackTypes,
     SysmonTypes
<1>32. ASSUME NEW m \in Ms, MainSignal(m)
       PROVE  BusyInv'
  BY <1>32, <1>0 DEF MainSignal, Signalled, BusyInv, ThreadTypes, StackTypes,
     SysmonTypes
<1>33. ASSUME MainJoin
       PROVE  BusyInv'
  BY <1>33, <1>0 DEF MainJoin, BusyInv, ThreadTypes, StackTypes, SysmonTypes
<1>34. ASSUME UNCHANGED vars
       PROVE  BusyInv'
  BY <1>34, <1>0 DEF vars, BusyInv, ThreadTypes, StackTypes, SysmonTypes
<1> QED
  BY <1>1, <1>2, <1>3, <1>4, <1>5, <1>6, <1>7, <1>8, <1>9, <1>10, <1>11,
     <1>12, <1>13, <1>14, <1>15, <1>16, <1>17, <1>18, <1>19, <1>20, <1>21,
     <1>22, <1>23, <1>24, <1>25, <1>26, <1>27, <1>28, <1>29, <1>30, <1>31,
     <1>32, <1>33, <1>34 DEF Next, MStep, GStep, WakerStep, SysmonStep,
     MainStep

(* wake_m and startm pop an M and signal it later; until then the call      *)
(* itself remembers the M.                                                  *)
LEMMA SignalStep ==
  ASSUME IInv, BusyInv, SignalInv, [Next]_vars
  PROVE  SignalInv'
<1> USE Domains
<1>0. PcInv /\ StackInv /\ ThreadTypes /\ StackTypes /\ SysmonTypes /\ BusyInv
      /\ SignalInv
      /\ Sysmon \notin Ms /\ Reactor \notin Ms /\ Sysmon # Reactor
  BY SchedAssumption DEF IInv, TypeOK, Ms
<1>1. ASSUME NEW m \in Ms, Loop(m)
      PROVE  SignalInv'
  BY <1>1, <1>0 DEF Loop, GlobalTurn, Free, SignalInv, ThreadTypes, StackTypes
<1>2. ASSUME NEW m \in Ms, TakeGlobal(m)
      PROVE  SignalInv'
  BY <1>2, <1>0 DEF TakeGlobal, Dispatch, AfterGlobal, SignalInv, ThreadTypes,
     StackTypes
<1>3. ASSUME NEW m \in Ms, TakeLocal(m)
      PROVE  SignalInv'
  BY <1>3, <1>0 DEF TakeLocal, Dispatch, SignalInv, ThreadTypes, StackTypes
<1>4. ASSUME NEW m \in Ms, Steal(m)
      PROVE  SignalInv'
  BY <1>4, <1>0 DEF Steal, Dispatch, SignalInv, ThreadTypes, StackTypes
<1>5. ASSUME NEW m \in Ms, ParkM(m)
      PROVE  SignalInv'
  <2>1. WorkAppeared \/ Elems(idle') = {m} \cup Elems(idle)
    BY <1>5, <1>0, ElemsPush DEF ParkM, StackTypes
  <2> QED
    BY <1>5, <2>1, <1>0 DEF ParkM, SignalInv, ThreadTypes, StackTypes
<1>6. ASSUME NEW m \in Ms, ParkSpare(m)
      PROVE  SignalInv'
  <2>1. Elems(spare') = {m} \cup Elems(spare)
    BY <1>6, <1>0, ElemsPush DEF ParkSpare, StackTypes
  <2> QED
    BY <1>6, <2>1, <1>0 DEF ParkSpare, SignalInv, ThreadTypes, StackTypes
<1>7. ASSUME NEW m \in Ms, WaitCheck(m)
      PROVE  SignalInv'
  BY <1>7, <1>0 DEF WaitCheck, Woken, SignalInv, ThreadTypes, StackTypes
<1>8. ASSUME NEW m \in Ms, StartM(m)
      PROVE  SignalInv'
  <2>1. waking[m] = NULL /\ UNCHANGED <<idle, spin>>
    BY <1>8, <1>0 DEF StartM, BusyInv
  <2>2. CASE spare # <<>>
    <3>1. Elems(spare) = {Head(spare)} \cup Elems(Tail(spare))
      BY <2>2, <1>0, ElemsHeadTail DEF StackTypes
    <3>2. /\ waking' = [waking EXCEPT ![m] = Head(spare)]
          /\ spare' = Tail(spare) /\ pc' = [pc EXCEPT ![m] = "run"]
      BY <1>8, <2>2 DEF StartM, SignalSpare
    <3> QED
      BY <2>1, <3>1, <3>2, <1>0 DEF SignalInv, ThreadTypes, StackTypes
  <2>3. CASE spare = <<>>
    BY <1>8, <2>1, <2>3, <1>0 DEF StartM, SignalInv, ThreadTypes, StackTypes
  <2> QED
    BY <2>2, <2>3
<1>9. ASSUME NEW m \in Ms, ReleaseParkMutex(m)
      PROVE  SignalInv'
  BY <1>9, <1>0 DEF ReleaseParkMutex, SignalInv, ThreadTypes, StackTypes
<1>10. ASSUME NEW m \in Ms, AfterRelease(m)
       PROVE  SignalInv'
  BY <1>10, <1>0 DEF AfterRelease, ClearCurG, SignalInv, ThreadTypes,
     StackTypes
<1>11. ASSUME NEW m \in Ms, YieldReenqueue(m)
       PROVE  SignalInv'
  <2>1. /\ \A t \in Threads : waking'[t] = waking[t] \/ waking[t] = NULL
        /\ UNCHANGED <<spin, idle, spare>>
    BY <1>11, <1>0 DEF YieldReenqueue, Enqueue, BusyInv, StackTypes
  <2>2. \A n \in Ms : pc'[n] = pc[n] \/ pc'[n] \in {"reenqueue", "loop"}
    BY <1>11, <1>0 DEF YieldReenqueue, ThreadTypes
  <2> QED
    BY <2>1, <2>2, <1>0 DEF SignalInv
<1>12. ASSUME NEW m \in Ms, ExitLock(m)
       PROVE  SignalInv'
  BY <1>12, <1>0 DEF ExitLock, SignalInv, ThreadTypes, StackTypes
<1>13. ASSUME NEW m \in Ms, ExitUnlock(m)
       PROVE  SignalInv'
  BY <1>13, <1>0 DEF ExitUnlock, Free, SignalInv, ThreadTypes, StackTypes
<1>14. ASSUME NEW m \in Ms, ExitFree(m)
       PROVE  SignalInv'
  BY <1>14, <1>0 DEF ExitFree, SignalInv, ThreadTypes, StackTypes
<1>15. ASSUME NEW m \in Ms, NEW g \in Gs, ExitWake(m, g)
       PROVE  SignalInv'
  BY <1>15, <1>0 DEF ExitWake, Enqueue, Free, SignalInv, ThreadTypes,
     StackTypes
<1>16. ASSUME NEW m \in Ms, ParkEvent(m)
       PROVE  SignalInv'
  BY <1>16, <1>0 DEF ParkEvent, Running, Free, SignalInv, ThreadTypes,
     StackTypes
<1>17. ASSUME NEW m \in Ms, Yield(m)
       PROVE  SignalInv'
  BY <1>17, <1>0 DEF Yield, Running, Free, SignalInv, ThreadTypes, StackTypes
<1>18. ASSUME NEW m \in Ms, EnterSyscall(m)
       PROVE  SignalInv'
  BY <1>18, <1>0 DEF EnterSyscall, Running, DetachP, Free, SignalInv,
     ThreadTypes, StackTypes
<1>19. ASSUME NEW m \in Ms, Complete(m)
       PROVE  SignalInv'
  BY <1>19, <1>0 DEF Complete, Running, ClearCurG, Free, SignalInv,
     ThreadTypes, StackTypes
<1>20. ASSUME NEW m \in Ms, NEW g \in Gs, Spawn(m, g)
       PROVE  SignalInv'
  BY <1>20, <1>0 DEF Spawn, Running, Enqueue, Free, SignalInv, ThreadTypes,
     StackTypes
<1>21. ASSUME NEW m \in Ms, NEW g \in Gs, Unpark(m, g)
       PROVE  SignalInv'
  BY <1>21, <1>0 DEF Unpark, Running, Wake, Enqueue, Free, SignalInv,
     ThreadTypes, StackTypes
<1>22. ASSUME NEW m \in Ms, NEW g \in Gs, Join(m, g)
       PROVE  SignalInv'
  BY <1>22, <1>0 DEF Join, Running, NotDone, Free, SignalInv, ThreadTypes,
     StackTypes
<1>23. ASSUME NEW m \in Ms, SpuriousWakeup(m)
       PROVE  SignalInv'
  BY <1>23, <1>0 DEF SpuriousWakeup, Signalled, SignalInv, ThreadTypes,
     StackTypes
<1>24. ASSUME NEW t \in Threads, WakePop(t)
       PROVE  SignalInv'
  <2>1. CASE idle = <<>>
    BY <1>24, <2>1, <1>0 DEF WakePop, SignalInv, StackTypes
  <2>2. CASE idle # <<>>
    <3>1. Elems(idle) = {Head(idle)} \cup Elems(Tail(idle))
      BY <2>2, <1>0, ElemsHeadTail DEF StackTypes
    <3>2. /\ waking' = [waking EXCEPT ![t] = Head(idle)] /\ idle' = Tail(idle)
          /\ UNCHANGED <<pc, spin, spare>> /\ waking[t] = POP
      BY <1>24, <2>2 DEF WakePop
    <3> QED
      BY <3>1, <3>2, <1>0 DEF SignalInv, StackTypes
  <2> QED
    BY <2>1, <2>2
<1>25. ASSUME NEW t \in Threads, WakeSignal(t)
       PROVE  SignalInv'
  BY <1>25, <1>0 DEF WakeSignal, Signalled, SignalInv, ThreadTypes, StackTypes
<1>26. ASSUME NEW g \in Gs, ReactorUnpark(g)
       PROVE  SignalInv'
  BY <1>26, <1>0 DEF ReactorUnpark, Wake, Enqueue, Free, SignalInv,
     ThreadTypes, StackTypes
<1>27. ASSUME SysmonLoad
       PROVE  SignalInv'
  BY <1>27, <1>0 DEF SysmonLoad, Free, SignalInv, ThreadTypes, StackTypes
<1>28. ASSUME SysmonStore
       PROVE  SignalInv'
  BY <1>28, <1>0 DEF SysmonStore, SignalInv, ThreadTypes, StackTypes
<1>29. ASSUME SysmonWake
       PROVE  SignalInv'
  BY <1>29, <1>0 DEF SysmonWake, SignalInv, ThreadTypes, StackTypes, BusyInv,
     SysmonTypes
<1>30. ASSUME MainShutdown
       PROVE  SignalInv'
  BY <1>30, <1>0 DEF MainShutdown, Free, SignalInv, ThreadTypes, StackTypes
<1>31. ASSUME MainSnapshot
       PROVE  SignalInv'
  BY <1>31, <1>0 DEF MainSnapshot, SignalInv, ThreadTypes,
     StackTypes
<1>32. ASSUME NEW m \in Ms, MainSignal(m)
       PROVE  SignalInv'
  BY <1>32, <1>0 DEF MainSignal, Signalled, SignalInv, ThreadTypes, StackTypes
<1>33. ASSUME MainJoin
       PROVE  SignalInv'
  BY <1>33, <1>0 DEF MainJoin, SignalInv, ThreadTypes, StackTypes
<1>34. ASSUME UNCHANGED vars
       PROVE  SignalInv'
  BY <1>34, <1>0 DEF vars, SignalInv, ThreadTypes, StackTypes
<1> QED
  BY <1>1, <1>2, <1>3, <1>4, <1>5, <1>6, <1>7, <1>8, <1>9, <1>10, <1>11,
     <1>12, <1>13, <1>14, <1>15, <1>16, <1>17, <1>18, <1>19, <1>20, <1>21,
     <1>22, <1>23, <1>24, <1>25, <1>26, <1>27, <1>28, <1>29, <1>30, <1>31,
     <1>32, <1>33, <1>34 DEF Next, MStep, GStep, WakerStep, SysmonStep,
     MainStep

-----------------------------------------------------------------------------
(* The rings of the Ps.                                                     *)

\* The places of find_runnable and park_m that an M reaches only after it
\* found the ring of its own P empty.
Drained == {"global", "steal", "park", "parked", "parkchk"}

RingInv ==
  /\ RingBounded
  /\ \A m \in Ms : pc[m] \in Drained => rq[mp[m]] = <<>>

(* The thread of m, which is not looking for work any more, changes the     *)
(* rings: no other M works on its ring, so it is enough that the rings stay *)
(* within their size and that no ring but its own gets new work.            *)
LEMMA RingMoves ==
  ASSUME IInv, RingInv, NEW m \in Ms, pc'[m] \notin Drained, UNCHANGED mp,
         \A n \in Ms : n # m => pc'[n] = pc[n],
         \A p \in Ps : Len(rq'[p]) <= RqCap,
         \A p \in Ps : p # mp[m] /\ rq[p] = <<>> => rq'[p] = <<>>
  PROVE  RingInv'
<1>1. PcInv /\ ThreadTypes /\ POwnership /\ RingInv
  BY DEF IInv, TypeOK
<1>2. ASSUME NEW n \in Ms, pc'[n] \in Drained
      PROVE  n # m /\ pc[n] \in Drained /\ mp[n] \in Ps /\ mp[n] # mp[m]
  BY <1>1, <1>2 DEF PcInv, Searching, Drained, ThreadTypes, POwnership
<1> QED
  BY <1>1, <1>2 DEF RingInv, RingBounded

(* sched_enqueue tests for room, so the ring it appends to stays within its *)
(* size.                                                                    *)
LEMMA RingEnqueue ==
  ASSUME QueueTypes, RingBounded, NEW t \in Threads, NEW g \in Gs,
         NEW q \in Ps \cup {NULL}, Enqueue(t, q, g)
  PROVE  /\ \A p \in Ps : Len(rq'[p]) <= RqCap
         /\ \A p \in Ps : p # q => rq'[p] = rq[p]
<1> USE Domains
<1>1. CASE q # NULL /\ HasRoom(q)
  <2>1. q \in Ps /\ rq' = [rq EXCEPT ![q] = Append(@, g)]
    BY <1>1 DEF Enqueue
  <2>2. rq'[q] = Append(rq[q], g) /\ rq[q] \in Seq(Gs)
    BY <2>1 DEF QueueTypes
  <2>3. Len(rq'[q]) <= RqCap
    BY <2>2, <1>1, SchedAssumption DEF HasRoom
  <2>4. \A p \in Ps : p # q => rq'[p] = rq[p]
    BY <2>1 DEF QueueTypes
  <2> QED
    BY <2>3, <2>4 DEF RingBounded
<1>2. CASE ~(q # NULL /\ HasRoom(q))
  BY <1>2 DEF Enqueue, RingBounded
<1> QED
  BY <1>1, <1>2

(* Rings stay within their size, and an M gives up its ring only when it is *)
(* empty.                                                                   *)
LEMMA RingStep ==
  ASSUME IInv, RingInv, [Next]_vars
  PROVE  RingInv'
<1> USE Domains
<1>0. /\ PcInv /\ StackInv /\ ThreadTypes /\ StackTypes /\ QueueTypes
      /\ POwnership /\ RingInv /\ RqCap \in Nat \ {0}
  BY SchedAssumption DEF IInv, TypeOK
<1>1. ASSUME NEW m \in Ms, Loop(m)
      PROVE  RingInv'
  BY <1>1, <1>0 DEF Loop, GlobalTurn, Free, RingInv, RingBounded, Drained,
     ThreadTypes
<1>2. ASSUME NEW m \in Ms, TakeGlobal(m)
      PROVE  RingInv'
  BY <1>2, <1>0 DEF TakeGlobal, Dispatch, AfterGlobal, RingInv, RingBounded,
     Drained, ThreadTypes
<1>3. ASSUME NEW m \in Ms, TakeLocal(m)
      PROVE  RingInv'
  <2>1. mp[m] \in Ps
    BY <1>3, <1>0 DEF TakeLocal, PcInv, Searching, ThreadTypes
  <2>2. CASE rq[mp[m]] # <<>>
    <3>1. /\ rq' = [rq EXCEPT ![mp[m]] = Tail(@)] /\ pc'[m] \notin Drained
          /\ UNCHANGED mp /\ \A n \in Ms : n # m => pc'[n] = pc[n]
      BY <1>3, <2>2, <1>0 DEF TakeLocal, Dispatch, Drained, ThreadTypes
    <3>2. Len(Tail(rq[mp[m]])) <= RqCap
      <4>1. rq[mp[m]] \in Seq(Gs) /\ Len(rq[mp[m]]) <= RqCap
        BY <2>1, <1>0 DEF QueueTypes, RingInv, RingBounded
      <4> QED
        BY <4>1, <2>2, <1>0
    <3>3. \A p \in Ps : /\ Len(rq'[p]) <= RqCap
                        /\ p # mp[m] => rq'[p] = rq[p]
      BY <2>1, <3>1, <3>2, <1>0 DEF QueueTypes, RingInv, RingBounded
    <3> QED
      BY <3>1, <3>3, RingMoves
  <2>3. CASE rq[mp[m]] = <<>>
    BY <1>3, <2>3, <1>0 DEF TakeLocal, RingInv, RingBounded, Drained,
       ThreadTypes
  <2> QED
    BY <2>2, <2>3
<1>4. ASSUME NEW m \in Ms, Steal(m)
      PROVE  RingInv'
  <2> DEFINE v == scan[m]
             k == StealCount(Len(rq[v]))
             Found == v < NumP /\ v # mp[m] /\ rq[v] # <<>>
  <2>1. mp[m] \in Ps /\ v \in 0 .. NumP /\ rq[mp[m]] = <<>>
    BY <1>4, <1>0 DEF Steal, PcInv, Searching, ThreadTypes, RingInv, Drained
  <2>2. CASE Found
    <3>1. v \in Ps /\ rq[v] \in Seq(Gs) /\ Len(rq[v]) \in Nat \ {0}
      BY <2>1, <2>2, <1>0 DEF QueueTypes, Ps
    <3>2. k \in 1 .. Len(rq[v]) /\ Len(rq[v]) <= RqCap
      BY <3>1, StealCountRange, <1>0 DEF RingInv, RingBounded
    <3>3. /\ Left(rq[v], k) \in Seq(Gs) /\ SubSeq(rq[v], 2, k) \in Seq(Gs)
          /\ Len(Left(rq[v], k)) = Len(rq[v]) - k
          /\ Len(SubSeq(rq[v], 2, k)) = k - 1
      BY <3>1, <3>2 DEF Left
    <3>4. rq[mp[m]] \o SubSeq(rq[v], 2, k) = SubSeq(rq[v], 2, k)
      BY <2>1, <3>3
    <3>5. /\ rq' = [rq EXCEPT ![v] = Left(rq[v], k),
                              ![mp[m]] = rq[mp[m]] \o SubSeq(rq[v], 2, k)]
          /\ Dispatch(m, Head(rq[v])) /\ UNCHANGED mp
      <4>1. v # NumP /\ ~(v = mp[m] \/ rq[v] = <<>>)
        BY <2>1, <2>2
      <4>2. UNCHANGED mp
        BY <1>4 DEF Steal
      <4> QED
        BY <1>4, <4>1, <4>2, Zenon DEF Steal
    <3>9. pc'[m] \notin Drained /\ \A n \in Ms : n # m => pc'[n] = pc[n]
      BY <3>5, <1>0 DEF Dispatch, Drained, ThreadTypes
    <3>6. /\ rq'[v] = Left(rq[v], k) /\ rq'[mp[m]] = SubSeq(rq[v], 2, k)
          /\ \A p \in Ps : p # v /\ p # mp[m] => rq'[p] = rq[p]
      BY <2>1, <2>2, <3>1, <3>4, <3>5, <1>0 DEF QueueTypes
    <3>7. Len(rq'[v]) <= RqCap /\ Len(rq'[mp[m]]) <= RqCap
      BY <3>1, <3>2, <3>3, <3>6, <1>0
    <3>8. \A p \in Ps : /\ Len(rq'[p]) <= RqCap
                        /\ p # mp[m] /\ rq[p] = <<>> => rq'[p] = <<>>
      BY <2>2, <3>6, <3>7, <1>0 DEF RingInv, RingBounded
    <3> QED
      BY <3>5, <3>8, <3>9, RingMoves
  <2>3. CASE ~Found
    <3>1. /\ UNCHANGED <<rq, mp>> /\ pc' \in {pc, [pc EXCEPT ![m] = "park"]}
      BY <1>4, <2>1, <2>3 DEF Steal
    <3> QED
      BY <1>4, <3>1, <1>0 DEF Steal, RingInv, RingBounded, Drained,
         ThreadTypes
  <2> QED
    BY <2>2, <2>3
<1>5. ASSUME NEW m \in Ms, ParkM(m)
      PROVE  RingInv'
  BY <1>5, <1>0 DEF ParkM, WorkAppeared, RingInv, RingBounded, Drained,
     ThreadTypes
<1>6. ASSUME NEW m \in Ms, ParkSpare(m)
      PROVE  RingInv'
  BY <1>6, <1>0 DEF ParkSpare, RingInv, RingBounded, Drained, ThreadTypes
<1>7. ASSUME NEW m \in Ms, WaitCheck(m)
      PROVE  RingInv'
  BY <1>7, <1>0 DEF WaitCheck, Woken, RingInv, RingBounded, Drained,
     ThreadTypes
<1>8. ASSUME NEW m \in Ms, StartM(m)
      PROVE  RingInv'
  <2>1. UNCHANGED rq
    BY <1>8 DEF StartM
  <2>2. CASE spare # <<>>
    <3>1. /\ mp' = [mp EXCEPT ![Head(spare)] = hp[m]]
          /\ pc' = [pc EXCEPT ![m] = "run"]
      BY <1>8, <2>2 DEF StartM
    <3>2. Head(spare) \in Ms /\ pc[Head(spare)] \notin Drained
      BY <2>2, <1>0, ElemsTail DEF StackInv, SpareInv, Waits, StackTypes,
         Drained
    <3> QED
      BY <2>1, <3>1, <3>2, <1>0 DEF RingInv, RingBounded, Drained, ThreadTypes
  <2>3. CASE spare = <<>> /\ allM # Ms
    <3>1. PICK n \in Ms \ allM :
            /\ mp' = [mp EXCEPT ![n] = hp[m]]
            /\ pc' = [pc EXCEPT ![m] = "run", ![n] = "loop"]
      BY <1>8, <2>3 DEF StartM
    <3> QED
      BY <2>1, <3>1, <1>0 DEF RingInv, RingBounded, Drained, ThreadTypes
  <2>4. CASE spare = <<>> /\ allM = Ms
    BY <1>8, <2>1, <2>4, <1>0 DEF StartM, RingInv, RingBounded, Drained,
       ThreadTypes
  <2> QED
    BY <2>2, <2>3, <2>4
<1>9. ASSUME NEW m \in Ms, ReleaseParkMutex(m)
      PROVE  RingInv'
  BY <1>9, <1>0 DEF ReleaseParkMutex, RingInv, RingBounded, Drained,
     ThreadTypes
<1>10. ASSUME NEW m \in Ms, AfterRelease(m)
       PROVE  RingInv'
  BY <1>10, <1>0 DEF AfterRelease, ClearCurG, RingInv, RingBounded, Drained,
     ThreadTypes
<1>11. ASSUME NEW m \in Ms, YieldReenqueue(m)
       PROVE  RingInv'
  <2>1. CASE pc[m] = "suspended"
    BY <1>11, <2>1, <1>0 DEF YieldReenqueue, RingInv, RingBounded, Drained,
       ThreadTypes
  <2>2. CASE pc[m] = "reenqueue"
    <3>1. /\ Enqueue(m, mp[m], cur[m]) /\ pc'[m] \notin Drained
          /\ UNCHANGED mp /\ \A n \in Ms : n # m => pc'[n] = pc[n]
      BY <1>11, <2>2, <1>0 DEF YieldReenqueue, Drained, ThreadTypes
    <3>2. mp[m] \in Ps \cup {NULL} /\ cur[m] \in Gs
      BY <2>2, <1>0 DEF ThreadTypes, PcInv, Executing
    <3> QED
      BY <3>1, <3>2, <1>0, RingEnqueue, RingMoves DEF RingInv
  <2> QED
    BY <1>11, <2>1, <2>2 DEF YieldReenqueue
<1>12. ASSUME NEW m \in Ms, ExitLock(m)
       PROVE  RingInv'
  BY <1>12, <1>0 DEF ExitLock, RingInv, RingBounded, Drained, ThreadTypes
<1>13. ASSUME NEW m \in Ms, ExitUnlock(m)
       PROVE  RingInv'
  BY <1>13, <1>0 DEF ExitUnlock, Free, RingInv, RingBounded, Drained,
     ThreadTypes
<1>14. ASSUME NEW m \in Ms, ExitFree(m)
       PROVE  RingInv'
  BY <1>14, <1>0 DEF ExitFree, RingInv, RingBounded, Drained, ThreadTypes
<1>15. ASSUME NEW m \in Ms, NEW g \in Gs, ExitWake(m, g)
       PROVE  RingInv'
  <2>1. /\ Enqueue(m, mp[m], g) /\ pc'[m] \notin Drained /\ UNCHANGED mp
        /\ \A n \in Ms : n # m => pc'[n] = pc[n]
    BY <1>15, <1>0 DEF ExitWake, Drained, ThreadTypes
  <2>2. mp[m] \in Ps \cup {NULL} /\ g \in Gs
    BY <1>15, <1>0 DEF ExitWake, ThreadTypes, PcInv, Executing
  <2> QED
    BY <2>1, <2>2, <1>0, RingEnqueue, RingMoves DEF RingInv
<1>16. ASSUME NEW m \in Ms, ParkEvent(m)
       PROVE  RingInv'
  BY <1>16, <1>0 DEF ParkEvent, Running, Free, RingInv, RingBounded, Drained,
     ThreadTypes
<1>17. ASSUME NEW m \in Ms, Yield(m)
       PROVE  RingInv'
  BY <1>17, <1>0 DEF Yield, Running, Free, RingInv, RingBounded, Drained,
     ThreadTypes
<1>18. ASSUME NEW m \in Ms, EnterSyscall(m)
       PROVE  RingInv'
  BY <1>18, <1>0 DEF EnterSyscall, Running, DetachP, Free, RingInv,
     RingBounded, Drained, ThreadTypes
<1>19. ASSUME NEW m \in Ms, Complete(m)
       PROVE  RingInv'
  BY <1>19, <1>0 DEF Complete, Running, ClearCurG, Free, RingInv, RingBounded,
     Drained, ThreadTypes
<1>20. ASSUME NEW m \in Ms, NEW g \in Gs, Spawn(m, g)
       PROVE  RingInv'
  <2>1. /\ Enqueue(m, mp[m], g) /\ pc'[m] \notin Drained /\ UNCHANGED mp
        /\ \A n \in Ms : n # m => pc'[n] = pc[n]
    BY <1>20, <1>0 DEF Spawn, Running, Drained, ThreadTypes
  <2>2. mp[m] \in Ps \cup {NULL} /\ g \in Gs
    BY <1>20, <1>0 DEF Spawn, Running, ThreadTypes, PcInv, Executing
  <2> QED
    BY <2>1, <2>2, <1>0, RingEnqueue, RingMoves DEF RingInv
<1>21. ASSUME NEW m \in Ms, NEW g \in Gs, Unpark(m, g)
       PROVE  RingInv'
  <2>1. /\ Enqueue(m, mp[m], g) /\ pc'[m] \notin Drained /\ UNCHANGED mp
        /\ \A n \in Ms : n # m => pc'[n] = pc[n]
    BY <1>21, <1>0 DEF Unpark, Wake, Running, Drained, ThreadTypes
  <2>2. mp[m] \in Ps \cup {NULL} /\ g \in Gs
    BY <1>21, <1>0 DEF Unpark, Wake, Running, ThreadTypes, PcInv, Executing
  <2> QED
    BY <2>1, <2>2, <1>0, RingEnqueue, RingMoves DEF RingInv
<1>22. ASSUME NEW m \in Ms, NEW g \in Gs, Join(m, g)
       PROVE  RingInv'
  BY <1>22, <1>0 DEF Join, Running, NotDone, Free, RingInv, RingBounded,
     Drained, ThreadTypes
<1>23. ASSUME NEW m \in Ms, SpuriousWakeup(m)
       PROVE  RingInv'
  BY <1>23, <1>0 DEF SpuriousWakeup, Signalled, RingInv, RingBounded, Drained,
     ThreadTypes
<1>24. ASSUME NEW t \in Threads, WakePop(t)
       PROVE  RingInv'
  BY <1>24, <1>0 DEF WakePop, RingInv, RingBounded, Drained, ThreadTypes
<1>25. ASSUME NEW t \in Threads, WakeSignal(t)
       PROVE  RingInv'
  BY <1>25, <1>0 DEF WakeSignal, Signalled, RingInv, RingBounded, Drained,
     ThreadTypes
<1>26. ASSUME NEW g \in Gs, ReactorUnpark(g)
       PROVE  RingInv'
  BY <1>26, <1>0 DEF ReactorUnpark, Wake, Enqueue, Free, RingInv, RingBounded,
     Drained, ThreadTypes
<1>27. ASSUME SysmonLoad
       PROVE  RingInv'
  BY <1>27, <1>0 DEF SysmonLoad, Free, RingInv, RingBounded, Drained,
     ThreadTypes
<1>28. ASSUME SysmonStore
       PROVE  RingInv'
  BY <1>28, <1>0 DEF SysmonStore, RingInv, RingBounded, Drained, ThreadTypes
<1>29. ASSUME SysmonWake
       PROVE  RingInv'
  BY <1>29, <1>0 DEF SysmonWake, RingInv, RingBounded, Drained, ThreadTypes
<1>30. ASSUME MainShutdown
       PROVE  RingInv'
  BY <1>30, <1>0 DEF MainShutdown, Free, RingInv, RingBounded, Drained,
     ThreadTypes
<1>31. ASSUME MainSnapshot
       PROVE  RingInv'
  BY <1>31, <1>0 DEF MainSnapshot, RingInv, RingBounded, Drained,
     ThreadTypes
<1>32. ASSUME NEW m \in Ms, MainSignal(m)
       PROVE  RingInv'
  BY <1>32, <1>0 DEF MainSignal, Signalled, RingInv, RingBounded, Drained,
     ThreadTypes
<1>33. ASSUME MainJoin
       PROVE  RingInv'
  BY <1>33, <1>0 DEF MainJoin, RingInv, RingBounded, Drained, ThreadTypes
<1>34. ASSUME UNCHANGED vars
       PROVE  RingInv'
  BY <1>34, <1>0 DEF vars, RingInv, RingBounded, Drained, ThreadTypes
<1> QED
  BY <1>1, <1>2, <1>3, <1>4, <1>5, <1>6, <1>7, <1>8, <1>9, <1>10, <1>11,
     <1>12, <1>13, <1>14, <1>15, <1>16, <1>17, <1>18, <1>19, <1>20, <1>21,
     <1>22, <1>23, <1>24, <1>25, <1>26, <1>27, <1>28, <1>29, <1>30, <1>31,
     <1>32, <1>33, <1>34 DEF Next, MStep, GStep, WakerStep, SysmonStep,
     MainStep

-----------------------------------------------------------------------------
(* What an M and its P know of each other.                                  *)

\* The places where the thread of M has P.current_g set.
OnP == {"run", "suspended", "unlock", "released"}

\* P.current_g is what the P's own M executes.
CurInv ==
  \A p \in Ps : curG[p] # NULL =>
    \E m \in Ms : mp[m] = p /\ cur[m] = curG[p] /\ pc[m] \in OnP

\* A spare M whose wait has been ended has a P.
WokenInv ==
  \A m \in Ms : pc[m] \in {"spared", "sparechk"} /\ spin[m] => mp[m] # NULL

AgreeInv == CurInv /\ WokenInv

\* The step leaves M on its P with its G, if that is where it is.
Stays(m) ==
  pc[m] \in OnP => pc'[m] \in OnP /\ mp'[m] = mp[m] /\ cur'[m] = cur[m]

(* A step that takes no M off its P or its G, and sets no P.current_g.      *)
LEMMA CurKept ==
  ASSUME CurInv, \A n \in Ms : Stays(n), curG' = curG
  PROVE  CurInv'
BY DEF CurInv, Stays

(* M clears current_g of its P, if it has one, and may then leave it.       *)
LEMMA CurCleared ==
  ASSUME CurInv, ThreadTypes, ProcTypes, NEW m \in Ms, ClearCurG(m),
         \A n \in Ms \ {m} : Stays(n)
  PROVE  CurInv'
<1> SUFFICES ASSUME NEW p \in Ps, curG'[p] # NULL
             PROVE  \E n \in Ms : mp'[n] = p /\ cur'[n] = curG'[p]
                                  /\ pc'[n] \in OnP
  BY DEF CurInv
<1>1. mp[m] # p /\ curG'[p] = curG[p]
  BY Domains DEF ClearCurG, ThreadTypes, ProcTypes
<1>2. PICK n \in Ms : mp[n] = p /\ cur[n] = curG[p] /\ pc[n] \in OnP
  BY <1>1 DEF CurInv
<1> QED
  BY <1>1, <1>2 DEF Stays

(* The run_g block sets current_g of M's P to what M then runs.             *)
LEMMA CurDispatched ==
  ASSUME CurInv, ThreadTypes, ProcTypes, NEW m \in Ms, NEW g \in Gs,
         mp[m] \in Ps, Dispatch(m, g), mp' = mp
  PROVE  CurInv'
<1> SUFFICES ASSUME NEW p \in Ps, curG'[p] # NULL
             PROVE  \E n \in Ms : mp'[n] = p /\ cur'[n] = curG'[p]
                                  /\ pc'[n] \in OnP
  BY DEF CurInv
<1>1. CASE p = mp[m]
  BY <1>1 DEF Dispatch, ThreadTypes, ProcTypes, OnP
<1>2. CASE p # mp[m]
  <2>1. curG'[p] = curG[p]
    BY <1>2 DEF Dispatch, ProcTypes
  <2>2. PICK n \in Ms : mp[n] = p /\ cur[n] = curG[p] /\ pc[n] \in OnP
    BY <2>1 DEF CurInv
  <2> QED
    BY <1>2, <2>1, <2>2 DEF Dispatch, ThreadTypes
<1> QED
  BY <1>1, <1>2

(* Every step keeps Ms and Ps in agreement.                                 *)
LEMMA AgreeStep ==
  ASSUME IInv, AgreeInv, [Next]_vars
  PROVE  AgreeInv'
<1> USE Domains
<1>0. PcInv /\ StackInv /\ QueueTypes /\ ThreadTypes /\ StackTypes /\ ProcTypes
      /\ CurInv /\ WokenInv
  BY DEF IInv, TypeOK, AgreeInv
<1>1. ASSUME NEW m \in Ms, Loop(m)
      PROVE  AgreeInv'
  <2>1. (\A n \in Ms : Stays(n)) /\ curG' = curG
    BY <1>1, <1>0 DEF Loop, GlobalTurn, Stays, OnP, ThreadTypes
  <2>2. WokenInv'
    BY <1>1, <1>0 DEF Loop, GlobalTurn, WokenInv, ThreadTypes
  <2> QED
    BY <2>1, <2>2, <1>0, CurKept DEF AgreeInv
<1>2. ASSUME NEW m \in Ms, ParkM(m)
      PROVE  AgreeInv'
  <2>1. (\A n \in Ms : Stays(n)) /\ curG' = curG
    BY <1>2, <1>0 DEF ParkM, WorkAppeared, Stays, OnP, ThreadTypes
  <2>2. WokenInv'
    BY <1>2, <1>0 DEF ParkM, WorkAppeared, WokenInv, ThreadTypes
  <2> QED
    BY <2>1, <2>2, <1>0, CurKept DEF AgreeInv
<1>3. ASSUME NEW m \in Ms, ParkSpare(m)
      PROVE  AgreeInv'
  <2>1. (\A n \in Ms : Stays(n)) /\ curG' = curG
    BY <1>3, <1>0 DEF ParkSpare, Stays, OnP, ThreadTypes
  <2>2. WokenInv'
    BY <1>3, <1>0 DEF ParkSpare, WokenInv, ThreadTypes
  <2> QED
    BY <2>1, <2>2, <1>0, CurKept DEF AgreeInv
<1>4. ASSUME NEW m \in Ms, WaitCheck(m)
      PROVE  AgreeInv'
  <2>1. (\A n \in Ms : Stays(n)) /\ curG' = curG
    BY <1>4, <1>0 DEF WaitCheck, Woken, Stays, OnP, ThreadTypes
  <2>2. WokenInv'
    BY <1>4, <1>0 DEF WaitCheck, Woken, WokenInv, ThreadTypes
  <2> QED
    BY <2>1, <2>2, <1>0, CurKept DEF AgreeInv
<1>5. ASSUME NEW m \in Ms, ReleaseParkMutex(m)
      PROVE  AgreeInv'
  <2>1. (\A n \in Ms : Stays(n)) /\ curG' = curG
    BY <1>5, <1>0 DEF ReleaseParkMutex, Stays, OnP, ThreadTypes
  <2>2. WokenInv'
    BY <1>5, <1>0 DEF ReleaseParkMutex, WokenInv, ThreadTypes
  <2> QED
    BY <2>1, <2>2, <1>0, CurKept DEF AgreeInv
<1>6. ASSUME NEW m \in Ms, ExitLock(m)
      PROVE  AgreeInv'
  <2>1. (\A n \in Ms : Stays(n)) /\ curG' = curG
    BY <1>6, <1>0 DEF ExitLock, Stays, OnP, ThreadTypes
  <2>2. WokenInv'
    BY <1>6, <1>0 DEF ExitLock, WokenInv, ThreadTypes
  <2> QED
    BY <2>1, <2>2, <1>0, CurKept DEF AgreeInv
<1>7. ASSUME NEW m \in Ms, ExitUnlock(m)
      PROVE  AgreeInv'
  <2>1. (\A n \in Ms : Stays(n)) /\ curG' = curG
    BY <1>7, <1>0 DEF ExitUnlock, Stays, OnP, ThreadTypes
  <2>2. WokenInv'
    BY <1>7, <1>0 DEF ExitUnlock, WokenInv, ThreadTypes
  <2> QED
    BY <2>1, <2>2, <1>0, CurKept DEF AgreeInv
<1>8. ASSUME NEW m \in Ms, ExitFree(m)
      PROVE  AgreeInv'
  <2>1. (\A n \in Ms : Stays(n)) /\ curG' = curG
    BY <1>8, <1>0 DEF ExitFree, Stays, OnP, ThreadTypes
  <2>2. WokenInv'
    BY <1>8, <1>0 DEF ExitFree, WokenInv, ThreadTypes
  <2> QED
    BY <2>1, <2>2, <1>0, CurKept DEF AgreeInv
<1>9. ASSUME NEW m \in Ms, NEW g \in Gs, ExitWake(m, g)
      PROVE  AgreeInv'
  <2>1. (\A n \in Ms : Stays(n)) /\ curG' = curG
    BY <1>9, <1>0 DEF ExitWake, Stays, OnP, ThreadTypes
  <2>2. WokenInv'
    BY <1>9, <1>0 DEF ExitWake, WokenInv, ThreadTypes
  <2> QED
    BY <2>1, <2>2, <1>0, CurKept DEF AgreeInv
<1>10. ASSUME NEW m \in Ms, ParkEvent(m)
       PROVE  AgreeInv'
  <2>1. (\A n \in Ms : Stays(n)) /\ curG' = curG
    BY <1>10, <1>0 DEF ParkEvent, Running, Stays, OnP, ThreadTypes
  <2>2. WokenInv'
    BY <1>10, <1>0 DEF ParkEvent, Running, WokenInv, ThreadTypes
  <2> QED
    BY <2>1, <2>2, <1>0, CurKept DEF AgreeInv
<1>11. ASSUME NEW m \in Ms, Yield(m)
       PROVE  AgreeInv'
  <2>1. (\A n \in Ms : Stays(n)) /\ curG' = curG
    BY <1>11, <1>0 DEF Yield, Running, Stays, OnP, ThreadTypes
  <2>2. WokenInv'
    BY <1>11, <1>0 DEF Yield, Running, WokenInv, ThreadTypes
  <2> QED
    BY <2>1, <2>2, <1>0, CurKept DEF AgreeInv
<1>12. ASSUME NEW m \in Ms, NEW g \in Gs, Spawn(m, g)
       PROVE  AgreeInv'
  <2>1. (\A n \in Ms : Stays(n)) /\ curG' = curG
    BY <1>12, <1>0 DEF Spawn, Stays, OnP, ThreadTypes
  <2>2. WokenInv'
    BY <1>12, <1>0 DEF Spawn, WokenInv, ThreadTypes
  <2> QED
    BY <2>1, <2>2, <1>0, CurKept DEF AgreeInv
<1>13. ASSUME NEW m \in Ms, NEW g \in Gs, Unpark(m, g)
       PROVE  AgreeInv'
  <2>1. (\A n \in Ms : Stays(n)) /\ curG' = curG
    BY <1>13, <1>0 DEF Unpark, Wake, Stays, OnP, ThreadTypes
  <2>2. WokenInv'
    BY <1>13, <1>0 DEF Unpark, Wake, WokenInv, ThreadTypes
  <2> QED
    BY <2>1, <2>2, <1>0, CurKept DEF AgreeInv
<1>14. ASSUME NEW m \in Ms, NEW g \in Gs, Join(m, g)
       PROVE  AgreeInv'
  <2>1. (\A n \in Ms : Stays(n)) /\ curG' = curG
    BY <1>14, <1>0 DEF Join, Running, Stays, OnP, ThreadTypes
  <2>2. WokenInv'
    BY <1>14, <1>0 DEF Join, Running, WokenInv, ThreadTypes
  <2> QED
    BY <2>1, <2>2, <1>0, CurKept DEF AgreeInv
<1>15. ASSUME NEW m \in Ms, SpuriousWakeup(m)
       PROVE  AgreeInv'
  <2>1. (\A n \in Ms : Stays(n)) /\ curG' = curG
    BY <1>15, <1>0 DEF SpuriousWakeup, Signalled, Stays, OnP, ThreadTypes
  <2>2. WokenInv'
    BY <1>15, <1>0 DEF SpuriousWakeup, Signalled, WokenInv, ThreadTypes
  <2> QED
    BY <2>1, <2>2, <1>0, CurKept DEF AgreeInv
<1>16. ASSUME NEW t \in Threads, WakePop(t)
       PROVE  AgreeInv'
  <2>1. (\A n \in Ms : Stays(n)) /\ curG' = curG
    BY <1>16, <1>0 DEF WakePop, Stays, OnP, ThreadTypes
  <2>2. WokenInv'
    BY <1>16, <1>0 DEF WakePop, WokenInv, ThreadTypes
  <2> QED
    BY <2>1, <2>2, <1>0, CurKept DEF AgreeInv
<1>17. ASSUME NEW g \in Gs, ReactorUnpark(g)
       PROVE  AgreeInv'
  <2>1. (\A n \in Ms : Stays(n)) /\ curG' = curG
    BY <1>17, <1>0 DEF ReactorUnpark, Wake, Stays, OnP, ThreadTypes
  <2>2. WokenInv'
    BY <1>17, <1>0 DEF ReactorUnpark, Wake, WokenInv, ThreadTypes
  <2> QED
    BY <2>1, <2>2, <1>0, CurKept DEF AgreeInv
<1>18. ASSUME SysmonLoad
       PROVE  AgreeInv'
  <2>1. (\A n \in Ms : Stays(n)) /\ curG' = curG
    BY <1>18, <1>0 DEF SysmonLoad, Stays, OnP, ThreadTypes
  <2>2. WokenInv'
    BY <1>18, <1>0 DEF SysmonLoad, WokenInv, ThreadTypes
  <2> QED
    BY <2>1, <2>2, <1>0, CurKept DEF AgreeInv
<1>19. ASSUME SysmonStore
       PROVE  AgreeInv'
  <2>1. (\A n \in Ms : Stays(n)) /\ curG' = curG
    BY <1>19, <1>0 DEF SysmonStore, Stays, OnP, ThreadTypes
  <2>2. WokenInv'
    BY <1>19, <1>0 DEF SysmonStore, WokenInv, ThreadTypes
  <2> QED
    BY <2>1, <2>2, <1>0, CurKept DEF AgreeInv
<1>20. ASSUME SysmonWake
       PROVE  AgreeInv'
  <2>1. (\A n \in Ms : Stays(n)) /\ curG' = curG
    BY <1>20, <1>0 DEF SysmonWake, Stays, OnP, ThreadTypes
  <2>2. WokenInv'
    BY <1>20, <1>0 DEF SysmonWake, WokenInv, ThreadTypes
  <2> QED
    BY <2>1, <2>2, <1>0, CurKept DEF AgreeInv
<1>21. ASSUME MainShutdown
       PROVE  AgreeInv'
  <2>1. (\A n \in Ms : Stays(n)) /\ curG' = curG
    BY <1>21, <1>0 DEF MainShutdown, Stays, OnP, ThreadTypes
  <2>2. WokenInv'
    BY <1>21, <1>0 DEF MainShutdown, WokenInv, ThreadTypes
  <2> QED
    BY <2>1, <2>2, <1>0, CurKept DEF AgreeInv
<1>22. ASSUME MainSnapshot
       PROVE  AgreeInv'
  <2>1. (\A n \in Ms : Stays(n)) /\ curG' = curG
    BY <1>22, <1>0 DEF MainSnapshot, Stays, OnP, ThreadTypes
  <2>2. WokenInv'
    BY <1>22, <1>0 DEF MainSnapshot, WokenInv, ThreadTypes
  <2> QED
    BY <2>1, <2>2, <1>0, CurKept DEF AgreeInv
<1>23. ASSUME NEW m \in Ms, MainSignal(m)
       PROVE  AgreeInv'
  <2>1. (\A n \in Ms : Stays(n)) /\ curG' = curG
    BY <1>23, <1>0 DEF MainSignal, Signalled, Stays, OnP, ThreadTypes
  <2>2. WokenInv'
    BY <1>23, <1>0 DEF MainSignal, Signalled, WokenInv, ThreadTypes
  <2> QED
    BY <2>1, <2>2, <1>0, CurKept DEF AgreeInv
<1>24. ASSUME MainJoin
       PROVE  AgreeInv'
  <2>1. (\A n \in Ms : Stays(n)) /\ curG' = curG
    BY <1>24, <1>0 DEF MainJoin, Stays, OnP, ThreadTypes
  <2>2. WokenInv'
    BY <1>24, <1>0 DEF MainJoin, WokenInv, ThreadTypes
  <2> QED
    BY <2>1, <2>2, <1>0, CurKept DEF AgreeInv
<1>25. ASSUME UNCHANGED vars
       PROVE  AgreeInv'
  <2>1. (\A n \in Ms : Stays(n)) /\ curG' = curG
    BY <1>25, <1>0 DEF vars, Stays, OnP, ThreadTypes
  <2>2. WokenInv'
    BY <1>25, <1>0 DEF vars, WokenInv, ThreadTypes
  <2> QED
    BY <2>1, <2>2, <1>0, CurKept DEF AgreeInv
<1>26. ASSUME NEW m \in Ms, TakeGlobal(m)
       PROVE  AgreeInv'
  <2>1. mp[m] \in Ps /\ mp' = mp
    BY <1>26, <1>0 DEF TakeGlobal, PcInv, Searching, ThreadTypes
  <2>2. WokenInv'
    BY <1>26, <1>0 DEF TakeGlobal, Dispatch, AfterGlobal, WokenInv,
       ThreadTypes
  <2>3. CASE gq # <<>>
    <3>1. Head(gq) \in Gs
      BY <2>1, <2>3, <1>0 DEF QueueTypes
    <3>2. Dispatch(m, Head(gq))
      BY <1>26, <2>3 DEF TakeGlobal
    <3> QED
      BY <3>1, <3>2, <2>1, <2>2, <1>0, CurDispatched DEF AgreeInv
  <2>4. CASE gq = <<>>
    <3>1. (\A n \in Ms : Stays(n)) /\ curG' = curG
      BY <1>26, <2>4, <1>0 DEF TakeGlobal, AfterGlobal, Stays, OnP,
         ThreadTypes
    <3> QED
      BY <3>1, <2>2, <1>0, CurKept DEF AgreeInv
  <2> QED
    BY <2>3, <2>4
<1>27. ASSUME NEW m \in Ms, TakeLocal(m)
       PROVE  AgreeInv'
  <2>1. mp[m] \in Ps /\ mp' = mp
    BY <1>27, <1>0 DEF TakeLocal, PcInv, Searching, ThreadTypes
  <2>2. WokenInv'
    BY <1>27, <1>0 DEF TakeLocal, Dispatch, WokenInv, ThreadTypes
  <2>3. CASE rq[mp[m]] # <<>>
    <3>1. Head(rq[mp[m]]) \in Gs
      BY <2>1, <2>3, <1>0 DEF QueueTypes
    <3>2. Dispatch(m, Head(rq[mp[m]]))
      BY <1>27, <2>3 DEF TakeLocal
    <3> QED
      BY <3>1, <3>2, <2>1, <2>2, <1>0, CurDispatched DEF AgreeInv
  <2>4. CASE rq[mp[m]] = <<>>
    <3>1. (\A n \in Ms : Stays(n)) /\ curG' = curG
      BY <1>27, <2>4, <1>0 DEF TakeLocal, Stays, OnP, ThreadTypes
    <3> QED
      BY <3>1, <2>2, <1>0, CurKept DEF AgreeInv
  <2> QED
    BY <2>3, <2>4
<1>28. ASSUME NEW m \in Ms, Steal(m)
       PROVE  AgreeInv'
  <2>1. mp[m] \in Ps /\ mp' = mp
    BY <1>28, <1>0 DEF Steal, PcInv, Searching, ThreadTypes
  <2>2. WokenInv'
    BY <1>28, <1>0 DEF Steal, Dispatch, WokenInv, ThreadTypes
  <2>3. CASE scan[m] < NumP /\ scan[m] # mp[m] /\ rq[scan[m]] # <<>>
    <3>1. Head(rq[scan[m]]) \in Gs
      <4>1. scan[m] \in Ps
        BY <2>3, <1>0 DEF ThreadTypes, Ps
      <4>2. rq[scan[m]] \in Seq(Gs)
        BY <4>1, <1>0 DEF QueueTypes
      <4> QED
        BY <4>2, <2>3
    <3>2. Dispatch(m, Head(rq[scan[m]]))
      BY <1>28, <2>3 DEF Steal
    <3> QED
      BY <3>1, <3>2, <2>1, <2>2, <1>0, CurDispatched DEF AgreeInv
  <2>4. CASE ~(scan[m] < NumP /\ scan[m] # mp[m] /\ rq[scan[m]] # <<>>)
    <3>1. (\A n \in Ms : Stays(n)) /\ curG' = curG
      BY <1>28, <2>4, <1>0 DEF Steal, Stays, OnP, ThreadTypes
    <3> QED
      BY <3>1, <2>2, <1>0, CurKept DEF AgreeInv
  <2> QED
    BY <2>3, <2>4
<1>29. ASSUME NEW m \in Ms, AfterRelease(m)
       PROVE  AgreeInv'
  <2>1. ClearCurG(m) /\ \A n \in Ms \ {m} : Stays(n)
    BY <1>29, <1>0 DEF AfterRelease, Stays, ThreadTypes
  <2>2. WokenInv'
    BY <1>29, <1>0 DEF AfterRelease, WokenInv, ThreadTypes
  <2> QED
    BY <2>1, <2>2, <1>0, CurCleared DEF AgreeInv
<1>30. ASSUME NEW m \in Ms, Complete(m)
       PROVE  AgreeInv'
  <2>1. ClearCurG(m) /\ \A n \in Ms \ {m} : Stays(n)
    BY <1>30, <1>0 DEF Complete, Running, Stays, ThreadTypes
  <2>2. WokenInv'
    BY <1>30, <1>0 DEF Complete, Running, WokenInv, ThreadTypes
  <2> QED
    BY <2>1, <2>2, <1>0, CurCleared DEF AgreeInv
<1>31. ASSUME NEW m \in Ms, YieldReenqueue(m)
       PROVE  AgreeInv'
  <2>1. WokenInv'
    BY <1>31, <1>0 DEF YieldReenqueue, WokenInv, ThreadTypes
  <2>2. CASE pc[m] = "suspended"
    <3>1. ClearCurG(m) /\ \A n \in Ms \ {m} : Stays(n)
      BY <1>31, <2>2, <1>0 DEF YieldReenqueue, Stays, ThreadTypes
    <3> QED
      BY <3>1, <2>1, <1>0, CurCleared DEF AgreeInv
  <2>3. CASE pc[m] = "reenqueue"
    <3>1. (\A n \in Ms : Stays(n)) /\ curG' = curG
      BY <1>31, <2>3, <1>0 DEF YieldReenqueue, Stays, OnP, ThreadTypes
    <3> QED
      BY <3>1, <2>1, <1>0, CurKept DEF AgreeInv
  <2> QED
    BY <1>31, <2>2, <2>3 DEF YieldReenqueue
<1>32. ASSUME NEW m \in Ms, EnterSyscall(m)
       PROVE  AgreeInv'
  <2>1. ClearCurG(m) /\ \A n \in Ms \ {m} : Stays(n)
    BY <1>32, <1>0 DEF EnterSyscall, DetachP, ClearCurG, Stays, ThreadTypes
  <2>2. WokenInv'
    BY <1>32, <1>0 DEF EnterSyscall, Running, DetachP, WokenInv, ThreadTypes
  <2> QED
    BY <2>1, <2>2, <1>0, CurCleared DEF AgreeInv
<1>33. ASSUME NEW m \in Ms, StartM(m)
       PROVE  AgreeInv'
  <2>1. hp[m] \in Ps
    BY <1>33, <1>0 DEF StartM, PcInv, ThreadTypes
  <2>2. CASE spare # <<>>
    <3>1. Head(spare) \in Ms /\ Head(spare) \in Elems(spare)
      BY <2>2, <1>0, ElemsTail DEF StackTypes
    <3>2. pc[Head(spare)] \notin OnP
      BY <3>1, <1>0 DEF StackInv, SpareInv, Waits, OnP
    <3>3. (\A n \in Ms : Stays(n)) /\ curG' = curG
      BY <1>33, <2>2, <3>1, <3>2, <1>0 DEF StartM, Stays, OnP, ThreadTypes
    <3>4. WokenInv'
      BY <1>33, <2>1, <2>2, <3>1, <1>0 DEF StartM, WokenInv, ThreadTypes
    <3> QED
      BY <3>3, <3>4, <1>0, CurKept DEF AgreeInv
  <2>3. CASE spare = <<>>
    <3>1. (\A n \in Ms : Stays(n)) /\ curG' = curG
      BY <1>33, <2>3, <1>0 DEF StartM, PcInv, Stays, OnP, ThreadTypes
    <3>2. WokenInv'
      BY <1>33, <2>1, <2>3, <1>0 DEF StartM, WokenInv, ThreadTypes
    <3> QED
      BY <3>1, <3>2, <1>0, CurKept DEF AgreeInv
  <2> QED
    BY <2>2, <2>3
<1>34. ASSUME NEW t \in Threads, WakeSignal(t)
       PROVE  AgreeInv'
  <2>1. (\A n \in Ms : Stays(n)) /\ curG' = curG
    BY <1>34, <1>0 DEF WakeSignal, Signalled, Stays, OnP, ThreadTypes
  <2>2. WokenInv'
    BY <1>34, <1>0 DEF WakeSignal, Signalled, StackInv, WakingInv, WokenInv,
       ThreadTypes
  <2> QED
    BY <2>1, <2>2, <1>0, CurKept DEF AgreeInv
<1> QED
  BY <1>1, <1>2, <1>3, <1>4, <1>5, <1>6, <1>7, <1>8, <1>9, <1>10, <1>11,
     <1>12, <1>13, <1>14, <1>15, <1>16, <1>17, <1>18, <1>19, <1>20, <1>21,
     <1>22, <1>23, <1>24, <1>25, <1>26, <1>27, <1>28, <1>29, <1>30, <1>31,
     <1>32, <1>33, <1>34 DEF Next, MStep, GStep, WakerStep, SysmonStep,
     MainStep

-----------------------------------------------------------------------------
(* The run queues as sets of goroutines.                                    *)

(* Appending x adds exactly x.                                              *)
LEMMA ElemsAppend ==
  ASSUME NEW S, NEW s \in Seq(S), NEW x \in S
  PROVE  /\ Elems(Append(s, x)) = Elems(s) \cup {x}
         /\ NoRepeat(s) /\ x \notin Elems(s) => NoRepeat(Append(s, x))
<1> DEFINE t == Append(s, x)
<1>1. /\ DOMAIN s = 1 .. Len(s) /\ DOMAIN t = 1 .. Len(s) + 1
      /\ Len(s) \in Nat /\ t[Len(s) + 1] = x
      /\ \A i \in 1 .. Len(s) : t[i] = s[i]
  OBVIOUS
<1> HIDE DEF t
<1>2. ASSUME NEW i \in DOMAIN t
      PROVE  i \in DOMAIN s \/ i = Len(s) + 1
  BY <1>1
<1>3. Elems(t) = Elems(s) \cup {x}
  <2>1. \A y \in Elems(t) : y \in Elems(s) \cup {x}
    BY <1>1, <1>2 DEF Elems
  <2>2. \A y \in Elems(s) : y \in Elems(t)
    BY <1>1 DEF Elems
  <2>3. x \in Elems(t)
    BY <1>1 DEF Elems
  <2> QED
    BY <2>1, <2>2, <2>3
<1>4. ASSUME NoRepeat(s), x \notin Elems(s)
      PROVE  NoRepeat(t)
  BY <1>1, <1>2, <1>4 DEF NoRepeat, Elems
<1> QED
  BY <1>3, <1>4 DEF t

(* Popping the head of a sequence without repetitions removes exactly it.   *)
LEMMA ElemsPop ==
  ASSUME NEW S, NEW s \in Seq(S), s # <<>>, NoRepeat(s)
  PROVE  /\ Head(s) \in Elems(s) /\ Head(s) \in S /\ NoRepeat(Tail(s))
         /\ Elems(Tail(s)) = Elems(s) \ {Head(s)}
BY ElemsHeadTail, NoRepeatTail, ElemsTail

(* steal_work splits the victim's ring into the goroutine that runs next,   *)
(* those that move to the thief's ring and those that stay.                 *)
LEMMA ElemsSplit ==
  ASSUME NEW S, NEW s \in Seq(S), NoRepeat(s), NEW k \in 1 .. Len(s)
  PROVE  /\ NoRepeat(SubSeq(s, 2, k)) /\ NoRepeat(Left(s, k))
         /\ Elems(SubSeq(s, 2, k)) \cap Elems(Left(s, k)) = {}
         /\ Head(s) \notin Elems(SubSeq(s, 2, k)) \cup Elems(Left(s, k))
         /\ Elems(s) = {Head(s)} \cup Elems(SubSeq(s, 2, k))
                         \cup Elems(Left(s, k))
<1> DEFINE a == SubSeq(s, 2, k)
           b == Left(s, k)
<1>1. /\ DOMAIN s = 1 .. Len(s) /\ Head(s) = s[1] /\ Len(s) \in Nat /\ k \in Nat
      /\ 1 <= k /\ k <= Len(s)
  OBVIOUS
<1>2. /\ DOMAIN a = 1 .. k - 1 /\ DOMAIN b = 1 .. Len(s) - k
      /\ \A i \in 1 .. k - 1 : a[i] = s[i + 1]
      /\ \A i \in 1 .. Len(s) - k : b[i] = s[i + k]
  <2>1. DOMAIN a = 1 .. k - 1 /\ \A i \in 1 .. k - 1 : a[i] = s[i + 1]
    BY <1>1
  <2>2. /\ DOMAIN b = 1 .. Len(s) - k
        /\ \A i \in 1 .. Len(s) - k : b[i] = s[i + k]
    BY <1>1 DEF Left
  <2> QED
    BY <2>1, <2>2
<1> HIDE DEF a, b
<1>3. \A i, j \in 1 .. Len(s) : s[i] = s[j] => i = j
  BY <1>1 DEF NoRepeat
<1>4. NoRepeat(a)
  <2> SUFFICES ASSUME NEW i \in 1 .. k - 1, NEW j \in 1 .. k - 1, a[i] = a[j]
               PROVE  i = j
    BY <1>2 DEF NoRepeat
  <2>1. s[i + 1] = s[j + 1] /\ i + 1 \in 1 .. Len(s) /\ j + 1 \in 1 .. Len(s)
    BY <1>1, <1>2
  <2>2. i + 1 = j + 1
    BY <2>1, <1>3
  <2> QED
    BY <2>2
<1>5. NoRepeat(b)
  <2> SUFFICES ASSUME NEW i \in 1 .. Len(s) - k, NEW j \in 1 .. Len(s) - k,
                      b[i] = b[j]
               PROVE  i = j
    BY <1>2 DEF NoRepeat
  <2>1. s[i + k] = s[j + k] /\ i + k \in 1 .. Len(s) /\ j + k \in 1 .. Len(s)
    BY <1>1, <1>2
  <2>2. i + k = j + k
    BY <2>1, <1>3
  <2> QED
    BY <2>2, <1>1
<1>6. Elems(a) = {s[i] : i \in 2 .. k}
  <2>1. \A i \in 1 .. k - 1 : a[i] = s[i + 1] /\ i + 1 \in 2 .. k
    BY <1>1, <1>2
  <2>2. \A i \in 2 .. k : s[i] = a[i - 1] /\ i - 1 \in 1 .. k - 1
    <3> SUFFICES ASSUME NEW i \in 2 .. k
                 PROVE  s[i] = a[i - 1] /\ i - 1 \in 1 .. k - 1
      OBVIOUS
    <3>1. i - 1 \in 1 .. k - 1 /\ (i - 1) + 1 = i
      BY <1>1
    <3> QED
      BY <3>1, <1>2
  <2>3. \A y \in Elems(a) : y \in {s[i] : i \in 2 .. k}
    BY <2>1, <1>2 DEF Elems
  <2>4. \A i \in 2 .. k : s[i] \in Elems(a)
    BY <2>2, <1>2 DEF Elems
  <2> QED
    BY <2>3, <2>4
<1>7. Elems(b) = {s[i] : i \in k + 1 .. Len(s)}
  <2>1. \A i \in 1 .. Len(s) - k : b[i] = s[i + k] /\ i + k \in k + 1 .. Len(s)
    BY <1>1, <1>2
  <2>2. \A i \in k + 1 .. Len(s) :
           s[i] = b[i - k] /\ i - k \in 1 .. Len(s) - k
    <3> SUFFICES ASSUME NEW i \in k + 1 .. Len(s)
                 PROVE  s[i] = b[i - k] /\ i - k \in 1 .. Len(s) - k
      OBVIOUS
    <3>1. i - k \in 1 .. Len(s) - k /\ (i - k) + k = i
      BY <1>1
    <3> QED
      BY <3>1, <1>2
  <2>3. \A y \in Elems(b) : y \in {s[i] : i \in k + 1 .. Len(s)}
    BY <2>1, <1>2 DEF Elems
  <2>4. \A i \in k + 1 .. Len(s) : s[i] \in Elems(b)
    BY <2>2, <1>2 DEF Elems
  <2> QED
    BY <2>3, <2>4
<1>8. Elems(a) \cap Elems(b) = {}
  <2> SUFFICES ASSUME NEW i \in 2 .. k, NEW j \in k + 1 .. Len(s)
               PROVE  s[i] # s[j]
    BY <1>6, <1>7
  <2>1. i \in 1 .. Len(s) /\ j \in 1 .. Len(s) /\ i # j
    BY <1>1
  <2> QED
    BY <2>1, <1>3
<1>9. Head(s) \notin Elems(a) \cup Elems(b)
  <2>1. \A i \in 2 .. k : i \in 1 .. Len(s) /\ i # 1 /\ 1 \in 1 .. Len(s)
    BY <1>1
  <2>2. \A i \in k + 1 .. Len(s) : i \in 1 .. Len(s) /\ i # 1 /\ 1 \in 1 .. Len(s)
    BY <1>1
  <2> QED
    BY <2>1, <2>2, <1>1, <1>3, <1>6, <1>7
<1>10. Elems(s) = {Head(s)} \cup Elems(a) \cup Elems(b)
  <2>1. \A i \in 1 .. Len(s) : i = 1 \/ i \in 2 .. k \/ i \in k + 1 .. Len(s)
    BY <1>1
  <2>2. /\ 1 \in 1 .. Len(s) /\ \A i \in 2 .. k : i \in 1 .. Len(s)
        /\ \A i \in k + 1 .. Len(s) : i \in 1 .. Len(s)
    BY <1>1
  <2>3. \A y \in Elems(s) : y \in {Head(s)} \cup Elems(a) \cup Elems(b)
    BY <2>1, <1>1, <1>6, <1>7 DEF Elems
  <2>4. \A y \in {Head(s)} \cup Elems(a) \cup Elems(b) : y \in Elems(s)
    BY <2>2, <1>1, <1>6, <1>7 DEF Elems
  <2> QED
    BY <2>3, <2>4
<1> QED
  BY <1>4, <1>5, <1>8, <1>9, <1>10 DEF a, b

\* No goroutine is twice in the run queues.
QueueInv ==
  /\ NoRepeat(gq)
  /\ \A p \in Ps : NoRepeat(rq[p]) /\ Elems(rq[p]) \cap Elems(gq) = {}
  /\ \A p, q \in Ps : p # q => Elems(rq[p]) \cap Elems(rq[q]) = {}

\* g is in a run queue.
Ready(g) == g \in Elems(gq) \/ \E p \in Ps : g \in Elems(rq[p])

(* sched_enqueue puts one goroutine into the run queues, wherever it goes.  *)
LEMMA ReadyEnqueue ==
  ASSUME QueueTypes, QueueInv, NEW t \in Threads, NEW q \in Ps \cup {NULL},
         NEW g \in Gs, ~Ready(g), Enqueue(t, q, g)
  PROVE  /\ QueueInv'
         /\ \A h \in Gs : Ready(h)' <=> Ready(h) \/ h = g
<1>1. CASE q # NULL /\ HasRoom(q)
  <2>1. q \in Ps /\ rq' = [rq EXCEPT ![q] = Append(@, g)] /\ gq' = gq
    BY <1>1 DEF Enqueue
  <2>2. rq[q] \in Seq(Gs) /\ rq'[q] = Append(rq[q], g)
    BY <2>1 DEF QueueTypes
  <2>3. Elems(rq'[q]) = Elems(rq[q]) \cup {g} /\ NoRepeat(rq'[q])
    BY <2>1, <2>2, ElemsAppend DEF QueueInv, Ready
  <2>4. \A p \in Ps : p # q => rq'[p] = rq[p]
    BY <2>1 DEF QueueTypes
  <2>5. \A p \in Ps : g \notin Elems(rq[p]) /\ g \notin Elems(gq)
    BY DEF Ready
  <2>6. QueueInv'
    <3>1. \A p \in Ps : NoRepeat(rq'[p]) /\ Elems(rq'[p]) \cap Elems(gq) = {}
      BY <2>1, <2>3, <2>4, <2>5 DEF QueueInv
    <3>2. \A p, r \in Ps : p # r => Elems(rq'[p]) \cap Elems(rq'[r]) = {}
      BY <2>1, <2>3, <2>4, <2>5 DEF QueueInv
    <3> QED
      BY <3>1, <3>2, <2>1 DEF QueueInv
  <2>7. \A h \in Gs : Ready(h)' <=> Ready(h) \/ h = g
    BY <2>1, <2>3, <2>4 DEF Ready
  <2> QED
    BY <2>6, <2>7
<1>2. CASE ~(q # NULL /\ HasRoom(q))
  <2>1. rq' = rq /\ gq' = Append(gq, g) /\ gq \in Seq(Gs)
    BY <1>2 DEF Enqueue, QueueTypes
  <2>2. Elems(gq') = Elems(gq) \cup {g} /\ NoRepeat(gq')
    BY <2>1, ElemsAppend DEF QueueInv, Ready
  <2>3. QueueInv'
    BY <2>1, <2>2 DEF QueueInv, Ready
  <2>4. \A h \in Gs : Ready(h)' <=> Ready(h) \/ h = g
    BY <2>1, <2>2 DEF Ready
  <2> QED
    BY <2>3, <2>4
<1> QED
  BY <1>1, <1>2

(* try_global takes the head of the global queue out of the run queues.     *)
LEMMA ReadyTakeGlobal ==
  ASSUME QueueTypes, QueueInv, gq # <<>>, gq' = Tail(gq), UNCHANGED rq
  PROVE  /\ QueueInv' /\ Ready(Head(gq)) /\ Head(gq) \in Gs
         /\ \A h \in Gs : Ready(h)' <=> Ready(h) /\ h # Head(gq)
<1>1. /\ Head(gq) \in Elems(gq) /\ Head(gq) \in Gs /\ NoRepeat(gq')
      /\ Elems(gq') = Elems(gq) \ {Head(gq)}
  BY ElemsPop DEF QueueTypes, QueueInv
<1>2. QueueInv'
  BY <1>1 DEF QueueInv
<1>3. \A h \in Gs : Ready(h)' <=> Ready(h) /\ h # Head(gq)
  BY <1>1 DEF Ready, QueueInv
<1> QED
  BY <1>1, <1>2, <1>3 DEF Ready

(* local_dequeue takes the head of a ring out of the run queues.            *)
LEMMA ReadyTakeLocal ==
  ASSUME QueueTypes, QueueInv, NEW q \in Ps, rq[q] # <<>>,
         rq' = [rq EXCEPT ![q] = Tail(@)], UNCHANGED gq
  PROVE  /\ QueueInv' /\ Ready(Head(rq[q])) /\ Head(rq[q]) \in Gs
         /\ \A h \in Gs : Ready(h)' <=> Ready(h) /\ h # Head(rq[q])
<1>1. rq[q] \in Seq(Gs) /\ rq'[q] = Tail(rq[q])
      /\ \A p \in Ps : p # q => rq'[p] = rq[p]
  BY DEF QueueTypes
<1>2. /\ Head(rq[q]) \in Elems(rq[q]) /\ Head(rq[q]) \in Gs /\ NoRepeat(rq'[q])
      /\ Elems(rq'[q]) = Elems(rq[q]) \ {Head(rq[q])}
  BY <1>1, ElemsPop DEF QueueInv
<1>3. QueueInv'
  BY <1>1, <1>2 DEF QueueInv
<1>4. \A h \in Gs : Ready(h)' <=> Ready(h) /\ h # Head(rq[q])
  BY <1>1, <1>2 DEF Ready, QueueInv
<1> QED
  BY <1>2, <1>3, <1>4 DEF Ready

(* steal_work takes one goroutine out of the run queues and moves others    *)
(* between two rings.                                                       *)
LEMMA ReadySteal ==
  ASSUME QueueTypes, QueueInv, NEW q \in Ps, NEW v \in Ps, q # v,
         rq[q] = <<>>, rq[v] # <<>>, NEW k \in 1 .. Len(rq[v]),
         rq' = [rq EXCEPT ![v] = Left(rq[v], k),
                          ![q] = rq[q] \o SubSeq(rq[v], 2, k)],
         UNCHANGED gq
  PROVE  /\ QueueInv' /\ Ready(Head(rq[v])) /\ Head(rq[v]) \in Gs
         /\ \A h \in Gs : Ready(h)' <=> Ready(h) /\ h # Head(rq[v])
<1> DEFINE x == Head(rq[v])
           a == SubSeq(rq[v], 2, k)
           b == Left(rq[v], k)
<1>1. rq[v] \in Seq(Gs) /\ x \in Gs /\ a \in Seq(Gs)
  BY SubSeqType DEF QueueTypes
<1>2. rq[q] \o a = a
  BY <1>1
<1>3. /\ rq'[v] = b /\ rq'[q] = a
      /\ \A p \in Ps : p # q /\ p # v => rq'[p] = rq[p]
  BY <1>2 DEF QueueTypes
<1>4. /\ NoRepeat(a) /\ NoRepeat(b)
      /\ Elems(a) \cap Elems(b) = {} /\ x \notin Elems(a) \cup Elems(b)
      /\ Elems(rq[v]) = {x} \cup Elems(a) \cup Elems(b)
  BY <1>1, ElemsSplit DEF QueueInv
<1>5. Elems(rq[q]) = {}
  BY DEF Elems
<1> HIDE DEF x, a, b
<1>6. QueueInv'
  <2>1. \A p \in Ps : NoRepeat(rq'[p]) /\ Elems(rq'[p]) \cap Elems(gq) = {}
    BY <1>3, <1>4 DEF QueueInv
  <2>2. ASSUME NEW p \in Ps, NEW r \in Ps, p # r
        PROVE  Elems(rq'[p]) \cap Elems(rq'[r]) = {}
    <3>1. ASSUME NEW w \in Ps, w # q, w # v
          PROVE  /\ Elems(rq'[w]) \cap Elems(a) = {}
                 /\ Elems(rq'[w]) \cap Elems(b) = {}
      BY <3>1, <1>3, <1>4 DEF QueueInv
    <3>2. CASE p \notin {q, v} /\ r \notin {q, v}
      BY <2>2, <3>2, <1>3 DEF QueueInv
    <3>3. CASE p \in {q, v} \/ r \in {q, v}
      BY <2>2, <3>1, <3>3, <1>3, <1>4
    <3> QED
      BY <3>2, <3>3
  <2> QED
    BY <2>1, <2>2 DEF QueueInv
<1>7. ASSUME NEW h \in Gs
      PROVE  Ready(h)' <=> Ready(h) /\ h # x
  <2>1. x \notin Elems(gq) /\ \A p \in Ps : p # v => x \notin Elems(rq[p])
    BY <1>4 DEF QueueInv
  <2>2. (\E p \in Ps : h \in Elems(rq'[p]))
           <=> (\E p \in Ps : h \in Elems(rq[p])) /\ h # x

    <3>1. ASSUME NEW p \in Ps, h \in Elems(rq'[p])
          PROVE  h # x /\ \E w \in Ps : h \in Elems(rq[w])
      BY <3>1, <2>1, <1>3, <1>4
    <3>2. ASSUME NEW p \in Ps, h \in Elems(rq[p]), h # x
          PROVE  \E w \in Ps : h \in Elems(rq'[w])
      BY <3>2, <1>3, <1>4, <1>5
    <3> QED
      BY <3>1, <3>2
  <2> QED
    BY <2>1, <2>2 DEF Ready
<1>8. Ready(x)
  BY <1>4 DEF Ready
<1> QED
  BY <1>1, <1>6, <1>7, <1>8 DEF x

-----------------------------------------------------------------------------
(* Where every goroutine is.                                                *)

\* Two Ms never hold the same goroutine.
OneHolder ==
  \A m, n \in Ms, g \in Gs : Holds(m, g) /\ Holds(n, g) => m = n

\* What an M knows of the goroutine g it holds: it is in no run queue, it is
\* done only inside goroutine_exit, and it waits on a list only while the M
\* has not released the lock of that list, which keeps every waker away.
HeldBy(m, g) ==
  /\ ~Ready(g)
  /\ gs[g] = IF pc[m] \in {"exitwake", "exitfree"} THEN "done" ELSE "live"
  /\ pc[m] \notin {"suspended", "unlock"} =>
       waitOn[g] = NULL /\ parkMutex[g] = NULL
  /\ pc[m] = "suspended" => (parkMutex[g] = NULL <=> waitOn[g] = NULL)
  /\ pc[m] = "unlock" => parkMutex[g] = NULL /\ waitOn[g] # NULL
  /\ waitOn[g] = "event" => evHeld[g]
  /\ waitOn[g] \in Gs <=> doneLock = g
  /\ pc[m] = "exitwake" => doneLock = m

HeldInv ==
  \A m \in Ms, g \in Gs : Holds(m, g) => HeldBy(m, g)

\* A goroutine that is queued or waits is live, a live one is somewhere, and
\* one that is done or still has its park_mutex is held.
Located(g) ==
  /\ Ready(g) => gs[g] = "live" /\ waitOn[g] = NULL
  /\ waitOn[g] # NULL => gs[g] = "live"
  /\ gs[g] = "live" => Ready(g) \/ waitOn[g] # NULL \/ \E m \in Ms : Holds(m, g)
  /\ gs[g] = "done" \/ parkMutex[g] # NULL \/ doneLock = g =>
       \E m \in Ms : Holds(m, g)

LocatedInv == \A g \in Gs : Located(g)

PlaceInv == QueueInv /\ OneHolder /\ HeldInv /\ LocatedInv

(* A step that moves Ms only between places where they hold no goroutine,   *)
(* and leaves the queues and the goroutines alone, keeps every goroutine    *)
(* where it is.                                                             *)
LEMMA PlaceFrame ==
  ASSUME PlaceInv,
         UNCHANGED <<gq, rq, gs, waitOn, parkMutex, evHeld, doneLock>>,
         \A n \in Ms : \/ pc'[n] = pc[n] /\ cur'[n] = cur[n]
                       \/ \A g \in Gs : ~Holds(n, g) /\ ~Holds(n, g)'
  PROVE  PlaceInv'
<1>1. QueueInv'
  BY DEF PlaceInv, QueueInv
<1>2. \A g : Ready(g)' <=> Ready(g)
  BY DEF Ready
<1>3. \A n \in Ms, g \in Gs :
        /\ Holds(n, g)' <=> Holds(n, g)
        /\ Holds(n, g) => pc'[n] = pc[n]
  BY DEF Holds
<1>4. OneHolder'
  BY <1>3 DEF PlaceInv, OneHolder
<1>5. HeldInv'
  BY <1>2, <1>3 DEF PlaceInv, HeldInv, HeldBy
<1>6. LocatedInv'
  BY <1>2, <1>3 DEF PlaceInv, LocatedInv, Located
<1> QED
  BY <1>1, <1>4, <1>5, <1>6 DEF PlaceInv

(* run_g: the goroutine just taken from a run queue is held by m alone.     *)
LEMMA PlaceDispatch ==
  ASSUME ThreadTypes, PlaceInv, QueueInv', NEW m \in Ms, NEW g \in Gs,
         \A h \in Gs : ~Holds(m, h), Ready(g), Dispatch(m, g),
         \A h \in Gs : Ready(h)' <=> Ready(h) /\ h # g,
         UNCHANGED <<gs, waitOn, parkMutex, evHeld, doneLock>>
  PROVE  PlaceInv'
<1>1. OneHolder /\ HeldInv /\ LocatedInv
  BY DEF PlaceInv
<1>2. /\ Holds(m, g)' /\ pc'[m] = "run" /\ \A h \in Gs : Holds(m, h)' => h = g
      /\ \A n \in Ms, h \in Gs :
           n # m => (Holds(n, h)' <=> Holds(n, h)) /\ pc'[n] = pc[n]
  BY DEF Dispatch, Holds, ThreadTypes
<1>3. \A n \in Ms : ~Holds(n, g)
  BY <1>1 DEF HeldInv, HeldBy
<1>4. /\ gs[g] = "live" /\ waitOn[g] = NULL /\ parkMutex[g] = NULL
      /\ doneLock # g
  BY <1>1, <1>3 DEF LocatedInv, Located
<1>5. OneHolder'
  BY <1>1, <1>2, <1>3 DEF OneHolder
<1>6. HeldInv'
  <2>1. HeldBy(m, g)'
    BY <1>2, <1>4, Domains, SchedAssumption DEF HeldBy
  <2>2. ASSUME NEW n \in Ms, NEW h \in Gs, n # m, Holds(n, h)
        PROVE  HeldBy(n, h)'
    BY <1>1, <1>2, <2>2 DEF HeldInv, HeldBy
  <2> QED
    BY <1>2, <2>1, <2>2 DEF HeldInv
<1>7. LocatedInv'
  BY <1>1, <1>2, <1>4 DEF LocatedInv, Located
<1> QED
  BY <1>5, <1>6, <1>7 DEF PlaceInv

(* sched_enqueue of a goroutine that nobody holds any more.                 *)
LEMMA PlaceEnqueue ==
  ASSUME QueueTypes, GTypes, PlaceInv, NEW t \in Threads,
         NEW q \in Ps \cup {NULL}, NEW g \in Gs, ~Ready(g), Enqueue(t, q, g),
         gs'[g] = "live", waitOn'[g] = NULL, parkMutex[g] = NULL, doneLock # g,
         \A n \in Ms : ~Holds(n, g)',
         \A n \in Ms, h \in Gs : h # g => (Holds(n, h)' <=> Holds(n, h)),
         \A n \in Ms, h \in Gs : Holds(n, h)' => pc'[n] = pc[n],
         \A h \in Gs : h # g => gs'[h] = gs[h] /\ waitOn'[h] = waitOn[h],
         UNCHANGED <<parkMutex, evHeld, doneLock>>
  PROVE  PlaceInv'
<1>1. QueueInv /\ OneHolder /\ HeldInv /\ LocatedInv
  BY DEF PlaceInv
<1>2. QueueInv' /\ \A h \in Gs : Ready(h)' <=> Ready(h) \/ h = g
  BY <1>1, ReadyEnqueue
<1>3. OneHolder'
  BY <1>1 DEF OneHolder
<1>4. HeldInv'
  BY <1>1, <1>2 DEF HeldInv, HeldBy
<1>5. LocatedInv'
  <2>1. Located(g)'
    BY <1>2 DEF Located
  <2>2. ASSUME NEW h \in Gs, h # g
        PROVE  Located(h)'
    BY <1>1, <1>2, <2>2 DEF LocatedInv, Located
  <2> QED
    BY <2>1, <2>2 DEF LocatedInv
<1> QED
  BY <1>2, <1>3, <1>4, <1>5 DEF PlaceInv

(* A step of m that concerns only the goroutine g it holds, and done_lock   *)
(* only if it is free or held on behalf of m or g.                          *)
LEMMA PlaceOwn ==
  ASSUME PlaceInv, NEW m \in Ms, NEW g \in Gs, Holds(m, g),
         UNCHANGED <<gq, rq, cur>>,
         \A n \in Ms, h \in Gs :
           n # m => (Holds(n, h)' <=> Holds(n, h)) /\ (Holds(n, h) => pc'[n] = pc[n]),
         \A h \in Gs : h # g =>
            /\ gs'[h] = gs[h] /\ waitOn'[h] = waitOn[h]
            /\ parkMutex'[h] = parkMutex[h] /\ evHeld'[h] = evHeld[h],
         \/ doneLock' = doneLock
         \/ doneLock \in {NULL, m, g} /\ doneLock' \in {NULL, m, g},
         Holds(m, g)' => HeldBy(m, g)',
         Located(g)'
  PROVE  PlaceInv'
<1>1. QueueInv /\ OneHolder /\ HeldInv /\ LocatedInv
  BY DEF PlaceInv
<1>2. QueueInv' /\ \A h \in Gs : Ready(h)' <=> Ready(h)
  BY <1>1 DEF QueueInv, Ready
<1>3. /\ \A h \in Gs : Holds(m, h) \/ Holds(m, h)' => h = g
      /\ \A n \in Ms : n # m => ~Holds(n, g)
  BY <1>1 DEF Holds, OneHolder
<1>4. OneHolder'
  BY <1>1, <1>3 DEF OneHolder
<1>5. HeldInv'
  <2>1. ASSUME NEW n \in Ms, NEW h \in Gs, n # m, Holds(n, h)
        PROVE  HeldBy(n, h)'
    <3>1. HeldBy(n, h) /\ h # g
      BY <1>1, <1>3, <2>1 DEF HeldInv
    <3>2. n \notin {NULL, m, g} /\ h \notin {NULL, m, g}
      BY <2>1, <3>1, Domains, SchedAssumption DEF Ms
    <3> QED
      BY <2>1, <3>1, <3>2, <1>2 DEF HeldBy
  <2> QED
    BY <1>3, <2>1 DEF HeldInv
<1>6. LocatedInv'
  <2>1. ASSUME NEW h \in Gs, h # g
        PROVE  Located(h)'
    <3>1. \A n \in Ms : Holds(n, h)' <=> Holds(n, h)
      BY <1>3, <2>1
    <3> QED
      BY <1>1, <1>2, <2>1, <3>1, Domains, SchedAssumption
         DEF LocatedInv, Located, Ms
  <2> QED
    BY <2>1 DEF LocatedInv
<1> QED
  BY <1>2, <1>4, <1>5, <1>6 DEF PlaceInv

(* Every step moves a goroutine from one place to one other place.          *)
LEMMA PlaceStep ==
  ASSUME IInv, BusyInv, RingInv, PlaceInv, [Next]_vars
  PROVE  PlaceInv'
<1> USE Domains
<1>0. /\ PcInv /\ StackInv /\ ThreadTypes /\ StackTypes /\ QueueTypes /\ GTypes
      /\ POwnership /\ RingInv /\ PlaceInv
      /\ Gs \cap Ms = {} /\ "event" \notin Gs \cup {NULL} /\ "done" # NULL
  BY SchedAssumption DEF IInv, TypeOK, Ms
<1>1. ASSUME NEW m \in Ms, Loop(m)
      PROVE  PlaceInv'
  BY <1>1, <1>0, PlaceFrame DEF Loop, GlobalTurn, Free, Holds, ThreadTypes
<1>2. ASSUME NEW m \in Ms, TakeGlobal(m)
      PROVE  PlaceInv'
  <2>1. CASE gq # <<>>
    <3>1. /\ gq' = Tail(gq) /\ Dispatch(m, Head(gq))
          /\ UNCHANGED <<rq, gs, waitOn, parkMutex, evHeld, doneLock>>
      BY <1>2, <2>1 DEF TakeGlobal
    <3>2. \A h \in Gs : ~Holds(m, h)
      BY <1>2 DEF TakeGlobal, Holds
    <3> QED
      BY <2>1, <3>1, <3>2, <1>0, ReadyTakeGlobal, PlaceDispatch DEF PlaceInv
  <2>2. CASE gq = <<>>
    BY <1>2, <2>2, <1>0, PlaceFrame DEF TakeGlobal, AfterGlobal, Holds,
       ThreadTypes
  <2> QED
    BY <2>1, <2>2
<1>3. ASSUME NEW m \in Ms, TakeLocal(m)
      PROVE  PlaceInv'
  <2>1. CASE rq[mp[m]] # <<>>
    <3>1. /\ rq' = [rq EXCEPT ![mp[m]] = Tail(@)]
          /\ Dispatch(m, Head(rq[mp[m]]))
          /\ UNCHANGED <<gq, gs, waitOn, parkMutex, evHeld, doneLock>>
      BY <1>3, <2>1 DEF TakeLocal
    <3>2. mp[m] \in Ps /\ \A h \in Gs : ~Holds(m, h)
      BY <1>3, <1>0 DEF TakeLocal, Holds, PcInv, Searching, ThreadTypes
    <3> QED
      BY <2>1, <3>1, <3>2, <1>0, ReadyTakeLocal, PlaceDispatch DEF PlaceInv
  <2>2. CASE rq[mp[m]] = <<>>
    BY <1>3, <2>2, <1>0, PlaceFrame DEF TakeLocal, Holds, ThreadTypes
  <2> QED
    BY <2>1, <2>2
<1>4. ASSUME NEW m \in Ms, Steal(m)
      PROVE  PlaceInv'
  <2> DEFINE v == scan[m]
             k == StealCount(Len(rq[v]))
             Found == v < NumP /\ v # mp[m] /\ rq[v] # <<>>
  <2>1. /\ mp[m] \in Ps /\ v \in 0 .. NumP /\ rq[mp[m]] = <<>>
        /\ \A h \in Gs : ~Holds(m, h)
    BY <1>4, <1>0 DEF Steal, Holds, PcInv, Searching, ThreadTypes, RingInv,
       Drained
  <2>2. CASE Found
    <3>1. v \in Ps /\ rq[v] \in Seq(Gs) /\ Len(rq[v]) \in Nat \ {0}
      BY <2>1, <2>2, <1>0 DEF QueueTypes, Ps
    <3>2. k \in 1 .. Len(rq[v])
      BY <3>1, StealCountRange
    <3>3. v # NumP /\ ~(v = mp[m] \/ rq[v] = <<>>)
      BY <2>1, <2>2
    <3>4. /\ rq' = [rq EXCEPT ![v] = Left(rq[v], k),
                              ![mp[m]] = rq[mp[m]] \o SubSeq(rq[v], 2, k)]
          /\ Dispatch(m, Head(rq[v]))
      BY <1>4, <3>3, Zenon DEF Steal
    <3>5. UNCHANGED <<gq, gs, waitOn, parkMutex, evHeld, doneLock>>
      BY <1>4 DEF Steal
    <3> HIDE DEF v, k
    <3>6. /\ QueueInv' /\ Ready(Head(rq[v])) /\ Head(rq[v]) \in Gs
          /\ \A h \in Gs : Ready(h)' <=> Ready(h) /\ h # Head(rq[v])
      BY <2>1, <3>1, <3>2, <3>3, <3>4, <3>5, <1>0, ReadySteal DEF PlaceInv
    <3> QED
      BY <2>1, <3>4, <3>5, <3>6, <1>0, PlaceDispatch
  <2>3. CASE ~Found
    <3>1. /\ pc' \in {pc, [pc EXCEPT ![m] = "park"]}
          /\ UNCHANGED <<gq, rq, cur, gs, waitOn, parkMutex, evHeld, doneLock>>
      BY <1>4, <2>1, <2>3 DEF Steal
    <3> QED
      BY <1>4, <3>1, <1>0, PlaceFrame DEF Steal, Holds, ThreadTypes
  <2> QED
    BY <2>2, <2>3
<1>5. ASSUME NEW m \in Ms, ParkM(m)
      PROVE  PlaceInv'
  BY <1>5, <1>0, PlaceFrame DEF ParkM, WorkAppeared, Holds, ThreadTypes
<1>6. ASSUME NEW m \in Ms, ParkSpare(m)
      PROVE  PlaceInv'
  BY <1>6, <1>0, PlaceFrame DEF ParkSpare, Holds, ThreadTypes
<1>7. ASSUME NEW m \in Ms, WaitCheck(m)
      PROVE  PlaceInv'
  BY <1>7, <1>0, PlaceFrame DEF WaitCheck, Woken, Holds, ThreadTypes
<1>8. ASSUME NEW m \in Ms, StartM(m)
      PROVE  PlaceInv'
  <2>1. PICK h \in Gs : h = cur[m] /\ Holds(m, h)
    BY <1>8, <1>0 DEF StartM, Holds, PcInv, Executing, ThreadTypes
  <2>2. HeldBy(m, h) /\ Located(h)
    BY <2>1, <1>0 DEF PlaceInv, HeldInv, LocatedInv
  <2>3. UNCHANGED <<gq, rq, cur, gs, waitOn, parkMutex, evHeld, doneLock>>
    BY <1>8 DEF StartM
  <2>4. /\ pc[m] = "startm" /\ pc'[m] = "run"
        /\ \A n \in Ms : n # m => \/ pc'[n] = pc[n]
                                  \/ pc[n] = "off" /\ pc'[n] = "loop"
    <3>1. CASE spare = <<>> /\ allM # Ms
      <4>1. PICK n \in Ms \ allM : pc' = [pc EXCEPT ![m] = "run", ![n] = "loop"]
        BY <1>8, <3>1 DEF StartM
      <4>2. pc[n] = "off" /\ pc[m] = "startm"
        BY <1>8, <4>1, <1>0 DEF StartM, PcInv
      <4> QED
        BY <4>1, <4>2, <1>0 DEF ThreadTypes
    <3>2. CASE ~(spare = <<>> /\ allM # Ms)
      BY <1>8, <3>2, <1>0 DEF StartM, ThreadTypes
    <3> QED
      BY <3>1, <3>2
  <2>5. \A n \in Ms, x \in Gs :
           n # m => /\ Holds(n, x)' <=> Holds(n, x)
                    /\ Holds(n, x) => pc'[n] = pc[n]
    BY <2>3, <2>4 DEF Holds
  <2>6. \A x \in Gs : Ready(x)' <=> Ready(x)
    BY <2>3 DEF Ready
  <2>7. Holds(m, h)' /\ HeldBy(m, h)'
    BY <2>1, <2>2, <2>3, <2>4, <2>6 DEF Holds, HeldBy
  <2>8. Located(h)'
    BY <2>1, <2>2, <2>3, <2>6, <2>7 DEF Located
  <2> QED
    BY <2>1, <2>3, <2>5, <2>7, <2>8, <1>0, PlaceOwn
<1>9. ASSUME NEW m \in Ms, ReleaseParkMutex(m)
      PROVE  PlaceInv'
  <2>1. PICK h \in Gs : h = cur[m] /\ Holds(m, h)
    BY <1>9, <1>0 DEF ReleaseParkMutex, Holds, PcInv, Executing, ThreadTypes
  <2>2. HeldBy(m, h) /\ Located(h) /\ \A x \in Gs : Ready(x)' <=> Ready(x)
    BY <1>9, <2>1, <1>0 DEF PlaceInv, HeldInv, LocatedInv, Ready,
       ReleaseParkMutex
  <2>3. /\ UNCHANGED <<gq, rq, cur>>
        /\ \A n \in Ms : n # m => pc'[n] = pc[n]
        /\ \A x \in Gs : x # h =>
             /\ gs'[x] = gs[x] /\ waitOn'[x] = waitOn[x]
             /\ parkMutex'[x] = parkMutex[x] /\ evHeld'[x] = evHeld[x]
    BY <1>9, <2>1, <1>0 DEF ReleaseParkMutex, ThreadTypes, GTypes
  <2>4. \/ doneLock' = doneLock
        \/ doneLock \in {NULL, m, h} /\ doneLock' \in {NULL, m, h}
    BY <1>9, <2>1, <2>2, <1>0 DEF ReleaseParkMutex, HeldBy
  <2>5. Holds(m, h)' => HeldBy(m, h)'
    BY <1>9, <2>1, <2>2, <1>0 DEF ReleaseParkMutex, HeldBy, Holds,
       ThreadTypes, GTypes
  <2>6. Located(h)'
    BY <1>9, <2>1, <2>2, <1>0 DEF ReleaseParkMutex, HeldBy, Located, Holds,
       ThreadTypes, GTypes
  <2>7. \A n \in Ms, x \in Gs :
           n # m => /\ Holds(n, x)' <=> Holds(n, x)
                    /\ Holds(n, x) => pc'[n] = pc[n]
    BY <2>3 DEF Holds
  <2> QED
    BY <2>1, <2>3, <2>4, <2>5, <2>6, <2>7, <1>0, PlaceOwn
<1>10. ASSUME NEW m \in Ms, AfterRelease(m)
       PROVE  PlaceInv'
  BY <1>10, <1>0, PlaceFrame DEF AfterRelease, ClearCurG, Holds, ThreadTypes
<1>11. ASSUME NEW m \in Ms, YieldReenqueue(m)
       PROVE  PlaceInv'
  <2>1. PICK h \in Gs : h = cur[m] /\ Holds(m, h)
    BY <1>11, <1>0 DEF YieldReenqueue, Holds, PcInv, Executing, ThreadTypes
  <2>2. HeldBy(m, h) /\ Located(h) /\ \A n \in Ms : Holds(n, h) => n = m
    BY <2>1, <1>0 DEF PlaceInv, HeldInv, LocatedInv, OneHolder
  <2>3. CASE pc[m] = "suspended"
    <3>1. /\ pc' = [pc EXCEPT ![m] = "reenqueue"] /\ parkMutex[h] = NULL
          /\ UNCHANGED <<gq, rq, cur, gs, waitOn, parkMutex, evHeld, doneLock>>
      BY <1>11, <2>1, <2>3 DEF YieldReenqueue
    <3>2. \A x \in Gs : Ready(x)' <=> Ready(x)
      BY <3>1 DEF Ready
    <3>3. /\ Holds(m, h)' /\ pc'[m] = "reenqueue"
          /\ \A n \in Ms : n # m => pc'[n] = pc[n]
      BY <2>1, <3>1, <1>0 DEF Holds, ThreadTypes
    <3>4. \A n \in Ms, x \in Gs :
             n # m => /\ Holds(n, x)' <=> Holds(n, x)
                      /\ Holds(n, x) => pc'[n] = pc[n]
      BY <3>1, <3>3 DEF Holds
    <3>5. HeldBy(m, h)'
      BY <2>1, <2>2, <2>3, <3>1, <3>2, <3>3, <1>0 DEF HeldBy
    <3>6. Located(h)'
      BY <2>1, <2>2, <3>1, <3>2, <3>3 DEF Located
    <3> QED
      BY <2>1, <3>1, <3>4, <3>5, <3>6, <1>0, PlaceOwn
  <2>4. CASE pc[m] = "reenqueue"
    <3>1. /\ Enqueue(m, mp[m], h) /\ pc' = [pc EXCEPT ![m] = "loop"]
          /\ UNCHANGED <<cur, gs, waitOn, parkMutex, evHeld, doneLock>>
      BY <1>11, <2>1, <2>4 DEF YieldReenqueue
    <3>2. mp[m] \in Ps \cup {NULL} /\ m \in Threads
      BY <1>0 DEF ThreadTypes
    <3>3. /\ gs[h] = "live" /\ waitOn[h] = NULL /\ parkMutex[h] = NULL
          /\ doneLock # h /\ ~Ready(h)
      BY <2>2, <2>4, <1>0 DEF HeldBy
    <3>4. pc'[m] = "loop" /\ \A n \in Ms : n # m => pc'[n] = pc[n]
      BY <3>1, <1>0 DEF ThreadTypes
    <3>5. /\ \A n \in Ms : ~Holds(n, h)'
          /\ \A n \in Ms, x \in Gs : x # h => (Holds(n, x)' <=> Holds(n, x))
          /\ \A n \in Ms, x \in Gs : Holds(n, x)' => pc'[n] = pc[n]
      BY <2>1, <2>2, <3>1, <3>4 DEF Holds
    <3> QED
      BY <2>1, <3>1, <3>2, <3>3, <3>5, <1>0, PlaceEnqueue
  <2> QED
    BY <1>11, <2>3, <2>4 DEF YieldReenqueue
<1>12. ASSUME NEW m \in Ms, ExitLock(m)
       PROVE  PlaceInv'
  <2>1. PICK h \in Gs : h = cur[m] /\ Holds(m, h)
    BY <1>12, <1>0 DEF ExitLock, Holds, PcInv, Executing, ThreadTypes
  <2>2. HeldBy(m, h) /\ Located(h) /\ \A x \in Gs : Ready(x)' <=> Ready(x)
    BY <1>12, <2>1, <1>0 DEF PlaceInv, HeldInv, LocatedInv, Ready, ExitLock
  <2>3. /\ UNCHANGED <<gq, rq, cur>>
        /\ \A n \in Ms : n # m => pc'[n] = pc[n]
        /\ \A x \in Gs : x # h =>
             /\ gs'[x] = gs[x] /\ waitOn'[x] = waitOn[x]
             /\ parkMutex'[x] = parkMutex[x] /\ evHeld'[x] = evHeld[x]
    BY <1>12, <2>1, <1>0 DEF ExitLock, ThreadTypes, GTypes
  <2>4. \/ doneLock' = doneLock
        \/ doneLock \in {NULL, m, h} /\ doneLock' \in {NULL, m, h}
    BY <1>12, <2>1, <2>2, <1>0 DEF ExitLock, HeldBy
  <2>5. Holds(m, h)' => HeldBy(m, h)'
    BY <1>12, <2>1, <2>2, <1>0 DEF ExitLock, HeldBy, Holds, ThreadTypes,
       GTypes
  <2>6. Located(h)'
    BY <1>12, <2>1, <2>2, <1>0 DEF ExitLock, HeldBy, Located, Holds,
       ThreadTypes, GTypes
  <2>7. \A n \in Ms, x \in Gs :
           n # m => /\ Holds(n, x)' <=> Holds(n, x)
                    /\ Holds(n, x) => pc'[n] = pc[n]
    BY <2>3 DEF Holds
  <2> QED
    BY <2>1, <2>3, <2>4, <2>5, <2>6, <2>7, <1>0, PlaceOwn
<1>13. ASSUME NEW m \in Ms, ExitUnlock(m)
       PROVE  PlaceInv'
  <2>1. PICK h \in Gs : h = cur[m] /\ Holds(m, h)
    BY <1>13, <1>0 DEF ExitUnlock, Holds, PcInv, Executing, ThreadTypes
  <2>2. HeldBy(m, h) /\ Located(h) /\ \A x \in Gs : Ready(x)' <=> Ready(x)
    BY <1>13, <2>1, <1>0 DEF PlaceInv, HeldInv, LocatedInv, Ready, ExitUnlock
  <2>3. /\ UNCHANGED <<gq, rq, cur>>
        /\ \A n \in Ms : n # m => pc'[n] = pc[n]
        /\ \A x \in Gs : x # h =>
             /\ gs'[x] = gs[x] /\ waitOn'[x] = waitOn[x]
             /\ parkMutex'[x] = parkMutex[x] /\ evHeld'[x] = evHeld[x]
    BY <1>13, <1>0 DEF ExitUnlock, ThreadTypes, GTypes
  <2>4. \/ doneLock' = doneLock
        \/ doneLock \in {NULL, m, h} /\ doneLock' \in {NULL, m, h}
    BY <1>13, <2>1, <2>2, <1>0 DEF ExitUnlock, HeldBy
  <2>5. Holds(m, h)' => HeldBy(m, h)'
    BY <1>13, <2>1, <2>2, <1>0 DEF ExitUnlock, HeldBy, Holds, ThreadTypes,
       GTypes
  <2>6. Located(h)'
    BY <1>13, <2>1, <2>2, <1>0 DEF ExitUnlock, HeldBy, Located, Holds,
       ThreadTypes, GTypes
  <2>7. \A n \in Ms, x \in Gs :
           n # m => /\ Holds(n, x)' <=> Holds(n, x)
                    /\ Holds(n, x) => pc'[n] = pc[n]
    BY <2>3 DEF Holds
  <2> QED
    BY <2>1, <2>3, <2>4, <2>5, <2>6, <2>7, <1>0, PlaceOwn
<1>14. ASSUME NEW m \in Ms, ExitFree(m)
       PROVE  PlaceInv'
  <2>1. PICK h \in Gs : h = cur[m] /\ Holds(m, h)
    BY <1>14, <1>0 DEF ExitFree, Holds, PcInv, Executing, ThreadTypes
  <2>2. HeldBy(m, h) /\ Located(h) /\ \A x \in Gs : Ready(x)' <=> Ready(x)
    BY <1>14, <2>1, <1>0 DEF PlaceInv, HeldInv, LocatedInv, Ready, ExitFree
  <2>3. /\ UNCHANGED <<gq, rq, cur>>
        /\ \A n \in Ms : n # m => pc'[n] = pc[n]
        /\ \A x \in Gs : x # h =>
             /\ gs'[x] = gs[x] /\ waitOn'[x] = waitOn[x]
             /\ parkMutex'[x] = parkMutex[x] /\ evHeld'[x] = evHeld[x]
    BY <1>14, <2>1, <1>0 DEF ExitFree, ThreadTypes, GTypes
  <2>4. \/ doneLock' = doneLock
        \/ doneLock \in {NULL, m, h} /\ doneLock' \in {NULL, m, h}
    BY <1>14, <2>1, <2>2, <1>0 DEF ExitFree, HeldBy
  <2>5. Holds(m, h)' => HeldBy(m, h)'
    BY <1>14, <2>1, <2>2, <1>0 DEF ExitFree, HeldBy, Holds, ThreadTypes,
       GTypes
  <2>6. Located(h)'
    BY <1>14, <2>1, <2>2, <1>0 DEF ExitFree, HeldBy, Located, Holds,
       ThreadTypes, GTypes
  <2>7. \A n \in Ms, x \in Gs :
           n # m => /\ Holds(n, x)' <=> Holds(n, x)
                    /\ Holds(n, x) => pc'[n] = pc[n]
    BY <2>3 DEF Holds
  <2> QED
    BY <2>1, <2>3, <2>4, <2>5, <2>6, <2>7, <1>0, PlaceOwn
<1>15. ASSUME NEW m \in Ms, NEW g \in Gs, ExitWake(m, g)
       PROVE  PlaceInv'
  <2>1. Enqueue(m, mp[m], g) /\ m \in Threads /\ mp[m] \in Ps \cup {NULL}
    BY <1>15, <1>0 DEF ExitWake, ThreadTypes
  <2>2. /\ waitOn[g] = cur[m] /\ waitOn' = [waitOn EXCEPT ![g] = NULL]
        /\ UNCHANGED <<pc, cur, gs, parkMutex, evHeld, doneLock>>
    BY <1>15 DEF ExitWake
  <2>3. \A n \in Ms : ~Holds(n, g)
    BY <1>15, <2>2, <1>0 DEF ExitWake, PlaceInv, HeldInv, HeldBy, Holds,
       PcInv, Executing, ThreadTypes
  <2>4. /\ gs[g] = "live" /\ parkMutex[g] = NULL /\ doneLock # g
        /\ ~Ready(g)
    BY <1>15, <2>2, <2>3, <1>0 DEF ExitWake, PlaceInv, LocatedInv, Located,
       PcInv, Executing
  <2>5. /\ \A n \in Ms, h \in Gs : Holds(n, h)' <=> Holds(n, h)
        /\ \A n \in Ms : pc'[n] = pc[n]
        /\ waitOn'[g] = NULL /\ \A h \in Gs : h # g => waitOn'[h] = waitOn[h]
    BY <2>2, <1>0 DEF Holds, GTypes
  <2> QED
    BY <2>1, <2>2, <2>3, <2>4, <2>5, <1>0, PlaceEnqueue
<1>16. ASSUME NEW m \in Ms, ParkEvent(m)
       PROVE  PlaceInv'
  <2>1. PICK h \in Gs : h = cur[m] /\ Holds(m, h)
    BY <1>16, <1>0 DEF ParkEvent, Running, Holds, PcInv, Executing,
       ThreadTypes
  <2>2. HeldBy(m, h) /\ Located(h) /\ \A x \in Gs : Ready(x)' <=> Ready(x)
    BY <1>16, <2>1, <1>0 DEF PlaceInv, HeldInv, LocatedInv, Ready, ParkEvent,
       Running
  <2>3. /\ UNCHANGED <<gq, rq, cur>>
        /\ \A n \in Ms : n # m => pc'[n] = pc[n]
        /\ \A x \in Gs : x # h =>
             /\ gs'[x] = gs[x] /\ waitOn'[x] = waitOn[x]
             /\ parkMutex'[x] = parkMutex[x] /\ evHeld'[x] = evHeld[x]
    BY <1>16, <2>1, <1>0 DEF ParkEvent, Running, ThreadTypes, GTypes
  <2>4. \/ doneLock' = doneLock
        \/ doneLock \in {NULL, m, h} /\ doneLock' \in {NULL, m, h}
    BY <1>16, <2>1, <2>2, <1>0 DEF ParkEvent, Running, HeldBy
  <2>5. Holds(m, h)' => HeldBy(m, h)'
    BY <1>16, <2>1, <2>2, <1>0 DEF ParkEvent, Running, HeldBy, Holds,
       ThreadTypes, GTypes
  <2>6. Located(h)'
    BY <1>16, <2>1, <2>2, <1>0 DEF ParkEvent, Running, HeldBy, Located, Holds,
       ThreadTypes, GTypes
  <2>7. \A n \in Ms, x \in Gs :
           n # m => /\ Holds(n, x)' <=> Holds(n, x)
                    /\ Holds(n, x) => pc'[n] = pc[n]
    BY <2>3 DEF Holds
  <2> QED
    BY <2>1, <2>3, <2>4, <2>5, <2>6, <2>7, <1>0, PlaceOwn
<1>17. ASSUME NEW m \in Ms, Yield(m)
       PROVE  PlaceInv'
  <2>1. PICK h \in Gs : h = cur[m] /\ Holds(m, h)
    BY <1>17, <1>0 DEF Yield, Running, Holds, PcInv, Executing, ThreadTypes
  <2>2. HeldBy(m, h) /\ Located(h) /\ \A x \in Gs : Ready(x)' <=> Ready(x)
    BY <1>17, <2>1, <1>0 DEF PlaceInv, HeldInv, LocatedInv, Ready, Yield,
       Running
  <2>3. /\ UNCHANGED <<gq, rq, cur>>
        /\ \A n \in Ms : n # m => pc'[n] = pc[n]
        /\ \A x \in Gs : x # h =>
             /\ gs'[x] = gs[x] /\ waitOn'[x] = waitOn[x]
             /\ parkMutex'[x] = parkMutex[x] /\ evHeld'[x] = evHeld[x]
    BY <1>17, <1>0 DEF Yield, Running, ThreadTypes, GTypes
  <2>4. \/ doneLock' = doneLock
        \/ doneLock \in {NULL, m, h} /\ doneLock' \in {NULL, m, h}
    BY <1>17, <2>1, <2>2, <1>0 DEF Yield, Running, HeldBy
  <2>5. Holds(m, h)' => HeldBy(m, h)'
    BY <1>17, <2>1, <2>2, <1>0 DEF Yield, Running, HeldBy, Holds, ThreadTypes,
       GTypes
  <2>6. Located(h)'
    BY <1>17, <2>1, <2>2, <1>0 DEF Yield, Running, HeldBy, Located, Holds,
       ThreadTypes, GTypes
  <2>7. \A n \in Ms, x \in Gs :
           n # m => /\ Holds(n, x)' <=> Holds(n, x)
                    /\ Holds(n, x) => pc'[n] = pc[n]
    BY <2>3 DEF Holds
  <2> QED
    BY <2>1, <2>3, <2>4, <2>5, <2>6, <2>7, <1>0, PlaceOwn
<1>18. ASSUME NEW m \in Ms, EnterSyscall(m)
       PROVE  PlaceInv'
  <2>1. PICK h \in Gs : h = cur[m] /\ Holds(m, h)
    BY <1>18, <1>0 DEF EnterSyscall, Running, Holds, PcInv, Executing,
       ThreadTypes
  <2>2. HeldBy(m, h) /\ Located(h) /\ \A x \in Gs : Ready(x)' <=> Ready(x)
    BY <1>18, <2>1, <1>0 DEF PlaceInv, HeldInv, LocatedInv, Ready,
       EnterSyscall, Running
  <2>3. /\ UNCHANGED <<gq, rq, cur>>
        /\ \A n \in Ms : n # m => pc'[n] = pc[n]
        /\ \A x \in Gs : x # h =>
             /\ gs'[x] = gs[x] /\ waitOn'[x] = waitOn[x]
             /\ parkMutex'[x] = parkMutex[x] /\ evHeld'[x] = evHeld[x]
    BY <1>18, <1>0 DEF EnterSyscall, Running, ThreadTypes, GTypes
  <2>4. \/ doneLock' = doneLock
        \/ doneLock \in {NULL, m, h} /\ doneLock' \in {NULL, m, h}
    BY <1>18, <2>1, <2>2, <1>0 DEF EnterSyscall, Running, HeldBy
  <2>5. Holds(m, h)' => HeldBy(m, h)'
    BY <1>18, <2>1, <2>2, <1>0 DEF EnterSyscall, Running, HeldBy, Holds,
       ThreadTypes, GTypes
  <2>6. Located(h)'
    BY <1>18, <2>1, <2>2, <1>0 DEF EnterSyscall, Running, HeldBy, Located,
       Holds, ThreadTypes, GTypes
  <2>7. \A n \in Ms, x \in Gs :
           n # m => /\ Holds(n, x)' <=> Holds(n, x)
                    /\ Holds(n, x) => pc'[n] = pc[n]
    BY <2>3 DEF Holds
  <2> QED
    BY <2>1, <2>3, <2>4, <2>5, <2>6, <2>7, <1>0, PlaceOwn
<1>19. ASSUME NEW m \in Ms, Complete(m)
       PROVE  PlaceInv'
  <2>1. PICK h \in Gs : h = cur[m] /\ Holds(m, h)
    BY <1>19, <1>0 DEF Complete, Running, Holds, PcInv, Executing, ThreadTypes
  <2>2. HeldBy(m, h) /\ Located(h) /\ \A x \in Gs : Ready(x)' <=> Ready(x)
    BY <1>19, <2>1, <1>0 DEF PlaceInv, HeldInv, LocatedInv, Ready, Complete,
       Running
  <2>3. /\ UNCHANGED <<gq, rq, cur>>
        /\ \A n \in Ms : n # m => pc'[n] = pc[n]
        /\ \A x \in Gs : x # h =>
             /\ gs'[x] = gs[x] /\ waitOn'[x] = waitOn[x]
             /\ parkMutex'[x] = parkMutex[x] /\ evHeld'[x] = evHeld[x]
    BY <1>19, <1>0 DEF Complete, Running, ThreadTypes, GTypes
  <2>4. \/ doneLock' = doneLock
        \/ doneLock \in {NULL, m, h} /\ doneLock' \in {NULL, m, h}
    BY <1>19, <2>1, <2>2, <1>0 DEF Complete, Running, HeldBy
  <2>5. Holds(m, h)' => HeldBy(m, h)'
    BY <1>19, <2>1, <2>2, <1>0 DEF Complete, Running, HeldBy, Holds,
       ThreadTypes, GTypes
  <2>6. Located(h)'
    BY <1>19, <2>1, <2>2, <1>0 DEF Complete, Running, HeldBy, Located, Holds,
       ThreadTypes, GTypes
  <2>7. \A n \in Ms, x \in Gs :
           n # m => /\ Holds(n, x)' <=> Holds(n, x)
                    /\ Holds(n, x) => pc'[n] = pc[n]
    BY <2>3 DEF Holds
  <2> QED
    BY <2>1, <2>3, <2>4, <2>5, <2>6, <2>7, <1>0, PlaceOwn
<1>20. ASSUME NEW m \in Ms, NEW g \in Gs, Spawn(m, g)
       PROVE  PlaceInv'
  <2>1. Enqueue(m, mp[m], g) /\ m \in Threads /\ mp[m] \in Ps \cup {NULL}
    BY <1>20, <1>0 DEF Spawn, ThreadTypes
  <2>2. /\ gs[g] = "new" /\ gs' = [gs EXCEPT ![g] = "live"]
        /\ UNCHANGED <<pc, cur, waitOn, parkMutex, evHeld, doneLock>>
    BY <1>20 DEF Spawn
  <2>3. \A n \in Ms : ~Holds(n, g)
    BY <2>2, <1>0 DEF PlaceInv, HeldInv, HeldBy
  <2>4. /\ waitOn[g] = NULL /\ parkMutex[g] = NULL /\ doneLock # g
        /\ ~Ready(g)
    BY <2>2, <2>3, <1>0 DEF PlaceInv, LocatedInv, Located
  <2>5. /\ \A n \in Ms, h \in Gs : Holds(n, h)' <=> Holds(n, h)
        /\ \A n \in Ms : pc'[n] = pc[n]
        /\ gs'[g] = "live" /\ \A h \in Gs : h # g => gs'[h] = gs[h]
    BY <2>2, <1>0 DEF Holds, GTypes
  <2> QED
    BY <2>1, <2>2, <2>3, <2>4, <2>5, <1>0, PlaceEnqueue
<1>21. ASSUME NEW m \in Ms, NEW g \in Gs, Unpark(m, g)
       PROVE  PlaceInv'
  <2>1. Enqueue(m, mp[m], g) /\ m \in Threads /\ mp[m] \in Ps \cup {NULL}
    BY <1>21, <1>0 DEF Unpark, Running, Wake, ThreadTypes
  <2>2. /\ waitOn[g] = "event" /\ ~evHeld[g] /\ waitOn' = [waitOn EXCEPT ![g] = NULL]
        /\ UNCHANGED <<pc, cur, gs, parkMutex, evHeld, doneLock>>
    BY <1>21 DEF Unpark, Running, Wake
  <2>3. \A n \in Ms : ~Holds(n, g)
    BY <1>21, <2>2, <1>0 DEF Unpark, Running, Wake, PlaceInv, HeldInv, HeldBy,
       Holds
  <2>4. /\ gs[g] = "live" /\ parkMutex[g] = NULL /\ doneLock # g
        /\ ~Ready(g)
    BY <2>2, <2>3, <1>0 DEF PlaceInv, LocatedInv, Located
  <2>5. /\ \A n \in Ms, h \in Gs : Holds(n, h)' <=> Holds(n, h)
        /\ \A n \in Ms : pc'[n] = pc[n]
        /\ waitOn'[g] = NULL /\ \A h \in Gs : h # g => waitOn'[h] = waitOn[h]
    BY <2>2, <1>0 DEF Holds, GTypes
  <2> QED
    BY <2>1, <2>2, <2>3, <2>4, <2>5, <1>0, PlaceEnqueue
<1>22. ASSUME NEW m \in Ms, NEW g \in Gs, Join(m, g)
       PROVE  PlaceInv'
  <2>1. PICK h \in Gs : h = cur[m] /\ Holds(m, h)
    BY <1>22, <1>0 DEF Join, Running, NotDone, Holds, PcInv, Executing,
       ThreadTypes
  <2>2. HeldBy(m, h) /\ Located(h) /\ \A x \in Gs : Ready(x)' <=> Ready(x)
    BY <1>22, <2>1, <1>0 DEF PlaceInv, HeldInv, LocatedInv, Ready, Join,
       Running, NotDone
  <2>3. /\ UNCHANGED <<gq, rq, cur>>
        /\ \A n \in Ms : n # m => pc'[n] = pc[n]
        /\ \A x \in Gs : x # h =>
             /\ gs'[x] = gs[x] /\ waitOn'[x] = waitOn[x]
             /\ parkMutex'[x] = parkMutex[x] /\ evHeld'[x] = evHeld[x]
    BY <1>22, <2>1, <1>0 DEF Join, Running, NotDone, ThreadTypes, GTypes
  <2>4. \/ doneLock' = doneLock
        \/ doneLock \in {NULL, m, h} /\ doneLock' \in {NULL, m, h}
    BY <1>22, <2>1, <2>2, <1>0 DEF Join, Running, NotDone, HeldBy
  <2>5. Holds(m, h)' => HeldBy(m, h)'
    BY <1>22, <2>1, <2>2, <1>0 DEF Join, Running, NotDone, HeldBy, Holds,
       ThreadTypes, GTypes
  <2>6. Located(h)'
    BY <1>22, <2>1, <2>2, <1>0 DEF Join, Running, NotDone, HeldBy, Located,
       Holds, ThreadTypes, GTypes
  <2>7. \A n \in Ms, x \in Gs :
           n # m => /\ Holds(n, x)' <=> Holds(n, x)
                    /\ Holds(n, x) => pc'[n] = pc[n]
    BY <2>3 DEF Holds
  <2> QED
    BY <2>1, <2>3, <2>4, <2>5, <2>6, <2>7, <1>0, PlaceOwn
<1>23. ASSUME NEW m \in Ms, SpuriousWakeup(m)
       PROVE  PlaceInv'
  BY <1>23, <1>0, PlaceFrame DEF SpuriousWakeup, Signalled, Holds, ThreadTypes
<1>24. ASSUME NEW t \in Threads, WakePop(t)
       PROVE  PlaceInv'
  BY <1>24, <1>0, PlaceFrame DEF WakePop, Holds, ThreadTypes
<1>25. ASSUME NEW t \in Threads, WakeSignal(t)
       PROVE  PlaceInv'
  BY <1>25, <1>0, PlaceFrame DEF WakeSignal, Signalled, Holds, ThreadTypes
<1>26. ASSUME NEW g \in Gs, ReactorUnpark(g)
       PROVE  PlaceInv'
  <2>1. Enqueue(Reactor, NULL, g) /\ Reactor \in Threads /\ NULL \in Ps \cup {NULL}
    BY <1>26, <1>0 DEF ReactorUnpark, Wake, ThreadTypes
  <2>2. /\ waitOn[g] = "event" /\ ~evHeld[g] /\ waitOn' = [waitOn EXCEPT ![g] = NULL]
        /\ UNCHANGED <<pc, cur, gs, parkMutex, evHeld, doneLock>>
    BY <1>26 DEF ReactorUnpark, Wake
  <2>3. \A n \in Ms : ~Holds(n, g)
    BY <1>26, <2>2, <1>0 DEF ReactorUnpark, Wake, PlaceInv, HeldInv, HeldBy,
       Holds
  <2>4. /\ gs[g] = "live" /\ parkMutex[g] = NULL /\ doneLock # g
        /\ ~Ready(g)
    BY <2>2, <2>3, <1>0 DEF PlaceInv, LocatedInv, Located
  <2>5. /\ \A n \in Ms, h \in Gs : Holds(n, h)' <=> Holds(n, h)
        /\ \A n \in Ms : pc'[n] = pc[n]
        /\ waitOn'[g] = NULL /\ \A h \in Gs : h # g => waitOn'[h] = waitOn[h]
    BY <2>2, <1>0 DEF Holds, GTypes
  <2> QED
    BY <2>1, <2>2, <2>3, <2>4, <2>5, <1>0, PlaceEnqueue
<1>27. ASSUME SysmonLoad
       PROVE  PlaceInv'
  BY <1>27, <1>0, PlaceFrame DEF SysmonLoad, Free, Holds, ThreadTypes
<1>28. ASSUME SysmonStore
       PROVE  PlaceInv'
  BY <1>28, <1>0, PlaceFrame DEF SysmonStore, Holds, ThreadTypes
<1>29. ASSUME SysmonWake
       PROVE  PlaceInv'
  BY <1>29, <1>0, PlaceFrame DEF SysmonWake, Holds, ThreadTypes
<1>30. ASSUME MainShutdown
       PROVE  PlaceInv'
  BY <1>30, <1>0, PlaceFrame DEF MainShutdown, Free, Holds, ThreadTypes
<1>31. ASSUME MainSnapshot
       PROVE  PlaceInv'
  BY <1>31, <1>0, PlaceFrame DEF MainSnapshot, Holds, ThreadTypes
<1>32. ASSUME NEW m \in Ms, MainSignal(m)
       PROVE  PlaceInv'
  BY <1>32, <1>0, PlaceFrame DEF MainSignal, Signalled, Holds, ThreadTypes
<1>33. ASSUME MainJoin
       PROVE  PlaceInv'
  BY <1>33, <1>0, PlaceFrame DEF MainJoin, Holds, ThreadTypes
<1>34. ASSUME UNCHANGED vars
       PROVE  PlaceInv'
  BY <1>34, <1>0, PlaceFrame DEF vars, Holds, ThreadTypes
<1> QED
  BY <1>1, <1>2, <1>3, <1>4, <1>5, <1>6, <1>7, <1>8, <1>9, <1>10, <1>11,
     <1>12, <1>13, <1>14, <1>15, <1>16, <1>17, <1>18, <1>19, <1>20, <1>21,
     <1>22, <1>23, <1>24, <1>25, <1>26, <1>27, <1>28, <1>29, <1>30, <1>31,
     <1>32, <1>33, <1>34 DEF Next, MStep, GStep, WakerStep, SysmonStep,
     MainStep

-----------------------------------------------------------------------------
(* From where the goroutines are to how often they are there.               *)

(* A sequence without repetitions holds an element once or not at all.      *)
LEMMA CountNoRepeat ==
  ASSUME NEW s, NoRepeat(s), NEW x
  PROVE  Count(s, x) = IF x \in Elems(s) THEN 1 ELSE 0
<1>1. CASE x \in Elems(s)
  <2>1. PICK i \in DOMAIN s : s[i] = x
    BY <1>1 DEF Elems
  <2>2. Spots(s, x) = {i}
    BY <2>1 DEF Spots, NoRepeat
  <2> QED
    BY <1>1, <2>2, FS_Singleton DEF Count
<1>2. CASE x \notin Elems(s)
  <2>1. Spots(s, x) = {}
    BY <1>2 DEF Spots, Elems
  <2> QED
    BY <1>2, <2>1, FS_EmptySet DEF Count
<1> QED
  BY <1>1, <1>2

(* The set of ring slots that hold g has at most one member.                *)
LEMMA SlotsOne ==
  ASSUME QueueInv, NEW g
  PROVE  Cardinality(Slots(g)) =
           IF \E p \in Ps : g \in Elems(rq[p]) THEN 1 ELSE 0
<1>1. CASE \E p \in Ps : g \in Elems(rq[p])
  <2>1. PICK p \in Ps : g \in Elems(rq[p])
    BY <1>1
  <2>2. PICK i \in DOMAIN rq[p] : rq[p][i] = g
    BY <2>1 DEF Elems
  <2>3. Spots(rq[p], g) = {i}
    BY <2>2 DEF Spots, NoRepeat, QueueInv
  <2>4. \A q \in Ps : q # p => Spots(rq[q], g) = {}
    BY <2>1 DEF Spots, Elems, QueueInv
  <2>5. \A z \in Slots(g) : z = <<p, i>>
    BY <2>3, <2>4 DEF Slots
  <2>6. <<p, i>> \in Slots(g)
    BY <2>3 DEF Slots
  <2>7. Slots(g) = {<<p, i>>}
    BY <2>5, <2>6
  <2> QED
    BY <1>1, <2>7, FS_Singleton
<1>2. CASE ~\E p \in Ps : g \in Elems(rq[p])
  <2>1. \A q \in Ps : Spots(rq[q], g) = {}
    BY <1>2 DEF Spots, Elems
  <2>2. Slots(g) = {}
    BY <2>1 DEF Slots
  <2> QED
    BY <1>2, <2>2, FS_EmptySet
<1> QED
  BY <1>1, <1>2

(* The set of Ms that hold g has at most one member.                        *)
LEMMA HoldersOne ==
  ASSUME OneHolder, NEW g \in Gs
  PROVE  Cardinality({m \in Ms : Holds(m, g)}) =
           IF \E m \in Ms : Holds(m, g) THEN 1 ELSE 0
<1>1. CASE \E m \in Ms : Holds(m, g)
  <2>1. PICK m \in Ms : Holds(m, g)
    BY <1>1
  <2>2. {n \in Ms : Holds(n, g)} = {m}
    BY <2>1 DEF OneHolder
  <2> QED
    BY <1>1, <2>2, FS_Singleton
<1>2. CASE ~\E m \in Ms : Holds(m, g)
  <2>1. {n \in Ms : Holds(n, g)} = {}
    BY <1>2
  <2> QED
    BY <1>2, <2>1, FS_EmptySet
<1> QED
  BY <1>1, <1>2

(* The places of a goroutine, counted.                                      *)
LEMMA OnePlace ==
  ASSUME TypeOK, PlaceInv
  PROVE  GInOnePlace
<1> SUFFICES ASSUME NEW g \in Gs
             PROVE  Places(g) = IF gs[g] \in {"live", "done"} THEN 1 ELSE 0
  BY DEF GInOnePlace
<1> DEFINE InGlobal == g \in Elems(gq)
           InRing == \E p \in Ps : g \in Elems(rq[p])
           Held == \E m \in Ms : Holds(m, g)
           Waiting == waitOn[g] # NULL
<1>1. QueueInv /\ OneHolder /\ HeldInv /\ Located(g)
  BY DEF PlaceInv, LocatedInv
<1>2. /\ Count(gq, g) = IF InGlobal THEN 1 ELSE 0
      /\ Cardinality({m \in Ms : Holds(m, g)}) = IF Held THEN 1 ELSE 0
      /\ Cardinality(Slots(g)) = IF InRing THEN 1 ELSE 0
  BY <1>1, CountNoRepeat, SlotsOne, HoldersOne DEF QueueInv
<1>3. /\ InGlobal => ~InRing
      /\ InGlobal \/ InRing => ~Held /\ ~Waiting /\ gs[g] = "live"
      /\ Held \/ Waiting => gs[g] \in {"live", "done"}
      /\ gs[g] \in {"live", "done"} => InGlobal \/ InRing \/ Held \/ Waiting
  BY <1>1 DEF QueueInv, HeldInv, HeldBy, Located, Ready
<1>4. (\A m \in Ms : ~Holds(m, g)) <=> ~Held
  OBVIOUS
<1>5. Places(g) = (IF InGlobal THEN 1 ELSE 0) + (IF Held THEN 1 ELSE 0)
                    + (IF InRing THEN 1 ELSE 0)
                    + (IF Waiting /\ ~Held THEN 1 ELSE 0)
  BY <1>2, <1>4 DEF Places
<1> HIDE DEF InGlobal, InRing, Held, Waiting
<1> QED
  BY <1>3, <1>5

-----------------------------------------------------------------------------
(* The balance of the global queue.                                         *)

\* The Ms on their way to the global queue, and the calls of wake_m that have
\* not popped an M yet.
Lookers == {m \in Ms : WillLookAtGlobal(m)}
Pending == {t \in Threads : waking[t] = POP}

(* Both sets are finite, so that they can be counted.                       *)
LEMMA FiniteThreads ==
  /\ \A S : S \subseteq Ms => IsFiniteSet(S)
  /\ \A S : S \subseteq Threads => IsFiniteSet(S)
<1>1. IsFiniteSet(Ms)
  BY Domains, FS_Interval DEF Ms
<1>2. IsFiniteSet(Threads)
  <2>1. IsFiniteSet(Ms \cup {Sysmon})
    BY <1>1, FS_AddElement
  <2>2. IsFiniteSet((Ms \cup {Sysmon}) \cup {Reactor})
    BY <2>1, FS_AddElement
  <2>3. IsFiniteSet(((Ms \cup {Sysmon}) \cup {Reactor}) \cup {MainThread})
    BY <2>2, FS_AddElement
  <2>4. Threads = ((Ms \cup {Sysmon}) \cup {Reactor}) \cup {MainThread}
    BY DEF Threads
  <2> QED
    BY <2>3, <2>4
<1> QED
  BY <1>1, <1>2, FS_Subset

(* The two sets can be compared by their sizes, before and after a step.    *)
LEMMA Counts ==
  /\ Cardinality(Lookers) \in Nat /\ Cardinality(Pending) \in Nat
  /\ IsFiniteSet(Lookers) /\ IsFiniteSet(Pending)
  /\ Cardinality(Lookers') \in Nat /\ Cardinality(Pending') \in Nat
  /\ IsFiniteSet(Lookers') /\ IsFiniteSet(Pending')
  /\ Lookers \subseteq Lookers' => Cardinality(Lookers) <= Cardinality(Lookers')
  /\ Pending \subseteq Pending' => Cardinality(Pending) <= Cardinality(Pending')
<1>1. /\ Lookers \subseteq Ms /\ Lookers' \subseteq Ms
      /\ Pending \subseteq Threads /\ Pending' \subseteq Threads
  BY DEF Lookers, Pending
<1>2. /\ IsFiniteSet(Lookers) /\ IsFiniteSet(Pending)
      /\ IsFiniteSet(Lookers') /\ IsFiniteSet(Pending')
  BY <1>1, FiniteThreads
<1> QED
  BY <1>2, FS_CardinalityType, FS_Subset

(* A step that adds nothing to the global queue, calls back no wake-up and  *)
(* sends no M away keeps the balance.                                       *)
LEMMA NoLostKeep ==
  ASSUME NoLostWakeup, gq \in Seq(Gs), gq' \in Seq(Gs),
         ~shutdown' /\ idle' # <<>> => ~shutdown /\ idle # <<>>,
         Len(gq') <= Len(gq),
         \A m \in Ms : WillLookAtGlobal(m) => WillLookAtGlobal(m)',
         \A t \in Threads : waking[t] = POP => waking'[t] = POP
  PROVE  NoLostWakeup'
<1> SUFFICES ASSUME ~shutdown', idle' # <<>>
             PROVE  Len(gq') <= Cardinality(Lookers') + Cardinality(Pending')
  BY DEF NoLostWakeup, Lookers, Pending
<1>1. Len(gq) <= Cardinality(Lookers) + Cardinality(Pending)
  BY DEF NoLostWakeup, Lookers, Pending
<1>2. Lookers \subseteq Lookers' /\ Pending \subseteq Pending'
  BY DEF Lookers, Pending
<1>3. Len(gq) \in Nat /\ Len(gq') \in Nat
  BY DEF QueueTypes
<1> HIDE DEF Lookers, Pending
<1> QED
  BY <1>1, <1>2, <1>3, Counts

(* sched_enqueue by a thread that is not inside wake_m: a goroutine that    *)
(* goes to the global queue comes with a new call of wake_m.                *)
LEMMA NoLostEnqueue ==
  ASSUME NoLostWakeup, QueueTypes, StackTypes, UNCHANGED <<shutdown, idle>>,
         NEW t \in Threads, NEW p \in Ps \cup {NULL}, NEW g \in Gs,
         waking[t] # POP, Enqueue(t, p, g),
         \A m \in Ms : WillLookAtGlobal(m) => WillLookAtGlobal(m)'
  PROVE  NoLostWakeup'
<1> SUFFICES ASSUME ~shutdown', idle' # <<>>
             PROVE  Len(gq') <= Cardinality(Lookers') + Cardinality(Pending')
  BY DEF NoLostWakeup, Lookers, Pending
<1>1. Len(gq) <= Cardinality(Lookers) + Cardinality(Pending)
  BY DEF NoLostWakeup, Lookers, Pending
<1>2. Lookers \subseteq Lookers' /\ Pending' = Pending \cup {t} /\ t \notin Pending
  BY DEF Lookers, Pending, Enqueue, StackTypes
<1>3. Cardinality(Pending') = Cardinality(Pending) + 1
  BY <1>2, Counts, FS_AddElement
<1>4. Len(gq) \in Nat /\ Len(gq') \in Nat /\ Len(gq') <= Len(gq) + 1
  <2>1. gq \in Seq(Gs) /\ Len(Append(gq, g)) = Len(gq) + 1
    BY DEF QueueTypes
  <2>2. gq' = gq \/ gq' = Append(gq, g)
    BY DEF Enqueue
  <2> QED
    BY <2>1, <2>2
<1> HIDE DEF Lookers, Pending
<1> QED
  BY <1>1, <1>2, <1>3, <1>4, Counts

\* Where an M is on its way to the global queue.
Seeking == {"parked", "parkchk", "loop", "gfirst", "local", "global"}

(* A step that leaves the global queue and the idle stack alone, and every  *)
(* M that is on its way to the global queue.                                *)
LEMMA NoLostFrame ==
  ASSUME NoLostWakeup, QueueTypes, UNCHANGED <<gq, idle>>,
         shutdown' = shutdown \/ shutdown' = TRUE,
         \A t \in Threads : waking[t] = POP => waking'[t] = POP,
         \A n \in Ms :
           ~shutdown /\ pc[n] \in Seeking /\ mp[n] # NULL /\ rq[mp[n]] = <<>> =>
             pc'[n] \in Seeking /\ mp'[n] = mp[n] /\ rq'[mp[n]] = <<>>
  PROVE  NoLostWakeup'
<1>1. CASE shutdown'
  BY <1>1 DEF NoLostWakeup
<1>2. CASE ~shutdown' /\ ~shutdown
  <2>1. \A n \in Ms : WillLookAtGlobal(n) => WillLookAtGlobal(n)'
    BY <1>2 DEF WillLookAtGlobal, Seeking
  <2>2. Len(gq') <= Len(gq) /\ QueueTypes /\ gq' \in Seq(Gs)
    BY DEF QueueTypes
  <2> QED
    BY <1>2, <2>1, <2>2, NoLostKeep
<1> QED
  BY <1>1, <1>2

(* The global queue never gets ahead of the wake-ups.                       *)
LEMMA NoLostStep ==
  ASSUME IInv, BusyInv, RingInv, NoLostWakeup, [Next]_vars
  PROVE  NoLostWakeup'
<1> USE Domains
<1>0. /\ PcInv /\ StackInv /\ ThreadTypes /\ StackTypes /\ QueueTypes /\ MainTypes
      /\ SysmonTypes /\ POwnership /\ BusyInv /\ RingInv /\ NoLostWakeup
      /\ QueueTypes'
      /\ Sysmon \notin Ms /\ Reactor \notin Ms /\ MainThread \notin Ms /\ Sysmon # Reactor
  BY SchedAssumption, TypeStep DEF IInv, TypeOK, Ms
<1>1. ASSUME NEW m \in Ms, Loop(m)
      PROVE  NoLostWakeup'
  BY <1>1, <1>0, NoLostFrame DEF Loop, GlobalTurn, Free, Seeking, ThreadTypes,
     StackTypes
<1>2. ASSUME NEW m \in Ms, TakeGlobal(m)
      PROVE  NoLostWakeup'
  <2>1. CASE gq = <<>>
    <3>1. gq' = <<>> /\ Len(gq') = 0
      BY <1>2, <2>1 DEF TakeGlobal
    <3> QED
      BY <3>1, Counts DEF NoLostWakeup, Lookers, Pending
  <2>2. CASE gq # <<>>
    <3>1. gq' = Tail(gq) /\ UNCHANGED <<rq, mp, idle, shutdown, waking>>
      BY <1>2, <2>2 DEF TakeGlobal
    <3>2. \A n \in Ms : n # m => pc'[n] = pc[n]
      BY <1>2, <2>2, <1>0 DEF TakeGlobal, Dispatch, ThreadTypes
    <3> SUFFICES ASSUME ~shutdown', idle' # <<>>
                 PROVE  Len(gq') <= Cardinality(Lookers') + Cardinality(Pending')
      BY DEF NoLostWakeup, Lookers, Pending
    <3>3. Len(gq) <= Cardinality(Lookers) + Cardinality(Pending)
      BY <3>1, <1>0 DEF NoLostWakeup, Lookers, Pending
    <3>4. Pending' = Pending
      BY <3>1 DEF Pending
    <3>5. Lookers \ {m} \subseteq Lookers'
      BY <3>1, <3>2 DEF Lookers, WillLookAtGlobal
    <3>6. /\ Cardinality(Lookers \ {m}) <= Cardinality(Lookers')
          /\ Cardinality(Lookers \ {m}) >= Cardinality(Lookers) - 1
          /\ Cardinality(Lookers \ {m}) \in Nat
      BY <3>5, Counts, FS_RemoveElement, FS_Subset, FS_CardinalityType
    <3>7. Len(gq) \in Nat /\ Len(gq') = Len(gq) - 1
      BY <2>2, <3>1, <1>0 DEF QueueTypes
    <3> HIDE DEF Lookers, Pending
    <3> QED
      BY <3>3, <3>4, <3>6, <3>7, Counts
  <2> QED
    BY <2>1, <2>2
<1>3. ASSUME NEW m \in Ms, TakeLocal(m)
      PROVE  NoLostWakeup'
  <2>1. mp[m] \in Ps
    BY <1>3, <1>0 DEF TakeLocal, PcInv, Searching, ThreadTypes
  <2>2. CASE rq[mp[m]] # <<>>
    <3>1. /\ UNCHANGED <<gq, idle, shutdown, mp, waking>>
          /\ rq' = [rq EXCEPT ![mp[m]] = Tail(@)]
          /\ \A n \in Ms : n # m => pc'[n] = pc[n]
      BY <1>3, <2>2, <1>0 DEF TakeLocal, Dispatch, ThreadTypes
    <3>2. \A p \in Ps : p # mp[m] => rq'[p] = rq[p]
      BY <2>1, <3>1, <1>0 DEF QueueTypes
    <3>3. \A n \in Ms : mp[n] # NULL /\ rq[mp[n]] = <<>> =>
                          n # m /\ mp[n] \in Ps /\ mp[n] # mp[m]
      BY <2>2, <1>0 DEF ThreadTypes
    <3> QED
      BY <3>1, <3>2, <3>3, <1>0, NoLostFrame
  <2>3. CASE rq[mp[m]] = <<>>
    BY <1>3, <2>3, <1>0, NoLostFrame DEF TakeLocal, Seeking, ThreadTypes
  <2> QED
    BY <2>2, <2>3
<1>4. ASSUME NEW m \in Ms, Steal(m)
      PROVE  NoLostWakeup'
  <2> DEFINE v == scan[m]
             k == StealCount(Len(rq[v]))
             Found == v < NumP /\ v # mp[m] /\ rq[v] # <<>>
  <2>1. mp[m] \in Ps /\ v \in 0 .. NumP /\ pc[m] = "steal"
    BY <1>4, <1>0 DEF Steal, PcInv, Searching, ThreadTypes
  <2>2. CASE Found
    <3>1. v # NumP /\ ~(v = mp[m] \/ rq[v] = <<>>)
      BY <2>1, <2>2
    <3>2. /\ rq' = [rq EXCEPT ![v] = Left(rq[v], k),
                              ![mp[m]] = rq[mp[m]] \o SubSeq(rq[v], 2, k)]
          /\ Dispatch(m, Head(rq[v]))
      BY <1>4, <3>1, Zenon DEF Steal
    <3>3. UNCHANGED <<gq, idle, shutdown, mp, waking>>
      BY <1>4 DEF Steal
    <3>4. \A n \in Ms : n # m => pc'[n] = pc[n]
      BY <3>2, <1>0 DEF Dispatch, ThreadTypes
    <3>5. \A p \in Ps : p # mp[m] /\ p # v => rq'[p] = rq[p]
      BY <3>2, <1>0 DEF QueueTypes
    <3>6. \A n \in Ms :
            pc[n] \in Seeking /\ mp[n] # NULL /\ rq[mp[n]] = <<>> =>
              n # m /\ mp[n] \in Ps /\ mp[n] # mp[m] /\ mp[n] # v
      BY <2>1, <2>2, <1>0 DEF Seeking, POwnership, ThreadTypes
    <3> QED
      BY <3>3, <3>4, <3>5, <3>6, <1>0, NoLostFrame
  <2>3. CASE ~Found
    <3>1. /\ pc' \in {pc, [pc EXCEPT ![m] = "park"]}
          /\ UNCHANGED <<gq, rq, idle, shutdown, mp, waking>>
      BY <1>4, <2>1, <2>3 DEF Steal
    <3> QED
      BY <2>1, <3>1, <1>0, NoLostFrame DEF Seeking, ThreadTypes
  <2> QED
    BY <2>2, <2>3
<1>5. ASSUME NEW m \in Ms, ParkM(m)
      PROVE  NoLostWakeup'
  <2>1. CASE WorkAppeared
    BY <1>5, <2>1, <1>0, NoLostFrame DEF ParkM, Seeking, ThreadTypes
  <2>2. CASE ~WorkAppeared
    <3>1. gq' = <<>> /\ Len(gq') = 0
      BY <1>5, <2>2 DEF ParkM, WorkAppeared
    <3> QED
      BY <3>1, Counts DEF NoLostWakeup, Lookers, Pending
  <2> QED
    BY <2>1, <2>2
<1>6. ASSUME NEW m \in Ms, ParkSpare(m)
      PROVE  NoLostWakeup'
  BY <1>6, <1>0, NoLostFrame DEF ParkSpare, Seeking, ThreadTypes, StackTypes
<1>7. ASSUME NEW m \in Ms, WaitCheck(m)
      PROVE  NoLostWakeup'
  BY <1>7, <1>0, NoLostFrame DEF WaitCheck, Woken, Seeking, ThreadTypes,
     StackTypes
<1>8. ASSUME NEW m \in Ms, StartM(m)
      PROVE  NoLostWakeup'
  <2>1. /\ UNCHANGED <<gq, rq, idle, shutdown>> /\ pc[m] = "startm"
        /\ waking[m] = NULL
    BY <1>8, <1>0 DEF StartM, BusyInv
  <2>2. CASE spare # <<>>
    <3>1. /\ mp' = [mp EXCEPT ![Head(spare)] = hp[m]]
          /\ pc' = [pc EXCEPT ![m] = "run"]
          /\ waking' = [waking EXCEPT ![m] = Head(spare)]
      BY <1>8, <2>2 DEF StartM, SignalSpare
    <3>2. Head(spare) \in Ms /\ mp[Head(spare)] = NULL
      BY <2>2, <1>0, ElemsTail DEF StackInv, SpareInv, StackTypes
    <3> QED
      BY <2>1, <3>1, <3>2, <1>0, NoLostFrame DEF Seeking, ThreadTypes,
         StackTypes
  <2>3. CASE spare = <<>> /\ allM # Ms
    <3>1. PICK n \in Ms \ allM :
            /\ mp' = [mp EXCEPT ![n] = hp[m]]
            /\ pc' = [pc EXCEPT ![m] = "run", ![n] = "loop"]
      BY <1>8, <2>3 DEF StartM
    <3>2. pc[n] = "off" /\ UNCHANGED waking
      BY <1>8, <2>3, <3>1, <1>0 DEF StartM, PcInv
    <3> QED
      BY <2>1, <3>1, <3>2, <1>0, NoLostFrame DEF Seeking, ThreadTypes
  <2>4. CASE spare = <<>> /\ allM = Ms
    <3>1. pc' = [pc EXCEPT ![m] = "run"] /\ UNCHANGED <<mp, waking>>
      BY <1>8, <2>4 DEF StartM
    <3> QED
      BY <2>1, <3>1, <1>0, NoLostFrame DEF Seeking, ThreadTypes
  <2> QED
    BY <2>2, <2>3, <2>4
<1>9. ASSUME NEW m \in Ms, ReleaseParkMutex(m)
      PROVE  NoLostWakeup'
  BY <1>9, <1>0, NoLostFrame DEF ReleaseParkMutex, Seeking, ThreadTypes,
     StackTypes
<1>10. ASSUME NEW m \in Ms, AfterRelease(m)
       PROVE  NoLostWakeup'
  BY <1>10, <1>0, NoLostFrame DEF AfterRelease, ClearCurG, Seeking,
     ThreadTypes, StackTypes
<1>11. ASSUME NEW m \in Ms, YieldReenqueue(m)
       PROVE  NoLostWakeup'
  <2>1. CASE pc[m] = "suspended"
    BY <1>11, <2>1, <1>0, NoLostFrame DEF YieldReenqueue, Seeking,
       ThreadTypes, StackTypes
  <2>2. CASE pc[m] = "reenqueue"
    <3>1. /\ Enqueue(m, mp[m], cur[m]) /\ UNCHANGED <<mp, idle, shutdown>>
          /\ waking[m] # POP
      BY <1>11, <2>2, <1>0 DEF YieldReenqueue, BusyInv
    <3>2. m \in Threads /\ mp[m] \in Ps \cup {NULL} /\ cur[m] \in Gs
      BY <2>2, <1>0 DEF ThreadTypes, PcInv, Executing
    <3>3. \A p \in Ps : p # mp[m] => rq'[p] = rq[p]
      BY <3>1, <3>2, <1>0, RingEnqueue DEF RingInv
    <3>4. \A n \in Ms : n # m => pc'[n] = pc[n]
      BY <1>11, <1>0 DEF YieldReenqueue, ThreadTypes
    <3>5. \A n \in Ms : WillLookAtGlobal(n) => WillLookAtGlobal(n)'
      BY <2>2, <3>1, <3>3, <3>4, <1>0 DEF WillLookAtGlobal, POwnership,
         ThreadTypes
    <3> QED
      BY <3>1, <3>2, <3>5, <1>0, NoLostEnqueue
  <2> QED
    BY <1>11, <2>1, <2>2 DEF YieldReenqueue
<1>12. ASSUME NEW m \in Ms, ExitLock(m)
       PROVE  NoLostWakeup'
  BY <1>12, <1>0, NoLostFrame DEF ExitLock, Seeking, ThreadTypes, StackTypes
<1>13. ASSUME NEW m \in Ms, ExitUnlock(m)
       PROVE  NoLostWakeup'
  BY <1>13, <1>0, NoLostFrame DEF ExitUnlock, Free, Seeking, ThreadTypes,
     StackTypes
<1>14. ASSUME NEW m \in Ms, ExitFree(m)
       PROVE  NoLostWakeup'
  BY <1>14, <1>0, NoLostFrame DEF ExitFree, Seeking, ThreadTypes, StackTypes
<1>15. ASSUME NEW m \in Ms, NEW g \in Gs, ExitWake(m, g)
       PROVE  NoLostWakeup'
  <2>1. /\ Enqueue(m, mp[m], g) /\ UNCHANGED <<pc, mp, idle, shutdown>>
        /\ pc[m] \in {"run", "exitwake"} /\ waking[m] # POP
    BY <1>15, <1>0 DEF ExitWake, Free
  <2>2. m \in Threads /\ mp[m] \in Ps \cup {NULL}
    BY <1>0 DEF ThreadTypes
  <2>3. \A p \in Ps : p # mp[m] => rq'[p] = rq[p]
    BY <2>1, <2>2, <1>0, RingEnqueue DEF RingInv
  <2>4. \A n \in Ms : WillLookAtGlobal(n) => WillLookAtGlobal(n)'
    BY <2>1, <2>3, <1>0 DEF WillLookAtGlobal, POwnership, ThreadTypes
  <2> QED
    BY <2>1, <2>2, <2>4, <1>0, NoLostEnqueue
<1>16. ASSUME NEW m \in Ms, ParkEvent(m)
       PROVE  NoLostWakeup'
  BY <1>16, <1>0, NoLostFrame DEF ParkEvent, Running, Free, Seeking,
     ThreadTypes, StackTypes
<1>17. ASSUME NEW m \in Ms, Yield(m)
       PROVE  NoLostWakeup'
  BY <1>17, <1>0, NoLostFrame DEF Yield, Running, Free, Seeking, ThreadTypes,
     StackTypes
<1>18. ASSUME NEW m \in Ms, EnterSyscall(m)
       PROVE  NoLostWakeup'
  BY <1>18, <1>0, NoLostFrame DEF EnterSyscall, Running, DetachP, Free,
     Seeking, ThreadTypes, StackTypes
<1>19. ASSUME NEW m \in Ms, Complete(m)
       PROVE  NoLostWakeup'
  BY <1>19, <1>0, NoLostFrame DEF Complete, Running, ClearCurG, Free, Seeking,
     ThreadTypes, StackTypes
<1>20. ASSUME NEW m \in Ms, NEW g \in Gs, Spawn(m, g)
       PROVE  NoLostWakeup'
  <2>1. /\ Enqueue(m, mp[m], g) /\ UNCHANGED <<pc, mp, idle, shutdown>>
        /\ pc[m] \in {"run", "exitwake"} /\ waking[m] # POP
    BY <1>20, <1>0 DEF Spawn, Running, Free
  <2>2. m \in Threads /\ mp[m] \in Ps \cup {NULL}
    BY <1>0 DEF ThreadTypes
  <2>3. \A p \in Ps : p # mp[m] => rq'[p] = rq[p]
    BY <2>1, <2>2, <1>0, RingEnqueue DEF RingInv
  <2>4. \A n \in Ms : WillLookAtGlobal(n) => WillLookAtGlobal(n)'
    BY <2>1, <2>3, <1>0 DEF WillLookAtGlobal, POwnership, ThreadTypes
  <2> QED
    BY <2>1, <2>2, <2>4, <1>0, NoLostEnqueue
<1>21. ASSUME NEW m \in Ms, NEW g \in Gs, Unpark(m, g)
       PROVE  NoLostWakeup'
  <2>1. /\ Enqueue(m, mp[m], g) /\ UNCHANGED <<pc, mp, idle, shutdown>>
        /\ pc[m] \in {"run", "exitwake"} /\ waking[m] # POP
    BY <1>21, <1>0 DEF Unpark, Wake, Running, Free
  <2>2. m \in Threads /\ mp[m] \in Ps \cup {NULL}
    BY <1>0 DEF ThreadTypes
  <2>3. \A p \in Ps : p # mp[m] => rq'[p] = rq[p]
    BY <2>1, <2>2, <1>0, RingEnqueue DEF RingInv
  <2>4. \A n \in Ms : WillLookAtGlobal(n) => WillLookAtGlobal(n)'
    BY <2>1, <2>3, <1>0 DEF WillLookAtGlobal, POwnership, ThreadTypes
  <2> QED
    BY <2>1, <2>2, <2>4, <1>0, NoLostEnqueue
<1>22. ASSUME NEW m \in Ms, NEW g \in Gs, Join(m, g)
       PROVE  NoLostWakeup'
  BY <1>22, <1>0, NoLostFrame DEF Join, Running, NotDone, Free, Seeking,
     ThreadTypes, StackTypes
<1>23. ASSUME NEW m \in Ms, SpuriousWakeup(m)
       PROVE  NoLostWakeup'
  BY <1>23, <1>0, NoLostFrame DEF SpuriousWakeup, Signalled, Seeking,
     ThreadTypes, StackTypes
<1>24. ASSUME NEW t \in Threads, WakePop(t)
       PROVE  NoLostWakeup'
  <2>1. CASE idle = <<>>
    BY <1>24, <2>1 DEF WakePop, NoLostWakeup
  <2>2. CASE idle # <<>>
    <3> DEFINE s == Head(idle)
    <3>1. /\ waking' = [waking EXCEPT ![t] = s] /\ idle' = Tail(idle)
          /\ waking[t] = POP /\ UNCHANGED <<gq, rq, pc, mp, shutdown>>
      BY <1>24, <2>2 DEF WakePop
    <3>2. /\ s \in Elems(idle) /\ s \in Ms
          /\ Elems(idle') = Elems(idle) \ {s}
      BY <2>2, <3>1, <1>0, ElemsPop DEF StackInv, IdleInv, StackTypes
    <3> SUFFICES ASSUME ~shutdown', idle' # <<>>
                 PROVE  Len(gq') <= Cardinality(Lookers') + Cardinality(Pending')
      BY DEF NoLostWakeup, Lookers, Pending
    <3>3. Len(gq) <= Cardinality(Lookers) + Cardinality(Pending)
      BY <2>2, <3>1, <1>0 DEF NoLostWakeup, Lookers, Pending
    <3>4. Pending' = Pending \ {t} /\ t \in Pending
      BY <3>1, <3>2, <1>0 DEF Pending, StackTypes
    <3>5. pc[s] \in {"parked", "parkchk"} /\ mp[s] # NULL /\ rq[mp[s]] = <<>>
      BY <3>1, <3>2, <1>0 DEF StackInv, IdleInv, Waits, RingInv, Drained
    <3> HIDE DEF s
    <3>6. s \notin Lookers /\ Lookers \cup {s} \subseteq Lookers'
      BY <3>1, <3>2, <3>5 DEF Lookers, WillLookAtGlobal
    <3>7. /\ Cardinality(Lookers \cup {s}) <= Cardinality(Lookers')
          /\ Cardinality(Lookers \cup {s}) = Cardinality(Lookers) + 1
      BY <3>6, Counts, FS_AddElement, FS_Subset
    <3>8. Cardinality(Pending') = Cardinality(Pending) - 1
      BY <3>4, Counts, FS_RemoveElement
    <3>9. Len(gq) \in Nat /\ Len(gq') = Len(gq)
      BY <3>1, <1>0 DEF QueueTypes
    <3> HIDE DEF Lookers, Pending
    <3> QED
      BY <3>3, <3>7, <3>8, <3>9, Counts
  <2> QED
    BY <2>1, <2>2
<1>25. ASSUME NEW t \in Threads, WakeSignal(t)
       PROVE  NoLostWakeup'
  BY <1>25, <1>0, NoLostFrame DEF WakeSignal, Signalled, Seeking, ThreadTypes,
     StackTypes
<1>26. ASSUME NEW g \in Gs, ReactorUnpark(g)
       PROVE  NoLostWakeup'
  <2>1. /\ Enqueue(Reactor, NULL, g) /\ UNCHANGED <<pc, mp, idle, shutdown>>
        /\ waking[Reactor] # POP
    BY <1>26, <1>0 DEF ReactorUnpark, Wake, Free
  <2>2. UNCHANGED rq
    BY <2>1 DEF Enqueue
  <2>3. \A n \in Ms : WillLookAtGlobal(n) => WillLookAtGlobal(n)'
    BY <2>1, <2>2 DEF WillLookAtGlobal
  <2> QED
    BY <2>1, <2>3, <1>0, NoLostEnqueue
<1>27. ASSUME SysmonLoad
       PROVE  NoLostWakeup'
  BY <1>27, <1>0, NoLostFrame DEF SysmonLoad, Free, Seeking, ThreadTypes,
     StackTypes
<1>28. ASSUME SysmonStore
       PROVE  NoLostWakeup'
  BY <1>28, <1>0, NoLostFrame DEF SysmonStore, Seeking, ThreadTypes,
     StackTypes
<1>29. ASSUME SysmonWake
       PROVE  NoLostWakeup'
  BY <1>29, <1>0, NoLostFrame DEF SysmonWake, Seeking, ThreadTypes, StackTypes
<1>30. ASSUME MainShutdown
       PROVE  NoLostWakeup'
  BY <1>30, <1>0, NoLostFrame DEF MainShutdown, Free, Seeking, ThreadTypes,
     StackTypes
<1>31. ASSUME MainSnapshot
       PROVE  NoLostWakeup'
  BY <1>31, <1>0, NoLostFrame DEF MainSnapshot, Seeking,
     ThreadTypes, StackTypes
<1>32. ASSUME NEW m \in Ms, MainSignal(m)
       PROVE  NoLostWakeup'
  BY <1>32, <1>0, NoLostFrame DEF MainSignal, Signalled, Seeking, ThreadTypes,
     StackTypes
<1>33. ASSUME MainJoin
       PROVE  NoLostWakeup'
  BY <1>33, <1>0, NoLostFrame DEF MainJoin, Seeking, ThreadTypes, StackTypes
<1>34. ASSUME UNCHANGED vars
       PROVE  NoLostWakeup'
  BY <1>34, <1>0, NoLostFrame DEF vars, Seeking, ThreadTypes, StackTypes
<1> QED
  BY <1>1, <1>2, <1>3, <1>4, <1>5, <1>6, <1>7, <1>8, <1>9, <1>10, <1>11,
     <1>12, <1>13, <1>14, <1>15, <1>16, <1>17, <1>18, <1>19, <1>20, <1>21,
     <1>22, <1>23, <1>24, <1>25, <1>26, <1>27, <1>28, <1>29, <1>30, <1>31,
     <1>32, <1>33, <1>34 DEF Next, MStep, GStep, WakerStep, SysmonStep,
     MainStep

-----------------------------------------------------------------------------
(* The whole invariant, and what it implies.                                *)

\* The inductive invariant of the scheduler: the discipline of the stacks and
\* of the Ps, with where the goroutines are and who has been told about them.
WorkInv ==
  IInv /\ BusyInv /\ SignalInv /\ RingInv /\ AgreeInv /\ PlaceInv /\ NoLostWakeup

(* sched_init and the creation of G0 establish it.                          *)
LEMMA InitWorkInv == Init => WorkInv
<1> SUFFICES ASSUME Init PROVE WorkInv
  OBVIOUS
<1> USE Domains
<1>1. MainThread \notin Ms /\ Sysmon # MainThread /\ RqCap \in Nat
  BY SchedAssumption DEF Ms
<1>2. BusyInv
  BY <1>1 DEF Init, BusyInv
<1>3. SignalInv
  BY DEF Init, SignalInv
<1>4. RingInv
  BY <1>1 DEF Init, RingInv, RingBounded, Drained
<1>5. AgreeInv
  BY DEF Init, AgreeInv, CurInv, WokenInv
<1>6. PlaceInv
  <2>1. /\ Elems(gq) = {MainG} /\ NoRepeat(gq)
        /\ \A p \in Ps : Elems(rq[p]) = {} /\ NoRepeat(rq[p])
    BY DEF Init, Elems, NoRepeat
  <2>2. \A m \in Ms, g \in Gs : ~Holds(m, g)
    BY DEF Init, Holds
  <2>3. \A g \in Gs : Ready(g) <=> g = MainG
    BY <2>1 DEF Ready
  <2>4. QueueInv
    BY <2>1 DEF QueueInv
  <2>5. OneHolder /\ HeldInv
    BY <2>2 DEF OneHolder, HeldInv
  <2>6. LocatedInv
    BY <2>3 DEF Init, LocatedInv, Located
  <2> QED
    BY <2>4, <2>5, <2>6 DEF PlaceInv
<1>7. NoLostWakeup
  BY DEF Init, NoLostWakeup
<1> QED
  BY <1>2, <1>3, <1>4, <1>5, <1>6, <1>7, InitIInv DEF WorkInv

(* The whole invariant holds in every state of every behaviour.             *)
LEMMA WorkInvariance == Spec => []WorkInv
<1>1. WorkInv /\ [Next]_vars => WorkInv'
  BY TypeStep, PcStep, StackStep, OwnStep, BusyStep, SignalStep, RingStep,
     AgreeStep, PlaceStep, NoLostStep DEF WorkInv, IInv
<1> QED
  BY <1>1, InitWorkInv, PTL DEF Spec

\* An M that wake_m or startm has popped from a stack is signalled, however
\* the pop, the signal, spurious returns of pal_cond_wait and other wakers
\* interleave: no M sleeps for ever where nobody can find it.
THEOREM PoppedGetSignal == Spec => []PoppedIsSignalled
<1>1. WorkInv => PoppedIsSignalled
  BY DEF WorkInv, SignalInv, PoppedIsSignalled
<1> QED
  BY <1>1, WorkInvariance, PTL

\* steal_work, which does not test for room, never overfills a ring: the
\* thief's ring is empty when it steals and at most half a ring moves.
THEOREM RingsStayBounded == Spec => []RingBounded
<1>1. WorkInv => RingBounded
  BY DEF WorkInv, RingInv
<1> QED
  BY <1>1, WorkInvariance, PTL

\* No M waits on the idle stack with work in the ring of its own P, work that
\* no wake_m call would point anybody to.
THEOREM IdleRingsAreEmpty == Spec => []RingWorkHasRunner
<1>1. WorkInv => RingWorkHasRunner
  <2> SUFFICES ASSUME WorkInv, ~shutdown, NEW m \in Elems(idle)
               PROVE  rq[mp[m]] = <<>>
    BY DEF RingWorkHasRunner
  <2>1. m \in Ms /\ pc[m] \in {"parked", "parkchk"}
    BY DEF WorkInv, IInv, TypeOK, StackTypes, StackInv, IdleInv, Waits, Elems
  <2> QED
    BY <2>1 DEF WorkInv, RingInv, Drained
<1> QED
  BY <1>1, WorkInvariance, PTL

\* No goroutine is lost, queued twice, run by two Ms or resumed before its
\* suspension is complete, for any number of goroutines, Ms and Ps.
THEOREM EveryGInOnePlace == Spec => []GInOnePlace
<1>1. WorkInv => GInOnePlace
  BY OnePlace DEF WorkInv, IInv
<1> QED
  BY <1>1, WorkInvariance, PTL

\* While an M idles, every goroutine of the global queue is accounted for by
\* an M on its way there or by a wake_m call that will send one.
THEOREM WakeupsAreNotLost == Spec => []NoLostWakeup
<1>1. WorkInv => NoLostWakeup
  BY DEF WorkInv
<1> QED
  BY <1>1, WorkInvariance, PTL

\* Hand-offs of Ps between threads, however many, leave no M to look for work
\* without a P, end no spare M's wait before it has one, and leave in
\* P.current_g only what the P's own M executes.
THEOREM MsAndPsAgree == Spec => []MAndPAgree
<1>1. WorkInv => MAndPAgree
  BY DEF WorkInv, IInv, PcInv, AgreeInv, CurInv, WokenInv, MAndPAgree
<1> QED
  BY <1>1, WorkInvariance, PTL
=============================================================================
