---------------------------- MODULE MutexProofs ----------------------------
(***************************************************************************)
(* Proofs about Mutex[T], for any number of goroutines and threads: the     *)
(* type invariant, mutual exclusion, that no parked goroutine and no        *)
(* waiting thread is forgotten, and that the Mutex implements FifoLock.     *)
(***************************************************************************)
EXTENDS Mutex, SequenceTheorems, TLAPS

\* Coroutines and blocking callers wait at different program points.
PcInv ==
  /\ \A c \in Coros : pc[c] \in CoroPCs
  /\ \A c \in Blockers : pc[c] \in BlockerPCs

\* The properties of Mutex are inductive once these are added: which points
\* a caller can be at, so that a waiting thread is never on the list.
IInv ==
  /\ TypeOK /\ PcInv
  /\ MutualExclusion /\ ParkedAreListed /\ NoStrandedThread
-----------------------------------------------------------------------------
(* The waiter list.                                                         *)

\* Enlisting a goroutine that is not on the list.
LEMMA ElemsAppend ==
  ASSUME NEW S, NEW s \in Seq(S), NEW x \in S, x \notin Elems(s),
         \A i, j \in DOMAIN s : s[i] = s[j] => i = j
  PROVE  /\ Append(s, x) \in Seq(S) /\ Append(s, x) # <<>>
         /\ Elems(Append(s, x)) = Elems(s) \cup {x}
         /\ \A i, j \in DOMAIN Append(s, x) :
              Append(s, x)[i] = Append(s, x)[j] => i = j
<1> DEFINE t == Append(s, x)
           n == Len(s)
<1>1. /\ t \in Seq(S) /\ t # <<>> /\ Len(t) = n + 1 /\ n \in Nat
      /\ \A i \in 1 .. n : t[i] = s[i]
      /\ t[n + 1] = x
  BY AppendProperties
<1>2. DOMAIN s = 1 .. n /\ DOMAIN t = 1 .. n + 1
  BY <1>1
<1>3. \A i \in 1 .. n + 1 : i \in 1 .. n \/ i = n + 1
  BY <1>1
<1>4. 1 .. n \subseteq 1 .. n + 1 /\ n + 1 \in 1 .. n + 1
  BY <1>1
<1> HIDE DEF t, n
<1>5. Elems(t) = Elems(s) \cup {x}
  BY <1>1, <1>2, <1>3, <1>4 DEF Elems
<1>6. \A i \in 1 .. n : s[i] # x
  BY <1>2 DEF Elems
<1>7. ASSUME NEW i \in DOMAIN t, NEW j \in DOMAIN t, t[i] = t[j]
      PROVE  i = j
  BY <1>1, <1>2, <1>3, <1>6, <1>7
<1> QED
  BY <1>1, <1>5, <1>7 DEF t

\* Taking the first goroutine off the list.
LEMMA ElemsRest ==
  ASSUME NEW S, NEW s \in Seq(S), s # <<>>,
         \A i, j \in DOMAIN s : s[i] = s[j] => i = j
  PROVE  /\ Head(s) \in S /\ Head(s) \in Elems(s)
         /\ Tail(s) \in Seq(S)
         /\ Elems(Tail(s)) = Elems(s) \ {Head(s)}
         /\ \A i, j \in DOMAIN Tail(s) : Tail(s)[i] = Tail(s)[j] => i = j
<1> DEFINE t == Tail(s)
           n == Len(s)
<1>1. /\ Head(s) \in S /\ t \in Seq(S) /\ Len(t) = n - 1 /\ n \in Nat
      /\ n >= 1 /\ Head(s) = s[1]
      /\ \A i \in 1 .. n - 1 : t[i] = s[i + 1]
  BY HeadTailProperties
<1>2. DOMAIN s = 1 .. n /\ DOMAIN t = 1 .. n - 1
  BY <1>1
<1>3. /\ \A i \in 1 .. n : i = 1 \/ (i - 1 \in 1 .. n - 1 /\ (i - 1) + 1 = i)
      /\ \A i \in 1 .. n - 1 : i + 1 \in 1 .. n /\ i + 1 # 1
      /\ 1 \in 1 .. n
  BY <1>1
<1>4. \A i, j \in 1 .. n - 1 : i + 1 = j + 1 => i = j
  BY <1>1
<1> HIDE DEF t, n
<1>5. ASSUME NEW y \in Elems(t) PROVE y \in Elems(s) \ {Head(s)}
  <2>1. PICK i \in 1 .. n - 1 : y = t[i]
    BY <1>2 DEF Elems
  <2>2. y = s[i + 1] /\ i + 1 \in DOMAIN s /\ i + 1 # 1 /\ 1 \in DOMAIN s
    BY <2>1, <1>1, <1>2, <1>3
  <2> QED
    BY <2>2, <1>1 DEF Elems
<1>6. ASSUME NEW y \in Elems(s) \ {Head(s)} PROVE y \in Elems(t)
  <2>1. PICK i \in 1 .. n : y = s[i]
    BY <1>2 DEF Elems
  <2>2. i # 1
    BY <2>1, <1>1
  <2>3. i - 1 \in 1 .. n - 1 /\ t[i - 1] = y
    BY <2>1, <2>2, <1>1, <1>3
  <2> QED
    BY <2>3, <1>2 DEF Elems
<1>7. ASSUME NEW i \in DOMAIN t, NEW j \in DOMAIN t, t[i] = t[j]
      PROVE  i = j
  <2>1. s[i + 1] = s[j + 1] /\ i + 1 \in DOMAIN s /\ j + 1 \in DOMAIN s
    BY <1>1, <1>2, <1>3, <1>7
  <2>2. i + 1 = j + 1
    BY <2>1
  <2> QED
    BY <2>2, <1>2, <1>4
<1>8. Head(s) \in Elems(s)
  BY <1>1, <1>2, <1>3 DEF Elems
<1> QED
  BY <1>1, <1>5, <1>6, <1>7, <1>8 DEF t
-----------------------------------------------------------------------------
\* The freshly constructed Mutex satisfies the invariant.
LEMMA InitIInv == Init => IInv
<1> SUFFICES ASSUME Init PROVE IInv
  OBVIOUS
<1>1. TypeOK /\ PcInv
  <2>1. waiters \in Seq(Coros)
    BY DEF Init
  <2> QED
    BY <2>1 DEF Init, TypeOK, PcInv, Callers, CoroPCs, BlockerPCs
<1>2. MutualExclusion /\ NoStrandedThread
  BY DEF Init, MutualExclusion, NoStrandedThread, Owners, At
<1>3. ParkedAreListed
  BY DEF Init, ParkedAreListed, Elems, At
<1> QED
  BY <1>1, <1>2, <1>3 DEF IInv

\* Each critical section of the Mutex preserves the invariant.
LEMMA Step == IInv /\ [Next]_vars => IInv'
<1> SUFFICES ASSUME IInv, [Next]_vars PROVE IInv'
  OBVIOUS
<1> USE DEF IInv, Callers
<1>1. ASSUME NEW c \in Callers, LockFree(c) PROVE IInv'
  <2> USE <1>1 DEF LockFree, MustWait
  <2>1. TypeOK' /\ PcInv'
    BY DEF TypeOK, PcInv, CoroPCs, BlockerPCs
  <2>2. MutualExclusion'
    BY DEF TypeOK, MutualExclusion, Owners, At
  <2>3. ParkedAreListed'
    BY DEF TypeOK, ParkedAreListed, At
  <2>4. NoStrandedThread'
    BY DEF TypeOK, NoStrandedThread
  <2> QED
    BY <2>1, <2>2, <2>3, <2>4
<1>2. ASSUME NEW c \in Callers, LockPark(c) PROVE IInv'
  <2> USE <1>2 DEF LockPark, MustWait, Parks, Enlisted
  <2>1. c \notin Elems(waiters)
    BY DEF ParkedAreListed, At
  <2>2. /\ waiters' \in Seq(Coros) /\ waiters' # <<>>
        /\ Elems(waiters') = Elems(waiters) \cup {c}
        /\ \A i, j \in DOMAIN waiters' : waiters'[i] = waiters'[j] => i = j
    BY <2>1, ElemsAppend DEF TypeOK, ParkedAreListed
  <2>3. TypeOK' /\ PcInv'
    BY <2>2, MutexAssumption DEF TypeOK, PcInv, CoroPCs, BlockerPCs
  <2>4. held
    BY DEF ParkedAreListed
  <2>5. MutualExclusion'
    BY DEF TypeOK, MutualExclusion, Owners, At
  <2>6. ParkedAreListed'
    <3>1. At("suspended")' = At("suspended") \cup {c} /\ At("parked")' = At("parked")
      BY DEF TypeOK, At
    <3> QED
      BY <2>2, <2>4, <3>1 DEF ParkedAreListed
  <2>7. NoStrandedThread'
    BY <2>4 DEF NoStrandedThread
  <2> QED
    BY <2>3, <2>5, <2>6, <2>7
<1>3. ASSUME NEW c \in Callers, LockBlock(c) \/ Recheck(c) PROVE IInv'
  <2>1. /\ pc[c] \in {"out", "woken"} /\ c \in Blockers
        /\ WaitLoop(c)
    BY <1>3 DEF LockBlock, Recheck, Parks, PcInv, CoroPCs
  <2> USE <2>1 DEF WaitLoop
  <2>2. TypeOK' /\ PcInv'
    BY MutexAssumption DEF TypeOK, PcInv, CoroPCs, BlockerPCs
  <2>3. MutualExclusion'
    BY DEF TypeOK, MutualExclusion, Owners, At
  <2>4. ParkedAreListed'
    BY DEF TypeOK, ParkedAreListed, At
  <2>5. NoStrandedThread'
    BY DEF TypeOK, NoStrandedThread
  <2> QED
    BY <2>2, <2>3, <2>4, <2>5
<1>4. ASSUME NEW c \in Callers, SpuriousWakeup(c) PROVE IInv'
  <2> USE <1>4 DEF SpuriousWakeup
  <2>1. TypeOK' /\ PcInv'
    BY DEF TypeOK, PcInv, CoroPCs, BlockerPCs
  <2>2. MutualExclusion' /\ NoStrandedThread'
    BY DEF TypeOK, MutualExclusion, NoStrandedThread, Owners, At
  <2>3. ParkedAreListed'
    BY DEF TypeOK, ParkedAreListed, At
  <2> QED
    BY <2>1, <2>2, <2>3
<1>5. ASSUME NEW c \in Callers, Release(c) PROVE IInv'
  <2> USE <1>5 DEF Release
  <2>1. TypeOK' /\ PcInv'
    BY DEF TypeOK, PcInv, CoroPCs, BlockerPCs
  <2>2. MutualExclusion' /\ NoStrandedThread'
    BY DEF TypeOK, MutualExclusion, NoStrandedThread, Owners, At
  <2>3. ParkedAreListed'
    BY DEF TypeOK, ParkedAreListed, At
  <2> QED
    BY <2>1, <2>2, <2>3
<1>6. ASSUME NEW c \in Callers, UnlockHandoff(c) PROVE IInv'
  <2> USE <1>6 DEF UnlockHandoff, HeldAcrossHandoff
  <2> DEFINE h == Head(waiters)
  <2>1. /\ h \in Coros /\ h \in Elems(waiters)
        /\ waiters' \in Seq(Coros)
        /\ Elems(waiters') = Elems(waiters) \ {h}
        /\ \A i, j \in DOMAIN waiters' : waiters'[i] = waiters'[j] => i = j
    BY ElemsRest DEF TypeOK, ParkedAreListed
  <2>2. h # c /\ pc[h] \in {"suspended", "parked"}
    BY <2>1 DEF ParkedAreListed, At
  <2>3. pc' = [pc EXCEPT ![c] = "out", ![h] = "ready"]
    OBVIOUS
  <2> HIDE DEF h
  <2>4. TypeOK' /\ PcInv'
    BY <2>1, <2>2, <2>3, MutexAssumption DEF TypeOK, PcInv, CoroPCs, BlockerPCs
  <2>5. held
    BY DEF ParkedAreListed
  <2>6. MutualExclusion'
    BY <2>1, <2>2, <2>3, <2>5 DEF TypeOK, MutualExclusion, Owners, At
  <2>7. ParkedAreListed'
    <3>1. (At("suspended") \cup At("parked"))'
            = (At("suspended") \cup At("parked")) \ {h}
      BY <2>1, <2>2, <2>3 DEF TypeOK, At
    <3> QED
      BY <2>1, <2>5, <3>1 DEF ParkedAreListed
  <2>8. NoStrandedThread'
    BY <2>5 DEF NoStrandedThread
  <2> QED
    BY <2>4, <2>6, <2>7, <2>8
<1>7. ASSUME NEW c \in Callers, UnlockFree(c) PROVE IInv'
  <2> USE <1>7 DEF UnlockFree, Signal
  <2>1. TypeOK'
    BY DEF TypeOK, At, BlockerPCs, CoroPCs
  <2>2. \A d \in Callers :
          \/ pc'[d] = pc[d] /\ d # c
          \/ pc'[d] = "out" /\ d = c
          \/ pc[d] = "waiting" /\ pc'[d] = "woken" /\ d # c
    BY DEF TypeOK, At
  <2>3. PcInv'
    BY <2>2 DEF PcInv, CoroPCs, BlockerPCs
  <2>4. MutualExclusion'
    BY <2>2 DEF MutualExclusion, Owners, At
  <2>5. ParkedAreListed'
    BY <2>2 DEF ParkedAreListed, At
  <2>6. NoStrandedThread'
    BY <2>2 DEF NoStrandedThread, At, TypeOK
  <2> QED
    BY <2>1, <2>3, <2>4, <2>5, <2>6
<1>8. ASSUME NEW c \in Callers, Resume(c) PROVE IInv'
  <2> USE <1>8 DEF Resume
  <2>1. TypeOK' /\ PcInv'
    BY DEF TypeOK, PcInv, CoroPCs, BlockerPCs
  <2>2. MutualExclusion' /\ NoStrandedThread'
    BY DEF TypeOK, MutualExclusion, NoStrandedThread, Owners, At
  <2>3. ParkedAreListed'
    BY DEF TypeOK, ParkedAreListed, At
  <2> QED
    BY <2>1, <2>2, <2>3
<1>9. ASSUME UNCHANGED vars PROVE IInv'
  BY <1>9 DEF vars, TypeOK, PcInv, MutualExclusion, ParkedAreListed,
              NoStrandedThread, Owners, At
<1> QED
  BY <1>1, <1>2, <1>3, <1>4, <1>5, <1>6, <1>7, <1>8, <1>9
  DEF Next, Lock, Unlock

\* The invariant holds in every state of the Mutex.
LEMMA Invariance == Spec => []IInv
BY InitIInv, Step, PTL DEF Spec

\* The fields of a Mutex keep their types whatever its callers do.
THEOREM TypeCorrect == Spec => []TypeOK
BY Invariance, PTL DEF IInv

\* At most one caller owns the lock, through every handoff, and held tells.
THEOREM Exclusive == Spec => []MutualExclusion
BY Invariance, PTL DEF IInv

\* Unlock never leaves a parked goroutine behind: the list holds them all,
\* and while it is not empty the lock has an owner who will serve it.
THEOREM NoneForgotten == Spec => []ParkedAreListed
BY Invariance, PTL DEF IInv

\* A free lock with waiting threads always has a thread on its way to it.
THEOREM NoLostSignal == Spec => []NoStrandedThread
BY Invariance, PTL DEF IInv
-----------------------------------------------------------------------------
(* The refinement of FifoLock.                                              *)

\* A list whose first element is put back in front of the rest.
LEMMA HeadThenTail ==
  ASSUME NEW S, NEW s \in Seq(S), s # <<>>
  PROVE  <<Head(s)>> \o Tail(s) = s
<1> DEFINE t == <<Head(s)>> \o Tail(s)
<1>1. Head(s) \in S /\ Tail(s) \in Seq(S) /\ Len(Tail(s)) = Len(s) - 1
  BY HeadTailProperties
<1>2. <<Head(s)>> \in Seq(S) /\ Len(<<Head(s)>>) = 1
  BY <1>1
<1>3. /\ t \in Seq(S) /\ Len(t) = 1 + Len(Tail(s))
      /\ \A i \in 1 .. 1 + Len(Tail(s)) :
           t[i] = IF i <= 1 THEN <<Head(s)>>[i] ELSE Tail(s)[i - 1]
  BY <1>1, <1>2, ConcatProperties
<1>4. \A i \in 1 .. Len(s) : t[i] = s[i]
  BY <1>1, <1>3, HeadTailProperties
<1> HIDE DEF t
<1>5. t = s
  BY <1>1, <1>3, <1>4, SeqEqual
<1> QED
  BY <1>5 DEF t

\* What the mapping shows when no goroutine has been handed the lock, and
\* when one has.
LEMMA LineWithoutHanded ==
  ASSUME TypeOK, At("ready") = {}
  PROVE  Handed \o waiters = waiters
BY ConcatEmptySeq DEF TypeOK, Handed, AsLine

(* While a hand-over is under way, the line starts with the handed G.        *)
LEMMA LineWithHanded ==
  ASSUME NEW c, At("ready") = {c}
  PROVE  Handed = <<c>>
BY DEF Handed, AsLine

\* Every step of the Mutex is a step of FifoLock or leaves it unchanged.
LEMMA StepRefines == IInv /\ [Next]_vars => [Abs!Next]_(Abs!vars)
<1> SUFFICES ASSUME IInv, [Next]_vars PROVE [Abs!Next]_(Abs!vars)
  OBVIOUS
<1> USE DEF IInv, Callers
<1>1. ASSUME NEW c \in Callers, LockFree(c) PROVE Abs!Enter(c)
  <2>1. /\ At("guard") = {} /\ At("ready") = {} /\ waiters = <<>>
        /\ At("guard")' = {c} /\ At("ready")' = {} /\ waiters' = <<>>
    BY <1>1 DEF LockFree, MustWait, MutualExclusion, Owners, At, TypeOK
  <2> QED
    BY <2>1 DEF Abs!Enter, Handed, AsLine
<1>2. ASSUME NEW c \in Callers, LockPark(c) PROVE Abs!JoinLine(c)
  <2>1. /\ At("guard")' = At("guard") /\ At("ready")' = At("ready")
        /\ waiters' = Append(waiters, c) /\ c \in Coros
    BY <1>2 DEF LockPark, Parks, Enlisted, At, TypeOK
  <2>2. Handed' = Handed /\ Handed \in Seq(Callers)
    <3>1. Handed' = Handed
      BY <2>1 DEF Handed
    <3>2. CASE At("ready") = {}
      BY <3>1, <3>2 DEF Handed, AsLine
    <3>3. CASE At("ready") # {}
      <4>1. (CHOOSE x \in At("ready") : TRUE) \in Callers
        BY <3>3 DEF At
      <4>2. <<CHOOSE x \in At("ready") : TRUE>> \in Seq(Callers)
        BY <4>1
      <4>3. Handed = <<CHOOSE x \in At("ready") : TRUE>>
        BY <3>3, Zenon DEF Handed, AsLine
      <4> QED
        BY <4>2, <4>3, <3>1
    <3> QED
      BY <3>2, <3>3
  <2>3. waiters \in Seq(Callers) /\ <<c>> \in Seq(Callers)
    BY DEF TypeOK
  <2>4. Append(waiters, c) = waiters \o <<c>>
    BY <2>3, AppendIsConcat
  <2>5. Handed \o waiters \in Seq(Callers)
    BY <2>2, <2>3, ConcatProperties
  <2>6. Append(Handed \o waiters, c) = (Handed \o waiters) \o <<c>>
    BY <2>5, AppendIsConcat
  <2>7. (Handed \o waiters) \o <<c>> = Handed \o (waiters \o <<c>>)
    BY <2>2, <2>3, ConcatAssociative
  <2> QED
    BY <2>1, <2>2, <2>4, <2>6, <2>7 DEF Abs!JoinLine
<1>3. ASSUME NEW c \in Callers, LockBlock(c) \/ Recheck(c)
      PROVE  Abs!Enter(c) \/ UNCHANGED Abs!vars
  <2>1. pc[c] \in {"out", "woken"} /\ WaitLoop(c)
    BY <1>3 DEF LockBlock, Recheck
  <2>2. CASE held
    <3>1. At("guard")' = At("guard") /\ At("ready")' = At("ready")
      BY <2>1, <2>2 DEF WaitLoop, At, TypeOK
    <3> QED
      BY <2>1, <3>1 DEF WaitLoop, Abs!vars, Handed
  <2>3. CASE ~held
    <3>1. waiters = <<>> /\ waiters' = <<>>
      BY <2>1, <2>3 DEF WaitLoop, ParkedAreListed
    <3>2. /\ At("guard") = {} /\ At("ready") = {}
          /\ At("guard")' = {c} /\ At("ready")' = {}
      BY <2>1, <2>3 DEF WaitLoop, MutualExclusion, Owners, At, TypeOK
    <3> QED
      BY <3>1, <3>2 DEF Abs!Enter, Handed, AsLine
  <2> QED
    BY <2>2, <2>3
<1>4. ASSUME NEW c \in Callers, SpuriousWakeup(c) \/ Release(c)
      PROVE  UNCHANGED Abs!vars
  <2>1. At("guard")' = At("guard") /\ At("ready")' = At("ready")
    BY <1>4 DEF SpuriousWakeup, Release, At, TypeOK
  <2> QED
    BY <1>4, <2>1 DEF SpuriousWakeup, Release, Abs!vars, Handed
<1>5. ASSUME NEW c \in Callers, UnlockHandoff(c) PROVE Abs!Leave(c)
  <2> DEFINE h == Head(waiters)
  <2>1. h \in Coros /\ waiters # <<>> /\ waiters' = Tail(waiters)
    BY <1>5, ElemsRest DEF UnlockHandoff, TypeOK, ParkedAreListed
  <2>2. pc' = [pc EXCEPT ![c] = "out", ![h] = "ready"] /\ pc[c] = "guard"
    BY <1>5 DEF UnlockHandoff
  <2> HIDE DEF h
  <2>3. At("guard") = {c} /\ At("ready") = {}
    BY <2>2 DEF MutualExclusion, Owners, At
  <2>4. At("guard")' = {} /\ At("ready")' = {h}
    BY <2>1, <2>2, <2>3 DEF At, TypeOK
  <2>5. Handed \o waiters = waiters
    BY <2>3, LineWithoutHanded
  <2>6. Handed' = <<h>>
    BY <2>4 DEF Handed, AsLine
  <2>7. <<h>> \o Tail(waiters) = waiters
    BY <2>1, HeadThenTail DEF TypeOK, h
  <2> QED
    BY <2>1, <2>3, <2>4, <2>5, <2>6, <2>7 DEF Abs!Leave
<1>6. ASSUME NEW c \in Callers, UnlockFree(c) PROVE Abs!Leave(c)
  <2>1. \A d \in Callers :
          \/ pc'[d] = pc[d] /\ d # c
          \/ pc'[d] = "out" /\ d = c
          \/ pc[d] = "waiting" /\ pc'[d] = "woken" /\ d # c
    BY <1>6 DEF UnlockFree, Signal, TypeOK, At
  <2>2. At("guard") = {c} /\ At("ready") = {}
    BY <1>6 DEF UnlockFree, MutualExclusion, Owners, At
  <2>3. At("guard")' = {} /\ At("ready")' = {}
    BY <2>1, <2>2 DEF At
  <2> QED
    BY <1>6, <2>2, <2>3 DEF UnlockFree, Abs!Leave, Handed, AsLine
<1>7. ASSUME NEW c \in Callers, Resume(c) PROVE Abs!Admit
  <2>1. At("guard") = {} /\ At("ready") = {c}
    BY <1>7 DEF Resume, MutualExclusion, Owners, At
  <2>2. At("guard")' = {c} /\ At("ready")' = {} /\ waiters' = waiters
    BY <1>7, <2>1 DEF Resume, At, TypeOK
  <2>3. Handed = <<c>> /\ Handed' = <<>>
    BY <2>1, <2>2, LineWithHanded DEF Handed, AsLine
  <2>4. Handed' \o waiters' = waiters
    BY <2>2, <2>3, ConcatEmptySeq DEF TypeOK
  <2>5. /\ <<c>> \o waiters # <<>>
        /\ Head(<<c>> \o waiters) = c /\ Tail(<<c>> \o waiters) = waiters
    BY DEF TypeOK
  <2> QED
    BY <2>1, <2>2, <2>3, <2>4, <2>5 DEF Abs!Admit
<1>8. ASSUME UNCHANGED vars PROVE UNCHANGED Abs!vars
  BY <1>8 DEF vars, Abs!vars, At, Handed
<1> QED
  BY <1>1, <1>2, <1>3, <1>4, <1>5, <1>6, <1>7, <1>8
  DEF Next, Lock, Unlock, Abs!Next

\* Mutex[T] implements FifoLock: exclusive, first come first served among
\* goroutines, and no newcomer passes a goroutine that is parked.
THEOREM Refinement == Spec => ImplementsFifoLock
<1>1. Init => Abs!Init
  BY DEF Init, Abs!Init, At, Handed, AsLine
<1> QED
  BY <1>1, Invariance, StepRefines, PTL DEF Spec, ImplementsFifoLock, Abs!Spec
=============================================================================
