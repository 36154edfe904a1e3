----------------------------- MODULE ArcProofs -----------------------------
(***************************************************************************)
(* Proofs about Ref[T] and Weak[T], for any finite number of users: the     *)
(* value and the allocation live as long as anybody refers to them, and     *)
(* not longer.                                                              *)
(***************************************************************************)
EXTENDS Arc, FiniteSetTheorems, TLAPS

ArcTypeOK ==
  /\ strong \in Nat /\ weak \in Nat
  /\ refs \subseteq Users /\ weaks \subseteq Users \cup {Inside}
  /\ dropped \in BOOLEAN /\ freed \in BOOLEAN
  /\ stage \in [Users -> Stages]
  /\ seen \in [Users -> Nat]

\* u is dropping the value or about to give back the unit of weak_count.
Closing(u) == stage[u] \in {"value", "collect"}

\* The strong references have not given back their unit of weak_count.
Owed == refs # {} \/ \E u \in Users : Closing(u)

\* The counters count: Refs, and Weaks with the unit that is owed.
Counted ==
  /\ strong = Cardinality(refs)
  /\ weak = Cardinality(weaks) + (IF Owed THEN 1 ELSE 0)

\* An upgrade has its Weak and exchanges only a count it saw above zero.
Upgraders ==
  \A u \in Users :
    /\ stage[u] \in {"load", "cas"} => u \in weaks /\ u \notin refs
    /\ stage[u] = "cas" => seen[u] > 0

\* The value is dropped once, after the last Ref, by a single user.
Ending ==
  /\ \A u, v \in Users : Closing(u) /\ Closing(v) => u = v
  /\ (\E u \in Users : Closing(u)) => refs = {}
  /\ dropped <=> refs = {} /\ \A u \in Users : stage[u] # "value"

\* The allocation is freed once, when weak_count has reached zero.
Freeing ==
  /\ \A u, v \in Users : stage[u] = "free" /\ stage[v] = "free" => u = v
  /\ weak = 0 <=> freed \/ \E u \in Users : stage[u] = "free"
  /\ freed => \A u \in Users : stage[u] # "free"

ArcInv == ArcTypeOK /\ Counted /\ Upgraders /\ Ending /\ Freeing
-----------------------------------------------------------------------------
(* Cardinalities.                                                           *)

\* Sets of references are finite, so their cardinality is a count.
LEMMA Finite ==
  ASSUME ArcTypeOK
  PROVE  /\ IsFiniteSet(refs) /\ Cardinality(refs) \in Nat
         /\ IsFiniteSet(weaks) /\ Cardinality(weaks) \in Nat
<1>1. IsFiniteSet(Users \cup {Inside})
  BY ArcAssumption, FS_AddElement
<1>2. IsFiniteSet(refs)
  BY ArcAssumption, FS_Subset DEF ArcTypeOK
<1>3. IsFiniteSet(weaks)
  BY <1>1, FS_Subset DEF ArcTypeOK
<1> QED
  BY <1>2, <1>3, FS_CardinalityType

\* A new element adds one.
LEMMA Gains ==
  ASSUME NEW S, IsFiniteSet(S), NEW x, x \notin S
  PROVE  Cardinality(S \cup {x}) = Cardinality(S) + 1
BY FS_AddElement

\* A lost element takes one away, and there was one.
LEMMA Loses ==
  ASSUME NEW S, IsFiniteSet(S), NEW x, x \in S
  PROVE  /\ Cardinality(S \ {x}) = Cardinality(S) - 1
         /\ Cardinality(S) > 0
         /\ Cardinality(S) = 1 <=> S \ {x} = {}
<1>1. IsFiniteSet(S \ {x}) /\ Cardinality(S \ {x}) = Cardinality(S) - 1
  BY FS_RemoveElement
<1>2. Cardinality(S) \in Nat
  BY FS_CardinalityType
<1>3. Cardinality(S) # 0
  BY FS_EmptySet
<1>4. Cardinality(S \ {x}) = 0 <=> S \ {x} = {}
  BY <1>1, FS_EmptySet
<1> QED
  BY <1>1, <1>2, <1>3, <1>4

\* No reference, no count.
LEMMA NoneLeft ==
  ASSUME NEW S, IsFiniteSet(S)
  PROVE  Cardinality(S) = 0 <=> S = {}
BY FS_EmptySet
-----------------------------------------------------------------------------
(* The inductive invariant.                                                 *)

LEMMA ArcInitInv == ArcInit => ArcInv
<1> SUFFICES ASSUME NEW w \in Users, Constructed(w)
             PROVE  ArcInv
  BY DEF ArcInit
<1> USE DEF Constructed
<1>1. ArcTypeOK
  BY DEF ArcTypeOK, Stages
<1>2. Cardinality(refs) = 1 /\ Cardinality(weaks) = 0
  BY FS_Singleton, FS_EmptySet
<1>3. Counted
  BY <1>2 DEF Counted, Owed
<1>4. Upgraders /\ Ending /\ Freeing
  BY DEF Upgraders, Ending, Freeing, Closing
<1> QED
  BY <1>1, <1>3, <1>4 DEF ArcInv

\* While the unit is owed weak_count is positive: nothing is freed.
LEMMA OwedIsAlive ==
  ASSUME ArcInv
  PROVE  /\ Owed \/ weaks # {} => weak > 0
         /\ weak > 0 => ~freed /\ \A u \in Users : stage[u] # "free"
<1>1. Cardinality(weaks) \in Nat /\ (Cardinality(weaks) = 0 <=> weaks = {})
  BY Finite, NoneLeft DEF ArcInv
<1>2. Owed \/ weaks # {} => weak > 0
  BY <1>1 DEF ArcInv, Counted
<1>3. weak > 0 => ~freed /\ \A u \in Users : stage[u] # "free"
  BY DEF ArcInv, ArcTypeOK, Freeing
<1> QED
  BY <1>2, <1>3

\* dupArc
LEMMA CloneInv ==
  ASSUME ArcInv, NEW u \in Users, NEW v \in Users, Clone(u, v)
  PROVE  ArcInv'
<1> USE DEF ArcInv, Clone
<1>1. ArcTypeOK'
  BY DEF ArcTypeOK
<1>2. Counted'
  <2>1. Cardinality(refs') = Cardinality(refs) + 1
    BY Finite, Gains
  <2>2. Owed' <=> Owed
    BY DEF Owed, Closing
  <2> QED
    BY <2>1, <2>2 DEF Counted
<1>3. Upgraders'
  BY DEF Upgraders, Idle
<1>4. Ending' /\ Freeing'
  BY DEF Ending, Freeing, Closing
<1> QED
  BY <1>1, <1>2, <1>3, <1>4

\* A new Weak from a Ref or a Weak: the allocation was alive.
LEMMA NewWeakInv ==
  ASSUME ArcInv, NEW w \in Users \cup {Inside}, NewWeak(w), refs # {} \/ weaks # {}
  PROVE  ArcInv'
<1> USE DEF ArcInv, NewWeak
<1>1. ArcTypeOK'
  BY DEF ArcTypeOK
<1>2. Counted'
  <2>1. Cardinality(weaks') = Cardinality(weaks) + 1
    BY Finite, Gains
  <2>2. Owed' <=> Owed
    BY DEF Owed, Closing
  <2>3. Cardinality(weaks) \in Nat
    BY Finite
  <2> QED
    BY <2>1, <2>2, <2>3 DEF Counted
<1>3. Upgraders'
  BY DEF Upgraders
<1>4. Ending'
  BY DEF Ending, Closing
<1>5. Freeing'
  <2>1. weak > 0 /\ weak' > 0
    BY OwedIsAlive DEF Owed, ArcTypeOK
  <2> QED
    BY <2>1, OwedIsAlive DEF Freeing
<1> QED
  BY <1>1, <1>2, <1>3, <1>4, <1>5

\* weak.upgrade.loop
LEMMA UpgradeLoadInv ==
  ASSUME ArcInv, NEW u \in Users, UpgradeLoad(u)
  PROVE  ArcInv'
<1> USE DEF ArcInv, UpgradeLoad, Becomes
<1>1. ArcTypeOK'
  BY DEF ArcTypeOK, Stages
<1>2. u \in weaks /\ u \notin refs /\ stage[u] \in {"idle", "load"}
  BY DEF Upgraders, Idle
<1>3. stage' \in [Users -> Stages] /\ stage'[u] \in {"idle", "cas"}
      /\ \A v \in Users : v # u => stage'[v] = stage[v]
  BY DEF ArcTypeOK, Stages
<1>4. Counted'
  <2>1. Owed' <=> Owed
    BY <1>2, <1>3 DEF Owed, Closing
  <2> QED
    BY <2>1 DEF Counted
<1>5. Upgraders'
  BY <1>1, <1>2, <1>3 DEF Upgraders, ArcTypeOK
<1>6. Ending' /\ Freeing'
  BY <1>2, <1>3 DEF Ending, Freeing, Closing
<1> QED
  BY <1>1, <1>4, <1>5, <1>6

\* weak.upgrade.cas: a count seen above zero and still there is a Ref.
LEMMA UpgradeCasInv ==
  ASSUME ArcInv, NEW u \in Users, UpgradeCas(u)
  PROVE  ArcInv'
<1> USE DEF ArcInv, UpgradeCas, Becomes, Exchanged
<1>1. u \in weaks /\ u \notin refs /\ stage[u] = "cas" /\ seen[u] > 0
  BY DEF Upgraders
<1>2. ArcTypeOK'
  BY DEF ArcTypeOK, Stages
<1>3. /\ stage'[u] \in {"idle", "load"}
      /\ \A v \in Users : v # u => stage'[v] = stage[v]
  BY DEF ArcTypeOK, Stages
<1>4. CASE strong = seen[u]
  <2>1. refs # {}
    <3>1. Cardinality(refs) = seen[u]
      BY <1>4 DEF Counted
    <3>2. Cardinality(refs) = 0 <=> refs = {}
      BY Finite, NoneLeft
    <3> QED
      BY ONLY <1>1, <3>1, <3>2
  <2>2. refs' = refs \cup {u} /\ strong' = strong + 1 /\ stage'[u] = "idle"
    BY <1>4 DEF ArcTypeOK
  <2>3. Counted'
    <3>1. Cardinality(refs') = Cardinality(refs) + 1
      BY <1>1, <2>2, Finite, Gains
    <3>2. Owed' /\ Owed
      BY <2>1, <2>2 DEF Owed
    <3> QED
      BY <3>1, <3>2, <2>2 DEF Counted
  <2>4. Upgraders'
    BY <1>1, <1>3, <2>2 DEF Upgraders, ArcTypeOK
  <2>5. Ending' /\ Freeing'
    BY <1>1, <1>3, <2>1, <2>2 DEF Ending, Freeing, Closing
  <2> QED
    BY <1>2, <2>3, <2>4, <2>5
<1>5. CASE strong # seen[u]
  <2>1. Counted'
    <3>1. Owed' <=> Owed
      BY <1>1, <1>3, <1>5 DEF Owed, Closing
    <3> QED
      BY <3>1, <1>5 DEF Counted
  <2>2. stage'[u] = "load" /\ UNCHANGED <<strong, refs>>
    BY <1>5 DEF ArcTypeOK
  <2>3. Upgraders'
    BY <1>1, <1>3, <2>2 DEF Upgraders, ArcTypeOK
  <2>4. Ending' /\ Freeing'
    BY <1>1, <1>3, <2>2 DEF Ending, Freeing, Closing
  <2> QED
    BY <1>2, <2>1, <2>3, <2>4
<1> QED
  BY <1>4, <1>5

\* Ref[T].drop: the last one out owes the unit in the place of the Refs.
LEMMA DropRefInv ==
  ASSUME ArcInv, NEW u \in Users, DropRef(u)
  PROVE  ArcInv'
<1> USE DEF ArcInv, DropRef, Becomes, Last, Idle
<1>1. ArcTypeOK'
  <2>1. strong > 0
    BY Finite, Loses DEF Counted
  <2> QED
    BY <2>1 DEF ArcTypeOK, Stages
<1>2. /\ stage'[u] = IF strong = 1 THEN "value" ELSE "idle"
      /\ \A v \in Users : v # u => stage'[v] = stage[v]
  BY DEF ArcTypeOK, Stages
<1>3. refs' = refs \ {u} /\ (strong = 1 <=> refs' = {})
  BY Finite, Loses DEF Counted
<1>4. \A v \in Users : ~Closing(v) /\ stage[v] # "free"
  BY OwedIsAlive DEF Owed, Ending
<1>5. Counted'
  <2>1. Cardinality(refs') = Cardinality(refs) - 1
    BY Finite, Loses
  <2>2. Owed' /\ Owed
    BY <1>2, <1>3 DEF Owed, Closing
  <2> QED
    BY <2>1, <2>2 DEF Counted
<1>6. Upgraders'
  BY <1>2 DEF Upgraders
<1>7. Ending'
  BY <1>2, <1>3, <1>4 DEF Ending, Closing
<1>8. Freeing'
  BY <1>2, <1>4 DEF Freeing
<1> QED
  BY <1>1, <1>5, <1>6, <1>7, <1>8

\* emitArcInnerDrop: a Weak inside the value is not the last unit.
LEMMA DropValueInv ==
  ASSUME ArcInv, NEW u \in Users, DropValue(u)
  PROVE  ArcInv'
<1> USE DEF ArcInv, DropValue, Becomes, Last
<1>1. /\ stage'[u] = "collect" /\ stage[u] = "value"
      /\ \A v \in Users : v # u => stage'[v] = stage[v]
  BY DEF ArcTypeOK, Stages
<1>2. Owed /\ Owed' /\ refs = {} /\ refs' = {}
  BY <1>1 DEF Owed, Ending, Closing
<1>3. weak > 0 /\ ~freed /\ \A v \in Users : stage[v] # "free"
  BY <1>2, OwedIsAlive
<1>4. weak = Cardinality(weaks) + 1 /\ Cardinality(weaks) \in Nat
  BY <1>2, Finite DEF Counted
<1>5. CASE Inside \in weaks
  <2>1. Cardinality(weaks') = Cardinality(weaks) - 1 /\ Cardinality(weaks) > 0
    BY <1>5, Finite, Loses
  <2>2. weak' = weak - 1 /\ weak' > 0 /\ ~freed'
    <3>1. weak' = weak - 1 /\ freed' = (freed \/ weak = 1)
      BY <1>5
    <3>2. weak' > 0 /\ weak # 1
      BY ONLY <3>1, <1>4, <2>1
    <3> QED
      BY ONLY <3>1, <3>2, <1>3, Zenon
  <2>3. ArcTypeOK'
    BY <1>4, <2>1, <2>2 DEF ArcTypeOK, Stages
  <2>4. Counted'
    BY <1>2, <1>4, <2>1, <2>2 DEF Counted
  <2>5. Freeing'
    BY <1>1, <1>3, <2>2 DEF Freeing
  <2> QED
    BY <2>2, <2>3, <2>4, <2>5, <1>1, <1>2, ArcAssumption
    DEF Upgraders, Ending, Closing
<1>6. CASE Inside \notin weaks
  <2>1. weaks' = weaks /\ weak' = weak /\ freed' = freed
    BY <1>6
  <2>2. ArcTypeOK'
    BY <2>1 DEF ArcTypeOK, Stages
  <2>3. Counted'
    BY <1>2, <2>1 DEF Counted
  <2>4. Freeing'
    BY <1>1, <1>3, <2>1 DEF Freeing
  <2> QED
    BY <2>1, <2>2, <2>3, <2>4, <1>1, <1>2 DEF Upgraders, Ending, Closing
<1> QED
  BY <1>5, <1>6

\* The end of Ref[T].drop: the unit is given back.
LEMMA CollectInv ==
  ASSUME ArcInv, NEW u \in Users, Collect(u)
  PROVE  ArcInv'
<1> USE DEF ArcInv, Collect, ReleaseWeak, Becomes, Last
<1>1. /\ stage'[u] = (IF weak = 1 THEN "free" ELSE "idle") /\ stage[u] = "collect"
      /\ \A v \in Users : v # u => stage'[v] = stage[v]
  BY DEF ArcTypeOK, Stages
<1>2. Owed /\ ~Owed' /\ refs = {} /\ refs' = {}
  BY <1>1 DEF Owed, Ending, Closing
<1>3. weak > 0 /\ ~freed /\ \A v \in Users : stage[v] # "free"
  BY <1>2, OwedIsAlive
<1>4. Cardinality(weaks) \in Nat
  BY Finite
<1>5. ArcTypeOK'
  BY <1>3 DEF ArcTypeOK, Stages
<1>6. Counted'
  BY <1>2, <1>4 DEF Counted
<1>7. Upgraders' /\ Ending'
  BY <1>1, <1>2 DEF Upgraders, Ending, Closing
<1>8. Freeing'
  <2>1. weak' = 0 <=> weak = 1
    BY <1>3 DEF ArcTypeOK
  <2> QED
    BY <2>1, <1>1, <1>3 DEF Freeing
<1> QED
  BY <1>5, <1>6, <1>7, <1>8

\* Weak[T].drop
LEMMA DropWeakInv ==
  ASSUME ArcInv, NEW u \in Users, DropWeak(u)
  PROVE  ArcInv'
<1> USE DEF ArcInv, DropWeak, ReleaseWeak, Becomes, Last, Idle
<1>1. /\ stage'[u] = (IF weak = 1 THEN "free" ELSE "idle") /\ stage[u] = "idle"
      /\ \A v \in Users : v # u => stage'[v] = stage[v]
  BY DEF ArcTypeOK, Stages
<1>2. Owed' <=> Owed
  BY <1>1 DEF Owed, Closing
<1>3. weak > 0 /\ ~freed /\ \A v \in Users : stage[v] # "free"
  BY OwedIsAlive
<1>4. Cardinality(weaks) \in Nat /\ Cardinality(weaks') = Cardinality(weaks) - 1
  BY Finite, Loses
<1>5. ArcTypeOK'
  BY <1>3 DEF ArcTypeOK, Stages
<1>6. Counted'
  BY <1>2, <1>4 DEF Counted
<1>7. Upgraders' /\ Ending'
  BY <1>1 DEF Upgraders, Ending, Closing
<1>8. Freeing'
  <2>1. weak' = 0 <=> weak = 1
    BY <1>3 DEF ArcTypeOK
  <2> QED
    BY <2>1, <1>1, <1>3 DEF Freeing
<1> QED
  BY <1>5, <1>6, <1>7, <1>8

\* pal_free
LEMMA FreeInv ==
  ASSUME ArcInv, NEW u \in Users, Free(u)
  PROVE  ArcInv'
<1> USE DEF ArcInv, Free, Becomes
<1>1. /\ stage'[u] = "idle" /\ stage[u] = "free"
      /\ \A v \in Users : v # u => stage'[v] = stage[v]
  BY DEF ArcTypeOK, Stages
<1>2. ArcTypeOK'
  BY DEF ArcTypeOK, Stages
<1>3. Owed' <=> Owed
  BY <1>1 DEF Owed, Closing
<1>4. Counted'
  BY <1>3 DEF Counted
<1>5. Upgraders' /\ Ending' /\ Freeing'
  BY <1>1 DEF Upgraders, Ending, Freeing, Closing
<1> QED
  BY <1>2, <1>4, <1>5

\* Every step of every user preserves the invariant.
LEMMA ArcStep == ArcInv /\ [ArcNext]_arcVars => ArcInv'
<1> SUFFICES ASSUME ArcInv, [ArcNext]_arcVars
             PROVE  ArcInv'
  OBVIOUS
<1>1. CASE UNCHANGED arcVars
  BY <1>1 DEF arcVars, ArcInv, ArcTypeOK, Counted, Owed, Closing, Upgraders,
              Ending, Freeing
<1>2. ASSUME NEW u \in Users, Share(u)
      PROVE  ArcInv'
  <2>1. ASSUME NEW v \in Users, Clone(u, v) PROVE ArcInv'
    BY <2>1, CloneInv
  <2>2. ASSUME NEW v \in Users, CloneWeak(u, v) PROVE ArcInv'
    BY <2>2, NewWeakInv DEF CloneWeak
  <2>3. ASSUME NEW w \in Users \cup {Inside}, Downgrade(u, w) PROVE ArcInv'
    BY <2>3, NewWeakInv DEF Downgrade
  <2> QED
    BY <1>2, <2>1, <2>2, <2>3 DEF Share
<1>3. ASSUME NEW u \in Users, DropRef(u) \/ DropWeak(u) \/ Proceed(u)
      PROVE  ArcInv'
  BY <1>3, DropRefInv, DropWeakInv, UpgradeLoadInv, UpgradeCasInv, DropValueInv,
     CollectInv, FreeInv DEF Proceed
<1> QED
  BY <1>1, <1>2, <1>3 DEF ArcNext

\* The invariant holds in every state of the allocation.
LEMMA ArcInvariance == ArcSpec => []ArcInv
BY ArcInitInv, ArcStep, PTL DEF ArcSpec
-----------------------------------------------------------------------------
LEMMA InvIsAlive == ArcInv => SharedIsAlive
<1> SUFFICES ASSUME ArcInv PROVE SharedIsAlive
  OBVIOUS
<1>1. refs # {} => ~dropped /\ \A u \in Users : stage[u] \notin {"value", "collect"}
  BY DEF ArcInv, Ending, Closing
<1>2. freed \/ (\E u \in Users : stage[u] = "free") => ~Owed /\ weaks = {}
  BY OwedIsAlive DEF ArcInv, ArcTypeOK
<1>3. ~Owed /\ weaks = {} =>
        refs = {} /\ \A u \in Users : stage[u] \in {"idle", "free"}
  BY DEF ArcInv, ArcTypeOK, Upgraders, Owed, Closing, Stages
<1> QED
  BY <1>1, <1>2, <1>3 DEF SharedIsAlive, Idle, ArcInv, Freeing

\* A value lives while a Ref to it exists and its allocation while a Ref, a Weak
\* or an operation on one does, and no two drops free it, however clone,
\* upgrade and drop of any number of goroutines interleave.
THEOREM Alive == ArcSpec => []SharedIsAlive
BY ArcInvariance, InvIsAlive, PTL

\* The last drop to return has dropped the value and freed the allocation.
THEOREM NoLeak == ArcSpec => []LastOutFrees
<1>1. ArcInv => LastOutFrees
  <2> SUFFICES ASSUME ArcInv, refs = {}, weaks = {}, \A u \in Users : stage[u] = "idle"
               PROVE  dropped /\ freed
    BY DEF LastOutFrees, Idle
  <2>1. weak = 0
    BY FS_EmptySet DEF ArcInv, Counted, Owed, Closing
  <2> QED
    BY <2>1 DEF ArcInv, Ending, Freeing
<1> QED
  BY <1>1, ArcInvariance, PTL
=============================================================================
