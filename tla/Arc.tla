-------------------------------- MODULE Arc --------------------------------
(***************************************************************************)
(* Ref[T] and Weak[T] (compiler/internal/codegen: expr_handle.go,           *)
(* compiler_native_handle.go): one allocation with the atomic counters      *)
(* strong_count and weak_count and a value.  The strong references together *)
(* own one unit of weak_count, given back after the value is dropped.       *)
(*                                                                         *)
(* An action is one atomic instruction, the drop of the value or the free.  *)
(* A user is a goroutine or thread with at most one Ref and one Weak of     *)
(* the allocation: a goroutine with several acts as several users.          *)
(* Instructions interleave here; the additions of the code are relaxed.     *)
(***************************************************************************)
EXTENDS Naturals, FiniteSets

CONSTANTS
  Users,     \* goroutines and threads
  Inside     \* stands for a Weak of the allocation that its own value keeps

ASSUME ArcAssumption == IsFiniteSet(Users) /\ Inside \notin Users

VARIABLES
  strong,    \* strong_count
  weak,      \* weak_count
  refs,      \* the users that own a Ref
  weaks,     \* the users that own a Weak, and Inside
  dropped,   \* whether the value was dropped
  freed,     \* whether the allocation was freed
  stage,     \* stage[u]: what u is in the middle of
  seen       \* seen[u]: the strong_count upgrade loaded, until it is used

arcVars == <<strong, weak, refs, weaks, dropped, freed, stage, seen>>

(* "idle"     no operation                                                  *)
(* "load"     upgrade is about to load strong_count again                   *)
(* "cas"      upgrade is about to compare and exchange it                   *)
(* "value"    drop took strong_count to zero and drops the value            *)
(* "collect"  drop gives back the unit of weak_count                        *)
(* "free"     drop took weak_count to zero and frees the allocation         *)
Stages == {"idle", "load", "cas", "value", "collect", "free"}

\* genArcConstructor, by the user u.
Constructed(u) ==
  /\ strong = 1 /\ weak = 1
  /\ refs = {u} /\ weaks = {}
  /\ dropped = FALSE /\ freed = FALSE
  /\ stage = [v \in Users |-> "idle"]
  /\ seen = [v \in Users |-> 0]

ArcInit == \E u \in Users : Constructed(u)
-----------------------------------------------------------------------------
(* As in Sched, a definition named _Faulty is a deliberately wrong variant  *)
(* of the one below it.                                                     *)

Idle(u) == stage[u] = "idle"
Becomes(u, s) == stage' = [stage EXCEPT ![u] = s]

\* dupArc: the clone is for v, to whom it is sent or for whom it is captured.
Clone(u, v) ==
  /\ Idle(u) /\ u \in refs
  /\ Idle(v) /\ v \notin refs
  /\ strong' = strong + 1
  /\ refs' = refs \cup {v}
  /\ UNCHANGED <<weak, weaks, dropped, freed, stage, seen>>

\* weak_count + 1 for the owner w of the new Weak.
NewWeak(w) ==
  /\ w \notin weaks
  /\ w \in Users => Idle(w)
  /\ weak' = weak + 1
  /\ weaks' = weaks \cup {w}
  /\ UNCHANGED <<strong, refs, dropped, freed, stage, seen>>

\* genArcDowngrade; a user of the value may keep the Weak in the value.
Downgrade(u, w) == Idle(u) /\ u \in refs /\ NewWeak(w)

\* dupWeak
CloneWeak(u, w) == Idle(u) /\ u \in weaks /\ w # Inside /\ NewWeak(w)

\* genWeakUpgrade, weak.upgrade.loop: none when strong_count is zero.
UpgradeLoad(u) ==
  /\ stage[u] = "load" \/ (Idle(u) /\ u \in weaks /\ u \notin refs)
  /\ seen' = [seen EXCEPT ![u] = strong]
  /\ Becomes(u, IF strong = 0 THEN "idle" ELSE "cas")
  /\ UNCHANGED <<strong, weak, refs, weaks, dropped, freed>>

\* A plain store, as for a confined type, succeeds whatever happened meanwhile.
Exchanged_Faulty(u) == TRUE
Exchanged(u) == strong = seen[u]

\* weak.upgrade.cas: a Ref when the exchange succeeds, or from the start.
UpgradeCas(u) ==
  /\ stage[u] = "cas"
  /\ IF Exchanged(u)
       THEN strong' = seen[u] + 1 /\ refs' = refs \cup {u} /\ Becomes(u, "idle")
       ELSE Becomes(u, "load") /\ UNCHANGED <<strong, refs>>
  /\ seen' = [seen EXCEPT ![u] = 0]
  /\ UNCHANGED <<weak, weaks, dropped, freed>>

\* The old value of the counter says whether this was the last reference.
Last_Faulty(count) == count = 0
Last(count) == count = 1

\* Ref[T].drop: strong_count - 1.
DropRef(u) ==
  /\ Idle(u) /\ u \in refs
  /\ strong' = strong - 1
  /\ refs' = refs \ {u}
  /\ Becomes(u, IF Last(strong) THEN "value" ELSE "idle")
  /\ UNCHANGED <<weak, weaks, dropped, freed, seen>>

\* emitArcInnerDrop: a Weak inside the value goes through Weak[T].drop too.
DropValue(u) ==
  /\ stage[u] = "value"
  /\ dropped' = TRUE
  /\ weaks' = weaks \ {Inside}
  /\ IF Inside \in weaks
       THEN weak' = weak - 1 /\ freed' = (freed \/ Last(weak))
       ELSE UNCHANGED <<weak, freed>>
  /\ Becomes(u, "collect")
  /\ UNCHANGED <<strong, refs, seen>>

\* weak_count - 1, then on to the free if that was the last.
ReleaseWeak(u) ==
  /\ weak' = weak - 1
  /\ Becomes(u, IF Last(weak) THEN "free" ELSE "idle")
  /\ UNCHANGED <<strong, refs, dropped, freed, seen>>

\* The end of Ref[T].drop: the unit that stood for all strong references.
Collect(u) == stage[u] = "collect" /\ ReleaseWeak(u) /\ UNCHANGED weaks

\* Weak[T].drop
DropWeak(u) ==
  /\ Idle(u) /\ u \in weaks
  /\ weaks' = weaks \ {u}
  /\ ReleaseWeak(u)

Free(u) ==
  /\ stage[u] = "free"
  /\ freed' = TRUE
  /\ Becomes(u, "idle")
  /\ UNCHANGED <<strong, weak, refs, weaks, dropped, seen>>
-----------------------------------------------------------------------------
\* The operations of one instruction that make a reference, and the others.
Share(u) ==
  \/ \E v \in Users : Clone(u, v) \/ CloneWeak(u, v)
  \/ \E w \in Users \cup {Inside} : Downgrade(u, w)

Proceed(u) ==
  \/ UpgradeLoad(u) \/ UpgradeCas(u)
  \/ DropValue(u) \/ Collect(u) \/ Free(u)

ArcNext == \E u \in Users : Share(u) \/ DropRef(u) \/ DropWeak(u) \/ Proceed(u)

ArcSpec == ArcInit /\ [][ArcNext]_arcVars
-----------------------------------------------------------------------------
\* A Ref keeps the value: no upgrade revives one that is being dropped.  A Weak,
\* and any operation under way, keeps the allocation, and one user frees it.
SharedIsAlive ==
  /\ refs # {} => ~dropped /\ \A u \in Users : stage[u] \notin {"value", "collect"}
  /\ refs # {} \/ weaks # {} \/ (\E u \in Users : ~Idle(u)) => ~freed
  /\ \A u, v \in Users : stage[u] = "free" => v = u \/ Idle(v)

\* Nothing leaks: when the last Ref and the last Weak are gone and every drop
\* has returned, the value was dropped and the allocation freed.
LastOutFrees ==
  refs = {} /\ weaks = {} /\ (\A u \in Users : Idle(u)) => dropped /\ freed
=============================================================================
