------------------------------- MODULE Mutex -------------------------------
(***************************************************************************)
(* Mutex[T] and MutexGuard[T] (compiler/internal/codegen: expr_handle.go,   *)
(* compiler_native_handle.go).  The PAL mutex `handle` protects only the    *)
(* metadata: the held flag, a FIFO list of parked goroutines and a          *)
(* condition variable for callers compiled outside a coroutine.             *)
(*                                                                         *)
(* An action is one critical section of `handle`.  A section that runs to   *)
(* its unlock within one action leaves `handle` free; a goroutine that      *)
(* suspends keeps it until the scheduler's release_park_mutex (see Sched).  *)
(***************************************************************************)
EXTENDS Sequences

CONSTANTS
  Coros,     \* callers compiled as coroutines: they park as goroutines
  Blockers,  \* callers compiled otherwise: they block their OS thread
  NULL

Callers == Coros \cup Blockers

ASSUME MutexAssumption == Coros \cap Blockers = {} /\ NULL \notin Callers

VARIABLES
  handle,    \* the suspended goroutine that still holds the PAL mutex, or NULL
  held,      \* the held flag
  waiters,   \* the list waiter_head .. waiter_tail
  pc         \* pc[c]: where caller c is

vars == <<handle, held, waiters, pc>>

(* "out"       does not use the Mutex                                       *)
(* "suspended" is on the list and its coroutine suspends, handle still held *)
(* "parked"    is on the list                                               *)
(* "ready"     was handed the lock and is in a run queue                    *)
(* "waiting"   is inside pal_cond_wait                                      *)
(* "woken"     returned from pal_cond_wait's wait and needs the handle      *)
(* "guard"     has the MutexGuard                                           *)
CoroPCs == {"out", "suspended", "parked", "ready", "guard"}
BlockerPCs == {"out", "waiting", "woken", "guard"}

At(s) == {c \in Callers : pc[c] = s}

\* genMutexConstructor
Init ==
  /\ handle = NULL
  /\ held = FALSE
  /\ waiters = <<>>
  /\ pc = [c \in Callers |-> "out"]
-----------------------------------------------------------------------------
(* As in Sched, a definition named _Faulty is a deliberately wrong variant  *)
(* of the one below it.                                                     *)

\* Whether lock() was compiled inside a coroutine body.
Parks_Faulty(c) == TRUE
Parks(c) == c \in Coros

\* Newcomers queue behind the goroutines that already wait (T0301).
MustWait == held \/ waiters # <<>>

\* waiter_enqueue, wrongly at the front.
Enlisted_Faulty(c) == <<c>> \o waiters

\* waiter_enqueue
Enlisted(c) == Append(waiters, c)

\* lock() of an uncontested Mutex.
LockFree(c) ==
  /\ pc[c] = "out" /\ handle = NULL
  /\ ~MustWait
  /\ held' = TRUE
  /\ pc' = [pc EXCEPT ![c] = "guard"]
  /\ UNCHANGED <<handle, waiters>>

\* lock() of a contested Mutex in a coroutine: onto the list, park_mutex :=
\* handle, coro.suspend.
LockPark(c) ==
  /\ pc[c] = "out" /\ handle = NULL
  /\ MustWait /\ Parks(c)
  /\ waiters' = Enlisted(c)
  /\ handle' = c
  /\ pc' = [pc EXCEPT ![c] = "suspended"]
  /\ UNCHANGED held

\* The head of the wait loop of a thread: wait while held, else take the
\* lock.  The loop does not look at the list.
WaitLoop(c) ==
  /\ handle = NULL
  /\ held' = TRUE
  /\ pc' = [pc EXCEPT ![c] = IF held THEN "waiting" ELSE "guard"]
  /\ UNCHANGED <<handle, waiters>>

\* lock() of a contested Mutex outside a coroutine.
LockBlock(c) ==
  /\ pc[c] = "out"
  /\ MustWait /\ ~Parks(c)
  /\ WaitLoop(c)

\* A thread got a signal and gets the handle back from pal_cond_wait.
Recheck(c) == pc[c] = "woken" /\ WaitLoop(c)

SpuriousWakeup(c) ==
  /\ pc[c] = "waiting"
  /\ pc' = [pc EXCEPT ![c] = "woken"]
  /\ UNCHANGED <<handle, held, waiters>>

\* sched_loop's release_park_mutex.
Release(c) ==
  /\ pc[c] = "suspended"
  /\ handle' = NULL
  /\ pc' = [pc EXCEPT ![c] = "parked"]
  /\ UNCHANGED <<held, waiters>>

\* held stays 1 while the lock passes from one goroutine to the next.
HeldAcrossHandoff_Faulty == FALSE
HeldAcrossHandoff == held

\* MutexGuard.close/drop with a waiting goroutine: hand the lock to the first.
UnlockHandoff(c) ==
  /\ pc[c] = "guard" /\ handle = NULL
  /\ waiters # <<>>
  /\ waiters' = Tail(waiters)
  /\ held' = HeldAcrossHandoff
  /\ pc' = [pc EXCEPT ![c] = "out", ![Head(waiters)] = "ready"]
  /\ UNCHANGED handle

\* pal_cond_signal: wakes a waiting thread, if there is one.
Signal_Faulty(f) == pc' = f
Signal(f) ==
  IF At("waiting") = {}
    THEN pc' = f
    ELSE \E d \in At("waiting") : pc' = [f EXCEPT ![d] = "woken"]

\* MutexGuard.close/drop without one: clear held, signal the condition.
UnlockFree(c) ==
  /\ pc[c] = "guard" /\ handle = NULL
  /\ waiters = <<>>
  /\ held' = FALSE
  /\ Signal([pc EXCEPT ![c] = "out"])
  /\ UNCHANGED <<handle, waiters>>

\* A resumed goroutine that tries again instead of trusting the handoff.
Resume_Faulty(c) ==
  /\ pc[c] = "ready"
  /\ pc' = [pc EXCEPT ![c] = "out"]
  /\ UNCHANGED <<handle, held, waiters>>

\* mutex.park.resume: a goroutine that was handed the lock is scheduled.
Resume(c) ==
  /\ pc[c] = "ready"
  /\ pc' = [pc EXCEPT ![c] = "guard"]
  /\ UNCHANGED <<handle, held, waiters>>
-----------------------------------------------------------------------------
Lock(c) == LockFree(c) \/ LockPark(c) \/ LockBlock(c)
Unlock(c) == UnlockHandoff(c) \/ UnlockFree(c)

Next ==
  \E c \in Callers :
    \/ Lock(c) \/ Unlock(c)
    \/ Recheck(c) \/ SpuriousWakeup(c)
    \/ Release(c) \/ Resume(c)

Spec == Init /\ [][Next]_vars

\* The scheduler runs every queued goroutine and finishes every suspension
\* (Sched), the operating system every thread, and every guard is dropped.
Fairness ==
  \A c \in Callers :
    WF_vars(Release(c)) /\ WF_vars(Resume(c)) /\ WF_vars(Recheck(c))
      /\ WF_vars(Unlock(c))
-----------------------------------------------------------------------------
Elems(s) == {s[i] : i \in DOMAIN s}

\* The fields of the Mutex keep their types; only coroutines are on the list.
TypeOK ==
  /\ handle \in Coros \cup {NULL}
  /\ held \in BOOLEAN
  /\ waiters \in Seq(Coros)
  /\ pc \in [Callers -> CoroPCs \cup BlockerPCs]

\* Those who own the lock: with a guard, or handed it and not yet resumed.
Owners == At("guard") \cup At("ready")

\* Two callers never own the lock at once, and held says whether one does:
\* the flag neither stays set with no owner left to clear it nor is clear
\* while a handed-over goroutine waits to be resumed.
MutualExclusion ==
  /\ \A c, d \in Owners : c = d
  /\ held <=> Owners # {}

\* No wakeup is lost for threads: while the lock is free and a thread waits
\* for the condition, some thread is on its way to take the lock.
NoStrandedThread ==
  ~held /\ At("waiting") # {} => At("woken") # {}

\* The lock is never free while goroutines are parked for it, and nobody but
\* those on the list is parked: unlock cannot forget a parked goroutine.
ParkedAreListed ==
  /\ waiters # <<>> => held
  /\ Elems(waiters) = At("suspended") \cup At("parked")
  /\ \A i, j \in DOMAIN waiters : waiters[i] = waiters[j] => i = j

\* A set of at most one caller as a sequence.
AsLine(S) == IF S = {} THEN <<>> ELSE <<CHOOSE c \in S : TRUE>>

\* The goroutine that was handed the lock, before those that still wait.
Handed == AsLine(At("ready"))

Abs == INSTANCE FifoLock WITH holders <- At("guard"), line <- Handed \o waiters

\* The lock is first come, first served among goroutines, and no newcomer,
\* goroutine or thread, passes one that is parked (the promise of T0301).
ImplementsFifoLock == Abs!Spec

\* Every parked goroutine gets the lock if every guard is dropped.
ParkedGetsLock == \A c \in Coros : pc[c] = "parked" ~> pc[c] = "guard"
=============================================================================
