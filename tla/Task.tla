-------------------------------- MODULE Task --------------------------------
(***************************************************************************)
(* The life of a Task[T] handle (compiler/internal/codegen: sched.go,       *)
(* expr_concurrency.go, compiler_synthdrop.go, compiler_native_handle.go):  *)
(* who waits for the goroutine, and who frees what it leaves behind, its G  *)
(* struct, its result buffer and its panic message.                         *)
(*                                                                         *)
(* Every task has the goroutine that computes it and an owner, the code     *)
(* that holds the handle: the compiler's move checking lets it consume the  *)
(* handle once, with <-t ("await") or by dropping it ("drop").  All tasks   *)
(* share one sched.done_lock.                                               *)
(***************************************************************************)
EXTENDS Integers

CONSTANTS
  Tasks,
  Kinds,  \* which of "value", "void" and "detached" (no handle) tasks can be
  Uses,   \* which of "await" and "drop" their owners do
  NULL

ASSUME TaskAssumption ==
  /\ Kinds \subseteq {"value", "void", "detached"}
  /\ Uses \subseteq {"await", "drop"}
  /\ NULL \notin {"exit", "own"} \X Tasks

VARIABLES
  kind,      \* the kind of the task
  how,       \* what the owner does with the handle
  coro,      \* whether the owner is compiled as a coroutine
  exitPc,    \* where the goroutine is, in its body or in goroutine_exit
  ownPc,     \* where the owner is
  done,      \* G.done
  waiter,    \* the owner is on G.done_waiters
  toWake,    \* goroutine_exit has taken the owner off done_waiters
  doneLock,  \* who holds sched.done_lock: <<"exit", t>>, <<"own", t>> or NULL
  buf,       \* the result buffer: "none", "raw", "written" or "freed"
  panicked,  \* G.panicked: 0, 1 (static message) or 2 (message on the heap)
  msg,       \* the panic message: "none", "static", "heap" or "freed"
  frees      \* how often the G struct has been freed

shape == <<kind, how, coro>>
memory == <<buf, panicked, msg, frees>>
vars == <<kind, how, coro, exitPc, ownPc, done, waiter, toWake, doneLock, buf,
          panicked, msg, frees>>

\* genGoCallExpr, genGoBlock: the caller allocates the G and, for a task with
\* a value, its result buffer, then enqueues the G.
Init ==
  /\ kind \in [Tasks -> Kinds]
  /\ how \in [Tasks -> Uses]
  /\ coro \in [Tasks -> BOOLEAN]
  /\ exitPc = [t \in Tasks |-> "body"]
  /\ ownPc = [t \in Tasks |-> IF kind[t] = "detached" THEN "gone" ELSE "has"]
  /\ done = [t \in Tasks |-> FALSE]
  /\ waiter = [t \in Tasks |-> FALSE]
  /\ toWake = [t \in Tasks |-> FALSE]
  /\ doneLock = NULL
  /\ buf = [t \in Tasks |-> IF kind[t] = "value" THEN "raw" ELSE "none"]
  /\ panicked = [t \in Tasks |-> 0]
  /\ msg = [t \in Tasks |-> "none"]
  /\ frees = [t \in Tasks |-> 0]
-----------------------------------------------------------------------------
(* The goroutine.  Definitions named _Faulty are wrong variants.            *)

\* The result buffer after a return: the value, or, when control reaches the
\* end of the body without one, a default (storeGoResultDefault).
Stored_Faulty(b) == b
Stored(b) == IF b = "raw" THEN "written" ELSE b

\* The body ends: it stores the result through G.result_ptr, or the panic
\* exit block stores what the panic left in thread-local state.
BodyReturns(t) ==
  /\ exitPc[t] = "body"
  /\ exitPc' = [exitPc EXCEPT ![t] = "exit"]
  /\ buf' = [buf EXCEPT ![t] = Stored(@)]
  /\ UNCHANGED <<shape, ownPc, done, waiter, toWake, doneLock, panicked, msg,
                 frees>>

BodyPanics(t, m) ==
  /\ exitPc[t] = "body"
  /\ exitPc' = [exitPc EXCEPT ![t] = "exit"]
  /\ panicked' = [panicked EXCEPT ![t] = IF m = "heap" THEN 2 ELSE 1]
  /\ msg' = [msg EXCEPT ![t] = m]
  /\ UNCHANGED <<shape, ownPc, done, waiter, toWake, doneLock, buf, frees>>

\* goroutine_exit: load coro_handle, id and result_ptr, take done_lock.
ExitLock(t) ==
  /\ exitPc[t] = "exit" /\ doneLock = NULL
  /\ doneLock' = <<"exit", t>>
  /\ exitPc' = [exitPc EXCEPT ![t] = "locked"]
  /\ UNCHANGED <<shape, ownPc, done, waiter, toWake, memory>>

\* G.done = 1
SetDone(t) ==
  /\ exitPc[t] = "locked"
  /\ done' = [done EXCEPT ![t] = TRUE]
  /\ exitPc' = [exitPc EXCEPT ![t] = "stored"]
  /\ UNCHANGED <<shape, ownPc, waiter, toWake, doneLock, memory>>

\* Load and clear G.done_waiters, load panicked and panic_msg: the last
\* accesses to the G struct of a task.
TakeWaiters(t) ==
  /\ exitPc[t] = "stored"
  /\ toWake' = [toWake EXCEPT ![t] = waiter[t]]
  /\ waiter' = [waiter EXCEPT ![t] = FALSE]
  /\ exitPc' = [exitPc EXCEPT ![t] = "taken"]
  /\ UNCHANGED <<shape, ownPc, done, doneLock, memory>>

\* Enqueue the waiter, then unlock done_lock.
WakeAndUnlock_Faulty(t) ==
  /\ exitPc[t] = "taken"
  /\ toWake' = [toWake EXCEPT ![t] = FALSE]
  /\ doneLock' = NULL
  /\ exitPc' = [exitPc EXCEPT ![t] = "unlocked"]
  /\ UNCHANGED <<shape, ownPc, done, waiter, memory>>
WakeAndUnlock(t) ==
  /\ exitPc[t] = "taken"
  /\ ownPc' = [ownPc EXCEPT ![t] = IF toWake[t] THEN "ready" ELSE @]
  /\ toWake' = [toWake EXCEPT ![t] = FALSE]
  /\ doneLock' = NULL
  /\ exitPc' = [exitPc EXCEPT ![t] = "unlocked"]
  /\ UNCHANGED <<shape, done, waiter, memory>>

\* result_ptr is not null, so a receiver frees the G.
IsTask_Faulty(t) == FALSE
IsTask(t) == kind[t] # "detached"

\* Destroy the coroutine; free the message and the G of a detached goroutine.
ExitFree(t) ==
  /\ exitPc[t] = "unlocked"
  /\ exitPc' = [exitPc EXCEPT ![t] = "gone"]
  /\ IF IsTask(t)
       THEN UNCHANGED <<msg, frees>>
       ELSE /\ msg' = [msg EXCEPT ![t] = IF panicked[t] = 2 THEN "freed" ELSE @]
            /\ frees' = [frees EXCEPT ![t] = @ + 1]
  /\ UNCHANGED <<shape, ownPc, done, waiter, toWake, doneLock, buf, panicked>>
-----------------------------------------------------------------------------
(* The owner of the handle.                                                 *)

\* The first look at G.done, which takes no lock.
FastCheck(t) ==
  /\ ownPc[t] = "has"
  /\ ownPc' = [ownPc EXCEPT ![t] = IF done[t] THEN "ready"
                                   ELSE IF coro[t] THEN "lock" ELSE "poll"]
  /\ UNCHANGED <<shape, exitPc, done, waiter, toWake, doneLock, memory>>

\* Outside a coroutine: sleep and look again until G.done is set.
Poll(t) ==
  /\ ownPc[t] = "poll" /\ done[t]
  /\ ownPc' = [ownPc EXCEPT ![t] = "ready"]
  /\ UNCHANGED <<shape, exitPc, done, waiter, toWake, doneLock, memory>>

\* Whether the second look, under done_lock, finds the task done.
SeenDone_Faulty(t) == FALSE
SeenDone(t) == done[t]

\* emitCoroTaskParkSuspendWait: under done_lock look again; if the task is
\* not done, put the current G on done_waiters and suspend with the lock.
LockAndPark(t) ==
  /\ ownPc[t] = "lock" /\ doneLock = NULL
  /\ IF SeenDone(t)
       THEN /\ ownPc' = [ownPc EXCEPT ![t] = "ready"]
            /\ UNCHANGED <<waiter, doneLock>>
       ELSE /\ waiter' = [waiter EXCEPT ![t] = TRUE]
            /\ doneLock' = <<"own", t>>
            /\ ownPc' = [ownPc EXCEPT ![t] = "suspended"]
  /\ UNCHANGED <<shape, exitPc, done, toWake, memory>>

\* sched_loop's release_park_mutex.
Release(t) ==
  /\ ownPc[t] = "suspended"
  /\ doneLock' = NULL
  /\ ownPc' = [ownPc EXCEPT ![t] = "parked"]
  /\ UNCHANGED <<shape, exitPc, done, waiter, toWake, memory>>

\* emitTaskAwaitLoadFree, task.ready: a panicked task hands its message to
\* promise_panic and frees the G; otherwise load the result, free both.
Await(t) ==
  /\ ownPc[t] = "ready" /\ how[t] = "await"
  /\ buf' = [buf EXCEPT ![t] =
               IF panicked[t] = 0 /\ kind[t] = "value" THEN "freed" ELSE @]
  /\ frees' = [frees EXCEPT ![t] = @ + 1]
  /\ ownPc' = [ownPc EXCEPT ![t] = "gone"]
  /\ UNCHANGED <<shape, exitPc, done, waiter, toWake, doneLock, panicked, msg>>

\* The message to free: only one that was copied to the heap.
DroppedMsg_Faulty(t) == IF panicked[t] = 0 THEN msg[t] ELSE "freed"
DroppedMsg(t) == IF panicked[t] = 2 THEN "freed" ELSE msg[t]

\* free_after_done: the buffer, a message on the heap, the G.
Drop(t) ==
  /\ ownPc[t] = "ready" /\ how[t] = "drop"
  /\ buf' = [buf EXCEPT ![t] = IF kind[t] = "value" THEN "freed" ELSE @]
  /\ msg' = [msg EXCEPT ![t] = DroppedMsg(t)]
  /\ frees' = [frees EXCEPT ![t] = @ + 1]
  /\ ownPc' = [ownPc EXCEPT ![t] = "gone"]
  /\ UNCHANGED <<shape, exitPc, done, waiter, toWake, doneLock, panicked>>
-----------------------------------------------------------------------------
Exit(t) ==
  \/ ExitLock(t) \/ SetDone(t) \/ TakeWaiters(t) \/ WakeAndUnlock(t)
  \/ ExitFree(t)

Body(t) == BodyReturns(t) \/ \E m \in {"static", "heap"} : BodyPanics(t, m)

Own(t) ==
  \/ FastCheck(t) \/ Poll(t) \/ LockAndPark(t) \/ Release(t)
  \/ Await(t) \/ Drop(t)

Next == \E t \in Tasks : Body(t) \/ Exit(t) \/ Own(t)

Spec == Init /\ [][Next]_vars

\* The scheduler runs every goroutine that is not parked (Sched), and the
\* bodies return or panic.  Each party takes done_lock at most once, so weak
\* fairness is enough to get it.
FairSpec ==
  /\ Spec
  /\ \A t \in Tasks :
       WF_vars(Body(t)) /\ WF_vars(Exit(t)) /\ WF_vars(Own(t))
-----------------------------------------------------------------------------
ExitPCs == {"body", "exit", "locked", "stored", "taken", "unlocked", "gone"}
OwnPCs == {"has", "poll", "lock", "suspended", "parked", "ready", "gone"}

\* The fields keep their types; a G struct is freed at most once.
TypeOK ==
  /\ kind \in [Tasks -> Kinds]
  /\ how \in [Tasks -> Uses]
  /\ coro \in [Tasks -> BOOLEAN]
  /\ exitPc \in [Tasks -> ExitPCs]
  /\ ownPc \in [Tasks -> OwnPCs]
  /\ done \in [Tasks -> BOOLEAN]
  /\ waiter \in [Tasks -> BOOLEAN]
  /\ toWake \in [Tasks -> BOOLEAN]
  /\ doneLock \in ({"exit", "own"} \X Tasks) \cup {NULL}
  /\ buf \in [Tasks -> {"none", "raw", "written", "freed"}]
  /\ panicked \in [Tasks -> {0, 1, 2}]
  /\ msg \in [Tasks -> {"none", "static", "heap", "freed"}]
  /\ frees \in [Tasks -> {0, 1}]

\* The owner goes on only when the task is done, and then what it is about to
\* load was stored: a written result buffer or a panic message.
ResultReady ==
  \A t \in Tasks : ownPc[t] = "ready" =>
    /\ done[t] /\ frees[t] = 0
    /\ IF panicked[t] = 0
         THEN kind[t] = "value" => buf[t] = "written"
         ELSE msg[t] = IF panicked[t] = 2 THEN "heap" ELSE "static"

\* An owner that suspends or is parked will be woken: goroutine_exit has yet
\* to take done_waiters, or has taken them and not yet woken the owner.
OwnerNotStranded ==
  \A t \in Tasks : ownPc[t] \in {"suspended", "parked"} =>
    \/ waiter[t] /\ exitPc[t] \in {"body", "exit", "locked", "stored"}
    \/ toWake[t] /\ exitPc[t] = "taken"

\* When the goroutine and the owner are through, the G struct has been freed,
\* once, by the one of them whose job it was, and a dropped handle has left
\* neither its buffer nor a message on the heap; a static message is not freed.
Reclaimed ==
  \A t \in Tasks : exitPc[t] = "gone" /\ ownPc[t] = "gone" =>
    /\ frees[t] = 1
    /\ msg[t] = "freed" => panicked[t] = 2
    /\ how[t] = "drop" \/ kind[t] = "detached" =>
         buf[t] \in {"none", "freed"} /\ msg[t] # "heap"

\* Every consumer of a handle gets through, whether it parks or polls and
\* however many other tasks contend for done_lock.
OwnerGetsThrough ==
  \A t \in Tasks : ownPc[t] # "gone" ~> ownPc[t] = "gone"

\* goroutine_exit's comments: "the receiver may free the G struct as soon as
\* done_lock is released", not before.
FreedAfterUnlock ==
  \A t \in Tasks : frees[t] > 0 => exitPc[t] \in {"unlocked", "gone"}
=============================================================================
