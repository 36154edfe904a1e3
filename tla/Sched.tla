------------------------------- MODULE Sched -------------------------------
(***************************************************************************)
(* The native M:N scheduler that the Promise compiler emits into every      *)
(* program (compiler/internal/codegen/sched.go): goroutines G run on OS     *)
(* threads M, and an M needs a processor P to look for work.                *)
(*                                                                         *)
(* One action is one critical section of the emitted code, or one access   *)
(* to state that the code shares without a lock.  A lock that is taken and *)
(* released inside one action (P.lock, global_lock, idle_lock, an M's      *)
(* park_mutex) needs no variable; done_lock and the mutex a goroutine      *)
(* parks on are held across a coroutine suspension and are variables.      *)
(*                                                                         *)
(* Gs run arbitrary code: the actions of section "What a running G does"   *)
(* are the calls into the runtime that emitted code can make.              *)
(***************************************************************************)
EXTENDS Integers, Sequences, FiniteSets

CONSTANTS
  Gs,        \* goroutines the program can ever create
  MainG,     \* G0, the goroutine that runs main()
  NumP,      \* sched.num_p, the number of processors
  MaxM,      \* schedMaxM, the cap on OS threads
  RqCap,     \* pRunQueueSize, slots in a P's ring
  FairTick,  \* every FairTick-th tick looks at the global queue first (61)
  Ops,       \* the kinds of runtime calls the program's goroutines make
  Monitor,   \* whether the run includes the sysmon thread's 10ms rounds
  Sysmon, Reactor, MainThread,  \* the OS threads that are not Ms
  NULL, POP  \* no value; a wake_m call that has not popped an M yet

Ps == 0 .. NumP - 1
Ms == 0 .. MaxM - 1
Threads == Ms \cup {Sysmon, Reactor, MainThread}
AllOps == {"spawn", "park", "join", "yield", "syscall"}

ASSUME SchedAssumption ==
  /\ MainG \in Gs
  /\ NumP \in Nat \ {0}
  /\ MaxM \in Nat /\ MaxM >= NumP
  /\ RqCap \in Nat \ {0}
  /\ FairTick \in Nat \ {0}
  /\ Ops \subseteq AllOps
  /\ Monitor \in BOOLEAN
  /\ Gs \cap Int = {} /\ {"event", "done"} \cap (Gs \cup {NULL}) = {}
  /\ NULL \notin Gs \cup Int /\ POP \notin Int /\ POP # NULL
  /\ Sysmon \notin Int /\ Reactor \notin Int /\ MainThread \notin Int
  /\ Sysmon # Reactor /\ Reactor # MainThread /\ Sysmon # MainThread

VARIABLES
  gq,        \* the global run queue
  rq,        \* rq[p]: the local ring of P
  tick,      \* tick[p]: P.schedtick, kept modulo FairTick
  curG,      \* curG[p]: P.current_g, what sysmon reads
  pc,        \* pc[m]: where the thread of M is
  mp,        \* mp[m]: the P that M holds (also while M is on the idle stack)
  hp,        \* hp[m]: the P that M has detached and not yet handed to startm
  cur,       \* cur[m]: the goroutine M runs (thread-local current_g)
  scan,      \* scan[m]: the loop counter of find_runnable's steal phase
  spin,      \* spin[m]: M.spinning, the "deliberately woken" flag
  idle,      \* the idle stack (Ms that wait holding a P), head first
  spare,     \* the spare stack (Ms that wait without a P), head first
  waking,    \* waking[t]: NULL, POP, or the M that t popped and will signal
  allM,      \* the all-M list
  gs,        \* gs[g]: "new" (not created), "live", "done", "dead"
  waitOn,    \* waitOn[g]: NULL, "event", or the G whose done_waiters hold g
  parkMutex, \* parkMutex[g]: G.park_mutex: NULL, "event" or "done"
  evHeld,    \* evHeld[g]: the mutex of the list g waits on is held by g
  doneLock,  \* the G or M that holds sched.done_lock, or NULL
  preempt,   \* preempt[g]: G.preempt
  smP, smG,  \* sysmon: its loop counter and the G it has just loaded
  mainDone,  \* sched.main_done
  shutdown,  \* sched.shutdown
  mainPc,    \* where the initial thread is
  snap,      \* the Ms shutdown found on the all-M list
  toSignal   \* those of them it has not signalled yet

queues == <<gq, rq>>
stacks == <<idle, spare>>
thread == <<pc, mp, hp, cur, scan, spin>>
gvars == <<gs, waitOn, parkMutex, evHeld, doneLock, preempt>>
smvars == <<smP, smG>>
mainvars == <<mainDone, shutdown, mainPc, snap, toSignal>>
vars == <<gq, rq, tick, curG, pc, mp, hp, cur, scan, spin, idle, spare,
          waking, allM, gs, waitOn, parkMutex, evHeld, doneLock, preempt,
          smP, smG, mainDone, shutdown, mainPc, snap, toSignal>>

\* g_new allocates with malloc and does not store G.preempt: a goroutine
\* starts with whatever the memory held.  Only loop back-edges read it.
Uninit == IF "yield" \in Ops THEN BOOLEAN ELSE {FALSE}

PCs == {"off", "loop", "gfirst", "local", "global", "steal", "park",
        "parked", "parkchk", "spare", "spared", "sparechk", "run", "startm",
        "suspended", "unlock", "released", "reenqueue",
        "exit", "exitwake", "exitfree", "exited"}
-----------------------------------------------------------------------------
(* sched_init gives M i the P i and starts one thread per P; the entry      *)
(* point then creates G0 and enqueues it from the initial thread, which     *)
(* has no P.                                                                *)
Init ==
  /\ gq = <<MainG>>
  /\ rq = [p \in Ps |-> <<>>]
  /\ tick = [p \in Ps |-> 0]
  /\ curG = [p \in Ps |-> NULL]
  /\ pc = [m \in Ms |-> IF m < NumP THEN "loop" ELSE "off"]
  /\ mp = [m \in Ms |-> IF m < NumP THEN m ELSE NULL]
  /\ hp = [m \in Ms |-> NULL]
  /\ cur = [m \in Ms |-> NULL]
  /\ scan = [m \in Ms |-> 0]
  /\ spin = [m \in Ms |-> FALSE]
  /\ idle = <<>> /\ spare = <<>>
  /\ waking = [t \in Threads |-> IF t = MainThread THEN POP ELSE NULL]
  /\ allM = {m \in Ms : m < NumP}
  /\ gs = [g \in Gs |-> IF g = MainG THEN "live" ELSE "new"]
  /\ waitOn = [g \in Gs |-> NULL]
  /\ parkMutex = [g \in Gs |-> NULL]
  /\ evHeld = [g \in Gs |-> FALSE]
  /\ doneLock = NULL
  /\ preempt \in {[g \in Gs |-> b /\ g = MainG] : b \in Uninit}
  /\ smP = 0 /\ smG = NULL
  /\ mainDone = FALSE /\ shutdown = FALSE
  /\ mainPc = "wait" /\ snap = {} /\ toSignal = {}
-----------------------------------------------------------------------------
(* Definitions whose name ends in _Faulty are deliberately wrong variants   *)
(* of the definition that follows them; nothing uses them.  Each is a bug   *)
(* that the code's comments or its issue numbers show was near.             *)

\* local_enqueue's test for a free slot.
HasRoom_Faulty(p) == Len(rq[p]) <= RqCap
HasRoom(p) == Len(rq[p]) < RqCap

(* sched_enqueue: into the caller's own ring when it has a P and the ring   *)
(* has room (local_enqueue), otherwise at the tail of the global queue; in  *)
(* both cases the call then goes on to wake_m.                              *)
Enqueue(t, p, g) ==
  /\ IF p # NULL /\ HasRoom(p)
       THEN rq' = [rq EXCEPT ![p] = Append(@, g)] /\ UNCHANGED gq
       ELSE gq' = Append(gq, g) /\ UNCHANGED rq
  /\ waking' = [waking EXCEPT ![t] = POP]

\* The idle_lock section of wake_m: pop the head of the idle stack, if any.
WakePop(t) ==
  /\ waking[t] = POP
  /\ IF idle = <<>>
       THEN waking' = [waking EXCEPT ![t] = NULL] /\ UNCHANGED idle
       ELSE /\ waking' = [waking EXCEPT ![t] = Head(idle)]
            /\ idle' = Tail(idle)
  /\ UNCHANGED <<gq, rq, tick, curG, pc, mp, hp, cur, scan, spin, spare, allM,
                 gvars, smvars, mainvars>>

\* What a signal on M.park_cond does to M: a waiting M goes back to test the
\* condition of its wait loop, any other M is unaffected.
Signalled(m) ==
  CASE pc[m] = "parked" -> "parkchk"
    [] pc[m] = "spared" -> "sparechk"
    [] OTHER -> pc[m]

\* The park_mutex section of wake_m, and of startm when it reuses a spare.
WakeSignal(t) ==
  /\ waking[t] \in Ms
  /\ spin' = [spin EXCEPT ![waking[t]] = TRUE]
  /\ pc' = [pc EXCEPT ![waking[t]] = Signalled(waking[t])]
  /\ waking' = [waking EXCEPT ![t] = NULL]
  /\ UNCHANGED <<queues, tick, curG, mp, hp, cur, scan, stacks, allM, gvars,
                 smvars, mainvars>>

\* Thread t is between two calls, not inside wake_m or startm.
Free(t) == waking[t] = NULL
-----------------------------------------------------------------------------
(* The loop of an M: sched_loop, find_runnable, park_m, park_spare.         *)

\* find_runnable's test whether this tick looks at the global queue first.
GlobalTurn_Faulty(n) == FALSE
GlobalTurn(n) == n = 0

\* The top of sched_loop; an M with a P enters find_runnable, which first
\* advances the P's tick.
Loop(m) ==
  /\ pc[m] = "loop" /\ Free(m)
  /\ cur' = [cur EXCEPT ![m] = NULL]
  /\ \/ /\ shutdown
        /\ pc' = [pc EXCEPT ![m] = "exited"]
        /\ UNCHANGED tick
     \/ /\ ~shutdown /\ mp[m] = NULL
        /\ pc' = [pc EXCEPT ![m] = "spare"]
        /\ UNCHANGED tick
     \/ /\ ~shutdown /\ mp[m] # NULL
        /\ tick' = [tick EXCEPT ![mp[m]] = (@ + 1) % FairTick]
        /\ pc' = [pc EXCEPT ![m] =
                    IF GlobalTurn(tick'[mp[m]]) THEN "gfirst" ELSE "local"]
  /\ UNCHANGED <<queues, curG, mp, hp, scan, spin, stacks, waking, allM, gvars,
                 smvars, mainvars>>

\* sched_loop's run_g: M starts to run g on its P.
Dispatch(m, g) ==
  /\ cur' = [cur EXCEPT ![m] = g]
  /\ curG' = [curG EXCEPT ![mp[m]] = g]
  /\ tick' = [tick EXCEPT ![mp[m]] = (@ + 1) % FairTick]
  /\ pc' = [pc EXCEPT ![m] = "run"]

\* Where find_runnable goes when try_global finds nothing.
AfterGlobal_Faulty(c) == "steal"
AfterGlobal(c) == IF c = "gfirst" THEN "local" ELSE "steal"

\* find_runnable, try_global.
TakeGlobal(m) ==
  /\ pc[m] \in {"gfirst", "global"}
  /\ \/ /\ gq # <<>>
        /\ gq' = Tail(gq)
        /\ Dispatch(m, Head(gq))
        /\ UNCHANGED scan
     \/ /\ gq = <<>>
        /\ pc' = [pc EXCEPT ![m] = AfterGlobal(pc[m])]
        /\ scan' = [scan EXCEPT ![m] = 0]
        /\ UNCHANGED <<gq, cur, curG, tick>>
  /\ UNCHANGED <<rq, mp, hp, spin, stacks, waking, allM, gvars, smvars,
                 mainvars>>

\* find_runnable, check_local (local_dequeue).
TakeLocal(m) ==
  /\ pc[m] = "local"
  /\ \/ /\ rq[mp[m]] # <<>>
        /\ rq' = [rq EXCEPT ![mp[m]] = Tail(@)]
        /\ Dispatch(m, Head(rq[mp[m]]))
     \/ /\ rq[mp[m]] = <<>>
        /\ pc' = [pc EXCEPT ![m] = "global"]
        /\ UNCHANGED <<rq, cur, curG, tick>>
  /\ UNCHANGED <<gq, mp, hp, scan, spin, stacks, waking, allM, gvars, smvars,
                 mainvars>>

\* steal_work takes half of the victim's ring, at least one G.
StealCount(n) == IF n \div 2 > 1 THEN n \div 2 ELSE 1

\* What steal_work leaves in the victim's ring when it takes k Gs.
Left_Faulty(s, k) == SubSeq(s, k, Len(s))
Left(s, k) == SubSeq(s, k + 1, Len(s))

\* One iteration of find_runnable's steal loop.  steal_work holds the locks
\* of both Ps; the first stolen G is run, the others go to the thief's ring
\* without a test for room.
Steal(m) ==
  LET p == mp[m]
      v == scan[m]
      k == StealCount(Len(rq[v]))
  IN
  /\ pc[m] = "steal"
  /\ \/ /\ v = NumP
        /\ pc' = [pc EXCEPT ![m] = "park"]
        /\ scan' = [scan EXCEPT ![m] = 0]
        /\ UNCHANGED <<rq, cur, curG, tick>>
     \/ /\ v < NumP /\ (v = p \/ rq[v] = <<>>)
        /\ scan' = [scan EXCEPT ![m] = v + 1]
        /\ UNCHANGED <<rq, cur, curG, tick, pc>>
     \/ /\ v < NumP /\ v # p /\ rq[v] # <<>>
        /\ rq' = [rq EXCEPT ![v] = Left(rq[v], k),
                            ![p] = rq[p] \o SubSeq(rq[v], 2, k)]
        /\ Dispatch(m, Head(rq[v]))
        /\ scan' = [scan EXCEPT ![m] = 0]
  /\ UNCHANGED <<gq, mp, hp, spin, stacks, waking, allM, gvars, smvars,
                 mainvars>>

(* park_m and park_spare hold the M's park_mutex from before the push to    *)
(* pal_cond_wait, so no signal can come between: the push, the tests and    *)
(* the start of the wait are one action.                                    *)

\* park_m's look at global_size under idle_lock (T0375).
WorkAppeared_Faulty == FALSE
WorkAppeared == gq # <<>>

\* park_m: push M on the idle stack, look at global_size once more and take
\* the push back if it is not 0; wait unless shutdown has begun.
ParkM(m) ==
  /\ pc[m] = "park"
  /\ spin' = [spin EXCEPT ![m] = FALSE]
  /\ IF WorkAppeared
       THEN pc' = [pc EXCEPT ![m] = "loop"] /\ UNCHANGED idle
       ELSE /\ pc' = [pc EXCEPT ![m] = IF shutdown THEN "loop" ELSE "parked"]
            /\ idle' = <<m>> \o idle
  /\ UNCHANGED <<queues, tick, curG, mp, hp, cur, scan, spare, waking, allM,
                 gvars, smvars, mainvars>>

\* park_spare: push M on the spare stack and wait unless shutdown has begun.
ParkSpare(m) ==
  /\ pc[m] = "spare"
  /\ spin' = [spin EXCEPT ![m] = FALSE]
  /\ spare' = <<m>> \o spare
  /\ pc' = [pc EXCEPT ![m] = IF shutdown THEN "loop" ELSE "spared"]
  /\ UNCHANGED <<queues, tick, curG, mp, hp, cur, scan, idle, waking, allM,
                 gvars, smvars, mainvars>>

\* The condition that ends a wait loop; the faulty forms trust any return of
\* pal_cond_wait, and forget the shutdown flag.
Woken_Faulty(m) == TRUE
WokenOnlyBySpin_Faulty(m) == spin[m]
Woken(m) == spin[m] \/ shutdown

\* The wait loops of park_m and park_spare: leave when deliberately woken or
\* at shutdown, otherwise back to pal_cond_wait.
WaitCheck(m) ==
  /\ pc[m] \in {"parkchk", "sparechk"}
  /\ pc' = [pc EXCEPT ![m] =
              IF Woken(m) THEN "loop" ELSE IF @ = "parkchk" THEN "parked" ELSE "spared"]
  /\ UNCHANGED <<queues, tick, curG, mp, hp, cur, scan, spin, stacks, waking,
                 allM, gvars, smvars, mainvars>>

\* POSIX lets pal_cond_wait return without a signal.
SpuriousWakeup(m) ==
  /\ pc[m] \in {"parked", "spared"}
  /\ pc' = [pc EXCEPT ![m] = Signalled(m)]
  /\ UNCHANGED <<queues, tick, curG, mp, hp, cur, scan, spin, stacks, waking,
                 allM, gvars, smvars, mainvars>>
-----------------------------------------------------------------------------
(* What a running G does.  Gs choose freely among Ops.                      *)

Running(m) == pc[m] = "run" /\ Free(m)

\* go / task creation: g_new followed by sched_enqueue.
Spawn(m, g) ==
  /\ Running(m) /\ "spawn" \in Ops
  /\ gs[g] = "new"
  /\ gs' = [gs EXCEPT ![g] = "live"]
  /\ \E b \in Uninit : preempt' = [preempt EXCEPT ![g] = b]
  /\ Enqueue(m, mp[m], g)
  /\ UNCHANGED <<tick, curG, thread, stacks, allM, waitOn, parkMutex, evHeld,
                 doneLock, smvars, mainvars>>

\* A G waits for a channel, a Mutex or a descriptor: under that object's own
\* mutex it puts itself on the waiter list, stores the mutex in G.park_mutex
\* and suspends still holding it.
ParkEvent(m) ==
  LET g == cur[m] IN
  /\ Running(m) /\ "park" \in Ops
  /\ waitOn' = [waitOn EXCEPT ![g] = "event"]
  /\ parkMutex' = [parkMutex EXCEPT ![g] = "event"]
  /\ evHeld' = [evHeld EXCEPT ![g] = TRUE]
  /\ pc' = [pc EXCEPT ![m] = "suspended"]
  /\ UNCHANGED <<queues, tick, curG, mp, hp, cur, scan, spin, stacks, waking,
                 allM, gs, doneLock, preempt, smvars, mainvars>>

\* Thread t takes g off the waiter list, which needs the object's mutex, and
\* calls sched_enqueue; p is the P of t, or NULL.
Wake(t, p, g) ==
  /\ waitOn[g] = "event" /\ ~evHeld[g]
  /\ waitOn' = [waitOn EXCEPT ![g] = NULL]
  /\ Enqueue(t, p, g)
  /\ UNCHANGED <<tick, curG, thread, stacks, allM, gs, parkMutex, evHeld,
                 doneLock, preempt, smvars, mainvars>>

\* A running G completes what g waits for (a send, a receive, an unlock).
Unpark(m, g) == Running(m) /\ Wake(m, mp[m], g)

\* The reactor thread does; it is joined before shutdown frees anything.
ReactorUnpark(g) ==
  /\ Free(Reactor) /\ "park" \in Ops /\ ~shutdown
  /\ Wake(Reactor, NULL, g)

\* The awaiter's test, under done_lock, that t is not done.
NotDone(t) == gs[t] = "live"

\* Awaiting task t: under done_lock, suspend on t's done_waiters if t is not
\* done (emitCoroTaskParkSuspendWait); a done task is read without a step.
\* A task has one owner, so it has at most one awaiter.
Join(m, t) ==
  LET g == cur[m] IN
  /\ Running(m) /\ "join" \in Ops
  /\ t \notin {g, MainG} /\ \A w \in Gs : waitOn[w] # t
  /\ doneLock = NULL /\ NotDone(t)
  /\ doneLock' = g
  /\ waitOn' = [waitOn EXCEPT ![g] = t]
  /\ parkMutex' = [parkMutex EXCEPT ![g] = "done"]
  /\ pc' = [pc EXCEPT ![m] = "suspended"]
  /\ UNCHANGED <<queues, tick, curG, mp, hp, cur, scan, spin, stacks, waking,
                 allM, gs, evHeld, preempt, smvars, mainvars>>

\* A G that enqueues itself before it suspends.
Yield_Faulty(m) ==
  /\ Running(m) /\ "yield" \in Ops
  /\ preempt[cur[m]]
  /\ preempt' = [preempt EXCEPT ![cur[m]] = FALSE]
  /\ pc' = [pc EXCEPT ![m] = "suspended"]
  /\ Enqueue(m, mp[m], cur[m])
  /\ UNCHANGED <<tick, curG, mp, hp, cur, scan, spin, stacks, allM, gs, waitOn,
                 parkMutex, evHeld, doneLock, smvars, mainvars>>

\* emitYieldCheck at a loop back-edge: G.preempt is set, so clear and suspend.
Yield(m) ==
  /\ Running(m) /\ "yield" \in Ops
  /\ preempt[cur[m]]
  /\ preempt' = [preempt EXCEPT ![cur[m]] = FALSE]
  /\ pc' = [pc EXCEPT ![m] = "suspended"]
  /\ UNCHANGED <<queues, tick, curG, mp, hp, cur, scan, spin, stacks, waking,
                 allM, gs, waitOn, parkMutex, evHeld, doneLock, smvars,
                 mainvars>>

\* M.p = null; before T1685 M.p was never cleared.
DetachP_Faulty(m) == UNCHANGED mp
DetachP(m) == mp' = [mp EXCEPT ![m] = NULL]

\* enter_syscall on an M that has a P: detach the P and call startm.  On a
\* P-less M it does nothing, and exit_syscall never finds a P to restore.
EnterSyscall(m) ==
  /\ Running(m) /\ "syscall" \in Ops
  /\ mp[m] # NULL
  /\ curG' = [curG EXCEPT ![mp[m]] = NULL]
  /\ hp' = [hp EXCEPT ![m] = mp[m]]
  /\ DetachP(m)
  /\ pc' = [pc EXCEPT ![m] = "startm"]
  /\ UNCHANGED <<queues, tick, cur, scan, spin, stacks, waking, allM, gvars,
                 smvars, mainvars>>

\* startm's signal to the spare M s it has popped.
SignalSpare_Faulty(m, s) == UNCHANGED waking
SignalSpare(m, s) == waking' = [waking EXCEPT ![m] = s]

\* The idle_lock section of startm: hand the P to a spare M (the signal is
\* WakeSignal's), else to a new M, else - schedMaxM reached - to nobody.  The
\* G then blocks in the kernel and returns: it goes on running without a P.
StartM(m) ==
  /\ pc[m] = "startm"
  /\ hp' = [hp EXCEPT ![m] = NULL]
  /\ \/ /\ spare # <<>>
        /\ spare' = Tail(spare)
        /\ mp' = [mp EXCEPT ![Head(spare)] = hp[m]]
        /\ SignalSpare(m, Head(spare))
        /\ pc' = [pc EXCEPT ![m] = "run"]
        /\ UNCHANGED allM
     \/ /\ spare = <<>> /\ allM # Ms
        /\ \E n \in Ms \ allM :
             /\ allM' = allM \cup {n}
             /\ mp' = [mp EXCEPT ![n] = hp[m]]
             /\ pc' = [pc EXCEPT ![m] = "run", ![n] = "loop"]
        /\ UNCHANGED <<spare, waking>>
     \/ /\ spare = <<>> /\ allM = Ms
        /\ pc' = [pc EXCEPT ![m] = "run"]
        /\ UNCHANGED <<spare, mp, waking, allM>>
  /\ UNCHANGED <<queues, tick, curG, cur, scan, spin, idle, gvars, smvars,
                 mainvars>>
-----------------------------------------------------------------------------
(* sched_loop after coro.resume returns.                                    *)

\* emitClearPCurrentGIfPresent, and a path of sched_loop that forgets it.
ClearCurG_Faulty(m) == UNCHANGED curG
ClearCurG(m) ==
  curG' = IF mp[m] # NULL THEN [curG EXCEPT ![mp[m]] = NULL] ELSE curG

\* The order before B0249: unlock the mutex, then clear the field.
ReleaseParkMutex_Faulty(m) ==
  LET g == cur[m] IN
  /\ \/ /\ pc[m] = "suspended" /\ parkMutex[g] # NULL
        /\ IF doneLock = g
             THEN doneLock' = NULL /\ UNCHANGED evHeld
             ELSE evHeld' = [evHeld EXCEPT ![g] = FALSE] /\ UNCHANGED doneLock
        /\ pc' = [pc EXCEPT ![m] = "unlock"]
        /\ UNCHANGED parkMutex
     \/ /\ pc[m] = "unlock"
        /\ parkMutex' = [parkMutex EXCEPT ![g] = NULL]
        /\ pc' = [pc EXCEPT ![m] = "released"]
        /\ UNCHANGED <<evHeld, doneLock>>
  /\ UNCHANGED <<queues, tick, curG, mp, hp, cur, scan, spin, stacks, waking,
                 allM, gs, waitOn, preempt, smvars, mainvars>>

\* release_park_mutex: the G suspended with a park_mutex; clear the field,
\* then unlock the mutex.
ReleaseParkMutex(m) ==
  LET g == cur[m] IN
  /\ \/ /\ pc[m] = "suspended" /\ parkMutex[g] # NULL
        /\ parkMutex' = [parkMutex EXCEPT ![g] = NULL]
        /\ pc' = [pc EXCEPT ![m] = "unlock"]
        /\ UNCHANGED <<evHeld, doneLock>>
     \/ /\ pc[m] = "unlock"
        /\ IF doneLock = g
             THEN doneLock' = NULL /\ UNCHANGED evHeld
             ELSE evHeld' = [evHeld EXCEPT ![g] = FALSE] /\ UNCHANGED doneLock
        /\ pc' = [pc EXCEPT ![m] = "released"]
        /\ UNCHANGED parkMutex
  /\ UNCHANGED <<queues, tick, curG, mp, hp, cur, scan, spin, stacks, waking,
                 allM, gs, waitOn, preempt, smvars, mainvars>>

\* after_release
AfterRelease(m) ==
  /\ pc[m] = "released"
  /\ ClearCurG(m)
  /\ pc' = [pc EXCEPT ![m] = "loop"]
  /\ UNCHANGED <<queues, tick, mp, hp, cur, scan, spin, stacks, waking, allM,
                 gvars, smvars, mainvars>>

\* yield_reenqueue: the G suspended without a park_mutex.
YieldReenqueue(m) ==
  /\ \/ /\ pc[m] = "suspended" /\ parkMutex[cur[m]] = NULL
        /\ ClearCurG(m)
        /\ pc' = [pc EXCEPT ![m] = "reenqueue"]
        /\ UNCHANGED <<queues, waking>>
     \/ /\ pc[m] = "reenqueue"
        /\ Enqueue(m, mp[m], cur[m])
        /\ pc' = [pc EXCEPT ![m] = "loop"]
        /\ UNCHANGED curG
  /\ UNCHANGED <<tick, mp, hp, cur, scan, spin, stacks, allM, gvars, smvars,
                 mainvars>>

\* coro_done: the G's function has returned or panicked.
Complete(m) ==
  /\ Running(m)
  /\ ClearCurG(m)
  /\ pc' = [pc EXCEPT ![m] = "exit"]
  /\ UNCHANGED <<queues, tick, mp, hp, cur, scan, spin, stacks, waking, allM,
                 gvars, smvars, mainvars>>

\* goroutine_exit: under done_lock set G.done, then enqueue every waiter,
\* then unlock; last, signal main_done for G0.
ExitLock(m) ==
  /\ pc[m] = "exit" /\ doneLock = NULL
  /\ doneLock' = m
  /\ gs' = [gs EXCEPT ![cur[m]] = "done"]
  /\ pc' = [pc EXCEPT ![m] = "exitwake"]
  /\ UNCHANGED <<queues, tick, curG, mp, hp, cur, scan, spin, stacks, waking,
                 allM, waitOn, parkMutex, evHeld, preempt, smvars, mainvars>>

ExitWake(m, w) ==
  /\ pc[m] = "exitwake" /\ Free(m)
  /\ waitOn[w] = cur[m]
  /\ waitOn' = [waitOn EXCEPT ![w] = NULL]
  /\ Enqueue(m, mp[m], w)
  /\ UNCHANGED <<tick, curG, thread, stacks, allM, gs, parkMutex, evHeld,
                 doneLock, preempt, smvars, mainvars>>

ExitUnlock(m) ==
  /\ pc[m] = "exitwake" /\ Free(m)
  /\ \A w \in Gs : waitOn[w] # cur[m]
  /\ doneLock' = NULL
  /\ pc' = [pc EXCEPT ![m] = "exitfree"]
  /\ UNCHANGED <<queues, tick, curG, mp, hp, cur, scan, spin, stacks, waking,
                 allM, gs, waitOn, parkMutex, evHeld, preempt, smvars,
                 mainvars>>

ExitFree(m) ==
  /\ pc[m] = "exitfree"
  /\ gs' = [gs EXCEPT ![cur[m]] = "dead"]
  /\ mainDone' = (mainDone \/ cur[m] = MainG)
  /\ pc' = [pc EXCEPT ![m] = "loop"]
  /\ UNCHANGED <<queues, tick, curG, mp, hp, cur, scan, spin, stacks, waking,
                 allM, waitOn, parkMutex, evHeld, doneLock, preempt, smvars,
                 shutdown, mainPc, snap, toSignal>>
-----------------------------------------------------------------------------
(* sysmon: every 10ms, for each P load current_g and, in a second step,     *)
(* store G.preempt; then wake an idle M if the global queue is not empty.   *)

SysmonLoad ==
  /\ Monitor /\ Free(Sysmon)
  /\ smP < NumP /\ smG = NULL
  /\ smP = 0 => ~shutdown
  /\ IF curG[smP] # NULL
       THEN smG' = curG[smP] /\ UNCHANGED smP
       ELSE smP' = smP + 1 /\ UNCHANGED smG
  /\ UNCHANGED <<queues, tick, curG, thread, stacks, waking, allM, gvars,
                 mainvars>>

SysmonStore ==
  /\ smG # NULL
  /\ preempt' = [preempt EXCEPT ![smG] = TRUE]
  /\ smP' = smP + 1
  /\ smG' = NULL
  /\ UNCHANGED <<queues, tick, curG, thread, stacks, waking, allM, gs, waitOn,
                 parkMutex, evHeld, doneLock, mainvars>>

SysmonWake ==
  /\ smP = NumP
  /\ waking' = IF gq # <<>> THEN [waking EXCEPT ![Sysmon] = POP] ELSE waking
  /\ smP' = 0
  /\ UNCHANGED <<queues, tick, curG, thread, stacks, allM, gvars, smG,
                 mainvars>>

\* The monitor thread is at the shutdown test of its loop and will exit.
SysmonIdle == smP = 0 /\ smG = NULL /\ Free(Sysmon)
-----------------------------------------------------------------------------
(* The initial thread: run_until_main, then sched_shutdown.                 *)

MainShutdown ==
  /\ mainPc = "wait" /\ Free(MainThread) /\ mainDone
  /\ shutdown' = TRUE
  /\ mainPc' = "snapshot"
  /\ UNCHANGED <<queues, tick, curG, thread, stacks, waking, allM, gvars,
                 smvars, mainDone, snap, toSignal>>

\* The head of the all-M list is loaded once, without idle_lock; the three
\* walks below all start from it.
MainSnapshot ==
  /\ mainPc = "snapshot"
  /\ snap' = allM /\ toSignal' = allM
  /\ mainPc' = "signal"
  /\ UNCHANGED <<queues, tick, curG, thread, stacks, waking, allM, gvars,
                 smvars, mainDone, shutdown>>

MainSignal(m) ==
  /\ mainPc = "signal" /\ m \in toSignal
  /\ pc' = [pc EXCEPT ![m] = Signalled(m)]
  /\ toSignal' = toSignal \ {m}
  /\ UNCHANGED <<queues, tick, curG, mp, hp, cur, scan, spin, stacks, waking,
                 allM, gvars, smvars, mainDone, shutdown, mainPc, snap>>

\* Join every M of the snapshot, sysmon and the reactor, then destroy the
\* locks and free the Ms and the P array.
MainJoin ==
  /\ mainPc = "signal" /\ toSignal = {}
  /\ \A m \in snap : pc[m] = "exited"
  /\ SysmonIdle /\ Free(Reactor)
  /\ mainPc' = "freed"
  /\ UNCHANGED <<queues, tick, curG, thread, stacks, waking, allM, gvars,
                 smvars, mainDone, shutdown, snap, toSignal>>
-----------------------------------------------------------------------------
\* The steps of M's thread that the runtime itself decides on.
MStep(m) ==
  \/ Loop(m) \/ TakeGlobal(m) \/ TakeLocal(m) \/ Steal(m)
  \/ ParkM(m) \/ ParkSpare(m) \/ WaitCheck(m) \/ StartM(m)
  \/ ReleaseParkMutex(m) \/ AfterRelease(m) \/ YieldReenqueue(m)
  \/ ExitLock(m) \/ ExitUnlock(m) \/ ExitFree(m)
  \/ \E w \in Gs : ExitWake(m, w)

\* The steps of the program that runs on M.
GStep(m) ==
  \/ ParkEvent(m) \/ Yield(m) \/ EnterSyscall(m) \/ Complete(m)
  \/ \E g \in Gs : Spawn(m, g) \/ Unpark(m, g) \/ Join(m, g)

WakerStep(t) == WakePop(t) \/ WakeSignal(t)

SysmonStep == SysmonLoad \/ SysmonStore \/ SysmonWake

MainStep ==
  \/ MainShutdown \/ MainSnapshot \/ MainJoin
  \/ \E m \in Ms : MainSignal(m)

Next ==
  \/ \E m \in Ms : MStep(m) \/ GStep(m) \/ SpuriousWakeup(m)
  \/ \E t \in Threads : WakerStep(t)
  \/ \E g \in Gs : ReactorUnpark(g)
  \/ SysmonStep \/ MainStep

Spec == Init /\ [][Next]_vars

(* The operating system runs every thread; a G that loops reaches its next  *)
(* back-edge.  What a G does otherwise, and when, is up to the program.     *)
ThreadFairness ==
  /\ \A m \in Ms : WF_vars(MStep(m)) /\ WF_vars(Yield(m))
  /\ \A t \in Threads : WF_vars(WakerStep(t))
  /\ WF_vars(SysmonStep) /\ WF_vars(MainStep)

FairSpec == Spec /\ ThreadFairness

\* In addition, the program's goroutines do not run for ever.
TerminatingSpec == FairSpec /\ \A m \in Ms : WF_vars(Complete(m))
-----------------------------------------------------------------------------
(* Properties                                                               *)

QueueTypes == gq \in Seq(Gs) /\ rq \in [Ps -> Seq(Gs)]

ProcTypes ==
  tick \in [Ps -> 0 .. FairTick - 1] /\ curG \in [Ps -> Gs \cup {NULL}]

ThreadTypes ==
  /\ pc \in [Ms -> PCs]
  /\ mp \in [Ms -> Ps \cup {NULL}] /\ hp \in [Ms -> Ps \cup {NULL}]
  /\ cur \in [Ms -> Gs \cup {NULL}]
  /\ scan \in [Ms -> 0 .. NumP]
  /\ spin \in [Ms -> BOOLEAN]

StackTypes ==
  /\ idle \in Seq(Ms) /\ spare \in Seq(Ms)
  /\ waking \in [Threads -> Ms \cup {NULL, POP}]
  /\ allM \subseteq Ms

GTypes ==
  /\ gs \in [Gs -> {"new", "live", "done", "dead"}]
  /\ waitOn \in [Gs -> Gs \cup {NULL, "event"}]
  /\ parkMutex \in [Gs -> {NULL, "event", "done"}]
  /\ evHeld \in [Gs -> BOOLEAN]
  /\ doneLock \in Gs \cup Ms \cup {NULL}
  /\ preempt \in [Gs -> BOOLEAN]

SysmonTypes == smP \in 0 .. NumP /\ smG \in Gs \cup {NULL}

MainTypes ==
  /\ mainDone \in BOOLEAN /\ shutdown \in BOOLEAN
  /\ mainPc \in {"wait", "snapshot", "signal", "freed"}
  /\ snap \subseteq Ms /\ toSignal \subseteq snap

\* Every variable keeps the shape of the structure of sched.go it stands for.
TypeOK ==
  /\ QueueTypes /\ ProcTypes /\ ThreadTypes
  /\ StackTypes /\ GTypes /\ SysmonTypes /\ MainTypes

\* Where, and how often, x occurs in the sequence s.
Spots(s, x) == {i \in DOMAIN s : s[i] = x}
Count(s, x) == Cardinality(Spots(s, x))

\* M's thread executes g, or has not yet let go of it.
Holds(m, g) ==
  /\ cur[m] = g
  /\ pc[m] \in {"run", "startm", "suspended", "unlock", "reenqueue", "exit",
               "exitwake", "exitfree"}

\* The slots of the rings that hold g.
Slots(g) == UNION {{p} \X Spots(rq[p], g) : p \in Ps}

Places(g) ==
  Count(gq, g) + Cardinality({m \in Ms : Holds(m, g)}) + Cardinality(Slots(g))
    + (IF waitOn[g] # NULL /\ \A m \in Ms : ~Holds(m, g) THEN 1 ELSE 0)

\* No goroutine is lost and none can be resumed twice or before its
\* coro.suspend has completed: one that was created and has not been freed is
\* in exactly one run queue, on exactly one M or on a waiter list (steal_work,
\* sched_enqueue, the park protocol of sched_loop with its clear-then-unlock
\* order, goroutine_exit).
GInOnePlace ==
  \A g \in Gs : Places(g) = IF gs[g] \in {"live", "done"} THEN 1 ELSE 0

OwnersOf(p) == {m \in Ms : mp[m] = p} \cup {m \in Ms : hp[m] = p}

\* Every P has exactly one owner, an M or a startm call in progress: two Ms
\* never schedule from one P.  A P may lose its M only at the cap on Ms.
POwnership ==
  \A p \in Ps :
    /\ \A m, n \in Ms : mp[m] = p => hp[n] # p
    /\ \A m, n \in Ms : mp[m] = p /\ mp[n] = p => m = n
    /\ \A m, n \in Ms : hp[m] = p /\ hp[n] = p => m = n
    /\ OwnersOf(p) = {} => allM = Ms

\* M is in find_runnable or park_m, which use M.p without a test for null.
Searching == {"gfirst", "local", "global", "steal", "park", "parked",
              "parkchk"}

\* An M and its P agree, through any sequence of hand-offs.  An M that looks
\* for work has a P, and so has a spare M once the flag that ends its wait is
\* set: startm assigns the P before it signals.  P.current_g, through which
\* sysmon marks goroutines for preemption, names the G that the P's own M
\* executes: not one that a thread without a P took along into a blocking
\* call, and not one that has completed.
MAndPAgree ==
  /\ \A m \in Ms :
       /\ pc[m] \in Searching => mp[m] # NULL
       /\ pc[m] \in {"spared", "sparechk"} /\ spin[m] => mp[m] # NULL
  /\ \A p \in Ps :
       curG[p] # NULL => \E m \in Ms : mp[m] = p /\ cur[m] = curG[p]

NoRepeat(s) == \A i, j \in DOMAIN s : s[i] = s[j] => i = j
Elems(s) == {s[i] : i \in DOMAIN s}

\* The two intrusive stacks share the link field M.p, so an M that is pushed
\* twice or sits on both would corrupt them.  Until shutdown an M is on a
\* stack only while it waits there, the idle ones own a P and the spare ones
\* do not, and the flag that ends the wait is set only after the pop.
StackDiscipline ==
  /\ NoRepeat(idle) /\ NoRepeat(spare)
  /\ Elems(idle) \cap Elems(spare) = {}
  /\ \A m \in Elems(idle) \cup Elems(spare) : ~spin[m]
  /\ ~shutdown =>
       /\ \A m \in Elems(idle) :
            pc[m] \in {"parked", "parkchk"} /\ mp[m] # NULL
       /\ \A m \in Elems(spare) :
            pc[m] \in {"spared", "sparechk"} /\ mp[m] = NULL

\* Waking an M takes two critical sections, a pop under idle_lock and a signal
\* under the M's own mutex, in wake_m and in startm alike.  An M that waits
\* off the stacks, where nobody would find it again, still gets its signal.
PoppedIsSignalled ==
  ~shutdown => \A m \in Ms :
    pc[m] \in {"parked", "spared"} /\ m \notin Elems(idle) \cup Elems(spare) =>
      \E t \in Threads : waking[t] = m

\* M was popped from the idle stack and has not yet looked at the global
\* queue; its own ring is empty, so it will.
WillLookAtGlobal(m) ==
  /\ pc[m] \in {"parked", "parkchk", "loop", "gfirst", "local", "global"}
  /\ m \notin Elems(idle)
  /\ mp[m] # NULL /\ rq[mp[m]] = <<>>

\* No wakeup is lost: while an M idles, every goroutine in the global queue
\* is matched by an M on its way to that queue or by a wake_m call under way.
\* Rests on park_m's second look at global_size under idle_lock.
NoLostWakeup ==
  ~shutdown /\ idle # <<>> =>
    Len(gq) <= Cardinality({m \in Ms : WillLookAtGlobal(m)})
               + Cardinality({t \in Threads : waking[t] = POP})

\* Only the M that runs on a P reads its ring without being woken for it: an
\* M never waits on the idle stack while the ring of its own P holds work.
RingWorkHasRunner ==
  ~shutdown => \A m \in Elems(idle) : rq[mp[m]] = <<>>

\* steal_work appends to the thief's ring without the test for room that
\* local_enqueue makes, and still the ring never overwrites a live slot.
RingBounded == \A p \in Ps : Len(rq[p]) <= RqCap

\* What sched_shutdown says it does, "signal and join EVERY M via the all-M
\* list" (sched.go:2347): every M that was ever started has left its loop when
\* the Ms, the locks and the P array are freed.  A blocking call of a
\* goroutine that is still running breaks it: startm adds an M to the list
\* after shutdown has loaded its head.
JoinedBeforeFree ==
  mainPc = "freed" => \A m \in allM : pc[m] = "exited"

Queued(g) ==
  Count(gq, g) > 0 \/ \E p \in Ps : Count(rq[p], g) > 0

\* Every goroutine in a run queue gets to run, whatever the other goroutines
\* do as long as they reach loop back-edges: the 61st-tick look at the global
\* queue, stealing, preemption and the handoff of a P together prevent
\* starvation.
EventuallyRuns ==
  \A g \in Gs : Queued(g) ~> (shutdown \/ \E m \in Ms : Holds(m, g))

\* Once main() has returned, the process gets through sched_shutdown.
ShutdownCompletes == mainDone ~> (mainPc = "freed")
=============================================================================
