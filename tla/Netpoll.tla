------------------------------ MODULE Netpoll ------------------------------
(***************************************************************************)
(* The network poller: PollDescs, the reactor thread, deadlines and cancel *)
(* handles (codegen/netpoll.go, codegen/netpoll_deadline.go), driven by    *)
(* the blocking socket operations of modules/net/net.pr.                   *)
(*                                                                         *)
(* A stream's operations take the stream exclusively, so a PollDesc has    *)
(* one owner that reads, writes and closes one after the other; the        *)
(* reactor thread and the cancel handles run beside it.  The kernel's      *)
(* readiness is level-triggered.  A critical section that takes one lock   *)
(* and none inside it is one step; a section during which others can be    *)
(* seen waiting (the park, cancel, an event, the scan) is several.         *)
(***************************************************************************)
EXTENDS Integers, FiniteSets

CONSTANTS PDs,        \* PollDescs, one for each socket ever opened
          Handles,    \* cancel handles
          HandleOf,   \* the PollDesc a handle belongs to
          MaxTime,    \* the clock's bound
          Reactor,    \* the poller thread
          NULL

ASSUME NetpollAssumption ==
  /\ HandleOf \in [Handles -> PDs]
  /\ IsFiniteSet(Handles)
  /\ MaxTime \in Nat \ {0}
  /\ NULL \notin PDs \cup Handles \cup {Reactor}
  /\ NULL \notin {"G", "thread"}
  /\ Reactor \notin PDs \cup Handles
  /\ PDs \cap Handles = {}

Dirs == {"read", "write"}
Reasons == {"ready", "timeout", "cancelled"}

\* 0 is "no deadline"; the clock starts at 1.
Times == 1 .. MaxTime
Deadlines == 0 .. MaxTime

VARIABLES
  alloc,      \* PollDescs that are allocated
  fd,         \* pd.fd: "none" before open, "open", or "closed" (-1)
  slot,       \* pd.read_g, pd.write_g: NULL, "G" or "thread" (the sentinel)
  plock,      \* the holder of pd.lock
  deadline,   \* pd.deadline[dir]
  reason,     \* pd.reason[dir]
  linked,     \* the deadline registry: the PollDescs on the list
  refcount,   \* pd.refcount
  cancelled,  \* pd.cancelled
  batch,      \* the holder of the batch lock
  registry,   \* the holder of the registry lock
  opc,        \* where the owner is in its operation
  odir,       \* the direction of its operation
  odl,        \* the deadline of its operation
  hpc,        \* where a handle is
  rpc,        \* where the reactor is
  events,     \* the event buffer: what is left of the last poll
  cur,        \* the event's PollDesc
  todo,       \* the part of the registry the scan has not walked
  rnow,       \* the clock as the scan read it
  ready,      \* the kernel: the directions that would not block
  now,        \* the monotonic clock
  down        \* sched.shutdown

pdVars == <<alloc, fd, slot, plock, deadline, reason, linked, refcount, cancelled>>
lockVars == <<batch, registry>>
ownerVars == <<opc, odir, odl>>
rxVars == <<rpc, events, cur, todo, rnow>>
envVars == <<ready, now, down>>
vars == <<pdVars, lockVars, ownerVars, hpc, rxVars, envVars>>

\* "parked" is a goroutine suspended in its park, "blocked" a thread in cond_wait.
OwnerStates == {"none", "idle", "check", "arm", "link", "wait", "suspending",
                "parked", "blocked", "runnable", "signalled", "reason", "closing",
                "unref", "gone"}

TypeOK ==
  /\ alloc \subseteq PDs
  /\ fd \in [PDs -> {"none", "open", "closed"}]
  /\ slot \in [PDs -> [Dirs -> {NULL, "G", "thread"}]]
  /\ plock \in [PDs -> {NULL, Reactor} \cup PDs \cup Handles]
  /\ deadline \in [PDs -> [Dirs -> Deadlines]]
  /\ reason \in [PDs -> [Dirs -> Reasons]]
  /\ linked \subseteq PDs
  /\ refcount \in [PDs -> Nat]
  /\ cancelled \in [PDs -> BOOLEAN]
  /\ batch \in {NULL, Reactor}
  /\ registry \in {NULL, Reactor} \cup Handles
  /\ opc \in [PDs -> OwnerStates]
  /\ odir \in [PDs -> Dirs]
  /\ odl \in [PDs -> Deadlines]
  /\ hpc \in [Handles -> {"none", "live", "cancel", "inside", "dropped"}]
  /\ rpc \in {"loop", "events", "next", "scan", "walk", "exited"}
  /\ events \subseteq [pd : PDs, dirs : SUBSET Dirs]
  /\ cur \in PDs \cup {NULL}
  /\ todo \subseteq PDs
  /\ rnow \in Times
  /\ ready \in [PDs -> SUBSET Dirs]
  /\ now \in Times
  /\ down \in BOOLEAN

Init ==
  /\ alloc = {}
  /\ fd = [p \in PDs |-> "none"]
  /\ slot = [p \in PDs |-> [d \in Dirs |-> NULL]]
  /\ plock = [p \in PDs |-> NULL]
  /\ deadline = [p \in PDs |-> [d \in Dirs |-> 0]]
  /\ reason = [p \in PDs |-> [d \in Dirs |-> "ready"]]
  /\ linked = {}
  /\ refcount = [p \in PDs |-> 0]
  /\ cancelled = [p \in PDs |-> FALSE]
  /\ batch = NULL
  /\ registry = NULL
  /\ opc = [p \in PDs |-> "none"]
  /\ odir = [p \in PDs |-> "read"]
  /\ odl = [p \in PDs |-> 0]
  /\ hpc = [h \in Handles |-> "none"]
  /\ rpc = "loop"
  /\ events = {}
  /\ cur = NULL
  /\ todo = {}
  /\ rnow = 1
  /\ ready = [p \in PDs |-> {}]
  /\ now = 1
  /\ down = FALSE

-----------------------------------------------------------------------------
(* Waking a waiter.                                                         *)

\* The waiters in the directions D of p.
Waiting(p, D) == {d \in D : slot[p][d] # NULL}

\* emitNetpollWakeSlot for the directions D: the slot is cleared, the reason
\* recorded (a readiness wake stores none) and the owner enqueued or signalled.
WakeSlots(p, D, why) ==
  LET hit == Waiting(p, D)
  IN /\ slot' = [slot EXCEPT ![p] = [d \in Dirs |-> IF d \in hit THEN NULL ELSE @[d]]]
     /\ reason' = [reason EXCEPT ![p] =
          [d \in Dirs |-> IF d \in hit /\ why # "ready" THEN why ELSE @[d]]]
     /\ opc' = [opc EXCEPT ![p] = IF hit = {} THEN @
                                  ELSE IF @ = "blocked" THEN "signalled" ELSE "runnable"]

-----------------------------------------------------------------------------
(* The owner of a PollDesc.                                                 *)

\* promise_netpoll_open: a fresh PollDesc, the socket's reference, and the
\* registration with the reactor.
Open(p) ==
  /\ opc[p] = "none"
  /\ alloc' = alloc \cup {p}
  /\ fd' = [fd EXCEPT ![p] = "open"]
  /\ refcount' = [refcount EXCEPT ![p] = 1]
  /\ opc' = [opc EXCEPT ![p] = "idle"]
  /\ UNCHANGED <<slot, plock, deadline, reason, linked, cancelled, lockVars,
                 odir, odl, hpc, rxVars, envVars>>

\* The system call succeeds at once and uses the readiness up.
Transfer(p, d) ==
  /\ opc[p] = "idle"
  /\ d \in ready[p]
  /\ ready' = [ready EXCEPT ![p] = @ \ {d}]
  /\ UNCHANGED <<pdVars, lockVars, ownerVars, hpc, rxVars, now, down>>

\* read, write, accept and connect: the call would block, so the owner enters
\* _park_ready with the deadline of the direction.
WouldBlock(p, d, dl) ==
  /\ opc[p] = "idle"
  /\ d \notin ready[p]
  /\ opc' = [opc EXCEPT ![p] = "check"]
  /\ odir' = [odir EXCEPT ![p] = d]
  /\ odl' = [odl EXCEPT ![p] = dl]
  /\ UNCHANGED <<pdVars, lockVars, hpc, rxVars, envVars>>

\* The operation returns or raises; its locals are gone.
Return(p) ==
  /\ opc' = [opc EXCEPT ![p] = "idle"]
  /\ odir' = [odir EXCEPT ![p] = "read"]
  /\ odl' = [odl EXCEPT ![p] = 0]

\* _park_ready's early returns: cancelled, or the deadline has passed.
Check(p) ==
  /\ opc[p] = "check"
  /\ plock[p] = NULL
  /\ IF cancelled[p] \/ (odl[p] # 0 /\ now >= odl[p])
     THEN Return(p)
     ELSE opc' = [opc EXCEPT ![p] = "arm"] /\ UNCHANGED <<odir, odl>>
  /\ UNCHANGED <<pdVars, lockVars, hpc, rxVars, envVars>>

Arm_Faulty(p) ==
  /\ opc[p] = "arm"
  /\ plock[p] = NULL
  /\ deadline' = [deadline EXCEPT ![p][odir[p]] = odl[p]]
  /\ opc' = [opc EXCEPT ![p] = IF odl[p] # 0 THEN "link" ELSE "wait"]
  /\ UNCHANGED <<alloc, fd, slot, plock, reason, linked, refcount, cancelled,
                 lockVars, odir, odl, hpc, rxVars, envVars>>

\* promise_netpoll_arm, its section under pd.lock.
Arm(p) ==
  /\ opc[p] = "arm"
  /\ plock[p] = NULL
  /\ deadline' = [deadline EXCEPT ![p][odir[p]] = odl[p]]
  /\ reason' = [reason EXCEPT ![p][odir[p]] = "ready"]
  /\ opc' = [opc EXCEPT ![p] = IF odl[p] # 0 THEN "link" ELSE "wait"]
  /\ UNCHANGED <<alloc, fd, slot, plock, linked, refcount, cancelled, lockVars,
                 odir, odl, hpc, rxVars, envVars>>

\* promise_netpoll_arm, its section under the registry lock.
Link(p) ==
  /\ opc[p] = "link"
  /\ registry = NULL
  /\ linked' = linked \cup {p}
  /\ opc' = [opc EXCEPT ![p] = "wait"]
  /\ UNCHANGED <<alloc, fd, slot, plock, deadline, reason, refcount, cancelled,
                 lockVars, odir, odl, hpc, rxVars, envVars>>

WaitG_Faulty(p) ==
  /\ opc[p] = "wait"
  /\ plock[p] = NULL
  /\ slot' = [slot EXCEPT ![p][odir[p]] = "G"]
  /\ opc' = [opc EXCEPT ![p] = "suspending"]
  /\ UNCHANGED <<alloc, fd, plock, deadline, reason, linked, refcount, cancelled,
                 lockVars, odir, odl, hpc, rxVars, envVars>>

\* genNetpollWait in a goroutine: the G is published and pd.lock is left to the
\* scheduler as the park mutex.
WaitG(p) ==
  /\ opc[p] = "wait"
  /\ plock[p] = NULL
  /\ slot' = [slot EXCEPT ![p][odir[p]] = "G"]
  /\ plock' = [plock EXCEPT ![p] = p]
  /\ opc' = [opc EXCEPT ![p] = "suspending"]
  /\ UNCHANGED <<alloc, fd, deadline, reason, linked, refcount, cancelled,
                 lockVars, odir, odl, hpc, rxVars, envVars>>

\* genNetpollWait in thread-blocking mode: cond_wait releases pd.lock.
WaitThread(p) ==
  /\ opc[p] = "wait"
  /\ plock[p] = NULL
  /\ slot' = [slot EXCEPT ![p][odir[p]] = "thread"]
  /\ opc' = [opc EXCEPT ![p] = "blocked"]
  /\ UNCHANGED <<alloc, fd, plock, deadline, reason, linked, refcount, cancelled,
                 lockVars, odir, odl, hpc, rxVars, envVars>>

\* The scheduler has switched away from the G and releases its park mutex.
Suspended(p) ==
  /\ opc[p] = "suspending"
  /\ plock' = [plock EXCEPT ![p] = NULL]
  /\ opc' = [opc EXCEPT ![p] = "parked"]
  /\ UNCHANGED <<alloc, fd, slot, deadline, reason, linked, refcount, cancelled,
                 lockVars, odir, odl, hpc, rxVars, envVars>>

\* The G runs again.
ResumeG(p) ==
  /\ opc[p] = "runnable"
  /\ opc' = [opc EXCEPT ![p] = "reason"]
  /\ UNCHANGED <<pdVars, lockVars, odir, odl, hpc, rxVars, envVars>>

\* cond_wait returns with pd.lock, and the sentinel is cleared.
FromCondWait(p) ==
  /\ plock[p] = NULL
  /\ slot' = [slot EXCEPT ![p][odir[p]] = NULL]
  /\ opc' = [opc EXCEPT ![p] = "reason"]
  /\ UNCHANGED <<alloc, fd, plock, deadline, reason, linked, refcount, cancelled,
                 lockVars, odir, odl, hpc, rxVars, envVars>>

ResumeThread(p) == opc[p] = "signalled" /\ FromCondWait(p)

\* A condition variable may wake without a signal.
SpuriousWake(p) == opc[p] = "blocked" /\ FromCondWait(p)

\* promise_netpoll_wake_reason: ready retries the system call, which succeeds
\* or parks again; any other reason is raised and ends the operation.
WakeReason(p) ==
  /\ opc[p] = "reason"
  /\ plock[p] = NULL
  /\ \/ /\ reason[p][odir[p]] = "ready"
        /\ odir[p] \notin ready[p]
        /\ opc' = [opc EXCEPT ![p] = "check"]
        /\ UNCHANGED <<odir, odl, ready>>
     \/ /\ reason[p][odir[p]] = "ready"
        /\ odir[p] \in ready[p]
        /\ ready' = [ready EXCEPT ![p] = @ \ {odir[p]}]
        /\ Return(p)
     \/ /\ reason[p][odir[p]] # "ready"
        /\ Return(p)
        /\ UNCHANGED ready
  /\ UNCHANGED <<pdVars, lockVars, hpc, rxVars, now, down>>

\* promise_netpoll_close, its section under pd.lock: out of the reactor, both
\* slots woken, fd = -1, both deadlines cleared.
Close(p) ==
  /\ opc[p] = "idle"
  /\ plock[p] = NULL
  /\ slot' = [slot EXCEPT ![p] = [d \in Dirs |-> NULL]]
  /\ reason' = [reason EXCEPT ![p] =
       [d \in Dirs |-> IF d \in Waiting(p, Dirs) THEN "cancelled" ELSE @[d]]]
  /\ fd' = [fd EXCEPT ![p] = "closed"]
  /\ deadline' = [deadline EXCEPT ![p] = [d \in Dirs |-> 0]]
  /\ opc' = [opc EXCEPT ![p] = "closing"]
  /\ UNCHANGED <<alloc, plock, linked, refcount, cancelled, lockVars, odir, odl,
                 hpc, rxVars, envVars>>

DrainBatch_Faulty(p) ==
  /\ opc[p] = "closing"
  /\ opc' = [opc EXCEPT ![p] = "unref"]
  /\ UNCHANGED <<pdVars, lockVars, odir, odl, hpc, rxVars, envVars>>

\* ... then the batch lock is taken and released, which waits for the events
\* of the poll in progress.
DrainBatch(p) ==
  /\ opc[p] = "closing"
  /\ batch = NULL
  /\ opc' = [opc EXCEPT ![p] = "unref"]
  /\ UNCHANGED <<pdVars, lockVars, odir, odl, hpc, rxVars, envVars>>

\* promise_netpoll_unref: the last reference unlinks and frees the PollDesc.
Unref(p) ==
  /\ registry = NULL
  /\ plock[p] = NULL
  /\ refcount' = [refcount EXCEPT ![p] = @ - 1]
  /\ IF refcount[p] - 1 > 0
     THEN UNCHANGED <<alloc, linked>>
     ELSE /\ alloc' = alloc \ {p}
          /\ linked' = linked \ {p}
  /\ UNCHANGED <<fd, slot, plock, deadline, reason, cancelled, lockVars>>

\* ... and the socket's reference is dropped.
CloseUnref(p) ==
  /\ opc[p] = "unref"
  /\ Unref(p)
  /\ opc' = [opc EXCEPT ![p] = "gone"]
  /\ UNCHANGED <<odir, odl, hpc, rxVars, envVars>>

-----------------------------------------------------------------------------
(* Cancel handles.                                                          *)

\* create_cancel_handle and promise_netpoll_ref.
Ref(h) ==
  LET p == HandleOf[h]
  IN /\ hpc[h] = "none"
     /\ opc[p] = "idle"
     /\ registry = NULL
     /\ plock[p] = NULL
     /\ refcount' = [refcount EXCEPT ![p] = @ + 1]
     /\ hpc' = [hpc EXCEPT ![h] = "live"]
     /\ UNCHANGED <<alloc, fd, slot, plock, deadline, reason, linked, cancelled,
                    lockVars, ownerVars, rxVars, envVars>>

\* promise_netpoll_cancel takes the registry lock ...
CancelRegistry(h) ==
  /\ hpc[h] = "live"
  /\ registry = NULL
  /\ registry' = h
  /\ hpc' = [hpc EXCEPT ![h] = "cancel"]
  /\ UNCHANGED <<pdVars, batch, ownerVars, rxVars, envVars>>

\* ... then pd.lock: the sticky flag, both waiters, the registry ...
Cancel(h) ==
  LET p == HandleOf[h]
  IN /\ hpc[h] = "cancel"
     /\ plock[p] = NULL
     /\ plock' = [plock EXCEPT ![p] = h]
     /\ cancelled' = [cancelled EXCEPT ![p] = TRUE]
     /\ WakeSlots(p, Dirs, "cancelled")
     /\ linked' = linked \cup {p}
     /\ hpc' = [hpc EXCEPT ![h] = "inside"]
     /\ UNCHANGED <<alloc, fd, deadline, refcount, lockVars, odir, odl, rxVars,
                    envVars>>

CancelLeave_Faulty(h) ==
  /\ hpc[h] = "inside"
  /\ plock' = [plock EXCEPT ![HandleOf[h]] = NULL]
  /\ hpc' = [hpc EXCEPT ![h] = "live"]
  /\ UNCHANGED <<alloc, fd, slot, deadline, reason, linked, refcount, cancelled,
                 lockVars, ownerVars, rxVars, envVars>>

\* ... and releases both.
CancelLeave(h) ==
  /\ hpc[h] = "inside"
  /\ plock' = [plock EXCEPT ![HandleOf[h]] = NULL]
  /\ registry' = NULL
  /\ hpc' = [hpc EXCEPT ![h] = "live"]
  /\ UNCHANGED <<alloc, fd, slot, deadline, reason, linked, refcount, cancelled,
                 batch, ownerVars, rxVars, envVars>>

\* CancelHandle.drop.
DropHandle(h) ==
  /\ hpc[h] = "live"
  /\ Unref(HandleOf[h])
  /\ hpc' = [hpc EXCEPT ![h] = "dropped"]
  /\ UNCHANGED <<ownerVars, rxVars, envVars>>

-----------------------------------------------------------------------------
(* The reactor thread: promise_netpoll_loop.                                *)

\* The batch lock, and the poll under it: every registered descriptor that is
\* ready in some direction.  The buffer holds pointers to PollDescs.
Poll ==
  /\ rpc = "loop"
  /\ ~down
  /\ batch = NULL
  /\ batch' = Reactor
  /\ events' = {e \in [pd : PDs, dirs : SUBSET Dirs] :
                  fd[e.pd] = "open" /\ e.dirs = ready[e.pd] /\ e.dirs # {}}
  /\ rpc' = "events"
  /\ UNCHANGED <<pdVars, registry, ownerVars, hpc, cur, todo, rnow, envVars>>

\* One event, under pd.lock: its waiters are woken, unless the PollDesc is
\* closed, which releases pd.lock at once (closed_skip).
Event(e) ==
  /\ rpc = "events"
  /\ e \in events
  /\ plock[e.pd] = NULL
  /\ events' = events \ {e}
  /\ cur' = e.pd
  /\ rpc' = "next"
  /\ IF fd[e.pd] = "closed"
     THEN UNCHANGED <<plock, slot, reason, opc>>
     ELSE /\ plock' = [plock EXCEPT ![e.pd] = Reactor]
          /\ WakeSlots(e.pd, e.dirs, "ready")
  /\ UNCHANGED <<alloc, fd, deadline, linked, refcount, cancelled, lockVars,
                 odir, odl, hpc, todo, rnow, envVars>>

\* event_next: pd.lock is released on every path, by whomever it is held.
EventNext ==
  /\ rpc = "next"
  /\ plock' = [plock EXCEPT ![cur] = NULL]
  /\ rpc' = "events"
  /\ cur' = NULL
  /\ UNCHANGED <<alloc, fd, slot, deadline, reason, linked, refcount, cancelled,
                 lockVars, ownerVars, hpc, events, todo, rnow, envVars>>

\* promise_netpoll_scan_deadlines reads the clock ...
ScanNow ==
  /\ rpc = "events"
  /\ events = {}
  /\ rnow' = now
  /\ rpc' = "scan"
  /\ UNCHANGED <<pdVars, lockVars, ownerVars, hpc, events, cur, todo, envVars>>

\* ... takes the registry lock ...
ScanLock ==
  /\ rpc = "scan"
  /\ registry = NULL
  /\ registry' = Reactor
  /\ todo' = linked
  /\ rpc' = "walk"
  /\ UNCHANGED <<pdVars, batch, ownerVars, hpc, events, cur, rnow, envVars>>

Expired(p) == {d \in Dirs : deadline[p][d] # 0 /\ deadline[p][d] <= rnow}

ScanOne_Faulty(p) ==
  /\ rpc = "walk"
  /\ p \in todo
  /\ plock[p] = NULL
  /\ todo' = todo \ {p}
  /\ IF cancelled[p] THEN WakeSlots(p, Dirs, "cancelled")
                     ELSE WakeSlots(p, Expired(p), "timeout")
  /\ deadline' = [deadline EXCEPT ![p] =
       [d \in Dirs |-> IF d \in Expired(p) THEN 0 ELSE @[d]]]
  /\ linked' = IF cancelled[p] \/ \E d \in Dirs : deadline'[p][d] # 0
               THEN linked ELSE linked \ {p}
  /\ UNCHANGED <<alloc, fd, plock, refcount, cancelled, lockVars, odir,
                 odl, hpc, rpc, events, cur, rnow, envVars>>

\* ... walks the list: cancellation before expiry, an expired deadline stays
\* armed, and a PollDesc with neither is unlinked ...
ScanOne(p) ==
  /\ rpc = "walk"
  /\ p \in todo
  /\ plock[p] = NULL
  /\ todo' = todo \ {p}
  /\ IF cancelled[p] THEN WakeSlots(p, Dirs, "cancelled")
                     ELSE WakeSlots(p, Expired(p), "timeout")
  /\ linked' = IF cancelled[p] \/ \E d \in Dirs : deadline[p][d] # 0
               THEN linked ELSE linked \ {p}
  /\ UNCHANGED <<alloc, fd, plock, deadline, refcount, cancelled, lockVars, odir,
                 odl, hpc, rpc, events, cur, rnow, envVars>>

\* ... and releases the registry lock and the batch lock.
ScanDone ==
  /\ rpc = "walk"
  /\ todo = {}
  /\ registry' = NULL
  /\ batch' = NULL
  /\ rpc' = "loop"
  /\ rnow' = 1
  /\ UNCHANGED <<pdVars, ownerVars, hpc, events, cur, todo, envVars>>

ReactorExit ==
  /\ rpc = "loop"
  /\ down
  /\ rpc' = "exited"
  /\ UNCHANGED <<pdVars, lockVars, ownerVars, hpc, events, cur, todo, rnow, envVars>>

-----------------------------------------------------------------------------
(* The environment.                                                         *)

BecomeReady(p, d) ==
  /\ fd[p] = "open"
  /\ d \notin ready[p]
  /\ ready' = [ready EXCEPT ![p] = @ \cup {d}]
  /\ UNCHANGED <<pdVars, lockVars, ownerVars, hpc, rxVars, now, down>>

Tick ==
  /\ now < MaxTime
  /\ now' = now + 1
  /\ UNCHANGED <<pdVars, lockVars, ownerVars, hpc, rxVars, ready, down>>

\* promise_sched_shutdown asks the reactor to stop.
Shutdown ==
  /\ ~down
  /\ down' = TRUE
  /\ UNCHANGED <<pdVars, lockVars, ownerVars, hpc, rxVars, ready, now>>

-----------------------------------------------------------------------------
\* What an owner does once it has begun an operation.
OwnerStep(p) ==
  \/ Check(p) \/ Arm(p) \/ Link(p)
  \/ WaitG(p) \/ Suspended(p) \/ ResumeG(p)
  \/ WaitThread(p) \/ ResumeThread(p)
  \/ WakeReason(p)
  \/ DrainBatch(p) \/ CloseUnref(p)

OwnerBegins(p) ==
  \/ Open(p)
  \/ \E d \in Dirs : Transfer(p, d)
  \/ \E d \in Dirs, dl \in Deadlines : WouldBlock(p, d, dl)
  \/ Close(p)
  \/ SpuriousWake(p)

HandleStep(h) == Cancel(h) \/ CancelLeave(h)
HandleBegins(h) == Ref(h) \/ CancelRegistry(h) \/ DropHandle(h)

ReactorStep ==
  \/ Poll
  \/ \E e \in events : Event(e)
  \/ EventNext \/ ScanNow \/ ScanLock
  \/ \E p \in todo : ScanOne(p)
  \/ ScanDone \/ ReactorExit

Environment ==
  \/ \E p \in PDs, d \in Dirs : BecomeReady(p, d)
  \/ Tick
  \/ Shutdown

Next ==
  \/ \E p \in PDs : OwnerStep(p) \/ OwnerBegins(p)
  \/ \E h \in Handles : HandleStep(h) \/ HandleBegins(h)
  \/ ReactorStep
  \/ Environment

Spec == Init /\ [][Next]_vars

(* The kernel schedules every thread, a released lock is not for ever taken *)
(* by others (the reactor sleeps between its turns), and time passes.       *)
FairSpec ==
  /\ Spec
  /\ \A p \in PDs : SF_vars(OwnerStep(p))
  /\ \A h \in Handles : SF_vars(HandleStep(h))
  /\ SF_vars(ReactorStep)
  /\ WF_vars(Tick)

-----------------------------------------------------------------------------
(* Properties.                                                              *)

Parked(p) == opc[p] \in {"suspending", "parked", "blocked"}

\* No PollDesc is freed while somebody still has its address: its owner before
\* the socket's reference is dropped, a live cancel handle, the event buffer,
\* the event in hand, the deadline registry or the walk over it.
NoUseAfterFree ==
  /\ \A p \in PDs : opc[p] \notin {"none", "gone"} => p \in alloc
  /\ \A h \in Handles : hpc[h] \notin {"none", "dropped"} => HandleOf[h] \in alloc
  /\ \A e \in events : e.pd \in alloc
  /\ cur # NULL => cur \in alloc
  /\ linked \cup todo \subseteq alloc

\* A parked waiter with a deadline, or on a cancelled socket, is on the list
\* the scan walks, with the deadline of its own operation: no interleaving of
\* arm's two sections with the scan, the cancel or another wake loses it.
WatchedWhileParked ==
  \A p \in PDs : Parked(p) =>
    /\ cancelled[p] \/ odl[p] # 0 => p \in linked
    /\ deadline[p][odir[p]] = odl[p]

\* The reason _park_ready returns is the truth: a timeout is raised only after
\* the operation's own deadline, a cancellation only on a cancelled socket.
ReasonIsTrue ==
  \A p \in PDs : opc[p] \in {"runnable", "signalled", "reason"} =>
    /\ reason[p][odir[p]] = "timeout" => odl[p] # 0 /\ now >= odl[p]
    /\ reason[p][odir[p]] = "cancelled" => cancelled[p]

\* pd.lock guards the waiter slots and the flags: as long as the socket is open,
\* no interleaving of the park, the scan, a cancel and an event releases another's
\* lock.  On a closed one event_next's second unlock may release a cancel's.
OpenLockGuards ==
  \A p \in PDs :
    /\ opc[p] = "suspending" => plock[p] = p
    /\ fd[p] = "open" =>
         \A h \in Handles : hpc[h] = "inside" /\ HandleOf[h] = p => plock[p] = h

\* While the reactor runs, a waiter with a deadline, on a cancelled socket or
\* on a ready descriptor does not stay parked, and a close comes to its end.
ParkedIsWoken ==
  \A p \in PDs :
    /\ (Parked(p) /\ (odl[p] # 0 \/ cancelled[p])) ~> (~Parked(p) \/ down)
    /\ (Parked(p) /\ odir[p] \in ready[p]) ~> (~Parked(p) \/ down)
    /\ opc[p] = "closing" ~> opc[p] = "gone"
=============================================================================
