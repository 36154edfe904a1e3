# The Promise runtime and its shared stores in TLA+

Promise compiles to native code. The compiler (Go, `compiler/internal`) emits into
every program a runtime of its own: an M:N scheduler, tasks, channels with
`select`, mutexes and a network poller. That runtime is concurrent, lock-based,
written as LLVM IR that Go code builds block by block, and hard to test. The
command line tool, in turn, runs as many processes at a time as the user starts,
all on one tree of blobs, toolchain views and cached objects, and any of them may
be killed. These two are what this project models. Each module was written from the emitting Go code; comments and
documents were used only to find what the code is meant to do.

## 1. Inventory

| Component | State it keeps | Operations | What makes it hard | What makes it correct |
|---|---|---|---|---|
| Native scheduler (`codegen/sched.go`) | global queue, a ring per P, idle and spare stacks of Ms, list of all Ms, per G: done, done_waiters, park_mutex, preempt | enqueue, find_runnable, steal, park_m, wake_m, enter/exit_syscall, startm, park_spare, goroutine_exit, sysmon, shutdown | threads share rings, stacks and flags under six kinds of locks and some without one; condition variables wake spuriously; a suspended goroutine's lock is released by another party | a goroutine is in exactly one place; a P has one owner; no wake-up is lost; nobody starves; shutdown ends |
| Mutex[T] (`expr_handle.go`, `compiler_native_handle.go`) | held, waiter list, condition variable | lock (coroutine or thread), unlock by hand-off or by signal | two kinds of waiters; ownership passes to a goroutine that is not running | exclusion, no lost waiter, arrival order |
| Tasks (`expr_concurrency.go`, `compiler_synthdrop.go`) | G.done, result buffer, panic message, the G struct | body ends, goroutine_exit, await, drop | both sides decide who frees what, with an unlocked look at `done` | results are read after they are written, everything is freed once |
| Channels, select (`expr_handle.go`, `expr_concurrency.go`, `stmt_select.go`) | ring, count, closed, three waiter lists, two condition variables, select nodes | send, receive, close, select | mixed waiters; a select waits on several lists at once and is woken once; several locks at a time | FIFO, no lost wake-up, no lock cycle, no stale node |
| Network poller, deadlines (`netpoll*.go`, `modules/net/net.pr`) | descriptors with waiter slots, deadlines, wake reasons, reference counts; the deadline registry; three kinds of locks | open, arm, wait, wake_reason, close, cancel, ref, unref, the reactor's poll and events, the deadline scan | a deadline fires between arm and park; the reactor holds raw pointers while an owner frees; a handle outlives its socket | nothing freed is used; a wait ends, with the right reason |
| WASM cooperative scheduler (`sched.go`, `sched_wasm_web*.go`) | one queue, reactor deliveries | coop_step, coop_run, drains | nested pumping, deadlock detection | progress or a deadlock verdict |
| Ref[T], Weak[T] (`expr_handle.go`, `compiler_native_handle.go`) | strong_count, weak_count, the value and the allocation | clone, downgrade, upgrade, the two drops | upgrade races the last drop; the last Ref and the last Weak each may be the one that frees; the value may own a Weak of itself | the value is dropped and the memory freed once, after the last user, and always |
| Blob store (`internal/blobstore`), toolchain views (`llvm_cas.go`) | blobs, reference files, staging directories, views; `cache/.lock`, `llvm-view.lock`, sentinels | install, resolve, publish, remove, `doctor --repair` (verify, mark, sweep), `clean -global` | several processes, crashes between any two changes of the disk | no live blob and no directory in use is removed; no deadlock |
| Module and build cache (`internal/module`) | objects and metadata by key, the build directory's lock | save, look up, clean | concurrent builds, a file found early and used late | what was found stays |
| Front end (parser, sema, ownership), sequential code generation, bindings, formatter, CLI, build tools, PAL, standard library | - | - | sequential or pure I/O | not modelled, see section 8 |

The components meet in few places. Everything that blocks in a coroutine ends in
the same protocol: put the current G on a list under a lock, store that lock in
`G.park_mutex`, suspend; `sched_loop` unlocks it afterwards. Everything that
wakes calls `promise_sched_enqueue`. Outside a coroutine, blocking is
`enter_syscall`, `pal_cond_wait`, `exit_syscall`. The tool's processes meet only on
disk and in file locks, which the kernel releases when a process ends.

## 2. Modules

| Module | Models |
|---|---|
| `Sched` | the native scheduler: sched_loop, find_runnable, steal_work, park_m, wake_m, startm, sysmon, goroutine_exit, shutdown |
| `Mutex` | `Mutex[T].lock` and the guard's unlock |
| `Arc` | `Ref[T]` and `Weak[T]`: two counters, a value, an allocation |
| `SharedMutex` | `Ref[Mutex[T]]`, the composition of `Mutex` and `Arc`: locking through a Ref, dropping it, the drop of the Mutex |
| `FifoLock` | what a mutex promises: one holder, coroutines in arrival order |
| `Task` | a task between its goroutine's exit and the owner's await or drop |
| `Channel` | channels, both kinds of callers, select |
| `FifoChannel` | what a channel promises: a bounded FIFO |
| `Netpoll` | PollDescs, the reactor thread, deadlines and cancel handles, driven by net.pr's blocking operations |
| `Stores` | the files and locks that install, remove, `doctor --repair`, `clean -global` and build share |
| `SchedProofs`, `MutexProofs`, `ArcProofs`, `SharedProofs`, `TaskProofs`, `ChannelProofs`, `NetpollProofs`, `StoresProofs` | theorems |
| `MCSched`, `MCMutex`, `MCTask`, `MCChannel`, `MCNetpoll`, `MCStores` | TLC instances |

`Mutex` and `Channel` are shown to implement `FifoLock` and `FifoChannel`
(`INSTANCE ... WITH`, the abstract `Spec` as a property). The interface between
`Sched` and the others is the park protocol: `Sched` has it with abstract events
(`ParkEvent`, `Unpark`, `ReactorUnpark`, `Join`), and the other modules take from `Sched` that a G
that was enqueued runs and that its park mutex is released (pc values
`suspended`, `parked`, `ready`).

### How state and steps correspond

*Granularity.* An action is one critical section of the emitted code, or one
access to shared state that no lock protects. A lock that is taken and released
within an action needs no variable. Those held across a suspension are variables:
`doneLock`, and `evHeld` in `Sched`; `handle` in `Mutex`; `lock` in `Channel`;
`plock`, `batch` and `registry` in `Netpoll`; all file locks in `Stores`.

*Sched.* `pc[m]` is the position of thread M in `sched_loop` and what it calls;
`mp[m]` its P, `hp[m]` the P it carries through `startm`; `waking[t]` says that
thread t is inside `wake_m` (POP: before the pop; an M: before the signal). The
program is arbitrary: a running G may spawn, park, wake another, join, yield,
block or end, as far as `Ops` of the run allows. `schedtick` is kept modulo
`FairTick`; it advances twice per dispatch, in find_runnable and in run_g, which
is why the period (61 in the code) must be odd to come round. A goroutine starts with an
arbitrary `G.preempt`, because `g_new` does not store it. The number of Ps is
fixed for a run. `snap` is what shutdown's single load of the head of the all-M
list gives it.

*Mutex.* Callers are coroutines, which are listed and handed the lock, and
threads, which wait on the condition variable and try again.

*Arc.* `strong` and `weak` are the counters, `refs` and `weaks` the users that own
a Ref or a Weak, `stage[u]` the position of user u between the atomic instructions
of an upgrade or a drop, `seen[u]` what its upgrade has loaded. A user has at most
one Ref and one Weak; a goroutine with several is several users, as nothing in the
code asks who calls. `Inside` stands for a Weak that the value itself keeps, which
the drop of the value drops. The model interleaves the instructions; the code's
additions are relaxed (`AtomicOrderingMonotonic`, `sched.go:213`), so that a
processor that reorders is not covered: no decrement orders the uses of the value
before its drop. The counters of `confined` types and of WASM are plain, and belong
to one thread.

*SharedMutex.* A step is one of `Mutex` by a caller, who needs a Ref of its own to
begin, or one of `Arc`; the value is the Mutex, and its drop is `Mutex[T].drop`. A
caller that waits inside `lock()` does nothing else. Its Ref is not dropped before
its guard: scopes drop in reverse order (`emitScopeCleanup`), and a statement whose
value may hold a guard is not one to drop the Ref early at (`isSafeForEarlyDrop`).
That guards do not leave the scope of the Ref by other ways is the ownership
checker's part and taken for granted.

*Task.* One goroutine and one owner per task; tasks share `done_lock`. The kind
says whether there is a result buffer, a sentinel, or no handle at all; a
failable task keeps an aggregate in the same buffer and is a value task here.

*Channel.* `chan[x]` has the ring (`slots`, `head`, `tail`, `count`), `closed`
and the three lists; list nodes name the G and, for a select, the case. `Plan[c]`
is what caller c may start, `MaxOps` how often. A case of a select that waits in
`send`/`receive` order and its nodes stay on all lists until the select, woken
once, has all channel locks again. Sent values are distinct, and `FifoChannel`
counts the operations of each caller (`turn`): a send puts the value of its
turn in exactly once and may return only after that, on an unbuffered channel only
after a receiver took the value or the channel closed (a select, `selecting`, does not
wait). A send that stored nothing, or stored again when it retries, would not be a
behaviour of it.

`Silent` names sets of callers of which one, chosen initially, starts nothing: one
run so covers two programs that share no channel.

*Netpoll.* A stream's operations take it exclusively (`~this`), so a PollDesc has
one owner: `opc` is where the owner is in `_park_ready` or close, `odir` and `odl`
the direction and deadline it passes down. `slot`, `deadline`, `reason`, `linked`,
`refcount`, `cancelled`, `fd` are the fields of the PollDesc, `alloc` says that it
is not freed. `rpc` is the reactor in `promise_netpoll_loop`, `events` its buffer,
`todo` the part of the registry its scan has not walked. The kernel's readiness
is a set per descriptor, and level-triggered, as the PAL registers it
(`pal/posix.go:3851`); a transfer uses it up. An error event is readiness in both
directions. arm is two steps, because it releases `pd.lock` before it takes the
registry lock, and the park is a third: that is the window the scan must tolerate.

*Stores.* A process is at one command; a step is one change of the directory tree
or one lock. `refs` distinguishes no reference file, a truncated one and a whole
one, because `os.WriteFile` truncates before it writes. `tmp` and `sentinel` are
the resolver's directory and the lock inside it; one view stands for the four
kinds, which are locked and removed together. `seen` is what a build has found in
the cache before it generates code; `staged` is a history variable. `Crash` may
follow any step, and stands also for the error paths that leave the disk as it is
and exit. Archives are only a source of blobs and are part of a fetch. The lock
calls are taken to succeed. Where the system call itself fails, install and remove go
on without the store lock, and `cleanViewsUnderLock` without that view lock
(`main.go:9169`), and remove the trees all the same; this is left out.

Definitions whose names end in `_Faulty` are wrong variants of the definition
that follows. They are used to show that each property can fail: with the variant
in place of the definition TLC reports the property violated.

## 3. Runs

Bounds are chosen so that every branch of the code the run is about is taken.

| Run | Instance | Checks |
|---|---|---|
| `sched_syscall` | 2 Gs, 2 Ps, 3 Ms; spawn, join, blocking calls | POwnership, StackDiscipline, PoppedIsSignalled, GInOnePlace, MAndPAgree. Three Ms: one is created, becomes a spare, is reused, and the cap is reached; goroutines suspend and end on Ms with and without a P |
| `sched_steal` | 6 Gs, 2 Ps, 2 Ms, rings of 4; spawn | GInOnePlace, NoLostWakeup, RingWorkHasRunner, RingBounded. Four slots are the fewest for which a thief takes more than one |
| `sched_live` | 2 Gs, 1 P, 1 M, a ring of 1, period 3, sysmon and reactor; spawn, yield, park, join | GInOnePlace, EventuallyRuns, ShutdownCompletes, under `TerminatingSpec`. A G in the global queue, where the initial thread, the reactor and an overflowing ring put it, competes with one that yields for ever. There is no spare M: with one the liveness check does not end in useful time |
| `sched_shutdown` | 2 Gs, 2 Ps, 3 Ms; spawn, blocking calls | violation, section 6 |
| `mutex` | 2 coroutines, 2 threads, any of which begins with the only Ref | MutualExclusion, NoStrandedThread, SharedIsAlive, LastOutFrees, MutexOutlivesUsers, ImplementsFifoLock, ParkedGetsLock, under `SharedFairSpec`. A list of two, two waits on the condition, and an upgrade, a drop of the value and a free by three different users can overlap |
| `task` | 2 tasks of every kind, use and owner | ResultReady, OwnerNotStranded, Reclaimed, OwnerGetsThrough, under `FairSpec` |
| `task_early_free` | the same | violation, section 6 |
| `chan` | either an unbuffered and a two-slot channel with 2 coroutines and 2 threads, or 2 one-slot channels with selects of 3 coroutines and a polling thread; 2 operations each | NoStrandedReceiver, NoStrandedSender, RendezvousMeansTaken, NodesMatchWaiters, NoLockCycle, ImplementsFifoChannel. Two slots let the ring wrap with something in it; the selects name their channels in opposite orders |
| `chan_live` | an unbuffered channel, 3 coroutines, 2 threads, 1 operation each | CloseReleasesAll, TakenMeansReturns, under `FairSpec` |
| `chan_select_none` | one slot, a select, a receiver, a sender | violation, section 6 |
| `netpoll` | a socket, a cancel handle, a clock of 2 ticks | NoUseAfterFree, WatchedWhileParked, ReasonIsTrue, OpenLockGuards, ParkedIsWoken, under `FairSpec`. Two ticks give a deadline that has passed, one that passes while its owner arms or parks, and none at all; the owner may operate any number of times before it closes. More sockets meet only in the registry and the batch, which the proofs cover for any number |
| `stores` | 2 processes, 2 epochs that share one of 2 blobs, one epoch with bundled blobs; 4 commands | StagingKept, NoLockCycleWithoutRepair, LiveBlobsKept, BuildKeepsItsFiles. Four commands are an install for each epoch, and two that race afterwards, with crashes anywhere |

Deadlock checking is off where the system may stop: the scheduler is freed at the
end, tasks are consumed, all references to a mutex may be dropped, the callers of channels have a bounded number of
operations (and a program may well leave a receiver waiting for ever), sockets are
closed, and commands end.

Symmetry is used in safety runs only: over the goroutines other than main's, over
the tasks in `task_early_free`, and over the processes in `stores`.

## 4. Fairness

* `Sched!ThreadFairness`: weak fairness for each thread's own steps (the operating
  system runs every thread, mutexes are granted) and for a goroutine's yield check
  (a loop reaches its back-edge). Nothing is assumed about which runtime calls a
  goroutine makes. `TerminatingSpec` adds that a goroutine that runs undisturbed
  ends; shutdown joins threads, so without this it may wait for ever, as the
  program would.
* `Mutex!Fairness`, in `SharedFairSpec`: the owner unlocks, and the scheduler resumes those it was
  handed. Threads get no guarantee: an unlock prefers coroutines, and a thread
  that tries again may lose each time. Nothing is asked of the references: an
  upgrade may lose its race again and again, and nobody has to drop.
* `Task!FairSpec`: goroutine bodies end, both sides run. Each side takes
  `done_lock` at most once, so weak fairness suffices for it.
* `Channel!FairSpec`: an operation under way continues when it can. Nobody has to
  start one.
* `Netpoll!FairSpec`: every thread runs and a lock that is free again and again is
  granted (strong fairness; between two of its turns the reactor holds no lock and
  sleeps or polls, `netpoll.go:516`, `:596`), and time passes. Nobody has to begin
  an operation, no socket has to become ready, no wake-up is spurious of
  necessity.

## 5. Proofs

TLC covers the instances above; the theorems hold for every value of the
constants. The assumptions are the named `ASSUME`s of the modules: sets are
disjoint where the code's types are, there are at least as many Ms as Ps, and
sizes are positive. In `Sched`, goroutines are not numbers and differ from the two marks
a waiter list may hold; in `Channel`, the callers are finitely many, and no list
or place of a caller is named NULL.

* `SchedProofs`: `TypeCorrect`, `ExclusiveOwnership` (POwnership),
  `StacksStayWellFormed` (StackDiscipline), `PoppedGetSignal` (PoppedIsSignalled),
  `RingsStayBounded` (RingBounded), `IdleRingsAreEmpty` (RingWorkHasRunner),
  `EveryGInOnePlace` (GInOnePlace), `WakeupsAreNotLost` (NoLostWakeup) and
  `MsAndPsAgree` (MAndPAgree). The argument has two layers.
  `IInv` adds to the first three which control points have a P, carry one, or have
  a goroutine, and that an M some thread has popped is on no stack and is the target
  of one waker only: without it, two wakers could signal one M, or a stack could
  receive an M that is still on it. One lemma per conjunct (`TypeStep`, `PcStep`,
  `StackStep`, `OwnStep`), one step per action in each.
  `WorkInv` adds what that says about the goroutines. `BusyInv`: where a thread
  inside `wake_m` may be. `SignalInv`: an M off the stacks that still waits is
  the target of somebody's signal. `RingInv`, with `Drained`: a ring holds at most
  its capacity, and the ring of an M that has gone on to the global queue, to
  stealing or to the park is empty, which leaves room for what it steals. `AgreeInv`: P.current_g names what
  the P's own M executes, between its dispatch and the block of `sched_loop` that
  clears the field, and a spare M that was told to leave its wait has a P. `PlaceInv`
  (`QueueInv`, `OneHolder`, `HeldInv`, `LocatedInv`): no queue repeats a goroutine,
  no two holders share one, and what is held or running is in no queue; GInOnePlace
  counts places, which is not preserved by itself, because a step must know *which*
  place a goroutine has left. `NoLostWakeup` is inductive over these: a push to the
  global queue comes with a `wake_m` under way, and an M that stops looking for work
  has looked at the queue last.
* `MutexProofs`: `TypeCorrect`, `Exclusive`, `NoneForgotten`, `NoLostSignal` and
  `Refinement` (Spec => FifoLock's Spec). The invariant ties `held` to the owners,
  `handle` to the caller that suspends, and the list to the parked coroutines;
  the refinement maps a handed lock to the head of the abstract line.
* `ArcProofs`: `Alive` (SharedIsAlive) and `NoLeak` (LastOutFrees), for any finite
  set of users. The invariant counts: strong_count is the number of Refs,
  weak_count the number of Weaks plus one while the strong references' unit is
  owed, that is, while there is a Ref or a user drops the value or collects. At most one user is
  between the last decrement and the free. Lemmas of the library's cardinality
  theorems carry the counts over each step; without the owed unit the last Weak
  could free the memory under the drop of the value.
* `SharedProofs`: `Composes` (SharedSpec implies both components' specifications,
  so every theorem about either holds of a shared Mutex) and `DestroyedUnused`
  (MutexOutlivesUsers). The invariant that joins the two: whoever is inside
  `lock()` or has a guard owns a Ref. With it the last drop finds everybody outside,
  and MutexProofs' invariant gives the rest: no owner, no list, no handle.
* `TaskProofs`: `TypeCorrect`, `NeverStranded`, `LoadsWhatWasStored`,
  `EverythingReclaimed`. The invariant relates the two program counters of a task
  (who may still touch the G) to the lock, the lists and the memory.
* `ChannelProofs`: `ChannelInvariant`, `WaitersAreListed` (NodesMatchWaiters),
  `SelectsDoNotDeadlock` (NoLockCycle), `ChannelRefinesFifo`
  (ImplementsFifoChannel), `RendezvousIsTaken` (RendezvousMeansTaken),
  `ReceiversAreWoken` (NoStrandedReceiver) and `SendersAreWoken` (NoStrandedSender),
  for all channels, capacities, plans of the callers and any finite set of callers.
  The invariant `IInv` says that the ring's tail is where head and count put it and
  that no list repeats a node (`ChanInv`), what each control point of a caller says
  about its operation and place (`Control`), which locks it holds there, always
  those of the lowest addresses of a select (`LockInv`), and NodesMatchWaiters.
  Instead of one case per action in every proof, each action is reduced once
  (`SendSteps` ... `ParkSelectSteps`, joined in `EveryStep`) to a step of one caller:
  whom it wakes (`Shape`), what it does to the rings (`Kind`: a push, a pop, a close,
  the exit of a rendezvous, or nothing), and what becomes of the caller (`Turn`).
  The invariant and all the theorems follow from that form. The refinement needs
  the arithmetic of the ring (`RingPush`, `RingPop`): storing at the tail appends,
  advancing the head drops the first; and that a caller waits in a rendezvous, or
  has been told to leave it, only with the value of its present turn stored. RendezvousMeansTaken is its own invariant on
  top of `IInv`. For the wakeups, `Stocked` counts, on either side of a channel, what
  there is to take and who is on the way: a step that adds something to take either
  sends a sleeper who was not on the way before or leaves no sleeper; a step by which
  somebody is no longer on the way uses up one thing, or, in `send.rv.exit`, passes
  the wakeup on. The property must count *every* value, and not only as many as there
  are sleepers, to be preserved; the runs check it in that form.

* `StoresProofs`: `TypeCorrect`, `StagingIsKept`, `LocksAreOrdered`,
  `LiveBlobsAreKept`, `BuildFilesAreKept`, for any processes, epochs and blobs. The
  invariant says at which control points a process holds which lock (`LockInv`),
  which commands get there (`CmdInv`, `ArgInv`), that a reference file exists only
  in a directory (`RefsInv`), and that what a sweep has listed stays dead while it
  runs (`SweepInv`): the list is made once and used over many steps, so its
  elements must still be unreferenced when they go, which only the store lock
  gives. `LocksAreOrdered` follows from `LockInv` alone: the locks are ordered, and
  only a repair takes two against the order.
* `NetpollProofs`: `TypeCorrect`, `NothingFreedIsUsed`, `ParkedIsWatched`,
  `ReasonsAreTrue`, `OpenLockIsHeld`, for any sockets, handles and clock. `RefInv`
  counts: the reference count is one for the socket plus the number of live
  handles, so the last `unref` is the last user; `BatchInv` and `ListInv` add that
  an event or a list entry belongs to a descriptor whose close has not got past
  the batch lock, or has a handle. `WatchInv` carries the deadline from arm to
  park, and `ReasonInv` from the wake to the report. `PdLockInv` says who may hold
  `pd.lock`, with the second unlock of `event_next` as the exception on a closed
  descriptor.

Every safety property that a passing run checks is a theorem. Only model-checked
are the liveness properties (EventuallyRuns, ShutdownCompletes, ParkedGetsLock,
OwnerGetsThrough, CloseReleasesAll, TakenMeansReturns, ParkedIsWoken): fairness and
ENABLED are beyond the prover. The three violations of section 6 are counterexamples
of TLC. Filtering a waiter list is written with the positions that stay (`Picked`)
and not with the recursive `SelectSeq`, of which the prover can show nothing.

## 6. Where code and comments disagree

Runs that end in a violation:

* `sched_shutdown`: shutdown loads the head of the all-M list once, without
  `idle_lock` (`sched.go:2369`). An M that a blocking call's hand-off creates after that is
  neither signalled nor joined, and is still in its loop when shutdown frees the Ms,
  the locks and the P array, although `sched.go:2347` says "signal and join EVERY
  M".
* `task_early_free`: the first look at `G.done` takes no lock. It can see the store
  of goroutine_exit while that still holds `done_lock` and is about to read
  `done_waiters` of the G the owner now frees.
* `chan_select_none`: a select woken for a receive does not look again, as the send
  case does. When another receiver was faster it yields `none` on an open channel.
  `FifoChannel` says where it differs from the documented promise (`racing`).

Found while modelling, without a run of their own:

* On a closed descriptor the reactor unlocks `pd.lock` in `closed_skip`
  (`netpoll.go:562`) and again in `event_next` (`:579`). The second unlock may
  release the lock of a cancel handle that has just taken it, although
  `netpoll_deadline.go:27` says `pd.lock` guards those fields. `OpenLockGuards`
  shows that it cannot happen while the socket is open; on a closed one the fields
  no longer matter, but unlocking another thread's mutex is undefined.
* `netpoll.go:430` says a closed descriptor is unlinked by the next deadline scan,
  and `net.pr:307` that cancel is a no-op once the socket has been closed. A cancel
  after the close links the descriptor again, and the sticky flag keeps it on
  the registry until the handle is dropped.
* `pal.go:273`, `net.pr:450` and `netpoll.go:259` speak of edge-triggered
  registration; the PAL registers level-triggered. `llvm_cas.go:108` says derived
  caches are wiped when the compiler changed; `ensureCacheValid` no longer does.
* `doctor --repair` waits for `llvm-view.lock` with `cache/.lock` held
  (`doctor.go:658`, `main.go:9165`), a build or prefetch for `cache/.lock` with
  `llvm-view.lock` held (`resolve.go:158`): both wait for ever.
  `NoLockCycleWithoutRepair` shows that this is the only cycle.
* `doctor --repair` takes no lock of the build directory and removes the views
  a running build has resolved; `clean` does wait for it.
* A `blobs.refs` that is empty or cut off by a failed write or a crash counts as
  readable (`store.go:371`), so the fail-safe of `gc.go:15` does not apply and the
  epoch's blobs can be swept.
* `remove` sweeps blobs but leaves the view of symbolic links to them; a later
  thin install of the epoch accepts it, as `viewComplete` does not follow links.
* When its metadata cannot be written, `SaveBuildCache` removes the object
  (`cache.go:665`), which another build may have found before and link afterwards.

* At the cap on threads `startm` leaves the P without an owner, and nothing adopts
  it when a spare appears, although the comment on it says a P is never
  orphaned (`sched.go:2013`); `POwnership` says precisely when this can happen.
* sysmon loads `P.current_g` and then stores into that G, with no lock in
  between: the G may be back in a queue by then, contrary to `sched.go:876` (it
  yields once more), or a detached one may have been freed.
* An await that re-panics frees the G but not the result buffer
  (`expr_concurrency.go:3126`); the drop path frees both.
* A sender on a thread waits in its rendezvous while `count > 0`. When another
  sender has refilled the slot it stays although its own value was taken
  (`expr_handle.go:981`); a coroutine does not. `TakenMeansReturns` is therefore
  stated for coroutines.
* A select with a send case on a closed channel neither panics nor proceeds; it
  waits. A select's send on an unbuffered channel does not wait for a receiver.

## 7. Plan

1. Done: Sched, Mutex, Arc, their composition, Task, Channel, Netpoll and Stores with
   their runs, and all their safety properties as theorems.
2. The WASM cooperative scheduler (coop_step under nested pumping).
3. Module fetching by git into the shared cache, beside `Stores`.

`SharedMutex` composes two components in full. With the scheduler, composition stays
at the park protocol: `Sched` with one detailed client would repeat the client's states for each scheduler state and show nothing new.

## 8. Not modelled

Sequential parts (parser, type and ownership checkers, lowering of sequential
constructs, formatter, bindings) have no state that several actors share, and at a
useful size are out of a model checker's reach. The PAL and file I/O are calls
into the operating system; the models assume mutexes that exclude and condition
variables that may wake spuriously. These parts are by far the larger share of the
repository: the generated parser alone has 26,000 lines. Within the modelled components left out are:
the WASM branches, reference counting of channels (one counter, of the same kind as
a Ref's), downloading and unpacking, and statistics.
