------------------------------ MODULE Channel ------------------------------
(***************************************************************************)
(* channel[T]: send, receive, close and the select statement                *)
(* (compiler/internal/codegen: expr_handle.go, expr_concurrency.go,         *)
(* stmt_select.go and the waiter lists of sched.go).                        *)
(*                                                                         *)
(* Callers compiled inside a coroutine park their goroutine on a waiter     *)
(* list of the channel; other callers block their OS thread on one of its   *)
(* two condition variables.  Both kinds meet on the same channel.           *)
(*                                                                         *)
(* An action is one critical section of ch.mutex.  Only a goroutine that    *)
(* suspends (until release_park_mutex, see Sched) and a select (which takes *)
(* the mutexes of its channels one by one) hold it between actions.         *)
(***************************************************************************)
EXTENDS Integers, Sequences, FiniteSets

CONSTANTS
  Chans,     \* the channels
  Capacity,  \* Capacity[x]: the constructor's argument; 0 means unbuffered
  Address,   \* Address[x]: where the struct of x lies
  Coros,     \* callers compiled as coroutines
  Blockers,  \* callers compiled otherwise
  Plan,      \* Plan[c]: the operations c may start
  MaxOps,    \* bound: the operations a caller starts
  Silent,    \* sets of callers; those of one of them start none
  NULL

Callers == Coros \cup Blockers

\* Send, receive and close of channel x; select over a sequence of cases.
Send(x) == [kind |-> "send", ch |-> x]
Recv(x) == [kind |-> "recv", ch |-> x]
Close(x) == [kind |-> "close", ch |-> x]
Select(cs, d) == [kind |-> "select", cases |-> cs, default |-> d]

Simple == {Send(x) : x \in Chans} \cup {Recv(x) : x \in Chans}
            \cup {Close(x) : x \in Chans}

\* The cases of a select are sends and receives.
Selects == [kind : {"select"}, default : BOOLEAN,
            cases : Seq([kind : {"send", "recv"}, ch : Chans])]

ASSUME ChannelAssumption ==
  /\ Capacity \in [Chans -> Nat]
  /\ Address \in [Chans -> Nat]
  /\ \A x, y \in Chans : Address[x] = Address[y] => x = y
  /\ Coros \cap Blockers = {}
  /\ IsFiniteSet(Callers) /\ NULL \notin Callers
  /\ NULL \notin {"full", "empty", "rv", "select"}
  /\ MaxOps \in Nat
  /\ Silent \subseteq SUBSET Callers
  /\ Plan \in [Callers -> SUBSET (Simple \cup Selects)]
  /\ \A c \in Callers : \A o \in Plan[c] : o.kind = "select" => o.cases # <<>>

VARIABLES
  chan,      \* chan[x]: the fields of channel x
  lock,      \* lock[x]: the caller that keeps ch.mutex between actions, or NULL
  pc,        \* pc[c]: where caller c is
  op,        \* op[c]: its operation, NULL outside one
  at,        \* at[c]: what it waits for, a key of the lists, or "select"
  won,       \* won[c]: G.select_case, 0 for -1
  result,    \* result[c]: what its last finished operation returned
  spent      \* spent[c]: the operations it has used up

vars == <<chan, lock, pc, op, at, won, result, spent>>

(* "out"       runs no operation                                            *)
(* "suspended" is on a list and its coroutine suspends, park_mutex held     *)
(* "parked"    is on a list                                                 *)
(* "ready"     was taken off a list, or its select claimed; in a run queue  *)
(* "waiting"   is inside pal_cond_wait                                      *)
(* "woken"     left the wait and needs the mutex                            *)
(* "locking"   select takes its mutexes to try its cases                    *)
(* "relocking" select takes them to run the case it was woken for           *)
(* "dead"      panicked                                                     *)

\* The lists send_waiters, recv_waiters and rv_waiters.  A thread waits for
\* the same three things, "full" and "rv" on not_full, "empty" on not_empty.
Places == {"full", "empty", "rv"}

\* promise_channel_new: an unbuffered channel has one slot.
Size(x) == IF Capacity[x] = 0 THEN 1 ELSE Capacity[x]
Unbuffered(x) == Capacity[x] = 0

Init ==
  /\ chan = [x \in Chans |->
               [slots |-> [i \in 0..(Size(x) - 1) |-> NULL],
                count |-> 0, head |-> 0, tail |-> 0, closed |-> FALSE,
                q |-> [w \in Places |-> <<>>]]]
  /\ lock = [x \in Chans |-> NULL]
  /\ pc = [c \in Callers |-> "out"]
  /\ op = [c \in Callers |-> NULL]
  /\ at = [c \in Callers |-> NULL]
  /\ won = [c \in Callers |-> 0]
  /\ result = [c \in Callers |-> <<>>]
  /\ \E S \in Silent : spent = [c \in Callers |-> IF c \in S THEN MaxOps ELSE 0]
-----------------------------------------------------------------------------
(* Waiter lists.  A node is a goroutine with case 0, or a SelectWaiterNode  *)
(* with the index of its case.  As in Sched, a definition named _Faulty is  *)
(* a deliberately wrong variant of the one below it.                        *)

Node(c, i) == [g |-> c, case |-> i]

\* select_try_wake succeeds: nobody has claimed the select yet.
Wakeable(n) == n.case = 0 \/ won[n.g] = 0

\* The elements of s at the positions I, in the order they have there.
Nth(I, k) == CHOOSE i \in I : Cardinality({j \in I : j <= i}) = k
Picked(s, I) == [k \in 1..Cardinality(I) |-> s[Nth(I, k)]]

Live(s) == {i \in DOMAIN s : Wakeable(s[i])}

\* wake_one that ignores what select_try_wake answers.
Dequeued_Faulty(s) == IF s = <<>> THEN 0 ELSE 1

\* wake_one dequeues up to the first node it can wake, or everything.
Dequeued(s) ==
  IF Live(s) = {} THEN Len(s) ELSE CHOOSE i \in Live(s) : \A j \in Live(s) : i <= j

Rest(s) == SubSeq(s, Dequeued(s) + 1, Len(s))
WokenOne(s) == {s[i] : i \in {j \in Live(s) : j <= Dequeued(s)}}

\* wake_one with a list that woke nobody signals the condition instead.
Signals_Faulty(s) == 0
Signals(s) == IF WokenOne(s) = {} THEN 1 ELSE 0

\* select_try_wake waits for the select_mutex of each node it looks at, which
\* a select keeps until it is suspended.
Settled(s) ==
  \A i \in 1..Dequeued(s) : s[i].case # 0 => pc[s[i].g] # "suspended"

\* wake_all: every goroutine, and of each select its first node, if unclaimed.
WokenAll(s) ==
  {s[i] : i \in {j \in Live(s) : \A k \in Live(s) : s[k].g = s[j].g => j <= k}}

\* pal_cond_signal, n times, for the threads of S.
Signalled(S, n) ==
  {T \in SUBSET S : Cardinality(T) = IF n <= Cardinality(S) THEN n ELSE Cardinality(S)}

\* The threads that wait for channel x in one of the places W.
Blocked(x, W) ==
  {c \in Blockers : pc[c] = "waiting" /\ op[c].ch = x /\ at[c] \in W}
NotFull(x) == Blocked(x, {"full", "rv"})
NotEmpty(x) == Blocked(x, {"empty"})

\* Caller c moves to s, the nodes N get runnable and the threads T wake up.
Moves(c, s, N, T) ==
  /\ pc' = [d \in Callers |->
              IF d = c THEN s
              ELSE IF d \in {n.g : n \in N} THEN "ready"
              ELSE IF d \in T THEN "woken" ELSE pc[d]]
  /\ won' = [d \in Callers |->
               IF d \in {n.g : n \in N} THEN (CHOOSE n \in N : n.g = d).case
               ELSE won[d]]
-----------------------------------------------------------------------------
(* How a section ends.                                                      *)

Free(x) == lock[x] = NULL

Update(x, r) == chan' = [chan EXCEPT ![x] = r]

\* The operation is over.
Finish(c, r) ==
  /\ op' = [op EXCEPT ![c] = NULL]
  /\ at' = [at EXCEPT ![c] = NULL]
  /\ result' = [result EXCEPT ![c] = r]
  /\ spent' = [spent EXCEPT ![c] = @ + 1]

\* c, in operation o, stops to wait at place w of channel x, whose fields are
\* r: parked on the list with park_mutex = ch.mutex, or in pal_cond_wait.
Wait(c, o, x, r, w, N, T) ==
  /\ Update(x, IF c \in Coros THEN [r EXCEPT !.q[w] = Append(@, Node(c, 0))] ELSE r)
  /\ lock' = IF c \in Coros THEN [lock EXCEPT ![x] = c] ELSE lock
  /\ Moves(c, IF c \in Coros THEN "suspended" ELSE "waiting", N, T)
  /\ op' = [op EXCEPT ![c] = o]
  /\ at' = [at EXCEPT ![c] = w]
  /\ UNCHANGED <<result, spent>>

\* The mutex is unlocked and the operation returns r to its caller.
Return(c, r) == Finish(c, r) /\ UNCHANGED lock

\* "send on closed channel", "close of closed channel": unlock and panic.
Panic(c, x) ==
  /\ Return(c, <<"panic", x>>)
  /\ Moves(c, "dead", {}, {})
  /\ UNCHANGED chan
-----------------------------------------------------------------------------
(* Send.                                                                    *)

\* The value of the operation c is in.
Item(c) == <<c, spent[c]>>

Wrap(x, i) == (i + 1) % Size(x)

\* Copy v to the slot at tail.
Pushed(x, r, v) ==
  [r EXCEPT !.slots[r.tail] = v, !.tail = Wrap(x, r.tail), !.count = @ + 1]

Full(x) == chan[x].count = Size(x)

\* send.write: copy the value, wake a receiver; an unbuffered channel is open
\* and not empty here, so its sender waits for a receiver.
Write(c, x) ==
  LET r == Pushed(x, chan[x], Item(c))
      R == r.q["empty"]
      s == [r EXCEPT !.q["empty"] = Rest(R)]
  IN /\ Settled(R)
     /\ \E T \in Signalled(NotEmpty(x), Signals(R)) :
          IF Unbuffered(x)
            THEN Wait(c, Send(x), x, s, "rv", WokenOne(R), T)
            ELSE /\ Update(x, s)
                 /\ Moves(c, "out", WokenOne(R), T)
                 /\ Return(c, <<"sent", x>>)

\* send.waitfull
WriteOrWait(c, x) ==
  IF Full(x) THEN Wait(c, Send(x), x, chan[x], "full", {}, {}) ELSE Write(c, x)

\* send, from lock to the first wait or the end.
SendStart(c, x) ==
  /\ Free(x)
  /\ IF chan[x].closed THEN Panic(c, x) ELSE WriteOrWait(c, x)

\* A sender runs again after it waited for room: closed, then full, anew.
SendAgain(c) ==
  /\ pc[c] \in {"ready", "woken"} /\ at[c] = "full"
  /\ SendStart(c, op[c].ch)

\* send.rv.exit: wake a sender that waits for room; unlock.
RendezvousExit(c, x) ==
  LET S == chan[x].q["full"]
  IN /\ Settled(S)
     /\ Update(x, [chan[x] EXCEPT !.q["full"] = Rest(S)])
     /\ \E T \in Signalled(NotFull(x), Signals(S)) :
          Moves(c, "out", WokenOne(S), T)
     /\ Return(c, <<"sent", x>>)

\* A goroutine that looks for an empty channel, as a thread does.
RendezvousResume_Faulty(c) ==
  LET x == op[c].ch
  IN /\ pc[c] = "ready" /\ at[c] = "rv"
     /\ Free(x)
     /\ IF chan[x].count > 0 /\ ~chan[x].closed
          THEN Wait(c, op[c], x, chan[x], "rv", {}, {})
          ELSE RendezvousExit(c, x)

\* send.rv.resume: a goroutine does not look at the channel again.
RendezvousResume(c) ==
  /\ pc[c] = "ready" /\ at[c] = "rv"
  /\ Free(op[c].ch)
  /\ RendezvousExit(c, op[c].ch)

\* A thread that goes back to send.waitfull, and stores its value again.
RendezvousRecheck_Faulty(c) ==
  /\ pc[c] = "woken" /\ at[c] = "rv"
  /\ SendStart(c, op[c].ch)

\* send.rv.check: a thread waits on while a value is there.
RendezvousRecheck(c) ==
  LET x == op[c].ch
  IN /\ pc[c] = "woken" /\ at[c] = "rv"
     /\ Free(x)
     /\ IF chan[x].count > 0 /\ ~chan[x].closed
          THEN Wait(c, op[c], x, chan[x], "rv", {}, {})
          ELSE RendezvousExit(c, x)
-----------------------------------------------------------------------------
(* Receive and close.                                                       *)

\* Take the value from the slot at head.
Popped(x, r) == [r EXCEPT !.head = Wrap(x, r.head), !.count = @ - 1]

\* A receiver that forgets the senders in their rendezvous.
Drain_Faulty(r) == [r EXCEPT !.q["full"] = Rest(@)]

\* After a pop: wake_one(send_waiters), wake_one(rv_waiters).
Drain(r) == [r EXCEPT !.q["full"] = Rest(@), !.q["rv"] = Rest(@)]
DrainWakes(r) == WokenOne(r.q["full"]) \cup WokenOne(r.q["rv"])
DrainSignals_Faulty(r) == 0
DrainSignals(r) == Signals(r.q["full"]) + Signals(r.q["rv"])

\* recv.wait .. recv.done; the same code runs in `for v in ch`.
RecvStart(c, x) ==
  LET r == chan[x]
  IN /\ Free(x)
     /\ \/ /\ r.count = 0 /\ ~r.closed
           /\ Wait(c, Recv(x), x, r, "empty", {}, {})
        \/ /\ r.count = 0 /\ r.closed
           /\ Moves(c, "out", {}, {})
           /\ Return(c, <<"none", x>>)
           /\ UNCHANGED chan
        \/ /\ r.count > 0
           /\ Settled(r.q["full"])
           /\ Update(x, Drain(Popped(x, r)))
           /\ \E T \in Signalled(NotFull(x), DrainSignals(r)) :
                Moves(c, "out", DrainWakes(r), T)
           /\ Return(c, <<"got", x, r.slots[r.head]>>)

\* A receiver runs again after it waited: the same loop.
RecvAgain(c) ==
  /\ pc[c] \in {"ready", "woken"} /\ at[c] = "empty"
  /\ RecvStart(c, op[c].ch)

\* close wakes the nodes of these lists.
Released_Faulty(r) == r.q["full"] \o r.q["empty"]
Released(r) == r.q["full"] \o r.q["empty"] \o r.q["rv"]

\* close: set closed, wake_all the three lists, broadcast both conditions.
CloseStart(c, x) ==
  LET r == chan[x]
      all == Released(r)
  IN /\ Free(x)
     /\ IF r.closed THEN Panic(c, x)
        ELSE /\ \A i \in DOMAIN all : all[i].case # 0 => pc[all[i].g] # "suspended"
             /\ Update(x, [r EXCEPT !.closed = TRUE, !.q = [w \in Places |-> <<>>]])
             /\ Moves(c, "out", WokenAll(all), NotFull(x) \cup NotEmpty(x))
             /\ Return(c, <<"closed", x>>)
-----------------------------------------------------------------------------
(* Select.                                                                  *)

Wanted(c) == {op[c].cases[i].ch : i \in DOMAIN op[c].cases}
Holds(c) == {x \in Chans : lock[x] = c}
HoldsAll(c) == Holds(c) = Wanted(c)
UnlockAll(c) == lock' = [x \in Chans |-> IF lock[x] = c THEN NULL ELSE lock[x]]

\* Without the sort: in the order the cases are written.
NextLock_Faulty(c) ==
  LET I == {i \in DOMAIN op[c].cases : op[c].cases[i].ch \notin Holds(c)}
  IN op[c].cases[CHOOSE i \in I : \A j \in I : i <= j].ch

\* The mutexes are taken in the order of the addresses, each once.
NextLock(c) ==
  CHOOSE x \in Wanted(c) \ Holds(c) :
    \A y \in Wanted(c) \ Holds(c) : Address[x] <= Address[y]

SelectLock(c) ==
  /\ pc[c] \in {"locking", "relocking"} /\ ~HoldsAll(c)
  /\ Free(NextLock(c))
  /\ lock' = [lock EXCEPT ![NextLock(c)] = c]
  /\ UNCHANGED <<chan, pc, op, at, won, result, spent>>

\* select.try: a send needs room in an open channel, a receive a value or a
\* closed channel.
CanSend(x) == chan[x].count < Size(x) /\ ~chan[x].closed
CanRecv(x) == chan[x].count > 0 \/ chan[x].closed
CanRun(k) == IF k.kind = "send" THEN CanSend(k.ch) ELSE CanRecv(k.ch)

\* execSend, execRecv, then unlockAll: run case k on the channels C, which
\* are the current ones but for the nodes of c itself.  An unbuffered send
\* does not wait for its receiver here, and a receive does not look whether
\* the empty channel is open.
RunCase(c, k, C) ==
  LET x == k.ch
      r == C[x]
      s == Pushed(x, r, Item(c))
      full == r.q["full"]
      empty == r.q["empty"]
  IN /\ UnlockAll(c)
     /\ \/ /\ k.kind = "send"
           /\ Settled(empty)
           /\ chan' = [C EXCEPT ![x] = [s EXCEPT !.q["empty"] = Rest(empty)]]
           /\ \E T \in Signalled(NotEmpty(x), Signals(empty)) :
                Moves(c, "out", WokenOne(empty), T)
           /\ Finish(c, <<"sent", x>>)
        \/ /\ k.kind = "recv" /\ r.count = 0
           /\ chan' = C
           /\ Moves(c, "out", {}, {})
           /\ Finish(c, <<"none", x>>)
        \/ /\ k.kind = "recv" /\ r.count > 0
           /\ Settled(full)
           /\ chan' = [C EXCEPT ![x] = Drain(Popped(x, r))]
           /\ \E T \in Signalled(NotFull(x), DrainSignals(r)) :
                Moves(c, "out", DrainWakes(r), T)
           /\ Finish(c, <<"got", x, r.slots[r.head]>>)

\* All cases are tried in the order they are written.
Runnable(c) == {i \in DOMAIN op[c].cases : CanRun(op[c].cases[i])}

SelectTry(c) ==
  /\ pc[c] = "locking" /\ HoldsAll(c)
  /\ \E i \in Runnable(c) :
       /\ \A j \in Runnable(c) : i <= j
       /\ RunCase(c, op[c].cases[i], chan)

SelectDefault(c) ==
  /\ pc[c] = "locking" /\ HoldsAll(c)
  /\ Runnable(c) = {} /\ op[c].default
  /\ UnlockAll(c)
  /\ Moves(c, "out", {}, {})
  /\ Finish(c, <<"default", op[c].cases[1].ch>>)
  /\ UNCHANGED chan

\* The nodes of the select of c that go on the list w of channel x, in the
\* order of their cases.
NewNodes(c, x, w) ==
  LET I == {i \in DOMAIN op[c].cases :
              /\ op[c].cases[i].ch = x
              /\ w = IF op[c].cases[i].kind = "send" THEN "full" ELSE "empty"}
  IN Picked([i \in DOMAIN op[c].cases |-> Node(c, i)], I)

\* select.park: select_case = -1, a node on the list of each case, unlockAll,
\* coro.suspend with park_mutex = select_mutex.
SelectPark(c) ==
  /\ pc[c] = "locking" /\ HoldsAll(c)
  /\ Runnable(c) = {} /\ ~op[c].default /\ c \in Coros
  /\ chan' = [x \in Chans |->
                [chan[x] EXCEPT !.q = [w \in Places |-> @[w] \o NewNodes(c, x, w)]]]
  /\ UnlockAll(c)
  /\ pc' = [pc EXCEPT ![c] = "suspended"]
  /\ at' = [at EXCEPT ![c] = "select"]
  /\ won' = [won EXCEPT ![c] = 0]
  /\ UNCHANGED <<op, result, spent>>

\* select.poll: a thread unlocks, sleeps and tries again.
SelectPoll(c) ==
  /\ pc[c] = "locking" /\ HoldsAll(c)
  /\ Runnable(c) = {} /\ ~op[c].default /\ c \in Blockers
  /\ UnlockAll(c)
  /\ UNCHANGED <<chan, pc, op, at, won, result, spent>>

SelectResume(c) ==
  /\ pc[c] = "ready" /\ at[c] = "select"
  /\ pc' = [pc EXCEPT ![c] = "relocking"]
  /\ UNCHANGED <<chan, lock, op, at, won, result, spent>>

\* waiter_remove: the list s without the nodes of c.
Without(s, c) == Picked(s, {i \in DOMAIN s : s[i].g # c})

\* waiter_remove of every node of the select of c.
Cleaned_Faulty(c) == chan
Cleaned(c) ==
  [x \in Chans |->
     [chan[x] EXCEPT !.q = [w \in Places |-> Without(@[w], c)]]]

\* The case the select was woken for cannot run: a sender came first (B0110).
MustRetry_Faulty(k) == FALSE
MustRetry(k) == k.kind = "send" /\ ~CanSend(k.ch)

\* select.wake: remove the nodes, run the case of select_case or start over.
SelectWake(c) ==
  LET k == op[c].cases[won[c]]
  IN /\ pc[c] = "relocking" /\ HoldsAll(c)
     /\ \/ /\ ~MustRetry(k)
           /\ RunCase(c, k, Cleaned(c))
        \/ /\ MustRetry(k)
           /\ chan' = Cleaned(c)
           /\ UnlockAll(c)
           /\ pc' = [pc EXCEPT ![c] = "locking"]
           /\ at' = [at EXCEPT ![c] = NULL]
           /\ UNCHANGED <<op, won, result, spent>>
-----------------------------------------------------------------------------
SelectStart(c, o) ==
  /\ op' = [op EXCEPT ![c] = o]
  /\ pc' = [pc EXCEPT ![c] = "locking"]
  /\ UNCHANGED <<chan, lock, at, won, result, spent>>

\* A caller starts one of its operations.
Start(c) ==
  /\ pc[c] = "out" /\ spent[c] < MaxOps
  /\ \E o \in Plan[c] :
       \/ o.kind = "send" /\ SendStart(c, o.ch)
       \/ o.kind = "recv" /\ RecvStart(c, o.ch)
       \/ o.kind = "close" /\ CloseStart(c, o.ch)
       \/ o.kind = "select" /\ SelectStart(c, o)

\* sched_loop's release_park_mutex: of ch.mutex, or of the select_mutex.
Release(c) ==
  /\ pc[c] = "suspended"
  /\ pc' = [pc EXCEPT ![c] = "parked"]
  /\ UnlockAll(c)
  /\ UNCHANGED <<chan, op, at, won, result, spent>>

SpuriousWakeup(c) ==
  /\ pc[c] = "waiting"
  /\ pc' = [pc EXCEPT ![c] = "woken"]
  /\ UNCHANGED <<chan, lock, op, at, won, result, spent>>

\* The steps of c once it runs an operation, except those of a sleeping thread.
Continue(c) ==
  \/ Release(c)
  \/ SendAgain(c) \/ RendezvousResume(c) \/ RendezvousRecheck(c) \/ RecvAgain(c)
  \/ SelectLock(c) \/ SelectTry(c) \/ SelectDefault(c)
  \/ SelectPark(c) \/ SelectPoll(c) \/ SelectResume(c) \/ SelectWake(c)

Next == \E c \in Callers : Start(c) \/ Continue(c) \/ SpuriousWakeup(c)

Spec == Init /\ [][Next]_vars

\* The scheduler runs every queued goroutine and completes every suspension
\* (Sched), the operating system every thread and every queue for a mutex.
\* Nobody has to start an operation.
FairSpec == Spec /\ \A c \in Callers : WF_vars(Continue(c))
-----------------------------------------------------------------------------
Elems(s) == {s[i] : i \in DOMAIN s}

\* The values in the ring, oldest first.
Contents(x) ==
  [i \in 1..chan[x].count |-> chan[x].slots[(chan[x].head + i - 1) % Size(x)]]

Abs == INSTANCE FifoChannel WITH
         Bound <- [x \in Chans |-> Size(x)],
         Sync <- {x \in Chans : Unbuffered(x)},
         queue <- [x \in Chans |-> Contents(x)],
         closed <- {x \in Chans : chan[x].closed},
         turn <- spent,
         pending <- [c \in Callers |-> {x \in Chans : at[c] = "rv" /\ op[c].ch = x}],
         selecting <- {c \in Callers : pc[c] \in {"locking", "relocking"}},
         racing <- {c \in Callers : pc[c] = "relocking"}

\* Every channel is a bounded FIFO queue: across wrap-around, concurrent
\* senders and receivers, parking and retries, a send that returns has stored
\* its value exactly once, and on an unbuffered channel does not return before
\* the value was received or the channel closed (a select's send does not
\* wait); every value is received at most once and in order, `none` means
\* closed and drained except for a select that lost a race, and only the user
\* of a closed channel panics.
ImplementsFifoChannel == Abs!Spec

\* Case k of a select waits for w in channel x.
ForPlace(k, x, w) ==
  \/ w = "full" /\ k = Send(x)
  \/ w = "empty" /\ k = Recv(x)

\* Caller c has been woken and is about to look for what w stands for in x.
Coming(c, x, w) ==
  \/ pc[c] \in {"ready", "woken"} /\ at[c] = w /\ op[c].ch = x
  \/ /\ pc[c] \in {"ready", "relocking"} /\ at[c] = "select"
     /\ ForPlace(op[c].cases[won[c]], x, w)

\* The callers that wait for w in x and that nobody has woken.
Asleep(x, w) ==
  {c \in Callers :
     /\ pc[c] \in {"suspended", "parked", "waiting"}
     /\ \/ at[c] = w /\ op[c].ch = x
        \/ at[c] = "select"
             /\ \E i \in DOMAIN op[c].cases : ForPlace(op[c].cases[i], x, w)}

\* No wakeup of a receiver is lost: as long as receivers sleep, for every
\* buffered value one is on its way.
NoStrandedReceiver ==
  \A x \in Chans :
    Asleep(x, "empty") # {} =>
      chan[x].count <= Cardinality({c \in Callers : Coming(c, x, "empty")})

\* No wakeup of a sender is lost: as long as senders sleep on an open channel,
\* for every free slot one is on its way, or one that ends its rendezvous and
\* will wake it (B0156).
NoStrandedSender ==
  \A x \in {y \in Chans : ~chan[y].closed} :
    Asleep(x, "full") # {} =>
      Size(x) - chan[x].count
        <= Cardinality({c \in Callers : Coming(c, x, "full") \/ Coming(c, x, "rv")})

\* A goroutine in rv_waiters is the sender of the one buffered value, and one
\* taken off the list may return without a second look at the channel: its
\* value has been received or the channel is closed.
RendezvousMeansTaken ==
  /\ \A x \in Chans : \A n \in Elems(chan[x].q["rv"]) :
       Contents(x) = <<Item(n.g)>> /\ ~chan[x].closed
  /\ \A c \in Coros :
       pc[c] = "ready" /\ at[c] = "rv" =>
         \/ Item(c) \notin Elems(Contents(op[c].ch))
         \/ chan[op[c].ch].closed

\* The nodes that stand for caller c on the list w of channel x.
NodesOf(c, x, w) ==
  IF at[c] = "select" THEN Elems(NewNodes(c, x, w))
  ELSE IF at[c] = w /\ op[c].ch = x THEN {Node(c, 0)} ELSE {}

\* A node on a list always stands for a caller that still waits with it, once,
\* and a parked caller has all its nodes on the lists: no waker follows a
\* stale SelectWaiterNode into a frame that moved on, and no waiter is lost.
NodesMatchWaiters ==
  \A x \in Chans, w \in Places :
    /\ \A i, j \in DOMAIN chan[x].q[w] :
         chan[x].q[w][i] = chan[x].q[w][j] => i = j
    /\ \A n \in Elems(chan[x].q[w]) :
         /\ n \in NodesOf(n.g, x, w)
         /\ \/ pc[n.g] \in {"suspended", "parked"}
            \/ n.case # 0 /\ pc[n.g] \in {"ready", "relocking"}
    /\ \A c \in Coros :
         pc[c] \in {"suspended", "parked"} =>
           NodesOf(c, x, w) \subseteq Elems(chan[x].q[w])

\* Two selects never wait for each other's mutexes, whatever the order of
\* their cases.
NoLockCycle ==
  \A c, d \in {e \in Callers : pc[e] \in {"locking", "relocking"} /\ ~HoldsAll(e)} :
    ~(NextLock(c) \in Holds(d) /\ NextLock(d) \in Holds(c))

\* `none` is what the user of a closed channel receives, nobody else.
NoneMeansClosed ==
  \A c \in Callers :
    result[c] # <<>> =>
      (result[c][1] = "none" => chan[result[c][2]].closed)

\* A select that can receive from x, or an operation on x.
Uses(c, x) ==
  /\ op[c] # NULL
  /\ IF op[c].kind = "select"
       THEN \E i \in DOMAIN op[c].cases : op[c].cases[i] = Recv(x)
       ELSE op[c].ch = x

\* close releases everybody who uses the channel, wherever they wait.
CloseReleasesAll ==
  \A c \in Callers, x \in Chans : chan[x].closed /\ Uses(c, x) ~> op[c] = NULL

\* The send of a goroutine on an unbuffered channel returns once its value is
\* received, however many other senders refill the slot.
TakenMeansReturns ==
  \A c \in Coros :
    at[c] = "rv" /\ Item(c) \notin Elems(Contents(op[c].ch)) ~> at[c] # "rv"
=============================================================================
