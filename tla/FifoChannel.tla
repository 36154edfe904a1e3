---------------------------- MODULE FifoChannel ----------------------------
(***************************************************************************)
(* What channel[T] promises (docs/runtime-architecture.md, Phase 5b): a     *)
(* bounded first-in first-out queue.  A send puts its value exactly once,   *)
(* and on an unbuffered channel returns only after that value was taken or  *)
(* the channel closed; a receiver gets the oldest value, or none once the   *)
(* channel is closed and drained; a sender of a closed channel, and a       *)
(* second closer, panics.  A select differs in two ways: its send does not  *)
(* wait for the receiver, and it may lose a race for the value it was woken *)
(* for.  selecting and racing say who is in one, and are not otherwise      *)
(* restricted.                                                              *)
(***************************************************************************)
EXTENDS Naturals, Sequences

CONSTANTS
  Chans,     \* the channels
  Callers,   \* their users
  Bound,     \* Bound[x]: the values channel x can hold
  Sync       \* the channels without a buffer, where a sender meets a receiver

VARIABLES
  queue,     \* queue[x]: the values in x, oldest first
  closed,    \* the closed channels
  turn,      \* turn[c]: the number of the operation c is in, or starts next
  pending,   \* pending[c]: the channel whose receiver c waits for, as a set
  result,    \* result[c]: what the last finished operation of c returned
  selecting, \* the callers that are in a select
  racing     \* the selects that were woken to receive and have not done so

vars == <<queue, closed, turn, pending, result>>

Init ==
  /\ queue = [x \in Chans |-> <<>>]
  /\ closed = {}
  /\ turn \in [Callers -> Nat]
  /\ pending = [c \in Callers |-> {}]
  /\ result \in [Callers -> {<<>>}]

\* The value of the operation c is in: no two operations have the same.
Value(c) == <<c, turn[c]>>

\* An operation returns r; the next one of c has another number.
Returns(c, r) ==
  /\ result' = [result EXCEPT ![c] = r]
  /\ turn' = [turn EXCEPT ![c] = @ + 1]

\* An operation that begins and ends here.
AtOnce(c, r) == pending[c] = {} /\ Returns(c, r) /\ UNCHANGED pending

\* The value goes in, once.  Its sender returns, or waits for the receiver
\* when the channel has no buffer and the sender is not a select.
Put(c, x) ==
  /\ x \notin closed /\ Len(queue[x]) < Bound[x]
  /\ queue' = [queue EXCEPT ![x] = Append(@, Value(c))]
  /\ \/ (x \notin Sync \/ c \in selecting) /\ AtOnce(c, <<"sent", x>>)
     \/ /\ x \in Sync
        /\ pending[c] = {} /\ pending' = [pending EXCEPT ![c] = {x}]
        /\ UNCHANGED <<result, turn>>
  /\ UNCHANGED closed

\* The sender has waited until its value was taken, or the channel closed.
PutReturns(c, x) ==
  /\ x \in pending[c]
  /\ x \in closed \/ \A i \in DOMAIN queue[x] : queue[x][i] # Value(c)
  /\ pending' = [pending EXCEPT ![c] = {}]
  /\ Returns(c, <<"sent", x>>)
  /\ UNCHANGED <<queue, closed>>

Take(c, x) ==
  /\ queue[x] # <<>>
  /\ queue' = [queue EXCEPT ![x] = Tail(@)]
  /\ AtOnce(c, <<"got", x, Head(queue[x])>>)
  /\ UNCHANGED closed

\* A select that was woken takes what it finds: when another receiver was
\* faster, it gets none from an open channel.
Drained(c, x) ==
  /\ queue[x] = <<>> /\ (x \in closed \/ c \in racing)
  /\ AtOnce(c, <<"none", x>>)
  /\ UNCHANGED <<queue, closed>>

Close(c, x) ==
  /\ x \notin closed
  /\ closed' = closed \cup {x}
  /\ AtOnce(c, <<"closed", x>>)
  /\ UNCHANGED queue

Refused(c, x) ==
  /\ x \in closed
  /\ AtOnce(c, <<"panic", x>>)
  /\ UNCHANGED <<queue, closed>>

\* select took its default case.
Idle(c, x) == AtOnce(c, <<"default", x>>) /\ UNCHANGED <<queue, closed>>

Next ==
  \E c \in Callers, x \in Chans :
    \/ Put(c, x) \/ PutReturns(c, x) \/ Take(c, x) \/ Drained(c, x)
    \/ Close(c, x) \/ Refused(c, x) \/ Idle(c, x)

Spec == Init /\ [][Next]_vars
=============================================================================
