------------------------------ MODULE FifoLock ------------------------------
(***************************************************************************)
(* What Mutex[T] promises its callers: at most one guard at a time, and a   *)
(* line of waiting callers that is served in order and that nobody who      *)
(* comes later can pass.  Callers who wait outside the line (threads that   *)
(* block in pal_cond_wait) are served only when the line is empty.          *)
(***************************************************************************)
EXTENDS Sequences

CONSTANT Callers

VARIABLES holders,  \* the callers that have a guard
          line      \* the callers that are promised the lock, first to last

vars == <<holders, line>>

Init == holders = {} /\ line = <<>>

\* A caller gets the lock on the spot.
Enter(c) ==
  /\ holders = {} /\ line = <<>>
  /\ holders' = {c}
  /\ UNCHANGED line

JoinLine(c) ==
  /\ line' = Append(line, c)
  /\ UNCHANGED holders

Admit ==
  /\ holders = {} /\ line # <<>>
  /\ holders' = {Head(line)}
  /\ line' = Tail(line)

Leave(c) ==
  /\ holders = {c}
  /\ holders' = {}
  /\ UNCHANGED line

Next == Admit \/ \E c \in Callers : Enter(c) \/ JoinLine(c) \/ Leave(c)

Spec == Init /\ [][Next]_vars
=============================================================================
