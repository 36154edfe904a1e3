------------------------------- MODULE MCTask -------------------------------
(* A TLC instance of Task: two tasks of any kind contend for done_lock.     *)
EXTENDS Task, TLC

CONSTANTS t1, t2

Interchangeable == Permutations(Tasks)
=============================================================================
