------------------------------ MODULE MCMutex ------------------------------
(* A TLC instance of SharedMutex: two goroutines and two blocking threads,  *)
(* so that a list of two, a handoff and two waits on the condition can meet,*)
(* and the last references can be dropped by any of them.                   *)
EXTENDS SharedMutex

CONSTANTS c1, c2, b1, b2
=============================================================================
