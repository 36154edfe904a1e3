------------------------------ MODULE MCSched ------------------------------
(* TLC instances of Sched: two processors, few goroutines, and for each     *)
(* run the runtime calls its goroutines may make.                           *)
EXTENDS Sched, TLC

CONSTANTS g0, g1, g2, g3, g4, g5

\* G0 is special; the other goroutines are interchangeable.
OtherGs == Permutations(Gs \ {MainG})
=============================================================================
