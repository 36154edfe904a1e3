------------------------------ MODULE MCStores ------------------------------
(* TLC instances of Stores.                                                 *)
EXTENDS Stores, TLC

CONSTANTS e1, e2, b1, b2

\* The two epochs share a blob; the first has one more.
Overlapping == [e \in Epochs |-> IF e = e1 THEN {b1, b2} ELSE {b2}]

AnyProc == Permutations(Procs)
=============================================================================
