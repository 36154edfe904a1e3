----------------------------- MODULE MCNetpoll -----------------------------
(* TLC instances of Netpoll.                                                *)
EXTENDS Netpoll

CONSTANTS p1, p2, h1, h2

\* The first handle belongs to a goroutine's socket, the second to the other.
OneEach == [h \in Handles |-> IF h = h1 THEN p1 ELSE p2]
=============================================================================
