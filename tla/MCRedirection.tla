---------------------------- MODULE MCRedirection ----------------------------
(* Instances of Redirection for TLC: one process with two requests under way *)
(* at once, one with a single request.                                       *)
EXTENDS Redirection

CONSTANTS p1, p2, r1, r2, r3

MCRequests == {r1, r2, r3}
MCProcs == {p1, p2}
MCOwner == [r \in MCRequests |-> IF r = r3 THEN p2 ELSE p1]
Everybody == {p1, p2, "target"}
=============================================================================
