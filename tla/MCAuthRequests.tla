--------------------------- MODULE MCAuthRequests ---------------------------
(* Instances of AuthRequests for TLC: two requests that use one state. *)
EXTENDS AuthRequests, TLC

CONSTANTS r1, r2, a1, s1, q1

TwoRequests == {r1, r2}
OneApp == {a1}
OneSender == {s1}
OneState == {q1}
Everything == {"response", "bad", "garbage"}
Symmetric == Permutations(TwoRequests)
=============================================================================
