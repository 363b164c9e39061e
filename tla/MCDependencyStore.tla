------------------------- MODULE MCDependencyStore -------------------------
(* Instances of DependencyStore for TLC: two threads of one process and one *)
(* of another, two dependencies.                                            *)
EXTENDS DependencyStore, TLC

CONSTANTS p1, p2, t1, t2, t3, i1, i2

TwoProcesses == {p1, p2}
ThreeThreads == {t1, t2, t3}
Owners == t1 :> p1 @@ t2 :> p1 @@ t3 :> p2
TwoIds == {i1, i2}
CallsOf == t1 :> 2 @@ t2 :> 1 @@ t3 :> 1
Definitions == {[kind |-> "Artifact", user |-> TRUE], [kind |-> "Process", user |-> FALSE]}
Symmetric == Permutations({i1, i2})
=============================================================================
