--------------------------- MODULE MCInstanceKeys ---------------------------
(* Instances of InstanceKeys for TLC. *)
EXTENDS InstanceKeys, TLC

CONSTANTS p1, p2, p3, k1, k2

MCProcs == {p1, p2, p3}
MCKeys == {k1, k2}
First == {p1}
Once == [p \in Procs |-> 1]

\* Keys are alike.
Symmetry == Permutations(Keys)
=============================================================================
