--------------------------- MODULE MCInstanceList ---------------------------
(* Instances of InstanceList for TLC. *)
EXTENDS InstanceList

CONSTANTS p1, p2, p3

MCPids == {p1, p2, p3}
MCEnding == {p1, p2}
MCLooking == {p2, p3}
=============================================================================
