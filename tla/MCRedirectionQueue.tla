------------------------- MODULE MCRedirectionQueue -------------------------
(* Instances of RedirectionQueue for TLC. *)
EXTENDS RedirectionQueue

CONSTANTS w1, w2, i1, i2, i3

MCWriters == {w1, w2}
MCIds == {i1, i2, i3}
=============================================================================
