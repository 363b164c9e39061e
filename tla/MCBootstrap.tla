---------------------------- MODULE MCBootstrap ----------------------------
(* Instances of Bootstrap for TLC. *)
EXTENDS Bootstrap

OneFamily == {"1.0"}
EveryKind == {"event", "com", "os"}
EventKind == {"event"}
NoFailure == {}
AnyFailure == {"start", "load", "create", "add"}
=============================================================================
