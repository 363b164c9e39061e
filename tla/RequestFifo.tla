----------------------------- MODULE RequestFifo -----------------------------
(***************************************************************************)
(* What the redirection queue of an app instance promises: the ids of the  *)
(* requests that were enqueued come out once each, in the order in which   *)
(* they went in, until a process dies in the middle of an Enqueue.  From   *)
(* then on only this is left: what came out stays as it is, and what still *)
(* comes out is the id of some request, or null.                           *)
(***************************************************************************)
EXTENDS Sequences

CONSTANTS Ids,          \* request ids: GUIDs, never used twice
          NullId        \* GUID_NULL, of no request

VARIABLES
    queue,              \* ids enqueued and not yet dequeued
    received,           \* ids dequeued so far, in that order
    torn                \* a process died in the middle of an Enqueue

vars == <<queue, received, torn>>

Elements(s) == {s[i] : i \in DOMAIN s}

Init == queue = << >> /\ received = << >> /\ torn = FALSE

Enqueue(i) ==
    /\ ~torn
    /\ i \notin Elements(queue) \cup Elements(received)
    /\ queue' = Append(queue, i)
    /\ UNCHANGED <<received, torn>>

Dequeue ==
    /\ ~torn
    /\ queue # << >>
    /\ received' = Append(received, Head(queue))
    /\ queue' = Tail(queue)
    /\ UNCHANGED torn

\* The death itself, and whatever happens after it.
Broken ==
    /\ torn'
    /\ \/ UNCHANGED received
       \/ torn /\ \E i \in Ids \cup {NullId} : received' = Append(received, i)

Next == Dequeue \/ Broken \/ \E i \in Ids : Enqueue(i)

Spec == Init /\ [][Next]_vars
=============================================================================
