-------------------------- MODULE RedirectionQueue --------------------------
(***************************************************************************)
(* RedirectionRequestQueue.h: the queue of redirection requests of one app *)
(* instance, a singly linked list threaded through slots of a named        *)
(* section that every process of the app maps.                             *)
(*                                                                         *)
(* An operation runs under the instance's m_dataMutex, one action per      *)
(* store into the section, because a process can be terminated between two *)
(* stores (RestartAgent does so with TerminateProcess): the mutex is then  *)
(* abandoned, the next waiter gets it all the same, and it finds whatever  *)
(* the dead process left.                                                  *)
(***************************************************************************)
EXTENDS Naturals, Sequences

CONSTANTS
    Writers,    \* the processes that redirect to the instance
    Ids,        \* ids of redirection requests
    NullId,     \* GUID_NULL
    Size        \* slots the mapping holds: 132 in the code, see AllocateFault

ASSUME SizeAssumption == Size \in Nat \ {0}
ASSUME NullAssumption == NullId \notin Ids
ASSUME WriterAssumption == {"target", "none"} \cap Writers = {}

Slots == 1 .. Size      \* offset 0 is the head pointer: 0 means "no item"

VARIABLES
    head,       \* the first item, or 0
    inUse,      \* slot -> QueueItem::inUse
    next,       \* slot -> QueueItem::next
    id,         \* slot -> QueueItem::id
    mutex,      \* m_dataMutex: who owns it, or "none"
    pc, cur, new, req,  \* each writer's place in Enqueue and its locals
    tpc, victim,        \* the target's place in Dequeue and its local
    unsent,     \* ids no request carries yet
    accepted,   \* history: ids whose Enqueue has returned
    received,   \* history: ids Dequeue has returned
    torn        \* history: a process died with an item linked but not filled

mem == <<head, inUse, next, id>>
writer == <<pc, cur, new, req>>
target == <<tpc, victim>>
vars == <<mem, mutex, writer, target, unsent, accepted, received, torn>>

Init ==
    /\ head = 0
    /\ inUse = [s \in Slots |-> FALSE]
    /\ next = [s \in Slots |-> 0]
    /\ id = [s \in Slots |-> NullId]
    /\ mutex = "none"
    /\ pc = [w \in Writers |-> "idle"]
    /\ cur = [w \in Writers |-> 0]
    /\ new = [w \in Writers |-> 0]
    /\ req = [w \in Writers |-> NullId]
    /\ tpc = "idle" /\ victim = 0
    /\ unsent = Ids
    /\ accepted = {}
    /\ received = << >>
    /\ torn = FALSE

-----------------------------------------------------------------------------
(* Enqueue, by a redirecting process *)

\* EnqueueRedirectionRequestId: a fresh GUID, and the mutex.
BeginEnqueue(w) ==
    /\ pc[w] = "idle" /\ mutex = "none"
    /\ mutex' = w
    /\ \E i \in unsent :
          /\ req' = [req EXCEPT ![w] = i]
          /\ unsent' = unsent \ {i}
    /\ pc' = [pc EXCEPT ![w] = "alloc"]
    /\ UNCHANGED <<mem, cur, new, target, accepted, received, torn>>

\* Mutant: the first slot that links to nothing.
AllocateUnlinked(w) ==
    /\ pc[w] = "alloc"
    /\ \E s \in Slots :
          /\ next[s] = 0
          /\ \A t \in 1 .. s - 1 : next[t] # 0
          /\ new' = [new EXCEPT ![w] = s]
    /\ cur' = [cur EXCEPT ![w] = head]
    /\ pc' = [pc EXCEPT ![w] = IF head = 0 THEN "link" ELSE "walk"]
    /\ UNCHANGED <<mem, mutex, req, target, unsent, accepted, received, torn>>

\* The first slot that is not in use; then the walk starts at the head.
AllocateItem(w) ==
    /\ pc[w] = "alloc"
    /\ \E s \in Slots :
          /\ ~inUse[s]
          /\ \A t \in 1 .. s - 1 : inUse[t]
          /\ new' = [new EXCEPT ![w] = s]
    /\ cur' = [cur EXCEPT ![w] = head]
    /\ pc' = [pc EXCEPT ![w] = IF head = 0 THEN "link" ELSE "walk"]
    /\ UNCHANGED <<mem, mutex, req, target, unsent, accepted, received, torn>>

\* Both the stride and the upper bound of the scan are scaled by
\* sizeof(QueueItem) once too often: 132 slots of 1024 bytes fit the mapping,
\* and the bound that throws E_OUTOFMEMORY lies about 4 MB beyond its end.
\* With every slot in use the scan leaves the mapping and the process faults.
AllocateFault(w) ==
    /\ pc[w] = "alloc"
    /\ \A s \in Slots : inUse[s]
    /\ pc' = [pc EXCEPT ![w] = "faulted"]
    /\ mutex' = "none"
    /\ UNCHANGED <<mem, cur, new, req, target, unsent, accepted, received, torn>>

Walk(w) ==
    /\ pc[w] = "walk"
    /\ \/ /\ next[cur[w]] # 0
          /\ cur' = [cur EXCEPT ![w] = next[cur[w]]]
          /\ UNCHANGED pc
       \/ /\ next[cur[w]] = 0
          /\ pc' = [pc EXCEPT ![w] = "link"]
          /\ UNCHANGED cur
    /\ UNCHANGED <<mem, mutex, new, req, target, unsent, accepted, received, torn>>

\* The slot becomes reachable before any of its fields is written.
Link(w) ==
    /\ pc[w] = "link"
    /\ \/ cur[w] = 0 /\ head' = new[w] /\ UNCHANGED next
       \/ cur[w] # 0 /\ next' = [next EXCEPT ![cur[w]] = new[w]] /\ UNCHANGED head
    /\ pc' = [pc EXCEPT ![w] = "mark"]
    /\ UNCHANGED <<inUse, id, mutex, cur, new, req, target, unsent, accepted, received, torn>>

MarkInUse(w) ==
    /\ pc[w] = "mark"
    /\ inUse' = [inUse EXCEPT ![new[w]] = TRUE]
    /\ pc' = [pc EXCEPT ![w] = "name"]
    /\ UNCHANGED <<head, next, id, mutex, cur, new, req, target, unsent, accepted, received, torn>>

StoreId(w) ==
    /\ pc[w] = "name"
    /\ id' = [id EXCEPT ![new[w]] = req[w]]
    /\ pc' = [pc EXCEPT ![w] = "clear"]
    /\ UNCHANGED <<head, inUse, next, mutex, cur, new, req, target, unsent, accepted, received, torn>>

ClearNext(w) ==
    /\ pc[w] = "clear"
    /\ next' = [next EXCEPT ![new[w]] = 0]
    /\ pc' = [pc EXCEPT ![w] = "unlock"]
    /\ UNCHANGED <<head, inUse, id, mutex, cur, new, req, target, unsent, accepted, received, torn>>

EndEnqueue(w) ==
    /\ pc[w] = "unlock"
    /\ mutex' = "none"
    /\ accepted' = accepted \cup {req[w]}
    /\ pc' = [pc EXCEPT ![w] = "idle"]
    /\ UNCHANGED <<mem, cur, new, req, target, unsent, received, torn>>

\* The process is terminated, at any point: it abandons the mutex if it owns it.
\* An item it had linked and not filled yet stays in the list, and whoever comes
\* next takes it for one: not in use, so that its slot is handed out again and
\* links to itself, or with the id of the request that had the slot before.
Die(w) ==
    /\ pc[w] \notin {"faulted", "dead"}
    /\ pc' = [pc EXCEPT ![w] = "dead"]
    /\ mutex' = IF mutex = w THEN "none" ELSE mutex
    /\ torn' = (torn \/ pc[w] \in {"mark", "name"})
    /\ UNCHANGED <<mem, cur, new, req, target, unsent, accepted, received>>

-----------------------------------------------------------------------------
(* Dequeue, by the target's activation callback *)

\* Mutant: Dequeue does not take the mutex.
BeginDequeueUnlocked ==
    /\ tpc = "idle" /\ head # 0
    /\ victim' = head
    /\ head' = next[head]
    /\ tpc' = "free"
    /\ UNCHANGED <<inUse, next, id, mutex, writer, unsent, accepted, received, torn>>

\* An empty queue returns GUID_NULL and changes nothing.
BeginDequeue ==
    /\ tpc = "idle" /\ mutex = "none"
    /\ head # 0
    /\ mutex' = "target"
    /\ victim' = head
    /\ head' = next[head]
    /\ tpc' = "free"
    /\ UNCHANGED <<inUse, next, id, writer, unsent, accepted, received, torn>>

FreeItem ==
    /\ tpc = "free"
    /\ inUse' = [inUse EXCEPT ![victim] = FALSE]
    /\ tpc' = "unlink"
    /\ UNCHANGED <<head, next, id, mutex, writer, victim, unsent, accepted, received, torn>>

\* Mutant: the dequeued item keeps its link.
UnlinkForgotten ==
    /\ tpc = "unlink"
    /\ tpc' = "return"
    /\ UNCHANGED <<mem, mutex, writer, victim, unsent, accepted, received, torn>>

Unlink ==
    /\ tpc = "unlink"
    /\ next' = [next EXCEPT ![victim] = 0]
    /\ tpc' = "return"
    /\ UNCHANGED <<head, inUse, id, mutex, writer, victim, unsent, accepted, received, torn>>

EndDequeue ==
    /\ tpc = "return"
    /\ received' = Append(received, id[victim])
    /\ mutex' = "none"
    /\ tpc' = "idle"
    /\ UNCHANGED <<mem, writer, victim, unsent, accepted, torn>>

-----------------------------------------------------------------------------
EnqueueStep(w) ==
    \/ BeginEnqueue(w) \/ AllocateItem(w) \/ AllocateFault(w) \/ Walk(w)
    \/ Link(w) \/ MarkInUse(w) \/ StoreId(w) \/ ClearNext(w) \/ EndEnqueue(w)

DequeueStep == BeginDequeue \/ FreeItem \/ Unlink \/ EndDequeue

Next == DequeueStep \/ \E w \in Writers : EnqueueStep(w) \/ Die(w)

Spec == Init /\ [][Next]_vars

\* A thread that has the mutex runs on.  Starting a request is up to the app, and
\* the target dequeues only when the event is set, which is Redirection's matter.
Fairness == \A w \in Writers : WF_vars(EnqueueStep(w) /\ pc[w] # "idle")

FairSpec == Spec /\ Fairness
-----------------------------------------------------------------------------
(* Properties *)

Critical == {"alloc", "walk", "link", "mark", "name", "clear", "unlock"}

TypeOK ==
    /\ head \in 0 .. Size
    /\ inUse \in [Slots -> BOOLEAN]
    /\ next \in [Slots -> 0 .. Size]
    /\ id \in [Slots -> Ids \cup {NullId}]
    /\ mutex \in Writers \cup {"target", "none"}
    /\ pc \in [Writers -> Critical \cup {"idle", "faulted", "dead"}]
    /\ cur \in [Writers -> 0 .. Size]
    /\ new \in [Writers -> 0 .. Size]
    /\ req \in [Writers -> Ids \cup {NullId}]
    /\ tpc \in {"idle", "free", "unlink", "return"}
    /\ victim \in 0 .. Size
    /\ unsent \subseteq Ids
    /\ accepted \subseteq Ids
    /\ received \in Seq(Ids \cup {NullId})
    /\ torn \in BOOLEAN

\* A list begins at first and follows link up to 0, or up to a slot that is not an
\* item yet.
Follows(list, first, link, open) ==
    LET After(k) == IF k = 0 THEN first ELSE link[list[k]]
    IN  /\ \A k \in DOMAIN list : list[k] = After(k - 1) /\ list[k] \notin open
        /\ After(Len(list)) \in open \cup {0}

\* The items of that list in order; none if the links run in a circle.
Lists == UNION {[1 .. n -> Slots] : n \in 0 .. Size}
Items(first, link, open) ==
    LET found == {list \in Lists : Follows(list, first, link, open)}
    IN  IF found = {} THEN << >> ELSE CHOOSE list \in found : TRUE

\* A slot that an Enqueue under way has linked but not filled is not an item yet.
Building == {new[w] : w \in {v \in Writers : pc[v] \in {"mark", "name", "clear"}}}

Chain == Items(head, next, Building)

Pending == [k \in DOMAIN Chain |-> id[Chain[k]]]

Delivered == IF tpc = "idle" THEN received ELSE Append(received, id[victim])

Fifo == INSTANCE RequestFifo WITH queue <- Pending, received <- Delivered

\* However the stores of the enqueuing processes and of the target interleave,
\* and wherever processes die, the list behaves as a first-in first-out queue
\* that neither loses, repeats nor reorders a request, until a process dies
\* between the store that links an item and the one that gives it its id
\* (RedirectionRequestQueue.h, Enqueue, Dequeue): that one ends the promise.
ImplementsFifo == Fifo!Spec

\* The list stays well formed until then: what the head or an item links to is in
\* use, no two items link to the same slot and none to the head, so that
\* AllocateItem never hands out a reachable slot.
LinkedInUse == \A s \in Slots : next[s] # 0 => inUse[next[s]]
OneLinkEach == \A s, t \in Slots : next[s] # 0 /\ next[s] = next[t] => s = t
HeadUnlinked == head # 0 => inUse[head] /\ \A s \in Slots : next[s] # head
FreeUnlinked == \A s \in Slots : ~inUse[s] => next[s] = 0

WellFormed ==
    /\ TypeOK
    /\ mutex = "none" /\ ~torn => LinkedInUse /\ OneLinkEach /\ HeadUnlinked /\ FreeUnlinked

\* The walk to the tail ends: who has the mutex to enqueue gives it up again,
\* whatever earlier processes left when they died, unless one of them tore an
\* item.  Links that ran in a circle would keep every other process out for good.
EnqueueReturns ==
    \A w \in Writers : pc[w] \in Critical ~> (pc[w] \notin Critical \/ torn)
=============================================================================
