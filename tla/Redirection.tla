----------------------------- MODULE Redirection -----------------------------
(***************************************************************************)
(* Activation redirection between processes (AppInstance.cpp): QueueRequest*)
(* in the processes that redirect, the activation watcher and              *)
(* ProcessRedirectionRequests in the one target instance.                  *)
(*                                                                         *)
(* Each operation of the queue is one step here because RedirectionQueue   *)
(* shows that under m_dataMutex the list in shared memory implements       *)
(* RequestFifo, until a process dies with an item torn: what the list does *)
(* after that is RedirectionQueue's.  The request packet (a named          *)
(* section) and the cleanup event exist exactly as long as the redirecting *)
(* coroutine holds them, so their existence is read off its state.         *)
(***************************************************************************)
EXTENDS Naturals, Sequences

CONSTANTS
    Requests,   \* redirection requests: calls of QueueRequest, each with its GUID
    Procs,      \* the processes that redirect
    Owner,      \* request -> the process whose coroutine carries it
    NoRequest,  \* no request at all
    Mortal      \* the processes, "target" among them perhaps, that may end

ASSUME OwnerAssumption == Owner \in [Requests -> Procs]
ASSUME NoRequestAssumption == NoRequest \notin Requests
ASSUME TargetAssumption == "target" \notin Procs
ASSUME MortalAssumption == Mortal \subseteq Procs \cup {"target"}

VARIABLES
    rpc,        \* request -> how far its coroutine has come, or "dead"
    cleanup,    \* request -> is its cleanup event signalled?
    queue,      \* the target's redirection queue
    signaled,   \* m_innerActivated: a manual-reset event
    tpc, treq,  \* the target's activation callback and the request it handles
    received,   \* history: requests dequeued, in order
    raised      \* history: requests whose Activated event was raised, in order

request == <<rpc, cleanup>>
target == <<tpc, treq>>
history == <<received, raised>>
vars == <<request, queue, signaled, target, history>>

Init ==
    /\ rpc = [r \in Requests |-> "idle"]
    /\ cleanup = [r \in Requests |-> FALSE]
    /\ queue = << >>
    /\ signaled = FALSE
    /\ tpc = "armed" /\ treq = NoRequest
    /\ received = << >> /\ raised = << >>

\* Opened by name: there only while the redirecting coroutine has it open.
HasPacket(r) == rpc[r] \in {"packet", "event", "queued", "wait"}
HasCleanupEvent(r) == rpc[r] \in {"event", "queued", "wait"}

-----------------------------------------------------------------------------
(* QueueRequest, in a redirecting process *)

Advance(r, from, to) == rpc[r] = from /\ rpc' = [rpc EXCEPT ![r] = to]

OpenPacket(r) ==
    /\ Advance(r, "idle", "packet")
    /\ UNCHANGED <<cleanup, queue, signaled, target, history>>

CreateCleanupEvent(r) ==
    /\ Advance(r, "packet", "event")
    /\ UNCHANGED <<cleanup, queue, signaled, target, history>>

EnqueueRedirectionRequestId(r) ==
    /\ Advance(r, "event", "queued")
    /\ queue' = Append(queue, r)
    /\ UNCHANGED <<cleanup, signaled, target, history>>

\* Mutant: the request is enqueued and nobody is told.
SetEventForgotten(r) ==
    /\ Advance(r, "queued", "wait")
    /\ UNCHANGED <<cleanup, queue, signaled, target, history>>

SetEvent(r) ==
    /\ Advance(r, "queued", "wait")
    /\ signaled' = TRUE
    /\ UNCHANGED <<cleanup, queue, target, history>>

\* Mutant: the process does not wait for the target.
WaitSkipped(r) ==
    /\ Advance(r, "wait", "done")
    /\ UNCHANGED <<cleanup, queue, signaled, target, history>>

\* cleanupEvent.wait() has no timeout.
WaitReturns(r) ==
    /\ cleanup[r]
    /\ Advance(r, "wait", "done")
    /\ UNCHANGED <<cleanup, queue, signaled, target, history>>

-----------------------------------------------------------------------------
(* The target's activation watcher and ProcessRedirectionRequests *)

WatcherFires ==
    /\ tpc = "armed" /\ signaled
    /\ tpc' = "reset"
    /\ UNCHANGED <<request, queue, signaled, treq, history>>

ResetEvent ==
    /\ tpc = "reset"
    /\ signaled' = FALSE
    /\ tpc' = "drain"
    /\ UNCHANGED <<request, queue, treq, history>>

DequeueRedirectionRequestId ==
    /\ tpc = "drain"
    /\ \/ /\ queue # << >>
          /\ treq' = Head(queue)
          /\ queue' = Tail(queue)
          /\ received' = Append(received, Head(queue))
          /\ tpc' = "open"
       \/ /\ queue = << >>
          /\ treq' = NoRequest
          /\ tpc' = "armed"     \* GUID_NULL: the callback returns and is armed again
          /\ UNCHANGED <<queue, received>>
    /\ UNCHANGED <<request, signaled, raised>>

UnmarshalArguments ==
    /\ tpc = "open" /\ HasPacket(treq)
    /\ tpc' = "raise"
    /\ UNCHANGED <<request, queue, signaled, treq, history>>

\* Mutant: a packet that cannot be read is passed over.
UnmarshalSkips ==
    /\ tpc = "open" /\ ~HasPacket(treq)
    /\ tpc' = "drain"
    /\ UNCHANGED <<request, queue, signaled, treq, history>>

\* The redirecting process is gone and its section with it: Open makes an empty
\* one and UnmarshalArguments throws, out of a thread-pool callback.
UnmarshalThrows ==
    /\ tpc = "open" /\ ~HasPacket(treq)
    /\ tpc' = "crashed"
    /\ UNCHANGED <<request, queue, signaled, treq, history>>

RaiseActivated ==
    /\ tpc = "raise"
    /\ raised' = Append(raised, treq)
    /\ tpc' = "ack"
    /\ UNCHANGED <<request, queue, signaled, treq, received>>

\* Mutant: one request is taken from the queue each time the event is signalled.
SignalCleanupOnce ==
    /\ tpc = "ack"
    /\ cleanup' = [cleanup EXCEPT ![treq] = @ \/ HasCleanupEvent(treq)]
    /\ tpc' = "armed"
    /\ UNCHANGED <<rpc, queue, signaled, treq, history>>

SignalCleanup ==
    /\ tpc = "ack"
    /\ cleanup' = [cleanup EXCEPT ![treq] = @ \/ HasCleanupEvent(treq)]
    /\ tpc' = "drain"
    /\ UNCHANGED <<rpc, queue, signaled, treq, history>>

-----------------------------------------------------------------------------
(* Processes end, with every coroutine of theirs *)

ProcessEnds(p) ==
    /\ p \in Mortal
    /\ \E r \in Requests : Owner[r] = p /\ rpc[r] \notin {"done", "dead"}
    /\ rpc' = [r \in Requests |->
                  IF Owner[r] = p /\ rpc[r] # "done" THEN "dead" ELSE rpc[r]]
    /\ UNCHANGED <<cleanup, queue, signaled, target, history>>

TargetEnds ==
    /\ "target" \in Mortal
    /\ tpc \notin {"crashed", "ended"}
    /\ tpc' = "ended"
    /\ UNCHANGED <<request, queue, signaled, treq, history>>

-----------------------------------------------------------------------------
QueueRequest(r) ==
    \/ OpenPacket(r) \/ CreateCleanupEvent(r) \/ EnqueueRedirectionRequestId(r)
    \/ SetEvent(r) \/ WaitReturns(r)

ProcessRedirectionRequests ==
    \/ ResetEvent \/ DequeueRedirectionRequestId
    \/ UnmarshalArguments \/ UnmarshalThrows
    \/ RaiseActivated \/ SignalCleanup

Next ==
    \/ \E r \in Requests : QueueRequest(r)
    \/ WatcherFires \/ ProcessRedirectionRequests
    \/ \E p \in Procs : ProcessEnds(p)
    \/ TargetEnds

Spec == Init /\ [][Next]_vars

\* Threads run; the thread pool serves the watcher.  No app has to redirect.
Fairness ==
    /\ WF_vars(WatcherFires \/ ProcessRedirectionRequests)
    /\ \A r \in Requests : WF_vars(QueueRequest(r) /\ rpc[r] # "idle")

FairSpec == Spec /\ Fairness

-----------------------------------------------------------------------------
(* Properties *)

Elements(s) == {s[i] : i \in DOMAIN s}

TypeOK ==
    /\ rpc \in [Requests -> {"idle", "packet", "event", "queued", "wait", "done", "dead"}]
    /\ cleanup \in [Requests -> BOOLEAN]
    /\ queue \in Seq(Requests)
    /\ signaled \in BOOLEAN
    /\ tpc \in {"armed", "reset", "drain", "open", "raise", "ack", "crashed", "ended"}
    /\ treq \in Requests \cup {NoRequest}
    /\ tpc \in {"open", "raise", "ack", "crashed"} => treq \in Requests
    /\ received \in Seq(Requests)
    /\ raised \in Seq(Requests)

\* No lost wakeup: while a process waits for the target to take its request
\* from the queue, the target's callback is running or about to be started.
\* (The event is reset before the queue is drained, never after.)
NoLostWakeup ==
    \A r \in Elements(queue) : rpc[r] = "wait" /\ tpc = "armed" => signaled

\* A redirecting process goes on only when the target's Activated event was
\* raised for its request.
WaitEndsAfterActivation == \A r \in Requests : rpc[r] = "done" => r \in Elements(raised)

\* The Activated event is raised once for a request, and in dequeue order.
RaisedOnceInOrder ==
    /\ \A i, j \in DOMAIN raised : raised[i] = raised[j] => i = j
    /\ Len(raised) <= Len(received)
    /\ \A i \in DOMAIN raised : raised[i] = received[i]

\* Every request that is redirected arrives at the Activated callback, as long
\* as the process that redirects it and the target live.
TargetGone == tpc \in {"crashed", "ended"}
EveryRequestActivates ==
    \A r \in Requests :
        rpc[r] = "packet" ~> r \in Elements(raised) \/ rpc[r] = "dead" \/ TargetGone

\* Whoever dies, a process that waits for its activation to be taken is left
\* waiting for ever only when the target has ended.
OnlyTargetsEndStrands ==
    \A r \in Requests : rpc[r] = "wait" ~> rpc[r] \in {"done", "dead"} \/ TargetGone

\* Requests and those who wait for them get on.
RequestsProgress == EveryRequestActivates /\ OnlyTargetsEndStrands
-----------------------------------------------------------------------------
(* The invariant that RedirectionProofs uses *)

Distinct(s) == \A i, j \in DOMAIN s : s[i] = s[j] => i = j

\* A request is in the queue or was received once, and only after it was sent.
SentOnce ==
    /\ Distinct(queue) /\ Distinct(received)
    /\ Elements(queue) \cap Elements(received) = {}
    /\ \A r \in Elements(queue) \cup Elements(received) :
          rpc[r] \in {"queued", "wait", "done", "dead"}

\* The received request that is not raised yet is the one in the callback's hand.
InHand ==
    /\ tpc \in {"armed", "reset", "drain", "ack"} => raised = received
    /\ tpc \in {"open", "raise", "crashed"} => received = Append(raised, treq)
    /\ \/ raised = received
       \/ received = Append(raised, treq) /\ treq \in Requests

\* Nobody is released before the activation it waits for was raised.
ReleasedRaised ==
    /\ tpc = "ack" => treq \in Elements(raised)
    /\ \A r \in Requests : cleanup[r] \/ rpc[r] = "done" => r \in Elements(raised)

IInv == TypeOK /\ SentOnce /\ InHand /\ ReleasedRaised
=============================================================================
