-------------------------- MODULE RedirectionProofs --------------------------
(***************************************************************************)
(* Proofs about Redirection: for any number of processes and requests, and *)
(* whoever dies, no wakeup is lost, a redirecting process goes on only     *)
(* after its activation, and activations are raised once and in order.     *)
(***************************************************************************)
EXTENDS Redirection, SequenceTheorems, TLAPS

-----------------------------------------------------------------------------
(* Sequences *)

\* Appending adds the element, and keeps elements distinct if it is new.
LEMMA AppendElements ==
    ASSUME NEW S, NEW s \in Seq(S), NEW x \in S
    PROVE  /\ Append(s, x) \in Seq(S)
           /\ Elements(Append(s, x)) = Elements(s) \cup {x}
           /\ Distinct(s) /\ x \notin Elements(s) => Distinct(Append(s, x))
<1> DEFINE t == Append(s, x)
<1>1. /\ Len(s) \in Nat /\ DOMAIN s = 1 .. Len(s)
      /\ t \in Seq(S) /\ DOMAIN t = 1 .. Len(s) + 1
      /\ \A i \in 1 .. Len(s) : t[i] = s[i]
      /\ t[Len(s) + 1] = x
  BY AppendProperties, LenProperties
<1> HIDE DEF t
<1>2. \A i \in DOMAIN t : i \in DOMAIN s \/ i = Len(s) + 1
  BY <1>1
<1>3. Elements(t) = Elements(s) \cup {x}
  BY <1>1, <1>2 DEF Elements
<1>4. ASSUME Distinct(s), x \notin Elements(s) PROVE Distinct(t)
  BY <1>1, <1>2, <1>4 DEF Distinct, Elements
<1> QED BY <1>1, <1>3, <1>4 DEF t

\* A queue consists of its head and its tail; the head is not seen again if the
\* elements are distinct.
LEMMA HeadTailElements ==
    ASSUME NEW S, NEW s \in Seq(S), s # << >>
    PROVE  /\ Head(s) \in S /\ Tail(s) \in Seq(S)
           /\ Elements(s) = {Head(s)} \cup Elements(Tail(s))
           /\ Distinct(s) => Distinct(Tail(s)) /\ Head(s) \notin Elements(Tail(s))
<1>1. Head(s) \in S /\ Tail(s) \in Seq(S) /\ Head(s) = s[1]
  BY HeadTailProperties
<1>2. /\ Len(s) \in Nat /\ Len(s) > 0 /\ DOMAIN s = 1 .. Len(s)
      /\ DOMAIN Tail(s) = 1 .. Len(s) - 1
      /\ \A i \in 1 .. Len(s) - 1 : Tail(s)[i] = s[i + 1]
  BY HeadTailProperties, EmptySeq, LenProperties
<1>3. Elements(s) = {Head(s)} \cup Elements(Tail(s))
  <2>1. ASSUME NEW i \in DOMAIN s
        PROVE  s[i] \in {Head(s)} \cup Elements(Tail(s))
    <3>1. CASE i = 1
      BY <3>1, <1>1
    <3>2. CASE i # 1
      <4>1. i - 1 \in DOMAIN Tail(s) /\ Tail(s)[i - 1] = s[i]
        BY <3>2, <1>2
      <4> QED BY <4>1 DEF Elements
    <3> QED BY <3>1, <3>2
  <2>2. ASSUME NEW i \in DOMAIN Tail(s)
        PROVE  i + 1 \in DOMAIN s /\ Tail(s)[i] = s[i + 1]
    BY <1>2
  <2>3. Head(s) \in Elements(s)
    BY <1>1, <1>2 DEF Elements
  <2> QED BY <2>1, <2>2, <2>3 DEF Elements
<1>4. Distinct(s) => Distinct(Tail(s)) /\ Head(s) \notin Elements(Tail(s))
  BY <1>1, <1>2 DEF Distinct, Elements
<1> QED BY <1>1, <1>3, <1>4

\* The elements of a sequence over S are in S.
LEMMA ElementsTyped ==
    ASSUME NEW S, NEW s \in Seq(S)
    PROVE  Elements(s) \subseteq S
BY ElementOfSeq, LenProperties DEF Elements

-----------------------------------------------------------------------------
(* Type correctness *)

\* Every step keeps the variables in their types: the whole of Redirection's
\* actions (QueueRequest, ProcessRedirectionRequests and the ends of processes).
LEMMA TypeStep == TypeOK /\ [Next]_vars => TypeOK'
<1> SUFFICES ASSUME TypeOK, [Next]_vars PROVE TypeOK'
  OBVIOUS
<1> USE DEF TypeOK
<1>1. ASSUME NEW r \in Requests, QueueRequest(r) PROVE TypeOK'
  <2>1. CASE EnqueueRedirectionRequestId(r)
    BY <2>1, AppendElements DEF EnqueueRedirectionRequestId, Advance, target, history
  <2>2. CASE OpenPacket(r) \/ CreateCleanupEvent(r) \/ SetEvent(r) \/ WaitReturns(r)
    BY <2>2 DEF OpenPacket, CreateCleanupEvent, SetEvent, WaitReturns, Advance, target, history
  <2> QED BY <1>1, <2>1, <2>2 DEF QueueRequest
<1>2. CASE WatcherFires
  BY <1>2 DEF WatcherFires, request, history
<1>3. CASE ProcessRedirectionRequests
  <2>1. CASE DequeueRedirectionRequestId
    <3>1. CASE queue # << >>
      <4>1. Head(queue) \in Requests /\ Tail(queue) \in Seq(Requests)
        BY <3>1, HeadTailElements
      <4>2. Append(received, Head(queue)) \in Seq(Requests)
        BY <4>1, AppendElements
      <4> QED BY <2>1, <3>1, <4>1, <4>2 DEF DequeueRedirectionRequestId, request
    <3>2. CASE queue = << >>
      BY <2>1, <3>2 DEF DequeueRedirectionRequestId, request
    <3> QED BY <3>1, <3>2
  <2>2. CASE ResetEvent \/ UnmarshalArguments \/ UnmarshalThrows
    BY <2>2 DEF ResetEvent, UnmarshalArguments, UnmarshalThrows, request, history
  <2>3. CASE RaiseActivated
    BY <2>3, AppendElements DEF RaiseActivated, request
  <2>4. CASE SignalCleanup
    BY <2>4 DEF SignalCleanup, HasCleanupEvent, history
  <2> QED BY <1>3, <2>1, <2>2, <2>3, <2>4 DEF ProcessRedirectionRequests
<1>4. ASSUME NEW p \in Procs, ProcessEnds(p) PROVE TypeOK'
  BY <1>4 DEF ProcessEnds, target, history
<1>5. CASE TargetEnds
  BY <1>5 DEF TargetEnds, request, history
<1>6. CASE UNCHANGED vars
  BY <1>6 DEF vars, request, target, history
<1> QED BY <1>1, <1>2, <1>3, <1>4, <1>5, <1>6 DEF Next

\* The variables always have their types.
THEOREM TypeCorrect == Spec => []TypeOK
<1>1. Init => TypeOK
  BY EmptySeq DEF Init, TypeOK
<1> QED BY <1>1, TypeStep, PTL DEF Spec

-----------------------------------------------------------------------------
(* No lost wakeup *)

\* The only step that arms the watcher again is the one that found the queue
\* empty, and the only step that begins a wait has just set the event.
LEMMA WakeupStep == TypeOK /\ NoLostWakeup /\ [Next]_vars => NoLostWakeup'
<1> SUFFICES ASSUME TypeOK, NoLostWakeup, [Next]_vars PROVE NoLostWakeup'
  OBVIOUS
<1> USE DEF TypeOK, NoLostWakeup
<1>1. ASSUME NEW r \in Requests, QueueRequest(r) PROVE NoLostWakeup'
  <2>1. CASE EnqueueRedirectionRequestId(r)
    <3>1. Elements(queue') = Elements(queue) \cup {r} /\ rpc'[r] = "queued"
      BY <2>1, AppendElements DEF EnqueueRedirectionRequestId, Advance
    <3> QED BY <2>1, <3>1 DEF EnqueueRedirectionRequestId, Advance, target
  <2>2. CASE OpenPacket(r) \/ CreateCleanupEvent(r) \/ WaitReturns(r)
    BY <2>2 DEF OpenPacket, CreateCleanupEvent, WaitReturns, Advance, target, Elements
  <2>3. CASE SetEvent(r)
    BY <2>3 DEF SetEvent
  <2> QED BY <1>1, <2>1, <2>2, <2>3 DEF QueueRequest
<1>2. CASE WatcherFires
  BY <1>2 DEF WatcherFires
<1>3. CASE ProcessRedirectionRequests
  <2>1. CASE DequeueRedirectionRequestId
    <3>1. CASE tpc' = "open"
      BY <3>1
    <3>2. CASE queue = << >> /\ queue' = queue
      BY <3>2 DEF Elements
    <3> QED BY <2>1, <3>1, <3>2 DEF DequeueRedirectionRequestId
  <2>2. CASE ResetEvent \/ UnmarshalArguments \/ UnmarshalThrows \/ RaiseActivated \/ SignalCleanup
    BY <2>2 DEF ResetEvent, UnmarshalArguments, UnmarshalThrows, RaiseActivated, SignalCleanup
  <2> QED BY <1>3, <2>1, <2>2 DEF ProcessRedirectionRequests
<1>4. ASSUME NEW p \in Procs, ProcessEnds(p) PROVE NoLostWakeup'
  BY <1>4 DEF ProcessEnds, target, Elements
<1>5. CASE TargetEnds
  BY <1>5 DEF TargetEnds
<1>6. CASE UNCHANGED vars
  BY <1>6 DEF vars, request, target, Elements
<1> QED BY <1>1, <1>2, <1>3, <1>4, <1>5, <1>6 DEF Next

\* A request whose sender waits never sits in the queue of a target whose
\* callback is neither running nor about to be started.
THEOREM WakeupNeverLost == Spec => []NoLostWakeup
<1>1. Init => NoLostWakeup
  BY DEF Init, NoLostWakeup, Elements
<1> QED BY <1>1, WakeupStep, TypeCorrect, PTL DEF Spec
-----------------------------------------------------------------------------
(* A request is sent once *)

\* Only EnqueueRedirectionRequestId adds to the queue, a request that was not
\* sent before; Dequeue moves the head from one sequence to the other; nothing
\* takes a sent request back.
LEMMA SentStep == TypeOK /\ SentOnce /\ [Next]_vars => SentOnce'
<1> SUFFICES ASSUME TypeOK, SentOnce, [Next]_vars PROVE SentOnce'
  OBVIOUS
<1> USE DEF TypeOK, SentOnce
<1>1. ASSUME UNCHANGED <<queue, received>>,
             \A r \in Requests : rpc[r] \in {"queued", "wait", "done", "dead"}
                                   => rpc'[r] \in {"queued", "wait", "done", "dead"}
      PROVE  SentOnce'
  <2>1. Elements(queue) \subseteq Requests /\ Elements(received) \subseteq Requests
    BY ElementsTyped
  <2> QED BY <1>1, <2>1
<1>2. ASSUME NEW r \in Requests, QueueRequest(r) PROVE SentOnce'
  <2>1. CASE EnqueueRedirectionRequestId(r)
    <3> DEFINE longer == Append(queue, r)
    <3>1. /\ rpc[r] = "event" /\ rpc' = [rpc EXCEPT ![r] = "queued"]
          /\ queue' = longer /\ received' = received
      BY <2>1 DEF EnqueueRedirectionRequestId, Advance, history
    <3>2. r \notin Elements(queue) \cup Elements(received)
      BY <3>1
    <3>3. Distinct(longer) /\ Elements(longer) = Elements(queue) \cup {r}
      BY <3>2, AppendElements
    <3> HIDE DEF longer
    <3>4. Distinct(received)' /\ Elements(received)' = Elements(received)
      BY <3>1
    <3>5. Distinct(queue)' /\ Elements(queue)' = Elements(queue) \cup {r}
      BY <3>1, <3>3
    <3>6. Elements(queue)' \cap Elements(received)' = {}
      BY <3>2, <3>4, <3>5
    <3>7. \A q \in Elements(queue)' \cup Elements(received)' :
             rpc'[q] \in {"queued", "wait", "done", "dead"}
      BY <3>1, <3>4, <3>5
    <3> QED BY <3>4, <3>5, <3>6, <3>7
  <2>2. CASE OpenPacket(r) \/ CreateCleanupEvent(r) \/ SetEvent(r) \/ WaitReturns(r)
    BY <1>1, <2>2 DEF OpenPacket, CreateCleanupEvent, SetEvent, WaitReturns, Advance, history
  <2> QED BY <1>2, <2>1, <2>2 DEF QueueRequest
<1>3. CASE WatcherFires
  BY <1>1, <1>3 DEF WatcherFires, request, history
<1>4. CASE ProcessRedirectionRequests
  <2>1. CASE DequeueRedirectionRequestId
    <3>1. CASE queue # << >>
      <4> DEFINE h == Head(queue)
                 longer == Append(received, h)
      <4>1. /\ h \in Requests /\ Tail(queue) \in Seq(Requests)
            /\ Elements(queue) = {h} \cup Elements(Tail(queue))
            /\ Distinct(Tail(queue)) /\ h \notin Elements(Tail(queue))
        BY <3>1, HeadTailElements
      <4>2. queue' = Tail(queue) /\ received' = longer /\ rpc' = rpc
        BY <2>1, <3>1 DEF DequeueRedirectionRequestId, request
      <4> HIDE DEF h
      <4>3. Distinct(longer) /\ Elements(longer) = Elements(received) \cup {h}
        BY <4>1, AppendElements
      <4> HIDE DEF longer
      <4>4. Distinct(queue)' /\ Elements(queue)' = Elements(Tail(queue))
        BY <4>1, <4>2
      <4>5. Distinct(received)' /\ Elements(received)' = Elements(received) \cup {h}
        BY <4>2, <4>3
      <4> QED BY <4>1, <4>2, <4>4, <4>5
    <3>2. CASE queue = << >>
      BY <1>1, <2>1, <3>2 DEF DequeueRedirectionRequestId, request
    <3> QED BY <3>1, <3>2
  <2>2. CASE \/ ResetEvent \/ UnmarshalArguments \/ UnmarshalThrows
             \/ RaiseActivated \/ SignalCleanup
    BY <1>1, <2>2 DEF ResetEvent, UnmarshalArguments, UnmarshalThrows,
                      RaiseActivated, SignalCleanup, request, history
  <2> QED BY <1>4, <2>1, <2>2 DEF ProcessRedirectionRequests
<1>5. ASSUME NEW p \in Procs, ProcessEnds(p) PROVE SentOnce'
  BY <1>1, <1>5 DEF ProcessEnds, history
<1>6. CASE TargetEnds
  BY <1>1, <1>6 DEF TargetEnds, request, history
<1>7. CASE UNCHANGED vars
  BY <1>1, <1>7 DEF vars, request, history
<1> QED BY <1>2, <1>3, <1>4, <1>5, <1>6, <1>7 DEF Next

-----------------------------------------------------------------------------
(* A request is raised after it was received, and released after it was raised *)

\* Dequeue takes a request in hand, RaiseActivated puts it down, and no other
\* step of anybody disturbs the two histories.
LEMMA HandStep == TypeOK /\ InHand /\ [Next]_vars => InHand'
<1> SUFFICES ASSUME TypeOK, InHand, [Next]_vars PROVE InHand'
  OBVIOUS
<1> USE DEF TypeOK, InHand
<1>1. ASSUME NEW r \in Requests, QueueRequest(r) PROVE InHand'
  BY <1>1 DEF QueueRequest, OpenPacket, CreateCleanupEvent, SetEvent, WaitReturns,
              EnqueueRedirectionRequestId, target, history
<1>2. CASE WatcherFires
  BY <1>2 DEF WatcherFires, history
<1>3. CASE ProcessRedirectionRequests
  <2>1. CASE DequeueRedirectionRequestId
    <3>1. CASE queue # << >>
      <4>1. Head(queue) \in Requests
        BY <3>1, HeadTailElements
      <4> QED BY <2>1, <3>1, <4>1 DEF DequeueRedirectionRequestId
    <3>2. CASE queue = << >>
      BY <2>1, <3>2 DEF DequeueRedirectionRequestId
    <3> QED BY <3>1, <3>2
  <2>2. CASE RaiseActivated
    BY <2>2 DEF RaiseActivated
  <2>3. CASE ResetEvent \/ UnmarshalArguments \/ UnmarshalThrows \/ SignalCleanup
    BY <2>3 DEF ResetEvent, UnmarshalArguments, UnmarshalThrows, SignalCleanup, history
  <2> QED BY <1>3, <2>1, <2>2, <2>3 DEF ProcessRedirectionRequests
<1>4. ASSUME NEW p \in Procs, ProcessEnds(p) PROVE InHand'
  BY <1>4 DEF ProcessEnds, target, history
<1>5. CASE TargetEnds
  BY <1>5 DEF TargetEnds, history
<1>6. CASE UNCHANGED vars
  BY <1>6 DEF vars, target, history
<1> QED BY <1>1, <1>2, <1>3, <1>4, <1>5, <1>6 DEF Next

\* A cleanup event is signalled only behind RaiseActivated, a wait ends only
\* with its cleanup event, and what was raised stays raised.
LEMMA ReleaseStep == TypeOK /\ ReleasedRaised /\ [Next]_vars => ReleasedRaised'
<1> SUFFICES ASSUME TypeOK, ReleasedRaised, [Next]_vars PROVE ReleasedRaised'
  OBVIOUS
<1> USE DEF TypeOK, ReleasedRaised
<1>1. ASSUME NEW r \in Requests, QueueRequest(r) PROVE ReleasedRaised'
  <2>1. CASE WaitReturns(r)
    BY <2>1 DEF WaitReturns, Advance, target, history, Elements
  <2>2. CASE OpenPacket(r) \/ CreateCleanupEvent(r) \/ EnqueueRedirectionRequestId(r) \/ SetEvent(r)
    BY <2>2 DEF OpenPacket, CreateCleanupEvent, EnqueueRedirectionRequestId, SetEvent,
                Advance, target, history, Elements
  <2> QED BY <1>1, <2>1, <2>2 DEF QueueRequest
<1>2. CASE WatcherFires
  BY <1>2 DEF WatcherFires, request, history, Elements
<1>3. CASE ProcessRedirectionRequests
  <2>1. CASE RaiseActivated
    <3>1. treq \in Requests /\ raised' = Append(raised, treq) /\ treq' = treq
      BY <2>1 DEF RaiseActivated
    <3>2. Elements(Append(raised, treq)) = Elements(raised) \cup {treq}
      BY <3>1, AppendElements
    <3>3. Elements(raised)' = Elements(raised) \cup {treq}
      BY <3>1, <3>2 DEF Elements
    <3> QED BY <2>1, <3>1, <3>3 DEF RaiseActivated, request
  <2>2. CASE SignalCleanup
    BY <2>2 DEF SignalCleanup, history, Elements
  <2>3. CASE \/ ResetEvent \/ DequeueRedirectionRequestId
             \/ UnmarshalArguments \/ UnmarshalThrows
    BY <2>3 DEF ResetEvent, DequeueRedirectionRequestId, UnmarshalArguments,
                UnmarshalThrows, request, history, Elements
  <2> QED BY <1>3, <2>1, <2>2, <2>3 DEF ProcessRedirectionRequests
<1>4. ASSUME NEW p \in Procs, ProcessEnds(p) PROVE ReleasedRaised'
  BY <1>4 DEF ProcessEnds, target, history, Elements
<1>5. CASE TargetEnds
  BY <1>5 DEF TargetEnds, request, history, Elements
<1>6. CASE UNCHANGED vars
  BY <1>6 DEF vars, request, target, history, Elements
<1> QED BY <1>1, <1>2, <1>3, <1>4, <1>5, <1>6 DEF Next

\* The inductive invariant holds in every reachable state.
THEOREM InductiveInvariant == Spec => []IInv
<1>1. Init => IInv
  <2> SUFFICES ASSUME Init PROVE IInv
    OBVIOUS
  <2>1. TypeOK
    BY EmptySeq DEF Init, TypeOK
  <2>2. SentOnce /\ ReleasedRaised
    BY DEF Init, SentOnce, ReleasedRaised, Distinct, Elements
  <2>3. InHand
    BY DEF Init, InHand
  <2> QED BY <2>1, <2>2, <2>3 DEF IInv
<1>2. IInv /\ [Next]_vars => IInv'
  BY TypeStep, SentStep, HandStep, ReleaseStep DEF IInv
<1> QED BY <1>1, <1>2, PTL DEF Spec

\* A redirecting process goes on only when the target's Activated event was
\* raised for its request, whoever dies when.
THEOREM WaitsForActivation == Spec => []WaitEndsAfterActivation
<1>1. IInv => WaitEndsAfterActivation
  BY DEF IInv, ReleasedRaised, WaitEndsAfterActivation
<1> QED BY <1>1, InductiveInvariant, PTL

\* The Activated event is raised at most once for a request, in dequeue order.
THEOREM RaisesInOrder == Spec => []RaisedOnceInOrder
<1>1. ASSUME IInv PROVE RaisedOnceInOrder
  <2> USE <1>1 DEF IInv, TypeOK, InHand
  <2>1. Distinct(received)
    BY DEF SentOnce
  <2>2. CASE raised = received
    BY <2>1, <2>2, LenProperties DEF Distinct, RaisedOnceInOrder
  <2>3. CASE received = Append(raised, treq) /\ treq \in Requests
    <3>1. /\ Len(raised) \in Nat /\ Len(received) = Len(raised) + 1
          /\ DOMAIN raised = 1 .. Len(raised) /\ DOMAIN received = 1 .. Len(raised) + 1
          /\ \A i \in 1 .. Len(raised) : received[i] = raised[i]
      BY <2>3, AppendProperties, LenProperties
    <3> QED BY <2>1, <3>1 DEF Distinct, RaisedOnceInOrder
  <2> QED BY <2>2, <2>3
<1> QED BY <1>1, InductiveInvariant, PTL

=============================================================================
