----------------------- MODULE RedirectionQueueProofs -----------------------
(***************************************************************************)
(* Proofs about RedirectionQueue: for any number of processes, requests    *)
(* and slots, the list in the shared section is well formed whenever its   *)
(* mutex is free, a request is received at most once, one that was         *)
(* accepted is received or keeps a slot, and the list implements the       *)
(* first-in first-out queue of RequestFifo.  A process may be terminated   *)
(* anywhere: what is lost when one dies between the store that links an    *)
(* item and the one that gives it its id is said by "torn", in RequestFifo *)
(* too.                                                                    *)
(***************************************************************************)
EXTENDS RedirectionQueue, SequenceTheorems, FiniteSetTheorems, WellFoundedInduction, TLAPS

\* What the types rest on: locals are set before they are used.
LocalsSet ==
    /\ \A w \in Writers : /\ pc[w] \in Critical => req[w] \in Ids
                          /\ pc[w] = "walk" => cur[w] # 0
    /\ tpc # "idle" => victim # 0

Sound == LinkedInUse /\ OneLinkEach /\ HeadUnlinked /\ FreeUnlinked

\* Who is between the begin and the end of an operation has the mutex.
Exclusion ==
    /\ \A w \in Writers : pc[w] \in Critical <=> mutex = w
    /\ tpc # "idle" <=> mutex = "target"

\* What Enqueue knows of its slot and of where to link it, step by step.
IsFree(s) == s \in Slots /\ ~inUse[s]
EnqueueSound(w) ==
    LET n == new[w] IN
    /\ pc[w] \in {"alloc", "walk", "link", "name", "clear", "unlock"} => Sound
    /\ pc[w] \in {"walk", "link"} => IsFree(n)
    /\ pc[w] = "walk" => cur[w] \in Slots /\ inUse[cur[w]]
    /\ pc[w] = "link" => \/ cur[w] = 0 /\ head = 0
                         \/ cur[w] \in Slots /\ inUse[cur[w]] /\ next[cur[w]] = 0
    /\ pc[w] \in {"name", "clear"} => n \in Slots /\ inUse[n] /\ next[n] = 0
    /\ pc[w] = "mark" =>
         /\ IsFree(n) /\ OneLinkEach /\ FreeUnlinked
         /\ \A s \in Slots : next[s] \notin {0, n} => inUse[next[s]]
         /\ head # 0 => (head = n \/ inUse[head]) /\ \A s \in Slots : next[s] # head

\* What Dequeue knows of the item it takes out, step by step.
DequeueSound ==
    /\ tpc # "idle" => victim \in Slots /\ (\A s \in Slots : next[s] # victim) /\ head # victim
    /\ tpc \in {"free", "unlink"} =>
         /\ LinkedInUse /\ OneLinkEach
         /\ head = next[victim] /\ (head # 0 => inUse[head])
         /\ \A s \in Slots \ {victim} : ~inUse[s] => next[s] = 0
    /\ tpc = "free" => inUse[victim]
    /\ tpc \in {"unlink", "return"} => ~inUse[victim]
    /\ tpc = "return" => Sound

ListInv ==
    /\ TypeOK /\ LocalsSet /\ Exclusion
    /\ mutex = "none" => Sound
    /\ \A w \in Writers : EnqueueSound(w)
    /\ DequeueSound

\* Slots that hold a request, requests that were received.
Filled == {s \in Slots : inUse[s] /\ \A w \in Writers : pc[w] = "name" => new[w] # s}
Values(seq) == {seq[k] : k \in DOMAIN seq}
Got == Values(received)

\* A request is in one place: with the process that sends it, in a slot, with
\* the target or received.
Fresh(i) == i \in Ids \ (unsent \cup Got)
Sending == {"alloc", "walk", "link", "mark", "name"}
PlaceInv ==
    /\ \A s \in Filled : Fresh(id[s])
    /\ \A s, t \in Filled : id[s] = id[t] => s = t
    /\ \A w \in Writers : pc[w] \in Sending => Fresh(req[w]) /\ \A s \in Filled : id[s] # req[w]
    /\ tpc # "idle" => Fresh(id[victim]) /\ \A s \in Filled \ {victim} : id[s] # id[victim]
    /\ Got \subseteq Ids \ unsent

\* A request is received at most once.
ReceivedOnce == \A j, k \in DOMAIN received : received[j] = received[k] => j = k

\* A request that was accepted was received or is in a slot, unless the target is
\* just taking it out.
AcceptedKept ==
    \A i \in accepted : \/ i \in Got
                        \/ \E s \in Filled : id[s] = i
                        \/ tpc # "idle" /\ id[victim] = i
AlmostAccepted ==
    \A w \in Writers : pc[w] \in {"clear", "unlock"} => new[w] \in Filled /\ id[new[w]] = req[w]

WholeInv == ListInv /\ PlaceInv /\ ReceivedOnce /\ AcceptedKept /\ AlmostAccepted

\* Types and the mutex do not depend on what is in the list; the rest holds until
\* an item is torn.
IInv ==
    /\ TypeOK /\ LocalsSet /\ Exclusion
    /\ ~torn => WholeInv

-----------------------------------------------------------------------------
(* Type correctness *)

\* Every store of Enqueue and Dequeue, and every end of a process, keeps the
\* variables in their types.
LEMMA TypeStep ==
    ASSUME TypeOK, LocalsSet, [Next]_vars
    PROVE  TypeOK' /\ LocalsSet'
<1>a. 0 \in 0 .. Size /\ Slots \subseteq 0 .. Size /\ \A s \in 0 .. Size : s # 0 => s \in Slots
  BY SizeAssumption DEF Slots
<1> USE <1>a DEF TypeOK, LocalsSet, Critical, mem, writer, target
<1>1. ASSUME NEW w \in Writers, BeginEnqueue(w) PROVE TypeOK' /\ LocalsSet'
  BY <1>1 DEF BeginEnqueue
<1>2. ASSUME NEW w \in Writers, AllocateItem(w) PROVE TypeOK' /\ LocalsSet'
  BY <1>2 DEF AllocateItem
<1>3. ASSUME NEW w \in Writers, AllocateFault(w) PROVE TypeOK' /\ LocalsSet'
  BY <1>3 DEF AllocateFault
<1>4. ASSUME NEW w \in Writers, Walk(w) PROVE TypeOK' /\ LocalsSet'
  BY <1>4 DEF Walk
<1>5. ASSUME NEW w \in Writers, Link(w) PROVE TypeOK' /\ LocalsSet'
  BY <1>5 DEF Link
<1>6. ASSUME NEW w \in Writers, MarkInUse(w) PROVE TypeOK' /\ LocalsSet'
  BY <1>6 DEF MarkInUse
<1>7. ASSUME NEW w \in Writers, StoreId(w) PROVE TypeOK' /\ LocalsSet'
  BY <1>7 DEF StoreId
<1>8. ASSUME NEW w \in Writers, ClearNext(w) PROVE TypeOK' /\ LocalsSet'
  BY <1>8 DEF ClearNext
<1>9. ASSUME NEW w \in Writers, EndEnqueue(w) PROVE TypeOK' /\ LocalsSet'
  BY <1>9 DEF EndEnqueue
<1>10. ASSUME NEW w \in Writers, Die(w) PROVE TypeOK' /\ LocalsSet'
  BY <1>10 DEF Die
<1>11. CASE BeginDequeue
  BY <1>11 DEF BeginDequeue
<1>12. CASE FreeItem
  BY <1>12 DEF FreeItem
<1>13. CASE Unlink
  BY <1>13 DEF Unlink
<1>14. CASE EndDequeue
  <2>1. victim \in Slots
    BY <1>14 DEF EndDequeue
  <2>2. Append(received, id[victim]) \in Seq(Ids \cup {NullId})
    BY <2>1, AppendProperties
  <2> QED BY <1>14, <2>2 DEF EndDequeue
<1>15. CASE UNCHANGED vars
  BY <1>15 DEF vars
<1> QED BY <1>1, <1>2, <1>3, <1>4, <1>5, <1>6, <1>7, <1>8, <1>9, <1>10, <1>11, <1>12, <1>13, <1>14,
           <1>15 DEF Next, EnqueueStep, DequeueStep

\* The variables have their types at first.
LEMMA TypesAtFirst == ASSUME Init PROVE TypeOK /\ LocalsSet
<1>1. torn \in BOOLEAN /\ received \in Seq(Ids \cup {NullId})
  BY EmptySeq DEF Init
<1>2. 0 \in 0 .. Size /\ "idle" \notin Critical
  BY SizeAssumption DEF Critical
<1>3. LocalsSet
  BY <1>2 DEF Init, LocalsSet
<1>4. TypeOK
  BY <1>1, <1>2 DEF Init, TypeOK
<1> QED BY <1>3, <1>4

\* The variables always have their types.
THEOREM TypeCorrect == Spec => []TypeOK
<1>1. Init => TypeOK /\ LocalsSet
  BY TypesAtFirst
<1> QED BY <1>1, TypeStep, PTL DEF Spec

-----------------------------------------------------------------------------
(* The list *)

\* Who has the mutex is alone with the list.
LEMMA Alone ==
    ASSUME TypeOK, Exclusion
    PROVE  /\ mutex \in Writers => tpc = "idle"
           /\ \A v \in Writers : mutex # v => pc[v] \notin Critical
           /\ mutex \in Writers => mutex # "none" /\ mutex # "target"
BY WriterAssumption DEF TypeOK, Exclusion

\* Who has the mutex is alone with it, whatever the list looks like.
LEMMA ExclusionStep ==
    ASSUME TypeOK, Exclusion, [Next]_vars
    PROVE  Exclusion'
<1>a. /\ mutex \in Writers => tpc = "idle"
      /\ \A v \in Writers : mutex # v => pc[v] \notin Critical
      /\ mutex \in Writers => mutex # "none" /\ mutex # "target"
  BY Alone
<1> USE <1>a, WriterAssumption DEF TypeOK, Exclusion, Critical, writer, target
<1>1. ASSUME NEW w \in Writers, EnqueueStep(w) \/ Die(w) PROVE Exclusion'
  BY <1>1 DEF EnqueueStep, BeginEnqueue, AllocateItem, AllocateFault, Walk, Link, MarkInUse, StoreId, ClearNext,
              EndEnqueue, Die
<1>2. ASSUME DequeueStep \/ UNCHANGED vars PROVE Exclusion'
  BY <1>2 DEF DequeueStep, BeginDequeue, FreeItem, Unlink, EndDequeue, vars
<1> QED BY <1>1, <1>2 DEF Next

\* Every step that leaves no torn item preserves the invariant of the list.
LEMMA ListStep ==
    ASSUME ~torn', ListInv, [Next]_vars
    PROVE  ListInv'
<1>0. /\ TypeOK /\ LocalsSet /\ TypeOK' /\ LocalsSet' /\ Exclusion /\ DequeueSound
      /\ \A w \in Writers : EnqueueSound(w)
      /\ mutex = "none" => Sound
  BY TypeStep DEF ListInv
<1>a. /\ mutex \in Writers => tpc = "idle"
      /\ \A v \in Writers : mutex # v => pc[v] \notin Critical
      /\ mutex \in Writers => mutex # "none" /\ mutex # "target"
  BY <1>0, Alone
<1>b. 0 \in 0 .. Size /\ 0 \notin Slots /\ \A s \in 0 .. Size : s # 0 => s \in Slots
  BY SizeAssumption DEF Slots
<1> USE <1>0, <1>a, <1>b, WriterAssumption DEF TypeOK, Critical, mem, writer, target
<1> USE DEF Exclusion, EnqueueSound, Sound, LinkedInUse, OneLinkEach, HeadUnlinked, FreeUnlinked, IsFree
<1>1. ASSUME NEW w \in Writers, BeginEnqueue(w) PROVE ListInv'
  BY <1>1 DEF BeginEnqueue, ListInv, DequeueSound
<1>2. ASSUME NEW w \in Writers, AllocateItem(w) PROVE ListInv'
  BY <1>2 DEF AllocateItem, ListInv, DequeueSound
<1>3. ASSUME NEW w \in Writers, AllocateFault(w) PROVE ListInv'
  BY <1>3 DEF AllocateFault, ListInv, DequeueSound
<1>4. ASSUME NEW w \in Writers, Walk(w) PROVE ListInv'
  BY <1>4, SMTT(20) DEF Walk, ListInv, DequeueSound
<1>5. ASSUME NEW w \in Writers, Link(w) PROVE ListInv'
  <2>1. mutex = w /\ tpc = "idle"
    BY <1>5 DEF Link
  <2>2. Exclusion'
    BY <1>5, <2>1 DEF Link
  <2>3. \A v \in Writers \ {w} : EnqueueSound(v)'
    BY <1>5, <2>1 DEF Link
  <2>4. EnqueueSound(w)'
    <3>1. IsFree(new[w]) /\ Sound
      BY <1>5 DEF Link
    <3>2. CASE cur[w] = 0
      BY <1>5, <3>1, <3>2 DEF Link
    <3>3. CASE cur[w] # 0
      <4>1. /\ cur[w] \in Slots /\ inUse[cur[w]] /\ next[cur[w]] = 0
            /\ next' = [next EXCEPT ![cur[w]] = new[w]]
            /\ head' = head /\ inUse' = inUse /\ new' = new /\ pc' = [pc EXCEPT ![w] = "mark"]
        BY <1>5, <3>3 DEF Link
      <4>2. \A s \in Slots : next[s] # new[w]
        BY <3>1
      <4> QED BY <3>1, <4>1, <4>2
    <3> QED BY <3>2, <3>3
  <2> QED BY <1>5, <2>1, <2>2, <2>3, <2>4 DEF Link, ListInv, DequeueSound
<1>6. ASSUME NEW w \in Writers, MarkInUse(w) PROVE ListInv'
  BY <1>6 DEF MarkInUse, ListInv, DequeueSound
<1>7. ASSUME NEW w \in Writers, StoreId(w) PROVE ListInv'
  BY <1>7 DEF StoreId, ListInv, DequeueSound
<1>8. ASSUME NEW w \in Writers, ClearNext(w) PROVE ListInv'
  BY <1>8 DEF ClearNext, ListInv, DequeueSound
<1>9. ASSUME NEW w \in Writers, EndEnqueue(w) PROVE ListInv'
  BY <1>9 DEF EndEnqueue, ListInv, DequeueSound
<1>10. ASSUME NEW w \in Writers, Die(w) PROVE ListInv'
  BY <1>10 DEF Die, ListInv, DequeueSound
<1>11. CASE BeginDequeue
  BY <1>11 DEF BeginDequeue, ListInv, DequeueSound
<1>12. CASE FreeItem
  BY <1>12 DEF FreeItem, ListInv, DequeueSound
<1>13. CASE Unlink
  BY <1>13 DEF Unlink, ListInv, DequeueSound
<1>14. CASE EndDequeue
  BY <1>14 DEF EndDequeue, ListInv, DequeueSound
<1>15. CASE UNCHANGED vars
  BY <1>15 DEF vars, ListInv, DequeueSound
<1> QED BY <1>1, <1>2, <1>3, <1>4, <1>5, <1>6, <1>7, <1>8, <1>9, <1>10, <1>11, <1>12, <1>13, <1>14,
           <1>15 DEF Next, EnqueueStep, DequeueStep

-----------------------------------------------------------------------------
(* The requests *)

\* What appending adds to the values of a sequence.
LEMMA AppendValues ==
    ASSUME NEW S, NEW s \in Seq(S), NEW x \in S
    PROVE  /\ Values(Append(s, x)) = Values(s) \cup {x}
           /\ \A j, k \in DOMAIN Append(s, x) :
                 Append(s, x)[j] = Append(s, x)[k] =>
                     j = k \/ x \in Values(s) \/ (j \in DOMAIN s /\ k \in DOMAIN s /\ s[j] = s[k])
<1> DEFINE t == Append(s, x)
<1>1. /\ Len(s) \in Nat /\ DOMAIN s = 1 .. Len(s) /\ DOMAIN t = 1 .. Len(s) + 1
      /\ \A i \in 1 .. Len(s) : t[i] = s[i]
      /\ t[Len(s) + 1] = x
  BY AppendProperties, LenProperties
<1> HIDE DEF t
<1>2. DOMAIN t = DOMAIN s \cup {Len(s) + 1} /\ Len(s) + 1 \notin DOMAIN s
  BY <1>1
<1>3. Values(t) = Values(s) \cup {x}
  BY <1>1, <1>2 DEF Values
<1>4. \A j, k \in DOMAIN t : t[j] = t[k] =>
          j = k \/ x \in Values(s) \/ (j \in DOMAIN s /\ k \in DOMAIN s /\ s[j] = s[k])
  BY <1>1, <1>2 DEF Values
<1> QED BY <1>3, <1>4 DEF t

\* Every step keeps a request in one place, and an accepted one in some place.
LEMMA PlaceStep ==
    ASSUME ~torn', ListInv, ListInv', PlaceInv, AcceptedKept, AlmostAccepted, [Next]_vars
    PROVE  PlaceInv' /\ AcceptedKept' /\ AlmostAccepted'
<1> DEFINE Goal == PlaceInv' /\ AcceptedKept' /\ AlmostAccepted'
<1>0. /\ TypeOK /\ LocalsSet /\ TypeOK' /\ Exclusion
      /\ DequeueSound
      /\ mutex = "none" => Sound
      /\ \A w \in Writers : EnqueueSound(w)
  BY DEF ListInv
<1>a. /\ mutex \in Writers => tpc = "idle"
      /\ \A v \in Writers : mutex # v => pc[v] \notin Critical
      /\ mutex \in Writers => mutex # "none" /\ mutex # "target"
  BY <1>0, Alone
<1> USE <1>0, <1>a DEF TypeOK, Exclusion, Critical, mem, writer, target
<1>1. ASSUME NEW w \in Writers, BeginEnqueue(w) PROVE Goal
  <2>1. Filled' = Filled /\ Got' = Got
    BY <1>1 DEF BeginEnqueue, Filled, Got
  <2> QED BY <1>1, <2>1 DEF BeginEnqueue, Fresh, Sending, PlaceInv, AcceptedKept, AlmostAccepted
<1>2. ASSUME NEW w \in Writers, AllocateItem(w) PROVE Goal
  <2>1. Filled' = Filled /\ Got' = Got
    BY <1>2 DEF AllocateItem, Filled, Got
  <2> QED BY <1>2, <2>1 DEF AllocateItem, Fresh, Sending, PlaceInv, AcceptedKept, AlmostAccepted
<1>3. ASSUME NEW w \in Writers, AllocateFault(w) PROVE Goal
  <2>1. Filled' = Filled /\ Got' = Got
    <3>1. \A v \in Writers : pc'[v] = "name" <=> pc[v] = "name"
      BY <1>3 DEF AllocateFault
    <3> QED BY <1>3, <3>1 DEF AllocateFault, Filled, Got
  <2> QED BY <1>3, <2>1 DEF AllocateFault, Fresh, Sending, PlaceInv, AcceptedKept, AlmostAccepted
<1>4. ASSUME NEW w \in Writers, Walk(w) PROVE Goal
  <2>1. Filled' = Filled /\ Got' = Got
    BY <1>4 DEF Walk, Filled, Got
  <2> QED BY <1>4, <2>1 DEF Walk, Fresh, Sending, PlaceInv, AcceptedKept, AlmostAccepted
<1>5. ASSUME NEW w \in Writers, Link(w) PROVE Goal
  <2>1. Filled' = Filled /\ Got' = Got
    BY <1>5 DEF Link, Filled, Got
  <2> QED BY <1>5, <2>1 DEF Link, Fresh, Sending, PlaceInv, AcceptedKept, AlmostAccepted
<1>6. ASSUME NEW w \in Writers, MarkInUse(w) PROVE Goal
  <2>1. Filled' = Filled /\ Got' = Got
    <3>1. new[w] \in Slots /\ ~inUse[new[w]]
      BY <1>6 DEF MarkInUse, EnqueueSound, IsFree
    <3>2. \A v \in Writers : pc'[v] = "name" <=> pc[v] = "name" \/ v = w
      BY <1>6 DEF MarkInUse
    <3>3. \A s \in Slots : inUse'[s] <=> inUse[s] \/ s = new[w]
      BY <1>6, <3>1 DEF MarkInUse
    <3> QED BY <1>6, <3>1, <3>2, <3>3 DEF MarkInUse, Filled, Got
  <2> QED BY <1>6, <2>1 DEF MarkInUse, Fresh, Sending, PlaceInv, AcceptedKept, AlmostAccepted
<1>7. ASSUME NEW w \in Writers, StoreId(w) PROVE Goal
  <2>1. Filled' = Filled \cup {new[w]} /\ Got' = Got
    <3>1. \A v \in Writers : pc[v] = "name" <=> v = w
      BY <1>7 DEF StoreId
    <3>2. \A v \in Writers : pc'[v] # "name"
      BY <1>7, <3>1 DEF StoreId
    <3>3. new[w] \in Slots /\ inUse[new[w]]
      BY <1>7 DEF StoreId, EnqueueSound
    <3> QED BY <1>7, <3>1, <3>2, <3>3 DEF StoreId, Filled, Got
  <2>2. /\ new[w] \in Slots /\ new[w] \notin Filled
        /\ id' = [id EXCEPT ![new[w]] = req[w]]
        /\ UNCHANGED <<req, new, tpc, unsent, accepted>>
        /\ tpc = "idle"
    BY <1>7 DEF StoreId, EnqueueSound, Filled
  <2>3. id'[new[w]] = req[w] /\ \A s \in Filled : id'[s] = id[s]
    BY <2>2 DEF Filled
  <2>4. /\ \A v \in Writers : pc'[v] \notin Sending
        /\ \A v \in Writers : pc'[v] \in {"clear", "unlock"} => v = w
    BY <1>7 DEF StoreId, Sending
  <2>5. Fresh(req[w]) /\ \A s \in Filled : id[s] # req[w]
    BY <1>7 DEF StoreId, PlaceInv, Sending
  <2>6. PlaceInv'
    <3>1. Got' = Got /\ unsent' = unsent
      BY <2>1, <2>2
    <3>2. \A s \in Filled' : id'[s] \in Ids \ (unsent \cup Got)
      BY <2>1, <2>3, <2>5 DEF PlaceInv, Fresh
    <3>3. \A s, t \in Filled' : id'[s] = id'[t] => s = t
      BY <2>1, <2>3, <2>5 DEF PlaceInv
    <3>4. Got' \subseteq Ids \ unsent'
      BY <2>1, <2>2 DEF PlaceInv
    <3> QED BY <2>2, <2>4, <3>1, <3>2, <3>3, <3>4 DEF PlaceInv, Fresh
  <2>7. AcceptedKept'
    <3> SUFFICES ASSUME NEW i \in accepted
                 PROVE  i \in Got' \/ \E s \in Filled' : id'[s] = i
      BY <2>2 DEF AcceptedKept
    <3>1. i \in Got \/ \E s \in Filled : id[s] = i
      BY <2>2 DEF AcceptedKept
    <3> QED BY <2>1, <2>3, <3>1
  <2>8. AlmostAccepted'
    BY <2>1, <2>2, <2>3, <2>4 DEF AlmostAccepted
  <2> QED BY <2>6, <2>7, <2>8
<1>8. ASSUME NEW w \in Writers, ClearNext(w) PROVE Goal
  <2>1. Filled' = Filled /\ Got' = Got
    BY <1>8 DEF ClearNext, Filled, Got
  <2> QED BY <1>8, <2>1 DEF ClearNext, Fresh, Sending, PlaceInv, AcceptedKept, AlmostAccepted
<1>9. ASSUME NEW w \in Writers, EndEnqueue(w) PROVE Goal
  <2>1. Filled' = Filled /\ Got' = Got
    BY <1>9 DEF EndEnqueue, Filled, Got
  <2> QED BY <1>9, <2>1 DEF EndEnqueue, Fresh, Sending, PlaceInv, AcceptedKept, AlmostAccepted
<1>10. ASSUME NEW w \in Writers, Die(w) PROVE Goal
  <2>1. Filled' = Filled /\ Got' = Got
    <3>1. \A v \in Writers : pc'[v] = "name" <=> pc[v] = "name"
      BY <1>10 DEF Die
    <3> QED BY <1>10, <3>1 DEF Die, Filled, Got
  <2> QED BY <1>10, <2>1 DEF Die, Fresh, Sending, PlaceInv, AcceptedKept, AlmostAccepted
<1>11. CASE BeginDequeue
  <2>1. Filled' = Filled /\ Got' = Got
    BY <1>11 DEF BeginDequeue, Filled, Got
  <2>2. head \in Filled
    BY <1>11 DEF BeginDequeue, Sound, HeadUnlinked, Filled, Slots
  <2> QED BY <1>11, <2>1, <2>2 DEF BeginDequeue, Fresh, Sending, PlaceInv, AcceptedKept, AlmostAccepted
<1>12. CASE FreeItem
  <2>1. Filled' = Filled \ {victim} /\ Got' = Got
    BY <1>12 DEF FreeItem, Filled, Got
  <2> QED BY <1>12, <2>1 DEF FreeItem, Fresh, Sending, PlaceInv, AcceptedKept, AlmostAccepted
<1>13. CASE Unlink
  <2>1. Filled' = Filled /\ Got' = Got
    BY <1>13 DEF Unlink, Filled, Got
  <2> QED BY <1>13, <2>1 DEF Unlink, Fresh, Sending, PlaceInv, AcceptedKept, AlmostAccepted
<1>14. CASE EndDequeue
  <2>1. Filled' = Filled /\ Got' = Got \cup {id[victim]}
    <3>1. id[victim] \in Ids \cup {NullId} /\ received \in Seq(Ids \cup {NullId})
      BY <1>14 DEF EndDequeue, DequeueSound
    <3> HIDE <1>0, <1>a
    <3>2. Values(Append(received, id[victim])) = Got \cup {id[victim]}
      BY <3>1, AppendValues DEF Got
    <3> QED BY <1>14, <3>2 DEF EndDequeue, Filled, Got
  <2>2. victim \notin Filled /\ tpc' = "idle" /\ UNCHANGED <<mem, writer, unsent, accepted>>
    BY <1>14 DEF EndDequeue, DequeueSound, Filled
  <2>3. \A w \in Writers : pc[w] \notin Critical
    BY <1>14 DEF EndDequeue
  <2>4. /\ Fresh(id[victim]) /\ \A s \in Filled : id[s] # id[victim]
        /\ PlaceInv /\ AcceptedKept
    BY <1>14, <2>2 DEF EndDequeue, PlaceInv
  <2>5. PlaceInv'
    BY <2>1, <2>2, <2>3, <2>4 DEF PlaceInv, Fresh, Sending
  <2>6. AcceptedKept' /\ AlmostAccepted'
    BY <2>1, <2>2, <2>3, <2>4 DEF AcceptedKept, AlmostAccepted
  <2> QED BY <2>5, <2>6
<1>15. CASE UNCHANGED vars
  BY <1>15 DEF vars, Filled, Got, Fresh, Sending, PlaceInv, AcceptedKept, AlmostAccepted
<1> QED BY <1>1, <1>2, <1>3, <1>4, <1>5, <1>6, <1>7, <1>8, <1>9, <1>10, <1>11, <1>12, <1>13, <1>14,
           <1>15 DEF Next, EnqueueStep, DequeueStep

\* Every step hands out a request that was not handed out before, or none.
LEMMA ReceiveStep ==
    ASSUME ListInv, PlaceInv, ReceivedOnce, [Next]_vars
    PROVE  ReceivedOnce'
<1>1. CASE EndDequeue
  <2>1. victim \in Slots /\ tpc # "idle" /\ id[victim] \in Ids \cup {NullId} /\ received \in Seq(Ids \cup {NullId})
    BY <1>1 DEF EndDequeue, ListInv, DequeueSound, TypeOK
  <2>2. id[victim] \notin Got
    BY <2>1 DEF PlaceInv, Fresh
  <2> QED BY <1>1, <2>1, <2>2, AppendValues DEF EndDequeue, ReceivedOnce, Got
<1>2. CASE received' = received
  BY <1>2 DEF ReceivedOnce
<1>3. received' = received \/ EndDequeue
  BY DEF Next, vars, DequeueStep, EnqueueStep, BeginEnqueue, AllocateItem, AllocateFault, Walk, Link, MarkInUse,
         StoreId, ClearNext, EndEnqueue, Die, BeginDequeue, FreeItem, Unlink
<1> QED BY <1>1, <1>2, <1>3

-----------------------------------------------------------------------------
(* Results *)

\* What is torn stays torn.
LEMMA TornStays == ASSUME [Next]_vars, torn PROVE torn'
BY DEF Next, vars, DequeueStep, EnqueueStep, BeginEnqueue, AllocateItem, AllocateFault, Walk, Link, MarkInUse,
       StoreId, ClearNext, EndEnqueue, Die, BeginDequeue, FreeItem, Unlink, EndDequeue

\* The invariant holds in every reachable state.
THEOREM InductiveInvariant == Spec => []IInv
<1>1. Init => IInv
  <2> SUFFICES ASSUME Init PROVE IInv
    OBVIOUS
  <2>1. ListInv
    <3>1. TypeOK /\ LocalsSet
      BY TypesAtFirst
    <3> QED BY <3>1, WriterAssumption, SizeAssumption
            DEF Init, ListInv, Exclusion, Critical, Slots, Sound, EnqueueSound, DequeueSound,
                LinkedInUse, OneLinkEach, HeadUnlinked, FreeUnlinked
  <2>2. Filled = {} /\ Got = {} /\ accepted = {}
    BY EmptySeq DEF Init, Filled, Got, Values
  <2>3. WholeInv
    BY <2>1, <2>2 DEF Init, WholeInv, PlaceInv, Sending, ReceivedOnce, AcceptedKept, AlmostAccepted
  <2> QED BY <2>1, <2>3 DEF IInv, ListInv
<1>2. IInv /\ [Next]_vars => IInv'
  <2> SUFFICES ASSUME IInv, [Next]_vars PROVE IInv'
    OBVIOUS
  <2>1. TypeOK' /\ LocalsSet' /\ Exclusion'
    BY TypeStep, ExclusionStep DEF IInv
  <2>2. torn => torn'
    BY TornStays
  <2>3. ASSUME ~torn' PROVE WholeInv'
    BY <2>2, <2>3, ListStep, PlaceStep, ReceiveStep DEF IInv, WholeInv
  <2> QED BY <2>1, <2>3 DEF IInv
<1> QED BY <1>1, <1>2, PTL DEF Spec

\* Between the operations of RedirectionRequestQueue.h every link leads to an item in
\* use and to each item at most one, so AllocateItem never hands out a linked slot,
\* until a process dies with an item torn.
THEOREM ListWellFormed == Spec => []WellFormed
<1>1. IInv => WellFormed
  BY DEF IInv, WholeInv, ListInv, WellFormed, Sound
<1> QED BY <1>1, InductiveInvariant, PTL

\* What Dequeue returns it returned never before, and what Enqueue accepted is
\* received or keeps its slot, until a process dies with an item torn.
THEOREM EachRequestOnce == Spec => [](torn \/ (ReceivedOnce /\ AcceptedKept))
<1>1. IInv => torn \/ (ReceivedOnce /\ AcceptedKept)
  BY DEF IInv, WholeInv
<1> QED BY <1>1, InductiveInvariant, PTL

-----------------------------------------------------------------------------
(* The list as a sequence *)

\* Of any numbers one is the least: where a list goes wrong there is a first place
\* where it does.
LEMMA LeastExists ==
    ASSUME NEW T \in SUBSET Nat, T # {}
    PROVE  \E x \in T : \A y \in T : x <= y
<1> DEFINE R == OpToRel(<, Nat)
<1>1. IsWellFoundedOn(R, Nat)
  BY NatLessThanWellFounded
<1>2. \A x, y \in Nat : x < y => <<x, y>> \in R
  BY DEF OpToRel
<1> HIDE DEF R
<1>3. T \subseteq Nat
  OBVIOUS
<1>4. PICK x \in T : \A y \in T : ~(<<y, x>> \in R)
  BY <1>1, <1>3, WFMin
<1>5. ASSUME NEW y \in T PROVE x <= y
  <2>1. x \in Nat /\ y \in Nat /\ ~(y < x)
    BY <1>2, <1>3, <1>4
  <2> QED BY <2>1
<1> QED BY <1>5

\* What Chain is as long as the list is well formed.
Distinct(list) == \A j, k \in DOMAIN list : list[j] = list[k] => j = k
IsItems(list, first, link, open) ==
    list \in Seq(Slots) /\ Distinct(list) /\ Follows(list, first, link, open)

\* What Follows says of the first item, of each later one and of the end.
LEMMA FollowsMeans ==
    ASSUME NEW list \in Seq(Slots), NEW n, n = Len(list), NEW first, NEW link, NEW open
    PROVE  /\ n \in Nat /\ DOMAIN list = 1 .. n
           /\ \A k \in 1 .. n : list[k] \in Slots
           /\ Follows(list, first, link, open) <=>
                 /\ \A k \in 1 .. n : list[k] \notin open
                 /\ n > 0 => list[1] = first /\ link[list[n]] \in open \cup {0}
                 /\ n = 0 => first \in open \cup {0}
                 /\ \A k \in 2 .. n : list[k] = link[list[k - 1]]
<1>1. n \in Nat /\ DOMAIN list = 1 .. n /\ \A k \in 1 .. n : list[k] \in Slots
  BY LenProperties, ElementOfSeq
<1> DEFINE After(k) == IF k = 0 THEN first ELSE link[list[k]]
<1>2. Follows(list, first, link, open) <=>
          /\ \A k \in 1 .. n : list[k] = After(k - 1) /\ list[k] \notin open
          /\ After(n) \in open \cup {0}
  BY <1>1 DEF Follows
<1>3. (\A k \in 1 .. n : list[k] = After(k - 1)) <=>
          /\ n > 0 => list[1] = first
          /\ \A k \in 2 .. n : list[k] = link[list[k - 1]]
  <2>1. n > 0 => 1 \in 1 .. n /\ After(1 - 1) = first
    BY <1>1
  <2>2. \A k \in 2 .. n : k \in 1 .. n /\ After(k - 1) = link[list[k - 1]]
    BY <1>1
  <2>3. \A k \in 1 .. n : (k = 1 /\ n > 0) \/ k \in 2 .. n
    BY <1>1
  <2> HIDE DEF After
  <2> QED BY <2>1, <2>2, <2>3
<1>4. After(n) = IF n = 0 THEN first ELSE link[list[n]]
  OBVIOUS
<1> HIDE DEF After
<1>5. n = 0 \/ n > 0
  BY <1>1
<1> QED BY <1>1, <1>2, <1>3, <1>4, <1>5

\* The items are the only list of different slots that begins and is linked so.
LEMMA ItemsAre ==
    ASSUME NEW list, NEW first, NEW link, NEW open, IsItems(list, first, link, open), 0 \notin Slots
    PROVE  Items(first, link, open) = list
<1> DEFINE found == {l \in Lists : Follows(l, first, link, open)}
<1>1. list \in Seq(Slots) /\ Distinct(list) /\ Follows(list, first, link, open)
  BY DEF IsItems
<1>2. /\ Len(list) \in Nat /\ DOMAIN list = 1 .. Len(list)
      /\ list \in [1 .. Len(list) -> Slots]
  BY <1>1, LenProperties
<1>3. Len(list) \in 0 .. Size
  <2>1. \A n \in Nat : IsFiniteSet(1 .. n) /\ Cardinality(1 .. n) = n
    <3> SUFFICES ASSUME NEW n \in Nat PROVE IsFiniteSet(1 .. n) /\ Cardinality(1 .. n) = n
      OBVIOUS
    <3>1. 1 \in Int /\ n \in Int
      OBVIOUS
    <3>2. IsFiniteSet(1 .. n) /\ Cardinality(1 .. n) = IF 1 > n THEN 0 ELSE n - 1 + 1
      BY <3>1, FS_Interval
    <3> QED BY <3>2
  <2>2. list \in Injection(1 .. Len(list), Slots)
    BY <1>1, <1>2 DEF Injection, IsInjective, Distinct
  <2>3. IsFiniteSet(Slots) /\ Cardinality(Slots) = Size /\ Size \in Nat
    BY <2>1, SizeAssumption DEF Slots
  <2>4. Cardinality(1 .. Len(list)) <= Cardinality(Slots)
    BY <2>2, <2>3, FS_Injection
  <2> QED BY <1>2, <2>1, <2>3, <2>4
<1>4. list \in found
  BY <1>1, <1>2, <1>3 DEF Lists
<1>5. ASSUME NEW l \in found PROVE l = list
  <2>1. Follows(l, first, link, open) /\ \E n \in 0 .. Size : l \in [1 .. n -> Slots]
    BY DEF Lists
  <2>2. l \in Seq(Slots)
    <3>1. PICK n \in 0 .. Size : l \in [1 .. n -> Slots]
      BY <2>1
    <3>2. n \in Nat
      BY SizeAssumption
    <3> QED BY <3>1, <3>2, SeqDef
  <2> DEFINE m == Len(list)
             n == Len(l)
  <2>3. /\ m \in Nat /\ n \in Nat /\ DOMAIN list = 1 .. m /\ DOMAIN l = 1 .. n
        /\ \A k \in 1 .. m : list[k] \in Slots /\ list[k] \notin open
        /\ \A k \in 1 .. n : l[k] \in Slots /\ l[k] \notin open
        /\ m > 0 => list[1] = first /\ link[list[m]] \in open \cup {0}
        /\ n > 0 => l[1] = first /\ link[l[n]] \in open \cup {0}
        /\ m = 0 => first \in open \cup {0}
        /\ n = 0 => first \in open \cup {0}
        /\ \A k \in 2 .. m : list[k] = link[list[k - 1]]
        /\ \A k \in 2 .. n : l[k] = link[l[k - 1]]
    <3>1. m = Len(list) /\ n = Len(l)
      OBVIOUS
    <3> HIDE DEF m, n
    <3>2. /\ m \in Nat /\ DOMAIN list = 1 .. m
          /\ \A k \in 1 .. m : list[k] \in Slots /\ list[k] \notin open
          /\ m > 0 => list[1] = first /\ link[list[m]] \in open \cup {0}
          /\ m = 0 => first \in open \cup {0}
          /\ \A k \in 2 .. m : list[k] = link[list[k - 1]]
      BY <1>1, <3>1, FollowsMeans
    <3>3. /\ n \in Nat /\ DOMAIN l = 1 .. n
          /\ \A k \in 1 .. n : l[k] \in Slots /\ l[k] \notin open
          /\ n > 0 => l[1] = first /\ link[l[n]] \in open \cup {0}
          /\ n = 0 => first \in open \cup {0}
          /\ \A k \in 2 .. n : l[k] = link[l[k - 1]]
      BY <2>1, <2>2, <3>1, FollowsMeans
    <3> QED BY <3>2, <3>3
  <2> HIDE DEF m, n
  <2>4. \A k \in Nat : k \in 1 .. m /\ k \in 1 .. n => l[k] = list[k]
    <3> DEFINE T == {k \in Nat : k \in 1 .. m /\ k \in 1 .. n /\ l[k] # list[k]}
    <3> SUFFICES ASSUME T # {} PROVE FALSE
      OBVIOUS
    <3>1. T \in SUBSET Nat
      OBVIOUS
    <3>2. PICK k \in T : \A j \in T : k <= j
      <4> HIDE DEF T
      <4> QED BY <3>1, LeastExists
    <3>3. k \in 1 .. m /\ k \in 1 .. n /\ l[k] # list[k] /\ k \in Nat
      BY <3>2
    <3>4. CASE k = 1
      BY <2>3, <3>3, <3>4
    <3>5. CASE k # 1
      <4>1. k \in 2 .. m /\ k \in 2 .. n /\ k - 1 \in 1 .. m /\ k - 1 \in 1 .. n
            /\ k - 1 \in Nat /\ ~(k <= k - 1)
        BY <2>3, <3>3, <3>5
      <4>2. l[k - 1] = list[k - 1]
        <5>1. k - 1 \notin T
          <6> HIDE DEF T
          <6> QED BY <3>2, <4>1
        <5> QED BY <4>1, <5>1
      <4> QED BY <2>3, <3>3, <4>1, <4>2
    <3> QED BY <3>4, <3>5
  <2>5. m = n
    <3>1. ASSUME m < n PROVE FALSE
      <4>1. CASE m = 0
        <5>1. 1 \in 1 .. n /\ n > 0
          BY <2>3, <3>1
        <5> QED BY <2>3, <4>1, <5>1
      <4>2. CASE m # 0
        <5>1. m > 0 /\ m \in 1 .. m /\ m \in 1 .. n /\ m + 1 \in 2 .. n /\ m + 1 \in 1 .. n /\ (m + 1) - 1 = m
          BY <2>3, <3>1, <4>2
        <5>2. l[m + 1] = link[l[m]]
          BY <2>3, <5>1
        <5> QED BY <2>3, <2>4, <5>1, <5>2
      <4> QED BY <4>1, <4>2
    <3>2. ASSUME n < m PROVE FALSE
      <4>1. CASE n = 0
        <5>1. 1 \in 1 .. m /\ m > 0
          BY <2>3, <3>2
        <5> QED BY <2>3, <4>1, <5>1
      <4>2. CASE n # 0
        <5>1. n > 0 /\ n \in 1 .. n /\ n \in 1 .. m /\ n + 1 \in 2 .. m /\ n + 1 \in 1 .. m /\ (n + 1) - 1 = n
          BY <2>3, <3>2, <4>2
        <5>2. list[n + 1] = link[list[n]]
          BY <2>3, <5>1
        <5> QED BY <2>3, <2>4, <5>1, <5>2
      <4> QED BY <4>1, <4>2
    <3> QED BY <2>3, <3>1, <3>2
  <2>6. \A k \in 1 .. m : l[k] = list[k]
    BY <2>3, <2>4, <2>5
  <2> QED BY <1>1, <2>2, <2>5, <2>6, SeqEqual DEF m, n
<1>6. Items(first, link, open) = IF found = {} THEN << >> ELSE CHOOSE l \in found : TRUE
  BY DEF Items
<1> HIDE DEF found
<1> QED BY <1>4, <1>5, <1>6

\* The last item of a list, and what is behind it.
LastOf(list) == IF list = << >> THEN 0 ELSE list[Len(list)]
EndOf(list, first, link) == IF list = << >> THEN first ELSE link[list[Len(list)]]

\* A list's items, place by place, for its length n.
Placed(list, n, first, link, open) ==
    /\ list \in Seq(Slots) /\ n \in Nat /\ DOMAIN list = 1 .. n /\ (list = << >> <=> n = 0)
    /\ \A k \in 1 .. n : list[k] \in Slots /\ list[k] \notin open
    /\ \A j, k \in 1 .. n : list[j] = list[k] => j = k
    /\ n # 0 => list[1] = first
    /\ EndOf(list, first, link) \in open \cup {0}
    /\ \A k \in 2 .. n : list[k] = link[list[k - 1]]

\* It says what IsItems says.
LEMMA ItemsMean ==
    ASSUME NEW list, NEW n, n = Len(list), NEW first, NEW link, NEW open
    PROVE  IsItems(list, first, link, open) <=> Placed(list, n, first, link, open)
<1> SUFFICES ASSUME list \in Seq(Slots)
             PROVE  Distinct(list) /\ Follows(list, first, link, open) <=> Placed(list, n, first, link, open)
  BY DEF IsItems, Placed
<1>1. list = << >> <=> n = 0
  BY EmptySeq
<1>2. EndOf(list, first, link) = IF n = 0 THEN first ELSE link[list[n]]
  BY <1>1 DEF EndOf
<1>3. n \in Nat /\ DOMAIN list = 1 .. n /\ \A k \in 1 .. n : list[k] \in Slots
  BY FollowsMeans
<1>4. Follows(list, first, link, open) <=>
         /\ \A k \in 1 .. n : list[k] \notin open
         /\ n > 0 => list[1] = first /\ link[list[n]] \in open \cup {0}
         /\ n = 0 => first \in open \cup {0}
         /\ \A k \in 2 .. n : list[k] = link[list[k - 1]]
  BY FollowsMeans
<1>5. n > 0 <=> n # 0
  BY <1>3
<1>6. Distinct(list) <=> \A j, k \in 1 .. n : list[j] = list[k] => j = k
  BY <1>3 DEF Distinct
<1> QED BY <1>1, <1>2, <1>3, <1>4, <1>5, <1>6 DEF Placed

\* An item is the first, or some slot links to it.
LEMMA ItemLinked ==
    ASSUME NEW list, NEW first, NEW link, NEW open, IsItems(list, first, link, open), NEW s \in Values(list)
    PROVE  /\ s \in Slots /\ s \notin open /\ list # << >>
           /\ s = first \/ \E t \in Slots : s = link[t]
<1>1. PICK n : n = Len(list)
  OBVIOUS
<1>2. /\ n \in Nat /\ DOMAIN list = 1 .. n /\ (list = << >> <=> n = 0)
      /\ \A k \in 1 .. n : list[k] \in Slots /\ list[k] \notin open
      /\ n # 0 => list[1] = first
      /\ \A k \in 2 .. n : list[k] = link[list[k - 1]]
  <2>p. Placed(list, n, first, link, open)
    BY <1>1, ItemsMean
  <2> QED BY <2>p DEF Placed
<1>3. PICK k \in 1 .. n : s = list[k]
  BY <1>2 DEF Values
<1>4. CASE k = 1
  BY <1>2, <1>3, <1>4
<1>5. CASE k # 1
  <2>1. k \in 2 .. n /\ k - 1 \in 1 .. n
    BY <1>2, <1>5
  <2> QED BY <1>2, <1>3, <2>1
<1> QED BY <1>4, <1>5

\* The walk: an item links to the next one, or is the last.
LEMMA ItemWalk ==
    ASSUME NEW list, NEW first, NEW link, IsItems(list, first, link, {}), 0 \notin Slots
    PROVE  /\ list = << >> <=> first = 0
           /\ list # << >> => first \in Values(list)
           /\ \A s \in Values(list) : IF link[s] = 0 THEN s = LastOf(list) ELSE link[s] \in Values(list)
<1>1. PICK n : n = Len(list)
  OBVIOUS
<1>2. /\ n \in Nat /\ DOMAIN list = 1 .. n /\ (list = << >> <=> n = 0)
      /\ \A k \in 1 .. n : list[k] \in Slots
      /\ n # 0 => list[1] = first
      /\ EndOf(list, first, link) = 0
      /\ \A k \in 2 .. n : list[k] = link[list[k - 1]]
  <2>p. Placed(list, n, first, link, {})
    BY <1>1, ItemsMean
  <2> QED BY <2>p DEF Placed
<1>3. n # 0 => 1 \in 1 .. n
  BY <1>2
<1>4. list = << >> => first = 0
  BY <1>2 DEF EndOf
<1>5. ASSUME NEW k \in 1 .. n
      PROVE  IF link[list[k]] = 0 THEN list[k] = LastOf(list) ELSE link[list[k]] \in Values(list)
  <2>1. CASE k = n
    <3>1. list # << >>
      BY <1>2, <2>1
    <3> QED BY <1>1, <1>2, <2>1, <3>1 DEF EndOf, LastOf
  <2>2. CASE k # n
    <3>1. k + 1 \in 2 .. n /\ k + 1 \in 1 .. n /\ (k + 1) - 1 = k
      BY <1>2, <2>2
    <3>2. list[k + 1] = link[list[k]] /\ list[k + 1] # 0
      BY <1>2, <3>1
    <3> QED BY <1>2, <3>1, <3>2 DEF Values
  <2> QED BY <2>1, <2>2
<1> QED BY <1>2, <1>3, <1>4, <1>5 DEF Values

\* A new slot is linked behind the last item.
LEMMA ItemsLink ==
    ASSUME NEW list, NEW first, NEW link, link \in [Slots -> 0 .. Size], IsItems(list, first, link, {}),
           0 \notin Slots, NEW x \in Slots, x \notin Values(list), NEW f, NEW l,
           IF LastOf(list) = 0 THEN f = x /\ l = link
                               ELSE f = first /\ l = [link EXCEPT ![LastOf(list)] = x]
    PROVE  IsItems(list, f, l, {x}) /\ EndOf(list, f, l) = x
<1>1. PICK n : n = Len(list)
  OBVIOUS
<1>2. /\ list \in Seq(Slots) /\ n \in Nat /\ DOMAIN list = 1 .. n /\ (list = << >> <=> n = 0)
      /\ \A k \in 1 .. n : list[k] \in Slots
      /\ \A j, k \in 1 .. n : list[j] = list[k] => j = k
      /\ n # 0 => list[1] = first
      /\ \A k \in 2 .. n : list[k] = link[list[k - 1]]
  <2>p. Placed(list, n, first, link, {})
    BY <1>1, ItemsMean
  <2> QED BY <2>p DEF Placed
<1>3. \A k \in 1 .. n : list[k] \notin {x}
  BY <1>2 DEF Values
<1>4. CASE list = << >>
  <2>1. f = x /\ n = 0 /\ EndOf(list, f, l) = x
    BY <1>2, <1>4 DEF LastOf, EndOf
  <2>2. /\ n # 0 => list[1] = f
        /\ EndOf(list, f, l) \in {x} \cup {0}
        /\ \A k \in 2 .. n : list[k] = l[list[k - 1]]
    BY <2>1
  <2>p. Placed(list, n, f, l, {x})
    BY <1>2, <1>3, <2>1, <2>2 DEF Placed
  <2> QED BY <1>1, <2>1, <2>p, ItemsMean
<1>5. CASE list # << >>
  <2>1. n \in 1 .. n /\ LastOf(list) = list[n] /\ list[n] \in Slots
    <3>1. n \in 1 .. n
      BY <1>2, <1>5
    <3> QED BY <1>1, <1>2, <1>5, <3>1 DEF LastOf
  <2>2. f = first /\ l = [link EXCEPT ![list[n]] = x]
    BY <2>1
  <2>3. l[list[n]] = x /\ \A s \in Slots : s # list[n] => l[s] = link[s]
    BY <2>1, <2>2
  <2>4. EndOf(list, f, l) = x
    BY <1>1, <1>5, <2>3 DEF EndOf
  <2>5. ASSUME NEW k \in 2 .. n PROVE list[k] = l[list[k - 1]]
    <3>1. k - 1 \in 1 .. n /\ k - 1 # n
      BY <1>2
    <3>2. list[k - 1] # list[n] /\ list[k - 1] \in Slots
      BY <1>2, <2>1, <3>1
    <3> QED BY <1>2, <2>3, <3>2
  <2>6. n # 0 => list[1] = f
    BY <1>2, <2>2
  <2>7. EndOf(list, f, l) \in {x} \cup {0}
    BY <2>4
  <2>p. Placed(list, n, f, l, {x})
    BY <1>2, <1>3, <2>5, <2>6, <2>7 DEF Placed
  <2> QED BY <1>1, <2>4, <2>p, ItemsMean
<1> QED BY <1>4, <1>5

\* The slot linked behind the last item becomes the last item.
LEMMA ItemsAppend ==
    ASSUME NEW list, NEW first, NEW link, NEW x \in Slots, IsItems(list, first, link, {x}),
           EndOf(list, first, link) = x, link[x] = 0
    PROVE  IsItems(Append(list, x), first, link, {})
<1> DEFINE c == Append(list, x)
<1>1. PICK n : n = Len(list)
  OBVIOUS
<1>2. /\ list \in Seq(Slots) /\ n \in Nat /\ DOMAIN list = 1 .. n /\ (list = << >> <=> n = 0)
      /\ \A k \in 1 .. n : list[k] \in Slots /\ list[k] # x
      /\ \A j, k \in 1 .. n : list[j] = list[k] => j = k
      /\ n # 0 => list[1] = first
      /\ \A k \in 2 .. n : list[k] = link[list[k - 1]]
  <2>p. Placed(list, n, first, link, {x})
    BY <1>1, ItemsMean
  <2> QED BY <2>p DEF Placed
<1> DEFINE m == n + 1
<1>3. /\ c \in Seq(Slots) /\ Len(c) = m /\ DOMAIN c = 1 .. m
      /\ \A k \in 1 .. n : c[k] = list[k]
      /\ c[m] = x
  BY <1>1, <1>2, AppendProperties, LenProperties
<1>4. m \in Nat /\ m # 0 /\ \A k \in 1 .. m : k \in 1 .. n \/ k = m
  BY <1>2
<1> HIDE DEF c
<1>5. c # << >>
  BY <1>3, <1>4, EmptySeq
<1>6. \A k \in 1 .. m : c[k] \in Slots /\ c[k] \notin {}
  BY <1>2, <1>3, <1>4
<1>7. \A j, k \in 1 .. m : c[j] = c[k] => j = k
  <2> HIDE DEF m
  <2> QED BY <1>2, <1>3, <1>4
<1>8. c[1] = first
  <2>1. CASE n = 0
    BY <1>2, <1>3, <2>1 DEF EndOf
  <2>2. CASE n # 0
    <3>1. 1 \in 1 .. n
      BY <1>2, <2>2
    <3> QED BY <1>2, <1>3, <2>2, <3>1
  <2> QED BY <2>1, <2>2
<1>9. EndOf(c, first, link) = 0
  BY <1>3, <1>5 DEF EndOf
<1>10. ASSUME NEW k \in 2 .. m PROVE c[k] = link[c[k - 1]]
  <2>1. k - 1 \in 1 .. n
    BY <1>2
  <2>2. CASE k = m
    <3>1. n # 0 /\ k - 1 = n
      BY <1>2, <2>1, <2>2
    <3>2. x = link[list[n]]
      BY <1>1, <1>2, <3>1 DEF EndOf
    <3> QED BY <1>3, <2>1, <2>2, <3>1, <3>2
  <2>3. CASE k # m
    <3>1. k \in 2 .. n /\ k \in 1 .. n
      BY <1>2, <2>3
    <3> QED BY <1>2, <1>3, <2>1, <3>1
  <2> QED BY <2>2, <2>3
<1>11. EndOf(c, first, link) \in {} \cup {0}
  BY <1>9
<1> HIDE DEF m
<1>12. m = Len(c)
  BY <1>3
<1>13. Placed(c, m, first, link, {})
  BY <1>3, <1>4, <1>5, <1>6, <1>7, <1>8, <1>10, <1>11 DEF Placed
<1> QED BY <1>12, <1>13, ItemsMean DEF c

\* The first item is taken out.
LEMMA ItemsTail ==
    ASSUME NEW list, NEW first, NEW link, IsItems(list, first, link, {}), 0 \notin Slots, first # 0
    PROVE  list # << >> /\ list[1] = first /\ IsItems(Tail(list), link[first], link, {})
<1> DEFINE c == Tail(list)
<1>1. PICK n : n = Len(list)
  OBVIOUS
<1>2. /\ list \in Seq(Slots) /\ n \in Nat /\ DOMAIN list = 1 .. n /\ (list = << >> <=> n = 0)
      /\ \A k \in 1 .. n : list[k] \in Slots
      /\ \A j, k \in 1 .. n : list[j] = list[k] => j = k
      /\ n # 0 => list[1] = first
      /\ EndOf(list, first, link) \in {} \cup {0}
      /\ \A k \in 2 .. n : list[k] = link[list[k - 1]]
  <2>p. Placed(list, n, first, link, {})
    BY <1>1, ItemsMean
  <2> QED BY <2>p DEF Placed
<1>3. list # << >> /\ n # 0
  BY <1>2 DEF EndOf
<1> DEFINE m == n - 1
<1>4. /\ c \in Seq(Slots) /\ Len(c) = m /\ DOMAIN c = 1 .. m
      /\ \A k \in 1 .. m : c[k] = list[k + 1]
  BY <1>1, <1>2, <1>3, HeadTailProperties, LenProperties
<1>5. m \in Nat /\ \A k \in 1 .. m : k + 1 \in 1 .. n /\ k + 1 \in 2 .. n /\ k \in Nat
  BY <1>2, <1>3
<1> HIDE DEF c
<1>6. c = << >> <=> m = 0
  BY <1>4, EmptySeq
<1>7. \A k \in 1 .. m : c[k] \in Slots /\ c[k] \notin {}
  BY <1>2, <1>4, <1>5
<1>8. \A j, k \in 1 .. m : c[j] = c[k] => j = k
  <2> HIDE DEF m
  <2> SUFFICES ASSUME NEW j \in 1 .. m, NEW k \in 1 .. m, c[j] = c[k] PROVE j = k
    OBVIOUS
  <2>1. list[j + 1] = list[k + 1] /\ j + 1 \in 1 .. n /\ k + 1 \in 1 .. n
    BY <1>4, <1>5
  <2>2. j + 1 = k + 1 /\ j \in Nat /\ k \in Nat
    BY <1>2, <1>5, <2>1
  <2> QED BY <2>2
<1>9. m # 0 => c[1] = link[first]
  <2> SUFFICES ASSUME m # 0 PROVE c[1] = link[first]
    OBVIOUS
  <2>1. 1 \in 1 .. m /\ 1 + 1 = 2 /\ 2 \in 2 .. n /\ 2 - 1 = 1
    BY <1>2, <1>3
  <2> QED BY <1>2, <1>3, <1>4, <2>1
<1>10. EndOf(c, link[first], link) \in {} \cup {0}
  <2>1. EndOf(list, first, link) = link[list[n]]
    BY <1>1, <1>3 DEF EndOf
  <2>2. CASE m = 0
    <3>1. n = 1
      BY <1>2, <2>2
    <3>2. EndOf(c, link[first], link) = link[first]
      BY <1>6, <2>2 DEF EndOf
    <3> QED BY <1>2, <1>3, <2>1, <3>1, <3>2
  <2>3. CASE m # 0
    <3>1. m \in 1 .. m /\ m + 1 = n
      BY <1>2, <1>5, <2>3
    <3>2. c[m] = list[n]
      BY <1>4, <3>1
    <3>3. EndOf(c, link[first], link) = link[c[m]]
      BY <1>4, <1>6, <2>3 DEF EndOf
    <3> QED BY <1>2, <2>1, <3>2, <3>3
  <2> QED BY <2>2, <2>3
<1>11. ASSUME NEW k \in 2 .. m PROVE c[k] = link[c[k - 1]]
  <2>1. /\ k \in 1 .. m /\ k - 1 \in 1 .. m
        /\ k + 1 \in 2 .. n /\ (k + 1) - 1 = (k - 1) + 1
    BY <1>2, <1>5
  <2>2. c[k] = list[k + 1] /\ c[k - 1] = list[(k - 1) + 1]
    BY <1>4, <2>1
  <2> QED BY <1>2, <2>1, <2>2
<1>12. m = Len(c)
  BY <1>4
<1> HIDE DEF m
<1>13. IsItems(c, link[first], link, {})
  <2>p. Placed(c, m, link[first], link, {})
    BY <1>4, <1>5, <1>6, <1>7, <1>8, <1>9, <1>10, <1>11 DEF Placed
  <2> QED BY <1>12, <2>p, ItemsMean
<1> QED BY <1>2, <1>3, <1>13 DEF c

\* A slot that is none of the items may lose its link.
LEMMA ItemsUnlink ==
    ASSUME NEW list, NEW first, NEW link, NEW open, link \in [Slots -> 0 .. Size],
           IsItems(list, first, link, open), NEW x \in Slots, x \notin Values(list)
    PROVE  /\ IsItems(list, first, [link EXCEPT ![x] = 0], open)
           /\ EndOf(list, first, [link EXCEPT ![x] = 0]) = EndOf(list, first, link)
<1> DEFINE l == [link EXCEPT ![x] = 0]
<1>1. PICK n : n = Len(list)
  OBVIOUS
<1>2. /\ list \in Seq(Slots) /\ n \in Nat /\ DOMAIN list = 1 .. n /\ (list = << >> <=> n = 0)
      /\ \A k \in 1 .. n : list[k] \in Slots /\ list[k] \notin open
      /\ \A j, k \in 1 .. n : list[j] = list[k] => j = k
      /\ n # 0 => list[1] = first
      /\ EndOf(list, first, link) \in open \cup {0}
      /\ \A k \in 2 .. n : list[k] = link[list[k - 1]]
  <2>p. Placed(list, n, first, link, open)
    BY <1>1, ItemsMean
  <2> QED BY <2>p DEF Placed
<1>3. \A k \in 1 .. n : l[list[k]] = link[list[k]]
  BY <1>2 DEF Values
<1> HIDE DEF l
<1>4. \A k \in 2 .. n : k - 1 \in 1 .. n
  BY <1>2
<1>5. \A k \in 2 .. n : list[k] = l[list[k - 1]]
  BY <1>2, <1>3, <1>4
<1>6. EndOf(list, first, l) = EndOf(list, first, link)
  <2>1. n # 0 => n \in 1 .. n
    BY <1>2
  <2> QED BY <1>1, <1>2, <1>3, <2>1 DEF EndOf
<1>7. EndOf(list, first, l) \in open \cup {0}
  BY <1>2, <1>6
<1>8. IsItems(list, first, l, open)
  <2>p. Placed(list, n, first, l, open)
    BY <1>2, <1>5, <1>7 DEF Placed
  <2> QED BY <1>1, <2>p, ItemsMean
<1> QED BY <1>6, <1>8 DEF l

-----------------------------------------------------------------------------
(* The items of the queue *)

\* The links lead from item to item; an Enqueue has found the last one, or is on
\* the way to it, and links its slot there.
ChainInv ==
    /\ IsItems(Chain, head, next, Building)
    /\ \A w \in Writers :
          /\ pc[w] = "walk" => cur[w] \in Values(Chain)
          /\ pc[w] = "link" => cur[w] = LastOf(Chain)
          /\ pc[w] \in {"mark", "name", "clear"} => EndOf(Chain, head, next) = new[w]

\* Only who has the mutex builds an item, and only one.
LEMMA BuildingIs ==
    ASSUME TypeOK, Exclusion
    PROVE  /\ \A w \in Writers : pc[w] \in {"mark", "name", "clear"} => Building = {new[w]}
           /\ \A w \in Writers : pc[w] \in {"alloc", "walk", "link", "unlock"} => Building = {}
           /\ mutex \in {"none", "target"} => Building = {}
<1>1. \A v, w \in Writers : pc[v] \in Critical /\ pc[w] \in Critical => v = w
  BY DEF Exclusion
<1>2. \A w \in Writers : pc[w] \in Critical => mutex = w /\ mutex \notin {"none", "target"}
  BY WriterAssumption DEF Exclusion
<1> QED BY <1>1, <1>2 DEF Building, Critical

\* The step that makes a filled item one of the list: the last store of Enqueue,
\* or the death of the process before that store, which changes nothing any more.
Completes(w) == ClearNext(w) \/ (Die(w) /\ pc[w] = "clear")

\* How each step changes the items: one that completes an Enqueue adds the new one
\* at the end, BeginDequeue takes the first, and no other step changes anything.
LEMMA ChainStep ==
    ASSUME ~torn', ListInv, ListInv', ChainInv, [Next]_vars
    PROVE  /\ ChainInv'
           /\ \/ Chain' = Chain
              \/ \E w \in Writers : Completes(w) /\ Chain' = Append(Chain, new[w])
              \/ BeginDequeue
           /\ BeginDequeue => Chain # << >> /\ Chain[1] = head /\ Chain' = Tail(Chain)
<1> DEFINE Goal == /\ ChainInv'
                   /\ \/ Chain' = Chain
                      \/ \E w \in Writers : Completes(w) /\ Chain' = Append(Chain, new[w])
                      \/ BeginDequeue
           First == Chain # << >> /\ Chain[1] = head /\ Chain' = Tail(Chain)
           Marking == {"mark", "name", "clear"}
<1>0. /\ TypeOK /\ LocalsSet /\ TypeOK' /\ Exclusion /\ Exclusion' /\ DequeueSound
      /\ mutex = "none" => Sound
      /\ \A w \in Writers : EnqueueSound(w)
      /\ IsItems(Chain, head, next, Building)
      /\ next \in [Slots -> 0 .. Size]
  BY DEF ListInv, ChainInv, TypeOK
<1>a. /\ mutex \in Writers => tpc = "idle"
      /\ \A v \in Writers : mutex # v => pc[v] \notin Critical
      /\ mutex \in Writers => mutex # "none" /\ mutex # "target"
  BY <1>0, Alone
<1>b. 0 \notin Slots /\ Slots \subseteq 0 .. Size /\ \A s \in 0 .. Size : s # 0 => s \in Slots
  BY SizeAssumption DEF Slots
<1>d. ASSUME NEW c, IsItems(c, head', next', Building')
      PROVE  Chain' = c /\ IsItems(Chain', head', next', Building')
  <2>1. Items(head', next', Building') = c
    BY <1>b, <1>d, ItemsAre
  <2> QED BY <1>d, <2>1 DEF Chain
<1>e. ASSUME UNCHANGED <<head, next>>, Building' = Building,
             \A w \in Writers : /\ pc'[w] = "walk" => cur'[w] \in Values(Chain)
                                /\ pc'[w] = "link" => cur'[w] = LastOf(Chain)
                                /\ pc'[w] \in Marking => pc[w] \in Marking /\ new'[w] = new[w]
      PROVE  Goal
  <2>1. Chain' = Chain /\ IsItems(Chain', head', next', Building')
    BY <1>0, <1>e DEF Chain
  <2>2. ChainInv'
    BY <1>e, <2>1 DEF ChainInv
  <2> QED BY <2>1, <2>2
<1>f. ASSUME UNCHANGED <<head, next, cur, new>>,
             \A w \in Writers : /\ pc'[w] \in {"walk", "link"} => pc'[w] = pc[w]
                                /\ pc'[w] \in Marking <=> pc[w] \in Marking
      PROVE  Goal
  <2>1. Building' = Building
    BY <1>f DEF Building
  <2>2. \A w \in Writers : /\ pc'[w] = "walk" => cur'[w] \in Values(Chain)
                           /\ pc'[w] = "link" => cur'[w] = LastOf(Chain)
    BY <1>f DEF ChainInv
  <2> QED BY <1>e, <1>f, <2>1, <2>2
<1>1. ASSUME NEW w \in Writers, BeginEnqueue(w) PROVE Goal
  BY <1>0, <1>1, <1>f DEF BeginEnqueue, mem, TypeOK
<1>2. ASSUME NEW w \in Writers, AllocateItem(w) PROVE Goal
  <2>1. /\ pc[w] = "alloc" /\ mutex = w /\ UNCHANGED <<head, next>>
        /\ cur' = [cur EXCEPT ![w] = head]
        /\ pc' = [pc EXCEPT ![w] = IF head = 0 THEN "link" ELSE "walk"]
    BY <1>0, <1>2 DEF AllocateItem, mem, Exclusion, Critical
  <2>2. Building = {} /\ \A v \in Writers : pc[v] \notin Marking \cup {"walk", "link"}
    BY <1>0, <1>a, <2>1, BuildingIs DEF Critical
  <2>3. \A v \in Writers : pc'[v] \notin Marking /\ (pc'[v] \in {"walk", "link"} => v = w)
    BY <1>0, <2>1, <2>2 DEF TypeOK
  <2>4. Building' = {}
    BY <2>3 DEF Building
  <2>5. (Chain = << >> <=> head = 0) /\ (Chain # << >> => head \in Values(Chain))
    BY <1>0, <1>b, <2>2, ItemWalk
  <2>6. /\ pc'[w] = "walk" => cur'[w] \in Values(Chain)
        /\ pc'[w] = "link" => cur'[w] = LastOf(Chain)
    BY <1>0, <2>1, <2>5 DEF TypeOK, LastOf
  <2> QED BY <1>e, <2>1, <2>2, <2>3, <2>4, <2>6
<1>3. ASSUME NEW w \in Writers, AllocateFault(w) PROVE Goal
  BY <1>0, <1>3, <1>f DEF AllocateFault, mem, TypeOK
<1>4. ASSUME NEW w \in Writers, Walk(w) PROVE Goal
  <2>1. /\ pc[w] = "walk" /\ UNCHANGED <<head, next, new>> /\ cur[w] \in Values(Chain)
        /\ \/ next[cur[w]] # 0 /\ cur' = [cur EXCEPT ![w] = next[cur[w]]] /\ pc' = pc
           \/ next[cur[w]] = 0 /\ cur' = cur /\ pc' = [pc EXCEPT ![w] = "link"]
    BY <1>4 DEF Walk, mem, ChainInv
  <2>2. Building = {}
    BY <1>0, <2>1, BuildingIs
  <2>3. IF next[cur[w]] = 0 THEN cur[w] = LastOf(Chain) ELSE next[cur[w]] \in Values(Chain)
    BY <1>0, <1>b, <2>1, <2>2, ItemWalk
  <2>4. \A v \in Writers : pc'[v] \in Marking => pc[v] \in Marking
    BY <1>0, <2>1 DEF TypeOK
  <2>5. Building' = {}
    BY <2>2, <2>4 DEF Building
  <2>6. \A v \in Writers : /\ pc'[v] = "walk" => cur'[v] \in Values(Chain)
                           /\ pc'[v] = "link" => cur'[v] = LastOf(Chain)
    BY <1>0, <2>1, <2>3 DEF TypeOK, ChainInv
  <2> QED BY <1>e, <2>1, <2>2, <2>4, <2>5, <2>6
<1>5. ASSUME NEW w \in Writers, Link(w) PROVE Goal
  <2> DEFINE n == new[w]
  <2>1. /\ pc[w] = "link" /\ mutex = w /\ cur[w] = LastOf(Chain) /\ Sound /\ n \in Slots /\ ~inUse[n]
        /\ pc' = [pc EXCEPT ![w] = "mark"] /\ UNCHANGED <<cur, new>>
        /\ \/ cur[w] = 0 /\ head' = n /\ next' = next
           \/ cur[w] # 0 /\ next' = [next EXCEPT ![cur[w]] = n] /\ head' = head
    BY <1>0, <1>5 DEF Link, Exclusion, Critical, ChainInv, EnqueueSound, IsFree
  <2>2. Building = {} /\ \A v \in Writers : v # w => pc[v] \notin Critical
    BY <1>0, <1>a, <2>1, BuildingIs
  <2>3. \A v \in Writers : pc'[v] \in {"walk", "link"} \cup Marking => v = w /\ pc'[v] = "mark"
    BY <1>0, <2>1, <2>2 DEF TypeOK, Critical
  <2>4. Building' = {n}
    <3>1. {v \in Writers : pc'[v] \in Marking} = {w}
      BY <1>0, <2>1, <2>3 DEF TypeOK
    <3> QED BY <2>1, <3>1 DEF Building
  <2>5. n \notin Values(Chain)
    <3>1. n # head /\ \A s \in Slots : n # next[s]
      BY <1>b, <2>1 DEF Sound, HeadUnlinked, LinkedInUse
    <3> QED BY <1>0, <3>1, ItemLinked
  <2>6. IsItems(Chain, head', next', {n}) /\ EndOf(Chain, head', next') = n
    <3>1. IF LastOf(Chain) = 0 THEN head' = n /\ next' = next
                               ELSE head' = head /\ next' = [next EXCEPT ![LastOf(Chain)] = n]
      BY <2>1
    <3>2. IsItems(Chain, head, next, {}) /\ n \in Slots
      BY <1>0, <2>1, <2>2
    <3>3. PICK list, x, f, l : list = Chain /\ x = n /\ f = head' /\ l = next'
      OBVIOUS
    <3> HIDE DEF n
    <3>4. IsItems(list, head, next, {}) /\ x \in Slots /\ x \notin Values(list)
      BY <2>5, <3>2, <3>3
    <3>5. IF LastOf(list) = 0 THEN f = x /\ l = next
                              ELSE f = head /\ l = [next EXCEPT ![LastOf(list)] = x]
      BY <3>1, <3>3
    <3>6. next \in [Slots -> 0 .. Size] /\ 0 \notin Slots
      BY <1>0, <1>b
    <3>7. IsItems(list, f, l, {x}) /\ EndOf(list, f, l) = x
      BY <3>4, <3>5, <3>6, ItemsLink
    <3> QED BY <3>3, <3>7
  <2>7. Chain' = Chain /\ IsItems(Chain', head', next', Building')
    BY <1>d, <2>4, <2>6
  <2>8. ChainInv'
    BY <2>1, <2>3, <2>6, <2>7 DEF ChainInv
  <2> QED BY <2>7, <2>8
<1>6. ASSUME NEW w \in Writers, MarkInUse(w) PROVE Goal
  BY <1>0, <1>6, <1>f DEF MarkInUse, TypeOK
<1>7. ASSUME NEW w \in Writers, StoreId(w) PROVE Goal
  BY <1>0, <1>7, <1>f DEF StoreId, TypeOK
<1>8. ASSUME NEW w \in Writers, Completes(w) PROVE Goal
  <2> DEFINE n == new[w]
  <2>1. /\ pc[w] = "clear" /\ mutex = w /\ EndOf(Chain, head, next) = n /\ Building = {n}
        /\ n \in Slots /\ next[n] = 0
        /\ \E done : done \notin Critical \ {"unlock"} /\ pc' = [pc EXCEPT ![w] = done]
        /\ (next' = next \/ next' = [next EXCEPT ![n] = 0]) /\ head' = head
    BY <1>0, <1>8, BuildingIs DEF Completes, ClearNext, Die, mem, Exclusion, Critical, ChainInv, EnqueueSound
  <2>2. next' = next
    BY <1>0, <2>1
  <2>3. \A v \in Writers : pc'[v] \notin {"walk", "link"} \cup Marking
    <3>1. \A v \in Writers : v # w => pc[v] \notin Critical
      BY <1>a, <2>1
    <3> QED BY <1>0, <2>1, <3>1 DEF TypeOK, Critical
  <2>4. Building' = {}
    BY <2>3 DEF Building
  <2>5. IsItems(Append(Chain, n), head, next, {})
    <3> HIDE DEF n
    <3> QED BY <1>0, <2>1, ItemsAppend
  <2>6. Chain' = Append(Chain, n) /\ IsItems(Chain', head', next', Building')
    BY <1>d, <2>1, <2>2, <2>4, <2>5
  <2>7. ChainInv'
    BY <2>3, <2>6 DEF ChainInv
  <2> QED BY <1>8, <2>6, <2>7
<1>9. ASSUME NEW w \in Writers, EndEnqueue(w) PROVE Goal
  BY <1>0, <1>9, <1>f DEF EndEnqueue, mem, TypeOK
<1>10. ASSUME NEW w \in Writers, Die(w) PROVE Goal
  <2>1. CASE pc[w] = "clear"
    BY <1>8, <1>10, <2>1 DEF Completes
  <2>2. CASE pc[w] # "clear"
    <3>1. pc[w] \notin Marking /\ pc' = [pc EXCEPT ![w] = "dead"]
      BY <1>10, <2>2 DEF Die
    <3> QED BY <1>0, <1>10, <1>f, <3>1 DEF Die, mem, TypeOK
  <2> QED BY <2>1, <2>2
<1>11. ASSUME BeginDequeue PROVE Goal /\ First
  <2>1. /\ mutex = "none" /\ head # 0 /\ head' = next[head] /\ UNCHANGED <<next, pc, new>>
    BY <1>11 DEF BeginDequeue, writer
  <2>2. Building = {} /\ \A v \in Writers : pc[v] \notin Critical
    BY <1>0, <1>a, <2>1, BuildingIs, WriterAssumption
  <2>3. Building' = {}
    BY <2>1, <2>2 DEF Building
  <2>4. Chain # << >> /\ Chain[1] = head /\ IsItems(Tail(Chain), next[head], next, {})
    BY <1>0, <1>b, <2>1, <2>2, ItemsTail
  <2>5. Chain' = Tail(Chain) /\ IsItems(Chain', head', next', Building')
    BY <1>d, <2>1, <2>3, <2>4
  <2>6. ChainInv'
    BY <2>1, <2>2, <2>5 DEF ChainInv, Critical
  <2> QED BY <1>11, <2>4, <2>5, <2>6
<1>12. ASSUME FreeItem PROVE Goal
  BY <1>12, <1>f DEF FreeItem, writer
<1>13. ASSUME Unlink PROVE Goal
  <2>1. /\ victim \in Slots /\ next' = [next EXCEPT ![victim] = 0]
        /\ head # victim /\ \A s \in Slots : next[s] # victim
        /\ UNCHANGED <<head, pc, cur, new>>
    BY <1>0, <1>13 DEF Unlink, writer, DequeueSound
  <2>2. victim \notin Values(Chain)
    BY <1>0, <2>1, ItemLinked
  <2>3. Building' = Building
    BY <2>1 DEF Building
  <2>4. /\ IsItems(Chain, head, next', Building)
        /\ EndOf(Chain, head, next') = EndOf(Chain, head, next)
    BY <1>0, <2>1, <2>2, ItemsUnlink
  <2>5. Chain' = Chain /\ IsItems(Chain', head', next', Building')
    BY <1>d, <2>1, <2>3, <2>4
  <2>6. ChainInv'
    BY <2>1, <2>4, <2>5 DEF ChainInv
  <2> QED BY <2>5, <2>6
<1>14. ASSUME EndDequeue PROVE Goal
  BY <1>14, <1>f DEF EndDequeue, mem, writer
<1>15. ASSUME UNCHANGED vars PROVE Goal
  BY <1>15, <1>f DEF vars, mem, writer
<1>16. Goal
  <2>1. ASSUME NEW w \in Writers, ClearNext(w) PROVE Goal
    BY <1>8, <2>1 DEF Completes
  <2> HIDE DEF Goal, First
  <2> QED BY <2>1, <1>1, <1>2, <1>3, <1>4, <1>5, <1>6, <1>7, <1>8, <1>9, <1>10, <1>11, <1>12, <1>13, <1>14,
             <1>15 DEF Next, EnqueueStep, DequeueStep
<1> QED BY <1>11, <1>16

-----------------------------------------------------------------------------
(* The refinement of RequestFifo *)

\* The ids of a list that grows at the end do too.
LEMMA IdsAppend ==
    ASSUME NEW S, NEW v \in [Slots -> S], NEW list \in Seq(Slots), NEW s \in Slots
    PROVE  LET c == Append(list, s)
           IN  [k \in DOMAIN c |-> v[c[k]]] = Append([k \in DOMAIN list |-> v[list[k]]], v[s])
<1> DEFINE c == Append(list, s)
           a == [k \in DOMAIN list |-> v[list[k]]]
           b == [k \in DOMAIN c |-> v[c[k]]]
<1>1. PICK n : n = Len(list)
  OBVIOUS
<1>2. n \in Nat /\ DOMAIN list = 1 .. n /\ \A k \in 1 .. n : list[k] \in Slots
  BY <1>1, LenProperties, ElementOfSeq
<1>3. /\ DOMAIN c = 1 .. n + 1 /\ c[n + 1] = s
      /\ \A k \in 1 .. n : c[k] = list[k]
  BY <1>1, <1>2, AppendProperties
<1>4. a \in [1 .. n -> S] /\ \A k \in 1 .. n : a[k] = v[list[k]]
  <2> HIDE DEF c
  <2> QED BY <1>2
<1>5. a \in Seq(S) /\ Len(a) = n
  <2> HIDE DEF a
  <2> QED BY <1>2, <1>4, SeqDef, LenProperties
<1> DEFINE e == Append(a, v[s])
<1>6. /\ DOMAIN e = 1 .. n + 1 /\ e[n + 1] = v[s]
      /\ \A k \in 1 .. n : e[k] = a[k]
  <2>1. v[s] \in S
    OBVIOUS
  <2> HIDE DEF a
  <2> QED BY <1>2, <1>5, <2>1, AppendProperties
<1>7. e \in Seq(S)
  <2>1. v[s] \in S
    OBVIOUS
  <2> HIDE DEF a
  <2> QED BY <1>5, <2>1, AppendProperties
<1>8. DOMAIN b = 1 .. n + 1 /\ \A k \in 1 .. n + 1 : b[k] = v[c[k]]
  <2> HIDE DEF c, a
  <2> QED BY <1>3
<1>9. \A k \in 1 .. n + 1 : b[k] = e[k]
  <2> HIDE DEF b, c, e, a
  <2>1. \A k \in 1 .. n + 1 : k \in 1 .. n \/ k = n + 1
    BY <1>2
  <2> QED BY <1>3, <1>4, <1>6, <1>8, <2>1
<1>10. e = [k \in DOMAIN e |-> e[k]]
  <2> HIDE DEF e
  <2> QED BY <1>7, SeqDef
<1>11. b = e
  <2>1. b = [k \in 1 .. n + 1 |-> b[k]]
    <3> HIDE DEF c
    <3> QED BY <1>3
  <2> HIDE DEF b, c, e, a
  <2> QED BY <1>6, <1>9, <1>10, <2>1
<1> QED BY <1>11

\* The ids of a list without its first are those of the list without theirs.
LEMMA IdsTail ==
    ASSUME NEW S, NEW v \in [Slots -> S], NEW list \in Seq(Slots), list # << >>
    PROVE  LET c == Tail(list)
               a == [k \in DOMAIN list |-> v[list[k]]]
           IN  a # << >> /\ Head(a) = v[list[1]] /\ [k \in DOMAIN c |-> v[c[k]]] = Tail(a)
<1> DEFINE c == Tail(list)
           a == [k \in DOMAIN list |-> v[list[k]]]
           b == [k \in DOMAIN c |-> v[c[k]]]
<1>1. PICK n : n = Len(list)
  OBVIOUS
<1>2. n \in Nat /\ n # 0 /\ DOMAIN list = 1 .. n /\ \A k \in 1 .. n : list[k] \in Slots
  BY <1>1, LenProperties, ElementOfSeq, EmptySeq
<1>3. DOMAIN c = 1 .. n - 1 /\ \A k \in 1 .. n - 1 : c[k] = list[k + 1]
  <2>1. c \in Seq(Slots) /\ Len(c) = n - 1 /\ \A k \in 1 .. Len(c) : c[k] = list[k + 1]
    BY <1>1, HeadTailProperties
  <2> HIDE DEF c
  <2> QED BY <2>1, LenProperties
<1>4. a \in [1 .. n -> S] /\ \A k \in 1 .. n : a[k] = v[list[k]]
  <2> HIDE DEF c
  <2> QED BY <1>2
<1>5. a \in Seq(S) /\ Len(a) = n
  <2> HIDE DEF a
  <2> QED BY <1>2, <1>4, SeqDef, LenProperties
<1>6. a # << >>
  <2> HIDE DEF a
  <2> QED BY <1>2, <1>5, EmptySeq
<1> DEFINE e == Tail(a)
<1>7. /\ Head(a) = a[1] /\ e \in Seq(S)
      /\ DOMAIN e = 1 .. n - 1 /\ \A k \in 1 .. n - 1 : e[k] = a[k + 1]
  <2>1. Head(a) = a[1] /\ e \in Seq(S) /\ Len(e) = n - 1 /\ \A k \in 1 .. Len(e) : e[k] = a[k + 1]
    <3> HIDE DEF a
    <3> QED BY <1>5, <1>6, HeadTailProperties
  <2> HIDE DEF e, a
  <2> QED BY <2>1, LenProperties
<1>8. DOMAIN b = 1 .. n - 1 /\ \A k \in 1 .. n - 1 : b[k] = v[c[k]]
  <2> HIDE DEF c, a
  <2> QED BY <1>3
<1>9. \A k \in 1 .. n - 1 : b[k] = e[k]
  <2> HIDE DEF b, c, e, a
  <2>1. \A k \in 1 .. n - 1 : k + 1 \in 1 .. n
    BY <1>2
  <2> QED BY <1>3, <1>4, <1>7, <1>8, <2>1
<1>10. e = [k \in DOMAIN e |-> e[k]]
  <2> HIDE DEF e
  <2> QED BY <1>7, SeqDef
<1>11. b = e
  <2>1. b = [k \in 1 .. n - 1 |-> b[k]]
    <3> HIDE DEF c
    <3> QED BY <1>3
  <2> HIDE DEF b, c, e, a
  <2> QED BY <1>7, <1>9, <1>10, <2>1
<1>12. Head(a) = v[list[1]]
  <2>1. 1 \in 1 .. n
    BY <1>2
  <2> HIDE DEF a
  <2> QED BY <1>4, <1>7, <2>1
<1> QED BY <1>6, <1>11, <1>12

\* An empty queue has no items.
LEMMA ChainInit == ASSUME Init PROVE ChainInv /\ Chain = << >>
<1>1. head = 0 /\ Building = {} /\ 0 \notin Slots
  BY SizeAssumption DEF Init, Building, Slots
<1>2. IsItems(<< >>, head, next, Building)
  <2>1. << >> \in Seq(Slots) /\ Len(<< >>) = 0 /\ DOMAIN << >> = {}
    BY EmptySeq
  <2>2. Follows(<< >>, head, next, {})
    BY <1>1, <2>1 DEF Follows
  <2> QED BY <1>1, <2>1, <2>2 DEF IsItems, Distinct
<1>3. Chain = << >>
  BY <1>1, <1>2, ItemsAre DEF Chain
<1> QED BY <1>2, <1>3 DEF ChainInv, Init

\* The links lead from the head through the items, and every Enqueue under way is on
\* its way along them (RedirectionRequestQueue.h), until an item is torn.
THEOREM ChainFollowed == Spec => [](torn \/ ChainInv)
<1>1. Init => torn \/ ChainInv
  BY ChainInit
<1>2. IInv /\ IInv' /\ (torn \/ ChainInv) /\ [Next]_vars => (torn \/ ChainInv)'
  <2> SUFFICES ASSUME IInv, IInv', torn \/ ChainInv, [Next]_vars, ~torn' PROVE ChainInv'
    OBVIOUS
  <2>1. ~torn
    BY TornStays
  <2> QED BY <2>1, ChainStep DEF IInv, WholeInv
<1> QED BY <1>1, <1>2, InductiveInvariant, PTL DEF Spec

\* What is delivered changes only when the target takes an item out, and the ids
\* of the items only with the items.
LEMMA SteadyStep ==
    ASSUME ListInv, ChainInv, [Next]_vars
    PROVE  /\ ~BeginDequeue => Delivered' = Delivered
           /\ \A s \in Values(Chain) : id'[s] = id[s]
<1> DEFINE Goal == /\ ~BeginDequeue => Delivered' = Delivered
                   /\ \A s \in Values(Chain) : id'[s] = id[s]
<1>0. TypeOK /\ Exclusion /\ IsItems(Chain, head, next, Building)
  BY DEF ListInv, ChainInv
<1>e. ASSUME UNCHANGED <<id, received, tpc, victim>> PROVE Goal
  BY <1>e DEF Delivered
<1>1. ASSUME NEW w \in Writers, StoreId(w) PROVE Goal
  <2>1. mutex = w /\ tpc = "idle" /\ pc[w] = "name" /\ UNCHANGED <<received, tpc>>
        /\ id' = [id EXCEPT ![new[w]] = req[w]]
    BY <1>0, <1>1, Alone DEF StoreId, target, Exclusion, Critical
  <2>2. new[w] \in Building
    BY <2>1 DEF Building
  <2>3. new[w] \notin Values(Chain) /\ Values(Chain) \subseteq Slots
    BY <1>0, <2>2, ItemLinked
  <2> QED BY <1>0, <2>1, <2>3 DEF Delivered, TypeOK
<1>2. ASSUME NEW w \in Writers,
             \/ BeginEnqueue(w) \/ AllocateItem(w) \/ AllocateFault(w) \/ Walk(w) \/ Link(w)
             \/ MarkInUse(w) \/ ClearNext(w) \/ EndEnqueue(w) \/ Die(w)
      PROVE  Goal
  <2>1. UNCHANGED <<id, received, tpc, victim>>
    BY <1>2 DEF BeginEnqueue, AllocateItem, AllocateFault, Walk, Link, MarkInUse, ClearNext, EndEnqueue,
                Die, mem, target
  <2> QED BY <1>e, <2>1
<1>3. ASSUME BeginDequeue PROVE Goal
  BY <1>3 DEF BeginDequeue
<1>4. ASSUME FreeItem \/ Unlink PROVE Goal
  BY <1>4 DEF FreeItem, Unlink, Delivered
<1>5. ASSUME EndDequeue PROVE Goal
  BY <1>5 DEF EndDequeue, mem, Delivered
<1>6. ASSUME UNCHANGED vars PROVE Goal
  BY <1>6, <1>e DEF vars, mem, target
<1>7. Goal
  <2> HIDE DEF Goal
  <2> QED BY <1>1, <1>2, <1>3, <1>4, <1>5, <1>6 DEF Next, EnqueueStep, DequeueStep
<1> QED BY <1>7

\* What was delivered stays, whatever the list looks like, and a step that tears an
\* item delivers nothing.
LEMMA DeliveredGrows ==
    ASSUME TypeOK, LocalsSet, Exclusion, [Next]_vars, torn'
    PROVE  \/ Delivered' = Delivered
           \/ torn /\ \E i \in Ids \cup {NullId} : Delivered' = Append(Delivered, i)
<1> DEFINE Goal == \/ Delivered' = Delivered
                   \/ torn /\ \E i \in Ids \cup {NullId} : Delivered' = Append(Delivered, i)
<1>1. ASSUME NEW w \in Writers, EnqueueStep(w) \/ Die(w) PROVE Goal
  <2>1. UNCHANGED <<received, tpc, victim>>
    BY <1>1 DEF EnqueueStep, BeginEnqueue, AllocateItem, AllocateFault, Walk, Link, MarkInUse, StoreId,
                ClearNext, EndEnqueue, Die, target
  <2>2. CASE StoreId(w)
    <3>1. tpc = "idle"
      BY <2>2, Alone DEF StoreId, Exclusion, Critical
    <3> QED BY <2>1, <3>1 DEF Delivered
  <2>3. CASE ~StoreId(w)
    <3>1. id' = id
      BY <1>1, <2>3 DEF EnqueueStep, BeginEnqueue, AllocateItem, AllocateFault, Walk, Link, MarkInUse,
                        ClearNext, EndEnqueue, Die, mem
    <3> QED BY <2>1, <3>1 DEF Delivered
  <2> QED BY <2>2, <2>3
<1>2. ASSUME BeginDequeue PROVE Goal
  <2>1. /\ id' = id /\ Delivered = received /\ Delivered' = Append(received, id[head]) /\ torn' = torn
        /\ head # 0
    BY <1>2 DEF BeginDequeue, Delivered
  <2>2. head \in Slots
    BY <2>1 DEF TypeOK, Slots
  <2>3. id[head] \in Ids \cup {NullId}
    BY <2>2 DEF TypeOK
  <2> QED BY <2>1, <2>3
<1>3. ASSUME FreeItem \/ Unlink PROVE Goal
  BY <1>3 DEF FreeItem, Unlink, Delivered
<1>4. ASSUME EndDequeue PROVE Goal
  BY <1>4 DEF EndDequeue, mem, Delivered
<1>5. ASSUME UNCHANGED vars PROVE Goal
  BY <1>5 DEF vars, mem, target, Delivered
<1>6. Goal
  <2> HIDE DEF Goal
  <2> QED BY <1>1, <1>2, <1>3, <1>4, <1>5 DEF Next, DequeueStep
<1> QED BY <1>6

\* The request of the item that is added last is in no other item and was never
\* delivered.
LEMMA NewRequest ==
    ASSUME WholeInv, ChainInv, NEW w \in Writers, pc[w] = "clear"
    PROVE  /\ new[w] \in Slots /\ id[new[w]] \in Ids
           /\ id[new[w]] \notin Fifo!Elements(Pending) \cup Fifo!Elements(Delivered)
<1> DEFINE n == new[w]
<1>0. TypeOK /\ Exclusion /\ IsItems(Chain, head, next, Building) /\ EnqueueSound(w)
  BY DEF WholeInv, ListInv, ChainInv
<1>1. pc[w] = "clear" /\ mutex = w /\ tpc = "idle" /\ \A v \in Writers : v # w => pc[v] \notin Critical
  BY <1>0, Alone DEF Exclusion, Critical
<1>2. Building = {n}
  BY <1>0, <1>1, BuildingIs
<1>3. Sound /\ n \in Slots
  BY <1>0, <1>1 DEF EnqueueSound
<1>4. n \in Filled
  BY <1>1 DEF WholeInv, AlmostAccepted
<1>5. Fresh(id[n])
  BY <1>4 DEF WholeInv, PlaceInv
<1>6. ASSUME NEW s \in Values(Chain) PROVE id[s] # id[n]
  <2>1. s \in Slots /\ s # n /\ (s = head \/ \E t \in Slots : s = next[t])
    BY <1>0, <1>2, <1>6, ItemLinked
  <2>2. s # 0
    BY <2>1, SizeAssumption DEF Slots
  <2>3. inUse[s]
    BY <1>3, <2>1, <2>2 DEF Sound, LinkedInUse, HeadUnlinked
  <2>4. s \in Filled
    BY <1>1, <2>1, <2>3 DEF Filled, Critical
  <2> QED BY <1>4, <2>1, <2>4 DEF WholeInv, PlaceInv
<1>7. id[n] \notin Fifo!Elements(Pending)
  BY <1>6 DEF Fifo!Elements, Pending, Values
<1>8. id[n] \notin Fifo!Elements(Delivered)
  BY <1>1, <1>5 DEF Fifo!Elements, Delivered, Fresh, Got, Values
<1> QED BY <1>3, <1>5, <1>7, <1>8 DEF Fresh

\* RedirectionRequestQueue.h is a first-in first-out queue: to whoever looks at the
\* requests of its items, the last store of Enqueue adds one at the end, the first
\* store of Dequeue takes the first, and no other store or end of a process changes
\* anything, until a process dies with an item torn; what came out stays even then.
THEOREM QueueImplementsFifo == Spec => ImplementsFifo
<1>1. Init => Fifo!Init
  <2> SUFFICES ASSUME Init PROVE Fifo!Init
    OBVIOUS
  <2>1. Chain = << >>
    BY ChainInit
  <2>2. Pending = << >>
    BY <2>1 DEF Pending
  <2> QED BY <2>2 DEF Init, Fifo!Init, Delivered
<1>2. ASSUME IInv, IInv', ChainInv, [Next]_vars, ~torn' PROVE [Fifo!Next]_(Fifo!vars)
  <2>0. /\ ListInv /\ ListInv' /\ WholeInv /\ ~torn /\ torn' = torn
        /\ id \in [Slots -> Ids \cup {NullId}] /\ Chain \in Seq(Slots)
    BY <1>2, TornStays DEF IInv, WholeInv, ListInv, TypeOK, ChainInv, IsItems
  <2>1. /\ \/ Chain' = Chain
           \/ \E w \in Writers : Completes(w) /\ Chain' = Append(Chain, new[w])
           \/ BeginDequeue
        /\ BeginDequeue => Chain # << >> /\ Chain[1] = head /\ Chain' = Tail(Chain)
    BY <1>2, <2>0, ChainStep
  <2>2. /\ ~BeginDequeue => Delivered' = Delivered
        /\ \A s \in Values(Chain) : id'[s] = id[s]
    BY <1>2, <2>0, SteadyStep
  <2>3. ASSUME Chain' = Chain, ~BeginDequeue PROVE [Fifo!Next]_(Fifo!vars)
    <3>1. Pending' = Pending
      BY <2>2, <2>3 DEF Pending, Values
    <3> QED BY <2>0, <2>2, <2>3, <3>1 DEF Fifo!vars
  <2>4. ASSUME NEW w \in Writers, Completes(w), Chain' = Append(Chain, new[w]), ~BeginDequeue
        PROVE  [Fifo!Next]_(Fifo!vars)
    <3>0. pc[w] = "clear" /\ id' = id
      BY <2>4 DEF Completes, ClearNext, Die, mem
    <3>1. new[w] \in Slots /\ id[new[w]] \in Ids
          /\ id[new[w]] \notin Fifo!Elements(Pending) \cup Fifo!Elements(Delivered)
      BY <1>2, <2>0, <3>0, NewRequest
    <3>3. Pending' = Append(Pending, id[new[w]])
      BY <2>0, <2>4, <3>0, <3>1, IdsAppend DEF Pending
    <3>4. Fifo!Enqueue(id[new[w]])
      BY <2>0, <2>2, <2>4, <3>1, <3>3 DEF Fifo!Enqueue
    <3> QED BY <3>1, <3>4 DEF Fifo!Next
  <2>5. ASSUME BeginDequeue PROVE [Fifo!Next]_(Fifo!vars)
    <3>1. Chain # << >> /\ Chain[1] = head /\ Chain' = Tail(Chain)
      BY <2>1, <2>5
    <3>2. id' = id /\ Delivered = received /\ Delivered' = Append(received, id[head])
      BY <2>5 DEF BeginDequeue, Delivered
    <3>3. Pending # << >> /\ Head(Pending) = id[head] /\ Pending' = Tail(Pending)
      BY <2>0, <3>1, <3>2, IdsTail DEF Pending
    <3>4. Fifo!Dequeue
      BY <2>0, <3>2, <3>3 DEF Fifo!Dequeue
    <3> QED BY <3>4 DEF Fifo!Next
  <2> QED BY <2>1, <2>3, <2>4, <2>5
<1>3. ASSUME IInv, [Next]_vars, torn' PROVE [Fifo!Next]_(Fifo!vars)
  <2>1. Delivered' = Delivered \/ (torn /\ \E i \in Ids \cup {NullId} : Delivered' = Append(Delivered, i))
    BY <1>3, DeliveredGrows DEF IInv
  <2> QED BY <1>3, <2>1 DEF Fifo!Next, Fifo!Broken
<1> QED BY <1>1, <1>2, <1>3, TornStays, InductiveInvariant, ChainFollowed, PTL DEF Spec, Fifo!Spec, ImplementsFifo
=============================================================================
