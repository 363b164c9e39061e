----------------------- MODULE DependencyStoreProofs -----------------------
(* Proofs about DependencyStore: for any processes, threads and ids, with   *)
(* any calls under way and whatever ends, what a caller was given keeps its *)
(* file, a lookup that was not overtaken is right, and what was deleted     *)
(* stays deleted.                                                           *)
(*                                                                          *)
(* The invariant is a part for every thread, every id and every process's   *)
(* list; a step of one thread, or the end of a process, is seen by another  *)
(* thread only through Seen.                                                *)
EXTENDS DependencyStore, SequenceTheorems, TLAPS

Making == {"write", "push"}
Looking == {"search", "use", "open", "read", "fix", "done"}
Deleting == {"erase", "unlink"}

(* The place of a thread tells its call, and the call the locks it holds.  *)
InCall(t) ==
  /\ call[t].at = "idle" <=> call[t].op = "None"
  /\ call[t].at # "idle" => call[t].id \in Id
  /\ call[t].at \in Making <=> call[t].op = "Create"
  /\ call[t].at \in Looking <=> call[t].op \in {"Resolve", "Exists"}
  /\ call[t].at \in Deleting <=> call[t].op = "Delete"
  /\ call[t].op \in {"Exists", "Delete"} => lock[Owner[t]] = t
  /\ call[t].op \in {"Resolve", "Exists", "Delete"} => call[t].id \in Known

FileOf(kind) == IF kind = "Artifact" THEN "whole" ELSE "absent"

(* An id is made by one thread, which knows what its file is like.         *)
Creates(t) == call[t].op = "Create" =>
  /\ made[call[t].id].state = "saving" /\ made[call[t].id].by = Owner[t]
  /\ call[t].at = "write" => made[call[t].id].kind = "Artifact"
  /\ call[t].at = "push" => disk[call[t].id] = FileOf(made[call[t].id].kind)
  /\ \A u \in Thread \ {t} : call[u].op = "Create" => call[u].id # call[t].id

(* Its own process has created id i, and nobody has deleted it.            *)
Owned(t, i) == made[i].state = "handed" /\ made[i].by = Owner[t]

(* What a lookup knows unless it was overtaken: what it has compared, the   *)
(* pointer it got, and why it went on to the file.                         *)
LooksUp(t) ==
  LET c == call[t]
      l == list[Owner[t]]
  IN /\ c.op = "Exists" => ~c.raced
     /\ c.at = "search" /\ ~c.raced => c.index \in 1..Len(l) + 1 /\ \A k \in 1..c.index - 1 : l[k].id # c.id
     /\ c.at = "use" /\ ~c.raced => c.index \in 1..Len(l) /\ l[c.index].id = c.id
     /\ c.at \in {"open", "read", "fix"} /\ ~c.raced => ~Owned(t, c.id)
     /\ c.at = "fix" => made[c.id].state # "handed"
     /\ c.at = "done" =>
          /\ ~c.raced => c.found \in {c.id, None, Error}
          /\ c.op = "Resolve" /\ ~c.raced /\ Owned(t, c.id) => c.found = c.id
          /\ c.op = "Exists" /\ Owned(t, c.id) => (c.found = c.id <=> made[c.id].user = c.user)

Deletes(t) == call[t].op = "Delete" => made[call[t].id].state # "handed"

ThreadInv(t) == InCall(t) /\ Creates(t) /\ LooksUp(t) /\ Deletes(t)

(* A file is what the history of its dependency says.                      *)
FileInv(i) ==
  /\ made[i].kind = "Process" => disk[i] = "absent"
  /\ made[i].state = "handed" => disk[i] = FileOf(made[i].kind)
  /\ made[i].state = "deleted" => disk[i] = "absent"
  /\ made[i].gone # {} => i \in Known

(* A process lists what it has created and not deleted, each once.         *)
ListInv(p) ==
  LET l == list[p]
  IN /\ \A k \in 1..Len(l) : l[k].id \in Known /\ l[k].user = made[l[k].id].user
     /\ \A j, k \in 1..Len(l) : l[j].id = l[k].id => j = k
     /\ \A i \in Id : made[i].state = "handed" /\ made[i].by = p => \E k \in 1..Len(l) : l[k].id = i
     /\ \A i \in Id : p \in made[i].gone => \A k \in 1..Len(l) : l[k].id # i

IInv ==
  /\ TypeOK
  /\ \A t \in Thread : ThreadInv(t)
  /\ \A i \in Id : FileInv(i)
  /\ \A p \in Process : ListInv(p)

-----------------------------------------------------------------------------
(* What the steps are made of *)

LEMMA ProcessFacts ==
  /\ \A t \in Thread : Owner[t] \in Process /\ t # None
  /\ \A p \in Process : p # None
  /\ \A i \in Id : i # None /\ i # Error
  /\ None # Error
BY StoreAssumption

LEMMA GoToFacts ==
  ASSUME TypeOK, NEW t \in Thread, NEW step \in Places, GoTo(t, step)
  PROVE  /\ call' \in [Thread -> CallType]
         /\ \A u \in Thread \ {t} : call'[u] = call[u]
         /\ call'[t] \in CallType /\ call'[t].at = step /\ call'[t].op = call[t].op
         /\ call'[t].id = call[t].id /\ call'[t].user = call[t].user
         /\ call'[t].index = call[t].index /\ call'[t].raced = call[t].raced
<1>1. call \in [Thread -> CallType] /\ call[t] \in CallType
  BY DEF TypeOK
<1>2. call' = [call EXCEPT ![t] = [call[t] EXCEPT !.at = step]]
  BY <1>1 DEF GoTo
<1>3. [call[t] EXCEPT !.at = step] \in CallType
  BY <1>1 DEF CallType
<1> QED BY <1>1, <1>2, <1>3 DEF CallType

LEMMA FoundFacts ==
  ASSUME TypeOK, NEW t \in Thread, NEW result \in Id \cup {None, Error}, Found(t, result)
  PROVE  /\ call' \in [Thread -> CallType]
         /\ \A u \in Thread \ {t} : call'[u] = call[u]
         /\ call'[t] \in CallType /\ call'[t].at = "done" /\ call'[t].op = call[t].op
         /\ call'[t].id = call[t].id /\ call'[t].user = call[t].user
         /\ call'[t].raced = call[t].raced /\ call'[t].found = result
<1>1. call \in [Thread -> CallType] /\ call[t] \in CallType
  BY DEF TypeOK
<1>2. call' = [call EXCEPT ![t] = [call[t] EXCEPT !.at = "done", !.found = result]]
  BY <1>1 DEF Found
<1>3. [call[t] EXCEPT !.at = "done", !.found = result] \in CallType
  BY <1>1 DEF CallType, Places
<1> QED BY <1>1, <1>2, <1>3 DEF CallType

LEMMA IdleFacts ==
  /\ Idle \in CallType /\ Idle.at = "idle" /\ Idle.op = "None"
BY DEF Idle, CallType, Places

(* A list whose ids differ has one position of an id it has.               *)
LEMMA FirstFacts ==
  ASSUME NEW l, NEW i, \A j, k \in 1..Len(l) : l[j].id = l[k].id => j = k, Positions(l, i) # {}
  PROVE  First(Positions(l, i)) \in 1..Len(l) /\ l[First(Positions(l, i))].id = i
<1>1. PICK k \in 1..Len(l) : l[k].id = i
  BY DEF Positions
<1>2. Positions(l, i) = {k}
  BY <1>1 DEF Positions
<1>3. First({k}) = k
  <2>1. k <= k
    BY <1>1
  <2> QED BY <2>1 DEF First
<1> QED BY <1>1, <1>2, <1>3

(* A list from which one entry is taken.                                   *)
LEMMA RemoveFacts ==
  ASSUME NEW S, NEW l \in Seq(S), NEW r \in 1..Len(l)
  PROVE  /\ RemoveAt(l, r) \in Seq(S) /\ Len(RemoveAt(l, r)) = Len(l) - 1
         /\ \A k \in 1..Len(l) - 1 : RemoveAt(l, r)[k] = IF k < r THEN l[k] ELSE l[k + 1]
<1> DEFINE a == SubSeq(l, 1, r - 1)
           b == SubSeq(l, r + 1, Len(l))
<1>1. Len(l) \in Nat
  BY LenProperties
<1>2. a \in Seq(S) /\ Len(a) = r - 1 /\ \A k \in 1..r - 1 : a[k] = l[k]
  BY <1>1
<1>3. b \in Seq(S) /\ Len(b) = Len(l) - r /\ \A k \in 1..Len(l) - r : b[k] = l[k + r]
  BY <1>1
<1> HIDE DEF a, b
<1>4. /\ a \o b \in Seq(S) /\ Len(a \o b) = Len(l) - 1
      /\ \A k \in 1..Len(l) - 1 : (a \o b)[k] = IF k < r THEN l[k] ELSE l[k + 1]
  <2>1. /\ a \o b \in Seq(S) /\ Len(a \o b) = Len(a) + Len(b)
        /\ \A k \in 1..Len(a) + Len(b) : (a \o b)[k] = IF k <= Len(a) THEN a[k] ELSE b[k - Len(a)]
    BY <1>2, <1>3, ConcatProperties
  <2>2. Len(a \o b) = Len(l) - 1
    BY <1>1, <1>2, <1>3, <2>1
  <2>3. ASSUME NEW k \in 1..Len(l) - 1 PROVE (a \o b)[k] = IF k < r THEN l[k] ELSE l[k + 1]
    <3>1. (a \o b)[k] = IF k <= r - 1 THEN a[k] ELSE b[k - (r - 1)]
      BY <1>1, <1>2, <1>3, <2>1
    <3>2. CASE k < r
      BY <1>1, <1>2, <3>1, <3>2
    <3>3. CASE k >= r
      <4>1. k - (r - 1) \in 1..Len(l) - r /\ k - (r - 1) + r = k + 1
        BY <1>1, <3>3
      <4>2. b[k - (r - 1)] = l[k - (r - 1) + r]
        BY <1>3, <4>1
      <4> QED BY <1>1, <3>1, <3>3, <4>1, <4>2
    <3>4. k < r \/ k >= r
      BY <1>1
    <3> QED BY <3>2, <3>3, <3>4
  <2> QED BY <2>1, <2>2, <2>3
<1> QED BY <1>4 DEF RemoveAt, a, b

-----------------------------------------------------------------------------
(* A step as the others see it *)

(* What a caller knows of an id stays true, but that it may be deleted or   *)
(* its process may end.                                                    *)
Ages(i) ==
  i \in Known =>
    /\ i \in Known'
    /\ made'[i].user = made[i].user /\ made'[i].by \in {made[i].by, None}
    /\ made'[i].state = "handed" => made[i].state = "handed"

(* Thread u does not move, but a lookup whose list changes is overtaken.   *)
Stands(u) ==
  \/ call'[u] = call[u] /\ (InList(u) => list'[Owner[u]] = list[Owner[u]])
  \/ /\ InList(u) /\ call[u].op # "Exists"
     /\ call'[u] = [call[u] EXCEPT !.raced = TRUE]

Seen(u) ==
  /\ Stands(u)
  /\ lock[Owner[u]] = u => lock'[Owner[u]] = u
  /\ \A i \in Id : Ages(i)
  /\ call[u].op = "Create" =>
       /\ made'[call[u].id] = made[call[u].id] /\ disk'[call[u].id] = disk[call[u].id]
       /\ \A v \in Thread \ {u} : call'[v].op = "Create" => call'[v].id # call[u].id

LEMMA StandsFacts ==
  ASSUME TypeOK, NEW u \in Thread, Stands(u)
  PROVE  /\ call'[u].op = call[u].op /\ call'[u].at = call[u].at /\ call'[u].id = call[u].id
         /\ call'[u].user = call[u].user /\ call'[u].index = call[u].index
         /\ call'[u].found = call[u].found
         /\ call'[u].raced = call[u].raced \/ (call'[u].raced /\ InList(u) /\ call[u].op # "Exists")
         /\ ~call'[u].raced /\ InList(u) => list'[Owner[u]] = list[Owner[u]]
<1>1. call[u] \in CallType
  BY DEF TypeOK
<1> QED BY <1>1 DEF Stands, CallType

LEMMA SeenKeeps ==
  ASSUME IInv, NEW u \in Thread, Seen(u)
  PROVE  ThreadInv(u)'
<1>1. /\ ThreadInv(u) /\ Owner[u] \in Process /\ u # None /\ TypeOK
      /\ call[u].at # "idle" => call[u].id \in Id /\ call[u].id # None
  BY ProcessFacts DEF IInv, ThreadInv, InCall
<1>2. /\ call'[u].op = call[u].op /\ call'[u].at = call[u].at /\ call'[u].id = call[u].id
      /\ call'[u].user = call[u].user /\ call'[u].index = call[u].index
      /\ call'[u].found = call[u].found
      /\ call'[u].raced = call[u].raced \/ (call'[u].raced /\ InList(u) /\ call[u].op # "Exists")
      /\ ~call'[u].raced /\ InList(u) => list'[Owner[u]] = list[Owner[u]]
  BY <1>1, StandsFacts DEF Seen
<1>3. call[u].at # "idle" => Ages(call[u].id)
  BY <1>1 DEF Seen
<1>4. InCall(u)'
  BY <1>1, <1>2, <1>3 DEF ThreadInv, InCall, Seen, Ages
<1>5. Creates(u)'
  BY <1>1, <1>2 DEF ThreadInv, Creates, Seen
<1>6. PICK i : i = call[u].id
  OBVIOUS
<1>7. call[u].op \in {"Resolve", "Exists", "Delete"} =>
        /\ Owned(u, i)' => Owned(u, i)
        /\ made'[i].state = "handed" => made[i].state = "handed"
        /\ made'[i].user = made[i].user
  BY <1>1, <1>3, <1>6, ProcessFacts DEF ThreadInv, InCall, Ages, Owned
<1>8. LooksUp(u)'
  <2> SUFFICES ASSUME call[u].op \in {"Resolve", "Exists"} PROVE LooksUp(u)'
    BY <1>1, <1>2 DEF ThreadInv, InCall, LooksUp, Looking
  <2>1. \/ call'[u].at # "use"
        \/ call'[u].raced
        \/ call'[u].index \in 1..Len(list'[Owner[u]]) /\ list'[Owner[u]][call'[u].index].id = i
    BY <1>1, <1>2, <1>6 DEF ThreadInv, LooksUp, InList
  <2>2. call'[u].at \in {"open", "read", "fix"} /\ ~call'[u].raced => ~Owned(u, i)'
    BY <1>1, <1>2, <1>6, <1>7 DEF ThreadInv, LooksUp, InList
  <2>4. \/ call'[u].at # "search"
        \/ call'[u].raced
        \/ /\ call'[u].index \in 1..Len(list'[Owner[u]]) + 1
           /\ \A k \in 1..call'[u].index - 1 : list'[Owner[u]][k].id # i
    BY <1>1, <1>2, <1>6 DEF ThreadInv, LooksUp, InList
  <2>3. call'[u].at = "done" =>
          /\ ~call'[u].raced => call'[u].found \in {i, None, Error}
          /\ call'[u].op = "Resolve" /\ ~call'[u].raced /\ Owned(u, i)' => call'[u].found = i
          /\ call'[u].op = "Exists" /\ Owned(u, i)' => (call'[u].found = i <=> made'[i].user = call'[u].user)
    BY <1>1, <1>2, <1>6, <1>7 DEF ThreadInv, LooksUp
  <2> QED BY <1>1, <1>2, <1>6, <1>7, <2>1, <2>2, <2>3, <2>4 DEF ThreadInv, LooksUp, Owned
<1>9. Deletes(u)'
  BY <1>1, <1>2, <1>6, <1>7 DEF ThreadInv, Deletes
<1> QED BY <1>4, <1>5, <1>8, <1>9 DEF ThreadInv

(* A step of thread t.                                                     *)
AsSeen(t) ==
  /\ \A u \in Thread \ {t} : Stands(u)
  /\ \A p \in Process : lock[p] \in Thread \ {t} => lock'[p] = lock[p]
  /\ \A i \in Id : Ages(i)
  /\ \A u \in Thread \ {t} : call[u].op = "Create" =>
       /\ made'[call[u].id] = made[call[u].id] /\ disk'[call[u].id] = disk[call[u].id]
       /\ call'[t].op = "Create" => call'[t].id # call[u].id

LEMMA OthersKept ==
  ASSUME IInv, NEW t \in Thread, AsSeen(t), NEW u \in Thread \ {t}
  PROVE  ThreadInv(u)'
<1>1. ThreadInv(u) /\ Owner[u] \in Process /\ TypeOK
  BY ProcessFacts DEF IInv
<1>2. ASSUME call[u].op = "Create", NEW v \in Thread \ {u}, call'[v].op = "Create"
      PROVE  call'[v].id # call[u].id
  <2>1. CASE v = t
    BY <1>2, <2>1 DEF AsSeen
  <2>2. CASE v # t
    <3>1. call'[v].op = call[v].op /\ call'[v].id = call[v].id
      BY <1>1, <2>2, StandsFacts DEF AsSeen
    <3> QED BY <1>1, <1>2, <3>1 DEF ThreadInv, Creates
  <2> QED BY <2>1, <2>2
<1>3. Seen(u)
  BY <1>1, <1>2 DEF AsSeen, Seen
<1> QED BY <1>3, SeenKeeps

(* Which leaves the thread itself, the files and the lists.                *)
LEMMA StepKeeps ==
  ASSUME IInv, NEW t \in Thread, AsSeen(t), TypeOK', ThreadInv(t)',
         \A i \in Id : FileInv(i)', \A p \in Process : ListInv(p)'
  PROVE  IInv'
BY OthersKept DEF IInv

(* A list that does not change.                                            *)
LEMMA ListSame ==
  ASSUME IInv, NEW p \in Process, list'[p] = list[p], \A i \in Id : Ages(i),
         \A i \in Id : made'[i].state = "handed" /\ made'[i].by = p =>
                         made[i].state = "handed" /\ made[i].by = p,
         \A i \in Id : p \in made'[i].gone => p \in made[i].gone
  PROVE  ListInv(p)'
<1>1. ListInv(p) /\ \A i \in Known : i \in Id
  BY DEF IInv, Known
<1> QED BY <1>1 DEF ListInv, Ages
-----------------------------------------------------------------------------
(* Lookups *)

(* A lookup goes on: at most the file it found empty changes.              *)
LEMMA LookupKeeps ==
  ASSUME IInv, NEW t \in Thread, UNCHANGED <<list, flushed, expired, made, ends>>,
         calls' \in [Thread -> Nat],
         call' \in [Thread -> CallType], \A u \in Thread \ {t} : call'[u] = call[u],
         lock' \in [Process -> Thread \cup {None}], graph' \in [Process -> Thread \cup {None}],
         \A p \in Process : lock[p] \in Thread \ {t} => lock'[p] = lock[p],
         disk' = disk \/ (call[t].at = "fix" /\ disk' = [disk EXCEPT ![call[t].id] = "absent"]),
         call'[t].op # "Create", ThreadInv(t)'
  PROVE  IInv'
<1>1. /\ disk \in [Id -> {"absent", "empty", "whole"}] /\ Known' = Known
      /\ call[t].at = "fix" => call[t].id \in Known /\ call[t].id \in Id
  BY DEF IInv, TypeOK, Known, ThreadInv, InCall, Looking
<1>2. TypeOK'
  <2>1. disk' \in [Id -> {"absent", "empty", "whole"}]
    BY <1>1
  <2> QED BY <2>1 DEF IInv, TypeOK
<1>3. AsSeen(t)
  <2>1. \A i \in Id : Ages(i)
    BY <1>1 DEF Ages
  <2>2. \A u \in Thread \ {t} : call[u].op = "Create" => disk'[call[u].id] = disk[call[u].id]
    <3> SUFFICES ASSUME NEW u \in Thread \ {t}, call[u].op = "Create"
                 PROVE  disk'[call[u].id] = disk[call[u].id]
      OBVIOUS
    <3>1. call[u].id \notin Known /\ call[u].id \in Id
      BY DEF IInv, ThreadInv, InCall, Creates, Known, Making
    <3>2. CASE disk' = disk
      BY <3>2
    <3>3. CASE call[t].at = "fix" /\ disk' = [disk EXCEPT ![call[t].id] = "absent"]
      <4>1. call[u].id # call[t].id
        BY <1>1, <3>1, <3>3
      <4> QED BY <1>1, <3>1, <3>3, <4>1
    <3> QED BY <3>2, <3>3
  <2> QED BY <2>1, <2>2 DEF AsSeen, Stands
<1>4. \A i \in Id : FileInv(i)'
  <2> SUFFICES ASSUME NEW i \in Id PROVE FileInv(i)'
    OBVIOUS
  <2>1. FileInv(i) /\ (disk'[i] = disk[i] \/ (disk'[i] = "absent" /\ made[i].state # "handed"))
    BY <1>1 DEF IInv, ThreadInv, LooksUp
  <2> QED BY <1>1, <2>1 DEF FileInv
<1>5. \A p \in Process : ListInv(p)'
  BY <1>1 DEF IInv, ListInv
<1> QED BY <1>2, <1>3, <1>4, <1>5, StepKeeps

(* What a lookup knows of itself before its step, and what stays true.     *)
LEMMA LookupFacts ==
  ASSUME IInv, NEW t \in Thread, call[t].at \in Looking
  PROVE  /\ ThreadInv(t) /\ TypeOK /\ call[t] \in CallType /\ Owner[t] \in Process
         /\ call[t].op \in {"Resolve", "Exists"} /\ call[t].op # "Create" /\ call[t].op # "Delete"
         /\ call[t].id \in Known /\ call[t].id \in Id
         /\ ListInv(Owner[t]) /\ FileInv(call[t].id)
         /\ list[Owner[t]] \in Seq([id : Id \cup {None}, user : BOOLEAN])
         /\ call[t].op = "Exists" => lock[Owner[t]] = t /\ ~call[t].raced
<1>1. ThreadInv(t) /\ TypeOK /\ Owner[t] \in Process
  BY ProcessFacts DEF IInv
<1>2. call[t].op \in {"Resolve", "Exists"} /\ call[t].id \in Known /\ call[t].id \in Id
  BY <1>1 DEF ThreadInv, InCall, Looking, Known
<1> QED BY <1>1, <1>2 DEF IInv, TypeOK, ThreadInv, InCall, LooksUp

(* A lookup that stays in its place keeps what it knows of its call.       *)
LEMMA LookupGoesOn ==
  ASSUME IInv, NEW t \in Thread, call[t].at \in Looking,
         UNCHANGED <<list, made, lock>>,
         call'[t].at \in Looking, call'[t].op = call[t].op, call'[t].id = call[t].id
  PROVE  InCall(t)' /\ Creates(t)' /\ Deletes(t)'
<1>1. call[t].op \in {"Resolve", "Exists"} /\ call[t].id \in Known /\ call[t].id \in Id /\ ThreadInv(t)
  BY LookupFacts
<1>2. Known' = Known
  BY DEF Known
<1> QED BY <1>1, <1>2 DEF ThreadInv, InCall, Creates, Deletes, Looking, Making, Deleting

(* A step of the search: it goes on, gets a pointer or goes to the file,   *)
(* with what it knows of the list unless it was overtaken.                 *)
LEMMA SearchStep ==
  ASSUME IInv, NEW t \in Thread, GetPackageDependencyInMemory(t)
  PROVE  \E at \in {"search", "open", "use"}, index \in Nat :
           /\ call' = [call EXCEPT ![t].at = at, ![t].index = index]
           /\ ~call[t].raced =>
                /\ at = "search" => /\ index \in 1..Len(list[Owner[t]]) + 1
                                   /\ \A k \in 1..index - 1 : list[Owner[t]][k].id # call[t].id
                /\ at = "open" => ~Owned(t, call[t].id)
                /\ at = "use" => index \in 1..Len(list[Owner[t]]) /\ list[Owner[t]][index].id = call[t].id
<1> DEFINE l == list[Owner[t]]
           n == call[t].index
           i == call[t].id
<1>1. call[t].at = "search" /\ call[t].at \in Looking
  BY DEF GetPackageDependencyInMemory, Looking
<1>2. /\ ThreadInv(t) /\ TypeOK /\ call[t] \in CallType /\ i \in Id /\ ListInv(Owner[t])
      /\ n \in Nat /\ Len(l) \in Nat /\ Owner[t] \in Process
      /\ ~call[t].raced => n \in 1..Len(l) + 1 /\ \A k \in 1..n - 1 : l[k].id # i
  <2>1. /\ ThreadInv(t) /\ TypeOK /\ call[t] \in CallType /\ i \in Id /\ ListInv(Owner[t])
        /\ Owner[t] \in Process /\ l \in Seq([id : Id \cup {None}, user : BOOLEAN])
    BY <1>1, LookupFacts
  <2> QED BY <1>1, <2>1, LenProperties DEF ThreadInv, LooksUp, CallType
<1>3. \/ GoTo(t, "use") /\ (call[t].raced \/ (n <= Len(l) /\ l[n].id = i))
      \/ GoTo(t, "open") /\ (call[t].raced \/ ~(n <= Len(l)))
      \/ /\ call' = [call EXCEPT ![t].index = n + 1]
         /\ ~call[t].raced /\ n <= Len(l) /\ l[n].id # i
  BY <1>2 DEF GetPackageDependencyInMemory, TypeOK
<1> DEFINE After(at, index) ==
             /\ call' = [call EXCEPT ![t].at = at, ![t].index = index]
             /\ ~call[t].raced =>
                  /\ at = "search" => index \in 1..Len(l) + 1 /\ \A k \in 1..index - 1 : l[k].id # i
                  /\ at = "open" => ~Owned(t, i)
                  /\ at = "use" => index \in 1..Len(l) /\ l[index].id = i
<1>4. CASE GoTo(t, "use") /\ (call[t].raced \/ (n <= Len(l) /\ l[n].id = i))
  <2>1. call' = [call EXCEPT ![t].at = "use", ![t].index = n]
    BY <1>2, <1>4 DEF GoTo, TypeOK, CallType
  <2>2. After("use", n)
    BY <1>2, <1>4, <2>1
  <2> QED BY <1>2, <2>2
<1>5. CASE GoTo(t, "open") /\ (call[t].raced \/ ~(n <= Len(l)))
  <2>1. call' = [call EXCEPT ![t].at = "open", ![t].index = n]
    BY <1>2, <1>5 DEF GoTo, TypeOK, CallType
  <2>2. ~call[t].raced => \A k \in 1..Len(l) : l[k].id # i
    BY <1>2, <1>5
  <2>3. ~call[t].raced => ~Owned(t, i)
    BY <1>2, <2>2 DEF ListInv, Owned
  <2>4. After("open", n)
    BY <2>1, <2>3
  <2> QED BY <1>2, <2>4
<1>6. CASE /\ call' = [call EXCEPT ![t].index = n + 1]
           /\ ~call[t].raced /\ n <= Len(l) /\ l[n].id # i
  <2>1. call' = [call EXCEPT ![t].at = "search", ![t].index = n + 1]
    BY <1>1, <1>2, <1>6 DEF TypeOK, CallType
  <2>2. n + 1 \in 1..Len(l) + 1 /\ \A k \in 1..(n + 1) - 1 : l[k].id # i
    <3>1. \A k \in 1..(n + 1) - 1 : k \in 1..n - 1 \/ k = n
      BY <1>2
    <3> QED BY <1>2, <1>6, <3>1
  <2>3. PICK m \in Nat : m = n + 1
    BY <1>2
  <2>4. After("search", m)
    BY <2>1, <2>2, <2>3
  <2> QED BY <2>4
<1> QED BY <1>3, <1>4, <1>5, <1>6

LEMMA GetPackageDependencyInMemoryKeeps ==
  ASSUME IInv, NEW t \in Thread, GetPackageDependencyInMemory(t)
  PROVE  IInv'
<1> DEFINE l == list[Owner[t]]
<1>1. call[t].at = "search" /\ call[t].at \in Looking
  BY DEF GetPackageDependencyInMemory, Looking
<1>2. /\ ThreadInv(t) /\ TypeOK /\ call[t] \in CallType /\ Owner[t] \in Process
      /\ call[t].op \in {"Resolve", "Exists"} /\ call[t].id \in Id
      /\ call[t].op = "Exists" => ~call[t].raced
  BY <1>1, LookupFacts
<1>3. UNCHANGED <<list, lock, graph, disk, flushed, expired, made, calls, ends>>
  BY DEF GetPackageDependencyInMemory
<1>4. PICK at \in {"search", "open", "use"}, index \in Nat :
         /\ call' = [call EXCEPT ![t].at = at, ![t].index = index]
         /\ ~call[t].raced =>
              /\ at = "search" => index \in 1..Len(l) + 1 /\ \A k \in 1..index - 1 : l[k].id # call[t].id
              /\ at = "open" => ~Owned(t, call[t].id)
              /\ at = "use" => index \in 1..Len(l) /\ l[index].id = call[t].id
  BY SearchStep
<1>5. /\ call' \in [Thread -> CallType] /\ \A u \in Thread \ {t} : call'[u] = call[u]
      /\ call'[t].at = at /\ call'[t].index = index /\ call'[t].op = call[t].op
      /\ call'[t].id = call[t].id /\ call'[t].raced = call[t].raced
  BY <1>2, <1>4 DEF TypeOK, CallType, Places
<1>6. InCall(t)' /\ Creates(t)' /\ Deletes(t)'
  BY <1>1, <1>3, <1>5, LookupGoesOn DEF Looking
<1>7. LooksUp(t)'
  BY <1>2, <1>3, <1>4, <1>5 DEF LooksUp, Owned
<1> QED BY <1>2, <1>3, <1>5, <1>6, <1>7, LookupKeeps DEF ThreadInv, TypeOK

(* A lookup has its result.                                                *)
LEMMA FoundKeeps ==
  ASSUME IInv, NEW t \in Thread, call[t].at \in Looking,
         NEW result \in Id \cup {None, Error}, Found(t, result),
         UNCHANGED <<list, lock, graph, flushed, expired, made, calls, ends>>,
         disk' = disk \/ (call[t].at = "fix" /\ disk' = [disk EXCEPT ![call[t].id] = "absent"]),
         ~call[t].raced => result \in {call[t].id, None, Error},
         ~call[t].raced /\ call[t].op = "Resolve" /\ Owned(t, call[t].id) => result = call[t].id,
         call[t].op = "Exists" /\ Owned(t, call[t].id) =>
           (result = call[t].id <=> made[call[t].id].user = call[t].user)
  PROVE  IInv'
<1>1. /\ ThreadInv(t) /\ TypeOK /\ call[t].op \in {"Resolve", "Exists"} /\ call[t].id \in Id
      /\ call[t].op = "Exists" => ~call[t].raced
  BY LookupFacts
<1>2. /\ call' \in [Thread -> CallType] /\ \A u \in Thread \ {t} : call'[u] = call[u]
      /\ call'[t].at = "done" /\ call'[t].op = call[t].op /\ call'[t].id = call[t].id
      /\ call'[t].user = call[t].user /\ call'[t].raced = call[t].raced /\ call'[t].found = result
  BY <1>1, FoundFacts
<1>3. InCall(t)' /\ Creates(t)' /\ Deletes(t)'
  BY <1>2, LookupGoesOn DEF Looking
<1>4. LooksUp(t)'
  BY <1>1, <1>2 DEF LooksUp, Owned
<1> QED BY <1>1, <1>2, <1>3, <1>4, LookupKeeps DEF ThreadInv, TypeOK

LEMMA UseKeeps ==
  ASSUME IInv, NEW t \in Thread, Use(t)
  PROVE  IInv'
<1> DEFINE there == list[Owner[t]][call[t].index]
           i == call[t].id
<1>1. call[t].at = "use" /\ call[t].at \in Looking
  BY DEF Use, Looking
<1>2. /\ ThreadInv(t) /\ Owner[t] \in Process /\ call[t].op \in {"Resolve", "Exists"} /\ i \in Id
      /\ ListInv(Owner[t]) /\ (call[t].op = "Exists" => ~call[t].raced)
      /\ i # None
  BY <1>1, LookupFacts, ProcessFacts
<1>3. UNCHANGED <<list, lock, graph, disk, flushed, expired, made, calls, ends>>
  BY DEF Use
<1>4. CASE call[t].raced
  <2>1. PICK anything \in Id \cup {None} : Found(t, anything)
    BY <1>4 DEF Use
  <2>2. anything \in Id \cup {None, Error} /\ call[t].op # "Exists"
    BY <1>2, <1>4
  <2> QED BY <1>1, <1>3, <1>4, <2>1, <2>2, FoundKeeps
<1>5. CASE ~call[t].raced
  <2>1. PICK k : k = call[t].index
    OBVIOUS
  <2>2. k \in 1..Len(list[Owner[t]]) /\ list[Owner[t]][k].id = i
    BY <1>1, <1>2, <1>5, <2>1 DEF ThreadInv, LooksUp
  <2>3. there.id = i /\ there.user = made[i].user
    BY <1>2, <2>1, <2>2 DEF ListInv
  <2>4. PICK result \in {i, None} :
          Found(t, result) /\ (result = i <=> ~(call[t].op = "Exists" /\ made[i].user # call[t].user))
    BY <1>2, <1>5, <2>3 DEF Use
  <2> QED BY <1>1, <1>2, <1>3, <1>5, <2>4, FoundKeeps
<1> QED BY <1>4, <1>5

(* Load: what it reads has no id, and an empty file is no dependency's that *)
(* a caller was handed.                                                    *)
LEMMA LoadKeeps ==
  ASSUME IInv, NEW t \in Thread, OpenFileIfExists(t) \/ ReadFile(t) \/ FixEmptyFile(t)
  PROVE  IInv'
<1> DEFINE i == call[t].id
<1>1. call[t].at \in {"open", "read", "fix"} /\ call[t].at \in Looking
  BY DEF OpenFileIfExists, ReadFile, FixEmptyFile, Looking
<1>2. /\ ThreadInv(t) /\ TypeOK /\ Owner[t] \in Process /\ call[t].op \in {"Resolve", "Exists"} /\ i \in Id
      /\ FileInv(i) /\ (call[t].op = "Exists" => ~call[t].raced)
      /\ ~call[t].raced => ~Owned(t, i)
  BY <1>1, LookupFacts DEF ThreadInv, LooksUp
<1>3. UNCHANGED <<list, lock, graph, flushed, expired, made, calls, ends>>
  BY DEF OpenFileIfExists, ReadFile, FixEmptyFile, FromJSON
<1>4. CASE \E result \in {None, Error} : Found(t, result)
  BY <1>1, <1>2, <1>3, <1>4, FoundKeeps DEF OpenFileIfExists, ReadFile, FixEmptyFile, FromJSON
<1>5. ASSUME NEW step \in {"read", "fix"}, GoTo(t, step), UNCHANGED disk,
             step = "fix" => made[i].state # "handed"
      PROVE  IInv'
  <2>1. step \in Places /\ step \in Looking /\ step # "search" /\ step # "use" /\ step # "done"
    BY DEF Places, Looking
  <2>2. /\ call' \in [Thread -> CallType] /\ \A u \in Thread \ {t} : call'[u] = call[u]
        /\ call'[t].at = step /\ call'[t].op = call[t].op
        /\ call'[t].id = call[t].id /\ call'[t].raced = call[t].raced
    BY <1>2, <1>5, <2>1, GoToFacts
  <2>3. InCall(t)' /\ Creates(t)' /\ Deletes(t)'
    BY <1>1, <1>3, <2>1, <2>2, LookupGoesOn
  <2>4. LooksUp(t)'
    BY <1>2, <1>3, <1>5, <2>1, <2>2 DEF LooksUp, Owned
  <2> QED BY <1>2, <1>3, <1>5, <2>2, <2>3, <2>4, LookupKeeps DEF ThreadInv, TypeOK
<1>6. disk[i] = "empty" => made[i].state # "handed"
  BY <1>2 DEF FileInv, FileOf
<1>7. CASE OpenFileIfExists(t)
  BY <1>4, <1>5, <1>7 DEF OpenFileIfExists
<1>8. CASE ReadFile(t)
  <2>1. CASE disk[i] = "empty"
    BY <1>5, <1>6, <1>8, <2>1 DEF ReadFile
  <2>2. CASE disk[i] # "empty"
    BY <1>4, <1>8, <2>2 DEF ReadFile, FromJSON
  <2> QED BY <2>1, <2>2
<1>9. CASE FixEmptyFile(t)
  BY <1>4, <1>9 DEF FixEmptyFile
<1> QED BY <1>7, <1>8, <1>9

(* A call is over.                                                         *)
LEMMA IdleInv ==
  ASSUME NEW t \in Thread, call'[t] = Idle
  PROVE  ThreadInv(t)'
<1>1. call'[t].at = "idle" /\ call'[t].op = "None"
  BY IdleFacts
<1> QED BY <1>1 DEF ThreadInv, InCall, Creates, LooksUp, Deletes, Making, Looking, Deleting

LEMMA ReturnKeeps ==
  ASSUME IInv, NEW t \in Thread, Return(t)
  PROVE  IInv'
<1>1. /\ call[t].op \in {"Resolve", "Exists"} /\ TypeOK
  BY LookupFacts DEF Return, Looking
<1>2. /\ call' \in [Thread -> CallType] /\ call'[t] = Idle
      /\ \A u \in Thread \ {t} : call'[u] = call[u]
      /\ lock' \in [Process -> Thread \cup {None}] /\ graph' \in [Process -> Thread \cup {None}]
      /\ \A p \in Process : lock[p] \in Thread \ {t} => lock'[p] = lock[p]
      /\ UNCHANGED <<list, disk, flushed, expired, made, calls, ends>>
  BY <1>1, IdleFacts DEF Return, TypeOK
<1>3. ThreadInv(t)' /\ call'[t].op # "Create"
  BY <1>2, IdleInv, IdleFacts
<1> QED BY <1>1, <1>2, <1>3, LookupKeeps DEF TypeOK


(* A lookup begins: Resolve under the graph's lock, Exists under the list's. *)
LEMMA EnterFacts ==
  ASSUME TypeOK, NEW t \in Thread, NEW c \in CallType, Enter(t, c)
  PROVE  /\ call[t].at = "idle"
         /\ call' \in [Thread -> CallType] /\ call'[t] = c
         /\ \A u \in Thread \ {t} : call'[u] = call[u]
         /\ calls' \in [Thread -> Nat]
<1>1. call \in [Thread -> CallType] /\ calls \in [Thread -> Nat]
  BY DEF TypeOK
<1>2. calls[t] - 1 \in Nat
  BY <1>1 DEF Enter
<1> QED BY <1>1, <1>2 DEF Enter

LEMMA LookupBegins ==
  ASSUME IInv, NEW t \in Thread, NEW c \in CallType, Enter(t, c),
         c.op \in {"Resolve", "Exists"}, c.at = "search", c.id \in Known, ~c.raced, c.index = 1,
         UNCHANGED <<list, disk, flushed, expired, made, ends>>,
         lock' \in [Process -> Thread \cup {None}], graph' \in [Process -> Thread \cup {None}],
         \A p \in Process : lock[p] \in Thread \ {t} => lock'[p] = lock[p],
         c.op = "Exists" => lock'[Owner[t]] = t
  PROVE  IInv'
<1>1. /\ call' \in [Thread -> CallType] /\ call'[t] = c /\ calls' \in [Thread -> Nat]
      /\ \A u \in Thread \ {t} : call'[u] = call[u]
  BY EnterFacts DEF IInv
<1>2. Known' = Known /\ c.id \in Id
  BY DEF Known
<1>3. InCall(t)'
  BY <1>1, <1>2 DEF InCall, Making, Looking, Deleting
<1>4. list'[Owner[t]] \in Seq([id : Id \cup {None}, user : BOOLEAN])
  BY ProcessFacts DEF IInv, TypeOK
<1>5. 1 \in 1..Len(list'[Owner[t]]) + 1 /\ \A k \in 1..1 - 1 : list'[Owner[t]][k].id # c.id
  BY <1>4, LenProperties
<1>6. Creates(t)' /\ LooksUp(t)' /\ Deletes(t)'
  BY <1>1, <1>5 DEF Creates, LooksUp, Deletes
<1> QED BY <1>1, <1>3, <1>6, LookupKeeps DEF ThreadInv

LEMMA ResolveKeeps ==
  ASSUME IInv, NEW t \in Thread, NEW i \in Id, Resolve(t, i)
  PROVE  IInv'
<1> DEFINE c == [Idle EXCEPT !.op = "Resolve", !.at = "search", !.id = i, !.index = 1]
<1>1. TypeOK /\ Owner[t] \in Process
  BY ProcessFacts DEF IInv
<1>2. /\ c \in CallType /\ c.op = "Resolve" /\ c.at = "search" /\ c.id = i /\ ~c.raced /\ c.index = 1
  BY DEF Idle, CallType, Places
<1>3. /\ Enter(t, c) /\ UNCHANGED <<list, lock, disk, flushed, expired, made, ends>>
      /\ graph' = [graph EXCEPT ![Owner[t]] = t] /\ i \in Known
  BY DEF Resolve
<1> HIDE DEF c
<1>4. lock' \in [Process -> Thread \cup {None}] /\ graph' \in [Process -> Thread \cup {None}]
  BY <1>1, <1>3 DEF TypeOK
<1> QED BY <1>2, <1>3, <1>4, LookupBegins

LEMMA ExistsKeeps ==
  ASSUME IInv, NEW t \in Thread, NEW i \in Id, NEW user \in BOOLEAN,
         ExistsPackageDependency(t, i, user)
  PROVE  IInv'
<1> DEFINE c == [Idle EXCEPT !.op = "Exists", !.at = "search", !.id = i, !.user = user, !.index = 1]
<1>1. TypeOK /\ Owner[t] \in Process /\ None \notin Thread
  BY ProcessFacts, StoreAssumption DEF IInv
<1>2. /\ c \in CallType /\ c.op = "Exists" /\ c.at = "search" /\ c.id = i /\ ~c.raced /\ c.index = 1
  BY DEF Idle, CallType, Places
<1>3. /\ Enter(t, c) /\ UNCHANGED <<list, graph, disk, flushed, expired, made, ends>>
      /\ lock[Owner[t]] = None /\ lock' = [lock EXCEPT ![Owner[t]] = t] /\ i \in Known
  BY DEF ExistsPackageDependency
<1> HIDE DEF c
<1>4. /\ lock' \in [Process -> Thread \cup {None}] /\ graph' \in [Process -> Thread \cup {None}]
      /\ lock'[Owner[t]] = t
      /\ \A p \in Process : lock[p] \in Thread \ {t} => lock'[p] = lock[p]
  BY <1>1, <1>3 DEF TypeOK
<1> QED BY <1>2, <1>3, <1>4, LookupBegins

-----------------------------------------------------------------------------
(* Create *)

(* What another thread is creating is not known, and neither is what this  *)
(* one creates.                                                            *)
LEMMA CreatorFacts ==
  ASSUME IInv, NEW t \in Thread, call[t].op = "Create"
  PROVE  /\ call[t].id \in Id /\ call[t].id \notin Known /\ made[call[t].id] \in MadeType
         /\ made[call[t].id].state = "saving" /\ made[call[t].id].by = Owner[t]
         /\ made[call[t].id].gone = {}
         /\ call[t].at = "write" => made[call[t].id].kind = "Artifact"
         /\ call[t].at = "push" => disk[call[t].id] = FileOf(made[call[t].id].kind)
         /\ \A u \in Thread \ {t} : call[u].op = "Create" => call[u].id # call[t].id
<1>1. call[t].id \in Id /\ ThreadInv(t)
  BY DEF IInv, ThreadInv, InCall, Making
<1>2. made[call[t].id].state = "saving" /\ call[t].id \notin Known
  BY <1>1 DEF ThreadInv, Creates, Known
<1>3. made[call[t].id].gone = {}
  BY <1>1, <1>2 DEF IInv, FileInv
<1> QED BY <1>1, <1>2, <1>3 DEF IInv, TypeOK, ThreadInv, Creates

(* Ids the step leaves alone, and one it changes that nobody knows yet.    *)
LEMMA UnknownAges ==
  ASSUME NEW i, i \notin Known, \A j \in Id \ {i} : made'[j] = made[j]
  PROVE  \A j \in Id : Ages(j)
<1> SUFFICES ASSUME NEW j \in Id, j \in Known PROVE Ages(j)
  BY DEF Ages
<1>1. made'[j] = made[j]
  OBVIOUS
<1> QED BY <1>1 DEF Ages, Known

LEMMA CreateKeeps ==
  ASSUME IInv, NEW t \in Thread, NEW i \in Id, NEW d \in Definition,
         CreatePackageDependency(t, i, d)
  PROVE  IInv'
<1> DEFINE c == [Idle EXCEPT !.op = "Create", !.id = i,
                             !.at = IF d.kind = "Process" THEN "push" ELSE "write"]
           m == [state |-> "saving", by |-> Owner[t], kind |-> d.kind, user |-> d.user, gone |-> {}]
           file == IF d.kind = "Process" THEN "absent" ELSE "empty"
<1>1. TypeOK /\ Owner[t] \in Process /\ d.kind \in {"Process", "Artifact"} /\ d.user \in BOOLEAN
  BY ProcessFacts, StoreAssumption DEF IInv
<1>2. /\ c \in CallType /\ c.op = "Create" /\ c.id = i /\ ~c.raced
      /\ c.at = "push" <=> d.kind = "Process"
      /\ c.at = "write" <=> d.kind = "Artifact"
      /\ c.at \in Making
  BY <1>1 DEF Idle, CallType, Places, Making
<1>3. /\ m \in MadeType /\ m.state = "saving" /\ m.by = Owner[t] /\ m.kind = d.kind /\ m.gone = {}
      /\ file \in {"absent", "empty", "whole"} /\ (d.kind = "Process" => file = "absent")
  BY <1>1 DEF MadeType
<1>4. /\ made[i].state = "unborn" /\ Enter(t, c)
      /\ made' = [made EXCEPT ![i] = m] /\ disk' = [disk EXCEPT ![i] = file]
      /\ UNCHANGED <<list, lock, graph, flushed, expired, ends>>
  BY DEF CreatePackageDependency
<1> HIDE DEF c, m, file
<1>5. /\ call[t].at = "idle" /\ call' \in [Thread -> CallType] /\ call'[t] = c
      /\ \A u \in Thread \ {t} : call'[u] = call[u]
      /\ calls' \in [Thread -> Nat]
  BY <1>1, <1>2, <1>4, EnterFacts
<1>6. /\ made' \in [Id -> MadeType] /\ made'[i] = m /\ \A j \in Id \ {i} : made'[j] = made[j]
      /\ disk' \in [Id -> {"absent", "empty", "whole"}] /\ disk'[i] = file
      /\ \A j \in Id \ {i} : disk'[j] = disk[j]
  BY <1>1, <1>3, <1>4 DEF TypeOK
<1>7. TypeOK'
  BY <1>1, <1>4, <1>5, <1>6 DEF TypeOK
<1>8. \A j \in Id : Ages(j)
  BY <1>4, <1>6, UnknownAges DEF Known
<1>9. \A u \in Thread \ {t} : call[u].op = "Create" => call[u].id \in Id \ {i}
  BY <1>4, CreatorFacts
<1>10. AsSeen(t)
  BY <1>2, <1>4, <1>5, <1>6, <1>8, <1>9 DEF AsSeen, Stands
<1>11. ThreadInv(t)'
  <2>1. InCall(t)' /\ LooksUp(t)' /\ Deletes(t)'
    BY <1>2, <1>5 DEF InCall, LooksUp, Deletes, Making, Looking, Deleting
  <2>2. made'[i].state = "saving" /\ made'[i].by = Owner[t] /\ made'[i].kind = d.kind
    BY <1>3, <1>6
  <2>3. c.at = "push" => disk'[i] = FileOf(d.kind)
    BY <1>2, <1>3, <1>6 DEF FileOf
  <2>4. \A u \in Thread \ {t} : call'[u].op = "Create" => call'[u].id # i
    BY <1>5, <1>9
  <2>5. Creates(t)'
    BY <1>2, <1>5, <2>2, <2>3, <2>4 DEF Creates
  <2> QED BY <2>1, <2>5 DEF ThreadInv
<1>12. \A j \in Id : FileInv(j)'
  <2> SUFFICES ASSUME NEW j \in Id PROVE FileInv(j)'
    OBVIOUS
  <2>1. CASE j = i
    BY <1>3, <1>6, <2>1 DEF FileInv
  <2>2. CASE j # i
    BY <1>6, <1>8, <2>2 DEF IInv, FileInv, Ages
  <2> QED BY <2>1, <2>2
<1>13. \A p \in Process : ListInv(p)'
  <2>1. \A p \in Process : list'[p] = list[p]
    BY <1>4
  <2>2. \A j \in Id : made'[j] = made[j] \/ (made'[j].state = "saving" /\ made'[j].gone = {})
    BY <1>3, <1>6
  <2> QED BY <1>8, <2>1, <2>2, ListSame
<1> QED BY <1>7, <1>10, <1>11, <1>12, <1>13, StepKeeps

LEMMA WriteFileKeeps ==
  ASSUME IInv, NEW t \in Thread, WriteFile(t)
  PROVE  IInv'
<1> DEFINE i == call[t].id
<1>1. TypeOK /\ call[t] \in CallType /\ call[t].at = "write" /\ call[t].op = "Create"
  BY DEF IInv, TypeOK, WriteFile, ThreadInv, InCall, Making
<1>2. /\ i \in Id /\ i \notin Known /\ made[i] \in MadeType
      /\ made[i].state = "saving" /\ made[i].by = Owner[t] /\ made[i].kind = "Artifact" /\ made[i].gone = {}
      /\ \A u \in Thread \ {t} : call[u].op = "Create" => call[u].id \in Id \ {i}
  BY <1>1, CreatorFacts
<1>3. UNCHANGED <<list, lock, graph, flushed, expired, calls, ends>>
  BY DEF WriteFile
<1>4. \A p \in Process : list'[p] = list[p]
  BY <1>3
<1>5. CASE disk' = [disk EXCEPT ![i] = "whole"] /\ GoTo(t, "push") /\ UNCHANGED made
  <2>1. /\ call' \in [Thread -> CallType] /\ \A u \in Thread \ {t} : call'[u] = call[u]
        /\ call'[t].at = "push" /\ call'[t].op = "Create" /\ call'[t].id = i
    BY <1>1, <1>5, GoToFacts DEF Places
  <2>2. /\ disk' \in [Id -> {"absent", "empty", "whole"}] /\ disk'[i] = "whole"
        /\ \A j \in Id \ {i} : disk'[j] = disk[j]
    BY <1>1, <1>2, <1>5 DEF TypeOK
  <2>3. TypeOK'
    BY <1>1, <1>3, <1>5, <2>1, <2>2 DEF TypeOK
  <2>4. \A j \in Id : Ages(j)
    BY <1>2, <1>5, UnknownAges
  <2>5. AsSeen(t)
    BY <1>2, <1>3, <1>5, <2>1, <2>2, <2>4 DEF AsSeen, Stands
  <2>6. ThreadInv(t)'
    <3>1. InCall(t)' /\ LooksUp(t)' /\ Deletes(t)'
      BY <1>2, <2>1 DEF InCall, LooksUp, Deletes, Making, Looking, Deleting
    <3>2. Creates(t)'
      BY <1>2, <1>5, <2>1, <2>2 DEF Creates, FileOf
    <3> QED BY <3>1, <3>2 DEF ThreadInv
  <2>7. \A j \in Id : FileInv(j)'
    <3> SUFFICES ASSUME NEW j \in Id PROVE FileInv(j)'
      OBVIOUS
    <3>1. FileInv(j) /\ (j = i \/ disk'[j] = disk[j])
      BY <2>2 DEF IInv
    <3> QED BY <1>2, <1>5, <2>4, <3>1 DEF FileInv, Ages
  <2>8. \A p \in Process : ListInv(p)'
    BY <1>4, <1>5, <2>4, ListSame
  <2> QED BY <2>3, <2>5, <2>6, <2>7, <2>8, StepKeeps
<1>6. CASE made' = [made EXCEPT ![i].state = "failed"] /\ call' = [call EXCEPT ![t] = Idle] /\ UNCHANGED disk
  <2>1. /\ call' \in [Thread -> CallType] /\ call'[t] = Idle /\ \A u \in Thread \ {t} : call'[u] = call[u]
    BY <1>1, <1>6, IdleFacts DEF TypeOK
  <2>2. /\ made' \in [Id -> MadeType] /\ made'[i].state = "failed" /\ made'[i].gone = {}
        /\ made'[i].kind = "Artifact"
        /\ \A j \in Id \ {i} : made'[j] = made[j]
    BY <1>1, <1>2, <1>6 DEF TypeOK, MadeType
  <2>3. TypeOK'
    BY <1>1, <1>3, <1>6, <2>1, <2>2 DEF TypeOK
  <2>4. \A j \in Id : Ages(j)
    BY <1>2, <2>2, UnknownAges
  <2>5. AsSeen(t)
    BY <1>2, <1>3, <1>6, <2>1, <2>2, <2>4, IdleFacts DEF AsSeen, Stands
  <2>6. ThreadInv(t)'
    BY <2>1, IdleInv
  <2>7. \A j \in Id : FileInv(j)'
    <3> SUFFICES ASSUME NEW j \in Id PROVE FileInv(j)'
      OBVIOUS
    <3>1. FileInv(j) /\ (j = i \/ made'[j] = made[j])
      BY <2>2 DEF IInv
    <3> QED BY <1>2, <1>6, <2>2, <2>4, <3>1 DEF FileInv, Ages
  <2>8. \A p \in Process : ListInv(p)'
    <3>1. \A j \in Id : made'[j] = made[j] \/ (made'[j].state = "failed" /\ made'[j].gone = {})
      BY <2>2
    <3> QED BY <1>4, <2>4, <3>1, ListSame
  <2> QED BY <2>3, <2>5, <2>6, <2>7, <2>8, StepKeeps
<1> QED BY <1>5, <1>6 DEF WriteFile

-----------------------------------------------------------------------------
(* Steps that change a list *)

(* A lookup of the same process that has its pointer is overtaken, unless  *)
(* the list's lock keeps it out.                                           *)
LEMMA RacedFacts ==
  ASSUME TypeOK, NEW p \in Process
  PROVE  /\ Raced(p) \in [Thread -> CallType]
         /\ \A u \in Thread : IF Owner[u] = p /\ InList(u)
                              THEN Raced(p)[u] = [call[u] EXCEPT !.raced = TRUE]
                              ELSE Raced(p)[u] = call[u]
<1> SUFFICES ASSUME NEW u \in Thread
             PROVE  /\ Raced(p)[u] \in CallType
                    /\ IF Owner[u] = p /\ InList(u)
                       THEN Raced(p)[u] = [call[u] EXCEPT !.raced = TRUE]
                       ELSE Raced(p)[u] = call[u]
  BY DEF Raced
<1>1. call[u] \in CallType /\ call[u].raced \in BOOLEAN
  BY DEF TypeOK, CallType
<1>2. CASE Owner[u] = p /\ InList(u)
  BY <1>1, <1>2 DEF Raced, CallType
<1>3. CASE ~(Owner[u] = p /\ InList(u))
  <2>1. Raced(p)[u] = [call[u] EXCEPT !.raced = call[u].raced \/ FALSE]
    BY <1>3 DEF Raced
  <2>2. (call[u].raced \/ FALSE) = call[u].raced
    BY <1>1
  <2> QED BY <1>1, <1>3, <2>1, <2>2 DEF CallType
<1> QED BY <1>2, <1>3

(* The others when thread t changes its process's list: nobody looks it up *)
(* under the list's lock.                                                  *)
LEMMA RacedSeen ==
  ASSUME IInv, NEW t \in Thread, NEW c \in CallType, lock[Owner[t]] \in {t, None},
         call' = [Raced(Owner[t]) EXCEPT ![t] = c],
         \A p \in Process \ {Owner[t]} : list'[p] = list[p]
  PROVE  /\ call' \in [Thread -> CallType] /\ call'[t] = c
         /\ \A u \in Thread \ {t} : Stands(u)
<1>1. TypeOK /\ Owner[t] \in Process /\ \A u \in Thread : u # None
  BY ProcessFacts DEF IInv
<1>2. /\ Raced(Owner[t]) \in [Thread -> CallType]
      /\ \A u \in Thread : IF Owner[u] = Owner[t] /\ InList(u)
                           THEN Raced(Owner[t])[u] = [call[u] EXCEPT !.raced = TRUE]
                           ELSE Raced(Owner[t])[u] = call[u]
  BY <1>1, RacedFacts
<1>3. /\ call' \in [Thread -> CallType] /\ call'[t] = c
      /\ \A u \in Thread \ {t} : call'[u] = Raced(Owner[t])[u]
  BY <1>2
<1>4. ASSUME NEW u \in Thread \ {t} PROVE Stands(u)
  <2>1. ThreadInv(u) /\ Owner[u] \in Process
    BY ProcessFacts DEF IInv
  <2>2. CASE Owner[u] = Owner[t] /\ InList(u)
    <3>1. call[u].op # "Exists"
      BY <1>1, <2>1, <2>2 DEF ThreadInv, InCall
    <3> QED BY <1>2, <1>3, <2>2, <3>1 DEF Stands
  <2>3. CASE ~(Owner[u] = Owner[t] /\ InList(u))
    BY <1>2, <1>3, <2>1, <2>3 DEF Stands
  <2> QED BY <2>2, <2>3
<1> QED BY <1>3, <1>4

LEMMA PushKeeps ==
  ASSUME IInv, NEW t \in Thread, Push(t)
  PROVE  IInv'
<1> DEFINE i == call[t].id
           p == Owner[t]
           S == [id : Id \cup {None}, user : BOOLEAN]
           l == list[p]
<1>1. TypeOK /\ call[t].at = "push" /\ call[t].op = "Create" /\ p \in Process /\ p # None
  BY ProcessFacts DEF IInv, Push, ThreadInv, InCall, Making
<1>2. /\ i \in Id /\ i \notin Known /\ made[i] \in MadeType
      /\ made[i].state = "saving" /\ made[i].by = p /\ made[i].gone = {}
      /\ disk[i] = FileOf(made[i].kind)
      /\ \A u \in Thread \ {t} : call[u].op = "Create" => call[u].id \in Id \ {i}
  BY <1>1, CreatorFacts
<1>3. /\ UNCHANGED <<lock, graph, disk, flushed, expired, calls, ends>> /\ lock[p] = None
      /\ list' = [list EXCEPT ![p] = Append(l, Entry(i))]
      /\ made' = [made EXCEPT ![i].state = "handed"]
      /\ call' = [Raced(p) EXCEPT ![t] = Idle]
  BY DEF Push
<1>4. /\ made' \in [Id -> MadeType] /\ made'[i].state = "handed" /\ made'[i].gone = {}
      /\ made'[i].kind = made[i].kind /\ made'[i].by = p /\ made'[i].user = made[i].user
      /\ \A j \in Id \ {i} : made'[j] = made[j]
  BY <1>1, <1>2, <1>3 DEF TypeOK, MadeType
<1>5. Entry(i) \in S /\ Entry(i).id = i /\ Entry(i).user = made[i].user
  BY <1>2 DEF Entry, MadeType
<1> HIDE DEF i
<1>6. /\ l \in Seq(S) /\ list \in [Process -> Seq(S)]
      /\ Append(l, Entry(i)) \in Seq(S) /\ Len(Append(l, Entry(i))) = Len(l) + 1
      /\ Append(l, Entry(i))[Len(l) + 1] = Entry(i)
      /\ \A k \in 1..Len(l) : Append(l, Entry(i))[k] = l[k]
  <2>1. l \in Seq(S) /\ list \in [Process -> Seq(S)]
    BY <1>1 DEF TypeOK
  <2> HIDE DEF S, l
  <2> QED BY <1>5, <2>1, AppendProperties
<1> DEFINE l2 == list'[p]
<1>7. /\ list' \in [Process -> Seq(S)] /\ \A q \in Process \ {p} : list'[q] = list[q]
      /\ Len(l) \in Nat /\ Len(l2) = Len(l) + 1
      /\ l2[Len(l) + 1] = Entry(i) /\ \A k \in 1..Len(l) : l2[k] = l[k]
  <2>1. Len(l) \in Nat
    BY <1>6, LenProperties
  <2> HIDE DEF S
  <2> QED BY <1>1, <1>3, <1>6, <2>1
<1>8. /\ call' \in [Thread -> CallType] /\ call'[t] = Idle
      /\ \A u \in Thread \ {t} : Stands(u)
  BY <1>1, <1>3, <1>7, IdleFacts, RacedSeen
<1>9. TypeOK'
  BY <1>1, <1>3, <1>4, <1>7, <1>8 DEF TypeOK
<1>10. \A j \in Id : Ages(j)
  BY <1>2, <1>4, UnknownAges
<1>11. AsSeen(t)
  BY <1>2, <1>3, <1>4, <1>8, <1>10, IdleFacts DEF AsSeen
<1>12. ThreadInv(t)'
  BY <1>8, IdleInv
<1>13. \A j \in Id : FileInv(j)'
  <2> SUFFICES ASSUME NEW j \in Id PROVE FileInv(j)'
    OBVIOUS
  <2>1. FileInv(j) /\ (j = i \/ made'[j] = made[j])
    BY <1>4 DEF IInv
  <2> QED BY <1>2, <1>3, <1>4, <1>10, <2>1 DEF FileInv, FileOf, Ages
<1>14. \A q \in Process : ListInv(q)'
  <2> SUFFICES ASSUME NEW q \in Process PROVE ListInv(q)'
    OBVIOUS
  <2>1. CASE q # p
    <3>1. \A j \in Id : made'[j] = made[j] \/ (made'[j].by = p /\ made'[j].gone = {})
      BY <1>4
    <3> QED BY <1>7, <1>10, <2>1, <3>1, ListSame
  <2>2. CASE q = p
    <3> HIDE DEF S, l, l2, p
    <3>1. /\ \A k \in 1..Len(l) : l[k].id \in Known /\ l[k].id \in Id /\ l[k].id # i
                                  /\ l[k].user = made[l[k].id].user
          /\ \A j, k \in 1..Len(l) : l[j].id = l[k].id => j = k
          /\ \A j \in Id : made[j].state = "handed" /\ made[j].by = p => \E k \in 1..Len(l) : l[k].id = j
          /\ \A j \in Id : p \in made[j].gone => \A k \in 1..Len(l) : l[k].id # j
      BY <1>1, <1>2 DEF IInv, ListInv, Known, l
    <3>2. i \in Known'
      BY <1>2, <1>4 DEF Known
    <3>3. \A k \in 1..Len(l2) : (k \in 1..Len(l) /\ l2[k] = l[k]) \/ (k = Len(l) + 1 /\ l2[k] = Entry(i))
      BY <1>7
    <3>4. \A k \in 1..Len(l2) : l2[k].id \in Known' /\ l2[k].user = made'[l2[k].id].user
      BY <1>4, <1>5, <1>10, <3>1, <3>2, <3>3 DEF Ages
    <3>5. \A j, k \in 1..Len(l2) : l2[j].id = l2[k].id => j = k
      BY <1>5, <3>1, <3>3
    <3>6. ASSUME NEW j \in Id, made'[j].state = "handed", made'[j].by = p
          PROVE  \E k \in 1..Len(l2) : l2[k].id = j
      <4>1. CASE j = i
        BY <1>5, <1>7, <4>1
      <4>2. CASE j # i
        <5>1. PICK k \in 1..Len(l) : l[k].id = j
          BY <1>4, <3>1, <3>6, <4>2
        <5>2. k \in 1..Len(l2) /\ l2[k].id = j
          BY <1>7, <5>1
        <5> QED BY <5>2
      <4> QED BY <4>1, <4>2
    <3>7. ASSUME NEW j \in Id, p \in made'[j].gone PROVE \A k \in 1..Len(l2) : l2[k].id # j
      <4>1. j # i /\ made'[j] = made[j]
        BY <1>4, <3>7
      <4> QED BY <1>5, <3>1, <3>3, <3>7, <4>1
    <3> QED BY <2>2, <3>4, <3>5, <3>6, <3>7 DEF ListInv, l2
  <2> QED BY <2>1, <2>2
<1> QED BY <1>9, <1>11, <1>12, <1>13, <1>14, StepKeeps

-----------------------------------------------------------------------------
(* Delete *)

LEMMA DeletePackageDependencyKeeps ==
  ASSUME IInv, NEW t \in Thread, NEW i \in Id, DeletePackageDependency(t, i)
  PROVE  IInv'
<1> DEFINE c == [Idle EXCEPT !.op = "Delete", !.at = "erase", !.id = i]
<1>1. TypeOK /\ Owner[t] \in Process /\ t # None /\ None \notin Thread
  BY ProcessFacts, StoreAssumption DEF IInv
<1>2. c \in CallType /\ c.op = "Delete" /\ c.at = "erase" /\ c.id = i
  BY DEF Idle, CallType, Places
<1>3. /\ lock[Owner[t]] = None /\ i \in Known /\ lock' = [lock EXCEPT ![Owner[t]] = t]
      /\ made' = [made EXCEPT ![i].state = "deleting"] /\ Enter(t, c)
      /\ UNCHANGED <<list, graph, disk, flushed, expired, ends>>
  BY DEF DeletePackageDependency
<1> HIDE DEF c
<1>4. /\ call' \in [Thread -> CallType] /\ call'[t] = c /\ calls' \in [Thread -> Nat]
      /\ \A u \in Thread \ {t} : call'[u] = call[u]
  BY <1>1, <1>2, <1>3, EnterFacts
<1>5. /\ made' \in [Id -> MadeType] /\ made'[i].state = "deleting"
      /\ made'[i].kind = made[i].kind /\ made'[i].by = made[i].by
      /\ made'[i].user = made[i].user /\ made'[i].gone = made[i].gone
      /\ \A j \in Id \ {i} : made'[j] = made[j]
  <2>1. made \in [Id -> MadeType] /\ made[i] \in MadeType
    BY <1>1 DEF TypeOK
  <2> QED BY <1>3, <2>1 DEF MadeType
<1>6. /\ lock' \in [Process -> Thread \cup {None}] /\ lock'[Owner[t]] = t
      /\ \A p \in Process : lock[p] \in Thread \ {t} => lock'[p] = lock[p]
  BY <1>1, <1>3 DEF TypeOK
<1>7. TypeOK'
  BY <1>1, <1>3, <1>4, <1>5, <1>6 DEF TypeOK
<1>8. \A j \in Id : Ages(j)
  BY <1>5 DEF Ages, Known
<1>9. AsSeen(t)
  <2>1. \A u \in Thread \ {t} : call[u].op = "Create" => call[u].id \in Id \ {i}
    BY <1>3, CreatorFacts
  <2> QED BY <1>2, <1>3, <1>4, <1>5, <1>6, <1>8, <2>1 DEF AsSeen, Stands
<1>10. ThreadInv(t)'
  <2>1. i \in Known'
    BY <1>3, <1>8 DEF Ages
  <2> QED BY <1>2, <1>4, <1>5, <1>6, <2>1
          DEF ThreadInv, InCall, Creates, LooksUp, Deletes, Making, Looking, Deleting
<1>11. \A j \in Id : FileInv(j)'
  <2> SUFFICES ASSUME NEW j \in Id PROVE FileInv(j)'
    OBVIOUS
  <2>1. FileInv(j) /\ (made'[j] = made[j] \/ j = i)
    BY <1>5 DEF IInv
  <2> QED BY <1>3, <1>5, <1>8, <2>1 DEF FileInv, Ages
<1>12. \A p \in Process : ListInv(p)'
  <2>1. /\ \A j \in Id : made'[j] = made[j] \/ (made'[j].state = "deleting" /\ made'[j].gone = made[j].gone)
        /\ \A p \in Process : list'[p] = list[p]
    BY <1>3, <1>5
  <2> QED BY <1>8, <2>1, ListSame
<1> QED BY <1>7, <1>9, <1>10, <1>11, <1>12, StepKeeps

(* Delete knows what it deletes and holds the lock of its list.            *)
LEMMA DeleterFacts ==
  ASSUME IInv, NEW t \in Thread, call[t].at \in Deleting
  PROVE  /\ TypeOK /\ Owner[t] \in Process /\ call[t] \in CallType /\ t # None /\ None \notin Thread
         /\ call[t].op = "Delete" /\ call[t].id \in Id /\ call[t].id \in Known
         /\ lock[Owner[t]] = t /\ made[call[t].id] \in MadeType /\ made[call[t].id].state # "handed"
         /\ \A u \in Thread \ {t} : call[u].op = "Create" => call[u].id \in Id \ {call[t].id}
<1>1. ThreadInv(t) /\ TypeOK /\ Owner[t] \in Process /\ t # None /\ None \notin Thread
  BY ProcessFacts, StoreAssumption DEF IInv
<1>2. call[t].op = "Delete" /\ call[t].id \in Known /\ call[t].id \in Id /\ call[t] \in CallType
  BY <1>1 DEF ThreadInv, InCall, Known, TypeOK
<1>3. \A u \in Thread \ {t} : call[u].op = "Create" => call[u].id \in Id \ {call[t].id}
  BY <1>2, CreatorFacts
<1> QED BY <1>1, <1>2, <1>3 DEF ThreadInv, InCall, Deletes, TypeOK

(* List m has the entries of l but for the one with id i.                  *)
Without(m, l, i) ==
  /\ \A k \in 1..Len(m) : \E j \in 1..Len(l) : m[k] = l[j] /\ l[j].id # i
  /\ \A j, k \in 1..Len(m) : m[j].id = m[k].id => j = k
  /\ \A j \in 1..Len(l) : l[j].id # i => \E k \in 1..Len(m) : m[k] = l[j]

LEMMA RemovedList ==
  ASSUME NEW S, NEW l \in Seq(S), NEW r \in 1..Len(l), NEW m, m = RemoveAt(l, r),
         \A j, k \in 1..Len(l) : l[j].id = l[k].id => j = k
  PROVE  m \in Seq(S) /\ Without(m, l, l[r].id)
<1> DEFINE at(k) == IF k < r THEN k ELSE k + 1
<1>1. /\ Len(l) \in Nat /\ m \in Seq(S) /\ Len(m) = Len(l) - 1
      /\ \A k \in 1..Len(m) : m[k] = IF k < r THEN l[k] ELSE l[k + 1]
  BY LenProperties, RemoveFacts
<1>2. \A k \in 1..Len(m) : at(k) \in 1..Len(l) /\ at(k) # r /\ m[k] = l[at(k)]
  BY <1>1
<1>3. \A j, k \in 1..Len(m) : at(j) = at(k) => j = k
  BY <1>1
<1>4. \A j \in 1..Len(l) : j # r => \E k \in 1..Len(m) : m[k] = l[j]
  <2> SUFFICES ASSUME NEW j \in 1..Len(l), j # r PROVE \E k \in 1..Len(m) : m[k] = l[j]
    OBVIOUS
  <2>1. CASE j < r
    <3>1. j \in 1..Len(m) /\ m[j] = l[j]
      BY <1>1, <2>1
    <3> QED BY <3>1
  <2>2. CASE j > r
    <3>1. j - 1 \in 1..Len(m) /\ ~(j - 1 < r) /\ j - 1 + 1 = j
      BY <1>1, <2>2
    <3>2. m[j - 1] = l[j]
      BY <1>1, <3>1
    <3> QED BY <3>1, <3>2
  <2>3. j < r \/ j > r
    BY <1>1
  <2> QED BY <2>1, <2>2, <2>3
<1> HIDE DEF at
<1>5. \A k \in 1..Len(m) : \E j \in 1..Len(l) : m[k] = l[j] /\ l[j].id # l[r].id
  BY <1>2
<1>6. \A j, k \in 1..Len(m) : m[j].id = m[k].id => j = k
  BY <1>2, <1>3
<1>7. \A j \in 1..Len(l) : l[j].id # l[r].id => \E k \in 1..Len(m) : m[k] = l[j]
  BY <1>4
<1> QED BY <1>1, <1>5, <1>6, <1>7 DEF Without

LEMMA EraseKeeps ==
  ASSUME IInv, NEW t \in Thread, Erase(t)
  PROVE  IInv'
<1> DEFINE i == call[t].id
           p == Owner[t]
           S == [id : Id \cup {None}, user : BOOLEAN]
           l == list[p]
           l2 == list'[p]
           hits == Positions(l, i)
           r == First(hits)
           c == [call[t] EXCEPT !.at = "unlink"]
<1>1. call[t].at = "erase" /\ call[t].at \in Deleting
  BY DEF Erase, Deleting
<1>2. /\ TypeOK /\ p \in Process /\ call[t] \in CallType /\ t # None
      /\ call[t].op = "Delete" /\ i \in Id /\ i \in Known
      /\ lock[p] = t /\ made[i] \in MadeType /\ made[i].state # "handed"
      /\ \A u \in Thread \ {t} : call[u].op = "Create" => call[u].id \in Id \ {i}
  BY <1>1, DeleterFacts
<1>3. c \in CallType /\ c.at = "unlink" /\ c.op = "Delete" /\ c.id = i
  BY <1>2 DEF CallType, Places
<1>4. /\ UNCHANGED <<lock, graph, disk, flushed, expired, calls, ends>>
      /\ made' = [made EXCEPT ![i].gone = made[i].gone \cup {p}]
  BY <1>2 DEF Erase, TypeOK
<1>5. /\ made' \in [Id -> MadeType] /\ made'[i].gone = made[i].gone \cup {p}
      /\ made'[i].state = made[i].state /\ made'[i].kind = made[i].kind
      /\ made'[i].by = made[i].by /\ made'[i].user = made[i].user
      /\ \A j \in Id \ {i} : made'[j] = made[j]
  BY <1>2, <1>4 DEF TypeOK, MadeType
<1>6. /\ l \in Seq(S) /\ list \in [Process -> Seq(S)]
      /\ \A k \in 1..Len(l) : l[k].id \in Known /\ l[k].user = made[l[k].id].user
      /\ \A j, k \in 1..Len(l) : l[j].id = l[k].id => j = k
      /\ \A j \in Id : made[j].state = "handed" /\ made[j].by = p => \E k \in 1..Len(l) : l[k].id = j
      /\ \A j \in Id : p \in made[j].gone => \A k \in 1..Len(l) : l[k].id # j
  BY <1>2 DEF IInv, TypeOK, ListInv
<1>7. /\ call' \in [Thread -> CallType] /\ call'[t] = c
      /\ \A u \in Thread \ {t} : Stands(u)
      /\ list' \in [Process -> Seq(S)] /\ \A q \in Process \ {p} : list'[q] = list[q]
      /\ Without(l2, l, i)
  <2>1. CASE hits = {}
    <3>1. GoTo(t, "unlink") /\ UNCHANGED list
      BY <2>1 DEF Erase
    <3>2. call' = [call EXCEPT ![t] = c]
      BY <1>2, <3>1 DEF GoTo, TypeOK
    <3>3. /\ call' \in [Thread -> CallType] /\ call'[t] = c
          /\ \A u \in Thread \ {t} : Stands(u)
      BY <1>2, <1>3, <3>1, <3>2 DEF TypeOK, Stands
    <3>4. \A k \in 1..Len(l) : l[k].id # i
      BY <2>1 DEF Positions
    <3>5. Without(l, l, i)
      BY <1>6, <3>4 DEF Without
    <3> QED BY <1>6, <3>1, <3>3, <3>5
  <2>2. CASE hits # {}
    <3>1. r \in 1..Len(l) /\ l[r].id = i
      BY <1>6, <2>2, FirstFacts
    <3>2. /\ list' = [list EXCEPT ![p] = RemoveAt(l, r)]
          /\ call' = [Raced(p) EXCEPT ![t].at = "unlink"]
      BY <2>2 DEF Erase
    <3> HIDE DEF r, S, hits, i
    <3>3. l2 = RemoveAt(l, r)
      BY <1>2, <1>6, <3>2
    <3>4. l2 \in Seq(S) /\ Without(l2, l, i)
      <4>1. l \in Seq(S) /\ r \in 1..Len(l) /\ \A j, k \in 1..Len(l) : l[j].id = l[k].id => j = k
        BY <1>6, <3>1
      <4> QED BY <3>1, <3>3, <4>1, RemovedList
    <3>7. list' \in [Process -> Seq(S)] /\ \A q \in Process \ {p} : list'[q] = list[q]
      BY <1>2, <1>6, <3>2, <3>3, <3>4
    <3>5. call' = [Raced(p) EXCEPT ![t] = c]
      <4>1. Raced(p)[t] = call[t] /\ Raced(p) \in [Thread -> CallType]
        BY <1>1, <1>2, RacedFacts DEF InList
      <4> QED BY <3>2, <4>1
    <3>6. /\ call' \in [Thread -> CallType] /\ call'[t] = c
          /\ \A u \in Thread \ {t} : Stands(u)
      BY <1>2, <1>3, <3>5, <3>7, RacedSeen
    <3> HIDE DEF l, l2, c
    <3> QED BY <3>4, <3>6, <3>7
  <2> QED BY <2>1, <2>2
<1>8. TypeOK'
  BY <1>2, <1>4, <1>5, <1>7 DEF TypeOK
<1>9. \A j \in Id : Ages(j)
  BY <1>5 DEF Ages, Known
<1>10. AsSeen(t)
  BY <1>2, <1>3, <1>4, <1>5, <1>7, <1>9 DEF AsSeen
<1>11. ThreadInv(t)'
  <2>1. i \in Known' /\ call'[t].op = "Delete" /\ call'[t].at = "unlink" /\ call'[t].id = i /\ lock'[p] = t
    BY <1>2, <1>3, <1>4, <1>7, <1>9 DEF Ages
  <2> QED BY <1>2, <1>5, <2>1
          DEF ThreadInv, InCall, Creates, LooksUp, Deletes, Making, Looking, Deleting
<1>12. \A j \in Id : FileInv(j)'
  <2> SUFFICES ASSUME NEW j \in Id PROVE FileInv(j)'
    OBVIOUS
  <2>1. FileInv(j) /\ (made'[j] = made[j] \/ j = i)
    BY <1>5 DEF IInv
  <2> QED BY <1>2, <1>4, <1>5, <1>9, <2>1 DEF FileInv, Ages
<1>13. \A q \in Process : ListInv(q)'
  <2> SUFFICES ASSUME NEW q \in Process PROVE ListInv(q)'
    OBVIOUS
  <2>1. CASE q # p
    <3>1. \A j \in Id : made'[j].state = made[j].state /\ made'[j].by = made[j].by
                        /\ (q \in made'[j].gone => q \in made[j].gone)
      BY <1>5, <2>1
    <3> QED BY <1>7, <1>9, <2>1, <3>1, ListSame
  <2>2. CASE q = p
    <3> HIDE DEF S, l, l2, p, i
    <3>1. \A k \in 1..Len(l2) : l2[k].id \in Known' /\ l2[k].user = made'[l2[k].id].user
      <4> SUFFICES ASSUME NEW k \in 1..Len(l2)
                   PROVE  l2[k].id \in Known' /\ l2[k].user = made'[l2[k].id].user
        OBVIOUS
      <4>1. PICK j \in 1..Len(l) : l2[k] = l[j]
        BY <1>7 DEF Without
      <4>2. l[j].id \in Known /\ l[j].id \in Id /\ l[j].user = made[l[j].id].user
        BY <1>6 DEF Known
      <4>3. Ages(l[j].id)
        BY <1>9, <4>2
      <4> QED BY <4>1, <4>2, <4>3 DEF Ages
    <3>2. ASSUME NEW j \in Id, made'[j].state = "handed", made'[j].by = p
          PROVE  \E k \in 1..Len(l2) : l2[k].id = j
      <4>1. j # i /\ made'[j] = made[j]
        BY <1>2, <1>5, <3>2
      <4>2. PICK k \in 1..Len(l) : l[k].id = j
        BY <1>6, <3>2, <4>1
      <4> QED BY <1>7, <4>1, <4>2 DEF Without
    <3>3. ASSUME NEW j \in Id, p \in made'[j].gone, NEW k \in 1..Len(l2) PROVE l2[k].id # j
      <4>1. PICK n \in 1..Len(l) : l2[k] = l[n] /\ l[n].id # i
        BY <1>7 DEF Without
      <4>2. CASE j = i
        BY <4>1, <4>2
      <4>3. CASE j # i
        BY <1>5, <1>6, <3>3, <4>1, <4>3
      <4> QED BY <4>2, <4>3
    <3>4. \A j, k \in 1..Len(l2) : l2[j].id = l2[k].id => j = k
      BY <1>7 DEF Without
    <3> QED BY <2>2, <3>1, <3>2, <3>3, <3>4 DEF ListInv, l2
  <2> QED BY <2>1, <2>2
<1> QED BY <1>8, <1>10, <1>11, <1>12, <1>13, StepKeeps

LEMMA UnlinkKeeps ==
  ASSUME IInv, NEW t \in Thread, Unlink(t)
  PROVE  IInv'
<1> DEFINE i == call[t].id
<1>1. call[t].at = "unlink" /\ call[t].at \in Deleting
  BY DEF Unlink, Deleting
<1>2. /\ TypeOK /\ Owner[t] \in Process /\ call[t] \in CallType /\ t # None /\ None \notin Thread
      /\ call[t].op = "Delete" /\ i \in Id /\ i \in Known
      /\ lock[Owner[t]] = t /\ made[i] \in MadeType /\ made[i].state # "handed"
      /\ \A u \in Thread \ {t} : call[u].op = "Create" => call[u].id \in Id \ {i}
  BY <1>1, DeleterFacts
<1>3. /\ UNCHANGED <<list, graph, flushed, expired, calls, ends>>
      /\ lock' = [lock EXCEPT ![Owner[t]] = None] /\ call' = [call EXCEPT ![t] = Idle]
  BY DEF Unlink
<1>4. PICK after \in {"absent", "empty", "whole"}, state \in {"leaked", "deleted"} :
        /\ disk' = [disk EXCEPT ![i] = after] /\ made' = [made EXCEPT ![i].state = state]
        /\ after \in {disk[i], "absent"} /\ (state = "deleted" => after = "absent")
  <2>1. disk[i] \in {"absent", "empty", "whole"} /\ disk \in [Id -> {"absent", "empty", "whole"}]
    BY <1>2 DEF TypeOK
  <2>2. CASE OpenByOther(t, i) /\ disk[i] # "absent"
    BY <2>1, <2>2 DEF Unlink
  <2>3. CASE ~(OpenByOther(t, i) /\ disk[i] # "absent")
    BY <2>1, <2>3 DEF Unlink
  <2> QED BY <2>2, <2>3
<1>5. /\ made' \in [Id -> MadeType] /\ made'[i].state = state
      /\ made'[i].kind = made[i].kind /\ made'[i].by = made[i].by
      /\ made'[i].user = made[i].user /\ made'[i].gone = made[i].gone
      /\ \A j \in Id \ {i} : made'[j] = made[j]
  BY <1>2, <1>4 DEF TypeOK, MadeType
<1>6. /\ disk' \in [Id -> {"absent", "empty", "whole"}] /\ disk'[i] = after
      /\ \A j \in Id \ {i} : disk'[j] = disk[j]
  BY <1>2, <1>4 DEF TypeOK
<1>7. /\ call' \in [Thread -> CallType] /\ call'[t] = Idle
      /\ \A u \in Thread \ {t} : call'[u] = call[u]
      /\ lock' \in [Process -> Thread \cup {None}]
      /\ \A q \in Process : lock[q] \in Thread \ {t} => lock'[q] = lock[q]
  BY <1>2, <1>3, IdleFacts DEF TypeOK
<1>8. TypeOK'
  BY <1>2, <1>3, <1>5, <1>6, <1>7 DEF TypeOK
<1>9. \A j \in Id : Ages(j)
  BY <1>2, <1>5 DEF Ages, Known
<1>10. AsSeen(t)
  BY <1>2, <1>3, <1>5, <1>6, <1>7, <1>9, IdleFacts DEF AsSeen, Stands
<1>11. ThreadInv(t)'
  BY <1>7, IdleInv
<1>12. \A j \in Id : FileInv(j)'
  <2> SUFFICES ASSUME NEW j \in Id PROVE FileInv(j)'
    OBVIOUS
  <2>1. CASE j = i
    <3>1. FileInv(i)
      BY <1>2 DEF IInv
    <3> QED BY <1>2, <1>4, <1>5, <1>6, <1>9, <2>1, <3>1 DEF FileInv, Ages
  <2>2. CASE j # i
    <3>1. FileInv(j) /\ made'[j] = made[j] /\ disk'[j] = disk[j]
      BY <1>5, <1>6, <2>2 DEF IInv
    <3> QED BY <1>9, <3>1 DEF FileInv, Ages
  <2> QED BY <2>1, <2>2
<1>13. \A q \in Process : ListInv(q)'
  <2>1. /\ \A j \in Id : made'[j] = made[j] \/ (made'[j].state # "handed" /\ made'[j].gone = made[j].gone)
        /\ \A q \in Process : list'[q] = list[q]
    BY <1>3, <1>5
  <2> QED BY <1>9, <2>1, ListSame
<1> QED BY <1>8, <1>10, <1>11, <1>12, <1>13, StepKeeps

-----------------------------------------------------------------------------
(* Ends *)

(* What a thread of a process that goes on has an id for is not touched.   *)
LEMMA AfterEndFacts ==
  ASSUME IInv, NEW i \in Id, NEW ended \in SUBSET Process
  PROVE  /\ AfterEnd(i, ended) \in MadeType
         /\ AfterEnd(i, ended).kind = made[i].kind /\ AfterEnd(i, ended).user = made[i].user
         /\ AfterEnd(i, ended).by = IF made[i].by \in ended THEN None ELSE made[i].by
         /\ AfterEnd(i, ended).gone = made[i].gone \ ended
         /\ \/ AfterEnd(i, ended).state = made[i].state
            \/ /\ AfterEnd(i, ended).state = "failed" /\ made[i].state = "saving"
               /\ \E t \in Thread : Owner[t] \in ended /\ call[t].id = i /\ call[t].op = "Create"
<1> DEFINE interrupted == \E t \in Thread : Owner[t] \in ended /\ call[t].id = i /\ call[t].op = "Create"
<1>1. made[i] \in MadeType
  BY DEF IInv, TypeOK
<1>2. AfterEnd(i, ended) = [made[i] EXCEPT !.by = IF made[i].by \in ended THEN None ELSE made[i].by,
                                           !.gone = made[i].gone \ ended,
                                           !.state = IF interrupted THEN "failed" ELSE made[i].state]
  BY <1>1 DEF AfterEnd
<1>3. interrupted => made[i].state = "saving"
  BY CreatorFacts
<1> HIDE DEF interrupted
<1>4. /\ AfterEnd(i, ended) \in MadeType
      /\ AfterEnd(i, ended).kind = made[i].kind /\ AfterEnd(i, ended).user = made[i].user
      /\ AfterEnd(i, ended).by = IF made[i].by \in ended THEN None ELSE made[i].by
      /\ AfterEnd(i, ended).gone = made[i].gone \ ended
      /\ AfterEnd(i, ended).state = IF interrupted THEN "failed" ELSE made[i].state
  BY <1>1, <1>2 DEF MadeType
<1> QED BY <1>3, <1>4 DEF interrupted

(* A process that ends is seen by the others as gone; when all of them end *)
(* some files may be lost.                                                 *)
LEMMA EndKeeps ==
  ASSUME IInv, NEW ended \in SUBSET Process, EndOf(ended),
         UNCHANGED <<flushed, expired, calls>>, ends' \in Nat,
         disk' \in [Id -> {"absent", "empty", "whole"}], made' \in [Id -> MadeType],
         \A i \in Id :
           \/ disk'[i] = disk[i] /\ made'[i] = AfterEnd(i, ended)
           \/ /\ ended = Process /\ disk[i] # "absent"
              /\ \/ i \notin Known /\ made'[i] = AfterEnd(i, ended)
                 \/ i \in Known /\ made'[i] = [AfterEnd(i, ended) EXCEPT !.state = "lost"]
  PROVE  IInv'
<1>1. TypeOK /\ \A p \in Process : p # None
  BY ProcessFacts DEF IInv
<1>2. /\ list' \in [Process -> Seq([id : Id \cup {None}, user : BOOLEAN])]
      /\ lock' \in [Process -> Thread \cup {None}] /\ graph' \in [Process -> Thread \cup {None}]
      /\ call' \in [Thread -> CallType]
  <2>1. << >> \in Seq([id : Id \cup {None}, user : BOOLEAN])
    OBVIOUS
  <2> QED BY <1>1, <2>1, IdleFacts DEF EndOf, TypeOK
<1>3. TypeOK'
  BY <1>1, <1>2 DEF TypeOK
<1>4. ASSUME NEW i \in Id
      PROVE  /\ made'[i].kind = made[i].kind /\ made'[i].user = made[i].user
             /\ made'[i].by = IF made[i].by \in ended THEN None ELSE made[i].by
             /\ made'[i].gone = made[i].gone \ ended
             /\ \/ made'[i].state = made[i].state /\ (made[i].state = "handed" => disk'[i] = disk[i])
                \/ made'[i].state = "failed" /\ made[i].state = "saving"
                \/ made'[i].state = "lost" /\ i \in Known
             /\ disk[i] = "absent" => disk'[i] = "absent"
             /\ ended # Process => disk'[i] = disk[i] /\ made'[i] = AfterEnd(i, ended)
  <2>1. /\ AfterEnd(i, ended) \in MadeType
        /\ AfterEnd(i, ended).kind = made[i].kind /\ AfterEnd(i, ended).user = made[i].user
        /\ AfterEnd(i, ended).by = IF made[i].by \in ended THEN None ELSE made[i].by
        /\ AfterEnd(i, ended).gone = made[i].gone \ ended
        /\ \/ AfterEnd(i, ended).state = made[i].state
           \/ AfterEnd(i, ended).state = "failed" /\ made[i].state = "saving"
    BY AfterEndFacts
  <2>2. CASE disk'[i] = disk[i] /\ made'[i] = AfterEnd(i, ended)
    BY <2>1, <2>2
  <2>3. CASE ended = Process /\ disk[i] # "absent" /\ i \notin Known /\ made'[i] = AfterEnd(i, ended)
    BY <2>1, <2>3 DEF Known
  <2>4. CASE ended = Process /\ disk[i] # "absent" /\ i \in Known /\ made'[i] = [AfterEnd(i, ended) EXCEPT !.state = "lost"]
    BY <2>1, <2>4 DEF MadeType
  <2> QED BY <2>2, <2>3, <2>4
<1>5. \A i \in Id : Ages(i)
  <2> SUFFICES ASSUME NEW i \in Id PROVE Ages(i)
    OBVIOUS
  <2>1. /\ made'[i].user = made[i].user /\ made'[i].by \in {made[i].by, None}
        /\ \/ made'[i].state = made[i].state
           \/ made'[i].state = "failed" /\ made[i].state = "saving"
           \/ made'[i].state = "lost"
    BY <1>4
  <2> QED BY <2>1 DEF Ages, Known
<1>6. ASSUME NEW u \in Thread PROVE ThreadInv(u)'
  <2>1. Owner[u] \in Process
    BY ProcessFacts
  <2>2. CASE Owner[u] \in ended
    <3>1. call'[u] = Idle
      BY <2>2 DEF EndOf
    <3> QED BY <3>1, IdleInv
  <2>3. CASE Owner[u] \notin ended
    <3>1. /\ call'[u] = call[u] /\ list'[Owner[u]] = list[Owner[u]] /\ lock'[Owner[u]] = lock[Owner[u]]
          /\ ended # Process
      BY <2>1, <2>3 DEF EndOf
    <3>2. ASSUME call[u].op = "Create"
          PROVE  /\ made'[call[u].id] = made[call[u].id] /\ disk'[call[u].id] = disk[call[u].id]
                 /\ \A v \in Thread \ {u} : call'[v].op = "Create" => call'[v].id # call[u].id
      <4>1. /\ call[u].id \in Id /\ made[call[u].id] \in MadeType /\ made[call[u].id].by = Owner[u]
            /\ made[call[u].id].gone = {} /\ made[call[u].id].state = "saving"
            /\ \A v \in Thread \ {u} : call[v].op = "Create" => call[v].id # call[u].id
        BY <3>2, CreatorFacts
      <4>2. \A v \in Thread : call'[v] = call[v] \/ call'[v].op = "None"
        BY IdleFacts DEF EndOf
      <4>3. made'[call[u].id] = AfterEnd(call[u].id, ended) /\ disk'[call[u].id] = disk[call[u].id]
        BY <1>4, <3>1, <4>1
      <4>4. ~\E t \in Thread : Owner[t] \in ended /\ call[t].id = call[u].id /\ call[t].op = "Create"
        BY <2>3, <4>1
      <4>5. PICK i \in Id : i = call[u].id
        BY <4>1
      <4>6. /\ AfterEnd(i, ended) \in MadeType /\ AfterEnd(i, ended).state = made[i].state
            /\ AfterEnd(i, ended).kind = made[i].kind /\ AfterEnd(i, ended).user = made[i].user
            /\ AfterEnd(i, ended).by = made[i].by /\ AfterEnd(i, ended).gone = made[i].gone
        <5>1. /\ AfterEnd(i, ended) \in MadeType
              /\ AfterEnd(i, ended).kind = made[i].kind /\ AfterEnd(i, ended).user = made[i].user
              /\ AfterEnd(i, ended).by = IF made[i].by \in ended THEN None ELSE made[i].by
              /\ AfterEnd(i, ended).gone = made[i].gone \ ended
              /\ \/ AfterEnd(i, ended).state = made[i].state
                 \/ \E t \in Thread : Owner[t] \in ended /\ call[t].id = i /\ call[t].op = "Create"
          BY AfterEndFacts
        <5>2. made[i].gone = {} /\ made[i].by \notin ended
          BY <2>3, <4>1, <4>5
        <5> QED BY <4>4, <4>5, <5>1, <5>2
      <4>7. AfterEnd(i, ended) = made[i]
        BY <4>1, <4>5, <4>6 DEF MadeType
      <4> QED BY <4>1, <4>2, <4>3, <4>5, <4>7
    <3>3. Seen(u)
      BY <1>5, <3>1, <3>2 DEF Seen, Stands
    <3> QED BY <3>3, SeenKeeps
  <2> QED BY <2>2, <2>3
<1>7. ASSUME NEW i \in Id PROVE FileInv(i)'
  <2>1. FileInv(i)
    BY DEF IInv
  <2>2. made'[i].gone # {} => made[i].gone # {}
    BY <1>4
  <2>3. made'[i].kind = "Process" => disk'[i] = "absent"
    BY <1>4, <2>1 DEF FileInv
  <2>4. made'[i].state = "handed" => disk'[i] = FileOf(made'[i].kind)
    BY <1>4, <2>1 DEF FileInv
  <2>5. made'[i].state = "deleted" => disk'[i] = "absent"
    BY <1>4, <2>1 DEF FileInv
  <2> QED BY <1>5, <2>1, <2>2, <2>3, <2>4, <2>5 DEF FileInv, Ages
<1>8. ASSUME NEW p \in Process PROVE ListInv(p)'
  <2>1. /\ \A i \in Id : made'[i].state = "handed" /\ made'[i].by = p =>
                           made[i].state = "handed" /\ made[i].by = p /\ p \notin ended
        /\ \A i \in Id : p \in made'[i].gone => p \in made[i].gone /\ p \notin ended
    BY <1>1, <1>4
  <2>2. CASE p \notin ended
    <3>1. list'[p] = list[p]
      BY <2>2 DEF EndOf
    <3> QED BY <1>5, <2>1, <3>1, ListSame
  <2>3. CASE p \in ended
    <3>1. list'[p] = << >> /\ Len(list'[p]) = 0
      BY <2>3 DEF EndOf
    <3> QED BY <2>1, <2>3, <3>1 DEF ListInv
  <2> QED BY <2>2, <2>3
<1> QED BY <1>3, <1>6, <1>7, <1>8 DEF IInv

LEMMA ProcessEndsKeeps ==
  ASSUME IInv, NEW p \in Process, ProcessEnds(p)
  PROVE  IInv'
<1>1. /\ EndOf({p}) /\ {p} \in SUBSET Process /\ UNCHANGED <<flushed, expired, calls>>
      /\ disk' = disk /\ made' = [i \in Id |-> AfterEnd(i, {p})]
  BY DEF ProcessEnds
<1>2. ends' \in Nat /\ disk' \in [Id -> {"absent", "empty", "whole"}]
  BY <1>1 DEF IInv, TypeOK, ProcessEnds
<1>3. made' \in [Id -> MadeType]
  BY <1>1, AfterEndFacts
<1>4. \A i \in Id : disk'[i] = disk[i] /\ made'[i] = AfterEnd(i, {p})
  BY <1>1
<1> QED BY <1>1, <1>2, <1>3, <1>4, EndKeeps

LEMMA PowerLossKeeps ==
  ASSUME IInv, PowerLoss
  PROVE  IInv'
<1>1. /\ EndOf(Process) /\ Process \in SUBSET Process /\ UNCHANGED <<flushed, expired, calls>>
  BY DEF PowerLoss
<1>2. PICK after \in [Id -> {"absent", "empty", "whole"}] :
        /\ \A i \in Id : after[i] \in Survives(i)
        /\ disk' = after
        /\ made' = [i \in Id |-> IF after[i] = disk[i] \/ i \notin Known THEN AfterEnd(i, Process)
                                 ELSE [AfterEnd(i, Process) EXCEPT !.state = "lost"]]
  BY DEF PowerLoss
<1>3. ends' \in Nat
  BY DEF IInv, TypeOK, PowerLoss
<1>4. \A i \in Id : AfterEnd(i, Process) \in MadeType
                    /\ [AfterEnd(i, Process) EXCEPT !.state = "lost"] \in MadeType
  <2>1. \A i \in Id : AfterEnd(i, Process) \in MadeType
    BY <1>1, AfterEndFacts
  <2> QED BY <2>1 DEF MadeType
<1>5. made' \in [Id -> MadeType]
  BY <1>2, <1>4
<1>6. ASSUME NEW i \in Id
      PROVE  \/ disk'[i] = disk[i] /\ made'[i] = AfterEnd(i, Process)
             \/ /\ disk[i] # "absent"
                /\ \/ i \notin Known /\ made'[i] = AfterEnd(i, Process)
                   \/ i \in Known /\ made'[i] = [AfterEnd(i, Process) EXCEPT !.state = "lost"]
  <2>1. /\ disk'[i] = after[i] /\ after[i] \in Survives(i)
        /\ made'[i] = IF after[i] = disk[i] \/ i \notin Known THEN AfterEnd(i, Process)
                      ELSE [AfterEnd(i, Process) EXCEPT !.state = "lost"]
    BY <1>2
  <2>2. after[i] # disk[i] => disk[i] # "absent"
    BY <2>1 DEF Survives
  <2> QED BY <2>1, <2>2
<1> QED BY <1>1, <1>2, <1>3, <1>5, <1>6, EndKeeps

(* Neither the end of an artifact nor the writing back of a file is seen   *)
(* by the invariant.                                                       *)
LEMMA UnseenKeeps ==
  ASSUME IInv, UNCHANGED <<list, lock, graph, disk, made, call, calls, ends>>,
         flushed' \subseteq Id, expired' \subseteq Id
  PROVE  IInv'
<1>1. TypeOK'
  BY DEF IInv, TypeOK
<1>2. \A t \in Thread : ThreadInv(t)'
  BY DEF IInv, ThreadInv, InCall, Creates, LooksUp, Deletes, Owned, Known
<1>3. \A i \in Id : FileInv(i)'
  BY DEF IInv, FileInv, Known
<1>4. \A p \in Process : ListInv(p)'
  BY DEF IInv, ListInv, Known
<1> QED BY <1>1, <1>2, <1>3, <1>4 DEF IInv

-----------------------------------------------------------------------------
(* The invariant *)

LEMMA InitHolds ==
  ASSUME Init
  PROVE  IInv
<1>1. << >> \in Seq([id : Id \cup {None}, user : BOOLEAN])
  OBVIOUS
<1>2. /\ Unborn \in MadeType /\ Unborn.state = "unborn" /\ Unborn.gone = {}
  BY DEF Unborn, MadeType
<1>3. TypeOK
  <2>1. lock \in [Process -> Thread \cup {None}] /\ graph \in [Process -> Thread \cup {None}]
    BY DEF Init
  <2>2. list \in [Process -> Seq([id : Id \cup {None}, user : BOOLEAN])]
    BY <1>1 DEF Init
  <2>3. disk \in [Id -> {"absent", "empty", "whole"}] /\ flushed \subseteq Id /\ expired \subseteq Id
    BY DEF Init
  <2>4. made \in [Id -> MadeType] /\ call \in [Thread -> CallType]
    BY <1>2, IdleFacts DEF Init
  <2>5. calls \in [Thread -> Nat] /\ ends \in Nat
    BY StoreAssumption DEF Init
  <2> QED BY <2>1, <2>2, <2>3, <2>4, <2>5 DEF TypeOK
<1>4. ASSUME NEW t \in Thread PROVE ThreadInv(t)
  <2>1. call[t].at = "idle" /\ call[t].op = "None"
    BY IdleFacts DEF Init
  <2> QED BY <2>1 DEF ThreadInv, InCall, Creates, LooksUp, Deletes, Making, Looking, Deleting
<1>5. ASSUME NEW i \in Id PROVE FileInv(i)
  <2>1. disk[i] = "absent" /\ made[i].state = "unborn" /\ made[i].gone = {}
    BY <1>2 DEF Init
  <2> QED BY <2>1 DEF FileInv
<1>6. ASSUME NEW p \in Process PROVE ListInv(p)
  <2>1. Len(list[p]) = 0 /\ \A i \in Id : made[i].state = "unborn" /\ made[i].gone = {}
    BY <1>2 DEF Init
  <2> QED BY <2>1 DEF ListInv
<1> QED BY <1>3, <1>4, <1>5, <1>6 DEF IInv

LEMMA InvariantStep ==
  ASSUME IInv, [Next]_vars
  PROVE  IInv'
<1>1. CASE UNCHANGED vars
  <2>1. UNCHANGED <<list, lock, graph, disk, made, call, calls, ends>> /\ UNCHANGED <<flushed, expired>>
    BY <1>1 DEF vars
  <2> QED BY <2>1, UnseenKeeps DEF IInv, TypeOK
<1>2. CASE \E i \in Id : ArtifactDeleted(i) \/ Flush(i)
  <2>1. /\ UNCHANGED <<list, lock, graph, disk, made, call, calls, ends>>
        /\ flushed' \subseteq Id /\ expired' \subseteq Id
    BY <1>2 DEF ArtifactDeleted, Flush, IInv, TypeOK
  <2> QED BY <2>1, UnseenKeeps
<1>3. CASE \E p \in Process : ProcessEnds(p)
  BY <1>3, ProcessEndsKeeps
<1>4. CASE PowerLoss
  BY <1>4, PowerLossKeeps
<1>5. ASSUME NEW t \in Thread,
             \/ \E i \in Id, d \in Definition : CreatePackageDependency(t, i, d)
             \/ WriteFile(t) \/ Push(t)
             \/ \E i \in Id : Resolve(t, i)
             \/ \E i \in Id, user \in BOOLEAN : ExistsPackageDependency(t, i, user)
             \/ GetPackageDependencyInMemory(t) \/ Use(t)
             \/ OpenFileIfExists(t) \/ ReadFile(t) \/ FixEmptyFile(t) \/ Return(t)
             \/ \E i \in Id : DeletePackageDependency(t, i)
             \/ Erase(t) \/ Unlink(t)
      PROVE  IInv'
  BY <1>5, CreateKeeps, WriteFileKeeps, PushKeeps, ResolveKeeps, ExistsKeeps,
     GetPackageDependencyInMemoryKeeps, UseKeeps, LoadKeeps, ReturnKeeps,
     DeletePackageDependencyKeeps, EraseKeeps, UnlinkKeeps
<1> QED BY <1>1, <1>2, <1>3, <1>4, <1>5 DEF Next

(* Every reachable state satisfies the invariant.                          *)
THEOREM InductiveInvariant == Spec => []IInv
<1>1. Init => IInv
  BY InitHolds
<1>2. IInv /\ [Next]_vars => IInv'
  BY InvariantStep
<1> QED BY <1>1, <1>2, PTL DEF Spec

(* Type correctness: an index into a list is a number, and an id in a list *)
(* or a file is one Create was given.                                      *)
THEOREM TypeCorrect == Spec => []TypeOK
<1>1. IInv => TypeOK
  BY DEF IInv
<1> QED BY <1>1, InductiveInvariant, PTL

(* The file of a dependency a caller was handed stays whole, whichever     *)
(* process ends and whatever lookups find on the way.                      *)
THEOREM PinsAreKept == Spec => []PinsStay
<1>1. IInv => PinsStay
  <2> SUFFICES ASSUME IInv, NEW i \in Id
               PROVE  /\ made[i].state = "handed" /\ made[i].kind = "Artifact" => disk[i] = "whole"
                      /\ made[i].kind = "Process" => disk[i] = "absent"
                      /\ made[i].state = "handed" => disk[i] # "empty"
    BY DEF IInv, PinsStay
  <2>1. FileInv(i)
    BY DEF IInv
  <2> QED BY <2>1 DEF FileInv, FileOf
<1> QED BY <1>1, InductiveInvariant, PTL

(* A lookup that was not overtaken is right, and one under the list's lock *)
(* never is overtaken.                                                     *)
THEOREM LookupIsRight == Spec => []LookupRight
<1>1. IInv => LookupRight
  <2> SUFFICES ASSUME IInv, NEW t \in Thread, call[t].at = "done"
               PROVE  /\ call[t].op = "Exists" => ~call[t].raced
                      /\ ~call[t].raced => call[t].found \in {call[t].id, None, Error}
                      /\ call[t].op = "Resolve" /\ ~call[t].raced /\ Owned(t, call[t].id)
                           => call[t].found = call[t].id
                      /\ call[t].op = "Exists" /\ Owned(t, call[t].id)
                           => (call[t].found = call[t].id <=> made[call[t].id].user = call[t].user)
    BY DEF LookupRight, Owned
  <2>1. LooksUp(t)
    BY DEF IInv, ThreadInv
  <2> QED BY <2>1 DEF LooksUp
<1> QED BY <1>1, InductiveInvariant, PTL

(* What was deleted has no file and no place in the list of the process    *)
(* that deleted it, from then on.                                          *)
THEOREM DeletedStaysDeleted == Spec => []DeleteErases
<1>1. IInv => DeleteErases
  <2> SUFFICES ASSUME IInv, NEW i \in Id
               PROVE  /\ made[i].state = "deleted" => disk[i] = "absent"
                      /\ \A p \in made[i].gone : Positions(list[p], i) = {}
    BY DEF DeleteErases
  <2>1. made[i].state = "deleted" => disk[i] = "absent"
    BY DEF IInv, FileInv
  <2>2. ASSUME NEW p \in made[i].gone PROVE Positions(list[p], i) = {}
    <3>1. p \in Process
      BY DEF IInv, TypeOK, MadeType
    <3>2. \A k \in 1..Len(list[p]) : list[p][k].id # i
      BY <3>1 DEF IInv, ListInv
    <3> QED BY <3>2 DEF Positions
  <2> QED BY <2>1, <2>2
<1> QED BY <1>1, InductiveInvariant, PTL
=============================================================================
