-------------------------- MODULE AppInstanceProofs -------------------------
(***************************************************************************)
(* Proofs about the instances of an app.  InstanceKeys: for any number of  *)
(* processes and keys, any number of calls and whichever processes and     *)
(* threads end, a key is owned once and what is owned is shown, a search   *)
(* finds an owner and overlooks none, and nobody waits while he has a      *)
(* running process's data mutex, although the list they search is written  *)
(* slot by slot and may lose instances.  InstanceList, at the end: for any *)
(* number of processes and slots no process is listed twice, and as long   *)
(* as no two processes wrote to the list at once it holds every running    *)
(* instance and nobody who never ran.                                      *)
(***************************************************************************)
EXTENDS InstanceKeys, InstanceList, TLAPS

\* A call is made by a thread that is there, for a key; its locals are empty
\* before the search, and the copy of the list is within it.
InCall ==
    \A p \in Procs :
        /\ pc[p] # "idle" => life[p] = "up" /\ thread[p] /\ want[p] \in Keys /\ found[p] = None
        /\ pc[p] \notin {"copy", "open", "orphan"} => todo[p] = {} /\ made[p] = {}
        /\ pc[p] \notin {"open", "orphan"} => opening[p] = None /\ checked[p] = {}
        /\ pc[p] = "copy" => at[p] <= Slots

\* A process that is not in the list yet is known to nobody and shows nothing; it
\* inserts itself once.
Started == {q \in Procs : life[q] \in {"up", "ended"}}
Unknown ==
    /\ \A i \in 1 .. Slots : pids[i] \in Started \cup {None}
    /\ \A i, j \in 1 .. Slots : pids[i] = pids[j] /\ pids[i] # None => i = j
    /\ \A p \in Procs : /\ todo[p] \cup made[p] \cup kept[p] \subseteq Started
                        /\ {opening[p], found[p]} \subseteq Started \cup {None}
    /\ \A p \in Procs \ Started : section[p] = NoKey /\ ownKey[p] = NoKey /\ dataMutex[p] = None /\ found[p] = None

\* The mutex of a key and the lock of the process that has it go together, as long
\* as the thread that took it is there.
LockHeld ==
    /\ \A k \in Keys : keyMutex[k] # None =>
          keyMutex[k] \in Up /\ thread[keyMutex[k]] /\ ownKey[keyMutex[k]] = k
    /\ \A p \in Up : thread[p] /\ ownKey[p] # NoKey => keyMutex[ownKey[p]] = p

\* TrySetKey has the data mutex, and so has who is at the list; a key is taken before
\* it is written.
Setting ==
    \A p \in Procs : /\ pc[p] \in {"try", "write", "copy", "orphan"} => dataMutex[p] = p
                     /\ pc[p] = "write" => ownKey[p] = want[p]
                     /\ clearing[p] # 0 => life[p] = "up" /\ (dataMutex[p] = Pool \/ pc[p] = "orphan")
Shown == \A p \in Procs : Intact(p) /\ pc[p] # "write" => section[p] = ownKey[p]

OwnerInv == LockHeld /\ Setting /\ Shown /\ HoldersNeverWait

\* The history variables are right, and the search has not passed a steady owner by.
OwnerSeen == \A p \in Procs : pc[p] # "idle" => keyMutex[want[p]] \in past[p] \cup {None}
SteadyKnown ==
    /\ \A p \in Procs : steady[p] \in Started \cup {None}
    /\ \A p \in Procs \ Started : steady[p] = None
SteadyOwns == \A p \in Procs : pc[p] # "idle" => steady[p] \in {None, keyMutex[want[p]]}
SteadyAhead ==
    \A p \in Procs : steady[p] # None /\ Intact(steady[p]) =>
        /\ pc[p] = "copy" => \/ steady[p] \in todo[p] \cup made[p]
                            \/ \E i \in at[p] .. Slots : pids[i] = steady[p]
        /\ pc[p] \in {"open", "orphan"} =>
              steady[p] \in (todo[p] \cup {opening[p]} \cup made[p]) \ checked[p]

SearchInv == OwnerSeen /\ SteadyKnown /\ SteadyOwns /\ SteadyAhead /\ FindCorrect

IInv == TypeOK /\ InCall /\ Unknown /\ OwnerInv /\ SearchInv

-----------------------------------------------------------------------------
(* What the operators of the model do *)

\* A variable of which one place may have changed keeps its type and the other places.
LEMMA ChangeTyped ==
    ASSUME NEW S, NEW T, NEW f, f \in [S -> T], NEW g, NEW x, NEW v, v \in T,
           g = f \/ g = [f EXCEPT ![x] = v]
    PROVE  g \in [S -> T] /\ \A y \in S \ {x} : g[y] = f[y]
OBVIOUS

\* A section of a running process that still names it keeps its content; others keep
\* it or lose it.
LEMMA SweepFacts ==
    ASSUME NEW s \in [Procs -> Keys \cup {NoKey}], NEW up, NEW nm, NEW k, NEW m
    PROVE  /\ Sweep(s, up, nm, k, m) \in [Procs -> Keys \cup {NoKey}]
           /\ \A q \in Procs : /\ Sweep(s, up, nm, k, m)[q] \in {s[q], NoKey}
                               /\ q \in up /\ nm[q] => Sweep(s, up, nm, k, m)[q] = s[q]
BY DEF Sweep

\* A mutex stays with a running owner as long as its process runs; others stay or are freed.
LEMMA FreeFacts ==
    ASSUME NEW mx \in [Procs -> Procs \cup {None, Pool}], NEW up, NEW k, NEW m
    PROVE  /\ FreeMutexes(mx, up, k, m) \in [Procs -> Procs \cup {None, Pool}]
           /\ \A q \in Procs : /\ FreeMutexes(mx, up, k, m)[q] \in {mx[q], None}
                               /\ q \in up /\ mx[q] \in up \cup {Pool} => FreeMutexes(mx, up, k, m)[q] = mx[q]
BY DEF FreeMutexes

\* The history variables keep their types, see who owns a wanted key, and know of a
\* steady owner only while it owns the key.
LEMMA WitnessFacts ==
    ASSUME TypeOK, InCall, Witness,
           keyMutex' \in [Keys -> Procs \cup {None}],
           \A p \in Procs : pc'[p] # "idle" => want'[p] \in Keys
    PROVE  /\ past' \in [Procs -> SUBSET Procs] /\ steady' \in [Procs -> Procs \cup {None}]
           /\ \A p \in Procs :
                 /\ pc'[p] = "idle" => past'[p] = past[p] /\ steady'[p] = steady[p]
                 /\ pc'[p] # "idle" => /\ keyMutex'[want'[p]] \in past'[p] \cup {None}
                                       /\ steady'[p] \in {None, keyMutex'[want'[p]]}
                 /\ pc'[p] # "idle" /\ steady'[p] \notin {None, steady[p]} =>
                       pc[p] = "try" /\ pc'[p] = "scan"
                 /\ pc'[p] = "copy" /\ steady'[p] # None => steady'[p] \in InList'
BY DEF Witness, TypeOK

\* What a step that closes sections and mutexes leaves of them.
Shrinks ==
    \A r \in Procs :
        /\ section'[r] \in {section[r], NoKey}
        /\ r \in Up /\ named[r] => section'[r] = section[r]
        /\ dataMutex'[r] \in {dataMutex[r], None}
        /\ r \in Up /\ dataMutex[r] \in Up \cup {Pool} => dataMutex'[r] = dataMutex[r]

LEMMA ShrinkFacts ==
    ASSUME TypeOK, NEW k, NEW m,
           section' = Sweep(section, Up, named, k, m), dataMutex' = FreeMutexes(dataMutex, Up, k, m)
    PROVE  /\ section' \in [Procs -> Keys \cup {NoKey}]
           /\ dataMutex' \in [Procs -> Procs \cup {None, Pool}]
           /\ Shrinks
<1>1. section \in [Procs -> Keys \cup {NoKey}] /\ dataMutex \in [Procs -> Procs \cup {None, Pool}]
  BY DEF TypeOK
<1>2. /\ section' \in [Procs -> Keys \cup {NoKey}]
      /\ \A r \in Procs : /\ section'[r] \in {section[r], NoKey}
                          /\ r \in Up /\ named[r] => section'[r] = section[r]
  BY <1>1, SweepFacts
<1>3. /\ dataMutex' \in [Procs -> Procs \cup {None, Pool}]
      /\ \A r \in Procs : /\ dataMutex'[r] \in {dataMutex[r], None}
                          /\ r \in Up /\ dataMutex[r] \in Up \cup {Pool} => dataMutex'[r] = dataMutex[r]
  BY <1>1, FreeFacts
<1>4. ASSUME NEW r \in Procs
      PROVE  /\ section'[r] \in {section[r], NoKey}
             /\ r \in Up /\ named[r] => section'[r] = section[r]
             /\ dataMutex'[r] \in {dataMutex[r], None}
             /\ r \in Up /\ dataMutex[r] \in Up \cup {Pool} => dataMutex'[r] = dataMutex[r]
  BY <1>2, <1>3
<1>5. Shrinks
  BY <1>4 DEF Shrinks
<1> QED BY <1>2, <1>3, <1>5

\* The end of a search: the call returns, the objects go, the keys of running processes
\* that name them and the mutexes of running owners stay.
LEMMA ReturnFacts ==
    ASSUME TypeOK, NEW p \in Procs, NEW q, Return(p, q)
    PROVE  /\ pc' = [pc EXCEPT ![p] = "idle"] /\ found' = [found EXCEPT ![p] = q]
           /\ kept' = [kept EXCEPT ![p] = kept[p] \cup ({q} \ {p, None})]
           /\ made' = [made EXCEPT ![p] = {}] /\ checked' = [checked EXCEPT ![p] = {}]
           /\ section' \in [Procs -> Keys \cup {NoKey}]
           /\ dataMutex' \in [Procs -> Procs \cup {None, Pool}]
           /\ Shrinks
<1>1. /\ section' = Sweep(section, Up, named, kept', made')
      /\ dataMutex' = FreeMutexes(dataMutex, Up, kept', made')
  BY DEF Return
<1>2. /\ pc' = [pc EXCEPT ![p] = "idle"] /\ found' = [found EXCEPT ![p] = q]
      /\ kept' = [kept EXCEPT ![p] = kept[p] \cup ({q} \ {p, None})]
      /\ made' = [made EXCEPT ![p] = {}] /\ checked' = [checked EXCEPT ![p] = {}]
  BY DEF Return, Goto
<1> QED BY <1>1, <1>2, ShrinkFacts

-----------------------------------------------------------------------------
(* Type correctness *)

\* Every step of GetCurrent, FindOrRegisterForKey and UnregisterKey, and every end of a
\* process or a thread, keeps the variables in their types.
LEMMA TypeStep ==
    ASSUME TypeOK, InCall, [Next]_vars
    PROVE  TypeOK' /\ InCall'
<1> DEFINE Goal == TypeOK' /\ InCall'
<1> USE NoneAssumption DEF TypeOK, InCall, Goto, sys, list, keyVars, locals, call, Up
<1>1. ASSUME NEW p \in Procs, Start(p) PROVE Goal
  <2>1. /\ life' = [life EXCEPT ![p] = "starting"] /\ life[p] = "new"
        /\ UNCHANGED <<thread, list, dataMutex, keyVars, section, kept, call, locals>> /\ Witness
    BY <1>1 DEF Start
  <2>2. past' \in [Procs -> SUBSET Procs] /\ steady' \in [Procs -> Procs \cup {None}]
    BY <2>1, WitnessFacts
  <2>3. life' \in [Procs -> {"new", "starting", "storing", "up", "ended"}]
    BY <2>1
  <2>4. TypeOK'
    BY <2>1, <2>2, <2>3
  <2>5. InCall'
    BY <2>1
  <2> QED BY <2>4, <2>5
<1>2. ASSUME NEW p \in Procs, Call(p) PROVE Goal
  <2>1. calls' \in [Procs -> Nat] /\ \A q \in Procs : calls'[q] <= MaxCalls[q]
    <3>1. calls \in [Procs -> Nat] /\ MaxCalls \in [Procs -> Nat] /\ \A q \in Procs : calls[q] <= MaxCalls[q]
      BY CallsAssumption
    <3>2. calls[p] < MaxCalls[p] /\ calls' = [calls EXCEPT ![p] = @ + 1]
      BY <1>2 DEF Call
    <3> HIDE DEF TypeOK, InCall
    <3> QED BY <3>1, <3>2
  <2>2. /\ pc' = [pc EXCEPT ![p] = "lock"] /\ found' = [found EXCEPT ![p] = None]
        /\ want' \in [Procs -> Keys \cup {NoKey}]
        /\ want'[p] \in Keys /\ \A q \in Procs \ {p} : want'[q] = want[q]
        /\ life[p] = "up" /\ thread[p] /\ pc[p] = "idle"
        /\ UNCHANGED <<sys, list, dataMutex, keyVars, section, kept, locals>>
        /\ Witness
    BY <1>2 DEF Call
  <2>3. past' \in [Procs -> SUBSET Procs] /\ steady' \in [Procs -> Procs \cup {None}]
    BY <2>2, WitnessFacts
  <2>4. TypeOK'
    <3>1. pc' \in [Procs -> {"idle", "lock", "try", "write", "scan", "copy", "open", "orphan"}]
      BY <2>2
    <3>2. found' \in [Procs -> Procs \cup {None}]
      BY <2>2
    <3>3. \A r \in Procs : pc'[r] = "idle" => pc[r] = "idle"
      BY <2>2
    <3> QED BY <2>1, <2>2, <2>3, <3>1, <3>2, <3>3
  <2>5. InCall'
    BY <2>2
  <2> QED BY <2>4, <2>5
<1>3. ASSUME NEW p \in Procs, LockData(p) PROVE Goal
  BY <1>3, WitnessFacts DEF LockData
<1>4. ASSUME NEW p \in Procs, AcquireKeyMutex(p) PROVE Goal
  BY <1>4, WitnessFacts DEF AcquireKeyMutex
<1>5. ASSUME NEW p \in Procs, KeyMutexTaken(p) PROVE Goal
  BY <1>5, WitnessFacts DEF KeyMutexTaken
<1>6. ASSUME NEW p \in Procs, WriteKey(p) PROVE Goal
  <2>1. /\ pc' = [pc EXCEPT ![p] = "idle"] /\ found' = [found EXCEPT ![p] = p] /\ pc[p] = "write"
        /\ dataMutex' = [dataMutex EXCEPT ![p] = None]
        /\ section' = section \/ section' = [section EXCEPT ![p] = want[p]]
        /\ UNCHANGED <<sys, list, keyVars, kept, want, calls, locals>> /\ Witness
    BY <1>6 DEF WriteKey
  <2>2. past' \in [Procs -> SUBSET Procs] /\ steady' \in [Procs -> Procs \cup {None}]
    BY <2>1, WitnessFacts
  <2>3. section' \in [Procs -> Keys \cup {NoKey}]
    BY <2>1
  <2>4. dataMutex' \in [Procs -> Procs \cup {None, Pool}]
    BY <2>1
  <2>5. pc' \in [Procs -> {"idle", "lock", "try", "write", "scan", "copy", "open", "orphan"}]
        /\ found' \in [Procs -> Procs \cup {None}]
    BY <2>1
  <2>6. \A q \in Procs : pc'[q] = pc[q] \/ (q = p /\ pc[q] = "write")
    BY <2>1
  <2>7. TypeOK'
    BY <2>1, <2>2, <2>3, <2>4, <2>5, <2>6
  <2>8. InCall'
    BY <2>1, <2>6
  <2> QED BY <2>7, <2>8
<1>7. ASSUME NEW p \in Procs, CopyBegins(p) PROVE Goal
  <2>1. 1 \in 1 .. Slots + 1 /\ 1 <= Slots
    BY SlotAssumption
  <2>2. at' \in [Procs -> 1 .. Slots + 1] /\ at'[p] = 1 /\ \A r \in Procs \ {p} : at'[r] = at[r]
    BY <1>7, <2>1 DEF CopyBegins
  <2>3. /\ dataMutex' = [dataMutex EXCEPT ![p] = p] /\ pc[p] = "scan" /\ pc' = [pc EXCEPT ![p] = "copy"]
        /\ UNCHANGED <<sys, pids, clearing, keyVars, section, kept, want, calls, found, locals>> /\ Witness
    BY <1>7 DEF CopyBegins
  <2>4. past' \in [Procs -> SUBSET Procs] /\ steady' \in [Procs -> Procs \cup {None}]
    BY <2>3, WitnessFacts
  <2>5. dataMutex' \in [Procs -> Procs \cup {None, Pool}]
    BY <2>3
  <2>6. TypeOK'
    BY <2>1, <2>2, <2>3, <2>4, <2>5
  <2>7. InCall'
    BY <2>1, <2>2, <2>3
  <2> QED BY <2>6, <2>7
<1>8. ASSUME NEW p \in Procs, MakeInstance(p) PROVE Goal
  <2>1. /\ pc[p] = "open" /\ opening[p] \in Procs
        /\ made' = [made EXCEPT ![p] = @ \cup {opening[p]}] /\ opening' = [opening EXCEPT ![p] = None]
        /\ dataMutex' = dataMutex \/ dataMutex' = [dataMutex EXCEPT ![opening[p]] = p]
        /\ UNCHANGED <<sys, list, keyVars, section, kept, call, todo, checked>> /\ Witness
    BY <1>8 DEF MakeInstance
  <2>2. past' \in [Procs -> SUBSET Procs] /\ steady' \in [Procs -> Procs \cup {None}]
    BY <2>1, WitnessFacts
  <2>3. /\ made' \in [Procs -> SUBSET Procs] /\ opening' \in [Procs -> Procs \cup {None}]
        /\ dataMutex' \in [Procs -> Procs \cup {None, Pool}]
    <3>1. made' \in [Procs -> SUBSET Procs]
      BY <2>1
    <3>2. opening' \in [Procs -> Procs \cup {None}]
      BY <2>1
    <3>3. dataMutex' \in [Procs -> Procs \cup {None, Pool}]
      <4>1. dataMutex \in [Procs -> Procs \cup {None, Pool}] /\ p \in Procs \cup {None, Pool}
        OBVIOUS
      <4> HIDE DEF TypeOK, InCall
      <4> QED BY <2>1, <4>1, ChangeTyped
    <3> QED BY <3>1, <3>2, <3>3
  <2>4. \A r \in Procs : r # p => made'[r] = made[r] /\ opening'[r] = opening[r]
    BY <2>1
  <2> QED BY <2>1, <2>2, <2>3, <2>4
<1>9. ASSUME NEW p \in Procs, NoneMatches(p) PROVE Goal
  <2>1. /\ Return(p, None) /\ Witness /\ pc[p] = "open" /\ todo[p] = {} /\ opening[p] = None
        /\ UNCHANGED <<sys, list, keyVars, want, calls, todo, opening>>
    BY <1>9 DEF NoneMatches
  <2>2. /\ pc' = [pc EXCEPT ![p] = "idle"] /\ found' = [found EXCEPT ![p] = None]
        /\ kept' = [kept EXCEPT ![p] = kept[p] \cup ({None} \ {p, None})]
        /\ made' = [made EXCEPT ![p] = {}] /\ checked' = [checked EXCEPT ![p] = {}]
        /\ section' \in [Procs -> Keys \cup {NoKey}]
        /\ dataMutex' \in [Procs -> Procs \cup {None, Pool}]
    BY <2>1, ReturnFacts
  <2> QED BY <2>1, <2>2, WitnessFacts
<1>10. ASSUME NEW p \in Procs, UnregisterKey(p) PROVE Goal
  <2>1. section' = Sweep(section, Up, named', kept, made)
    BY <1>10 DEF UnregisterKey
  <2>2. section' \in [Procs -> Keys \cup {NoKey}]
    BY <2>1, SweepFacts
  <2>3. /\ life[p] = "up" /\ thread[p] /\ pc[p] = "idle" /\ named' = [named EXCEPT ![p] = FALSE]
        /\ keyMutex' = [k \in Keys |-> IF keyMutex[k] = p THEN None ELSE keyMutex[k]]
        /\ ownKey' = [ownKey EXCEPT ![p] = NoKey]
        /\ UNCHANGED <<sys, list, dataMutex, kept, call, locals>> /\ Witness
    BY <1>10 DEF UnregisterKey
  <2>4. past' \in [Procs -> SUBSET Procs] /\ steady' \in [Procs -> Procs \cup {None}]
    BY <2>3, WitnessFacts
  <2> QED BY <2>2, <2>3, <2>4
<1>11. ASSUME NEW p \in Procs, ReleaseInstances(p) PROVE Goal
  <2>1. /\ section' = Sweep(section, Up, named, kept', made)
        /\ dataMutex' = FreeMutexes(dataMutex, Up, kept', made)
    BY <1>11 DEF ReleaseInstances
  <2>2. section' \in [Procs -> Keys \cup {NoKey}] /\ dataMutex' \in [Procs -> Procs \cup {None, Pool}]
    BY <2>1, ShrinkFacts
  <2>3. kept' = [kept EXCEPT ![p] = {}] /\ UNCHANGED <<sys, list, keyVars, call, locals>> /\ Witness
    BY <1>11 DEF ReleaseInstances
  <2>4. past' \in [Procs -> SUBSET Procs] /\ steady' \in [Procs -> Procs \cup {None}]
    BY <2>3, WitnessFacts
  <2> QED BY <2>2, <2>3, <2>4
<1>12. ASSUME NEW p \in Procs, ProcessEnds(p) PROVE Goal
  <2>1. /\ life' = [life EXCEPT ![p] = "ended"] /\ pc' = [pc EXCEPT ![p] = "idle"]
        /\ keyMutex' = [k \in Keys |-> IF keyMutex[k] = p THEN None ELSE keyMutex[k]]
        /\ ownKey' = [ownKey EXCEPT ![p] = NoKey]
        /\ kept' = [kept EXCEPT ![p] = {}] /\ todo' = [todo EXCEPT ![p] = {}]
        /\ opening' = [opening EXCEPT ![p] = None]
        /\ made' = [made EXCEPT ![p] = {}] /\ checked' = [checked EXCEPT ![p] = {}]
        /\ clearing' = [clearing EXCEPT ![p] = 0] /\ at' = [at EXCEPT ![p] = 1]
        /\ UNCHANGED <<thread, pids, named, want, calls, found>>
    BY <1>12 DEF ProcessEnds
  <2>2. section' \in [Procs -> Keys \cup {NoKey}] /\ dataMutex' \in [Procs -> Procs \cup {None, Pool}]
    <3>1. section' = Sweep(section, Up \ {p}, named, kept', made')
      BY <1>12 DEF ProcessEnds
    <3>2. dataMutex' = FreeMutexes(dataMutex, Up \ {p}, kept', made')
      BY <1>12 DEF ProcessEnds
    <3>3. section' \in [Procs -> Keys \cup {NoKey}]
      BY <3>1, SweepFacts
    <3> QED BY <3>2, <3>3, FreeFacts
  <2>3. past' \in [Procs -> SUBSET Procs] /\ steady' \in [Procs -> Procs \cup {None}]
    BY <1>12, <2>1, WitnessFacts DEF ProcessEnds
  <2>4. TypeOK'
    <3>0. 1 \in 1 .. Slots + 1 /\ 0 \in 0 .. Slots
      BY SlotAssumption
    <3>1. /\ life' \in [Procs -> {"new", "starting", "storing", "up", "ended"}]
          /\ clearing' \in [Procs -> 0 .. Slots] /\ at' \in [Procs -> 1 .. Slots + 1]
          /\ keyMutex' \in [Keys -> Procs \cup {None}]
          /\ ownKey' \in [Procs -> Keys \cup {NoKey}]
      BY <2>1, <3>0
    <3>2. pc' \in [Procs -> {"idle", "lock", "try", "write", "scan", "copy", "open", "orphan"}]
      BY <2>1
    <3>3. /\ kept' \in [Procs -> SUBSET Procs] /\ todo' \in [Procs -> SUBSET Procs]
          /\ opening' \in [Procs -> Procs \cup {None}]
          /\ made' \in [Procs -> SUBSET Procs] /\ checked' \in [Procs -> SUBSET Procs]
      BY <2>1
    <3>4. \A r \in Procs : pc'[r] = "idle" =>
             todo'[r] = {} /\ opening'[r] = None /\ made'[r] = {} /\ checked'[r] = {}
      BY <2>1
    <3> QED BY <2>1, <2>2, <2>3, <3>1, <3>2, <3>3, <3>4
  <2>5. InCall'
    BY <2>1
  <2> QED BY <2>4, <2>5
<1>13. ASSUME NEW p \in Procs, ThreadEnds(p) PROVE Goal
  <2>1. /\ thread' = [thread EXCEPT ![p] = FALSE] /\ pc[p] = "idle"
        /\ keyMutex' = [k \in Keys |-> IF keyMutex[k] = p THEN None ELSE keyMutex[k]]
        /\ dataMutex' = [q \in Procs |-> IF dataMutex[q] = p THEN None ELSE dataMutex[q]]
        /\ UNCHANGED <<life, list, ownKey, named, section, kept, call, locals>> /\ Witness
    BY <1>13 DEF ThreadEnds
  <2>2. past' \in [Procs -> SUBSET Procs] /\ steady' \in [Procs -> Procs \cup {None}]
    BY <2>1, WitnessFacts
  <2>3. /\ keyMutex' \in [Keys -> Procs \cup {None}] /\ dataMutex' \in [Procs -> Procs \cup {None, Pool}]
        /\ thread' \in [Procs -> BOOLEAN]
    BY <2>1
  <2>4. TypeOK'
    BY <2>1, <2>2, <2>3
  <2>5. InCall'
    BY <2>1
  <2> QED BY <2>4, <2>5
<1>14. ASSUME NEW p \in Procs, NEW q \in Procs, OpenProcess(p, q) PROVE Goal
  <2>1. /\ pc[p] = "open" /\ todo' = [todo EXCEPT ![p] = @ \ {q}]
        /\ opening' = [opening EXCEPT ![p] = q]
        /\ UNCHANGED <<sys, list, dataMutex, keyVars, section, kept, call, made, checked>>
        /\ Witness
    BY <1>14 DEF OpenProcess
  <2>2. past' \in [Procs -> SUBSET Procs] /\ steady' \in [Procs -> Procs \cup {None}]
    BY <2>1, WitnessFacts
  <2>3. todo' \in [Procs -> SUBSET Procs] /\ opening' \in [Procs -> Procs \cup {None}]
    BY <2>1
  <2>4. \A r \in Procs : r # p => todo'[r] = todo[r] /\ opening'[r] = opening[r]
    BY <2>1
  <2> QED BY <2>1, <2>2, <2>3, <2>4
<1>15. ASSUME NEW p \in Procs, NEW q \in Procs, CompareKey(p, q) PROVE Goal
  <2>1. CASE Return(p, q)
    <3>1. /\ pc[p] = "open" /\ todo[p] = {} /\ opening[p] = None /\ q \in Procs
          /\ pc' = [pc EXCEPT ![p] = "idle"] /\ found' = [found EXCEPT ![p] = q]
          /\ kept' = [kept EXCEPT ![p] = @ \cup ({q} \ {p, None})]
          /\ made' = [made EXCEPT ![p] = {}] /\ checked' = [checked EXCEPT ![p] = {}]
          /\ UNCHANGED <<sys, list, keyVars, want, calls, todo, opening>>
      BY <1>15, <2>1 DEF CompareKey, Return
    <3>2. section' \in [Procs -> Keys \cup {NoKey}] /\ dataMutex' \in [Procs -> Procs \cup {None, Pool}]
      BY <2>1, ReturnFacts
    <3>3. past' \in [Procs -> SUBSET Procs] /\ steady' \in [Procs -> Procs \cup {None}]
      BY <1>15, <3>1, WitnessFacts DEF CompareKey
    <3>4. TypeOK'
      <4>1. /\ pc' \in [Procs -> {"idle", "lock", "try", "write", "scan", "copy", "open", "orphan"}]
            /\ found' \in [Procs -> Procs \cup {None}]
        BY <3>1
      <4>2. /\ kept' \in [Procs -> SUBSET Procs]
            /\ made' \in [Procs -> SUBSET Procs] /\ checked' \in [Procs -> SUBSET Procs]
        BY <3>1
      <4>3. \A r \in Procs : pc'[r] = "idle" =>
               todo'[r] = {} /\ opening'[r] = None /\ made'[r] = {} /\ checked'[r] = {}
        BY <3>1
      <4> QED BY <3>1, <3>2, <3>3, <4>1, <4>2, <4>3
    <3>5. InCall'
      BY <3>1
    <3> QED BY <3>4, <3>5
  <2>2. CASE /\ checked' = [checked EXCEPT ![p] = @ \cup {q}]
             /\ UNCHANGED <<pc, found, kept, made, section, dataMutex>>
    <3>1. /\ pc[p] = "open" /\ UNCHANGED <<sys, list, keyVars, want, calls, todo, opening>> /\ Witness
      BY <1>15 DEF CompareKey
    <3>2. checked' \in [Procs -> SUBSET Procs] /\ \A r \in Procs : r # p => checked'[r] = checked[r]
      BY <2>2
    <3>3. past' \in [Procs -> SUBSET Procs] /\ steady' \in [Procs -> Procs \cup {None}]
      BY <2>2, <3>1, WitnessFacts
    <3>4. TypeOK'
      BY <2>2, <3>1, <3>2, <3>3
    <3>5. InCall'
      BY <2>2, <3>1, <3>2
    <3> QED BY <3>4, <3>5
  <2> QED BY <1>15, <2>1, <2>2 DEF CompareKey
<1>16. ASSUME NEW p \in Procs, NEW q \in Procs, RemoveInstance(p, q) PROVE Goal
  <2>1. clearing' \in [Procs -> 0 .. Slots] /\ dataMutex' = [dataMutex EXCEPT ![p] = Pool]
    BY <1>16, SlotAssumption DEF RemoveInstance, RemoveFinds
  <2>2. UNCHANGED <<sys, pids, at, keyVars, section, kept, call, locals>> /\ Witness
    BY <1>16 DEF RemoveInstance, RemoveFinds
  <2> QED BY <2>1, <2>2, WitnessFacts
<1>17. CASE UNCHANGED vars
  BY <1>17 DEF vars
<1>18. ASSUME NEW p \in Procs, CopySlot(p) PROVE Goal
  <2> DEFINE q == pids[at[p]]
  <2>1. /\ pc[p] = "copy" /\ todo' = [todo EXCEPT ![p] = @ \cup ({q} \ {None, p})]
        /\ made' = [made EXCEPT ![p] = @ \cup ({q} \cap {p})]
        /\ UNCHANGED <<sys, pids, clearing, keyVars, section, kept, want, calls, found, opening, checked>>
        /\ Witness
    BY <1>18 DEF CopySlot
  <2>2. at[p] \in 1 .. Slots /\ q \in Procs \cup {None}
    BY <2>1, SlotAssumption
  <2>3. todo' \in [Procs -> SUBSET Procs] /\ made' \in [Procs -> SUBSET Procs]
    BY <2>1, <2>2
  <2>4. /\ at' \in [Procs -> 1 .. Slots + 1] /\ dataMutex' \in [Procs -> Procs \cup {None, Pool}]
        /\ pc' \in [Procs -> {"idle", "lock", "try", "write", "scan", "copy", "open", "orphan"}]
        /\ pc'[p] \in {"copy", "open"} /\ (pc'[p] = "copy" => at'[p] <= Slots)
        /\ \A r \in Procs \ {p} : pc'[r] = pc[r] /\ at'[r] = at[r]
    <3>1. CASE at[p] < Slots
      <4>1. at' = [at EXCEPT ![p] = @ + 1] /\ UNCHANGED <<pc, dataMutex>>
        BY <1>18, <3>1 DEF CopySlot
      <4>2. at[p] + 1 \in 1 .. Slots + 1 /\ at[p] + 1 <= Slots
        BY <2>2, <3>1, SlotAssumption
      <4> QED BY <2>1, <4>1, <4>2
    <3>2. CASE ~(at[p] < Slots)
      <4>1. /\ at' = [at EXCEPT ![p] = 1] /\ dataMutex' = [dataMutex EXCEPT ![p] = None]
            /\ pc' = [pc EXCEPT ![p] = "open"]
        BY <1>18, <3>2 DEF CopySlot
      <4>2. 1 \in 1 .. Slots + 1
        BY SlotAssumption
      <4> QED BY <4>1, <4>2
    <3> QED BY <3>1, <3>2
  <2>5. past' \in [Procs -> SUBSET Procs] /\ steady' \in [Procs -> Procs \cup {None}]
    BY <2>1, <2>4, WitnessFacts
  <2>6. \A r \in Procs : r # p => todo'[r] = todo[r] /\ made'[r] = made[r]
    BY <2>1
  <2> HIDE DEF q
  <2>7. TypeOK'
    BY <2>1, <2>3, <2>4, <2>5, <2>6
  <2>8. InCall'
    BY <2>1, <2>4, <2>6
  <2> QED BY <2>7, <2>8
<1>19. ASSUME NEW p \in Procs, InsertReads(p) PROVE Goal
  <2>1. /\ life[p] = "starting" /\ pc[p] = "idle"
        /\ life' = life \/ life' = [life EXCEPT ![p] = "storing"]
        /\ UNCHANGED <<thread, pids, clearing, dataMutex, keyVars, section, kept, call, locals>>
        /\ Witness
    BY <1>19 DEF InsertReads
  <2>2. at' \in [Procs -> 1 .. Slots + 1] /\ \A r \in Procs \ {p} : at'[r] = at[r]
    <3>1. at[p] + 1 \in 1 .. Slots + 1
      BY <1>19, SlotAssumption DEF InsertReads
    <3>2. at' = at \/ at' = [at EXCEPT ![p] = @ + 1]
      BY <1>19 DEF InsertReads
    <3>3. at \in [Procs -> 1 .. Slots + 1]
      OBVIOUS
    <3> HIDE DEF TypeOK, InCall
    <3> QED BY <3>1, <3>2, <3>3, ChangeTyped
  <2>3. past' \in [Procs -> SUBSET Procs] /\ steady' \in [Procs -> Procs \cup {None}]
    BY <2>1, WitnessFacts
  <2>4. life' \in [Procs -> {"new", "starting", "storing", "up", "ended"}] /\ \A r \in Procs \ {p} : life'[r] = life[r]
    <3>1. life \in [Procs -> {"new", "starting", "storing", "up", "ended"}]
      OBVIOUS
    <3> HIDE DEF TypeOK, InCall
    <3> QED BY <2>1, <3>1, ChangeTyped
  <2>5. TypeOK'
    BY <2>1, <2>2, <2>3, <2>4
  <2>6. InCall'
    BY <2>1, <2>2, <2>4
  <2> QED BY <2>5, <2>6
<1>20. ASSUME NEW p \in Procs, InsertStores(p) PROVE Goal
  <2>1. /\ life[p] = "storing" /\ pc[p] = "idle" /\ life' = [life EXCEPT ![p] = "up"]
        /\ pids' = [pids EXCEPT ![at[p]] = p] /\ at' = [at EXCEPT ![p] = 1]
        /\ named' = [named EXCEPT ![p] = TRUE]
        /\ UNCHANGED <<thread, clearing, dataMutex, keyMutex, ownKey, section, kept, call, locals>>
        /\ Witness
    BY <1>20 DEF InsertStores
  <2>2. at' \in [Procs -> 1 .. Slots + 1] /\ pids' \in [1 .. Slots -> Procs \cup {None}]
    <3>1. 1 \in 1 .. Slots + 1
      BY SlotAssumption
    <3> QED BY <2>1, <3>1
  <2>3. past' \in [Procs -> SUBSET Procs] /\ steady' \in [Procs -> Procs \cup {None}]
    BY <2>1, WitnessFacts
  <2> QED BY <2>1, <2>2, <2>3
<1>21. ASSUME NEW p \in Procs, RemoveClears(p) PROVE Goal
  <2>1. /\ pids' = [pids EXCEPT ![clearing[p]] = None] /\ clearing' = [clearing EXCEPT ![p] = 0]
        /\ dataMutex' = [dataMutex EXCEPT ![p] = None]
        /\ pc' = [pc EXCEPT ![p] = IF pc[p] = "orphan" THEN "open" ELSE pc[p]]
        /\ UNCHANGED <<sys, at, keyVars, section, kept, want, calls, found, locals>> /\ Witness
    BY <1>21 DEF RemoveClears
  <2>2. pids' \in [1 .. Slots -> Procs \cup {None}] /\ clearing' \in [Procs -> 0 .. Slots]
    <3>1. 0 \in 0 .. Slots
      BY SlotAssumption
    <3>2. pids' \in [1 .. Slots -> Procs \cup {None}]
      BY <2>1
    <3> QED BY <2>1, <3>1, <3>2
  <2>3. past' \in [Procs -> SUBSET Procs] /\ steady' \in [Procs -> Procs \cup {None}]
    BY <2>1, WitnessFacts
  <2> QED BY <2>1, <2>2, <2>3
<1>22. ASSUME NEW p \in Procs, NEW q \in Procs, DropOrphan(p, q) PROVE Goal
  <2>1. /\ pc[p] = "open" /\ todo' = [todo EXCEPT ![p] = @ \ {q}]
        /\ UNCHANGED <<sys, pids, at, keyVars, section, kept, want, calls, found, opening, made, checked>>
        /\ Witness
    BY <1>22 DEF DropOrphan, RemoveFinds
  <2>2. /\ pc' = pc \/ pc' = [pc EXCEPT ![p] = "orphan"]
        /\ dataMutex' = dataMutex \/ dataMutex' = [dataMutex EXCEPT ![p] = p]
    BY <1>22 DEF DropOrphan, RemoveFinds
  <2>3. clearing' \in [Procs -> 0 .. Slots]
    <3>1. clearing' = clearing \/ \E i \in 1 .. Slots : clearing' = [clearing EXCEPT ![p] = i]
      BY <1>22 DEF DropOrphan, RemoveFinds
    <3>2. 1 .. Slots \subseteq 0 .. Slots /\ clearing \in [Procs -> 0 .. Slots]
      BY SlotAssumption
    <3> QED BY <3>1, <3>2
  <2>4. past' \in [Procs -> SUBSET Procs] /\ steady' \in [Procs -> Procs \cup {None}]
    BY <2>1, <2>2, WitnessFacts
  <2>5. todo' \in [Procs -> SUBSET Procs] /\ \A r \in Procs \ {p} : todo'[r] = todo[r]
    BY <2>1
  <2>6. dataMutex' \in [Procs -> Procs \cup {None, Pool}]
    <3>1. dataMutex \in [Procs -> Procs \cup {None, Pool}] /\ p \in Procs \cup {None, Pool}
      OBVIOUS
    <3> HIDE DEF TypeOK, InCall
    <3> QED BY <2>2, <3>1, ChangeTyped
  <2>7. pc' \in [Procs -> {"idle", "lock", "try", "write", "scan", "copy", "open", "orphan"}]
    <3>1. pc \in [Procs -> {"idle", "lock", "try", "write", "scan", "copy", "open", "orphan"}]
      OBVIOUS
    <3> HIDE DEF TypeOK, InCall
    <3> QED BY <2>2, <3>1, ChangeTyped
  <2>8. \A r \in Procs : pc'[r] = pc[r] \/ (r = p /\ pc'[r] = "orphan")
    BY <2>2
  <2>9. TypeOK'
    BY <2>1, <2>3, <2>4, <2>5, <2>6, <2>7, <2>8
  <2>10. InCall'
    BY <2>1, <2>5, <2>8
  <2> QED BY <2>9, <2>10
<1> HIDE DEF TypeOK, InCall, Goto, sys, list, keyVars, locals, call, Up
<1> QED BY <1>1, <1>2, <1>3, <1>4, <1>5, <1>6, <1>7, <1>8, <1>9, <1>10, <1>11, <1>12, <1>13, <1>14, <1>15, <1>16, <1>17, <1>18, <1>19,
        <1>20, <1>21, <1>22
        DEF Next, FindOrRegisterForKey

-----------------------------------------------------------------------------
(* Safety *)


\* Nobody learns of a process before it has started.
LEMMA UnknownStep ==
    ASSUME TypeOK, InCall, Unknown, TypeOK', InCall', [Next]_vars
    PROVE  Unknown'
<1>0. ASSUME NEW p \in Procs, NEW q, Return(p, q)
      PROVE  /\ pc' = [pc EXCEPT ![p] = "idle"] /\ found' = [found EXCEPT ![p] = q]
             /\ kept' = [kept EXCEPT ![p] = kept[p] \cup ({q} \ {p, None})]
             /\ made' = [made EXCEPT ![p] = {}] /\ checked' = [checked EXCEPT ![p] = {}]
             /\ Shrinks
  BY <1>0, ReturnFacts
<1> USE NoneAssumption DEF TypeOK, InCall, Unknown, Started, Up, Goto, sys, list, keyVars, locals, call
<1>1. ASSUME NEW p \in Procs, Start(p) PROVE Unknown'
  BY <1>1 DEF Start
<1>2. ASSUME NEW p \in Procs, Call(p) PROVE Unknown'
  BY <1>2 DEF Call
<1>3. ASSUME NEW p \in Procs, LockData(p) PROVE Unknown'
  BY <1>3 DEF LockData
<1>4. ASSUME NEW p \in Procs, AcquireKeyMutex(p) PROVE Unknown'
  BY <1>4 DEF AcquireKeyMutex
<1>5. ASSUME NEW p \in Procs, KeyMutexTaken(p) PROVE Unknown'
  BY <1>5 DEF KeyMutexTaken
<1>6. ASSUME NEW p \in Procs, WriteKey(p) PROVE Unknown'
  BY <1>6 DEF WriteKey
<1>7. ASSUME NEW p \in Procs, CopyBegins(p) PROVE Unknown'
  BY <1>7 DEF CopyBegins
<1>8. ASSUME NEW p \in Procs, MakeInstance(p) PROVE Unknown'
  BY <1>8 DEF MakeInstance
<1>9. ASSUME NEW p \in Procs, NoneMatches(p) PROVE Unknown'
  <2>1. Return(p, None) /\ UNCHANGED <<sys, list, keyVars, want, calls, todo, opening>>
    BY <1>9 DEF NoneMatches
  <2>2. /\ found' = [found EXCEPT ![p] = None] /\ made' = [made EXCEPT ![p] = {}] /\ Shrinks
        /\ kept' = [kept EXCEPT ![p] = kept[p] \cup ({None} \ {p, None})]
    BY <1>0, <2>1
  <2>3. \A r \in Procs : /\ todo'[r] \cup made'[r] \cup kept'[r] \subseteq Started
                         /\ {opening'[r], found'[r]} \subseteq Started \cup {None}
    BY <2>1, <2>2
  <2>4. \A r \in Procs \ Started : section'[r] = NoKey /\ ownKey'[r] = NoKey /\ dataMutex'[r] = None /\ found'[r] = None
    BY <2>1, <2>2 DEF Shrinks
  <2> QED BY <2>1, <2>3, <2>4
<1>10. ASSUME NEW p \in Procs, UnregisterKey(p) PROVE Unknown'
  <2>1. /\ section' \in [Procs -> Keys \cup {NoKey}]
        /\ \A r \in Procs : section'[r] \in {section[r], NoKey}
    <3>1. section' = Sweep(section, Up, named', kept, made)
      BY <1>10 DEF UnregisterKey
    <3> QED BY <3>1, SweepFacts
  <2>2. /\ ownKey' = [ownKey EXCEPT ![p] = NoKey]
        /\ UNCHANGED <<sys, list, dataMutex, kept, call, locals>>
    BY <1>10 DEF UnregisterKey
  <2>3. \A r \in Procs \ Started : section'[r] = NoKey /\ ownKey'[r] = NoKey /\ dataMutex'[r] = None /\ found'[r] = None
    BY <2>1, <2>2
  <2> QED BY <2>2, <2>3
<1>11. ASSUME NEW p \in Procs, ReleaseInstances(p) PROVE Unknown'
  <2>1. Shrinks
    <3>1. /\ section' = Sweep(section, Up, named, kept', made)
          /\ dataMutex' = FreeMutexes(dataMutex, Up, kept', made)
      BY <1>11 DEF ReleaseInstances
    <3> QED BY <3>1, ShrinkFacts
  <2>2. kept' = [kept EXCEPT ![p] = {}] /\ UNCHANGED <<sys, list, keyVars, call, locals>>
    BY <1>11 DEF ReleaseInstances
  <2>3. \A r \in Procs \ Started : section'[r] = NoKey /\ ownKey'[r] = NoKey /\ dataMutex'[r] = None /\ found'[r] = None
    BY <2>1, <2>2 DEF Shrinks
  <2>4. \A r \in Procs : kept'[r] \subseteq Started
    BY <2>2
  <2> QED BY <2>2, <2>3, <2>4
<1>12. ASSUME NEW p \in Procs, ProcessEnds(p) PROVE Unknown'
  <2>1. \A r \in Procs : /\ section'[r] \in {section[r], NoKey}
                         /\ dataMutex'[r] \in {dataMutex[r], None}
    <3>1. section' = Sweep(section, Up \ {p}, named, kept', made')
      BY <1>12 DEF ProcessEnds
    <3>2. dataMutex' = FreeMutexes(dataMutex, Up \ {p}, kept', made')
      BY <1>12 DEF ProcessEnds
    <3>3. \A r \in Procs : section'[r] \in {section[r], NoKey}
      BY <3>1, SweepFacts
    <3>4. \A r \in Procs : dataMutex'[r] \in {dataMutex[r], None}
      <4>1. dataMutex \in [Procs -> Procs \cup {None, Pool}]
        OBVIOUS
      <4> HIDE DEF TypeOK, InCall, Unknown, Up
      <4> QED BY <3>2, <4>1, FreeFacts
    <3> QED BY <3>3, <3>4
  <2>2. /\ life' = [life EXCEPT ![p] = "ended"] /\ ownKey' = [ownKey EXCEPT ![p] = NoKey]
        /\ kept' = [kept EXCEPT ![p] = {}] /\ todo' = [todo EXCEPT ![p] = {}]
        /\ opening' = [opening EXCEPT ![p] = None] /\ made' = [made EXCEPT ![p] = {}]
        /\ UNCHANGED <<pids, found>>
    BY <1>12 DEF ProcessEnds
  <2>3. Started' = Started \cup {p}
    BY <2>2
  <2>4. \A r \in Procs \ Started' : section'[r] = NoKey /\ ownKey'[r] = NoKey /\ dataMutex'[r] = None /\ found'[r] = None
    BY <2>1, <2>2, <2>3
  <2>5. \A r \in Procs : /\ todo'[r] \cup made'[r] \cup kept'[r] \subseteq Started
                         /\ {opening'[r], found'[r]} \subseteq Started \cup {None}
    BY <2>2
  <2> HIDE DEF Started
  <2> QED BY <2>2, <2>3, <2>4, <2>5
<1>13. ASSUME NEW p \in Procs, ThreadEnds(p) PROVE Unknown'
  BY <1>13 DEF ThreadEnds
<1>14. ASSUME NEW p \in Procs, NEW q \in Procs, OpenProcess(p, q) PROVE Unknown'
  BY <1>14 DEF OpenProcess
<1>15. ASSUME NEW p \in Procs, NEW q \in Procs, CompareKey(p, q) PROVE Unknown'
  <2>1. /\ q \in made[p] \ checked[p]
        /\ UNCHANGED <<sys, list, keyVars, want, calls, todo, opening>>
    BY <1>15 DEF CompareKey
  <2>2. CASE Return(p, q)
    <3>1. /\ found' = [found EXCEPT ![p] = q] /\ made' = [made EXCEPT ![p] = {}] /\ Shrinks
          /\ kept' = [kept EXCEPT ![p] = kept[p] \cup ({q} \ {p, None})]
      <4> HIDE DEF TypeOK, InCall, Unknown
      <4> QED BY <1>0, <2>2
    <3>2. \A r \in Procs : /\ todo'[r] \cup made'[r] \cup kept'[r] \subseteq Started
                           /\ {opening'[r], found'[r]} \subseteq Started \cup {None}
      BY <2>1, <3>1
    <3>3. \A r \in Procs \ Started : section'[r] = NoKey /\ ownKey'[r] = NoKey /\ dataMutex'[r] = None /\ found'[r] = None
      BY <2>1, <3>1 DEF Shrinks
    <3> QED BY <2>1, <3>2, <3>3
  <2>3. CASE UNCHANGED <<pc, found, kept, made, section, dataMutex>>
    BY <2>1, <2>3
  <2> QED BY <1>15, <2>2, <2>3 DEF CompareKey
<1>16. ASSUME NEW p \in Procs, NEW q \in Procs, RemoveInstance(p, q) PROVE Unknown'
  BY <1>16 DEF RemoveInstance, RemoveFinds
<1>17. CASE UNCHANGED vars
  BY <1>17 DEF vars
<1>18. ASSUME NEW p \in Procs, CopySlot(p) PROVE Unknown'
  <2>1. at[p] \in 1 .. Slots
    BY <1>18, SlotAssumption DEF CopySlot
  <2>2. /\ todo' = [todo EXCEPT ![p] = @ \cup ({pids[at[p]]} \ {None, p})]
        /\ made' = [made EXCEPT ![p] = @ \cup ({pids[at[p]]} \cap {p})]
        /\ dataMutex' \in {dataMutex, [dataMutex EXCEPT ![p] = None]}
        /\ UNCHANGED <<sys, pids, keyVars, section, kept, found, opening>> /\ pc[p] = "copy"
    BY <1>18 DEF CopySlot
  <2>3. pids[at[p]] \in Started \cup {None} /\ p \in Started
    BY <2>1, <2>2
  <2>4. \A r \in Procs : todo'[r] \cup made'[r] \subseteq Started
    BY <2>2, <2>3
  <2>5. \A r \in Procs \ Started : dataMutex'[r] = None
    BY <2>2
  <2> QED BY <2>2, <2>4, <2>5
<1>19. ASSUME NEW p \in Procs, InsertReads(p) PROVE Unknown'
  <2>1. /\ life[p] = "starting" /\ life' \in {life, [life EXCEPT ![p] = "storing"]}
        /\ UNCHANGED <<thread, pids, clearing, dataMutex, keyVars, section, kept, call, locals>>
    BY <1>19 DEF InsertReads
  <2>2. Started' = Started
    BY <2>1
  <2> HIDE DEF Started
  <2> QED BY <2>1, <2>2
<1>20. ASSUME NEW p \in Procs, InsertStores(p) PROVE Unknown'
  <2>1. /\ life[p] = "storing" /\ life' = [life EXCEPT ![p] = "up"]
        /\ pids' = [pids EXCEPT ![at[p]] = p]
        /\ UNCHANGED <<dataMutex, ownKey, section, kept, call, locals>>
    BY <1>20 DEF InsertStores
  <2>2. Started' = Started \cup {p} /\ p \notin Started
    BY <2>1
  <2>3. \A i \in 1 .. Slots : pids'[i] = pids[i] \/ (i = at[p] /\ pids'[i] = p)
    BY <2>1
  <2>4. \A i \in 1 .. Slots : pids[i] # p
    BY <2>2
  <2>5. ASSUME NEW i \in 1 .. Slots, NEW j \in 1 .. Slots, pids'[i] = pids'[j], pids'[i] # None PROVE i = j
    <3>1. \A m, n \in 1 .. Slots : pids[m] = pids[n] /\ pids[m] # None => m = n
      OBVIOUS
    <3> HIDE DEF TypeOK, InCall, Unknown
    <3> QED BY <2>3, <2>4, <2>5, <3>1
  <2>6. \A i \in 1 .. Slots : pids'[i] \in Started' \cup {None}
    BY <2>2, <2>3
  <2> HIDE DEF Started
  <2> QED BY <2>1, <2>2, <2>5, <2>6
<1>21. ASSUME NEW p \in Procs, RemoveClears(p) PROVE Unknown'
  BY <1>21 DEF RemoveClears
<1>22. ASSUME NEW p \in Procs, NEW q \in Procs, DropOrphan(p, q) PROVE Unknown'
  BY <1>22 DEF DropOrphan, RemoveFinds
<1> HIDE DEF TypeOK, InCall, Unknown
<1> QED BY <1>1, <1>2, <1>3, <1>4, <1>5, <1>6, <1>7, <1>8, <1>9, <1>10, <1>11, <1>12, <1>13, <1>14, <1>15, <1>16, <1>17, <1>18, <1>19,
        <1>20, <1>21, <1>22
        DEF Next, FindOrRegisterForKey

\* The owners of keys stay what they are when sections and mutexes are closed and a
\* search may return.
LEMMA OwnersStay ==
    ASSUME TypeOK, InCall, Unknown, OwnerInv, TypeOK', Shrinks,
           UNCHANGED <<life, thread, clearing, keyMutex, ownKey, named, want>>,
           \A r \in Procs : pc'[r] # pc[r] => pc[r] = "open" /\ pc'[r] = "idle"
    PROVE  OwnerInv'
<1> USE NoneAssumption DEF TypeOK, OwnerInv, Up
<1>1. LockHeld'
  BY DEF LockHeld
<1>2. Setting'
  BY DEF Setting, Shrinks, InCall
<1>3. Shown'
  BY DEF Shown, Shrinks, Intact
<1>4. HoldersNeverWait'
  BY DEF HoldersNeverWait, Shrinks
<1> QED BY <1>1, <1>2, <1>3, <1>4

\* Keys stay with their owners: what TrySetKey, UnregisterKey and the ends of processes
\* and threads do to the mutexes, the locks and the sections.
LEMMA OwnerStep ==
    ASSUME TypeOK, InCall, Unknown, OwnerInv, TypeOK', InCall', [Next]_vars
    PROVE  OwnerInv'
<1>0. ASSUME NEW p \in Procs, NEW q, Return(p, q)
      PROVE  /\ pc' = [pc EXCEPT ![p] = "idle"]
             /\ Shrinks
  BY <1>0, ReturnFacts
<1>a. ASSUME Shrinks, UNCHANGED <<life, thread, clearing, keyMutex, ownKey, named, want>>,
             \A r \in Procs : pc'[r] # pc[r] => pc[r] = "open" /\ pc'[r] = "idle"
      PROVE  OwnerInv'
  BY <1>a, OwnersStay
<1> USE NoneAssumption DEF TypeOK, InCall, Unknown, OwnerInv, LockHeld, Setting, Shown, HoldersNeverWait,
           Intact, Started, Up, Goto, sys, list, keyVars, locals, call
<1>1. ASSUME NEW p \in Procs, Start(p) PROVE OwnerInv'
  BY <1>1 DEF Start
<1>2. ASSUME NEW p \in Procs, Call(p) PROVE OwnerInv'
  BY <1>2 DEF Call
<1>3. ASSUME NEW p \in Procs, LockData(p) PROVE OwnerInv'
  BY <1>3 DEF LockData
<1>4. ASSUME NEW p \in Procs, AcquireKeyMutex(p) PROVE OwnerInv'
  BY <1>4 DEF AcquireKeyMutex
<1>5. ASSUME NEW p \in Procs, KeyMutexTaken(p) PROVE OwnerInv'
  BY <1>5 DEF KeyMutexTaken
<1>6. ASSUME NEW p \in Procs, WriteKey(p) PROVE OwnerInv'
  BY <1>6 DEF WriteKey
<1>7. ASSUME NEW p \in Procs, CopyBegins(p) PROVE OwnerInv'
  BY <1>7 DEF CopyBegins
<1>8. ASSUME NEW p \in Procs, MakeInstance(p) PROVE OwnerInv'
  BY <1>8 DEF MakeInstance
<1>9. ASSUME NEW p \in Procs, NoneMatches(p) PROVE OwnerInv'
  <2>1. Return(p, None) /\ pc[p] = "open" /\ UNCHANGED <<sys, list, keyVars, want, calls, todo, opening>>
    BY <1>9 DEF NoneMatches
  <2>2. pc' = [pc EXCEPT ![p] = "idle"] /\ Shrinks
    BY <1>0, <2>1
  <2> QED BY <2>1, <2>2, <1>a
<1>10. ASSUME NEW p \in Procs, UnregisterKey(p) PROVE OwnerInv'
  <2>1. /\ pc[p] = "idle" /\ named' = [named EXCEPT ![p] = FALSE]
        /\ keyMutex' = [k \in Keys |-> IF keyMutex[k] = p THEN None ELSE keyMutex[k]]
        /\ ownKey' = [ownKey EXCEPT ![p] = NoKey]
        /\ UNCHANGED <<sys, list, dataMutex, kept, call, locals>>
    BY <1>10 DEF UnregisterKey
  <2>2. \A r \in Procs : r \in Up /\ named'[r] => section'[r] = section[r]
    <3>1. section' = Sweep(section, Up, named', kept, made)
      BY <1>10 DEF UnregisterKey
    <3> QED BY <3>1, SweepFacts
  <2>3. LockHeld'
    BY <2>1
  <2>4. Shown'
    BY <2>1, <2>2
  <2> QED BY <2>1, <2>3, <2>4
<1>11. ASSUME NEW p \in Procs, ReleaseInstances(p) PROVE OwnerInv'
  <2>1. Shrinks /\ UNCHANGED <<sys, list, keyVars, call, locals>>
    <3>1. /\ section' = Sweep(section, Up, named, kept', made)
          /\ dataMutex' = FreeMutexes(dataMutex, Up, kept', made)
          /\ UNCHANGED <<sys, list, keyVars, call, locals>>
      BY <1>11 DEF ReleaseInstances
    <3> QED BY <3>1, ShrinkFacts
  <2>2. \A r \in Procs : pc'[r] = pc[r]
    BY <2>1
  <2> QED BY <2>1, <2>2, <1>a
<1>12. ASSUME NEW p \in Procs, ProcessEnds(p) PROVE OwnerInv'
  <2>1. /\ life' = [life EXCEPT ![p] = "ended"]
        /\ pc' = [pc EXCEPT ![p] = "idle"]
        /\ keyMutex' = [k \in Keys |-> IF keyMutex[k] = p THEN None ELSE keyMutex[k]]
        /\ ownKey' = [ownKey EXCEPT ![p] = NoKey]
        /\ clearing' = [clearing EXCEPT ![p] = 0]
        /\ UNCHANGED <<thread, named, want>>
    BY <1>12 DEF ProcessEnds
  <2>2. \A r \in Procs :
           /\ section'[r] \in {section[r], NoKey}
           /\ r \in Up \ {p} /\ named[r] => section'[r] = section[r]
           /\ dataMutex'[r] \in {dataMutex[r], None}
           /\ r \in Up \ {p} /\ dataMutex[r] \in (Up \ {p}) \cup {Pool} => dataMutex'[r] = dataMutex[r]
    <3> DEFINE U == Up \ {p}
    <3>1. /\ section' = Sweep(section, U, named, kept', made')
          /\ dataMutex' = FreeMutexes(dataMutex, U, kept', made')
      BY <1>12 DEF ProcessEnds
    <3>4. section \in [Procs -> Keys \cup {NoKey}] /\ dataMutex \in [Procs -> Procs \cup {None, Pool}]
      OBVIOUS
    <3> HIDE DEF TypeOK, InCall, Unknown, OwnerInv, U
    <3>2. \A r \in Procs :
             /\ section'[r] \in {section[r], NoKey}
             /\ r \in U /\ named[r] => section'[r] = section[r]
      BY <3>1, <3>4, SweepFacts
    <3>3. \A r \in Procs :
             /\ dataMutex'[r] \in {dataMutex[r], None}
             /\ r \in U /\ dataMutex[r] \in U \cup {Pool} => dataMutex'[r] = dataMutex[r]
      BY <3>1, <3>4, FreeFacts
    <3> QED BY <3>2, <3>3 DEF U
  <2>3. Up' = Up \ {p}
    BY <2>1
  <2>4. LockHeld'
    BY <2>1
  <2>5. Setting'
    BY <2>1, <2>2
  <2>6. Shown'
    BY <2>1, <2>2
  <2>7. HoldersNeverWait'
    BY <2>1, <2>2
  <2> QED BY <2>3, <2>4, <2>5, <2>6, <2>7
<1>13. ASSUME NEW p \in Procs, ThreadEnds(p) PROVE OwnerInv'
  BY <1>13 DEF ThreadEnds
<1>14. ASSUME NEW p \in Procs, NEW q \in Procs, OpenProcess(p, q) PROVE OwnerInv'
  BY <1>14 DEF OpenProcess
<1>15. ASSUME NEW p \in Procs, NEW q \in Procs, CompareKey(p, q) PROVE OwnerInv'
  <2>1. pc[p] = "open" /\ UNCHANGED <<sys, list, keyVars, want, calls, todo, opening>>
    BY <1>15 DEF CompareKey
  <2>2. CASE Return(p, q)
    <3>1. pc' = [pc EXCEPT ![p] = "idle"] /\ Shrinks
      BY <1>0, <2>2
    <3> QED BY <2>1, <3>1, <1>a
  <2>3. CASE UNCHANGED <<pc, found, kept, made, section, dataMutex>>
    BY <2>1, <2>3
  <2> QED BY <1>15, <2>2, <2>3 DEF CompareKey
<1>16. ASSUME NEW p \in Procs, NEW q \in Procs, RemoveInstance(p, q) PROVE OwnerInv'
  BY <1>16 DEF RemoveInstance, RemoveFinds
<1>17. CASE UNCHANGED vars
  BY <1>17 DEF vars
<1>18. ASSUME NEW p \in Procs, CopySlot(p) PROVE OwnerInv'
  <2>1. /\ pc[p] = "copy" /\ UNCHANGED <<sys, clearing, keyVars, section, want>>
        /\ \/ UNCHANGED <<pc, dataMutex>>
           \/ pc' = [pc EXCEPT ![p] = "open"] /\ dataMutex' = [dataMutex EXCEPT ![p] = None]
    BY <1>18 DEF CopySlot
  <2>2. LockHeld' /\ Shown'
    BY <2>1
  <2>3. Setting'
    BY <2>1
  <2>4. HoldersNeverWait'
    BY <2>1
  <2> QED BY <2>2, <2>3, <2>4
<1>19. ASSUME NEW p \in Procs, InsertReads(p) PROVE OwnerInv'
  BY <1>19 DEF InsertReads
<1>20. ASSUME NEW p \in Procs, InsertStores(p) PROVE OwnerInv'
  BY <1>20 DEF InsertStores
<1>21. ASSUME NEW p \in Procs, RemoveClears(p) PROVE OwnerInv'
  BY <1>21 DEF RemoveClears
<1>22. ASSUME NEW p \in Procs, NEW q \in Procs, DropOrphan(p, q) PROVE OwnerInv'
  <2>1. /\ pc[p] = "open" /\ UNCHANGED <<sys, keyVars, section, want>>
        /\ \/ UNCHANGED <<pc, dataMutex, clearing>>
           \/ RemoveFinds(p, q, p) /\ pc' = [pc EXCEPT ![p] = "orphan"]
    BY <1>22 DEF DropOrphan
  <2>2. CASE UNCHANGED <<pc, dataMutex, clearing>>
    BY <2>1, <2>2
  <2>3. CASE RemoveFinds(p, q, p) /\ pc' = [pc EXCEPT ![p] = "orphan"]
    <3>1. /\ dataMutex[p] = None /\ dataMutex' = [dataMutex EXCEPT ![p] = p]
          /\ pc' = [pc EXCEPT ![p] = "orphan"] /\ p \in Up
          /\ \A r \in Procs \ {p} : clearing'[r] = clearing[r]
      BY <2>1, <2>3 DEF RemoveFinds
    <3>2. LockHeld' /\ Shown'
      <4>1. LockHeld'
        BY <2>1
      <4>2. \A r \in Procs : pc'[r] # "write" => pc[r] # "write"
        BY <3>1
      <4> QED BY <2>1, <4>1, <4>2
    <3>3. Setting'
      BY <2>1, <3>1
    <3>4. HoldersNeverWait'
      BY <2>1, <3>1
    <3> QED BY <3>2, <3>3, <3>4
  <2> QED BY <2>1, <2>2, <2>3
<1> QED BY <1>1, <1>2, <1>3, <1>4, <1>5, <1>6, <1>7, <1>8, <1>9, <1>10, <1>11, <1>12, <1>13, <1>14, <1>15, <1>16, <1>17, <1>18, <1>19,
        <1>20, <1>21, <1>22
        DEF Next, FindOrRegisterForKey

\* Every step keeps the history; processes and threads change in starts and ends only,
\* and a section loses its name in UnregisterKey.
LifeStep(p) ==
    \/ Start(p) \/ InsertReads(p) \/ InsertStores(p)
    \/ ProcessEnds(p) \/ ThreadEnds(p) \/ UnregisterKey(p)

LEMMA StepKinds ==
    ASSUME [Next]_vars
    PROVE  /\ Witness \/ UNCHANGED vars
           /\ \/ UNCHANGED <<life, thread, named>>
              \/ \E p \in Procs : LifeStep(p)
           /\ pids' = pids \/ \E p \in Procs : InsertStores(p) \/ RemoveClears(p)
<1> DEFINE Goal == /\ Witness \/ UNCHANGED vars
                   /\ \/ UNCHANGED <<life, thread, named>>
                      \/ \E p \in Procs : LifeStep(p)
                   /\ pids' = pids \/ \E p \in Procs : InsertStores(p) \/ RemoveClears(p)
<1>1. ASSUME NEW p \in Procs, Start(p) PROVE Goal
  BY <1>1 DEF Start, LifeStep, list
<1>2. ASSUME NEW p \in Procs, Call(p) PROVE Goal
  BY <1>2 DEF Call, sys, list, call, keyVars
<1>3. ASSUME NEW p \in Procs, LockData(p) PROVE Goal
  BY <1>3 DEF LockData, sys, list, call, keyVars
<1>4. ASSUME NEW p \in Procs, AcquireKeyMutex(p) PROVE Goal
  BY <1>4 DEF AcquireKeyMutex, sys, list, call, keyVars
<1>5. ASSUME NEW p \in Procs, KeyMutexTaken(p) PROVE Goal
  BY <1>5 DEF KeyMutexTaken, sys, list, call, keyVars
<1>6. ASSUME NEW p \in Procs, WriteKey(p) PROVE Goal
  BY <1>6 DEF WriteKey, sys, list, call, keyVars
<1>7. ASSUME NEW p \in Procs, CopyBegins(p) PROVE Goal
  BY <1>7 DEF CopyBegins, sys, list, call, keyVars
<1>8. ASSUME NEW p \in Procs, MakeInstance(p) PROVE Goal
  BY <1>8 DEF MakeInstance, sys, list, call, keyVars
<1>9. ASSUME NEW p \in Procs, NoneMatches(p) PROVE Goal
  BY <1>9 DEF NoneMatches, sys, list, call, keyVars
<1>10. ASSUME NEW p \in Procs, UnregisterKey(p) PROVE Goal
  <2>1. Witness
    BY <1>10 DEF UnregisterKey
  <2>2. pids' = pids
    BY <1>10 DEF UnregisterKey, list
  <2> QED BY <1>10, <2>1, <2>2 DEF LifeStep
<1>11. ASSUME NEW p \in Procs, ReleaseInstances(p) PROVE Goal
  BY <1>11 DEF ReleaseInstances, sys, list, call, keyVars
<1>12. ASSUME NEW p \in Procs, ProcessEnds(p) PROVE Goal
  <2>1. Witness
    BY <1>12 DEF ProcessEnds
  <2>2. pids' = pids
    BY <1>12 DEF ProcessEnds, list
  <2> QED BY <1>12, <2>1, <2>2 DEF LifeStep
<1>13. ASSUME NEW p \in Procs, ThreadEnds(p) PROVE Goal
  <2>1. Witness
    BY <1>13 DEF ThreadEnds
  <2>2. pids' = pids
    BY <1>13 DEF ThreadEnds, list
  <2> QED BY <1>13, <2>1, <2>2 DEF LifeStep
<1>14. ASSUME NEW p \in Procs, NEW q \in Procs, OpenProcess(p, q) PROVE Goal
  BY <1>14 DEF OpenProcess, sys, list, call, keyVars
<1>15. ASSUME NEW p \in Procs, NEW q \in Procs, CompareKey(p, q) PROVE Goal
  BY <1>15 DEF CompareKey, sys, list, call, keyVars
<1>16. ASSUME NEW p \in Procs, NEW q \in Procs, RemoveInstance(p, q) PROVE Goal
  BY <1>16 DEF RemoveInstance, RemoveFinds, sys, list, call, keyVars
<1>17. CASE UNCHANGED vars
  BY <1>17 DEF vars, sys, list, call, keyVars
<1>18. ASSUME NEW p \in Procs, CopySlot(p) PROVE Goal
  BY <1>18 DEF CopySlot, sys, list, call, keyVars
<1>19. ASSUME NEW p \in Procs, InsertReads(p) PROVE Goal
  <2>1. Witness
    BY <1>19 DEF InsertReads
  <2>2. pids' = pids
    BY <1>19 DEF InsertReads, list
  <2> QED BY <1>19, <2>1, <2>2 DEF LifeStep
<1>20. ASSUME NEW p \in Procs, InsertStores(p) PROVE Goal
  <2>1. Witness
    BY <1>20 DEF InsertStores
  <2> QED BY <1>20, <2>1 DEF LifeStep
<1>21. ASSUME NEW p \in Procs, RemoveClears(p) PROVE Goal
  BY <1>21 DEF RemoveClears, sys, list, call, keyVars
<1>22. ASSUME NEW p \in Procs, NEW q \in Procs, DropOrphan(p, q) PROVE Goal
  BY <1>22 DEF DropOrphan, RemoveFinds, sys, list, call, keyVars
<1> QED BY <1>1, <1>2, <1>3, <1>4, <1>5, <1>6, <1>7, <1>8, <1>9, <1>10, <1>11, <1>12, <1>13, <1>14, <1>15, <1>16, <1>17, <1>18, <1>19,
        <1>20, <1>21, <1>22
        DEF Next, FindOrRegisterForKey

\* The history variables stay right: every step but a start keeps them.
LEMMA HistoryStep ==
    ASSUME TypeOK, InCall, SearchInv, TypeOK', InCall', LockHeld', [Next]_vars
    PROVE  /\ OwnerSeen' /\ SteadyKnown' /\ SteadyOwns'
           /\ \A p \in Procs : pc'[p] \in {"copy", "open", "orphan"} => steady'[p] \in {None, steady[p]}
           /\ \A p \in Procs : pc'[p] = "idle" => past'[p] = past[p] /\ steady'[p] = steady[p]
           /\ \/ \A p \in Procs : pc'[p] = "copy" /\ steady'[p] # None => steady'[p] \in InList'
              \/ UNCHANGED vars
<1>1. Witness \/ UNCHANGED vars
  BY StepKinds
<1>2. Started \subseteq Started'
  <2>1. UNCHANGED life \/ \E p \in Procs :
           \/ /\ life[p] \in {"new", "starting", "storing"}
              /\ \/ life' = [life EXCEPT ![p] = "starting"]
                 \/ life' = [life EXCEPT ![p] = "storing"]
                 \/ life' = [life EXCEPT ![p] = "up"]
           \/ life' = [life EXCEPT ![p] = "ended"]
    BY StepKinds DEF LifeStep, Start, InsertReads, InsertStores, ProcessEnds, ThreadEnds, UnregisterKey, sys
  <2>2. ASSUME NEW q \in Started PROVE q \in Started'
    <3>1. q \in Procs /\ life[q] \in {"up", "ended"}
      BY DEF Started
    <3>2. ASSUME ~UNCHANGED life PROVE life'[q] = life[q] \/ life'[q] = "ended"
      <4>1. PICK p \in Procs :
               \/ /\ life[p] \in {"new", "starting", "storing"}
                  /\ \/ life' = [life EXCEPT ![p] = "starting"]
                     \/ life' = [life EXCEPT ![p] = "storing"]
                     \/ life' = [life EXCEPT ![p] = "up"]
               \/ life' = [life EXCEPT ![p] = "ended"]
        BY <2>1, <3>2
      <4>2. CASE p = q
        BY <3>1, <4>1, <4>2 DEF TypeOK
      <4>3. CASE p # q
        BY <3>1, <4>1, <4>3 DEF TypeOK
      <4> QED BY <4>2, <4>3
    <3> QED BY <3>1, <3>2 DEF Started
  <2> QED BY <2>2
<1>3. CASE UNCHANGED vars
  BY <1>2, <1>3 DEF vars, call, keyVars, SearchInv, OwnerSeen, SteadyKnown, SteadyOwns
<1>4. CASE Witness
  <2>1. \A p \in Procs :
           /\ pc'[p] = "idle" => past'[p] = past[p] /\ steady'[p] = steady[p]
           /\ pc'[p] # "idle" => /\ keyMutex'[want'[p]] \in past'[p] \cup {None}
                                 /\ steady'[p] \in {None, keyMutex'[want'[p]]}
           /\ pc'[p] # "idle" /\ steady'[p] \notin {None, steady[p]} =>
                 pc[p] = "try" /\ pc'[p] = "scan"
           /\ pc'[p] = "copy" /\ steady'[p] # None => steady'[p] \in InList'
    BY <1>4, WitnessFacts DEF TypeOK, InCall
  <2>2. \A p \in Procs : pc'[p] # "idle" => p \in Started' /\ want'[p] \in Keys
    BY DEF InCall, Started
  <2>3. \A k \in Keys : keyMutex'[k] \in Started' \cup {None}
    BY DEF LockHeld, Up, Started
  <2>4. SteadyKnown'
    BY <1>2, <2>1, <2>2, <2>3 DEF SearchInv, SteadyKnown
  <2> QED BY <2>1, <2>4 DEF OwnerSeen, SteadyOwns
<1> QED BY <1>1, <1>3, <1>4

\* A process that has started does not become intact again: an unregistered instance,
\* an ended process and a lost thread stay so.
LEMMA IntactLost ==
    ASSUME TypeOK, TypeOK', [Next]_vars, NEW q \in Started, Intact(q)'
    PROVE  Intact(q)
<1> USE DEF TypeOK, Started, Intact, Up
<1>1. UNCHANGED <<life, thread, named>> \/ \E p \in Procs : LifeStep(p)
  BY StepKinds
<1>2. ASSUME NEW p \in Procs, Start(p) \/ InsertReads(p) \/ InsertStores(p) PROVE Intact(q)
  BY <1>2 DEF Start, InsertReads, InsertStores, keyVars
<1>3. ASSUME NEW p \in Procs, ProcessEnds(p) PROVE Intact(q)
  BY <1>3 DEF ProcessEnds
<1>4. ASSUME NEW p \in Procs, ThreadEnds(p) PROVE Intact(q)
  BY <1>4 DEF ThreadEnds
<1>5. ASSUME NEW p \in Procs, UnregisterKey(p) PROVE Intact(q)
  BY <1>5 DEF UnregisterKey, sys
<1> QED BY <1>1, <1>2, <1>3, <1>4, <1>5 DEF LifeStep

\* What a search reads of an intact instance is the key that instance owns: under the
\* instance's mutex no key of it is taken but not yet written.
LEMMA ReadsOwnKey ==
    ASSUME TypeOK, OwnerInv, NEW p \in Procs, NEW q \in Procs,
           pc[p] = "open", dataMutex[q] \in {None, p}, Intact(q)
    PROVE  /\ KeyOf(p, q) = ownKey[q]
           /\ ownKey[q] # NoKey => keyMutex[ownKey[q]] = q
<1>1. dataMutex[q] = None
  BY NoneAssumption DEF TypeOK, OwnerInv, HoldersNeverWait, Intact
<1>2. pc[q] # "write"
  BY <1>1, NoneAssumption DEF OwnerInv, Setting
<1> QED BY <1>2 DEF OwnerInv, Shown, Intact, KeyOf, LockHeld

\* The list never shows a process in a slot it has not been in before, but for the one
\* that inserts itself.
LEMMA IdsStay ==
    ASSUME TypeOK, Unknown, [Next]_vars, NEW s \in Started, NEW i \in 1 .. Slots, pids'[i] = s
    PROVE  pids[i] = s
<1> USE NoneAssumption DEF TypeOK, Unknown, Started, sys, list
<1>1. ASSUME NEW p \in Procs, InsertStores(p) PROVE pids[i] = s
  BY <1>1 DEF InsertStores
<1>2. ASSUME NEW p \in Procs, RemoveClears(p) PROVE pids[i] = s
  BY <1>2 DEF RemoveClears
<1>3. pids' = pids \/ \E p \in Procs : InsertStores(p) \/ RemoveClears(p)
  BY StepKinds
<1> QED BY <1>1, <1>2, <1>3

\* What is ahead of a search: the steady owner is still to be copied, to be opened or to
\* be compared.
LEMMA AheadStep ==
    ASSUME IInv, TypeOK', InCall', OwnerInv', Unknown', [Next]_vars
    PROVE  SteadyAhead'
<1> SUFFICES ASSUME NEW r \in Procs, NEW s \in Procs, pc'[r] \in {"copy", "open", "orphan"}, steady'[r] = s,
                    Intact(s)'
             PROVE  /\ pc'[r] = "copy" => \/ s \in todo'[r] \cup made'[r]
                                         \/ \E i \in at'[r] .. Slots : pids'[i] = s
                    /\ pc'[r] # "copy" => s \in (todo'[r] \cup {opening'[r]} \cup made'[r]) \ checked'[r]
  BY DEF SteadyAhead, Intact, Up, TypeOK
<1> DEFINE Copied == s \in todo[r] \cup made[r] \/ \E i \in at[r] .. Slots : pids[i] = s
           Ahead == s \in (todo[r] \cup {opening[r]} \cup made[r]) \ checked[r]
           CopiedNext == s \in todo'[r] \cup made'[r] \/ \E i \in at'[r] .. Slots : pids'[i] = s
           AheadNext == s \in (todo'[r] \cup {opening'[r]} \cup made'[r]) \ checked'[r]
           Goal == /\ pc'[r] = "copy" => CopiedNext
                   /\ pc'[r] # "copy" => AheadNext
<1> USE NoneAssumption DEF Goto, sys, list, keyVars, locals, call
<1>1. steady[r] = s /\ s \in Started /\ Intact(s)
  <2>1. steady[r] = s
    BY HistoryStep DEF IInv, OwnerInv
  <2>2. s \in Started
    BY <2>1 DEF IInv, SearchInv, SteadyKnown
  <2>3. Intact(s)
    BY <2>2, IntactLost DEF IInv
  <2> QED BY <2>1, <2>2, <2>3
<1>2. /\ pc[r] = "copy" => Copied
      /\ pc[r] \in {"open", "orphan"} => Ahead
  BY <1>1 DEF IInv, SearchInv, SteadyAhead
<1>3. TypeOK /\ InCall
  BY DEF IInv
<1>4. pc[r] = "open" /\ dataMutex[s] \in {None, r} => KeyOf(r, s) = want[r]
  <2> SUFFICES ASSUME pc[r] = "open", dataMutex[s] \in {None, r} PROVE KeyOf(r, s) = want[r]
    OBVIOUS
  <2>1. KeyOf(r, s) = ownKey[s]
    BY <1>1, ReadsOwnKey DEF IInv
  <2>2. keyMutex[want[r]] = s /\ want[r] \in Keys
    BY <1>1, <1>3 DEF IInv, SearchInv, SteadyOwns, InCall
  <2> QED BY <2>1, <2>2 DEF IInv, OwnerInv, LockHeld
<1>5. ASSUME pc'[r] = pc[r], todo'[r] = todo[r], opening'[r] = opening[r], made'[r] = made[r],
             checked'[r] = checked[r], at'[r] = at[r], pids' = pids
      PROVE  Goal
  BY <1>2, <1>5
\* Where the list changes, the steady owner is still in it, hence where it was.
<1>6. ASSUME pc'[r] \in {pc[r], "open"}, pc[r] \in {"copy", "open", "orphan"}, pc[r] = "copy" => pc'[r] = "copy",
             todo'[r] = todo[r], opening'[r] = opening[r], made'[r] = made[r],
             checked'[r] = checked[r], at'[r] = at[r], ~UNCHANGED vars
      PROVE  Goal
  <2>1. pc'[r] # "copy" => AheadNext
    BY <1>2, <1>6
  <2>2. ASSUME pc'[r] = "copy" PROVE CopiedNext
    <3>1. s \in InList'
      BY <1>6, <2>2, HistoryStep DEF IInv, OwnerInv
    <3>2. PICK i \in 1 .. Slots : pids'[i] = s
      BY <3>1 DEF InList
    <3>3. pids[i] = s
      BY <1>1, <3>2, IdsStay DEF IInv
    <3>4. Copied
      BY <1>2, <1>6, <2>2
    <3>5. CASE s \in todo[r] \cup made[r]
      BY <1>6, <3>5
    <3>6. ASSUME NEW j \in at[r] .. Slots, pids[j] = s PROVE CopiedNext
      <4>1. j \in 1 .. Slots
        BY <1>3, SlotAssumption DEF TypeOK
      <4>2. i = j
        BY <1>1, <3>3, <3>6, <4>1 DEF IInv, Unknown
      <4> QED BY <1>6, <3>2, <3>6, <4>2
    <3> QED BY <3>4, <3>5, <3>6
  <2> QED BY <2>1, <2>2
<1> HIDE DEF Copied, Ahead, CopiedNext, AheadNext
<1>7. ASSUME NEW p \in Procs, Start(p) PROVE Goal
  BY <1>7, <1>3, <1>5 DEF Start, TypeOK
<1>8. ASSUME NEW p \in Procs, InsertReads(p) PROVE Goal
  <2>1. pc[p] = "idle" /\ at' \in {at, [at EXCEPT ![p] = @ + 1]} /\ UNCHANGED <<pids, call, locals>>
    BY <1>8, <1>3 DEF InsertReads, InCall
  <2>2. p # r
    BY <2>1
  <2> QED BY <1>3, <1>5, <2>1, <2>2 DEF TypeOK
<1>9. ASSUME NEW p \in Procs, Call(p) PROVE Goal
  BY <1>9, <1>3, <1>5 DEF Call, TypeOK
<1>10. ASSUME NEW p \in Procs, LockData(p) PROVE Goal
  BY <1>10, <1>3, <1>5 DEF LockData, TypeOK
<1>11. ASSUME NEW p \in Procs, AcquireKeyMutex(p) PROVE Goal
  BY <1>11, <1>3, <1>5 DEF AcquireKeyMutex, TypeOK
<1>12. ASSUME NEW p \in Procs, KeyMutexTaken(p) PROVE Goal
  BY <1>12, <1>3, <1>5 DEF KeyMutexTaken, TypeOK
<1>13. ASSUME NEW p \in Procs, WriteKey(p) PROVE Goal
  BY <1>13, <1>3, <1>5 DEF WriteKey, TypeOK
<1>14. ASSUME NEW p \in Procs, UnregisterKey(p) PROVE Goal
  BY <1>14, <1>3, <1>5 DEF UnregisterKey, TypeOK
<1>15. ASSUME NEW p \in Procs, ReleaseInstances(p) PROVE Goal
  BY <1>15, <1>3, <1>5 DEF ReleaseInstances, TypeOK
<1>16. ASSUME NEW p \in Procs, ThreadEnds(p) PROVE Goal
  BY <1>16, <1>3, <1>5 DEF ThreadEnds, TypeOK
<1>17. ASSUME NEW p \in Procs, ProcessEnds(p) PROVE Goal
  BY <1>17, <1>3, <1>5 DEF ProcessEnds, TypeOK
<1>18. ASSUME NEW p \in Procs, NoneMatches(p) PROVE Goal
  BY <1>18, <1>3, <1>5 DEF NoneMatches, Return, TypeOK
<1>19. ASSUME NEW p \in Procs, NEW q \in Procs, RemoveInstance(p, q) PROVE Goal
  BY <1>19, <1>3, <1>5 DEF RemoveInstance, RemoveFinds, TypeOK
<1>20. ASSUME NEW p \in Procs, InsertStores(p) PROVE Goal
  <2>1. /\ pc[p] = "idle" /\ life[p] = "storing" /\ life' = [life EXCEPT ![p] = "up"]
        /\ at' = [at EXCEPT ![p] = 1] /\ UNCHANGED <<call, locals>>
    BY <1>20, <1>3 DEF InsertStores, InCall
  <2>2. p # r /\ ~UNCHANGED vars
    BY <1>3, <2>1 DEF vars, TypeOK
  <2> QED BY <1>3, <1>6, <2>1, <2>2 DEF TypeOK
<1>21. ASSUME NEW p \in Procs, RemoveClears(p) PROVE Goal
  <2>1. /\ clearing[p] # 0 /\ clearing' = [clearing EXCEPT ![p] = 0]
        /\ pc' = [pc EXCEPT ![p] = IF pc[p] = "orphan" THEN "open" ELSE pc[p]]
        /\ UNCHANGED <<at, locals>>
    BY <1>21 DEF RemoveClears
  <2>2. ~UNCHANGED vars
    BY <1>3, <2>1 DEF vars, TypeOK
  <2>3. pc'[r] \in {pc[r], "open"} /\ pc[r] \in {"copy", "open", "orphan"} /\ (pc[r] = "copy" => pc'[r] = "copy")
    BY <1>3, <2>1 DEF TypeOK
  <2> QED BY <1>6, <2>1, <2>2, <2>3
<1>22. ASSUME NEW p \in Procs, CopyBegins(p) PROVE Goal
  <2>1. /\ pc[p] = "scan" /\ pc' = [pc EXCEPT ![p] = "copy"] /\ at' = [at EXCEPT ![p] = 1]
        /\ UNCHANGED <<pids, locals>>
    BY <1>22 DEF CopyBegins
  <2>2. CASE p # r
    BY <1>3, <1>5, <2>1, <2>2 DEF TypeOK
  <2>3. CASE p = r
    <3>1. pc'[r] = "copy" /\ at'[r] = 1 /\ ~UNCHANGED vars
      BY <1>3, <2>1, <2>3 DEF TypeOK, vars
    <3>2. s \in InList'
      BY <3>1, HistoryStep DEF IInv, OwnerInv
    <3> QED BY <3>1, <3>2 DEF InList, CopiedNext
  <2> QED BY <2>2, <2>3
<1>23. ASSUME NEW p \in Procs, CopySlot(p) PROVE Goal
  <2>1. /\ pc[p] = "copy" /\ pids' = pids /\ opening' = opening /\ checked' = checked
        /\ todo' = [todo EXCEPT ![p] = @ \cup ({pids[at[p]]} \ {None, p})]
        /\ made' = [made EXCEPT ![p] = @ \cup ({pids[at[p]]} \cap {p})]
        /\ \/ at[p] < Slots /\ at' = [at EXCEPT ![p] = @ + 1] /\ pc' = pc
           \/ ~(at[p] < Slots) /\ at' = [at EXCEPT ![p] = 1] /\ pc' = [pc EXCEPT ![p] = "open"]
    BY <1>23 DEF CopySlot
  <2>2. CASE p # r
    <3>1. /\ pc'[r] = pc[r] /\ todo'[r] = todo[r] /\ made'[r] = made[r] /\ at'[r] = at[r]
      BY <1>3, <2>1, <2>2 DEF TypeOK
    <3> QED BY <1>5, <2>1, <3>1
  <2>3. CASE p = r
    <3>1. at[r] \in 1 .. Slots /\ checked[r] = {}
      <4>1. pc[r] = "copy"
        BY <2>1, <2>3
      <4>2. at[r] <= Slots /\ checked[r] = {}
        BY <1>3, <4>1 DEF InCall
      <4>3. at[r] \in 1 .. Slots + 1
        BY <1>3 DEF TypeOK
      <4> QED BY <4>2, <4>3, SlotAssumption
    <3>2. s \in todo[r] \cup made[r] => s \in todo'[r] \cup made'[r]
      BY <1>3, <2>1, <2>3 DEF TypeOK
    <3>3. pids[at[r]] = s => s \in todo'[r] \cup made'[r]
      <4>1. /\ todo'[r] = todo[r] \cup ({pids[at[r]]} \ {None, r})
            /\ made'[r] = made[r] \cup ({pids[at[r]]} \cap {r})
        BY <1>3, <2>1, <2>3 DEF TypeOK
      <4> QED BY <4>1
    <3>4. Copied
      BY <1>2, <2>1, <2>3
    <3>5. CASE s \in todo'[r] \cup made'[r]
      <4>1. checked'[r] = {}
        BY <2>1, <3>1
      <4> QED BY <3>5, <4>1 DEF CopiedNext, AheadNext
    <3>6. CASE s \notin todo'[r] \cup made'[r]
      <4>1. PICK i \in at[r] .. Slots : pids[i] = s
        BY <3>2, <3>4, <3>6 DEF Copied
      <4>2. i # at[r]
        BY <3>3, <3>6, <4>1
      <4>3. at[r] < Slots /\ i \in at[r] + 1 .. Slots
        BY <3>1, <4>1, <4>2, SlotAssumption
      <4>4. at'[r] = at[r] + 1 /\ pc'[r] = "copy"
        BY <1>3, <2>1, <2>3, <4>3 DEF TypeOK
      <4> QED BY <2>1, <4>1, <4>3, <4>4 DEF CopiedNext
    <3> QED BY <3>5, <3>6
  <2> QED BY <2>2, <2>3
<1>24. ASSUME NEW p \in Procs, NEW q \in Procs, OpenProcess(p, q) PROVE Goal
  <2>1. /\ pc[p] = "open" /\ opening[p] = None /\ UNCHANGED <<pc, pids, at, made, checked>>
        /\ todo' = [todo EXCEPT ![p] = @ \ {q}] /\ opening' = [opening EXCEPT ![p] = q]
    BY <1>24 DEF OpenProcess
  <2>2. CASE p # r
    BY <1>3, <1>5, <2>1, <2>2 DEF TypeOK
  <2>3. CASE p = r
    BY <1>2, <1>3, <2>1, <2>3 DEF TypeOK, Ahead, AheadNext
  <2> QED BY <2>2, <2>3
<1>25. ASSUME NEW p \in Procs, NEW q \in Procs, DropOrphan(p, q) PROVE Goal
  <2>1. /\ pc[p] = "open" /\ ~CanOpen(q) /\ UNCHANGED <<pids, at, opening, made, checked>>
        /\ todo' = [todo EXCEPT ![p] = @ \ {q}] /\ (pc' = pc \/ pc' = [pc EXCEPT ![p] = "orphan"])
    BY <1>25 DEF DropOrphan, RemoveFinds
  <2>2. CASE p # r
    <3>1. todo'[r] = todo[r]
      BY <1>3, <2>1, <2>2 DEF TypeOK
    <3>2. CASE pc' = pc
      BY <1>5, <2>1, <3>1, <3>2
    <3>3. CASE pc' = [pc EXCEPT ![p] = "orphan"]
      <4>1. pc'[r] = pc[r]
        BY <1>3, <2>2, <3>3 DEF TypeOK
      <4> QED BY <1>5, <2>1, <3>1, <4>1
    <3> QED BY <2>1, <3>2, <3>3
  <2>3. CASE p = r
    <3>1. q # s
      BY <1>1, <2>1 DEF CanOpen, Intact, Up
    <3> QED BY <1>2, <1>3, <2>1, <2>3, <3>1 DEF TypeOK, Ahead, AheadNext
  <2> QED BY <2>2, <2>3
<1>26. ASSUME NEW p \in Procs, MakeInstance(p) PROVE Goal
  <2>1. /\ pc[p] = "open" /\ UNCHANGED <<pc, pids, at, todo, checked>>
        /\ made' = [made EXCEPT ![p] = @ \cup {opening[p]}] /\ opening' = [opening EXCEPT ![p] = None]
    BY <1>26 DEF MakeInstance
  <2>2. CASE p # r
    <3>1. made'[r] = made[r] /\ opening'[r] = opening[r]
      BY <1>3, <2>1, <2>2 DEF TypeOK
    <3> QED BY <1>5, <2>1, <3>1
  <2>3. CASE p = r
    BY <1>2, <1>3, <2>1, <2>3 DEF TypeOK, Ahead, AheadNext
  <2> QED BY <2>2, <2>3
<1>27. ASSUME NEW p \in Procs, NEW q \in Procs, CompareKey(p, q) PROVE Goal
  <2>1. CASE Return(p, q)
    BY <1>27, <2>1, <1>3, <1>5 DEF CompareKey, Return, TypeOK
  <2>2. CASE /\ KeyOf(p, q) # want[p] /\ checked' = [checked EXCEPT ![p] = @ \cup {q}]
             /\ UNCHANGED <<pc, found, kept, made, section, dataMutex>>
    <3>1. pc[p] = "open" /\ dataMutex[q] \in {None, p} /\ UNCHANGED <<list, todo, opening>>
      BY <1>27 DEF CompareKey
    <3>2. CASE p # r
      BY <1>3, <1>5, <2>2, <3>1, <3>2 DEF TypeOK
    <3>3. CASE p = r
      <4>1. q # s
        BY <1>4, <2>2, <3>1, <3>3
      <4> QED BY <1>2, <1>3, <2>2, <3>1, <3>3, <4>1 DEF TypeOK, Ahead, AheadNext
    <3> QED BY <3>2, <3>3
  <2> QED BY <1>27, <2>1, <2>2 DEF CompareKey
<1>28. ASSUME UNCHANGED vars PROVE Goal
  BY <1>5, <1>28 DEF vars
<1>29. Goal
  BY <1>7, <1>8, <1>9, <1>10, <1>11, <1>12, <1>13, <1>14, <1>15, <1>16, <1>17, <1>18, <1>19, <1>20, <1>21, <1>22,
     <1>23, <1>24, <1>25, <1>26, <1>27, <1>28 DEF Next, FindOrRegisterForKey
<1> QED BY <1>29 DEF CopiedNext, AheadNext

\* What a search returns: an owner of the key, and the steady owner if there is one that
\* nothing only looks like.
LEMMA FindStep ==
    ASSUME IInv, TypeOK', InCall', OwnerInv', Unknown', [Next]_vars
    PROVE  FindCorrect'
<1> USE NoneAssumption
<1>1. \A p \in Procs : pc'[p] = "idle" => past'[p] = past[p] /\ steady'[p] = steady[p]
  BY HistoryStep DEF IInv, OwnerInv
<1>2. \A q \in Started : Intact(q)' => Intact(q)
  BY IntactLost DEF IInv
<1>3. TypeOK /\ InCall /\ FindCorrect
  BY DEF IInv, SearchInv
<1> SUFFICES ASSUME NEW p \in Procs, NEW f, NEW s, p \in Up', pc'[p] = "idle",
                    found'[p] = f, steady'[p] = s
             PROVE  /\ f # None /\ Intact(f)' => f \in past'[p]
                    /\ f # p /\ s # None /\ Intact(s)' => f = s \/ (f # None /\ ~Intact(f)')
  BY DEF FindCorrect, FoundOwnedKey, SteadyOwnerFound, Intact, Up
<1> DEFINE Goal == /\ f # None => f \in Started
                   /\ f # None /\ Intact(f) => f \in past[p]
                   /\ f # p /\ s # None /\ Intact(s) => f = s \/ (f # None /\ ~Intact(f))
<1>4. s \in Started \cup {None} /\ s = steady[p] /\ (p \notin Started => s = None)
  BY <1>1 DEF IInv, SearchInv, SteadyKnown
<1>5. ASSUME Goal
      PROVE  /\ f # None /\ Intact(f)' => f \in past'[p]
             /\ f # p /\ s # None /\ Intact(s)' => f = s \/ (f # None /\ ~Intact(f)')
  BY <1>1, <1>2, <1>4, <1>5
<1>6. ASSUME pc[p] = "idle", found'[p] = found[p], p \in Up \/ p \notin Started PROVE Goal
  BY <1>3, <1>4, <1>6 DEF IInv, Unknown, FindCorrect, FoundOwnedKey, SteadyOwnerFound, TypeOK
<1> HIDE DEF Goal
<1> USE DEF Goto, sys, list, keyVars, locals, call
<1>7. ASSUME NEW u \in Procs, Start(u) PROVE Goal
  BY <1>7, <1>3, <1>6 DEF Start, Started, TypeOK, Up
<1>8. ASSUME NEW u \in Procs, Call(u) PROVE Goal
  BY <1>8, <1>3, <1>6 DEF Call, TypeOK, Up
<1>9. ASSUME NEW u \in Procs, LockData(u) PROVE Goal
  BY <1>9, <1>3, <1>6 DEF LockData, TypeOK, Up
<1>10. ASSUME NEW u \in Procs, AcquireKeyMutex(u) PROVE Goal
  BY <1>10, <1>3, <1>6 DEF AcquireKeyMutex, TypeOK, Up
<1>11. ASSUME NEW u \in Procs, KeyMutexTaken(u) PROVE Goal
  BY <1>11, <1>3, <1>6 DEF KeyMutexTaken, TypeOK, Up
<1>12. ASSUME NEW u \in Procs, WriteKey(u) PROVE Goal
  <2>1. CASE u # p
    BY <1>12, <2>1, <1>3, <1>6 DEF WriteKey, TypeOK, Up
  <2>2. CASE u = p
    <3>1. f = p /\ pc[p] = "write" /\ p \in Up /\ thread[p] /\ want[p] \in Keys
      BY <1>12, <2>2, <1>3 DEF WriteKey, TypeOK, InCall, Up
    <3>2. keyMutex[want[p]] = p
      BY <3>1 DEF IInv, OwnerInv, Setting, LockHeld
    <3>3. f \in past[p] /\ f \in Started
      BY <3>1, <3>2 DEF IInv, SearchInv, OwnerSeen, Started, Up
    <3> QED BY <3>1, <3>3 DEF Goal
  <2> QED BY <2>1, <2>2
<1>13. ASSUME NEW u \in Procs, CopyBegins(u) PROVE Goal
  BY <1>13, <1>3, <1>6 DEF CopyBegins, TypeOK, Up
<1>14. ASSUME NEW u \in Procs, MakeInstance(u) PROVE Goal
  BY <1>14, <1>3, <1>6 DEF MakeInstance, TypeOK, Up
<1>15. ASSUME NEW u \in Procs, NoneMatches(u) PROVE Goal
  <2>1. CASE u # p
    BY <1>15, <2>1, <1>3, <1>6 DEF NoneMatches, Return, TypeOK, Up
  <2>2. CASE u = p
    <3>1. f = None /\ pc[p] = "open" /\ todo[p] = {} /\ opening[p] = None /\ checked[p] = made[p]
      BY <1>15, <2>2, <1>3 DEF NoneMatches, Return, TypeOK
    <3>2. s # None => ~Intact(s)
      BY <3>1, <1>4 DEF IInv, SearchInv, SteadyAhead
    <3> QED BY <3>1, <3>2 DEF Goal
  <2> QED BY <2>1, <2>2
<1>16. ASSUME NEW u \in Procs, UnregisterKey(u) PROVE Goal
  BY <1>16, <1>3, <1>6 DEF UnregisterKey, TypeOK, Up
<1>17. ASSUME NEW u \in Procs, ReleaseInstances(u) PROVE Goal
  BY <1>17, <1>3, <1>6 DEF ReleaseInstances, TypeOK, Up
<1>18. ASSUME NEW u \in Procs, ProcessEnds(u) PROVE Goal
  BY <1>18, <1>3, <1>6 DEF ProcessEnds, TypeOK, Up
<1>19. ASSUME NEW u \in Procs, ThreadEnds(u) PROVE Goal
  BY <1>19, <1>3, <1>6 DEF ThreadEnds, TypeOK, Up
<1>20. ASSUME NEW u \in Procs, NEW v \in Procs, OpenProcess(u, v) PROVE Goal
  BY <1>20, <1>3, <1>6 DEF OpenProcess, TypeOK, Up
<1>21. ASSUME NEW u \in Procs, NEW v \in Procs, CompareKey(u, v) PROVE Goal
  <2>1. CASE u # p
    BY <1>21, <2>1, <1>3, <1>6 DEF CompareKey, Return, TypeOK, Up
  <2>2. CASE u = p
    <3>1. /\ f = v /\ pc[p] = "open" /\ v \in made[p] /\ dataMutex[v] \in {None, p}
          /\ KeyOf(p, v) = want[p]
      BY <1>21, <2>2, <1>3 DEF CompareKey, Return, TypeOK
    <3>2. v \in Started /\ want[p] \in Keys
      BY <3>1 DEF IInv, Unknown, InCall
    <3>3. Intact(v) => keyMutex[want[p]] = v
      BY <3>1, <3>2, ReadsOwnKey DEF IInv
    <3>4. Intact(v) => v \in past[p]
      BY <3>1, <3>3 DEF IInv, SearchInv, OwnerSeen
    <3>5. s # None => s = keyMutex[want[p]]
      BY <3>1, <1>4 DEF IInv, SearchInv, SteadyOwns
    <3> QED BY <3>1, <3>2, <3>3, <3>4, <3>5 DEF Goal
  <2> QED BY <2>1, <2>2
<1>22. ASSUME NEW u \in Procs, NEW v \in Procs, RemoveInstance(u, v) PROVE Goal
  BY <1>22, <1>3, <1>6 DEF RemoveInstance, RemoveFinds, TypeOK, Up
<1>23. ASSUME UNCHANGED vars PROVE Goal
  BY <1>23, <1>3, <1>6 DEF vars, Up
<1>24. ASSUME NEW u \in Procs, CopySlot(u) PROVE Goal
  BY <1>24, <1>3, <1>6 DEF CopySlot, TypeOK, Up
<1>25. ASSUME NEW u \in Procs, InsertReads(u) PROVE Goal
  BY <1>25, <1>3, <1>6 DEF InsertReads, Started, TypeOK, Up
<1>26. ASSUME NEW u \in Procs, InsertStores(u) PROVE Goal
  BY <1>26, <1>3, <1>6 DEF InsertStores, Started, TypeOK, InCall, Up
<1>27. ASSUME NEW u \in Procs, RemoveClears(u) PROVE Goal
  BY <1>27, <1>3, <1>6 DEF RemoveClears, TypeOK, Up
<1>28. ASSUME NEW u \in Procs, NEW v \in Procs, DropOrphan(u, v) PROVE Goal
  BY <1>28, <1>3, <1>6 DEF DropOrphan, RemoveFinds, TypeOK, Up
<1>29. Goal
  BY <1>7, <1>8, <1>9, <1>10, <1>11, <1>12, <1>13, <1>14, <1>15, <1>16, <1>17, <1>18, <1>19, <1>20, <1>21, <1>22, <1>23,
     <1>24, <1>25, <1>26, <1>27, <1>28
     DEF Next, FindOrRegisterForKey
<1> QED BY <1>5, <1>29

-----------------------------------------------------------------------------
(* Theorems *)

LEMMA InitHolds == Init => IInv
BY NoneAssumption, CallsAssumption, SlotAssumption DEF Init, IInv, TypeOK, InCall, Unknown, Started, OwnerInv, LockHeld,
   Setting, Shown, HoldersNeverWait, SearchInv, OwnerSeen, SteadyKnown, SteadyOwns, SteadyAhead,
   FindCorrect, FoundOwnedKey, SteadyOwnerFound, Up, Intact

LEMMA InvariantStep ==
    ASSUME IInv, [Next]_vars
    PROVE  IInv'
<1>1. TypeOK' /\ InCall'
  BY TypeStep DEF IInv
<1>2. Unknown'
  BY <1>1, UnknownStep DEF IInv
<1>3. OwnerInv'
  BY <1>1, OwnerStep DEF IInv
<1>4. OwnerSeen' /\ SteadyKnown' /\ SteadyOwns'
  BY <1>1, <1>3, HistoryStep DEF IInv, OwnerInv
<1>5. SteadyAhead' /\ FindCorrect'
  BY <1>1, <1>2, <1>3, AheadStep, FindStep
<1> QED BY <1>1, <1>2, <1>3, <1>4, <1>5 DEF IInv, SearchInv

\* What the owners' mutexes and locks have in common makes a key one instance's.
LEMMA OwnersDiffer ==
    ASSUME TypeOK, OwnerInv
    PROVE  KeyOwnership
<1> USE NoneAssumption DEF TypeOK, OwnerInv, Up
<1>1. KeyHeldOnce
  BY DEF KeyHeldOnce, LockHeld
<1>2. ASSUME NEW p \in Procs, Intact(p), dataMutex[p] = None PROVE section[p] = ownKey[p]
  BY <1>2 DEF Setting, Shown
<1>3. OwnedKeyShown
  BY <1>2 DEF OwnedKeyShown
<1>4. VisibleKeysDistinct
  BY <1>1, <1>2 DEF VisibleKeysDistinct, KeyHeldOnce, Intact
<1> QED BY <1>1, <1>3, <1>4 DEF KeyOwnership

\* Every variable stays in its type, and a process out of a call has no locals left.
THEOREM TypeCorrect == Spec => []TypeOK
<1>1. ASSUME TypeOK, InCall, [Next]_vars PROVE TypeOK' /\ InCall'
  BY <1>1, TypeStep
<1>2. Init => TypeOK /\ InCall
  BY InitHolds DEF IInv
<1>3. (TypeOK /\ InCall) /\ [Next]_vars => (TypeOK /\ InCall)'
  BY <1>1
<1> QED BY <1>2, <1>3, PTL DEF Spec

\* The whole of what holds between the mutexes, the locks, the sections and the searches.
THEOREM InductiveInvariant == Spec => []IInv
<1>1. Init => IInv
  BY InitHolds
<1>2. IInv /\ [Next]_vars => IInv'
  BY InvariantStep
<1> QED BY <1>1, <1>2, PTL DEF Spec

\* A key is registered for one instance, no two intact instances show the same key, and
\* an instance that registered a key shows it.
THEOREM KeysOwnedOnce == Spec => []KeyOwnership
<1>1. IInv => KeyOwnership
  BY OwnersDiffer DEF IInv
<1> QED BY <1>1, InductiveInvariant, PTL

\* A search returns an instance that owned the key during the call, and does not pass by
\* one that owned it throughout.
THEOREM SearchIsRight == Spec => []FindCorrect
<1>1. IInv => FindCorrect
  BY DEF IInv, SearchInv
<1> QED BY <1>1, InductiveInvariant, PTL

\* Who has the data mutex of a running process is that process, in TrySetKey, where it
\* waits for nothing: no circle of waiters.
THEOREM NoCircleOfWaiters == Spec => []HoldersNeverWait
<1>1. IInv => HoldersNeverWait
  BY DEF IInv, OwnerInv
<1> QED BY <1>1, InductiveInvariant, PTL

-----------------------------------------------------------------------------
(* The list of instances (InstanceList), as an array that the processes    *)
(* read and write slot by slot, each under a mutex of its own.             *)

\* A process inserts itself once, before it runs: until then nobody has met its id.
NewUnlisted ==
    \A p \in Pids : phase[p] = "new" => /\ \A i \in 1 .. Size : slot[i] # p
                                        /\ \A r \in Pids : p \notin copied[r]
InsertsItself == \A p \in Pids : op[p] = "insert" => phase[p] = "new" /\ pid[p] = p

\* What is removed is the id of a process that has ended: it will not run again.
RemovesEnded ==
    \A p \in Pids : /\ op[p] = "remove" => phase[pid[p]] = "ended"
                    /\ \A q \in due[p] : phase[q] = "ended"

\* As long as writers did not overlap, the slot a writer found is still what it was
\* when he read it.
Writing(p) == op[p] \in {"insert", "remove"}
OneOperation == \A p, q \in Pids : Writing(p) /\ Writing(q) => p = q
HitStands == \A p \in Pids : hit[p] => slot[index[p]] = Wanted(p)
RunningListed == \A p \in Pids : phase[p] = "up" => \E i \in 1 .. Size : slot[i] = p
ListedRan == \A p \in Pids, i \in 1 .. Size : slot[i] = p => phase[p] \in {"up", "ended"}

\* The inductive invariant.
ListInv ==
    /\ ListTypeOK
    /\ NewUnlisted /\ InsertsItself /\ RemovesEnded /\ ListedOnce
    /\ ~raced => OneOperation /\ HitStands /\ RunningListed /\ ListedRan

-----------------------------------------------------------------------------
(* Type correctness *)

\* The types of a process's operation, and those of what it knows of others.
LocalTypes ==
    /\ op \in [Pids -> {"none", "insert", "copy", "remove"}]
    /\ pid \in [Pids -> Pids]
    /\ index \in [Pids -> 1 .. Size + 1]
    /\ hit \in [Pids -> BOOLEAN]
    /\ raced \in BOOLEAN
    /\ \A p \in Pids : hit[p] => index[p] <= Size /\ op[p] \in {"insert", "remove"}
SharedTypes ==
    /\ slot \in [1 .. Size -> Pids \cup {Free}]
    /\ phase \in [Pids -> {"new", "up", "ended"}]
    /\ watches \in [Pids -> SUBSET Pids] /\ told \in [Pids -> SUBSET Pids]
    /\ due \in [Pids -> SUBSET Pids] /\ copied \in [Pids -> SUBSET Pids]

LEMMA ListTypes == ListTypeOK <=> LocalTypes /\ SharedTypes
BY DEF ListTypeOK, LocalTypes, SharedTypes

\* Every step of the operations on the list, of the AppInstance functions that
\* perform them and of a process that ends keeps the variables in their types.
LEMMA ListTypeStep == ListTypeOK /\ [ListNext]_listVars => ListTypeOK'
<1> SUFFICES ASSUME LocalTypes, SharedTypes, [ListNext]_listVars PROVE LocalTypes' /\ SharedTypes'
  <2>1. ListTypeOK' <=> LocalTypes' /\ SharedTypes'
    BY DEF ListTypeOK, LocalTypes, SharedTypes
  <2> QED BY <2>1, ListTypes
<1> USE SizeAssumption DEF LocalTypes, SharedTypes
<1>1. ASSUME NEW p \in Pids, End(p), UNCHANGED raced PROVE LocalTypes'
  BY <1>1 DEF End
<1>2. ASSUME NEW p \in Pids, NEW kind \in {"insert", "copy", "remove"}, NEW q \in Pids, Begin(p, kind, q)
      PROVE  LocalTypes' /\ slot' = slot
  BY <1>2 DEF Begin
<1>3. ASSUME NEW p \in Pids, index[p] <= Size, index' = [index EXCEPT ![p] = @ + 1], ~hit[p],
             UNCHANGED <<op, pid, hit, raced>>
      PROVE  LocalTypes'
  <2>1. index[p] + 1 \in 1 .. Size + 1
    BY <1>3
  <2>2. index' \in [Pids -> 1 .. Size + 1] /\ \A q \in Pids : hit'[q] => index'[q] <= Size
    BY <1>3, <2>1
  <2> QED BY <1>3, <2>2
<1>4. ASSUME NEW p \in Pids, ReadSlot(p) PROVE LocalTypes' /\ SharedTypes'
  <2>1. SharedTypes'
    BY <1>4 DEF ReadSlot, objects
  <2>2. CASE slot[index[p]] = Wanted(p)
    BY <1>4, <2>2, <2>1 DEF ReadSlot
  <2>3. CASE slot[index[p]] # Wanted(p)
    BY <1>3, <1>4, <2>3, <2>1 DEF ReadSlot
  <2> QED BY <2>2, <2>3
<1>5. ASSUME NEW p \in Pids, StoreSlot(p) PROVE LocalTypes' /\ SharedTypes'
  <2>1. LocalTypes'
    BY <1>1, <1>5 DEF StoreSlot, StoreAt
  <2>2. SharedTypes'
    BY <1>5 DEF StoreSlot, StoreAt, objects
  <2> QED BY <2>1, <2>2
<1>6. ASSUME NEW p \in Pids, CopyNext(p) PROVE LocalTypes' /\ SharedTypes'
  <2>1. ~hit[p]
    BY <1>6 DEF CopyNext
  <2>2. LocalTypes'
    BY <1>3, <1>6, <2>1 DEF CopyNext
  <2>3. SharedTypes'
    BY <1>6 DEF CopyNext, objects
  <2> QED BY <2>2, <2>3
<1>7. ASSUME NEW p \in Pids, RunsOff(p) PROVE LocalTypes' /\ SharedTypes'
  BY <1>1, <1>7 DEF RunsOff, objects
<1>8. ASSUME NEW p \in Pids, GetCurrent(p) \/ GetInstances(p) PROVE LocalTypes' /\ SharedTypes'
  BY <1>2, <1>8 DEF GetCurrent, GetInstances, objects
<1>9. ASSUME NEW p \in Pids, InstanceEnds(p) PROVE LocalTypes' /\ SharedTypes'
  BY <1>1, <1>9 DEF InstanceEnds
<1>10. ASSUME NEW p \in Pids, NEW q \in Pids, RemoveEnded(p, q) \/ RemoveOrphan(p, q)
       PROVE  LocalTypes' /\ SharedTypes'
  <2>1. LocalTypes' /\ slot' = slot
    BY <1>2, <1>10 DEF RemoveEnded, RemoveOrphan
  <2>2. SharedTypes'
    <3>1. CASE RemoveEnded(p, q)
      BY <2>1, <3>1 DEF RemoveEnded
    <3>2. CASE RemoveOrphan(p, q)
      BY <2>1, <3>2 DEF RemoveOrphan, objects
    <3> QED BY <1>10, <3>1, <3>2
  <2> QED BY <2>1, <2>2
<1>11. ASSUME NEW p \in Pids, NEW q \in Pids,
              WatchInstance(p, q) \/ ReleaseInstance(p, q) \/ WatcherFires(p, q)
       PROVE  LocalTypes' /\ SharedTypes'
  <2>1. LocalTypes'
    BY <1>11 DEF WatchInstance, ReleaseInstance, WatcherFires, local
  <2>2. CASE WatchInstance(p, q)
    BY <2>1, <2>2 DEF WatchInstance
  <2>3. CASE ReleaseInstance(p, q)
    BY <2>1, <2>3 DEF ReleaseInstance
  <2>4. CASE WatcherFires(p, q)
    BY <2>1, <2>4 DEF WatcherFires
  <2> QED BY <1>11, <2>2, <2>3, <2>4
<1>12. CASE UNCHANGED listVars
  BY <1>12 DEF listVars, local, objects
<1> QED BY <1>4, <1>5, <1>6, <1>7, <1>8, <1>9, <1>10, <1>11, <1>12 DEF ListNext, ListStep

\* The variables start with their types.
LEMMA ListInitTyped == ListInit => ListTypeOK
<1> SUFFICES ASSUME ListInit PROVE LocalTypes /\ SharedTypes
  BY ListTypes
<1>1. 1 \in 1 .. Size + 1
  BY SizeAssumption
<1>2. index \in [Pids -> 1 .. Size + 1]
  BY <1>1 DEF ListInit
<1>3. hit \in [Pids -> BOOLEAN] /\ raced \in BOOLEAN /\ \A p \in Pids : ~hit[p]
  BY DEF ListInit
<1>4. op \in [Pids -> {"none", "insert", "copy", "remove"}] /\ pid \in [Pids -> Pids]
  BY DEF ListInit
<1>5. SharedTypes
  BY DEF ListInit, SharedTypes
<1> QED BY <1>2, <1>3, <1>4, <1>5 DEF LocalTypes

\* The variables always have their types.
THEOREM ListTypeCorrect == ListSpec => []ListTypeOK
BY ListInitTyped, ListTypeStep, PTL DEF ListSpec

-----------------------------------------------------------------------------
(* Safety *)

\* Every step preserves the invariant, a step that begins an operation beside
\* another one included.
LEMMA ListInvariantStep == ListInv /\ [ListNext]_listVars => ListInv'
<1> SUFFICES ASSUME ListInv, [ListNext]_listVars PROVE ListInv'
  OBVIOUS
<1>0. LocalTypes /\ SharedTypes /\ ListTypeOK'
  BY ListTypeStep, ListTypes DEF ListInv
<1> USE <1>0, SizeAssumption, FreeAssumption DEF LocalTypes, SharedTypes
<1> USE DEF NewUnlisted, InsertsItself, RemovesEnded, Writing, ListedOnce, OneOperation,
            HitStands, RunningListed, ListedRan, Wanted
<1>1. ASSUME NEW p \in Pids, ReadSlot(p) PROVE ListInv'
  <2>1. UNCHANGED <<slot, phase, copied, due, op, pid, raced>>
    BY <1>1 DEF ReadSlot, objects
  <2>2. NewUnlisted' /\ InsertsItself' /\ RemovesEnded' /\ ListedOnce'
    BY <2>1 DEF ListInv
  <2>3. CASE slot[index[p]] = Wanted(p)
    <3>1. hit' = [hit EXCEPT ![p] = TRUE] /\ UNCHANGED index
      BY <1>1, <2>3 DEF ReadSlot
    <3>2. HitStands => HitStands'
      BY <2>1, <2>3, <3>1
    <3> QED BY <2>1, <2>2, <3>2 DEF ListInv
  <2>4. CASE slot[index[p]] # Wanted(p)
    <3>1. ~hit[p] /\ index' = [index EXCEPT ![p] = @ + 1] /\ UNCHANGED hit
      BY <1>1, <2>4 DEF ReadSlot
    <3>2. HitStands => HitStands'
      BY <2>1, <3>1
    <3> QED BY <2>1, <2>2, <3>2 DEF ListInv
  <2> QED BY <2>3, <2>4
<1>2. ASSUME NEW p \in Pids, StoreSlot(p) PROVE ListInv'
  BY <1>2 DEF StoreSlot, StoreAt, End, objects, ListInv
<1>3. ASSUME NEW p \in Pids, RunsOff(p) PROVE ListInv'
  BY <1>3 DEF RunsOff, End, objects, ListInv
<1>4. ASSUME NEW p \in Pids, NEW kind \in {"insert", "copy", "remove"}, NEW q \in Pids,
             Begin(p, kind, q), UNCHANGED phase,
             \A r \in Pids : copied'[r] \subseteq copied[r] /\ due'[r] \subseteq due[r],
             kind = "insert" => phase[p] = "new" /\ q = p,
             kind = "remove" => phase[q] = "ended"
      PROVE  ListInv'
  <2>1. ~raced' => ~raced /\ (kind # "copy" => \A r \in Pids \ {p} : ~Writing(r))
    BY <1>4 DEF Begin
  <2>2. NewUnlisted' /\ InsertsItself' /\ RemovesEnded' /\ ListedOnce'
    BY <1>4 DEF Begin, ListInv
  <2>3. ~raced' => OneOperation' /\ HitStands' /\ RunningListed' /\ ListedRan'
    BY <1>4, <2>1 DEF Begin, ListInv
  <2> QED BY <2>2, <2>3 DEF ListInv
<1>5. ASSUME NEW p \in Pids, InstanceEnds(p) PROVE ListInv'
  BY <1>5 DEF InstanceEnds, End, ListInv
<1>6. ASSUME NEW p \in Pids, CopyNext(p) PROVE ListInv'
  BY <1>6 DEF CopyNext, objects, ListInv
<1>7. ASSUME NEW p \in Pids, GetCurrent(p) \/ GetInstances(p) PROVE ListInv'
  BY <1>4, <1>7 DEF GetCurrent, GetInstances, objects
<1>8. ASSUME NEW p \in Pids, NEW q \in Pids, RemoveEnded(p, q) PROVE ListInv'
  <2>1. phase[q] = "ended"
    BY <1>8 DEF RemoveEnded, ListInv
  <2> QED BY <1>4, <1>8, <2>1 DEF RemoveEnded
<1>9. ASSUME NEW p \in Pids, NEW q \in Pids, RemoveOrphan(p, q) PROVE ListInv'
  <2>1. phase[q] = "ended"
    BY <1>9 DEF RemoveOrphan, Openable, ListInv
  <2> QED BY <1>4, <1>9, <2>1 DEF RemoveOrphan, objects
<1>10. ASSUME NEW p \in Pids, NEW q \in Pids, WatchInstance(p, q) \/ ReleaseInstance(p, q) PROVE ListInv'
  <2>1. UNCHANGED <<slot, phase, due, local, raced>>
    BY <1>10 DEF WatchInstance, ReleaseInstance
  <2>2. \A r \in Pids : copied'[r] \subseteq copied[r]
    <3>1. CASE WatchInstance(p, q)
      BY <3>1 DEF WatchInstance
    <3>2. CASE ReleaseInstance(p, q)
      BY <3>2 DEF ReleaseInstance
    <3> QED BY <1>10, <3>1, <3>2
  <2>3. UNCHANGED <<op, pid, index, hit>>
    BY <2>1 DEF local
  <2>4. NewUnlisted' /\ InsertsItself' /\ RemovesEnded' /\ ListedOnce'
    BY <2>1, <2>2, <2>3 DEF ListInv
  <2>5. ~raced' => OneOperation' /\ HitStands' /\ RunningListed' /\ ListedRan'
    BY <2>1, <2>3 DEF ListInv
  <2> QED BY <2>4, <2>5 DEF ListInv
<1>11. ASSUME NEW p \in Pids, NEW q \in Pids, WatcherFires(p, q) PROVE ListInv'
  BY <1>11 DEF WatcherFires, local, ListInv
<1>12. CASE UNCHANGED listVars
  BY <1>12 DEF listVars, local, objects, ListInv
<1> QED BY <1>1, <1>2, <1>3, <1>5, <1>6, <1>7, <1>8, <1>9, <1>10, <1>11, <1>12 DEF ListNext, ListStep

\* The invariant holds in every reachable state.
THEOREM ListInductiveInvariant == ListSpec => []ListInv
<1>1. ListInit => ListInv
  <2> SUFFICES ASSUME ListInit PROVE ListInv
    OBVIOUS
  <2> USE SizeAssumption, FreeAssumption DEF ListInit
  <2>1. ListTypeOK
    BY ListInitTyped
  <2>2. NewUnlisted /\ InsertsItself /\ RemovesEnded /\ ListedOnce
    BY DEF NewUnlisted, InsertsItself, RemovesEnded, ListedOnce
  <2>3. OneOperation /\ HitStands /\ RunningListed /\ ListedRan
    BY DEF OneOperation, Writing, HitStands, RunningListed, ListedRan
  <2> QED BY <2>1, <2>2, <2>3 DEF ListInv
<1> QED BY <1>1, ListInvariantStep, PTL DEF ListSpec

\* A process is listed once, and as long as no two wrote at once (SharedProcessList.h
\* excludes writers of one process only) the list holds every running instance and
\* otherwise only ended ones nobody has removed yet.
THEOREM ListIsConsistent == ListSpec => []ListConsistent
<1>1. ListInv => ListConsistent
  BY FreeAssumption, ListTypes
     DEF ListInv, ListConsistent, ListedUnlessRaced, Running, Listed, RunningListed, ListedRan, SharedTypes
<1> QED BY <1>1, ListInductiveInvariant, PTL

\* The id of an ended process that has left the list does not come back, whatever
\* operations were under way when it left: the safety part of EndedLeavesList.
EndedStaysOut == [][\A q \in Pids : phase[q] = "ended" /\ q \notin Listed => q \notin Listed']_listVars

THEOREM EndedNeverReturns == ListSpec => EndedStaysOut
<1>1. ListInv /\ [ListNext]_listVars => [\A q \in Pids : phase[q] = "ended" /\ q \notin Listed => q \notin Listed']_listVars
  <2> SUFFICES ASSUME ListInv, ListNext, NEW q \in Pids, phase[q] = "ended", q \notin Listed
               PROVE  q \notin Listed'
    OBVIOUS
  <2>0. SharedTypes
    BY ListTypes DEF ListInv
  <2>1. ASSUME NEW p \in Pids, StoreSlot(p) PROVE q \notin Listed'
    BY <2>0, <2>1, FreeAssumption DEF StoreSlot, StoreAt, Listed, ListInv, SharedTypes, InsertsItself
  <2>2. CASE slot' = slot
    BY <2>2 DEF Listed
  <2>3. slot' = slot \/ \E p \in Pids : StoreSlot(p)
    BY DEF ListNext, ListStep, ReadSlot, CopyNext, RunsOff, GetCurrent, GetInstances, InstanceEnds,
           WatchInstance, ReleaseInstance, WatcherFires, RemoveEnded, RemoveOrphan, Begin
  <2> QED BY <2>1, <2>2, <2>3
<1> QED BY <1>1, ListInductiveInvariant, PTL DEF ListSpec, EndedStaysOut
=============================================================================
