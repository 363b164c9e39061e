---------------------------- MODULE InstanceKeys ----------------------------
(***************************************************************************)
(* Instance keys (AppInstance.cpp): FindOrRegisterForKey and UnregisterKey *)
(* as the processes of one app run them against each other.                *)
(*                                                                         *)
(* Every process p has a data mutex and a key section, both named after    *)
(* its id; every key has a mutex, owned by the process that registered it. *)
(* A named object lives while some process has it open, so a section       *)
(* outlives its process in the AppInstance objects others keep.            *)
(*                                                                         *)
(* The list of instances is an array in a section of the app: processes    *)
(* insert themselves, copy it and remove others, each under its own data   *)
(* mutex, so that these overlap (InstanceList looks at that alone).  One   *)
(* thread of each process calls the API; its pool threads serve the waits  *)
(* for the end of others.  Process ids are not reused.                     *)
(***************************************************************************)
EXTENDS Naturals, FiniteSets

CONSTANTS
    Procs,          \* the processes of the app
    Keys,
    NoKey,          \* the empty key
    None,           \* no process; a null AppInstance; a free slot
    Pool,           \* a pool thread of the process, as the owner of its mutex
    Slots,          \* c_maxInstanceCount
    MaxCalls,       \* bound: process -> calls it makes of FindOrRegisterForKey
    Quitting,       \* processes that may end at any step
    Unregistering,  \* processes that call UnregisterKey
    Detaching       \* processes whose calling thread may end before them

ASSUME NoneAssumption == None \notin Procs /\ NoKey \notin Keys /\ Pool \notin Procs \cup {None}
ASSUME SlotAssumption == Slots \in Nat \ {0}
ASSUME CallsAssumption == MaxCalls \in [Procs -> Nat]
ASSUME FaultAssumption == Quitting \cup Unregistering \cup Detaching \subseteq Procs

VARIABLES
    life,       \* process -> "new", "starting", "storing", "up" or "ended"
    thread,     \* process -> is its calling thread still there?
    pids,       \* the shared list of instances
    at,         \* process -> the slot it reads or is about to fill
    clearing,   \* process -> the slot it is about to clear, or 0
    dataMutex,  \* process -> owner of its m_dataMutex
    keyMutex,   \* key -> owner of its m_keyCreationMutex
    ownKey,     \* process -> the key whose m_keyCreationMutexLock it holds
    named,      \* process -> does its own m_key still have a name?
    section,    \* process -> content of the section <process>_Key
    kept,       \* process -> instances its app keeps objects of
    pc, want, calls,    \* the call a process is in, its key, calls made
    todo, opening, made, checked,   \* locals: pids to open, the one open, objects
                                    \* made, those whose key did not match
    found,      \* what the last call returned
    past, steady    \* history, see Witness

sys == <<life, thread>>
list == <<pids, at, clearing>>
keyVars == <<keyMutex, ownKey, named>>
locals == <<todo, opening, made, checked>>
call == <<pc, want, calls, found>>
vars == <<sys, list, dataMutex, keyVars, section, kept, call, locals, past, steady>>

Up == {p \in Procs : life[p] = "up"}

\* Processes that have an AppInstance of q, hence its mutex, section and process.
Holders(q, up, k, m) == {p \in up : q \in k[p] \cup m[p]}

\* A section loses its content when the last process closes it.
Sweep(s, up, nm, k, m) ==
    [q \in Procs |-> IF (q \in up /\ nm[q]) \/ Holders(q, up, k, m) # {} THEN s[q] ELSE NoKey]

\* An abandoned mutex is free, and so is one that nobody has open any more.
FreeMutexes(mx, up, k, m) ==
    [q \in Procs |->
        IF \/ mx[q] \in up /\ (q \in up \/ Holders(q, up, k, m) # {})
           \/ mx[q] = Pool /\ q \in up
        THEN mx[q] ELSE None]

Init ==
    /\ life = [p \in Procs |-> "new"] /\ thread = [p \in Procs |-> TRUE]
    /\ pids = [i \in 1 .. Slots |-> None]
    /\ at = [p \in Procs |-> 1]
    /\ clearing = [p \in Procs |-> 0]
    /\ dataMutex = [p \in Procs |-> None]
    /\ keyMutex = [k \in Keys |-> None]
    /\ ownKey = [p \in Procs |-> NoKey]
    /\ named = [p \in Procs |-> FALSE]
    /\ section = [p \in Procs |-> NoKey]
    /\ kept = [p \in Procs |-> {}]
    /\ pc = [p \in Procs |-> "idle"]
    /\ want = [p \in Procs |-> NoKey]
    /\ calls = [p \in Procs |-> 0]
    /\ todo = [p \in Procs |-> {}]
    /\ opening = [p \in Procs |-> None]
    /\ made = [p \in Procs |-> {}]
    /\ checked = [p \in Procs |-> {}]
    /\ found = [p \in Procs |-> None]
    /\ past = [p \in Procs |-> {}] /\ steady = [p \in Procs |-> None]

Goto(p, l) == pc' = [pc EXCEPT ![p] = l]

InList == {pids[i] : i \in 1 .. Slots} \ {None}

\* History, kept by every step: who owned the wanted key during the call, and
\* who has owned it without a break since TrySetKey found it taken and was in
\* the list while GetInstances copied it.
Witness ==
    /\ past' = [p \in Procs |->
          IF pc'[p] = "idle" THEN past[p]
          ELSE (IF pc[p] = "idle" THEN {} ELSE past[p]) \cup ({keyMutex'[want'[p]]} \ {None})]
    /\ steady' = [p \in Procs |->
          CASE pc'[p] = "idle" -> steady[p]
            [] pc[p] = "try" /\ pc'[p] = "scan" -> keyMutex'[want'[p]]
            [] /\ pc[p] # "idle" /\ keyMutex'[want'[p]] = steady[p]
               /\ pc'[p] = "copy" => steady[p] \in InList' -> steady[p]
            [] OTHER -> None]

-----------------------------------------------------------------------------
(* GetCurrent: the constructor for the process itself.  It has the new data  *)
(* mutex, which nobody else knows of before the process is in the list.      *)

Start(p) ==
    /\ life[p] = "new"
    /\ life' = [life EXCEPT ![p] = "starting"]
    /\ UNCHANGED <<thread, list, dataMutex, keyVars, section, kept, call, locals>>
    /\ Witness

\* Insert looks for a free slot.  (InstanceList has the list that is full.)
InsertReads(p) ==
    /\ life[p] = "starting" /\ at[p] <= Slots
    /\ \/ pids[at[p]] = None /\ life' = [life EXCEPT ![p] = "storing"] /\ UNCHANGED at
       \/ pids[at[p]] # None /\ at' = [at EXCEPT ![p] = @ + 1] /\ UNCHANGED life
    /\ UNCHANGED <<thread, pids, clearing, dataMutex, keyVars, section, kept, call, locals>>
    /\ Witness

\* Others may have filled the slot since.
InsertStores(p) ==
    /\ life[p] = "storing"
    /\ pids' = [pids EXCEPT ![at[p]] = p]
    /\ life' = [life EXCEPT ![p] = "up"]
    /\ at' = [at EXCEPT ![p] = 1]
    /\ named' = [named EXCEPT ![p] = TRUE]
    /\ UNCHANGED <<thread, clearing, dataMutex, keyMutex, ownKey, section, kept, call, locals>>
    /\ Witness

-----------------------------------------------------------------------------
(* FindOrRegisterForKey *)

Call(p) ==
    /\ life[p] = "up" /\ thread[p] /\ pc[p] = "idle" /\ calls[p] < MaxCalls[p]
    /\ \E k \in Keys : want' = [want EXCEPT ![p] = k]
    /\ calls' = [calls EXCEPT ![p] = @ + 1]
    /\ found' = [found EXCEPT ![p] = None]
    /\ Goto(p, "lock")
    /\ UNCHANGED <<sys, list, dataMutex, keyVars, section, kept, locals>>
    /\ Witness

\* TrySetKey first takes the process's own data mutex ...
LockData(p) ==
    /\ pc[p] = "lock" /\ dataMutex[p] = None
    /\ dataMutex' = [dataMutex EXCEPT ![p] = p]
    /\ Goto(p, "try")
    /\ UNCHANGED <<sys, list, keyVars, section, kept, want, calls, found, locals>>
    /\ Witness

\* ... then tries the key's mutex without waiting.  The mutex of another key
\* the process held so far is released only once the new one is there.
AcquireKeyMutex(p) ==
    /\ pc[p] = "try" /\ keyMutex[want[p]] \in {None, p}
    /\ keyMutex' = [k \in Keys |->
          IF k = want[p] THEN p ELSE IF keyMutex[k] = p THEN None ELSE keyMutex[k]]
    /\ ownKey' = [ownKey EXCEPT ![p] = want[p]]
    /\ Goto(p, "write")
    /\ UNCHANGED <<sys, list, dataMutex, named, section, kept, want, calls, found, locals>>
    /\ Witness

\* Mutant: the data mutex is not released when the key is taken.
KeyMutexTakenLocked(p) ==
    /\ pc[p] = "try" /\ keyMutex[want[p]] \notin {None, p}
    /\ Goto(p, "scan")
    /\ UNCHANGED <<sys, list, dataMutex, keyVars, section, kept, want, calls, found, locals>>
    /\ Witness

KeyMutexTaken(p) ==
    /\ pc[p] = "try" /\ keyMutex[want[p]] \notin {None, p}
    /\ dataMutex' = [dataMutex EXCEPT ![p] = None]
    /\ Goto(p, "scan")
    /\ UNCHANGED <<sys, list, keyVars, section, kept, want, calls, found, locals>>
    /\ Witness

\* m_key.Resize reopens the section by the name the object has, and the key is
\* copied.  UnregisterKey erased that name: the new section is then unnamed.
WriteKey(p) ==
    /\ pc[p] = "write"
    /\ section' = IF named[p] THEN [section EXCEPT ![p] = want[p]] ELSE section
    /\ dataMutex' = [dataMutex EXCEPT ![p] = None]
    /\ found' = [found EXCEPT ![p] = p]
    /\ Goto(p, "idle")
    /\ UNCHANGED <<sys, list, keyVars, kept, want, calls, locals>>
    /\ Witness

-----------------------------------------------------------------------------
(* FindForKey: GetInstances, then the keys of what it found *)

CopyBegins(p) ==
    /\ pc[p] = "scan" /\ dataMutex[p] = None
    /\ dataMutex' = [dataMutex EXCEPT ![p] = p]
    /\ at' = [at EXCEPT ![p] = 1]
    /\ Goto(p, "copy")
    /\ UNCHANGED <<sys, pids, clearing, keyVars, section, kept, want, calls, found, locals>>
    /\ Witness

\* The object for the process itself is there; the mutex goes after the last slot.
CopySlot(p) ==
    LET q == pids[at[p]] IN
    /\ pc[p] = "copy"
    /\ todo' = [todo EXCEPT ![p] = @ \cup ({q} \ {None, p})]
    /\ made' = [made EXCEPT ![p] = @ \cup ({q} \cap {p})]
    /\ IF at[p] < Slots
       THEN at' = [at EXCEPT ![p] = @ + 1] /\ UNCHANGED <<pc, dataMutex>>
       ELSE /\ dataMutex' = [dataMutex EXCEPT ![p] = None]
            /\ at' = [at EXCEPT ![p] = 1]
            /\ Goto(p, "open")
    /\ UNCHANGED <<sys, pids, clearing, keyVars, section, kept, want, calls, found, opening, checked>>
    /\ Witness

\* An ended process can be opened while somebody has a handle of it.
CanOpen(q) == life[q] = "up" \/ Holders(q, Up, kept, made) # {}
                               \/ \E r \in Up : opening[r] = q

OpenProcess(p, q) ==
    /\ pc[p] = "open" /\ q \in todo[p] /\ opening[p] = None /\ CanOpen(q)
    /\ todo' = [todo EXCEPT ![p] = @ \ {q}]
    /\ opening' = [opening EXCEPT ![p] = q]
    /\ UNCHANGED <<sys, list, dataMutex, keyVars, section, kept, call, made, checked>>
    /\ Witness

\* Remove of q, under p's data mutex, which the step takes for its thread t.  An id
\* never comes back to the list, so that the search of the slots is one step: it
\* meets q where q is, or nowhere.
RemoveFinds(p, q, t) ==
    /\ dataMutex[p] = None
    /\ \E i \in 1 .. Slots : pids[i] = q /\ clearing' = [clearing EXCEPT ![p] = i]
    /\ dataMutex' = [dataMutex EXCEPT ![p] = t]
    /\ UNCHANGED <<pids, at>>

\* The slot that held the id may hold another one by now.
RemoveClears(p) ==
    /\ clearing[p] # 0
    /\ pids' = [pids EXCEPT ![clearing[p]] = None]
    /\ clearing' = [clearing EXCEPT ![p] = 0]
    /\ dataMutex' = [dataMutex EXCEPT ![p] = None]
    /\ pc' = [pc EXCEPT ![p] = IF @ = "orphan" THEN "open" ELSE @]
    /\ UNCHANGED <<sys, at, keyVars, section, kept, want, calls, found, locals>>
    /\ Witness

\* A process that cannot be opened is removed from the list.
DropOrphan(p, q) ==
    /\ pc[p] = "open" /\ q \in todo[p] /\ opening[p] = None /\ ~CanOpen(q)
    /\ todo' = [todo EXCEPT ![p] = @ \ {q}]
    /\ \/ RemoveFinds(p, q, p) /\ Goto(p, "orphan")
       \/ dataMutex[p] = None /\ q \notin InList /\ UNCHANGED <<list, dataMutex, pc>>
    /\ UNCHANGED <<sys, keyVars, section, kept, want, calls, found, opening, made, checked>>
    /\ Witness

\* The constructor for another process.  CREATE_MUTEX_INITIAL_OWNER gives the
\* mutex to whoever creates it: if q has ended and nobody else has its mutex,
\* that is p, which then acquires it again and releases it once.
MakeInstance(p) ==
    LET q == opening[p] IN
    /\ pc[p] = "open" /\ q # None
    /\ \/ /\ q \in Up \/ Holders(q, Up, kept, made) # {}
          /\ dataMutex[q] \in {None, p}
          /\ UNCHANGED dataMutex
       \/ /\ q \notin Up /\ Holders(q, Up, kept, made) = {}
          /\ dataMutex' = [dataMutex EXCEPT ![q] = p]
    /\ made' = [made EXCEPT ![p] = @ \cup {q}]
    /\ opening' = [opening EXCEPT ![p] = None]
    /\ UNCHANGED <<sys, list, keyVars, section, kept, call, todo, checked>>
    /\ Witness

\* Mutant: any key is taken for the wanted one.
KeyOfAny(p, q) == IF section[q] # NoKey THEN want[p] ELSE NoKey

\* Key(): a process's own object has none after UnregisterKey, the objects of
\* other processes always show what is in the section.
KeyOf(p, q) == IF q = p /\ ~named[p] THEN NoKey ELSE section[q]

\* The call returns q, or null: the app keeps q's object, the others go.
Return(p, q) ==
    /\ found' = [found EXCEPT ![p] = q]
    /\ kept' = [kept EXCEPT ![p] = @ \cup ({q} \ {p, None})]
    /\ made' = [made EXCEPT ![p] = {}]
    /\ checked' = [checked EXCEPT ![p] = {}]
    /\ section' = Sweep(section, Up, named, kept', made')
    /\ dataMutex' = FreeMutexes(dataMutex, Up, kept', made')
    /\ Goto(p, "idle")

\* One instance after the other, each key read under that instance's mutex.
CompareKey(p, q) ==
    /\ pc[p] = "open" /\ todo[p] = {} /\ opening[p] = None
    /\ q \in made[p] \ checked[p] /\ dataMutex[q] \in {None, p}
    /\ \/ KeyOf(p, q) = want[p] /\ Return(p, q)
       \/ /\ KeyOf(p, q) # want[p]
          /\ checked' = [checked EXCEPT ![p] = @ \cup {q}]
          /\ UNCHANGED <<pc, found, kept, made, section, dataMutex>>
    /\ UNCHANGED <<sys, list, keyVars, want, calls, todo, opening>>
    /\ Witness

NoneMatches(p) ==
    /\ pc[p] = "open" /\ todo[p] = {} /\ opening[p] = None
    /\ checked[p] = made[p]
    /\ Return(p, None)
    /\ UNCHANGED <<sys, list, keyVars, want, calls, todo, opening>>
    /\ Witness

-----------------------------------------------------------------------------
(* UnregisterKey, and what ends processes and their threads *)

\* Mutant: the lock is reset and its owner is not.
UnregisterKeyHalf(p) ==
    /\ p \in Unregistering
    /\ life[p] = "up" /\ thread[p] /\ pc[p] = "idle" /\ dataMutex[p] = None
    /\ named[p]
    /\ named' = [named EXCEPT ![p] = FALSE]
    /\ section' = Sweep(section, Up, named', kept, made)
    /\ keyMutex' = [k \in Keys |-> IF keyMutex[k] = p THEN None ELSE keyMutex[k]]
    /\ UNCHANGED <<sys, list, dataMutex, ownKey, kept, call, locals>>
    /\ Witness

UnregisterKey(p) ==
    /\ p \in Unregistering
    /\ life[p] = "up" /\ thread[p] /\ pc[p] = "idle" /\ dataMutex[p] = None
    /\ named[p]     \* a second call changes nothing
    /\ named' = [named EXCEPT ![p] = FALSE]
    /\ section' = Sweep(section, Up, named', kept, made)
    /\ keyMutex' = [k \in Keys |-> IF keyMutex[k] = p THEN None ELSE keyMutex[k]]
    /\ ownKey' = [ownKey EXCEPT ![p] = NoKey]
    /\ UNCHANGED <<sys, list, dataMutex, kept, call, locals>>
    /\ Witness

\* The app lets go of the objects it kept.
ReleaseInstances(p) ==
    /\ life[p] = "up" /\ kept[p] # {}
    /\ kept' = [kept EXCEPT ![p] = {}]
    /\ section' = Sweep(section, Up, named, kept', made)
    /\ dataMutex' = FreeMutexes(dataMutex, Up, kept', made)
    /\ UNCHANGED <<sys, list, keyVars, call, locals>>
    /\ Witness

\* The termination watcher of an object p has of q, on a thread of its own.
RemoveInstance(p, q) ==
    /\ life[p] = "up" /\ q \in kept[p] \cup made[p] /\ life[q] = "ended"
    /\ RemoveFinds(p, q, Pool)
    /\ UNCHANGED <<sys, keyVars, section, kept, call, locals>>
    /\ Witness

ProcessEnds(p) ==
    /\ p \in Quitting /\ life[p] \in {"starting", "storing", "up"}
    /\ life' = [life EXCEPT ![p] = "ended"]
    /\ clearing' = [clearing EXCEPT ![p] = 0]
    /\ at' = [at EXCEPT ![p] = 1]
    /\ Goto(p, "idle")
    /\ keyMutex' = [k \in Keys |-> IF keyMutex[k] = p THEN None ELSE keyMutex[k]]
    /\ ownKey' = [ownKey EXCEPT ![p] = NoKey]
    /\ kept' = [kept EXCEPT ![p] = {}]
    /\ todo' = [todo EXCEPT ![p] = {}]
    /\ opening' = [opening EXCEPT ![p] = None]
    /\ made' = [made EXCEPT ![p] = {}]
    /\ checked' = [checked EXCEPT ![p] = {}]
    /\ section' = Sweep(section, Up \ {p}, named, kept', made')
    /\ dataMutex' = FreeMutexes(dataMutex, Up \ {p}, kept', made')
    /\ UNCHANGED <<thread, pids, named, want, calls, found>>
    /\ Witness

\* A mutex belongs to a thread: the key's is abandoned with the thread that
\* registered it, while the process and its AppInstance live on.
ThreadEnds(p) ==
    /\ p \in Detaching /\ life[p] = "up" /\ thread[p] /\ pc[p] = "idle"
    /\ thread' = [thread EXCEPT ![p] = FALSE]
    /\ keyMutex' = [k \in Keys |-> IF keyMutex[k] = p THEN None ELSE keyMutex[k]]
    /\ dataMutex' = [q \in Procs |-> IF dataMutex[q] = p THEN None ELSE dataMutex[q]]
    /\ UNCHANGED <<life, list, ownKey, named, section, kept, call, locals>>
    /\ Witness

-----------------------------------------------------------------------------
FindOrRegisterForKey(p) ==
    \/ LockData(p) \/ AcquireKeyMutex(p) \/ KeyMutexTaken(p) \/ WriteKey(p)
    \/ CopyBegins(p) \/ CopySlot(p) \/ MakeInstance(p) \/ NoneMatches(p)
    \/ \E q \in Procs : OpenProcess(p, q) \/ DropOrphan(p, q) \/ CompareKey(p, q)

Next == \E p \in Procs :
    \/ Start(p) \/ InsertReads(p) \/ InsertStores(p) \/ Call(p) \/ FindOrRegisterForKey(p)
    \/ UnregisterKey(p) \/ ReleaseInstances(p)
    \/ RemoveClears(p) \/ \E q \in Procs : RemoveInstance(p, q)
    \/ ProcessEnds(p) \/ ThreadEnds(p)

Spec == Init /\ [][Next]_vars

-----------------------------------------------------------------------------
(* Properties *)

TypeOK ==
    /\ life \in [Procs -> {"new", "starting", "storing", "up", "ended"}]
    /\ thread \in [Procs -> BOOLEAN]
    /\ pids \in [1 .. Slots -> Procs \cup {None}]
    /\ at \in [Procs -> 1 .. Slots + 1]
    /\ clearing \in [Procs -> 0 .. Slots]
    /\ dataMutex \in [Procs -> Procs \cup {None, Pool}]
    /\ keyMutex \in [Keys -> Procs \cup {None}]
    /\ ownKey \in [Procs -> Keys \cup {NoKey}]
    /\ named \in [Procs -> BOOLEAN]
    /\ section \in [Procs -> Keys \cup {NoKey}]
    /\ kept \in [Procs -> SUBSET Procs]
    /\ pc \in [Procs -> {"idle", "lock", "try", "write", "scan", "copy", "open", "orphan"}]
    /\ want \in [Procs -> Keys \cup {NoKey}]
    /\ calls \in [Procs -> Nat] /\ \A p \in Procs : calls[p] <= MaxCalls[p]
    /\ todo \in [Procs -> SUBSET Procs]
    /\ opening \in [Procs -> Procs \cup {None}]
    /\ made \in [Procs -> SUBSET Procs]
    /\ checked \in [Procs -> SUBSET Procs]
    /\ found \in [Procs -> Procs \cup {None}]
    /\ past \in [Procs -> SUBSET Procs]
    /\ steady \in [Procs -> Procs \cup {None}]
    /\ \A p \in Procs : pc[p] = "idle" =>
          todo[p] = {} /\ opening[p] = None /\ made[p] = {} /\ checked[p] = {}

\* A key is registered for one instance: two processes hold the lock of the
\* same key only if the thread that took one of them is gone.
KeyHeldOnce ==
    \A p, q \in Up :
        p # q /\ thread[p] /\ thread[q] /\ ownKey[p] # NoKey => ownKey[p] # ownKey[q]

\* An instance is intact while its process runs, the thread that registers keys
\* is there and its key section has a name: what the API's promises rest on.
Intact(p) == p \in Up /\ thread[p] /\ named[p]

\* Two intact instances that are not in the middle of TrySetKey never show the
\* same key to others: a key is given up before somebody else gets it.
VisibleKeysDistinct ==
    \A p, q \in Procs :
        /\ p # q /\ Intact(p) /\ Intact(q)
        /\ dataMutex[p] = None /\ dataMutex[q] = None /\ section[p] # NoKey
        => section[p] # section[q]

\* An intact instance that registered a key shows it: m_dataMutex hides the
\* moment at which the key's mutex is taken and the key is not written yet.
OwnedKeyShown ==
    \A p \in Procs : Intact(p) /\ ownKey[p] # NoKey /\ dataMutex[p] = None
        => section[p] = ownKey[p]

\* Keys are owned once and what is owned is shown.
KeyOwnership == TypeOK /\ KeyHeldOnce /\ VisibleKeysDistinct /\ OwnedKeyShown

\* The instance a call returns owned the key at some moment of the call, or it
\* is one that has ended, has unregistered or has lost its thread since it did.
FoundOwnedKey ==
    \A p \in Up : pc[p] = "idle" /\ found[p] # None /\ Intact(found[p])
        => found[p] \in past[p]

\* An intact instance that owned the key all the while the search ran, and that the
\* list did not lose before it was copied, is found, unless an instance comes before
\* it that only looks like an owner.
SteadyOwnerFound ==
    \A p \in Up :
        pc[p] = "idle" /\ found[p] # p /\ steady[p] # None /\ Intact(steady[p])
        => found[p] = steady[p] \/ (found[p] # None /\ ~Intact(found[p]))

\* A search returns an owner and overlooks none.
FindCorrect == FoundOwnedKey /\ SteadyOwnerFound

\* Nobody waits for anything while he has the data mutex of a running process: that
\* is the process itself, in TrySetKey, where it takes the key's mutex without waiting,
\* or at the list, by the thread that calls the API or by one of the pool.  It lets go
\* of its own mutex before it looks at the others'.  So no circle of waiters can close.
HoldersNeverWait ==
    \A q \in Up : dataMutex[q] # None =>
        \/ dataMutex[q] = q /\ pc[q] \in {"try", "write", "copy", "orphan"}
        \/ dataMutex[q] = Pool /\ clearing[q] # 0
=============================================================================
