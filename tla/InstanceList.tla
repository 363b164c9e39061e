---------------------------- MODULE InstanceList ----------------------------
(***************************************************************************)
(* The list of an app's running instances: SharedProcessList.h, an array   *)
(* of process ids in a section that all processes of the app share, and    *)
(* the places in AppInstance.cpp that insert into it, copy it and remove   *)
(* from it.                                                                *)
(*                                                                         *)
(* An operation runs under the m_dataMutex of the process that performs it *)
(* and so excludes the other operations of that process only: between the  *)
(* read of a slot and the store into it other processes may act.           *)
(***************************************************************************)
EXTENDS Naturals, FiniteSets

CONSTANTS
    Pids,       \* processes of the app, each with an id of its own
    Free,       \* 0: a slot nobody uses
    Size,       \* c_maxInstanceCount
    Ending,     \* processes that may end
    Looking     \* processes that call GetInstances

ASSUME FreeAssumption == Free \notin Pids
ASSUME SizeAssumption == Size \in Nat \ {0}

VARIABLES
    slot,       \* the shared array
    phase,      \* process -> "new", "up" or "ended"
    watches,    \* process -> processes it has an AppInstance of
    told,       \* ... those of them whose one callback has been made
    due,        \* ... processes a callback on a pool thread is to remove
    copied,     \* ... ids GetInstances has copied and not looked at yet
    op,         \* process -> the list operation it is in, or "none"
    pid,        \* ... the process id it inserts or removes
    index,      \* ... the slot it looks at
    hit,        \* ... has it read what it looks for there?
    raced       \* history: writers of different processes overlapped

local == <<op, pid, index, hit>>
objects == <<watches, told, due>>
listVars == <<slot, phase, objects, copied, local, raced>>

Running == {p \in Pids : phase[p] = "up"}

ListInit ==
    /\ slot = [i \in 1 .. Size |-> Free]
    /\ phase = [p \in Pids |-> "new"]
    /\ watches = [p \in Pids |-> {}] /\ told = watches /\ due = watches
    /\ copied = [p \in Pids |-> {}]
    /\ op = [p \in Pids |-> "none"]
    /\ pid = [p \in Pids |-> p]
    /\ index = [p \in Pids |-> 1]
    /\ hit = [p \in Pids |-> FALSE]
    /\ raced = FALSE

Begin(p, kind, q) ==
    /\ op[p] = "none"
    /\ op' = [op EXCEPT ![p] = kind]
    /\ pid' = [pid EXCEPT ![p] = q]
    /\ index' = [index EXCEPT ![p] = 1]
    /\ hit' = [hit EXCEPT ![p] = FALSE]
    /\ raced' = (raced \/ (kind # "copy" /\ \E r \in Pids \ {p} : op[r] \in {"insert", "remove"}))
    /\ UNCHANGED slot

End(p) ==
    /\ op' = [op EXCEPT ![p] = "none"]
    /\ pid' = [pid EXCEPT ![p] = p]
    /\ index' = [index EXCEPT ![p] = 1]
    /\ hit' = [hit EXCEPT ![p] = FALSE]

-----------------------------------------------------------------------------
(* The list's own operations, a slot at a time *)

\* What Insert stops at is a free slot, what Remove stops at is the pid.
Wanted(p) == IF op[p] = "insert" THEN Free ELSE pid[p]

ReadSlot(p) ==
    /\ op[p] \in {"insert", "remove"} /\ ~hit[p] /\ index[p] <= Size
    /\ op[p] = "insert" => slot[index[p]] # p       \* else E_UNEXPECTED: pids are unique here
    /\ \/ slot[index[p]] = Wanted(p) /\ hit' = [hit EXCEPT ![p] = TRUE] /\ UNCHANGED index
       \/ slot[index[p]] # Wanted(p) /\ index' = [index EXCEPT ![p] = @ + 1] /\ UNCHANGED hit
    /\ UNCHANGED <<slot, phase, objects, copied, op, pid, raced>>

\* What a store leaves: an insert is the end of the process's own constructor.
StoreAt(p, i) ==
    /\ hit[p] /\ op[p] # "none"
    /\ slot' = [slot EXCEPT ![i] = IF op[p] = "insert" THEN p ELSE Free]
    /\ phase' = IF op[p] = "insert" THEN [phase EXCEPT ![p] = "up"] ELSE phase
    /\ UNCHANGED <<objects, copied, raced>>

\* Mutant: Insert goes on after the first free slot.
StoreSlotGoesOn(p) ==
    /\ StoreAt(p, index[p])
    /\ IF op[p] = "insert" /\ index[p] < Size
       THEN /\ hit' = [hit EXCEPT ![p] = FALSE] /\ index' = [index EXCEPT ![p] = @ + 1]
            /\ UNCHANGED <<op, pid>>
       ELSE End(p)

\* Mutant: Remove clears the slot after the one it found.
StoreSlotNext(p) ==
    /\ StoreAt(p, IF op[p] = "insert" THEN index[p] ELSE 1 + (index[p] % Size))
    /\ End(p)

StoreSlot(p) == StoreAt(p, index[p]) /\ End(p)

\* GetInstances copies the ids it meets, its own for the object it has already.
CopyNext(p) ==
    /\ op[p] = "copy" /\ index[p] <= Size
    /\ copied' = [copied EXCEPT ![p] = @ \cup ({slot[index[p]]} \ {Free, p})]
    /\ index' = [index EXCEPT ![p] = @ + 1]
    /\ UNCHANGED <<slot, phase, objects, op, pid, hit, raced>>

\* Insert into a full list throws E_OUTOFMEMORY, and the next GetCurrent tries
\* again; Remove returns; the copy is complete.
RunsOff(p) ==
    /\ op[p] # "none" /\ index[p] > Size
    /\ End(p)
    /\ UNCHANGED <<slot, phase, objects, copied, raced>>

-----------------------------------------------------------------------------
(* Who performs them *)

\* GetCurrent: the constructor of the process's own instance.
GetCurrent(p) ==
    /\ phase[p] = "new"
    /\ Begin(p, "insert", p)
    /\ UNCHANGED <<phase, objects, copied>>

\* GetInstances copies the list under the process's mutex ...
GetInstances(p) ==
    /\ p \in Looking /\ phase[p] = "up" /\ copied[p] = {}
    /\ Begin(p, "copy", p)
    /\ UNCHANGED <<phase, objects, copied>>

\* ... and makes objects without it.  An ended process can be opened while some
\* object's handle keeps it.
Openable(q) == phase[q] = "up" \/ \E r \in Running : q \in watches[r]

\* The constructor for another process, under that one's mutex: it registers a
\* wait for the end of the process, whose callback is made once.
WatchInstance(p, q) ==
    /\ op[p] # "copy" /\ q \in copied[p] /\ Openable(q) /\ op[q] = "none"
    /\ copied' = [copied EXCEPT ![p] = @ \ {q}]
    /\ watches' = [watches EXCEPT ![p] = @ \cup {q}]
    /\ told' = [told EXCEPT ![p] = @ \ {q}]
    /\ UNCHANGED <<slot, phase, due, local, raced>>

\* The id of an ended process that cannot be opened is removed.
RemoveOrphan(p, q) ==
    /\ q \in copied[p] /\ ~Openable(q)
    /\ Begin(p, "remove", q)
    /\ copied' = [copied EXCEPT ![p] = @ \ {q}]
    /\ UNCHANGED <<phase, objects>>

\* The app releases its objects of q: the destructor unregisters their waits,
\* which does not stop a callback that is under way.
ReleaseInstance(p, q) ==
    /\ q \in watches[p]
    /\ watches' = [watches EXCEPT ![p] = @ \ {q}]
    /\ told' = [told EXCEPT ![p] = @ \ {q}]
    /\ UNCHANGED <<slot, phase, due, copied, local, raced>>

\* The waits of all processes that have an object of q are satisfied when q ends.
WatcherFires(p, q) ==
    /\ q \in watches[p] \ told[p] /\ phase[q] = "ended"
    /\ told' = [told EXCEPT ![p] = @ \cup {q}]
    /\ due' = [due EXCEPT ![p] = @ \cup {q}]
    /\ UNCHANGED <<slot, phase, watches, copied, local, raced>>

\* RemoveInstance, on the pool thread of the callback.
RemoveEnded(p, q) ==
    /\ q \in due[p]
    /\ Begin(p, "remove", q)
    /\ due' = [due EXCEPT ![p] = @ \ {q}]
    /\ UNCHANGED <<phase, watches, told, copied>>

InstanceEnds(p) ==
    /\ p \in Ending /\ phase[p] = "up"
    /\ phase' = [phase EXCEPT ![p] = "ended"]
    /\ watches' = [watches EXCEPT ![p] = {}]
    /\ told' = [told EXCEPT ![p] = {}]
    /\ due' = [due EXCEPT ![p] = {}]
    /\ copied' = [copied EXCEPT ![p] = {}]
    /\ End(p)
    /\ UNCHANGED <<slot, raced>>

-----------------------------------------------------------------------------
ListStep(p) == ReadSlot(p) \/ StoreSlot(p) \/ CopyNext(p) \/ RunsOff(p)

ListNext == \E p \in Pids :
    \/ ListStep(p) \/ GetCurrent(p) \/ GetInstances(p) \/ InstanceEnds(p)
    \/ \E q \in Pids : \/ WatchInstance(p, q) \/ RemoveOrphan(p, q) \/ ReleaseInstance(p, q)
                       \/ WatcherFires(p, q) \/ RemoveEnded(p, q)

ListSpec == ListInit /\ [][ListNext]_listVars

\* In a process that lasts, started operations go on, the waits' callbacks are made,
\* and who waits for its mutex gets it in its turn, however often others take it before.
ListFairness ==
    \A p \in Pids \ Ending :
        /\ WF_listVars(ListStep(p))
        /\ \A q \in Pids : WF_listVars(WatcherFires(p, q)) /\ SF_listVars(RemoveEnded(p, q))

FairListSpec == ListSpec /\ ListFairness

-----------------------------------------------------------------------------
(* Properties *)

Listed == {slot[i] : i \in 1 .. Size} \ {Free}

ListTypeOK ==
    /\ slot \in [1 .. Size -> Pids \cup {Free}]
    /\ phase \in [Pids -> {"new", "up", "ended"}]
    /\ \A s \in {watches, told, due, copied} : s \in [Pids -> SUBSET Pids]
    /\ op \in [Pids -> {"none", "insert", "copy", "remove"}]
    /\ pid \in [Pids -> Pids]
    /\ index \in [Pids -> 1 .. Size + 1]
    /\ hit \in [Pids -> BOOLEAN]
    /\ raced \in BOOLEAN
    /\ \A p \in Pids : hit[p] => index[p] <= Size /\ op[p] \in {"insert", "remove"}

\* As long as no two processes wrote to the list at once, it holds exactly the
\* running instances and ended ones that nobody has removed yet.
ListedUnlessRaced ==
    ~raced => Running \subseteq Listed /\ Listed \subseteq {p \in Pids : phase[p] \in {"up", "ended"}}

\* A process is in the list once, however inserts and removals interleave.
ListedOnce == \A i, j \in 1 .. Size : slot[i] = slot[j] /\ slot[i] # Free => i = j

\* The list holds the running instances, once each.
ListConsistent == ListTypeOK /\ ListedUnlessRaced /\ ListedOnce

\* An ended process leaves the list for good if a lasting process has an object of
\* it and does not release that before its wait is served.
EndedLeavesList ==
    \A p \in Pids \ Ending, q \in Pids :
        phase[q] = "ended" /\ q \in watches[p]
            ~> ([](q \notin Listed) \/ q \notin watches[p])
=============================================================================
