-------------------------- MODULE DependencyStore --------------------------
(* The package dependencies of the Dynamic Dependency API: the list every  *)
(* process keeps in memory and the file a dependency has in the data store *)
(* when it is to outlive its process.  A dependency is in one file at most *)
(* (its id is a new GUID), so the two folders Load and Delete look into,   *)
(* the user's before the system's, are one here.                           *)
(*   src/dev/DynamicDependency/API/PackageDependencyManager.cpp            *)
(*   src/dev/DynamicDependency/API/DataStore.cpp                           *)
EXTENDS Integers, Sequences, SequencesExt

CONSTANTS
  Process, Thread,
  Owner,       \* the process of every thread
  Id,          \* the ids GenerateId may return
  None,        \* no id, no process and no thread
  Error,       \* what a lookup that throws returns
  MaxCalls,    \* calls a thread makes: [Thread -> Nat]
  Definition,  \* what Create is asked for: kind of lifetime, for a user or the system
  MaxEnds      \* times a process ends or power is lost

ASSUME StoreAssumption ==
  /\ Owner \in [Thread -> Process]
  /\ None \notin Process \cup Thread \cup Id
  /\ Error \notin Id \cup {None}
  /\ MaxCalls \in [Thread -> Nat]
  /\ Definition \subseteq [kind : {"Process", "Artifact"}, user : BOOLEAN]
  /\ MaxEnds \in Nat

VARIABLES
  list,      \* g_packageDependencies of every process
  lock,      \* the holder of g_lock
  graph,     \* the holder of PackageGraphManager::s_lock
  disk,      \* the file of every id: "absent", "empty" or "whole"
  flushed,   \* the ids whose file a loss of power does not touch any more
  expired,   \* the ids whose lifetime artifact is gone
  made,      \* what became of every id
  call,      \* the call every thread is in
  calls,     \* calls every thread has left
  ends       \* ends of a process left

vars == <<list, lock, graph, disk, flushed, expired, made, call, calls, ends>>

Idle == [op |-> "None", at |-> "idle", id |-> None, user |-> FALSE,
         index |-> 0, raced |-> FALSE, found |-> None]
Unborn == [state |-> "unborn", by |-> None, kind |-> "Process", user |-> FALSE, gone |-> {}]

Init ==
  /\ list = [p \in Process |-> <<>>]
  /\ lock = [p \in Process |-> None]
  /\ graph = [p \in Process |-> None]
  /\ disk = [i \in Id |-> "absent"]
  /\ flushed = {} /\ expired = {}
  /\ made = [i \in Id |-> Unborn]
  /\ call = [t \in Thread |-> Idle]
  /\ calls = MaxCalls /\ ends = MaxEnds

(* An id is known to a caller once Create returned it. *)
Known == {i \in Id : made[i].state \notin {"unborn", "saving", "failed"}}

(* Another handle on the file of i is open: it shares reading only. *)
OpenByOther(t, i) == \E u \in Thread \ {t} : call[u].at = "read" /\ call[u].id = i

(* A thread that is in the list: it goes through it or has a pointer into it. *)
InList(t) == call[t].at \in {"search", "use"}

(* What another thread does to the list moves what there is to see in it.  *)
Raced(p) ==
  [u \in Thread |-> [call[u] EXCEPT !.raced = @ \/ (Owner[u] = p /\ InList(u))]]

Positions(l, i) == {k \in 1..Len(l) : l[k].id = i}
First(s) == CHOOSE k \in s : \A j \in s : k <= j

(* Begin a call; the threads of a process make theirs side by side. *)
Enter(t, c) ==
  /\ call[t].at = "idle" /\ calls[t] > 0
  /\ calls' = [calls EXCEPT ![t] = @ - 1]
  /\ call' = [call EXCEPT ![t] = c]

GoTo(t, step) == call' = [call EXCEPT ![t].at = step]

Found(t, result) == call' = [call EXCEPT ![t].at = "done", ![t].found = result]

-----------------------------------------------------------------------------
(* CreatePackageDependency: a dependency that ends with its process is not *)
(* saved; the file of another is created empty.  A Verify or an open that  *)
(* fails leaves nothing behind and is no step.                             *)
CreatePackageDependency(t, i, d) ==
  /\ made[i].state = "unborn"
  /\ Enter(t, [Idle EXCEPT !.op = "Create", !.id = i,
                           !.at = IF d.kind = "Process" THEN "push" ELSE "write"])
  /\ made' = [made EXCEPT ![i] = [state |-> "saving", by |-> Owner[t], kind |-> d.kind,
                                  user |-> d.user, gone |-> {}]]
  /\ disk' = [disk EXCEPT ![i] = IF d.kind = "Process" THEN "absent" ELSE "empty"]
  /\ UNCHANGED <<list, lock, graph, flushed, expired, ends>>

(* Mutant: Save does not look at what WriteFile returns. *)
WriteFileUnchecked(t) ==
  /\ call[t].at = "write"
  /\ \E written \in {"empty", "whole"} : disk' = [disk EXCEPT ![call[t].id] = written]
  /\ GoTo(t, "push")
  /\ UNCHANGED <<list, lock, graph, flushed, expired, made, calls, ends>>

(* Save writes the file, which is still outside g_lock. *)
WriteFile(t) ==
  /\ call[t].at = "write"
  /\ \/ /\ disk' = [disk EXCEPT ![call[t].id] = "whole"]
        /\ GoTo(t, "push")
        /\ UNCHANGED made
     \/ /\ made' = [made EXCEPT ![call[t].id].state = "failed"]
        /\ call' = [call EXCEPT ![t] = Idle]
        /\ UNCHANGED disk
  /\ UNCHANGED <<list, lock, graph, flushed, expired, calls, ends>>

Entry(i) == [id |-> i, user |-> made[i].user]

(* Mutant: Create takes g_lock after push_back. *)
PushUnlocked(t) ==
  LET p == Owner[t]
      i == call[t].id
  IN /\ call[t].at = "push"
     /\ list' = [list EXCEPT ![p] = Append(@, Entry(i))]
     /\ made' = [made EXCEPT ![i].state = "handed"]
     /\ call' = [Raced(p) EXCEPT ![t] = Idle]
     /\ UNCHANGED <<lock, graph, disk, flushed, expired, calls, ends>>

(* The new dependency joins the list under g_lock, and its id is returned. *)
Push(t) ==
  LET p == Owner[t]
      i == call[t].id
  IN /\ call[t].at = "push" /\ lock[p] = None
     /\ list' = [list EXCEPT ![p] = Append(@, Entry(i))]
     /\ made' = [made EXCEPT ![i].state = "handed"]
     /\ call' = [Raced(p) EXCEPT ![t] = Idle]
     /\ UNCHANGED <<lock, graph, disk, flushed, expired, calls, ends>>

-----------------------------------------------------------------------------
(* Two ways into GetPackageDependency: the package graph comes under its   *)
(* own s_lock, which is not the list's lock; Exists comes under g_lock.    *)
Resolve(t, i) ==
  /\ graph[Owner[t]] = None /\ i \in Known
  /\ graph' = [graph EXCEPT ![Owner[t]] = t]
  /\ Enter(t, [Idle EXCEPT !.op = "Resolve", !.at = "search", !.id = i, !.index = 1])
  /\ UNCHANGED <<list, lock, disk, flushed, expired, made, ends>>

ExistsPackageDependency(t, i, user) ==
  /\ lock[Owner[t]] = None /\ i \in Known
  /\ lock' = [lock EXCEPT ![Owner[t]] = t]
  /\ Enter(t, [Idle EXCEPT !.op = "Exists", !.at = "search", !.id = i, !.user = user,
                           !.index = 1])
  /\ UNCHANGED <<list, graph, disk, flushed, expired, made, ends>>

(* GetPackageDependencyInMemory compares one entry after the other and     *)
(* returns a pointer to the one it looks for.  In a list that was changed  *)
(* meanwhile it may see anything.                                          *)
GetPackageDependencyInMemory(t) ==
  LET c == call[t]
      l == list[Owner[t]]
      inside == c.index <= Len(l)
  IN /\ c.at = "search"
     /\ \/ /\ c.raced \/ (inside /\ l[c.index].id = c.id)
           /\ GoTo(t, "use")
        \/ /\ c.raced \/ ~inside
           /\ GoTo(t, "open")
        \/ /\ ~c.raced /\ inside /\ l[c.index].id # c.id
           /\ call' = [call EXCEPT ![t].index = @ + 1]
     /\ UNCHANGED <<list, lock, graph, disk, flushed, expired, made, calls, ends>>

(* The caller reads through the pointer: the dependency it was given, or   *)
(* whatever is there when the list moved.                                  *)
Use(t) ==
  LET c == call[t]
      there == list[Owner[t]][c.index]
  IN /\ c.at = "use"
     /\ \/ /\ ~c.raced
           /\ Found(t, IF c.op = "Exists" /\ there.user # c.user THEN None ELSE there.id)
        \/ /\ c.raced
           /\ \E anything \in Id \cup {None} : Found(t, anything)
     /\ UNCHANGED <<list, lock, graph, disk, flushed, expired, made, calls, ends>>

(* Load opens the file. *)
OpenFileIfExists(t) ==
  /\ call[t].at = "open"
  /\ IF disk[call[t].id] = "absent" THEN Found(t, None) ELSE GoTo(t, "read")
  /\ UNCHANGED <<list, lock, graph, disk, flushed, expired, made, calls, ends>>

(* FromJSON restores everything but the id and the user. *)
FromJSON(i) == [id |-> None, user |-> FALSE]

(* Load reads the file and closes it; an empty one is to be removed.  What *)
(* has no id counts as not found; anything else would be deleted when its  *)
(* artifact is gone and joins the list otherwise, with no lock of its own. *)
ReadFile(t) ==
  LET p == Owner[t]
      i == call[t].id
      loaded == FromJSON(i)
  IN /\ call[t].at = "read"
     /\ IF disk[i] = "empty"
        THEN GoTo(t, "fix") /\ UNCHANGED <<list, disk>>
        ELSE IF loaded.id = None
        THEN Found(t, None) /\ UNCHANGED <<list, disk>>
        ELSE IF i \in expired
        THEN Found(t, None) /\ disk' = [disk EXCEPT ![i] = "absent"] /\ UNCHANGED list
        ELSE /\ list' = [list EXCEPT ![p] = Append(@, loaded)]
             /\ call' = [Raced(p) EXCEPT ![t].at = "use", ![t].index = Len(list[p]) + 1]
             /\ UNCHANGED disk
     /\ UNCHANGED <<lock, graph, flushed, expired, made, calls, ends>>

(* Load removes the empty file, which fails while another reader has it. *)
FixEmptyFile(t) ==
  LET i == call[t].id
  IN /\ call[t].at = "fix"
     /\ \/ /\ OpenByOther(t, i)
           /\ Found(t, Error)
           /\ UNCHANGED disk
        \/ /\ ~OpenByOther(t, i)
           /\ disk' = [disk EXCEPT ![i] = "absent"]
           /\ Found(t, None)
     /\ UNCHANGED <<list, lock, graph, flushed, expired, made, calls, ends>>

(* The lookup is over. *)
Return(t) ==
  /\ call[t].at = "done"
  /\ call' = [call EXCEPT ![t] = Idle]
  /\ lock' = [lock EXCEPT ![Owner[t]] = IF @ = t THEN None ELSE @]
  /\ graph' = [graph EXCEPT ![Owner[t]] = IF @ = t THEN None ELSE @]
  /\ UNCHANGED <<list, disk, flushed, expired, made, calls, ends>>

-----------------------------------------------------------------------------
(* DeletePackageDependency holds g_lock to its end. *)
DeletePackageDependency(t, i) ==
  /\ lock[Owner[t]] = None /\ i \in Known
  /\ lock' = [lock EXCEPT ![Owner[t]] = t]
  /\ made' = [made EXCEPT ![i].state = "deleting"]
  /\ Enter(t, [Idle EXCEPT !.op = "Delete", !.at = "erase", !.id = i])
  /\ UNCHANGED <<list, graph, disk, flushed, expired, ends>>

(* Mutant: Delete starts its search at the second entry. *)
EraseSkipsFirst(t) ==
  LET p == Owner[t]
      i == call[t].id
      hits == Positions(list[p], i) \ {1}
  IN /\ call[t].at = "erase"
     /\ IF hits = {}
        THEN GoTo(t, "unlink") /\ UNCHANGED list
        ELSE /\ list' = [list EXCEPT ![p] = RemoveAt(@, First(hits))]
             /\ call' = [Raced(p) EXCEPT ![t].at = "unlink"]
     /\ made' = [made EXCEPT ![i].gone = @ \cup {p}]
     /\ UNCHANGED <<lock, graph, disk, flushed, expired, calls, ends>>

(* It erases the first entry with that id, ... *)
Erase(t) ==
  LET p == Owner[t]
      i == call[t].id
      hits == Positions(list[p], i)
  IN /\ call[t].at = "erase"
     /\ IF hits = {}
        THEN GoTo(t, "unlink") /\ UNCHANGED list
        ELSE /\ list' = [list EXCEPT ![p] = RemoveAt(@, First(hits))]
             /\ call' = [Raced(p) EXCEPT ![t].at = "unlink"]
     /\ made' = [made EXCEPT ![i].gone = @ \cup {p}]
     /\ UNCHANGED <<lock, graph, disk, flushed, expired, calls, ends>>

(* ... then the file, which throws while a reader has it: the caller of    *)
(* MddDeletePackageDependency is not told.                                 *)
Unlink(t) ==
  LET i == call[t].id
      inUse == OpenByOther(t, i) /\ disk[i] # "absent"
  IN /\ call[t].at = "unlink"
     /\ disk' = [disk EXCEPT ![i] = IF inUse THEN @ ELSE "absent"]
     /\ made' = [made EXCEPT ![i].state = IF inUse THEN "leaked" ELSE "deleted"]
     /\ lock' = [lock EXCEPT ![Owner[t]] = None]
     /\ call' = [call EXCEPT ![t] = Idle]
     /\ UNCHANGED <<list, graph, flushed, expired, calls, ends>>

-----------------------------------------------------------------------------
(* The app or its uninstaller removes a lifetime artifact. *)
ArtifactDeleted(i) ==
  /\ made[i].state = "handed" /\ made[i].kind = "Artifact" /\ i \notin expired
  /\ expired' = expired \cup {i}
  /\ UNCHANGED <<list, lock, graph, disk, flushed, made, call, calls, ends>>

(* What becomes of the ids a process was working on when it ends. *)
AfterEnd(i, ended) ==
  LET interrupted == \E t \in Thread : Owner[t] \in ended /\ call[t].id = i
                                      /\ call[t].op = "Create"
  IN [made[i] EXCEPT !.by = IF @ \in ended THEN None ELSE @,
               !.gone = @ \ ended,
               !.state = IF interrupted THEN "failed" ELSE @]

EndOf(ended) ==
  /\ list' = [p \in Process |-> IF p \in ended THEN <<>> ELSE list[p]]
  /\ lock' = [p \in Process |-> IF p \in ended THEN None ELSE lock[p]]
  /\ graph' = [p \in Process |-> IF p \in ended THEN None ELSE graph[p]]
  /\ call' = [t \in Thread |-> IF Owner[t] \in ended THEN Idle ELSE call[t]]

(* A process ends at any point, and may start again. *)
ProcessEnds(p) ==
  /\ ends > 0 /\ ends' = ends - 1
  /\ EndOf({p})
  /\ made' = [i \in Id |-> AfterEnd(i, {p})]
  /\ UNCHANGED <<disk, flushed, expired, calls>>

(* The system writes a file back some time after Save closed it; of no     *)
(* interest once no power can be lost.                                     *)
Flush(i) ==
  /\ ends > 0
  /\ disk[i] = "whole" /\ i \notin flushed
  /\ flushed' = flushed \cup {i}
  /\ UNCHANGED <<list, lock, graph, disk, expired, made, call, calls, ends>>

(* Power is lost: every process ends, and what was not written back is     *)
(* there, is empty or is gone.                                             *)
Survives(i) ==
  IF disk[i] = "absent" \/ i \in flushed THEN {disk[i]} ELSE {disk[i], "empty", "absent"}

PowerLoss ==
  /\ ends > 0 /\ ends' = ends - 1
  /\ EndOf(Process)
  /\ \E after \in [Id -> {"absent", "empty", "whole"}] :
       /\ \A i \in Id : after[i] \in Survives(i)
       /\ disk' = after
       /\ made' = [i \in Id |-> IF after[i] = disk[i] \/ i \notin Known THEN AfterEnd(i, Process)
                               ELSE [AfterEnd(i, Process) EXCEPT !.state = "lost"]]
  /\ UNCHANGED <<flushed, expired, calls>>

-----------------------------------------------------------------------------
Next ==
  \/ \E t \in Thread :
       \/ \E i \in Id, d \in Definition :
            CreatePackageDependency(t, i, d)
       \/ WriteFile(t)
       \/ Push(t)
       \/ \E i \in Id : Resolve(t, i)
       \/ \E i \in Id, user \in BOOLEAN : ExistsPackageDependency(t, i, user)
       \/ GetPackageDependencyInMemory(t)
       \/ Use(t)
       \/ OpenFileIfExists(t)
       \/ ReadFile(t)
       \/ FixEmptyFile(t)
       \/ Return(t)
       \/ \E i \in Id : DeletePackageDependency(t, i)
       \/ Erase(t)
       \/ Unlink(t)
  \/ \E i \in Id : ArtifactDeleted(i) \/ Flush(i)
  \/ \E p \in Process : ProcessEnds(p)
  \/ PowerLoss

Spec == Init /\ [][Next]_vars

-----------------------------------------------------------------------------
Places == {"idle", "write", "push", "search", "use", "open", "read", "fix", "done", "erase", "unlink"}
MadeType == [state : {"unborn", "saving", "failed", "handed", "deleting", "deleted", "leaked", "lost"},
             by : Process \cup {None}, kind : {"Process", "Artifact"},
             user : BOOLEAN, gone : SUBSET Process]
CallType == [op : {"None", "Create", "Resolve", "Exists", "Delete"}, at : Places,
             id : Id \cup {None}, user : BOOLEAN, index : Nat,
             raced : BOOLEAN, found : Id \cup {None, Error}]

TypeOK ==
  /\ list \in [Process -> Seq([id : Id \cup {None}, user : BOOLEAN])]
  /\ lock \in [Process -> Thread \cup {None}]
  /\ graph \in [Process -> Thread \cup {None}]
  /\ disk \in [Id -> {"absent", "empty", "whole"}]
  /\ flushed \subseteq Id /\ expired \subseteq Id
  /\ made \in [Id -> MadeType]
  /\ call \in [Thread -> CallType]
  /\ calls \in [Thread -> Nat] /\ ends \in Nat

(* "Any pins stay behind": the file of a dependency whose id a caller got  *)
(* is whole whatever process ends, until somebody deletes the dependency,  *)
(* its artifact is gone or power is lost before the file was written back; *)
(* a dependency of one process never has a file, and an empty file belongs *)
(* to no id a caller was given by a Create that succeeded since.           *)
PinsStay ==
  /\ TypeOK
  /\ \A i \in Id :
       /\ made[i].state = "handed" /\ made[i].kind = "Artifact" /\ i \notin expired
            => disk[i] = "whole"
       /\ made[i].kind = "Process" => disk[i] = "absent"
       /\ made[i].state = "handed" => disk[i] # "empty"

(* A lookup without g_lock may be overtaken by a Create or a Delete of     *)
(* another thread and then shows anything.  One that is not overtaken      *)
(* returns no other dependency than the one asked for, and finds every     *)
(* dependency its own process created and nobody deleted; one under g_lock *)
(* is never overtaken.                                                     *)
LookupRight ==
  \A t \in Thread :
    LET c == call[t]
        m == made[c.id]
    IN c.at = "done" =>
         /\ c.op = "Exists" => ~c.raced
         /\ ~c.raced => c.found \in {c.id, None, Error}
         /\ c.op = "Resolve" /\ ~c.raced /\ m.state = "handed" /\ m.by = Owner[t]
              => c.found = c.id
         /\ c.op = "Exists" /\ m.state = "handed" /\ m.by = Owner[t]
              => (c.found = c.id <=> m.user = c.user)

(* Once Delete removed a dependency, its file does not come back and the   *)
(* process that deleted it does not list it again, whatever lookups were   *)
(* under way.                                                              *)
DeleteErases ==
  \A i \in Id :
    /\ made[i].state = "deleted" => disk[i] = "absent"
    /\ \A p \in made[i].gone : Positions(list[p], i) = {}
=============================================================================
