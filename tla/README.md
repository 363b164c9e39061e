# TLA+ verification of the Windows App SDK runtime

Models, model checks and machine-checked proofs for the parts of the Windows App SDK whose
correctness depends on the order in which processes, threads, callbacks and system services act.
Paths are relative to the repository's root; line numbers refer to the modelled commit.

- [The system](#the-system): components, their state, how they interact, what is hard
- [Modules](#modules): what each one models and how it corresponds to the code
- [Runs](#runs): what TLC checks, with which bounds and fairness
- [Proofs](#proofs): what TLAPS proves, and how
- [What the code does that its documents do not say](#divergences)
- [Not modelled](#not-modelled) and [Plan](#plan)

To check: `tlc -config <run>.cfg MC<Module>.tla` for a run, `tlapm <Name>Proofs.tla` for a module of proofs. The largest ones
(NotificationPlatform, PackageDeployment, DynamicDependency) take several minutes each.

## The system

The SDK is a set of WinRT and flat APIs that unpackaged and packaged apps load as a framework
package. Almost all of its own logic coordinates parties that share no lock but named kernel
objects: instances of an app, an app and its long-running helpers, an app and the deployment service.

| Component (`src/dev/...`) | State it keeps | Operations | Interacts with |
|---|---|---|---|
| AppLifecycle: redirection queue (`AppLifecycle/RedirectionRequestQueue.h`, `SharedMemory.h`) | a linked list of ids in a named section | Enqueue, Dequeue under a named mutex | all instances of the app, any of which can be terminated |
| AppLifecycle: redirection (`AppInstance.cpp`, `RedirectionRequest.cpp`) | the `Activated` event, a packet section and a cleanup event per request | QueueRequest; ProcessRedirectionRequests on the target's thread pool | queue; the app's Activated handlers |
| AppLifecycle: instance keys (`AppInstance.cpp`) | a mutex per key and a section per instance, both named | FindOrRegisterForKey, UnregisterKey | list of instances; other instances' data mutexes |
| AppLifecycle: list of instances (`SharedProcessList.h`) | an array of process ids in a section | Insert, Remove, GetInstances | every instance, each under its own mutex |
| AppLifecycle: restart, activation arguments and registration | a named mutex; the registry | Restart, agent; encoding | `RestartAgent` |
| Dynamic dependencies: package graph (`DynamicDependency/API/PackageGraph*.cpp`, `WinRTModuleManager.cpp`) | nodes sorted by rank, WinRT packages beside them, PATH, AddDllDirectory cookies, a revision id | Add, Remove | the loader, PATH (which the app also writes), the Detours |
| Dynamic dependencies: resolution | the resolved name of a dependency | TryCreate, Add, Remove | the deployment service |
| Dynamic dependencies: manager and data store (`PackageDependencyManager.cpp`, `DataStore.cpp`) | a list of dependencies per process, a file for each that outlives it | CreatePackageDependency, DeletePackageDependency, GetPackageDependency, GetResolved... | other processes and users over the files; registry and file lifetimes |
| Dynamic dependencies: lifetime clean-up, Detours, WinRT classes | none of its own | MddLifetimeManagementGC; intercepted queries | deployment service; loader |
| Bootstrapper (`WindowsAppRuntime_BootstrapDLL`) | a count, the parameters in use, handles, a temporary PATH entry | Initialize, Shutdown | DDLM; dynamic dependencies |
| DDLM (`DynamicDependency/*LifetimeManager*`) | a process waiting for an event or its caller | start, wait, exit | bootstrapper |
| Push notifications: long-running process (`PushNotificationsLongRunningTask`) | registrations in containers, listeners, foreground sinks, a shutdown timer | Initialize, Shutdown, RegisterFullTrustApplication, Register/UnregisterLongRunningActivator, Register/UnregisterForegroundActivator | apps, over COM; wpncore |
| Push notifications: client (`PushNotificationManager.cpp`) | activator cookies, `m_registering`, the channel | Register, Unregister, UnregisterAll, CreateChannelAsync | the long-running process; wpncore; the app's PushReceived handlers |
| App notifications | activator registration | Register, Show ... | toast platform; the long-running process |
| OAuth (`OAuth2Manager.cpp`, `AuthRequestAsyncOperation.cpp`) | pending requests; a pipe, a thread-pool wait and a completion state for each | RequestAuthWithParamsAsync, CompleteAuthRequest, Cancel, Completed | a browser; another instance of the app that got the redirect |
| Power notifications | listener registrations, cached values | add/remove event handlers | power platform callbacks |
| Package deployment manager (`PackageManager/API`) | none between calls; the progress of one | IsPackageReady ..., EnsurePackageReady, Add, Stage, Register, Remove, Provision, Deprovision, of a package, a family, a product or a set | deployment service, other parties that deploy |
| Deployment | installation state in the package repository | Initialize, GetStatus, Repair | deployment service, the long-running process |
| Environment manager | environment variables and a registry log of changes | Set, AppendToPath, RemoveFromPath | registry |
| MRT Core, reg-free WinRT, wrappers, builders, build | immutable after load, or none | lookups, formatting | - |

**What is hard.** The list with lines is in `PROJECT.json` under `hazards`. By theme:

- *Processes that end at any step.* A named mutex is then abandoned and handed on, a section or an event
  disappears with its last handle, and a waiter without a timeout stays. (Queue, redirection, keys.)
- *A manual-reset event and a drain loop*: the classical lost wakeup. (Redirection.)
- *Locks that do not exclude each other*: the shared list is written under each process's own mutex. (List.)
- *The world changes under a computation*: packages are removed while candidates are compared, PATH is
  set by the app between two calls, a newer framework is installed while a process initializes.
  (Resolution, package graph, bootstrapper.)
- *Partial failure*: every system call in Add and in the first Initialize may fail, and what was done
  before has to be undone or stay consistent.
- *Who ends a request*: a response, an error of the pipe, a cancellation and a local completion may all
  come for one OAuth request, on callbacks that may drop its last reference. (OAuth.)
- *A process that ends itself when nobody needs it*, at the moment somebody does. (Push.)
- *A file written outside the lock that guards the list of what is in files.* (Data store.)
- *Long call sequences*: nested Initialize and Shutdown, UnregisterKey and registration again,
  packages of the same rank prepended and appended in turn.

**What makes the components correct**, and so what is stated below: a request reaches its target once and
in order and its sender is released; a key has one holder, and whoever looks for a key finds its holder; a
running instance is listed; the package graph is sorted and the DLL search order follows it; the resolved
package is the best one; a dependency stays until it is deleted; what a deployment call reports is true; a request for
authorization is answered once and its end is told; a registered app receives its notifications and one that
unregistered does not; an initialized process has the framework it was promised, for as long as it was
promised.

## Modules

Every component has a module with its state, one action per step that other parties can observe, and its
properties; `MC<Module>` gives constants values for TLC. `PROJECT.json` (`map`) names the lines each
definition stands for. Operators marked `Mutant` are plausible bugs of the definition after them: each run
property is violated when one of them replaces that definition.

```
RequestFifo            what a redirection queue promises
  ^ implemented by  RedirectionQueue   the list in shared memory, store by store
Redirection                            the protocol around such a queue
InstanceKeys    InstanceList           the other two things instances share
DependencyStore -> PackageResolution -> PackageGraph
                                       dependencies and their files; one dependency to a package;
                                       packages to a search order
PackageDeployment                      calls on packages, item by item
NotificationPlatform                   apps and the process that receives for them
AuthRequests                           requests for authorization and who ends them
Bootstrap                              one process and its lifetime managers
```

Each module has its proofs in `<Module>Proofs`, but that AppInstanceProofs is about InstanceKeys and InstanceList and
DynamicDependencyProofs about PackageGraph, PackageResolution and Bootstrap. A module of proofs extends the modules it is about, which
is why the definitions of InstanceList, PackageResolution and Bootstrap have names of their own (`ListSpec`, `ResolutionNext`,
`BootstrapInit`, and `RemoveDependency` for what MddRemovePackageDependency does to one dependency).

**RequestFifo** is the abstract specification: ids go in once and come out once, in that order, until a process dies in
the middle of an Enqueue (`Broken`). From then on it only promises that what came out stays.

**RedirectionQueue** (`RedirectionRequestQueue.h`). `head`, `inUse`, `next` and `id` are the section's words;
`mutex` is `m_dataMutex`. A writer's `pc` walks through `Enqueue` in the order of its stores: allocate, walk
to the tail, link, mark in use, store the id, clear the link. The target's `tpc` does so for `Dequeue`. `Die`
is TerminateProcess, at any of these steps: the mutex is abandoned, the next waiter gets it, and finds what was stored so far. `torn` records
that a sender died between the store that links its item and the one that gives it its id; what the code does from then on is in the model (a slot is handed out
again, the list runs in a circle or shows an old id), and all three properties end there. `AllocateFault` is the scan that leaves
the mapping when every slot is in use. The refinement mapping `Pending` has the ids of `Chain`, the one list of slots that begins
at `head`, goes on from each to its `next` and ends where that is 0 or a slot that an Enqueue under way has linked but not filled
(`Follows`). It says what such a list is, not how to compute it, so that it can be reasoned about.

**Redirection** (`AppInstance.cpp` 184-258). `rpc[r]` is how far the coroutine of `QueueRequest` for `r` has come:
packet written, cleanup event created, enqueued, event set, waiting. `tpc` is the place in the
watcher's callback: `ResetEvent`, then `Dequeue` until GUID_NULL, and for each request: open the packet,
raise Activated, signal the cleanup event. Named objects live as long as the sender's coroutine; whether they
exist is therefore read off `rpc`. The queue is one step per operation, which RedirectionQueue justifies for as long as no item is torn.

**InstanceKeys** (`AppInstance.cpp` constructor, TrySetKey, FindForKey, GetInstances, UnregisterKey).
`dataMutex`, `keyMutex` and `section` are the named objects; `kept` and `made` are the AppInstance objects each
process has of others, which keep those objects alive. `Sweep` and `FreeMutexes` are what closing the last handle does. `pids` is the list, which
the constructor writes (`InsertReads`, `InsertStores`), a search copies (`CopySlot`) and a removal clears (`RemoveFinds`, `RemoveClears`) slot by slot, each
process under its own mutex: an Insert may overwrite another's, a removal may clear a slot that was reused. A search is held against what
the list showed when it was copied (`steady`).
`named` is false once UnregisterKey has cleared the section's name. `ThreadEnds` is there because a mutex belongs
to a thread, and the key's outlives its thread only as abandoned.

**InstanceList** (`SharedProcessList.h`, and who calls it in `AppInstance.cpp`). Insert, Remove and the copy of GetInstances go through the array one slot
at a time; `raced` records that two processes wrote to it at once. `watches` are the AppInstance objects a process made of what it
copied, each with a wait for the end of that process; the app may release them, which unregisters the wait (`ReleaseInstance`, `~AppInstance`). The
wait's callback is made once (`WatcherFires`) and removes the ended process from the list (`RemoveEnded`).

**PackageGraph** (`PackageGraph.cpp`, `PackageGraphManager.cpp`, `PackageGraphNode.cpp`, `WinRTModuleManager.cpp`). Add is
`AddNode`, `ReadPath`, `WritePath`, `AddDllDirectories`; Remove is `RemoveNode`, `ReadPath`, `WritePath`: one lock, but
PATH is the whole process's, and the app sets it between any two of these steps. `Stops` has the tests of Add's loop over the graph in their order and
`InsertionPoint` the node it stops at; that this is the right place for the rank is left to the properties. `Without` is the search of
the previous block in UpdatePath, its silent loss included. The three kinds of system call fail nondeterministically. `appRead` is what
UpdatePath has read of the app's entries: what it sets between that and the write is lost, and nothing else.

**PackageResolution** (`PackageGraph.cpp` 155-309, `PackageDependency.cpp`). A resolution counts the family, then asks for its names, which fails
when they no longer fit the buffer (`NamesDoNotFit`), then looks at one
candidate per step, in any order, while `Deploy` installs, removes and breaks packages. A candidate that is gone when it is looked up is a null
Package whose status is asked for all the same, which ends the process (`Vanished`). `PassesFilters` and
`IsPackageABetterFitPerArchitecture` are the code's tests in its order. `steady` is a history variable: what has been
usable since the resolution began, which is what a result can be held against.

**DependencyStore** (`PackageDependencyManager.cpp`, `DataStore.cpp`, `PackageDependency.cpp`). `list[p]` is
`g_packageDependencies` of process p, `lock[p]` and `graph[p]` the holders of its two locks, `disk` the file of each id. Create is
CreatePackageDependency (the file is created empty), WriteFile, Push: only the last is under the lock, as in the code. A lookup is
GetPackageDependencyInMemory, one entry per step, which leaves an index (the code's pointer), and Use; during both other threads may grow and shrink
the vector, and what the lookup then sees is anything (`raced`). `Resolve` is the way in from the package graph, under its own lock,
`ExistsPackageDependency` the one under `g_lock`, which nothing overtakes. When the list has nothing, OpenFileIfExists, ReadFile, FixEmptyFile follow. Delete is
DeletePackageDependency, Erase, Unlink. `ProcessEnds` and `PowerLoss` end calls anywhere; after a loss of power a
file that was not flushed is there, empty or gone. `made` is what became of an id, `raced` marks a pointer that was overtaken.

**PackageDeployment** (`M.W.M.D.PackageDeploymentManager.cpp`). `call` is one operation: its kind, how it names packages (a set, an
`ms-uup` product, one URI or family, a full name), the item it is at, the packages of a family still to remove, the progress reported.
Each operation is an action that decides what to ask of the deployment service for an item, or answers itself; `Deploy` is the
service (a downgrade is refused, what is not there is not removed, anything may fail or throw), `Report` its progress as the callbacks
pass it on, `Answered` the end of the loop's body. `Change` is another party. `seen` collects what held at any time during the call, which is all that
its answer can be held against.

**NotificationPlatform** (`PushNotificationsLongRunningTask/*.cpp`, `PushNotificationManager.cpp`). `Script` has the calls each client
operation makes of the platform, in order, and Register's scope exits (`Undo`); `thread[t]` is where it is in one. `raw`, `clsid` and
`toast` are the three containers, `listeners` and `foreground` the two managers' maps, `wpn` what wpncore keeps. `lrp` is the process:
started by activation, its timer (`Setup`, `Cancel`, `TimerFires`), the event, WinMain's wait and the shutdown. Calls hold the platform lock shared
or exclusively (`SharedFree`, `PlatformFree`), the foreground handlers run under the sink manager's (`SinksFree`) and under the client's
own lock held shared, which its next operation takes exclusively (`HandlersDone`, at `Start`, `Claim` and `RegisterClass`; the flags a call sets when it
returns are set with its return). A handler need not return. A crash of an app while its call runs in the platform leaves the call to finish (`Gone`).
A listener is added in three steps, wpncore's registration, the list, the timer (`AddListener`, `InsertListener`, `CancelTimer`), and removed in
three (`RemoveListener`, `EraseListener`, `Forget`). Each call of wpncore may fail: the start of the process then fails (`Initialize`), an added sink
stays without a listener and a removed listener leaves its sink (`wpn.stray`). Any failing call to an app's sink erases it, whether its
process has gone or not ("dropped"), and a launch may fail (`Launch`).

**AuthRequests** (`OAuth2Manager.cpp`, `AuthRequestAsyncOperation.cpp`). `op` is the asynchronous operation of a request, `pipe` its
named pipe and thread-pool wait, `pending` the manager's list. A thread is the app's or a request's pipe callback; `thr` is where it is. Who
takes a request out of the list (`Take`) ends it: closes the pipe, sets the status, calls the handler, drops its reference. The
last reference destroys, and waits for the callback to return. `ConnectToNewClient`, `Listen`, `ArmConnect`, `InitiateRead`,
`ArmRead`, `OnReadComplete` are the sections of the callback between locks. A sender connects, writes, or dies.

**Bootstrap** (`MddBootstrap.cpp`, the DDLM's `winmain.cpp`). `count`, `inUse`, `graph`, `dll`, `manager` are the globals;
`new` holds the locals of FirstTimeInitialization, which RAII releases when it throws. `kind` is the way the process gets
its framework: a DDLM with an event, a DDLM behind COM, or Windows 11's own implementation. `ddlm[m]` is the life
of each lifetime manager.

### What is abstracted

- Contents that no property distinguishes: activation arguments, telemetry, package metadata, PATH strings
  (an entry is the package it belongs to), versions (small numbers).
- Process ids are not reused, GUIDs never collide, a file or a manifest that is read does not change.
- Each process calls the key API from one thread at a time. A call is a sequence of steps, so calls of different
  processes interleave; callbacks of the thread pool are actions of their own.
- Memory is sequentially consistent within a mutex. Outside one (the list) a store of a DWORD is atomic.

## Runs

Each module's type invariant is part of one of its safety invariants. `CHECK_DEADLOCK FALSE` is set everywhere because every
one of these systems may rest: no app has to call, and budgets of calls run out.

| Run | Question | Properties |
|---|---|---|
| `queue` | Is the list in shared memory a FIFO queue, however the stores of two senders and the target interleave and wherever a sender dies, until one tears an item? Does the walk to its tail end? | WellFormed, ImplementsFifo, EnqueueReturns |
| `redirect` | Is each request activated once, in order, and its sender released then and not before, whoever dies? | NoLostWakeup, WaitEndsAfterActivation, RaisedOnceInOrder, RequestsProgress |
| `keys` | Does a key have one holder, does a search find it, and can a circle of waiters close? | KeyOwnership, FindCorrect, HoldersNeverWait |
| `list` | Does the list hold the running instances, and do ended ones leave it? | ListConsistent, EndedLeavesList |
| `graph` | Is the graph sorted, does PATH follow it whenever the app sets it, can everything be removed that was added, does the revision id move? | GraphSorted, PathServesGraph, ContextsUsable, CollisionOrder, RevisionTracksGraph |
| `resolution` | Was there nothing to find when nothing is found, and is the result of a dependency that names its architectures the highest version of those that stayed usable? | NotFoundMeansNone, HighestVersionFiltered |
| `store` | Does a pin stay until it is deleted, whatever ends in between; does a lookup find the right dependency; does a deleted one stay away? | PinsStay, LookupRight, DeleteErases |
| `packages` | Is what a deployment call answers true although others deploy, what does a failing one leave, does its progress add up? | SuccessMeansDone, FailureLeavesPrefix, ProgressTold |
| `push` | Does the platform stay while an app needs it, start again, keep its registrations in step, fall silent after Unregister and forget an app after UnregisterAll, whichever calls fail? | TrackedStays, PlatformStarts, RegistrationsKept, QuietAfterUnregister, UnregisterAllForgets |
| `oauth` | Is a request ended by one party only, its end told once, and can a pending one still be answered? | AnsweredOnce, EndTold, PendingServed |
| `bootstrap` | Is a process initialized wholly or not at all, with what each caller asked for, and do lifetime managers exit? | InitializedWhole, GrantKept, PathEntryTemporary, ManagersExit |
| `bootstrap_forgets` | A documented promise the code breaks, see below | CompatibleAccepted |

**Bounds.** They are chosen so that every case of the code happens, and each is named in its module.

- `queue`: two senders, three requests, two slots: senders exclude each other and meet the target, items are reused,
  the list has zero, one and two items, and the third request finds it full. Either sender, or both, may die at any store.
- `redirect`: three requests of two processes, one of which has two under way; everybody may die, the target too. Two
  requests are needed for one to arrive between another's drain and the next wait.
- `keys`: three processes and as many slots, two keys; each process calls once, and one may end, unregister and lose its thread. Three are
  needed for a search by a third party while the owner changes. Longer sequences of calls are left to the theorems, which hold for any number.
- `list`: three processes and two slots, so that the list is full and inserts race for one slot; two may end, two copy the list
  and make and release objects, one of which lasts.
- `graph`: two packages, two ranks, three contexts, four revisions: a new node before, between and behind others. The app adds an entry to PATH, and
  may put back a PATH without the graph's entries, at any step.
- `resolution`: five packages: two versions in two architectures each, and one of a foreign architecture, and a
  dependency that names none, one or two; two deployments may happen during or between resolutions.
- `store`: two threads of one process, with two calls and one, and one thread of another process with one; two ids; a dependency
  of a user that lasts and one of the system that ends with its process; one process may end or the power be lost once. A pointer
  is overtaken when one thread creates or deletes while the other looks up.
- `packages`: two families with two versions, sets of up to two items with and without URIs, one change by another party. Two
  items are needed for a failure behind a success; the change may come before, between or after them.
- `push`: two apps, one of them packaged; one thread registers and unregisters in any order (two calls), either another of the same
  app asks for a channel or another app registers. Two starts of the process, one retry, three identifiers, one end of the app, one
  notification: enough for a timer that fires against a registration, a restart from what was stored, and a stale sink.
- `oauth`: two requests with the same state parameter, one thread of the app, one sender that writes anything. Two requests of one
  state are what the code has to tell apart.
- `bootstrap`: two framework versions, two nested calls, two lifetime managers, one PATH entry of the app; each of
  the four steps may fail, for each of the three kinds.

Distinct states: `queue` 35,248, `redirect` 20,174, `keys` 609,729, `list` 303,347, `graph` 1,941,370, `resolution` 113,738,
`store` 560,877, `packages` 3,772,548, `push` 1,306,582, `oauth` 688,213, `bootstrap` 172,006; each takes at most a few minutes.

Symmetry is used only where all the properties are invariants and values are interchangeable: the ids of `store`, the requests of `oauth`.

**Fairness.** Only what the scheduler and the kernel give. A thread inside a call runs on, and a callback that the thread pool has
been asked for runs (weak fairness). In RedirectionQueue these are the Enqueues that have begun; the target dequeues only when the event is set,
so nothing is assumed of it there, and in Redirection it is its watcher that runs, and only for a set event. In InstanceList, a process that
waits for its own mutex with the id of an ended one (`RemoveEnded`) gets it in the end although other callbacks take it before (strong fairness): Windows serves
the waiters of a mutex in order, apart from kernel-mode APCs. In Bootstrap the call under way and the lifetime managers run on.
No app ever has to begin a call, to end, or to release an object, so those actions have no fairness. The other modules
assume none and claim no liveness; in particular a push handler need not return.

**Scope inside properties.** Some properties except states in which something specific has gone wrong before, and say so by name:

- `torn` (queue): a sender died inside an Enqueue.
- `Intact` (keys): UnregisterKey has cleared the section's name, or the registering thread has ended.
- `raced` (list, store): two writers overlapped; a lookup's pointer was overtaken by another thread.
- `mishaps` (graph): "failure", a call that failed halfway; "reset", the app has put back a PATH without the graph's entries.
- `incidents` (bootstrap): an Initialize that failed, was overtaken by a newer framework or disturbed by the app's PATH.
- `early` (oauth): a callback that ran before its request was pending.
- `lrp.late`, `lrp.slow`, `app.mixed`, `app.undone`, "dropped", `wpn.stray` (push); `lost`, `leaked` (store): below.

Two properties say less than one might think. HighestVersionFiltered is about dependencies that name their architectures; what the code does
for the others is a divergence. GrantKept compares the framework in use with the one asked for, not with the one its lifetime manager pins.
Each exception is a behaviour of the code that the [divergences](#divergences) describe; nothing else is excepted.

## Proofs

TLC covers the instances above; the theorems hold for every value of the constants under the modules' named assumptions:

| Module | Assumptions | They say |
|---|---|---|
| Redirection | `OwnerAssumption`, `NoRequestAssumption`, `TargetAssumption`, `MortalAssumption` | who sends a request, who may end, names differ |
| RedirectionQueue | `SizeAssumption`, `NullAssumption`, `WriterAssumption` | there is a slot, names differ |
| InstanceKeys | `NoneAssumption`, `SlotAssumption`, `CallsAssumption`, `FaultAssumption` | names differ, there is a slot, budgets of calls, who may end |
| InstanceList | `FreeAssumption`, `SizeAssumption` | 0 is no process, there is a slot |
| PackageGraph | `RankAssumption`, `DirAssumption`, `BoundAssumption`, `ResetAssumption` | ranks are numbers, packages are no directories of the app, budgets, whether the app resets PATH |
| PackageResolution | `PackageAssumption`, `ChangesAssumption` | versions are numbers, filters leave architectures, budgets |
| DependencyStore | `StoreAssumption` | names differ, who makes how many calls, what a dependency's user and lifetime are |
| PackageDeployment | `SetAssumption` | versions, sizes of sets and the budget of changes are numbers |
| NotificationPlatform | `ShapeAssumption` | which thread is which app's, budgets |
| AuthRequests | `NameAssumption`, `ContentAssumption` | names differ, what a sender can write |
| Bootstrap | `KindAssumption`, `FailingAssumption`, `CountAssumption`, `FamilyAssumption` | the three kinds, the steps that may fail, budgets |

TLC evaluates each of them on a run. The budgets bound the state space, and the theorems hold for all of them. No theorem assumes more.

Few of the properties are inductive. The proof modules therefore define an inductive invariant each, in named parts: what
each thread knows at its place, and what that says of the shared state. @@IINV@@

**RedirectionProofs**, of the protocol with any number of requests and processes, any of which may end at any step:

| Theorem | Says |
|---|---|
| TypeCorrect | `Spec => []TypeOK` |
| WakeupNeverLost | `Spec => []NoLostWakeup` |
| InductiveInvariant | `Spec => []IInv` |
| WaitsForActivation | `Spec => []WaitEndsAfterActivation` |
| RaisesInOrder | `Spec => []RaisedOnceInOrder` |

*Argument.* NoLostWakeup is inductive with the types alone: the one step that arms the watcher has just found the queue
empty, and the one step that begins a wait has just set the event; ResetEvent happens only while the callback runs. The other
properties are not inductive. That an activation is not raised twice needs that a request is not received twice, hence that it
is not enqueued twice, hence that what is in the queue or was received has left the state in which it can be enqueued (`SentOnce`). That
the order is kept needs that what was received and what was raised differ by the request in the callback's hand only, also after
the target has crashed or ended (`InHand`). That a wait ends only after the activation needs that a cleanup event is
signalled only for a request that was raised (`ReleasedRaised`). Their conjunction with TypeOK is `IInv`. Four lemmas on Append, Head
and Tail and the elements of a sequence carry the data.

**DynamicDependencyProofs** has three parts. *The package graph*, for any packages, ranks, numbers of calls and of system calls that
fail, and an app that changes PATH whenever it may:

| Theorem | Says |
|---|---|
| GraphInductiveInvariant | `Spec => []GraphInv` |
| GraphIsSorted | `Spec => []GraphSorted`, the WinRT packages' order included |
| ContextsAreUsable | `Spec => []ContextsUsable` |
| CollisionsInOrder | `Spec => CollisionOrder`: an Add puts its node before or behind those of its rank, as its options say, and leaves the others in order |
| RevisionTellsOfGraph | `Spec => RevisionTracksGraph`: while the published id is the same the graph is, unless a call stopped halfway |
| PathFollowsGraph | `Spec => []PathServesGraph` |

*Argument.* The code inserts before the node at which its loop stops, and the model has the loop's tests only (`Stops`). That in a graph sorted by
rank (`RankSorted`) everything before that node comes before the new one and everything behind it after, with the collisions where the options want them, is proved
(InsertionPointExists), and the insertion there keeps the order
(OrderStep, with the lemmas that describe InsertAt and RemoveAt element by element). That every context which was handed out finds its node
(`HandedServed`) needs that contexts are never generated twice (`ContextsGenerated`, `ContextsDistinct`) and that between AddNode and its return the node
of the call under way is the one the locals name (`Busy`, `AddedNow`). PathFollowsGraph has an invariant of its own,
`PathInv`: as long as nothing went wrong PATH is `lastAdded \o appPath`, so the search of the previous block finds it at the front and
`Without` leaves exactly the app's entries; until UpdatePath writes, what it will write is the graph's entries and what it read of the app's (`appRead`), and the
write is where entries set in between are lost. RevisionTracksGraph compares with what was last published, which the
invariant ties to the present revision.

*The resolution*, for every set of packages, versions, architectures and filters, candidates in every order,
and deployments at every step:

| Theorem | Says |
|---|---|
| ResolutionTypeCorrect | `ResolutionSpec => []ResolutionTypeOK` |
| ResolutionInductiveInvariant | `ResolutionSpec => []ResolutionInv` |
| NotFoundIsRight | `ResolutionSpec => []NotFoundMeansNone` |
| FilteredIsHighest | `ResolutionSpec => []HighestVersionFiltered` |

*Argument.* `ChampionFits` is about the candidates already looked at: the champion is one that the tests admit, and nothing usable seen so far
beats it, except an architecture-specific one that a neutral champion refused. A candidate that is skipped must have
failed a test that the champion explains. The status test is the exception: it fails for a broken package, and
`SteadyUsable` (what is steady is installed and not broken while the resolution runs, and was among those counted) says such a package is not steady. With the
list of candidates exhausted, ChampionFits is the claim about the result: where the dependency names its architectures every candidate of one of them is compared by
version alone, and without a champion it is NotFoundMeansNone.

*The bootstrapper*, for any families, versions, numbers of nested calls and of lifetime managers, each of the steps failing or not, for
each of the three kinds:

| Theorem | Says |
|---|---|
| BootstrapInductiveInvariant | `BootstrapSpec => []BootstrapInv` |
| InitializedAsAWhole | `BootstrapSpec => []InitializedWhole` |
| WhatIsGrantedIsKept | `BootstrapSpec => []GrantKept` |
| PathEntryIsTemporary | `BootstrapSpec => []PathEntryTemporary` |

*Argument.* `Whole` is what count 0 and count above 0 mean for the globals; it is kept because a call that fails changes none of them and the last step of the
first Initialize sets them together. That what is granted is served needs that the version put into the graph is not older
than the one asked for, hence what the locals hold at each stage (`LocalsFit`), and that it stays installed needs that a manager the process holds
is not on its way out (`HeldStays`). PathEntryIsTemporary counts entries: `EntryInv` says what PATH has besides the app's entries, stage by stage, and the
lemma on RemoveFirst that taking out one entry leaves the others.

**AppInstanceProofs** has two parts. *The list*, for any number of processes and any size of the array:

| Theorem | Says |
|---|---|
| ListTypeCorrect | `ListSpec => []ListTypeOK` |
| ListInductiveInvariant | `ListSpec => []ListInv` |
| ListIsConsistent | `ListSpec => []ListConsistent` |
| EndedNeverReturns | `ListSpec => EndedStaysOut`: an ended process that is out of the list does not come back, however operations interleave |

*Argument.* A process inserts only itself, before it runs (`InsertsItself`), and until then is in no slot and in nobody's copy (`NewUnlisted`); what is
removed, or due to be by a callback that was made, has ended (`RemovesEnded`): so nothing is listed twice, whatever races. The rest of ListConsistent needs that operations do not overlap: then the slot that Insert or Remove
found is still what was read (`HitStands`). EndedNeverReturns is an action property no run checks; it is the safety half of EndedLeavesList.

*The keys*, for any number of processes and keys, any number of calls, whichever processes and threads end:

| Theorem | Says |
|---|---|
| TypeCorrect | `Spec => []TypeOK` |
| InductiveInvariant | `Spec => []IInv` |
| KeysOwnedOnce | `Spec => []KeyOwnership` |
| SearchIsRight | `Spec => []FindCorrect` |
| NoCircleOfWaiters | `Spec => []HoldersNeverWait` |

*Argument.* The mutex of a key and the lock its process remembers belong together as long as the thread that took it is there (`LockHeld`), and a
section shows the key except while it is written or cleared (`Setting`, `Shown`). For the search: FindCorrect is about an owner that was listed when the
search copied the list and stayed. Such an owner is in a slot the copy has still to read, or in what was read or made of it, and afterwards among those still to open or
to check (`SteadyAhead`), so it is not passed by. An id is written by its own process only, once, so it does not come back to a list it left, and a process that
has not started is in nobody's list and objects (`Unknown`). `SweepFacts` and `FreeFacts` say once what closing the
last handle does.

**RedirectionQueueProofs**, for any number of senders, requests and slots, any of the processes ending at any step:

| Theorem | Says |
|---|---|
| TypeCorrect | `Spec => []TypeOK` |
| InductiveInvariant | `Spec => []IInv` |
| ListWellFormed | `Spec => []WellFormed` |
| EachRequestOnce | `Spec => [](torn \/ (ReceivedOnce /\ AcceptedKept))`: until an item is torn no request is received twice, and an accepted one was received or has its slot |
| ChainFollowed | `Spec => [](torn \/ ChainInv)` |
| QueueImplementsFifo | `Spec => ImplementsFifo` |

*Argument.* Whoever is inside an operation has the mutex (`Exclusion`), also after an item is torn. `Sound` is what the list is like with the mutex free; `EnqueueSound` and
`DequeueSound` say, store by store, how far from it the owner has taken the list and what it still holds in its locals. A process that dies
leaves the list as it is at that store: it is Sound except between the link and the last fill of an Enqueue, where the death tears it. `WholeInv`, all
that is said of the list's contents, holds until then. That WellFormed says nothing about identity is why EachRequestOnce is there: `PlaceInv` gives each request one place,
with its sender, in a slot, with the target or received.

The refinement is about the list as a whole. `ChainInv` says that there is a list of different slots from the head to the end (`IsItems`), that a
walking Enqueue is on it, one that links has found its last item, and one that fills its slot has it behind the last. ItemsAre
proves that such a list is the only one, so `Chain` is it: were there a second one, there would be a first place in which the two differ. This is where an
induction over the list's length would be; LeastExists, from the library's WFMin, takes the least counterexample instead. Four lemmas then say what
becomes of the list when its last item is linked on (ItemsLink: nothing), the new end is cleared (ItemsAppend), the head moves
(ItemsTail) and a slot outside it loses its link (ItemsUnlink); ChainStep goes through the actions with them. The abstract Enqueue is the last store, ClearNext, or
the death of a sender that had only that store to do in a slot whose link was 0 already (`Completes`); Dequeue is BeginDequeue. A death that tears the list maps to `Broken`, after which
the abstract queue promises only that what was received stays; every other step, the other deaths included, is a stutter (SteadyStep). That the id
enqueued is new is PlaceInv: every item of the list has its own slot, and a request is in one slot.

**AuthRequestsProofs**, for any number of requests, threads of the app and senders, whatever they write and whenever they end:

| Theorem | Says |
|---|---|
| TypeCorrect | `Spec => []TypeOK` |
| InductiveInvariant | `Spec => []IInv` |
| CompletedOnce | `Spec => []AnsweredOnce` |
| EndIsTold | `Spec => []EndTold` |
| PendingIsServed | `Spec => []PendingServed` |

*Argument.* A request that has not ended is in the pending list or with the one thread that took it out (`OneTaker`): completing, cancelling, a failing launch
and the pipe's callback all take it out first, so only one of them completes it. Its handler was called, is being called by one thread, or is still to be
set (`OneCall`, `Told`). A constructor is alone with its operation until it is pushed (`Constructed`), and who destroys one is
the last to hold it (`LastHolder`, `LiveOnly`). Every step changes one thread and one request; the lemma FrameKeeps carries
the parts of all others.

**DependencyStoreProofs**, for any processes, threads, ids and definitions, whatever process ends and when power is lost:

| Theorem | Says |
|---|---|
| TypeCorrect | `Spec => []TypeOK` |
| InductiveInvariant | `Spec => []IInv` |
| PinsAreKept | `Spec => []PinsStay` |
| LookupIsRight | `Spec => []LookupRight` |
| DeletedStaysDeleted | `Spec => []DeleteErases` |

*Argument.* `FileInv` ties each file to the history of its dependency, `ListInv` each process's list to what it created and did not delete. A thread knows (`ThreadInv`)
that what it creates nobody else touches, that a lookup which was not overtaken has compared the entries before its index and found none of them, that its pointer
still leads to the entry it was taken for (`LooksUp`), that it
went to the file only for what its process does not own, and so finds a file to fix only when its dependency was not handed to
anybody. Another thread's step is seen through `Seen` and `Ages` alone: a list that changed marks the pointers into it, a dependency only grows older.

**NotificationPlatformProofs**, for any apps, threads, calls and identifiers, whatever app or process ends:

| Theorem | Says |
|---|---|
| TypeCorrect | `Spec => []TypeOK` |
| InductiveInvariant | `Spec => []IInv` |
| ProcessStays | `Spec => []TrackedStays` |
| NextStartLoads | `Spec => []PlatformStarts` |
| RegistrationsStay | `Spec => []RegistrationsKept` |
| QuietOnceUnregistered | `Spec => []QuietAfterUnregister` |
| ListenersKept | `Spec => [](IInv /\ Books)` |
| UnregisterAllCleans | `Spec => UnregisterAllForgets` |

*Argument.* `Process` is about the process as a whole: the platform lock and who holds it, that a listener under a running timer has a
thread about to cancel it, that a process that does not run has nothing in memory, and that what will be loaded at the next start can be.
`Whole` is about one app: each of its threads is where the script says and connected to this process or an earlier one (`Placed`, `Connections`),
holds m_registering exactly in the calls that set it, and so is alone unless a channel request overlapped (`Progress`, `Apart`, `Alone`); and the process
keeps of the app only its present identifier's entries (`Tidy`, `Mapped`) and, when it is registered, all of them (`Served`). `Served` is
not inductive by itself: while Register is on its way to the listener, its sink has to stay although neither flag is complete, hence
`Serving` with the `Last` call. Steps change one app (`FrameWhole`), touch its other threads only as `SiblingsKept` and `ServiceKept`
say, and are proved by kind: a call returns, fails, goes on in the platform, connects, or returns to an app that has gone.
`Books` compares the list with wpncore, for each app that does not overlap its operations: a sink has a listener, is a stray, or its thread
is about to insert the listener; a listener has a sink, or its thread is about to erase it (`Booked`). It rests on `Classed`, that the class identifier of an app whose
Register was never undone is of its present identifier, for which `Alone` gives one thread at a time.
The proof attempt of UnregisterAllCleans found the case of `app.undone` below: with its two calls `push` is too short for it, with three calls of `t1` and
five identifiers TLC finds the property violated when that case is not excepted.

**PackageDeploymentProofs**, for any families, versions and package sets, whatever the service answers and others deploy at any step:

| Theorem | Says |
|---|---|
| TypeCorrect | `Spec => []TypeOK` |
| InductiveInvariant | `Spec => []IInv` |
| SuccessIsTrue | `Spec => []SuccessMeansDone` |
| FailureStopsThere | `Spec => []FailureLeavesPrefix` |
| ProgressIsTold | `Spec => []ProgressTold` |

*Argument.* An answer is held against `seen`, what held at some time during the call, because others deploy while it runs; `Noticed` says that the present
is always part of it. From that every test the code makes of an item leaves a trace: for the items before the present one in `Found` (queries) and
`Prefix` (operations), for the present one in `Asked`, which says that the service was asked for what the item needs, and `Served`, that an item
answered well is done. A family is removed package by package; `Removing` accounts for each: it was gone once, is still to do or is being done. FailureLeavesPrefix
is `Prefix` at the moment a call ends. `Progress` says where the progress stands at each place of the loop, counted in hundredths of an item: a set of N is
done at 100 N, 10 N of which are there before its first item and 90 of which are each item's share. For EnsurePackageSetReady, whose progress the property leaves out, it only bounds it
by twice the shares, see [divergences](#divergences).

**Model-checked only.** Every safety property of the passing runs and the refinement are proved. What is not:

- Liveness (EnqueueReturns, RequestsProgress, EndedLeavesList, ManagersExit): the prover does not treat fairness.
- CompatibleAccepted is violated, see below.

## Divergences

A run ends in a counterexample to something the repository says of the code:

- `bootstrap_forgets`. Each Shutdown clears the record of the framework in use (`MddBootstrap.cpp:277-279`), so after two Initialize and one
  Shutdown a compatible Initialize is refused; the header says only incompatible ones are.

Met while modelling, and kept in the models as what the code does (no run is about them, their place in the models is given).

*Instances of an app*

- A sender that dies between Enqueue's stores leaves a linked item that is not in use: requests behind it can be lost or the next one
  appears twice (`RedirectionRequestQueue.h:48-59`; `torn`).
- A full queue faults instead of failing with E_OUTOFMEMORY (`:126`; AllocateFault).
- A missing packet makes the target's callback throw (`AppInstance.cpp:198`; UnmarshalThrows), and a sender waits for ever
  for a target that ended (`:253`; OnlyTargetsEndStrands states it of no other case).
- The key's mutex is abandoned when the registering thread ends although the instance lives on (`:581-598`; ThreadEnds,
  Intact); a section kept open by others shows the key of an instance that has ended (`FoundOwnedKey`).
- UnregisterKey clears the key section's name with its contents (`SharedMemory.h:76`, called from `AppInstance.cpp:454`); a key registered
  after that lies in an unnamed section no other process sees, while its mutex keeps the others from registering it. The
  specification (`AppLifecycle SingleMulti-Instancing.md:105-107`) says an instance may register again (`named`, UnregisterKey).
- An AppInstance created for an ended process owns its data mutex twice and releases it once (`:113-138`; MakeInstance).
- Two Inserts at once can lose one instance, which no search for a key then meets (`SharedProcessList.h:21-34`; `raced`, and in InstanceKeys what the copy shows).
- The wait for an instance's end belongs to the AppInstance object: when the app releases it first, nobody
  removes the ended process from the list (`AppInstance.h:22-28`; ReleaseInstance).

*Dynamic dependencies and the bootstrapper*
- A dependency that was saved is never found again. FromJSON (`PackageDependency.cpp:68-81`) does not restore the id, and what has no id
  counts as nothing (`PackageDependency.h:265`), so GetPackageDependencyInDataStore (`PackageDependencyManager.cpp:130-154`) always
  returns null: no other process and no later start finds it, and its file is never collected when it expires, although
  `MsixDynamicDependency.h:156` lets pins stay behind for that. An FromJSON that did would uncover the push_back without a lock (ReadFile).
- Architectures and options are written as "0x" and a decimal number and read as hexadecimal (`PackageDependency.cpp:56-78`), and the user is
  not saved. A dependency created without a user keeps none and is not found by a lookup for the current user (ExistsPackageDependency).
- Delete of a file somebody reads throws after the entry has left the list: the file stays, and the API says nothing (Unlink, `leaked`). A Create
  that dies between Save and its return leaves a file of an id nobody knows. GetPackageDependency searches the list without its lock (`raced`).
- When the previous block of entries is not found in PATH as it was, UpdatePath sets PATH to the graph's entries
  alone (`PackageGraph.cpp:353-405`) and drops everything else; its comment says that such a PATH would not be micromanaged (Without).
- What the app sets in PATH between UpdatePath's read and its write is overwritten (`PackageGraph.cpp:346`, `:412`), although the comment at `:322` has
  anyone change PATH at any time (`appRead`).
- A neutral champion refuses every architecture-specific candidate, whatever its version (`PackageGraph.cpp:302`), so the result depends on the
  order of candidates and may be an older version; `DynamicDependencies.md:249-273` and the comment at `:301` put the version first
  (IsPackageABetterFitPerArchitecture). No property says so of dependencies that name no architecture: HighestVersionFiltered leaves them out.
- A deployment between the two calls of FindPackagesByPackageFamily fails the resolution (`PackageDependency.cpp:40`; NamesDoNotFit), and one that removes a
  candidate before it is looked up gives a null Package, which is asked for its status and ends the process (`PackageGraph.cpp:224-225`; Vanished).
- A node stays in the graph without a context when AddDllDirectory fails (`PackageGraph.cpp:96-110`; `mishaps`), and a
  removed package is still searched for WinRT classes (RemoveNode leaves `winrt` alone).
- With the same version a neutral package keeps a specific one out, against the comment at `PackageGraph.cpp:301`; a resolved
  dependency is never unresolved, against `DynamicDependencies.md:833-835` (AddResolved).
- A failed first Initialize leaves its entry in PATH (`MddBootstrap.cpp:432-439`) and its DDLM running until the process ends; the process's own
  framework may be newer than the one its DDLM pins (`PathEntryTemporary`, `ManagersExit`, AddDependency).

*Authorization requests*
- The sender looks for a null handle where CreateFile returns INVALID_HANDLE_VALUE, so its retry on a busy pipe never runs
  (`OAuth2Manager.cpp:119-140`), and it reports success although the receiver may disconnect after its 50 ms and drop what was
  written (`:159-160`; SenderWrites answers "true" when it has written, ConnectToNewClient drops what was not read).
- shouldReconnect is set the other way round than its comment says (`AuthRequestAsyncOperation.cpp:502-517`; Resume).
- A callback that drops the last reference waits in the destructor for itself (`:101-104`; Destroy needs the callback to be idle).
- A response whose error_uri is no URI throws after the status was set: the handler is never called (`:243`; "bad").
- A pipe's callback that runs before the request is in the pending list finds nothing to end and stops serving the pipe (`early`).

*Package deployment*
- The progress of EnsurePackageSetReady adds each item's share to what the service's callbacks already reported and exceeds 1.0
  (`M.W.M.D.PackageDeploymentManager.cpp:503`; `PackageManager.idl:115` says 0 to 1). Removal and registration by full name put the item's progress
  in place of the set's, which goes backwards (`:2485`; Report, `Adds`).
- Ensure fails when a newer version is installed in the meantime, Add, Stage and Register call that success (Succeeded). The result has the
  activity id of the last item only. Reporting of a single package stays at "queued".

*Push notifications*
- UnregisterAll unregisters the long-running activator first, which forgets the app's identifier (`platform.cpp:149`); UnregisterFullTrustApplication
  then finds none and does nothing (`:88-92`): wpncore keeps the app (UnregisterFullTrustApplication, `~Known`).
- An app that got a channel and ended before its long-running registration makes every later start of the process fail (`platform.cpp:243`; `lrp.slow`).
- Cancel does not take back a shutdown the timer has started: the process exits with an app registered (`lrp.late`). RegisterForegroundActivator
  cancels the timer, and nothing arms it again when the app crashes.
- A Register that fails at its last call forgets the app's identifier in its scope exits (`PushNotificationManager.cpp:533-536`), also one that an earlier
  CreateChannelAsync had a listener for. The listener and the toast mapping stay, the next Register gets a new identifier, and
  UnregisterAll leaves the old listener: the process never gets empty and never ends (`app.undone`).
- CreateChannelAsync is not guarded by `m_registering`: it may overlap Register or Unregister of the same app and register its sink again (`app.mixed`).
- Scope exits of Register throw when the platform fails; that ends the process (Failed, "Undo").
- wpncore keeps the app's sink when its removal fails, which is only logged (`NotificationListenerManager.cpp:49`), and when AsAgile throws
  after it was added (`:39`; `wpn.stray`). One app whose sink cannot be added ends the start of the process for all (`:36`; Initialize).
- Any failed call to an app's sink erases it, also when the app lives (`ForegroundSinkManager.cpp:56-60`), and the app is not told: it
  believes itself registered and its later notifications launch it instead ("dropped").
- A handler runs under the sink manager's lock and the client's own, held shared (`PushNotificationManager.cpp:800-803`): one that never returns, or that calls Unregister and waits for
  the lock its caller holds, blocks every later call that needs either. No liveness is claimed of push.

## Not modelled

- App notifications: the same registration with the same process as push, with toast activation instead of raw ones. Power notifications, Restart
  and its agent, Deployment, MddLifetimeManagementGC, the environment manager: their hazards are listed, the plan has them.
- In modelled components: RequestTokenAsync (one HTTP exchange) of OAuth; the bodies of Reset and Repair, pending registrations and the runtime manager
  of package deployment; arguments of a COM activation and toast properties of push; what marshalled packets and JSON files look like.
- Simplifications: in NotificationPlatform one process runs per app, and raw, class and
  toast entries of an app are removed in one step (they are under one lock). In PackageDeployment an item's URI is of its own family. In DependencyStore
  registry and file lifetimes are one artifact that may go.
- Activation arguments, notification payloads and badges, WinRT projections, wrappers of system calls, version constants:
  formatting or one call each, nothing an interleaving could change.
- The Detours, the reg-free WinRT catalog and MRT Core: sequential lookups in immutable data; MRT Core is a file-format library.
- Build files, installers, templates and vendored code.

## Plan

1. *Core, done:* the two things instances exchange (requests, keys) and their list; package graph, resolution, bootstrapper.
2. *More of the system, done:* OAuth requests; the push platform with its client; the dependency manager with its data store; the package
   deployment manager. Left, in this order: Deployment (packages one after another with a breakaway agent), Restart and its agent, power
   notifications (three events on one listener handle), MddLifetimeManagementGC as an algorithm, AppendToPath and RemoveFromPath with their tracking.
3. *Proofs, done:* every invariant and action property of the passing runs, and the refinement. Left: the safety half of liveness
   (which action a waiting party waits for, and that its guard holds).
