------------------------------ MODULE Bootstrap ------------------------------
(***************************************************************************)
(* The bootstrapper (MddBootstrap.cpp) in one unpackaged process: counted  *)
(* initialization of the Windows App Runtime framework package, and the    *)
(* lifetime manager (DDLM) processes that keep that package in use.        *)
(*                                                                         *)
(* Initialize and Shutdown run under g_initializationLock, so at most one  *)
(* call is under way; DDLM processes, the deployment service and the app's *)
(* other threads (which may set PATH) act between its steps.               *)
(***************************************************************************)
EXTENDS Naturals, Sequences, FiniteSets, SequencesExt

CONSTANTS
    Families,       \* major.minor version and version tag: a package family
    Kinds,          \* how the framework is brought in: "event" (a DDLM found by
                    \* enumeration), "com" (found by app extension), "os" (Windows 11)
    FailingSteps,   \* steps of FirstTimeInitialization that may fail
    MaxVersion,     \* bound: framework versions are 1 .. MaxVersion
    MaxCount,       \* bound: nesting of Initialize
    MaxManagers,    \* bound: DDLMs started by the process
    MaxAppEntries   \* bound: entries the app puts into PATH

ASSUME KindAssumption == Kinds \subseteq {"event", "com", "os"}
ASSUME FailingAssumption == FailingSteps \subseteq {"start", "load", "create", "add"}
ASSUME CountAssumption ==
    /\ MaxVersion \in Nat \ {0} /\ MaxCount \in Nat
    /\ MaxManagers \in Nat /\ MaxAppEntries \in Nat

Versions == 1 .. MaxVersion
Managers == 1 .. MaxManagers
Requests == [family : Families, minVersion : 0 .. MaxVersion]
None == [family |-> "none", minVersion |-> 0]
App == 0                \* a PATH entry of the app itself

ASSUME FamilyAssumption == "none" \notin Families

VARIABLES
    alive,      \* has the process not been terminated?
    kind,       \* which of Kinds applies to this process
    newest,     \* family -> highest version installed
    searchPath, \* PATH: versions, for the framework's directories, and App
    count,      \* m_initializationCount
    inUse,      \* g_initialization{MajorMinorVersion,VersionTag,FrameworkPackageVersion}
    inGraph,    \* g_packageDependencyContext: the version in the package graph, or 0
    dll,        \* g_windowsAppRuntimeDll: the version loaded, or 0
    manager,    \* g_endTheLifetimeManagerEvent or g_lifetimeManager, or 0
    stage,      \* where the Initialize under way is, or "idle"
    request,    \* its parameters
    new,        \* its locals: [manager, framework, resolved]
    started,    \* DDLMs started
    ddlm,       \* DDLM -> "none", "starting", "opened", "waiting" or "exited"
    signaled,   \* DDLMs whose event was set
    granted,    \* history: requests that succeeded since the count was last 0
    outcome,    \* history: how the last call ended
    incidents   \* history: a "failure" of an Initialize halfway, one "overtaken" by a
                \* newer framework, PATH "prepended" to while it ran

globals == <<count, inUse, inGraph, dll, manager>>
call == <<stage, request, new>>
managers == <<started, ddlm, signaled>>
told == <<granted, outcome, incidents>>
bootstrapVars == <<alive, kind, newest, searchPath, globals, call, managers, told>>

NoLocals == [manager |-> 0, framework |-> 0, resolved |-> 0]

BootstrapInit ==
    /\ alive = TRUE
    /\ kind \in Kinds
    /\ newest = [f \in Families |-> 1]
    /\ searchPath = << >>
    /\ count = 0 /\ inUse = None /\ inGraph = 0 /\ dll = 0 /\ manager = 0
    /\ stage = "idle" /\ request = None /\ new = NoLocals
    /\ started = 0
    /\ ddlm = [m \in Managers |-> "none"]
    /\ signaled = {}
    /\ granted = {} /\ outcome = "none" /\ incidents = {}

\* The event, or the COM object's reference, that the process holds of a DDLM.
Held(m) == alive /\ m \in {manager, new.manager}

-----------------------------------------------------------------------------
(* MddBootstrapInitialize2 *)

\* Mutant: the minimum version is compared the wrong way round.
CompatibleReversed(r, s) == r.family = s.family /\ r.minVersion >= s.minVersion

Compatible(r, s) == r.family = s.family /\ r.minVersion <= s.minVersion

\* VerifyInitializationIsCompatible compares with the recorded framework.
InitializeAgain(r) ==
    /\ alive /\ stage = "idle" /\ count \in 1 .. MaxCount - 1
    /\ \/ /\ Compatible(r, inUse)
          /\ count' = count + 1
          /\ granted' = granted \cup {r} /\ outcome' = "ok"
       \/ /\ ~Compatible(r, inUse)
          /\ outcome' = "incompatible" /\ UNCHANGED <<count, granted>>
    /\ request' = r
    /\ UNCHANGED <<alive, kind, newest, searchPath, inUse, inGraph, dll, manager, stage, new,
                   managers, incidents>>

FirstTimeInitialization(r) ==
    /\ alive /\ stage = "idle" /\ count = 0 /\ MaxCount > 0
    /\ kind # "os" => started < MaxManagers
    /\ request' = r
    /\ stage' = IF kind = "os" THEN "create" ELSE "start"
    /\ UNCHANGED <<alive, kind, newest, searchPath, globals, new, managers, told>>

\* CreateLifetimeManager: the event, then the process.  A COM server is up when
\* CoCreateInstance returns.  The framework is the DDLM's own dependency.
CreateLifetimeManager ==
    /\ stage = "start" /\ newest[request.family] >= request.minVersion
    /\ started' = started + 1
    /\ ddlm' = [ddlm EXCEPT ![started'] = IF kind = "event" THEN "starting" ELSE "waiting"]
    /\ new' = [new EXCEPT !.manager = started', !.framework = newest[request.family]]
    /\ stage' = "load"
    /\ UNCHANGED <<alive, kind, newest, searchPath, globals, request, signaled, told>>

\* AddFrameworkToPath, then LoadLibraryEx.
LoadRuntime ==
    /\ stage = "load"
    /\ searchPath' = <<new.framework>> \o searchPath
    /\ stage' = "create"
    /\ UNCHANGED <<alive, kind, newest, globals, request, new, managers, told>>

\* MddTryCreatePackageDependency resolves by family and minimum version.  When
\* this step fails, LoadLibraryEx may have, or the resolution.
CreateDependency ==
    /\ stage = "create" /\ newest[request.family] >= request.minVersion
    /\ new' = [new EXCEPT !.resolved = newest[request.family]]
    /\ stage' = "add"
    /\ UNCHANGED <<alive, kind, newest, searchPath, globals, request, managers, told>>

\* Mutant: the temporary entry stays.
RemoveNothing(p, v) == p

\* RemoveFrameworkFromPath looks at the front of PATH only.
RemoveFromFront(p, v) == IF p # << >> /\ Head(p) = v THEN Tail(p) ELSE p

\* MddAddPackageDependency puts the package's directory before PATH; then the
\* temporary entry goes and the process is initialized.
AddDependency ==
    /\ stage = "add"
    /\ searchPath' = IF kind = "os" THEN searchPath
               ELSE RemoveFromFront(<<new.resolved>> \o searchPath, new.framework)
    /\ inGraph' = new.resolved
    /\ dll' = new.framework
    /\ manager' = new.manager
    /\ inUse' = [family |-> request.family,
                 minVersion |-> IF kind = "os" THEN new.resolved ELSE new.framework]
    /\ count' = 1
    /\ granted' = {request} /\ outcome' = "ok"
    /\ incidents' = IF kind # "os" /\ new.resolved # new.framework
                  THEN incidents \cup {"overtaken"} ELSE incidents
    /\ stage' = "idle" /\ new' = NoLocals
    /\ UNCHANGED <<alive, kind, newest, request, managers>>

\* An exception: the locals are released, so a COM server loses its reference
\* and the event is closed without being set.  PATH stays as it is.
InitializeFails ==
    /\ stage \in FailingSteps \/ (stage \in {"start", "create"}
                              /\ newest[request.family] < request.minVersion)
    /\ outcome' = "failed" /\ incidents' = incidents \cup {"failure"}
    /\ stage' = "idle" /\ new' = NoLocals
    /\ UNCHANGED <<alive, kind, newest, searchPath, globals, request, managers, granted>>

-----------------------------------------------------------------------------
(* MddBootstrapShutdown *)

\* Mutant: the process stops being initialized at the first Shutdown.
ShutdownAtOnce ==
    /\ alive /\ stage = "idle"
    /\ count' = IF count = 0 THEN 0 ELSE count - 1
    /\ inUse' = None
    /\ IF count > 0
       THEN /\ searchPath' = IF kind = "os" THEN searchPath ELSE RemoveFirst(searchPath, inGraph)
            /\ inGraph' = 0 /\ dll' = 0 /\ manager' = 0
            /\ signaled' = IF kind = "event" THEN signaled \cup {manager} ELSE signaled
            /\ granted' = {}
       ELSE UNCHANGED <<searchPath, inGraph, dll, manager, signaled, granted>>
    /\ outcome' = "shutdown"
    /\ UNCHANGED <<alive, kind, newest, call, started, ddlm, incidents>>

\* Mutant: the event is closed and never set.
ShutdownUnsignaled ==
    /\ alive /\ stage = "idle"
    /\ count' = IF count = 0 THEN 0 ELSE count - 1
    /\ inUse' = None
    /\ IF count = 1
       THEN /\ searchPath' = IF kind = "os" THEN searchPath ELSE RemoveFirst(searchPath, inGraph)
            /\ inGraph' = 0 /\ dll' = 0 /\ manager' = 0
            /\ granted' = {}
       ELSE UNCHANGED <<searchPath, inGraph, dll, manager, granted>>
    /\ outcome' = "shutdown"
    /\ UNCHANGED <<alive, kind, newest, call, started, ddlm, signaled, incidents>>

\* The parameters are forgotten at every Shutdown, the rest at the last one.
Shutdown ==
    /\ alive /\ stage = "idle"
    /\ count' = IF count = 0 THEN 0 ELSE count - 1
    /\ inUse' = None
    /\ IF count = 1
       THEN /\ searchPath' = IF kind = "os" THEN searchPath ELSE RemoveFirst(searchPath, inGraph)
            /\ inGraph' = 0 /\ dll' = 0 /\ manager' = 0
            /\ signaled' = IF kind = "event" THEN signaled \cup {manager} ELSE signaled
            /\ granted' = {}
       ELSE UNCHANGED <<searchPath, inGraph, dll, manager, signaled, granted>>
    /\ outcome' = "shutdown"
    /\ UNCHANGED <<alive, kind, newest, call, started, ddlm, incidents>>

-----------------------------------------------------------------------------
(* The DDLM processes *)

Move(m, to) ==
    /\ ddlm' = [ddlm EXCEPT ![m] = to]
    /\ UNCHANGED <<alive, kind, newest, searchPath, globals, call, started, signaled, told>>

\* The event is gone if nobody has it open any more.
OpenEvent(m) ==
    /\ ddlm[m] = "starting"
    /\ Move(m, IF Held(m) THEN "opened" ELSE "exited")

OpenCaller(m) ==
    /\ ddlm[m] = "opened"
    /\ Move(m, IF alive THEN "waiting" ELSE "exited")

\* The event is set, the caller has ended, or the COM object has been released.
Quit(m) ==
    /\ ddlm[m] = "waiting"
    /\ m \in signaled \/ ~alive \/ (kind = "com" /\ ~Held(m))
    /\ Move(m, "exited")

-----------------------------------------------------------------------------
(* Others *)

InstallFramework(f) ==
    /\ newest[f] < MaxVersion
    /\ newest' = [newest EXCEPT ![f] = @ + 1]
    /\ UNCHANGED <<alive, kind, searchPath, globals, call, managers, told>>

AppPrepends ==
    /\ alive /\ Cardinality({i \in DOMAIN searchPath : searchPath[i] = App}) < MaxAppEntries
    /\ searchPath' = <<App>> \o searchPath
    /\ incidents' = IF stage = "idle" THEN incidents ELSE incidents \cup {"prepended"}
    /\ UNCHANGED <<alive, kind, newest, globals, call, managers, granted, outcome>>

ProcessEnds ==
    /\ alive
    /\ alive' = FALSE
    /\ stage' = "idle"
    /\ UNCHANGED <<kind, newest, searchPath, globals, request, new, managers, told>>

ManagerStep(m) == OpenEvent(m) \/ OpenCaller(m) \/ Quit(m)

CallStep ==
    \/ CreateLifetimeManager \/ LoadRuntime \/ CreateDependency \/ AddDependency
    \/ InitializeFails

BootstrapNext ==
    \/ \E r \in Requests : InitializeAgain(r) \/ FirstTimeInitialization(r)
    \/ CallStep \/ Shutdown
    \/ \E m \in Managers : ManagerStep(m)
    \/ \E f \in Families : InstallFramework(f)
    \/ AppPrepends \/ ProcessEnds

BootstrapSpec == BootstrapInit /\ [][BootstrapNext]_bootstrapVars

\* A call that has begun goes on, and so do the DDLM processes.
BootstrapFairness ==
    /\ WF_bootstrapVars(CallStep)
    /\ \A m \in Managers : WF_bootstrapVars(ManagerStep(m))

FairBootstrapSpec == BootstrapSpec /\ BootstrapFairness

-----------------------------------------------------------------------------
(* Properties *)

BootstrapTypeOK ==
    /\ alive \in BOOLEAN
    /\ kind \in Kinds
    /\ newest \in [Families -> Versions]
    /\ searchPath \in Seq(Versions \cup {App})
    /\ count \in 0 .. MaxCount
    /\ inUse \in Requests \cup {None}
    /\ inGraph \in 0 .. MaxVersion
    /\ dll \in 0 .. MaxVersion
    /\ manager \in 0 .. MaxManagers
    /\ stage \in {"idle", "start", "load", "create", "add"}
    /\ request \in Requests \cup {None}
    /\ new \in [manager : 0 .. MaxManagers, framework : 0 .. MaxVersion, resolved : 0 .. MaxVersion]
    /\ started \in 0 .. MaxManagers
    /\ ddlm \in [Managers -> {"none", "starting", "opened", "waiting", "exited"}]
    /\ signaled \subseteq 1 .. started
    /\ granted \subseteq Requests
    /\ outcome \in {"none", "ok", "incompatible", "failed", "shutdown"}
    /\ incidents \subseteq {"failure", "overtaken", "prepended"}

\* Between calls the process is either initialized with everything that takes
\* or with nothing at all, whatever failed before: what both branches of
\* _MddBootstrapInitialize check with FAIL_FAST.
InitializedWhole ==
    /\ BootstrapTypeOK
    /\ stage = "idle" =>
           IF count = 0
           THEN inGraph = 0 /\ dll = 0 /\ manager = 0
           ELSE inGraph > 0 /\ (kind # "os" => dll > 0 /\ manager > 0)

\* Every caller that was told S_OK has the framework it asked for, until the
\* last of them has shut down: a later Initialize never changes it.
GrantedServed == \A r \in granted : count > 0 /\ r.minVersion <= inGraph

\* The framework of an initialized process is pinned: its DDLM has not exited.
FrameworkPinned ==
    alive /\ count > 0 /\ kind # "os" => ddlm[manager] \notin {"none", "exited"}

\* What was granted stays: served and pinned.
GrantKept == GrantedServed /\ FrameworkPinned

\* The framework's directory is in PATH while the process is initialized and
\* leaves PATH with the last Shutdown, and the entry FirstTimeInitialization
\* makes is temporary: unless an Initialize failed after it made the entry, or a
\* newer framework was installed or the app changed PATH while it ran.
Entries(p) == Cardinality({i \in DOMAIN p : p[i] # App})
PathEntryTemporary ==
    alive /\ stage = "idle" /\ incidents = {}
        => Entries(searchPath) = IF count > 0 /\ kind # "os" THEN 1 ELSE 0

\* A request that the framework in use satisfies is not refused.
CompatibleAccepted ==
    outcome = "incompatible" =>
        \A r \in granted : request.family # r.family \/ request.minVersion > inGraph

\* A DDLM exits when its process ends, and before that when it is shut down:
\* only an Initialize that fails leaves one behind.
ManagersExit ==
    \A m \in Managers :
        ddlm[m] # "none" /\ ~Held(m) /\ (alive => "failure" \notin incidents)
            ~> ddlm[m] = "exited"
=============================================================================
