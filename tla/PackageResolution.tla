-------------------------- MODULE PackageResolution --------------------------
(***************************************************************************)
(* How one package dependency is resolved to a package of its family       *)
(* (PackageGraph.cpp, ResolvePackageDependency and what Add does with the  *)
(* result), while the user's packages come, go and break under the hands   *)
(* of the deployment service.                                              *)
(*                                                                         *)
(* Resolution looks at one candidate after the other, in the order in      *)
(* which FindPackagesByPackageFamily returned them: any order.             *)
(***************************************************************************)
EXTENDS Naturals, FiniteSets

CONSTANTS
    Family,         \* framework packages of the family
    Version,        \* package -> its version
    Architecture,   \* package -> its processor architecture
    Neutral,        \* the architecture "neutral"
    Current,        \* the architecture of the process
    Filters,        \* the architectures a dependency may name: {} when it names none
    MinVersion,     \* the dependency's minimum version
    NoPackage,
    MaxContexts,    \* bound: contexts open at a time
    MaxChanges      \* bound: deployments that happen to the family

ASSUME PackageAssumption ==
    /\ Version \in [Family -> Nat]
    /\ MinVersion \in Nat
    /\ \A f \in Filters : f \subseteq {Neutral} \cup {Architecture[p] : p \in Family}
    /\ NoPackage \notin Family
ASSUME ChangesAssumption == MaxContexts \in Nat /\ MaxChanges \in Nat

VARIABLES
    filter,     \* the architectures this dependency names
    installed,  \* packages registered to the user
    broken,     \* packages whose status is not OK
    changes,    \* deployments so far
    purpose,    \* "idle", what the resolution under way is for: "create", "add",
                \* or "ended" when it took the process with it
    listing,    \* has the family only been counted so far?
    counted,    \* ... and what was in it then
    todo,       \* candidates not looked at yet
    best,       \* the best fit so far
    resolved,   \* the dependency's ResolvedPackageFullName
    exists,     \* has the dependency been created?
    contexts,   \* contexts it has open
    last,       \* how the last resolution or Add ended
    steady      \* history: usable ever since the last resolution began

deployment == <<installed, broken, changes>>
dependency == <<resolved, exists, contexts>>
search == <<purpose, listing, counted, todo, best>>
resolutionVars == <<filter, deployment, search, dependency, last, steady>>

ResolutionInit ==
    /\ filter \in Filters
    /\ installed \in SUBSET Family
    /\ broken = {} /\ changes = 0
    /\ purpose = "idle" /\ listing = FALSE /\ counted = {} /\ todo = {} /\ best = NoPackage
    /\ resolved = NoPackage /\ exists = FALSE /\ contexts = 0
    /\ last = "none" /\ steady = {}

-----------------------------------------------------------------------------
(* The filters a candidate has to pass *)

\* IsPackageABetterFitPerArchitecture: asked when the dependency names no
\* architecture.
IsPackageABetterFitPerArchitecture(champion, candidate) ==
    /\ Architecture[candidate] \in {Neutral, Current}
    /\ champion # NoPackage /\ Architecture[champion] = Neutral
          => Architecture[candidate] = Neutral

PassesArchitecture(champion, candidate) ==
    IF filter = {} THEN IsPackageABetterFitPerArchitecture(champion, candidate)
                   ELSE Architecture[candidate] \in filter

\* Mutant: the last candidate that qualifies wins.
PassesFiltersLast(champion, candidate) ==
    Version[candidate] >= MinVersion /\ PassesArchitecture(champion, candidate)

\* Mutant: a package of exactly the minimum version is refused.
PassesFiltersAbove(champion, candidate) ==
    /\ champion # NoPackage => Version[champion] <= Version[candidate]
    /\ Version[candidate] > MinVersion
    /\ PassesArchitecture(champion, candidate)

PassesFilters(champion, candidate) ==
    /\ champion # NoPackage => Version[champion] <= Version[candidate]
    /\ Version[candidate] >= MinVersion
    /\ PassesArchitecture(champion, candidate)

-----------------------------------------------------------------------------
(* Resolution *)

\* FindPackagesByFamily first asks how many packages there are and how long their
\* names ...
Resolve(for) ==
    /\ purpose' = for
    /\ listing' = TRUE /\ counted' = installed
    /\ best' = NoPackage
    /\ last' = "none"
    /\ steady' = installed \ broken
    /\ UNCHANGED todo

\* The resolution ends in an error, or with the process.
Stop(outcome) ==
    /\ purpose' = IF outcome = "crash" THEN "ended" ELSE "idle"
    /\ listing' = FALSE /\ counted' = {} /\ todo' = {} /\ best' = NoPackage
    /\ last' = outcome
    /\ steady' = {}
    /\ UNCHANGED <<filter, deployment, dependency>>

\* ... then for the names, if there are any and they still fit.
ListNames ==
    /\ listing
    /\ counted = {} \/ Cardinality(installed) <= Cardinality(counted)
    /\ todo' = IF counted = {} THEN {} ELSE installed
    /\ listing' = FALSE /\ counted' = {}
    /\ UNCHANGED <<filter, deployment, purpose, best, dependency, last, steady>>

\* Other packages may be more, or have longer names.
NamesDoNotFit ==
    /\ listing /\ counted # {} /\ ~(installed \subseteq counted)
    /\ Stop("error")

Choosing == purpose \in {"create", "add"} /\ ~listing

Skip(p) ==
    /\ Choosing /\ p \in todo
    /\ ~PassesFilters(best, p) \/ p \in installed \cap broken
    /\ todo' = todo \ {p}
    /\ UNCHANGED <<filter, deployment, purpose, listing, counted, best, dependency, last, steady>>

\* FindPackageForUser finds the candidate, and its status is OK.
Take(p) ==
    /\ Choosing /\ p \in todo
    /\ PassesFilters(best, p) /\ p \in installed \ broken
    /\ todo' = todo \ {p}
    /\ best' = p
    /\ UNCHANGED <<filter, deployment, purpose, listing, counted, dependency, last, steady>>

\* The candidate was removed since the family was listed: FindPackageForUser
\* returns a null package, and its status is asked for all the same.
Vanished(p) ==
    /\ Choosing /\ p \in todo
    /\ PassesFilters(best, p) /\ p \notin installed
    /\ Stop("crash")

NotFound ==
    /\ Choosing /\ todo = {} /\ best = NoPackage
    /\ purpose' = "idle"
    /\ last' = "notFound"
    /\ UNCHANGED <<filter, deployment, listing, counted, todo, best, dependency, steady>>

\* The name is kept in the dependency.  CreatePackageDependency then goes on to
\* store it; Add makes a node of the package, which must still be there.
Found ==
    /\ Choosing /\ todo = {} /\ best # NoPackage
    /\ resolved' = best
    /\ purpose' = "idle"
    /\ \/ /\ purpose = "create"
          /\ exists' = TRUE /\ last' = "ok" /\ UNCHANGED contexts
       \/ /\ purpose = "add" /\ best \in installed
          /\ contexts' = contexts + 1 /\ last' = "ok" /\ UNCHANGED exists
       \/ /\ purpose = "add" /\ best \notin installed
          /\ last' = "gone" /\ UNCHANGED <<exists, contexts>>
    /\ UNCHANGED <<filter, deployment, listing, counted, todo, best, steady>>

-----------------------------------------------------------------------------
(* The app *)

CreatePackageDependency ==
    /\ purpose = "idle" /\ ~exists
    /\ \/ Resolve("create") /\ UNCHANGED dependency
       \/ /\ exists' = TRUE     \* DoNotVerifyDependencyResolution
          /\ UNCHANGED <<search, resolved, contexts, last, steady>>
    /\ UNCHANGED <<filter, deployment>>

Add ==
    /\ purpose = "idle" /\ exists /\ resolved = NoPackage /\ contexts < MaxContexts
    /\ Resolve("add")
    /\ UNCHANGED <<filter, deployment, dependency>>

\* A dependency that is resolved is not resolved again.
AddResolved ==
    /\ purpose = "idle" /\ exists /\ resolved # NoPackage /\ contexts < MaxContexts
    /\ \/ resolved \in installed /\ contexts' = contexts + 1 /\ last' = "ok"
       \/ resolved \notin installed /\ last' = "gone" /\ UNCHANGED contexts
    /\ UNCHANGED <<filter, deployment, search, resolved, exists, steady>>

RemoveDependency ==
    /\ purpose = "idle" /\ contexts > 0
    /\ contexts' = contexts - 1
    /\ UNCHANGED <<filter, deployment, search, resolved, exists, last, steady>>

-----------------------------------------------------------------------------
(* The deployment service *)

Deploy(inst, brk) ==
    /\ changes < MaxChanges
    /\ changes' = changes + 1
    /\ installed' = inst /\ broken' = brk
    /\ steady' = IF purpose \in {"create", "add"} THEN steady \cap (inst \ brk) ELSE steady
    /\ UNCHANGED <<filter, search, dependency, last>>

ResolutionNext ==
    \/ CreatePackageDependency \/ Add \/ AddResolved \/ RemoveDependency
    \/ ListNames \/ NamesDoNotFit \/ NotFound \/ Found
    \/ \E p \in Family :
          \/ Skip(p) \/ Take(p) \/ Vanished(p)
          \/ p \notin installed /\ Deploy(installed \cup {p}, broken)
          \/ p \in installed /\ Deploy(installed \ {p}, broken \ {p})
          \/ p \in installed \ broken /\ Deploy(installed, broken \cup {p})

ResolutionSpec == ResolutionInit /\ [][ResolutionNext]_resolutionVars

-----------------------------------------------------------------------------
(* Properties *)

ResolutionTypeOK ==
    /\ filter \in Filters
    /\ installed \subseteq Family /\ broken \subseteq installed
    /\ changes \in 0 .. MaxChanges
    /\ purpose \in {"idle", "create", "add", "ended"}
    /\ listing \in BOOLEAN /\ counted \subseteq Family /\ todo \subseteq Family
    /\ best \in Family \cup {NoPackage}
    /\ resolved \in Family \cup {NoPackage}
    /\ exists \in BOOLEAN
    /\ contexts \in 0 .. MaxContexts
    /\ last \in {"none", "ok", "notFound", "error", "crash", "gone"}
    /\ steady \subseteq Family
    /\ purpose \in {"idle", "ended"} => todo = {} /\ ~listing
    /\ listing => todo = {} /\ best = NoPackage
    /\ purpose = "add" => contexts < MaxContexts
    /\ contexts > 0 => resolved # NoPackage

\* What the dependency asks for, whatever other candidates there are.
Eligible(p) ==
    /\ Version[p] >= MinVersion
    /\ Architecture[p] \in (IF filter = {} THEN {Neutral, Current} ELSE filter)

\* A resolution that finds nothing had nothing to find: no eligible package was
\* installed and usable from its beginning to its end.
NotFoundMeansNone ==
    purpose = "idle" /\ last = "notFound" => \A p \in steady : ~Eligible(p)

\* The highest version wins, whatever its architecture.
HighestVersion ==
    purpose = "idle" /\ last = "ok" /\ resolved = best =>
        \A p \in steady : Eligible(p) /\ resolved # NoPackage => Version[p] <= Version[resolved]

\* It does when the dependency names its architectures.
HighestVersionFiltered == filter # {} => HighestVersion
=============================================================================
