---------------------------- MODULE PackageGraph ----------------------------
(***************************************************************************)
(* The dynamic package graph of one process (PackageGraphManager.cpp,      *)
(* PackageGraph.cpp, WinRTModuleManager.cpp): the nodes sorted by rank,    *)
(* the WinRT packages beside them, and what the DLL search order is made   *)
(* of, the PATH variable and the directories of AddDllDirectory.           *)
(*                                                                         *)
(* Add and Remove run under PackageGraphManager::s_lock, so one of them is *)
(* under way at a time; PATH belongs to the whole process and the app may  *)
(* set it between any two of their steps.                                  *)
(***************************************************************************)
EXTENDS Integers, Sequences, SequencesExt

CONSTANTS
    Packages,       \* framework packages a dependency may resolve to
    Ranks,
    Dirs,           \* PATH entries of the app itself
    MaxContext,     \* bound: contexts generated
    MaxRevision,    \* bound: the revision id
    MaxPath,        \* bound: entries the app puts into PATH
    Failures,       \* which system calls may fail: among "SetEnvironmentVariable",
                    \* "AddDllDirectory" and "ParseAppxManifest"
    AppResets       \* may the app put back a PATH without the graph's entries?

ASSUME RankAssumption == Ranks \subseteq Int
ASSUME DirAssumption == Packages \cap Dirs = {}
ASSUME BoundAssumption == MaxContext \in Nat /\ MaxRevision \in Nat /\ MaxPath \in Nat
ASSUME ResetAssumption == AppResets \in BOOLEAN

VARIABLES
    graph,      \* m_packageGraphNodes
    winrt,      \* WinRTModuleManager::s_winrtPackages, by context
    lastContext, \* PackageGraphNode::s_lastContext
    revision,   \* s_packageGraphRevisionId
    path,       \* PATH, entry by entry
    lastAdded,  \* m_pathListLastAddedToPath
    step,       \* where the Add or Remove under way is, or "idle"
    current,    \* the context it adds or removes
    adding,     \* is it an Add?
    newPath,    \* UpdatePath's local
    handed,     \* history: contexts the app got and has not given back
    appPath,    \* history: the entries the app itself put into PATH and no UpdatePath lost
    appRead,    \* history: appPath when UpdatePath last read PATH
    published,  \* history: revision and contexts when a call last returned
    mishaps     \* history: "failure" of a call halfway, "reset" of PATH by the app

op == <<step, current, adding, newPath>>
history == <<handed, appPath, appRead, published, mishaps>>
vars == <<graph, winrt, lastContext, revision, path, lastAdded, op, history>>

Contexts == 1 .. MaxContext
Node == [context : Contexts, package : Packages, rank : Ranks, dlls : BOOLEAN]

Init ==
    /\ graph = << >> /\ winrt = << >>
    /\ lastContext = 0 /\ revision = 0
    /\ path \in {<<d>> : d \in Dirs} \cup {<< >>}
    /\ lastAdded = << >>
    /\ step = "idle" /\ current = 0 /\ adding = FALSE /\ newPath = << >>
    /\ handed = {} /\ appPath = path /\ appRead = << >>
    /\ published = [revision |-> 0, contexts |-> << >>]
    /\ mishaps = {}

PathList(g) == [i \in DOMAIN g |-> g[i].package]
ContextsOf(g) == [i \in DOMAIN g |-> g[i].context]

\* The lock is released.
Return(g, rev) ==
    /\ step' = "idle" /\ current' = 0 /\ newPath' = << >>
    /\ revision' = rev
    /\ published' = [revision |-> rev, contexts |-> ContextsOf(g)]

-----------------------------------------------------------------------------
(* AddToPackageGraph *)

\* Mutant: the new node always goes to the end.
InsertionPointEnd(g, rank, prepend) == Len(g) + 1

\* Mutant: the test for the rank of the next node is off by one.
StopsAtEqual(node, rank, prepend) == rank <= node.rank

\* Where the loop stops: not yet at a lower rank, at a higher one always, at the
\* same one if the node is to be prepended.  To append, the code looks for the
\* end of the rank in a loop of its own, which only leaves itself.
Stops(node, rank, prepend) ==
    node.rank >= rank /\ (rank < node.rank \/ (node.rank = rank /\ prepend))

\* The first node where the loop stops, or the end.
InsertionPoint(g, rank, prepend) ==
    CHOOSE i \in 1 .. Len(g) + 1 :
        /\ i <= Len(g) => Stops(g[i], rank, prepend)
        /\ \A j \in 1 .. i - 1 : ~Stops(g[j], rank, prepend)

\* Mutant: a package is inserted into the list only where there is one already.
InsertOrDrop(s, i, x) == IF i <= Len(s) THEN InsertAt(s, i, x) ELSE s

\* WinRTModuleManager::Insert: the graph's index, or the end if that is nearer.
InsertOrAppend(s, i, x) == IF i <= Len(s) THEN InsertAt(s, i, x) ELSE Append(s, x)

AddNode(package, rank, prepend) ==
    /\ step = "idle" /\ lastContext < MaxContext /\ revision < MaxRevision
    /\ lastContext' = lastContext + 1
    /\ LET i == InsertionPoint(graph, rank, prepend)
           node == [context |-> lastContext', package |-> package, rank |-> rank, dlls |-> FALSE]
       IN  /\ graph' = InsertAt(graph, i, node)
           /\ winrt' = InsertOrAppend(winrt, i, lastContext')
    /\ step' = "readPath" /\ current' = lastContext' /\ adding' = TRUE
    /\ UNCHANGED <<revision, path, lastAdded, newPath, history>>

\* The package's manifest cannot be read: a context is used up, nothing else.
ParseAppxManifestFails ==
    /\ "ParseAppxManifest" \in Failures
    /\ step = "idle" /\ lastContext < MaxContext
    /\ lastContext' = lastContext + 1
    /\ UNCHANGED <<graph, winrt, revision, path, lastAdded, op, history>>

\* Mutant: Add does not advance the revision id.
AddDllDirectoriesSilent ==
    /\ step = "addDlls"
    /\ graph' = [i \in DOMAIN graph |->
                    [graph[i] EXCEPT !.dlls = @ \/ graph[i].context = current]]
    /\ handed' = handed \cup {current}
    /\ Return(graph, revision)
    /\ UNCHANGED <<winrt, lastContext, path, lastAdded, adding, appPath, appRead, mishaps>>

AddDllDirectories ==
    /\ step = "addDlls"
    /\ graph' = [i \in DOMAIN graph |->
                    [graph[i] EXCEPT !.dlls = @ \/ graph[i].context = current]]
    /\ handed' = handed \cup {current}
    /\ Return(graph, revision + 1)
    /\ UNCHANGED <<winrt, lastContext, path, lastAdded, adding, appPath, appRead, mishaps>>

\* The exception leaves Add: the app gets no context, the node stays.
AddDllDirectoriesFails ==
    /\ "AddDllDirectory" \in Failures
    /\ step = "addDlls"
    /\ Return(graph, revision)
    /\ mishaps' = mishaps \cup {"failure"}
    /\ UNCHANGED <<graph, winrt, lastContext, path, lastAdded, adding, handed, appPath, appRead>>

-----------------------------------------------------------------------------
(* RemoveFromPackageGraph *)

\* The node goes, and its AddDllDirectory cookies with it.  WinRTModuleManager
\* has no operation that removes a package.
RemoveNode(context) ==
    /\ step = "idle" /\ revision < MaxRevision
    /\ \E i \in DOMAIN graph :
          /\ graph[i].context = context
          /\ graph' = RemoveAt(graph, i)
    /\ handed' = handed \ {context}
    /\ step' = "readPath" /\ current' = context /\ adding' = FALSE
    /\ UNCHANGED <<winrt, lastContext, revision, path, lastAdded, newPath, appPath, appRead, published, mishaps>>

\* A context that is not in the graph: logged, and the revision moves on.
RemoveUnknown(context) ==
    /\ step = "idle" /\ revision < MaxRevision
    /\ \A i \in DOMAIN graph : graph[i].context # context
    /\ Return(graph, revision + 1)
    /\ UNCHANGED <<graph, winrt, lastContext, path, lastAdded, adding, handed, appPath, appRead, mishaps>>

-----------------------------------------------------------------------------
(* UpdatePath: the last step but one of Add, the last of Remove *)

BlockAt(p, block, i) == SubSeq(p, i, i + Len(block) - 1) = block

\* Take the block out where it occurs first.  If it is not there newPath has
\* never been assigned: the rest of PATH is dropped with it.
Without(p, block) ==
    LET at == {i \in 1 .. Len(p) - Len(block) + 1 : BlockAt(p, block, i)}
        first == CHOOSE i \in at : \A j \in at : i <= j
    IN  CASE block = << >> -> p
          [] block # << >> /\ at = {} -> << >>
          [] OTHER -> SubSeq(p, 1, first - 1) \o SubSeq(p, first + Len(block), Len(p))

ReadPath ==
    /\ step = "readPath"
    /\ newPath' = PathList(graph) \o Without(path, lastAdded)
    /\ step' = "writePath"
    /\ appRead' = appPath
    /\ UNCHANGED <<graph, winrt, lastContext, revision, path, lastAdded, current, adding,
                   handed, appPath, published, mishaps>>

\* Mutant: the entries put into PATH are not remembered.
WritePathForgets ==
    /\ step = "writePath"
    /\ path' = newPath /\ appPath' = appRead
    /\ \/ /\ adding
          /\ step' = "addDlls"
          /\ UNCHANGED <<current, newPath, revision, published>>
       \/ ~adding /\ Return(graph, revision + 1)
    /\ UNCHANGED <<graph, winrt, lastContext, lastAdded, adding, handed, appRead, mishaps>>

\* What the app has put into PATH since it was read is overwritten.
WritePath ==
    /\ step = "writePath"
    /\ path' = newPath /\ appPath' = appRead
    /\ lastAdded' = PathList(graph)
    /\ \/ /\ adding
          /\ step' = "addDlls"
          /\ UNCHANGED <<current, newPath, revision, published>>
       \/ ~adding /\ Return(graph, revision + 1)
    /\ UNCHANGED <<graph, winrt, lastContext, adding, handed, appRead, mishaps>>

\* The exception leaves Add, or Remove: neither goes on to the revision id.
WritePathFails ==
    /\ "SetEnvironmentVariable" \in Failures
    /\ step = "writePath"
    /\ Return(graph, revision)
    /\ mishaps' = mishaps \cup {"failure"}
    /\ UNCHANGED <<graph, winrt, lastContext, path, lastAdded, adding, handed, appPath, appRead>>

-----------------------------------------------------------------------------
(* The app sets PATH *)

AppAppends(d) ==
    /\ Len(appPath) < MaxPath
    /\ path' = Append(path, d)
    /\ appPath' = Append(appPath, d)
    /\ UNCHANGED <<graph, winrt, lastContext, revision, lastAdded, op, handed, appRead, published, mishaps>>

\* A PATH the app had saved before the packages were added.
AppPutsBack ==
    /\ AppResets
    /\ path # appPath
    /\ path' = appPath
    /\ mishaps' = mishaps \cup {"reset"}
    /\ UNCHANGED <<graph, winrt, lastContext, revision, lastAdded, op, handed, appPath, appRead, published>>

-----------------------------------------------------------------------------
Next ==
    \/ \E package \in Packages, rank \in Ranks, prepend \in BOOLEAN :
          AddNode(package, rank, prepend)
    \/ ParseAppxManifestFails
    \/ AddDllDirectories \/ AddDllDirectoriesFails
    \/ \E context \in Contexts : RemoveNode(context) \/ RemoveUnknown(context)
    \/ ReadPath \/ WritePath \/ WritePathFails
    \/ \E d \in Dirs : AppAppends(d)
    \/ AppPutsBack

Spec == Init /\ [][Next]_vars

-----------------------------------------------------------------------------
(* Properties *)

TypeOK ==
    /\ graph \in Seq(Node)
    /\ winrt \in Seq(Contexts)
    /\ lastContext \in 0 .. MaxContext
    /\ revision \in 0 .. MaxRevision
    /\ path \in Seq(Packages \cup Dirs)
    /\ lastAdded \in Seq(Packages)
    /\ step \in {"idle", "readPath", "writePath", "addDlls"}
    /\ current \in 0 .. MaxContext
    /\ adding \in BOOLEAN
    /\ newPath \in Seq(Packages \cup Dirs)
    /\ handed \subseteq Contexts
    /\ appPath \in Seq(Dirs) /\ appRead \in Seq(Dirs)
    /\ published \in [revision : 0 .. MaxRevision, contexts : Seq(Contexts)]
    /\ mishaps \subseteq {"failure", "reset"}

\* The graph is a list sorted by rank in ascending order, and no two of its
\* nodes have the same context, whatever is added and removed in between.
RankSorted == \A i, j \in DOMAIN graph : i < j => graph[i].rank <= graph[j].rank
ContextsDistinct ==
    \A i, j \in DOMAIN graph : graph[i].context = graph[j].context => i = j

\* No package of the graph is missing among the WinRT packages, which are searched
\* in the graph's order as long as no package was removed.
WinRTOrder ==
    /\ Len(graph) <= Len(winrt)
    /\ Len(graph) = Len(winrt) => winrt = ContextsOf(graph)

GraphSorted == TypeOK /\ RankSorted /\ ContextsDistinct /\ WinRTOrder

\* Wherever the loop over the graph stops, a new node comes first among those of
\* its rank if it is prepended and last if it is not; the order of the others
\* does not change.
Added(g, h) == CHOOSE i \in DOMAIN h : \A j \in DOMAIN g : g[j].context # h[i].context
CollisionOrder ==
    [][ \A package \in Packages, rank \in Ranks, prepend \in BOOLEAN :
            AddNode(package, rank, prepend) =>
                LET i == Added(graph, graph') IN
                /\ RemoveAt(graph', i) = graph
                /\ \A j \in DOMAIN graph' \ {i} :
                      graph'[j].rank = rank => (i < j <=> prepend) ]_vars

\* The package at the front of the graph is at the front of PATH, and so on;
\* behind the graph's packages come the app's own entries, and none of the graph's
\* is left over, as long as the app does not touch the graph's entries and no call
\* stops halfway.  The app may add entries at any time; those it adds between the
\* read of PATH and the write, and no others, are lost.
PathServesGraph ==
    step = "idle" /\ mishaps = {} => path = PathList(graph) \o appPath

\* What the app was given a context for can be used until it gives it back: the
\* node is in the graph with its DLL directories and has a WinRT package.
HandedComplete ==
    step = "idle" => \A c \in handed :
        /\ \E i \in DOMAIN graph : graph[i].context = c /\ graph[i].dlls
        /\ \E i \in DOMAIN winrt : winrt[i] = c

\* Every node in the graph can be removed by somebody: the app has its context,
\* unless a call stopped halfway.
EveryNodeRemovable ==
    step = "idle" /\ "failure" \notin mishaps =>
        \A i \in DOMAIN graph : graph[i].context \in handed

\* A context that the app was given works, and none is lost.
ContextsUsable == HandedComplete /\ EveryNodeRemovable

\* A caller that finds the revision id unchanged may rely on the graph it read,
\* unless a call stopped halfway.
RevisionTracksGraph ==
    [][ published'.revision = published.revision /\ "failure" \notin mishaps' =>
            published'.contexts = published.contexts ]_vars
=============================================================================
