----------------------- MODULE DynamicDependencyProofs -----------------------
(***************************************************************************)
(* Proofs about what a process uses of other packages.  PackageGraph: for  *)
(* any packages, ranks and numbers of calls the graph is sorted and what   *)
(* was handed out is usable, its revision id tells of every change, and    *)
(* PATH follows it.  PackageResolution: for any family of packages, in     *)
(* whatever order they are listed and whatever is deployed meanwhile, the  *)
(* champion of a resolution fits, what is found missing was missing, and   *)
(* a dependency that names its architectures gets the highest version.     *)
(* Bootstrap: for any framework families, versions and numbers of calls    *)
(* the process is initialized as a whole or not at all, what it was given  *)
(* stays, and so does one entry of PATH.                                   *)
(***************************************************************************)
EXTENDS PackageGraph, PackageResolution, Bootstrap, SequenceTheorems, FiniteSetTheorems, TLAPS

-----------------------------------------------------------------------------
(* The operators the model is built from *)

\* InsertAt puts x at i and moves what was there, and all behind it, one back.
LEMMA InsertAtProperties ==
    ASSUME NEW S, NEW s \in Seq(S), NEW i \in 1 .. Len(s) + 1, NEW x \in S
    PROVE  /\ InsertAt(s, i, x) \in Seq(S)
           /\ Len(InsertAt(s, i, x)) = Len(s) + 1
           /\ \A j \in 1 .. i - 1 : InsertAt(s, i, x)[j] = s[j]
           /\ InsertAt(s, i, x)[i] = x
           /\ \A j \in i .. Len(s) : InsertAt(s, i, x)[j + 1] = s[j]
<1> DEFINE a == SubSeq(s, 1, i - 1)
           c == SubSeq(s, i, Len(s))
<1>0. Len(s) \in Nat /\ \A j \in 1 .. Len(s) : s[j] \in S
  BY LenProperties, ElementOfSeq
<1>1. a \in Seq(S) /\ Len(a) = i - 1 /\ \A j \in 1 .. i - 1 : a[j] = s[j]
  <2>1. 1 \in Int /\ i - 1 \in Int /\ \A j \in 1 .. i - 1 : s[j] \in S
    BY <1>0
  <2>2. /\ a \in Seq(S) /\ Len(a) = IF 1 <= i - 1 THEN i - 1 - 1 + 1 ELSE 0
        /\ \A j \in 1 .. i - 1 - 1 + 1 : a[j] = s[1 + j - 1]
    BY <2>1, SubSeqProperties
  <2> QED BY <2>2, <1>0
<1>2. c \in Seq(S) /\ Len(c) = Len(s) - i + 1 /\ \A j \in 1 .. Len(s) - i + 1 : c[j] = s[i + j - 1]
  <2>1. i \in Int /\ Len(s) \in Int /\ \A j \in i .. Len(s) : s[j] \in S
    BY <1>0
  <2>2. /\ c \in Seq(S) /\ Len(c) = IF i <= Len(s) THEN Len(s) - i + 1 ELSE 0
        /\ \A j \in 1 .. Len(s) - i + 1 : c[j] = s[i + j - 1]
    BY <2>1, SubSeqProperties
  <2> QED BY <2>2, <1>0
<1> DEFINE b == <<x>>
           ab == a \o b
<1>3. b \in Seq(S) /\ Len(b) = 1 /\ b[1] = x
  OBVIOUS
<1>4. InsertAt(s, i, x) = ab \o c
  BY DEF InsertAt
<1> HIDE DEF a, b, c
<1>5. /\ ab \in Seq(S) /\ Len(ab) = i
      /\ \A j \in 1 .. i : ab[j] = IF j <= i - 1 THEN a[j] ELSE b[j - (i - 1)]
  <2>1. /\ ab \in Seq(S) /\ Len(ab) = Len(a) + Len(b)
        /\ \A j \in 1 .. Len(a) + Len(b) : ab[j] = IF j <= Len(a) THEN a[j] ELSE b[j - Len(a)]
    BY <1>1, <1>3, ConcatProperties
  <2> QED BY <2>1, <1>1, <1>3
<1> HIDE DEF ab
<1>6. /\ ab \o c \in Seq(S) /\ Len(ab \o c) = Len(s) + 1
      /\ \A j \in 1 .. Len(s) + 1 : (ab \o c)[j] = IF j <= i THEN ab[j] ELSE c[j - i]
  <2>1. /\ ab \o c \in Seq(S) /\ Len(ab \o c) = Len(ab) + Len(c)
        /\ \A j \in 1 .. Len(ab) + Len(c) : (ab \o c)[j] = IF j <= Len(ab) THEN ab[j] ELSE c[j - Len(ab)]
    BY <1>5, <1>2, ConcatProperties
  <2>2. Len(ab) + Len(c) = Len(s) + 1
    BY <1>5, <1>2, <1>0
  <2> QED BY <2>1, <2>2, <1>5
<1> DEFINE h == ab \o c
<1> HIDE DEF h
<1>7. /\ \A j \in 1 .. i - 1 : h[j] = s[j]
      /\ h[i] = x
  BY <1>6, <1>5, <1>3, <1>1, <1>0 DEF h
<1>8. ASSUME NEW j \in i .. Len(s) PROVE h[j + 1] = s[j]
  <2>1. h[j + 1] = c[j + 1 - i]
    BY <1>6, <1>0 DEF h
  <2>2. j + 1 - i \in 1 .. Len(s) - i + 1
    BY <1>0
  <2>3. c[j + 1 - i] = s[i + (j + 1 - i) - 1]
    BY <2>2, <1>2
  <2> QED BY <2>1, <2>3
<1> QED BY <1>4, <1>6, <1>7, <1>8 DEF h

\* RemoveAt takes out what is at i and moves what is behind it one forward.
LEMMA RemoveAtProperties ==
    ASSUME NEW S, NEW s \in Seq(S), NEW i \in 1 .. Len(s)
    PROVE  /\ RemoveAt(s, i) \in Seq(S)
           /\ Len(RemoveAt(s, i)) = Len(s) - 1
           /\ \A j \in 1 .. i - 1 : RemoveAt(s, i)[j] = s[j]
           /\ \A j \in i .. Len(s) - 1 : RemoveAt(s, i)[j] = s[j + 1]
<1> DEFINE a == SubSeq(s, 1, i - 1)
           c == SubSeq(s, i + 1, Len(s))
<1>0. Len(s) \in Nat /\ \A j \in 1 .. Len(s) : s[j] \in S
  BY LenProperties, ElementOfSeq
<1>1. a \in Seq(S) /\ Len(a) = i - 1 /\ \A j \in 1 .. i - 1 : a[j] = s[j]
  <2>1. 1 \in Int /\ i - 1 \in Int /\ \A j \in 1 .. i - 1 : s[j] \in S
    BY <1>0
  <2>2. /\ a \in Seq(S) /\ Len(a) = IF 1 <= i - 1 THEN i - 1 - 1 + 1 ELSE 0
        /\ \A j \in 1 .. i - 1 - 1 + 1 : a[j] = s[1 + j - 1]
    BY <2>1, SubSeqProperties
  <2> QED BY <2>2, <1>0
<1>2. c \in Seq(S) /\ Len(c) = Len(s) - i /\ \A j \in 1 .. Len(s) - i : c[j] = s[i + j]
  <2>1. i + 1 \in Int /\ Len(s) \in Int /\ \A j \in i + 1 .. Len(s) : s[j] \in S
    BY <1>0
  <2>2. /\ c \in Seq(S) /\ Len(c) = IF i + 1 <= Len(s) THEN Len(s) - (i + 1) + 1 ELSE 0
        /\ \A j \in 1 .. Len(s) - (i + 1) + 1 : c[j] = s[i + 1 + j - 1]
    BY <2>1, SubSeqProperties
  <2> QED BY <2>2, <1>0
<1>3. RemoveAt(s, i) = a \o c
  BY DEF RemoveAt
<1> HIDE DEF a, c
<1>4. /\ a \o c \in Seq(S) /\ Len(a \o c) = Len(s) - 1
      /\ \A j \in 1 .. Len(s) - 1 : (a \o c)[j] = IF j <= i - 1 THEN a[j] ELSE c[j - (i - 1)]
  <2>1. /\ a \o c \in Seq(S) /\ Len(a \o c) = Len(a) + Len(c)
        /\ \A j \in 1 .. Len(a) + Len(c) : (a \o c)[j] = IF j <= Len(a) THEN a[j] ELSE c[j - Len(a)]
    BY <1>1, <1>2, ConcatProperties
  <2>2. Len(a) + Len(c) = Len(s) - 1
    BY <1>1, <1>2, <1>0
  <2> QED BY <2>1, <2>2, <1>1
<1> DEFINE h == a \o c
<1> HIDE DEF h
<1>5. \A j \in 1 .. i - 1 : h[j] = s[j]
  BY <1>4, <1>1, <1>0 DEF h
<1>6. ASSUME NEW j \in i .. Len(s) - 1 PROVE h[j] = s[j + 1]
  <2>1. h[j] = c[j - (i - 1)]
    BY <1>4, <1>0 DEF h
  <2>2. j - (i - 1) \in 1 .. Len(s) - i
    BY <1>0
  <2>3. c[j - (i - 1)] = s[i + (j - (i - 1))]
    BY <2>2, <1>2
  <2> QED BY <2>1, <2>3
<1> QED BY <1>3, <1>4, <1>5, <1>6 DEF h

\* What was inserted can be taken out again.
LEMMA RemoveInserted ==
    ASSUME NEW S, NEW s \in Seq(S), NEW i \in 1 .. Len(s) + 1, NEW x \in S
    PROVE  RemoveAt(InsertAt(s, i, x), i) = s
<1> DEFINE h == InsertAt(s, i, x)
<1>0. Len(s) \in Nat
  BY LenProperties
<1>1. /\ h \in Seq(S) /\ Len(h) = Len(s) + 1
      /\ \A j \in 1 .. i - 1 : h[j] = s[j]
      /\ \A j \in i .. Len(s) : h[j + 1] = s[j]
  BY InsertAtProperties
<1> HIDE DEF h
<1>2. i \in 1 .. Len(h)
  BY <1>0, <1>1
<1>3. /\ RemoveAt(h, i) \in Seq(S) /\ Len(RemoveAt(h, i)) = Len(h) - 1
      /\ \A j \in 1 .. i - 1 : RemoveAt(h, i)[j] = h[j]
      /\ \A j \in i .. Len(h) - 1 : RemoveAt(h, i)[j] = h[j + 1]
  BY <1>1, <1>2, RemoveAtProperties
<1>4. Len(RemoveAt(h, i)) = Len(s)
  BY <1>0, <1>1, <1>3
<1>5. \A j \in 1 .. Len(s) : RemoveAt(h, i)[j] = s[j]
  BY <1>0, <1>1, <1>3
<1>6. RemoveAt(h, i) = s
  BY <1>3, <1>4, <1>5, SeqEqual
<1> QED BY <1>6 DEF h

\* A set of places that has with a place all before it is the beginning of a list.
LEMMA InitialSegment ==
    ASSUME NEW n \in Nat, NEW D \in SUBSET (1 .. n), \A j \in D : 1 .. j \subseteq D
    PROVE  \E c \in 0 .. n : D = 1 .. c
<1> DEFINE c == Cardinality(D)
<1>1. \A k \in Nat : IsFiniteSet(1 .. k) /\ Cardinality(1 .. k) = k
  <2> SUFFICES ASSUME NEW k \in Nat PROVE IsFiniteSet(1 .. k) /\ Cardinality(1 .. k) = k
    OBVIOUS
  <2>1. 1 \in Int /\ k \in Int
    OBVIOUS
  <2>2. IsFiniteSet(1 .. k) /\ Cardinality(1 .. k) = IF 1 > k THEN 0 ELSE k - 1 + 1
    BY <2>1, FS_Interval
  <2> QED BY <2>2
<1>2. IsFiniteSet(D) /\ c \in Nat /\ c <= n
  <2>1. IsFiniteSet(1 .. n) /\ Cardinality(1 .. n) = n
    BY <1>1
  <2>2. IsFiniteSet(D) /\ Cardinality(D) <= Cardinality(1 .. n)
    BY <2>1, FS_Subset
  <2>3. Cardinality(D) \in Nat
    BY <2>2, FS_CardinalityType
  <2> QED BY <2>1, <2>2, <2>3
<1>3. ASSUME NEW j \in D PROVE j <= c
  <2>1. 1 .. j \in SUBSET D /\ j \in Nat
    OBVIOUS
  <2>2. Cardinality(1 .. j) <= c
    BY <1>2, <2>1, FS_Subset
  <2> QED BY <1>1, <2>1, <2>2
<1>4. ASSUME NEW j \in 1 .. n, j \notin D PROVE c < j
  <2>1. D \in SUBSET (1 .. j - 1) /\ j - 1 \in Nat
    <3>1. ASSUME NEW k \in D PROVE k \in 1 .. j - 1
      <4>1. j <= k => j \in 1 .. k
        OBVIOUS
      <4>2. ~(j <= k)
        BY <1>4, <4>1
      <4> QED BY <4>2
    <3> QED BY <3>1
  <2>2. c <= Cardinality(1 .. j - 1)
    BY <1>1, <2>1, FS_Subset
  <2>3. c <= j - 1
    BY <1>1, <2>1, <2>2
  <2> QED BY <1>2, <2>3
<1> HIDE DEF c
<1>5. D = 1 .. c
  <2>1. ASSUME NEW j \in D PROVE j \in 1 .. c
    <3>1. j \in 1 .. n /\ j <= c
      BY <1>3
    <3> QED BY <3>1, <1>2
  <2>2. ASSUME NEW j \in 1 .. c PROVE j \in D
    <3>1. j \in 1 .. n /\ ~(c < j)
      BY <1>2
    <3> QED BY <3>1, <1>4
  <2> QED BY <2>1, <2>2
<1> QED BY <1>2, <1>5

\* Some place of a list is the first of those that have a property.
LEMMA FirstExists ==
    ASSUME NEW n \in Nat, NEW T \in SUBSET (1 .. n), T # {}
    PROVE  \E i \in T : \A j \in T : i <= j
<1> DEFINE D == {j \in 1 .. n : \A k \in T : j <= k}
<1>1. \A j \in D : 1 .. j \subseteq D
  OBVIOUS
<1>2. D \in SUBSET (1 .. n)
  OBVIOUS
<1>3. PICK c \in 0 .. n : D = 1 .. c
  <2> HIDE DEF D
  <2> QED BY <1>1, <1>2, InitialSegment
<1>4. \A k \in T : c <= k
  <2>1. c = 0 \/ c \in D
    BY <1>3
  <2> QED BY <2>1
<1>5. c \in T
  <2>1. CASE c = n
    <3>1. PICK k \in T : TRUE
      OBVIOUS
    <3>2. k <= n /\ k \in Nat
      OBVIOUS
    <3>3. k = c
      BY <1>4, <2>1, <3>2
    <3> QED BY <3>3
  <2>2. CASE c # n
    <3>1. c + 1 \in 1 .. n /\ c + 1 \notin 1 .. c
      BY <2>2
    <3>2. c + 1 \notin D
      <4> HIDE DEF D
      <4> QED BY <3>1, <1>3
    <3>3. PICK k \in T : ~(c + 1 <= k)
      BY <3>1, <3>2
    <3>4. k \in Nat /\ c <= k
      BY <1>4
    <3>5. k = c
      BY <3>3, <3>4
    <3> QED BY <3>5
  <2> QED BY <2>1, <2>2
<1> QED BY <1>4, <1>5

\* In a graph sorted by rank the loop stops behind all nodes that come before the new
\* one and in front of all others.
LEMMA InsertionPointExists ==
    ASSUME graph \in Seq(Node), RankSorted, NEW rank \in Ranks, NEW prepend \in BOOLEAN
    PROVE  LET i == InsertionPoint(graph, rank, prepend)
           IN  /\ i \in 1 .. Len(graph) + 1
               /\ \A j \in 1 .. i - 1 : graph[j].rank < rank \/ (~prepend /\ graph[j].rank = rank)
               /\ \A j \in i .. Len(graph) : rank < graph[j].rank \/ (prepend /\ graph[j].rank = rank)
<1> DEFINE n == Len(graph)
           StopsAt(j) == Stops(graph[j], rank, prepend)
           T == {j \in 1 .. n + 1 : j <= n => StopsAt(j)}
           First(i) == (i <= n => StopsAt(i)) /\ \A j \in 1 .. i - 1 : ~StopsAt(j)
           i0 == InsertionPoint(graph, rank, prepend)
<1>1. n \in Nat /\ DOMAIN graph = 1 .. n /\ rank \in Int
  BY LenProperties, RankAssumption
<1>2. \A j \in 1 .. n : graph[j].rank \in Int
  <2>1. \A j \in 1 .. n : graph[j] \in Node
    BY ElementOfSeq
  <2> QED BY <2>1, RankAssumption DEF Node
<1>3. PICK c \in T : \A j \in T : c <= j
  <2>1. T \in SUBSET (1 .. n + 1) /\ n + 1 \in T /\ n + 1 \in Nat
    BY <1>1
  <2> HIDE DEF T
  <2> QED BY <2>1, FirstExists
<1>4. c \in 1 .. n + 1 /\ First(c)
  <2>1. c \in 1 .. n + 1 /\ (c <= n => StopsAt(c))
    OBVIOUS
  <2>2. ASSUME NEW j \in 1 .. c - 1, StopsAt(j) PROVE FALSE
    <3>1. j \in 1 .. n + 1 /\ j < c
      BY <1>1, <2>1
    <3>2. j \in T
      BY <2>2, <3>1
    <3> HIDE DEF T
    <3> QED BY <1>3, <2>1, <3>1, <3>2
  <2> QED BY <2>1, <2>2
<1>5. i0 \in 1 .. n + 1 /\ First(i0)
  <2>1. i0 = CHOOSE i \in 1 .. n + 1 : First(i)
    BY DEF InsertionPoint
  <2> HIDE DEF First
  <2> QED BY <1>4, <2>1
<1>6. ASSUME NEW j \in 1 .. i0 - 1 PROVE graph[j].rank < rank \/ (~prepend /\ graph[j].rank = rank)
  <2>1. j \in 1 .. n /\ ~StopsAt(j)
    <3> HIDE DEF i0, StopsAt
    <3> QED BY <1>1, <1>5
  <2> QED BY <1>1, <1>2, <2>1 DEF Stops
<1>7. ASSUME NEW j \in i0 .. n PROVE rank < graph[j].rank \/ (prepend /\ graph[j].rank = rank)
  <2>1. j \in 1 .. n /\ i0 \in 1 .. n /\ i0 <= j /\ StopsAt(i0)
    <3> HIDE DEF i0, StopsAt
    <3> QED BY <1>1, <1>5
  <2>2. graph[i0].rank <= graph[j].rank
    <3> HIDE DEF i0
    <3>1. CASE i0 = j
      BY <1>2, <2>1, <3>1
    <3>2. CASE i0 # j
      <4>1. i0 < j
        BY <2>1, <3>2
      <4> QED BY <1>1, <2>1, <4>1 DEF RankSorted
    <3> QED BY <3>1, <3>2
  <2>3. rank < graph[i0].rank \/ (graph[i0].rank = rank /\ prepend)
    BY <2>1 DEF Stops
  <2> HIDE DEF i0
  <2> QED BY <1>1, <1>2, <2>1, <2>2, <2>3
<1> QED BY <1>5, <1>6, <1>7

\* The packages of the nodes, and their contexts, node by node.
LEMMA ListsOfNodes ==
    ASSUME NEW g \in Seq(Node)
    PROVE  /\ PathList(g) \in Seq(Packages) /\ Len(PathList(g)) = Len(g)
           /\ ContextsOf(g) \in Seq(Contexts)
<1>1. /\ Len(g) \in Nat /\ DOMAIN g = 1 .. Len(g)
      /\ \A i \in 1 .. Len(g) : g[i].package \in Packages /\ g[i].context \in Contexts
  <2>1. Len(g) \in Nat /\ DOMAIN g = 1 .. Len(g) /\ \A i \in 1 .. Len(g) : g[i] \in Node
    BY LenProperties, ElementOfSeq
  <2> QED BY <2>1 DEF Node
<1>2. PathList(g) \in [1 .. Len(g) -> Packages] /\ ContextsOf(g) \in [1 .. Len(g) -> Contexts]
  BY <1>1 DEF PathList, ContextsOf
<1>3. PathList(g) \in Seq(Packages) /\ ContextsOf(g) \in Seq(Contexts)
  BY <1>1, <1>2, SeqDef
<1>4. DOMAIN PathList(g) = 1 .. Len(g) /\ DOMAIN PathList(g) = 1 .. Len(PathList(g)) /\ Len(PathList(g)) \in Nat
  BY <1>2, <1>3, LenProperties
<1> QED BY <1>1, <1>3, <1>4

\* What is left of PATH is part of PATH.
LEMMA WithoutType ==
    ASSUME NEW S, NEW p \in Seq(S), NEW block \in Seq(S)
    PROVE  Without(p, block) \in Seq(S)
<1> DEFINE at == {i \in 1 .. Len(p) - Len(block) + 1 : BlockAt(p, block, i)}
           first == CHOOSE i \in at : \A j \in at : i <= j
<1>1. Len(p) \in Nat /\ Len(block) \in Nat /\ \A j \in 1 .. Len(p) : p[j] \in S
  BY LenProperties, ElementOfSeq
<1>2. CASE block = << >>
  BY <1>2 DEF Without
<1>3. CASE block # << >> /\ at = {}
  BY <1>3 DEF Without
<1>4. CASE block # << >> /\ at # {}
  <2>1. first \in at
    <3>1. at \in SUBSET (1 .. Len(p) + 1) /\ Len(p) + 1 \in Nat
      BY <1>1
    <3>2. \E i \in at : \A j \in at : i <= j
      <4> HIDE DEF at
      <4> QED BY <1>4, <3>1, FirstExists
    <3> HIDE DEF at
    <3> QED BY <3>2
  <2>2. first \in 1 .. Len(p) - Len(block) + 1
    BY <2>1
  <2> HIDE DEF first
  <2>3. SubSeq(p, 1, first - 1) \in Seq(S)
    <3>1. 1 \in Int /\ first - 1 \in Int /\ \A j \in 1 .. first - 1 : p[j] \in S
      BY <1>1, <2>2
    <3> QED BY <3>1, SubSeqProperties
  <2>4. SubSeq(p, first + Len(block), Len(p)) \in Seq(S)
    <3>1. first + Len(block) \in Int /\ Len(p) \in Int /\ \A j \in first + Len(block) .. Len(p) : p[j] \in S
      BY <1>1, <2>2
    <3> QED BY <3>1, SubSeqProperties
  <2>5. SubSeq(p, 1, first - 1) \o SubSeq(p, first + Len(block), Len(p)) \in Seq(S)
    BY <2>3, <2>4, ConcatProperties
  <2>6. Without(p, block) = SubSeq(p, 1, first - 1) \o SubSeq(p, first + Len(block), Len(p))
    BY <1>4 DEF Without, first
  <2> QED BY <2>5, <2>6
<1> QED BY <1>2, <1>3, <1>4

\* What was put in front of PATH is what is taken out again, and nothing else.
LEMMA WithoutFront ==
    ASSUME NEW S, NEW block \in Seq(S), NEW rest \in Seq(S)
    PROVE  Without(block \o rest, block) = rest
<1> DEFINE p == block \o rest
           at == {i \in 1 .. Len(p) - Len(block) + 1 : BlockAt(p, block, i)}
           first == CHOOSE i \in at : \A j \in at : i <= j
<1>1. /\ Len(block) \in Nat /\ Len(rest) \in Nat /\ p \in Seq(S) /\ Len(p) = Len(block) + Len(rest)
      /\ \A i \in 1 .. Len(block) : p[i] = block[i]
      /\ \A i \in 1 .. Len(rest) : p[i + Len(block)] = rest[i]
  <2>1. Len(block) \in Nat /\ Len(rest) \in Nat
    BY LenProperties
  <2>2. /\ p \in Seq(S) /\ Len(p) = Len(block) + Len(rest)
        /\ \A i \in 1 .. Len(block) + Len(rest) : p[i] =
               IF i <= Len(block) THEN block[i] ELSE rest[i - Len(block)]
    BY ConcatProperties
  <2> HIDE DEF p
  <2>3. \A i \in 1 .. Len(block) : p[i] = block[i]
    BY <2>1, <2>2
  <2>4. ASSUME NEW i \in 1 .. Len(rest) PROVE p[i + Len(block)] = rest[i]
    <3>1. i + Len(block) \in 1 .. Len(block) + Len(rest) /\ ~(i + Len(block) <= Len(block))
      BY <2>1
    <3>2. (i + Len(block)) - Len(block) = i
      BY <2>1
    <3> QED BY <2>2, <3>1, <3>2
  <2> QED BY <2>1, <2>2, <2>3, <2>4
<1>2. CASE block = << >>
  BY <1>2, ConcatEmptySeq DEF Without
<1>3. CASE block # << >>
  <2> HIDE DEF p
  <2>0. \A j \in 1 .. Len(p) : p[j] \in S
    BY <1>1, ElementOfSeq
  <2>1. BlockAt(p, block, 1)
    <3>1. 1 \in Int /\ Len(block) \in Int /\ \A j \in 1 .. Len(block) : p[j] \in S
      BY <1>1, <2>0
    <3>2. /\ SubSeq(p, 1, Len(block)) \in Seq(S)
          /\ Len(SubSeq(p, 1, Len(block))) = IF 1 <= Len(block) THEN Len(block) - 1 + 1 ELSE 0
          /\ \A j \in 1 .. Len(block) - 1 + 1 : SubSeq(p, 1, Len(block))[j] = p[1 + j - 1]
      BY <3>1, SubSeqProperties
    <3>3. Len(SubSeq(p, 1, Len(block))) = Len(block)
      BY <1>1, <3>2
    <3>4. \A j \in 1 .. Len(block) : SubSeq(p, 1, Len(block))[j] = block[j]
      BY <1>1, <3>2
    <3>5. SubSeq(p, 1, Len(block)) = block
      <4> HIDE DEF p
      <4> QED BY <3>2, <3>3, <3>4, SeqEqual
    <3>6. 1 + Len(block) - 1 = Len(block)
      BY <1>1
    <3> QED BY <3>5, <3>6 DEF BlockAt
  <2>2. 1 \in at /\ \A j \in at : 1 <= j /\ j \in Nat
    BY <1>1, <2>1
  <2>3. first = 1
    <3>1. first \in at /\ \A j \in at : first <= j
      <4> HIDE DEF at
      <4> QED BY <2>2
    <3>2. first <= 1 /\ 1 <= first /\ first \in Nat
      <4> HIDE DEF at, first
      <4> QED BY <2>2, <3>1
    <3> HIDE DEF first
    <3> QED BY <3>2
  <2>4. at # {}
    BY <2>2
  <2>5. Without(p, block) = SubSeq(p, 1, first - 1) \o SubSeq(p, first + Len(block), Len(p))
    BY <1>3, <2>4 DEF Without
  <2> HIDE DEF first
  <2>6. SubSeq(p, 1, first - 1) = << >>
    <3>1. 1 \in Int /\ first - 1 \in Int /\ first - 1 < 1
      BY <2>3
    <3> QED BY <3>1, SubSeqEmpty
  <2>7. SubSeq(p, first + Len(block), Len(p)) = rest
    <3>1. 1 + Len(block) \in Int /\ Len(p) \in Int /\ \A j \in 1 + Len(block) .. Len(p) : p[j] \in S
      BY <1>1, <2>0
    <3> DEFINE q == SubSeq(p, 1 + Len(block), Len(p))
    <3>2. /\ q \in Seq(S)
          /\ Len(q) = IF 1 + Len(block) <= Len(p) THEN Len(p) - (1 + Len(block)) + 1 ELSE 0
          /\ \A j \in 1 .. Len(p) - (1 + Len(block)) + 1 : q[j] = p[1 + Len(block) + j - 1]
      BY <3>1, SubSeqProperties
    <3> HIDE DEF q
    <3>3. Len(q) = Len(rest)
      BY <1>1, <3>2
    <3>4. \A j \in 1 .. Len(rest) : q[j] = rest[j]
      <4> SUFFICES ASSUME NEW j \in 1 .. Len(rest) PROVE q[j] = rest[j]
        OBVIOUS
      <4>1. j \in 1 .. Len(p) - (1 + Len(block)) + 1 /\ 1 + Len(block) + j - 1 = j + Len(block)
        BY <1>1
      <4>2. q[j] = p[j + Len(block)]
        BY <3>2, <4>1
      <4> QED BY <1>1, <4>2
    <3>5. q = rest
      BY <3>2, <3>3, <3>4, SeqEqual
    <3> QED BY <2>3, <3>5 DEF q
  <2>8. << >> \o rest = rest
    BY ConcatEmptySeq
  <2> QED BY <2>5, <2>6, <2>7, <2>8 DEF p
<1> QED BY <1>2, <1>3
\* WinRTModuleManager's list keeps what it had and gets what is inserted, wherever
\* the graph's index falls.
LEMMA InsertOrAppendProperties ==
    ASSUME NEW S, NEW s \in Seq(S), NEW i \in Nat \ {0}, NEW x \in S,
           NEW r, r = InsertOrAppend(s, i, x)
    PROVE  /\ r \in Seq(S)
           /\ \E k \in DOMAIN r : r[k] = x
           /\ \A j \in DOMAIN s : \E k \in DOMAIN r : r[k] = s[j]
<1>1. Len(s) \in Nat /\ DOMAIN s = 1 .. Len(s)
  BY LenProperties
<1>2. CASE i <= Len(s)
  <2>1. i \in 1 .. Len(s) + 1 /\ r = InsertAt(s, i, x)
    BY <1>1, <1>2 DEF InsertOrAppend
  <2>2. /\ r \in Seq(S) /\ Len(r) = Len(s) + 1
        /\ \A j \in 1 .. i - 1 : r[j] = s[j]
        /\ r[i] = x
        /\ \A j \in i .. Len(s) : r[j + 1] = s[j]
    <3>1. i \in 1 .. Len(s) + 1
      BY <2>1
    <3>2. /\ InsertAt(s, i, x) \in Seq(S) /\ Len(InsertAt(s, i, x)) = Len(s) + 1
          /\ \A j \in 1 .. i - 1 : InsertAt(s, i, x)[j] = s[j]
          /\ InsertAt(s, i, x)[i] = x
          /\ \A j \in i .. Len(s) : InsertAt(s, i, x)[j + 1] = s[j]
      BY <3>1, InsertAtProperties
    <3> QED BY <2>1, <3>2
  <2>3. DOMAIN r = 1 .. Len(s) + 1
    BY <2>2, LenProperties
  <2>4. ASSUME NEW j \in DOMAIN s PROVE \E k \in DOMAIN r : r[k] = s[j]
    <3>1. CASE j < i
      BY <1>1, <2>2, <2>3, <3>1
    <3>2. CASE i <= j
      <4>1. j + 1 \in DOMAIN r /\ r[j + 1] = s[j]
        BY <1>1, <2>2, <2>3, <3>2
      <4> QED BY <4>1
    <3> QED BY <1>1, <2>1, <3>1, <3>2
  <2> QED BY <2>1, <2>2, <2>3, <2>4
<1>3. CASE ~(i <= Len(s))
  <2>1. r = Append(s, x)
    BY <1>3 DEF InsertOrAppend
  <2>2. /\ r \in Seq(S) /\ Len(r) = Len(s) + 1
        /\ \A j \in 1 .. Len(s) : r[j] = s[j]
        /\ r[Len(s) + 1] = x
    BY <2>1, AppendProperties
  <2>3. DOMAIN r = 1 .. Len(s) + 1
    BY <2>2, LenProperties
  <2> QED BY <1>1, <2>2, <2>3
<1> QED BY <1>2, <1>3

\* Within the list, and at its end, the two ways to insert do the same.
LEMMA InsertOrAppendPlaces ==
    ASSUME NEW S, NEW s \in Seq(S), NEW i \in 1 .. Len(s) + 1, NEW x \in S,
           NEW r, r = InsertOrAppend(s, i, x)
    PROVE  /\ r \in Seq(S) /\ Len(r) = Len(s) + 1
           /\ \A j \in 1 .. i - 1 : r[j] = s[j]
           /\ r[i] = x
           /\ \A j \in i .. Len(s) : r[j + 1] = s[j]
<1>1. Len(s) \in Nat
  BY LenProperties
<1>2. CASE i <= Len(s)
  <2>1. r = InsertAt(s, i, x)
    BY <1>2 DEF InsertOrAppend
  <2> QED BY <2>1, InsertAtProperties
<1>3. CASE ~(i <= Len(s))
  <2>1. r = Append(s, x) /\ i = Len(s) + 1
    BY <1>1, <1>3 DEF InsertOrAppend
  <2>2. /\ r \in Seq(S) /\ Len(r) = Len(s) + 1
        /\ \A j \in 1 .. Len(s) : r[j] = s[j]
        /\ r[Len(s) + 1] = x
    BY <2>1, AppendProperties
  <2> QED BY <1>1, <2>1, <2>2
<1> QED BY <1>2, <1>3

-----------------------------------------------------------------------------
(* The package graph: the invariant *)

\* A call under way will advance the revision id, and is about a context; what
\* adds directories is an Add.
Busy ==
    /\ step # "idle" => revision < MaxRevision /\ current \in Contexts
    /\ step = "addDlls" => adding

\* Contexts are counted up: the next one is none of the graph's.
ContextsGenerated == \A i \in DOMAIN graph : graph[i].context <= lastContext

\* The node an Add has made is there until it returns; what was handed out is whole;
\* what is in the graph was handed out, or is about to be, unless a call failed.
AddedNow ==
    step # "idle" /\ adding =>
        /\ \E i \in DOMAIN graph : graph[i].context = current
        /\ \E i \in DOMAIN winrt : winrt[i] = current
HandedServed ==
    \A c \in handed : /\ \E i \in DOMAIN graph : graph[i].context = c /\ graph[i].dlls
                      /\ \E i \in DOMAIN winrt : winrt[i] = c
NodesHanded ==
    "failure" \notin mishaps =>
        \A i \in DOMAIN graph : \/ graph[i].context \in handed
                                \/ step # "idle" /\ adding /\ graph[i].context = current

\* The inductive invariant.
GraphInv ==
    /\ TypeOK /\ RankSorted /\ ContextsDistinct /\ WinRTOrder
    /\ Busy /\ ContextsGenerated /\ AddedNow /\ HandedServed /\ NodesHanded
    /\ published.revision = revision

\* UpdatePath knows which entries of PATH are the graph's: those it put there.
PathInv ==
    mishaps = {} =>
        /\ path = lastAdded \o appPath
        /\ step \in {"idle", "addDlls"} => lastAdded = PathList(graph)
        /\ step = "writePath" => newPath = PathList(graph) \o appRead

-----------------------------------------------------------------------------
(* The package graph: steps *)

\* What Add does to the graph: the new node is at its insertion point, the others
\* are where they were or one place behind.
LEMMA NodeAdded ==
    ASSUME TypeOK, RankSorted,
           NEW package \in Packages, NEW rank \in Ranks, NEW prepend \in BOOLEAN,
           AddNode(package, rank, prepend)
    PROVE  \E i \in 1 .. Len(graph) + 1 :
               LET node == [context |-> lastContext + 1, package |-> package,
                            rank |-> rank, dlls |-> FALSE]
               IN  /\ node \in Node
                   /\ graph' = InsertAt(graph, i, node)
                   /\ winrt' = InsertOrAppend(winrt, i, lastContext + 1)
                   /\ graph' \in Seq(Node) /\ Len(graph') = Len(graph) + 1
                   /\ graph'[i] = node
                   /\ \A j \in 1 .. i - 1 :
                         /\ graph'[j] = graph[j]
                         /\ graph[j].rank < rank \/ (~prepend /\ graph[j].rank = rank)
                   /\ \A j \in i .. Len(graph) :
                         /\ graph'[j + 1] = graph[j]
                         /\ rank < graph[j].rank \/ (prepend /\ graph[j].rank = rank)
<1> DEFINE node == [context |-> lastContext + 1, package |-> package, rank |-> rank, dlls |-> FALSE]
           i == InsertionPoint(graph, rank, prepend)
<1>1. graph \in Seq(Node) /\ lastContext + 1 \in Contexts
  BY BoundAssumption DEF AddNode, TypeOK, Contexts
<1>2. node \in Node
  BY <1>1 DEF Node
<1>3. /\ i \in 1 .. Len(graph) + 1
      /\ \A j \in 1 .. i - 1 : graph[j].rank < rank \/ (~prepend /\ graph[j].rank = rank)
      /\ \A j \in i .. Len(graph) : rank < graph[j].rank \/ (prepend /\ graph[j].rank = rank)
  BY <1>1, InsertionPointExists
<1>4. /\ lastContext' = lastContext + 1
      /\ graph' = InsertAt(graph, i, node)
      /\ winrt' = InsertOrAppend(winrt, i, lastContext + 1)
  BY DEF AddNode
<1> HIDE DEF node, i
<1>5. /\ graph' \in Seq(Node) /\ Len(graph') = Len(graph) + 1
      /\ graph'[i] = node
      /\ \A j \in 1 .. i - 1 : graph'[j] = graph[j]
      /\ \A j \in i .. Len(graph) : graph'[j + 1] = graph[j]
  BY <1>1, <1>2, <1>3, <1>4, InsertAtProperties
<1> QED BY <1>2, <1>3, <1>4, <1>5 DEF node

\* Every step keeps the variables in their types.
LEMMA GraphTypeStep == TypeOK /\ RankSorted /\ Busy /\ [Next]_vars => TypeOK'
<1> SUFFICES ASSUME TypeOK, RankSorted, Busy, [Next]_vars PROVE TypeOK'
  OBVIOUS
<1>0. MaxContext \in Nat /\ MaxRevision \in Nat
  BY BoundAssumption
<1>a. PathList(graph) \in Seq(Packages) /\ ContextsOf(graph) \in Seq(Contexts)
  BY ListsOfNodes DEF TypeOK
<1>b. ASSUME NEW s, s \in Seq(Packages) \/ s \in Seq(Dirs) PROVE s \in Seq(Packages \cup Dirs)
  <2>1. Packages \subseteq Packages \cup Dirs /\ Dirs \subseteq Packages \cup Dirs
    OBVIOUS
  <2> QED BY <1>b, <2>1, SeqMonotonic
<1>c. << >> \in Seq(Packages \cup Dirs)
  BY EmptySeq
<1>d. ASSUME NEW rev \in 0 .. MaxRevision, Return(graph, rev)
      PROVE  /\ step' = "idle" /\ current' \in 0 .. MaxContext /\ revision' \in 0 .. MaxRevision
             /\ newPath' \in Seq(Packages \cup Dirs)
             /\ published' \in [revision : 0 .. MaxRevision, contexts : Seq(Contexts)]
  BY <1>0, <1>a, <1>c, <1>d DEF Return
<1>1. ASSUME NEW package \in Packages, NEW rank \in Ranks, NEW prepend \in BOOLEAN,
             AddNode(package, rank, prepend)
      PROVE  TypeOK'
  <2>1. PICK i \in 1 .. Len(graph) + 1 :
               /\ winrt' = InsertOrAppend(winrt, i, lastContext + 1)
               /\ graph' \in Seq(Node)
    BY <1>1, NodeAdded
  <2>2. lastContext + 1 \in Contexts /\ lastContext + 1 \in 0 .. MaxContext
    BY <1>0, <1>1 DEF AddNode, TypeOK, Contexts
  <2>3. winrt' \in Seq(Contexts)
    <3>1. i \in Nat \ {0} /\ winrt \in Seq(Contexts)
      BY LenProperties DEF TypeOK
    <3> QED BY <2>1, <2>2, <3>1, InsertOrAppendProperties
  <2>4. /\ lastContext' = lastContext + 1 /\ step' = "readPath" /\ current' = lastContext + 1
        /\ adding' = TRUE /\ UNCHANGED <<revision, path, lastAdded, newPath, history>>
    BY <1>1 DEF AddNode
  <2> QED BY <2>1, <2>2, <2>3, <2>4 DEF TypeOK, history
<1>2. CASE ParseAppxManifestFails
  <2>1. lastContext' \in 0 .. MaxContext
    BY <1>0, <1>2 DEF ParseAppxManifestFails, TypeOK
  <2> QED BY <1>2, <2>1 DEF ParseAppxManifestFails, TypeOK, op, history
<1>3. CASE AddDllDirectories
  <2>1. graph' \in Seq(Node)
    <3>1. Len(graph) \in Nat /\ DOMAIN graph = 1 .. Len(graph) /\ \A i \in 1 .. Len(graph) : graph[i] \in Node
      BY LenProperties, ElementOfSeq DEF TypeOK
    <3>2. \A n \in Node : \A b \in BOOLEAN : [n EXCEPT !.dlls = b] \in Node
      BY DEF Node
    <3>3. \A i \in 1 .. Len(graph) : (graph[i].dlls \/ graph[i].context = current) \in BOOLEAN
      OBVIOUS
    <3>4. graph' \in [1 .. Len(graph) -> Node]
      BY <1>3, <3>1, <3>2, <3>3, Zenon DEF AddDllDirectories
    <3> QED BY <3>1, <3>4, SeqDef
  <2>2. current \in Contexts /\ revision + 1 \in 0 .. MaxRevision
    BY <1>0, <1>3 DEF AddDllDirectories, Busy, TypeOK
  <2>3. Return(graph, revision + 1)
    BY <1>3 DEF AddDllDirectories
  <2> QED BY <1>3, <1>d, <2>1, <2>2, <2>3 DEF AddDllDirectories, TypeOK
<1>4. CASE AddDllDirectoriesFails \/ WritePathFails
  <2>1. Return(graph, revision) /\ revision \in 0 .. MaxRevision /\ mishaps' = mishaps \cup {"failure"}
    BY <1>4 DEF AddDllDirectoriesFails, WritePathFails, TypeOK
  <2>2. UNCHANGED <<graph, winrt, lastContext, path, lastAdded, adding, handed, appPath, appRead>>
    BY <1>4 DEF AddDllDirectoriesFails, WritePathFails
  <2> QED BY <1>d, <2>1, <2>2 DEF TypeOK
<1>5. ASSUME NEW context \in Contexts, RemoveNode(context) PROVE TypeOK'
  <2>1. PICK i \in DOMAIN graph : graph' = RemoveAt(graph, i)
    BY <1>5 DEF RemoveNode
  <2>2. graph' \in Seq(Node)
    BY <2>1, RemoveAtProperties, LenProperties DEF TypeOK
  <2>3. context \in 0 .. MaxContext
    BY <1>0 DEF Contexts
  <2> QED BY <1>5, <2>2, <2>3 DEF RemoveNode, TypeOK
<1>6. ASSUME NEW context \in Contexts, RemoveUnknown(context) PROVE TypeOK'
  <2>1. revision + 1 \in 0 .. MaxRevision /\ Return(graph, revision + 1)
    BY <1>0, <1>6 DEF RemoveUnknown, TypeOK
  <2> QED BY <1>6, <1>d, <2>1 DEF RemoveUnknown, TypeOK
<1>7. CASE ReadPath
  <2>1. Without(path, lastAdded) \in Seq(Packages \cup Dirs)
    BY <1>b, WithoutType DEF TypeOK
  <2>2. PathList(graph) \o Without(path, lastAdded) \in Seq(Packages \cup Dirs)
    BY <1>a, <1>b, <2>1, ConcatProperties
  <2> QED BY <1>7, <2>2 DEF ReadPath, TypeOK
<1>8. CASE WritePath
  <2>1. /\ path' = newPath /\ appPath' = appRead /\ lastAdded' = PathList(graph)
        /\ UNCHANGED <<graph, winrt, lastContext, adding, handed, appRead, mishaps>>
    BY <1>8 DEF WritePath
  <2>2. CASE adding /\ step' = "addDlls" /\ UNCHANGED <<current, newPath, revision, published>>
    BY <1>a, <2>1, <2>2 DEF TypeOK
  <2>3. CASE Return(graph, revision + 1)
    <3>1. revision + 1 \in 0 .. MaxRevision
      BY <1>0, <1>8 DEF WritePath, Busy, TypeOK
    <3> QED BY <1>a, <1>d, <2>1, <2>3, <3>1 DEF TypeOK
  <2> QED BY <1>8, <2>2, <2>3 DEF WritePath
<1>9. ASSUME NEW d \in Dirs, AppAppends(d) PROVE TypeOK'
  <2>1. Append(path, d) \in Seq(Packages \cup Dirs) /\ Append(appPath, d) \in Seq(Dirs)
    BY AppendProperties DEF TypeOK
  <2> QED BY <1>9, <2>1 DEF AppAppends, TypeOK, op
<1>10. CASE AppPutsBack
  BY <1>10, <1>b DEF AppPutsBack, TypeOK, op
<1>11. CASE UNCHANGED vars
  BY <1>11 DEF vars, op, history, TypeOK
<1> QED BY <1>1, <1>2, <1>3, <1>4, <1>5, <1>6, <1>7, <1>8, <1>9, <1>10, <1>11 DEF Next
\* The steps that leave the graph and what was handed out alone: an Add that is under
\* way goes on with its context, or fails.
OtherStep ==
    /\ graph' = graph /\ winrt' = winrt /\ handed' = handed
    /\ lastContext' \in {lastContext, lastContext + 1}
    /\ mishaps \subseteq mishaps'
    /\ step' # "idle" /\ adding' => step # "idle" /\ adding /\ current' = current
    /\ step # "idle" /\ adding => \/ step' # "idle" /\ adding' /\ current' = current
                                  \/ "failure" \in mishaps'

\* What the graph is after a step: with a new node, with the directories of one node
\* in its place, without one node, or as before.
LEMMA GraphStep == [Next]_vars =>
    \/ \E package \in Packages, rank \in Ranks, prepend \in BOOLEAN : AddNode(package, rank, prepend)
    \/ AddDllDirectories
    \/ \E context \in Contexts : RemoveNode(context)
    \/ OtherStep
<1> USE DEF OtherStep
<1>1. ParseAppxManifestFails => OtherStep
  BY DEF ParseAppxManifestFails, op, history
<1>2. AddDllDirectoriesFails => OtherStep
  BY DEF AddDllDirectoriesFails, Return
<1>3. ASSUME NEW context, RemoveUnknown(context) PROVE OtherStep
  BY <1>3 DEF RemoveUnknown, Return
<1>4. ReadPath => OtherStep
  BY DEF ReadPath, history
<1>5. WritePath => OtherStep
  BY DEF WritePath, Return
<1>6. WritePathFails => OtherStep
  BY DEF WritePathFails, Return
<1>7. ASSUME NEW d, AppAppends(d) PROVE OtherStep
  BY <1>7 DEF AppAppends, op
<1>8. AppPutsBack => OtherStep
  BY DEF AppPutsBack, op
<1>9. UNCHANGED vars => OtherStep
  BY DEF vars, op, history
<1> QED BY <1>1, <1>2, <1>3, <1>4, <1>5, <1>6, <1>7, <1>8, <1>9 DEF Next

\* The graph stays sorted, its contexts stay distinct and below the counter.
LEMMA OrderStep ==
    TypeOK /\ RankSorted /\ ContextsDistinct /\ ContextsGenerated /\ [Next]_vars
        => RankSorted' /\ ContextsDistinct' /\ ContextsGenerated'
<1> SUFFICES ASSUME TypeOK, RankSorted, ContextsDistinct, ContextsGenerated, [Next]_vars
             PROVE  RankSorted' /\ ContextsDistinct' /\ ContextsGenerated'
  OBVIOUS
<1>0. /\ Len(graph) \in Nat /\ DOMAIN graph = 1 .. Len(graph)
      /\ lastContext \in Nat
      /\ \A j \in 1 .. Len(graph) : graph[j].rank \in Int /\ graph[j].context \in Nat
  <2>1. /\ Len(graph) \in Nat /\ DOMAIN graph = 1 .. Len(graph)
        /\ \A j \in 1 .. Len(graph) : graph[j] \in Node
    BY LenProperties, ElementOfSeq DEF TypeOK
  <2>2. MaxContext \in Nat /\ lastContext \in Nat
    BY BoundAssumption DEF TypeOK
  <2>3. \A n \in Node : n.rank \in Int /\ n.context \in Nat
    <3>1. \A n \in Node : n.rank \in Ranks /\ n.context \in Contexts
      BY DEF Node
    <3>2. Contexts \subseteq Nat /\ Ranks \subseteq Int
      BY <2>2, RankAssumption DEF Contexts
    <3> QED BY <3>1, <3>2
  <2> QED BY <2>1, <2>2, <2>3
<1>1. ASSUME NEW package \in Packages, NEW rank \in Ranks, NEW prepend \in BOOLEAN,
             AddNode(package, rank, prepend)
      PROVE  RankSorted' /\ ContextsDistinct' /\ ContextsGenerated'
  <2> DEFINE h == graph'
  <2>1. PICK i \in 1 .. Len(graph) + 1 :
            /\ h \in Seq(Node) /\ Len(h) = Len(graph) + 1
            /\ h[i].context = lastContext + 1 /\ h[i].rank = rank
            /\ \A j \in 1 .. i - 1 :
                  /\ h[j] = graph[j]
                  /\ graph[j].rank < rank \/ (~prepend /\ graph[j].rank = rank)
            /\ \A j \in i .. Len(graph) :
                  /\ h[j + 1] = graph[j]
                  /\ rank < graph[j].rank \/ (prepend /\ graph[j].rank = rank)
    <3> DEFINE node == [context |-> lastContext + 1, package |-> package,
                        rank |-> rank, dlls |-> FALSE]
    <3>1. PICK i \in 1 .. Len(graph) + 1 :
              /\ h \in Seq(Node) /\ Len(h) = Len(graph) + 1
              /\ h[i] = node
              /\ \A j \in 1 .. i - 1 :
                    /\ h[j] = graph[j]
                    /\ graph[j].rank < rank \/ (~prepend /\ graph[j].rank = rank)
              /\ \A j \in i .. Len(graph) :
                    /\ h[j + 1] = graph[j]
                    /\ rank < graph[j].rank \/ (prepend /\ graph[j].rank = rank)
      BY <1>1, NodeAdded
    <3>2. node.context = lastContext + 1 /\ node.rank = rank
      OBVIOUS
    <3> HIDE DEF node, h
    <3> QED BY <3>1, <3>2
  <2>2. lastContext' = lastContext + 1
    BY <1>1 DEF AddNode
  <2>3. DOMAIN h = 1 .. Len(graph) + 1 /\ rank \in Int
    BY <2>1, LenProperties, RankAssumption
  <2>4. \A j \in 1 .. i - 1 : h[j] = graph[j] /\ graph[j].rank <= rank /\ j \in 1 .. Len(graph)
    BY <1>0, <2>1, <2>3
  <2>5. ASSUME NEW j \in i + 1 .. Len(graph) + 1
        PROVE  h[j] = graph[j - 1] /\ rank <= graph[j - 1].rank /\ j - 1 \in 1 .. Len(graph)
    <3>1. j - 1 \in i .. Len(graph) /\ (j - 1) + 1 = j
      BY <1>0
    <3>2. h[(j - 1) + 1] = graph[j - 1]
      BY <2>1, <3>1
    <3>3. rank < graph[j - 1].rank \/ graph[j - 1].rank = rank
      BY <2>1, <3>1
    <3>4. j - 1 \in 1 .. Len(graph)
      BY <1>0, <3>1
    <3>5. graph[j - 1].rank \in Int
      BY <1>0, <3>4
    <3> QED BY <2>3, <3>1, <3>2, <3>3, <3>4, <3>5
  <2>6. \A j \in DOMAIN h : j \in 1 .. i - 1 \/ j = i \/ j \in i + 1 .. Len(graph) + 1
    BY <1>0, <2>3
  <2> HIDE DEF h
  <2>7. RankSorted'
    <3> SUFFICES ASSUME NEW a \in DOMAIN h, NEW b \in DOMAIN h, a < b
                 PROVE  h[a].rank <= h[b].rank
      BY DEF RankSorted, h
    <3>1. CASE a \in 1 .. i - 1 /\ b \in 1 .. i - 1
      BY <1>0, <2>4, <3>1 DEF RankSorted
    <3>2. CASE a \in 1 .. i - 1 /\ b = i
      BY <2>1, <2>4, <3>2
    <3>3. CASE a \in 1 .. i - 1 /\ b \in i + 1 .. Len(graph) + 1
      <4>1. h[a] = graph[a] /\ h[b] = graph[b - 1] /\ graph[a].rank <= rank /\ rank <= graph[b - 1].rank
        BY <2>4, <2>5, <3>3
      <4>2. graph[a].rank \in Int /\ graph[b - 1].rank \in Int
        BY <1>0, <2>4, <2>5, <3>3
      <4> QED BY <2>3, <4>1, <4>2
    <3>4. CASE a = i /\ b \in i + 1 .. Len(graph) + 1
      BY <2>1, <2>5, <3>4
    <3>5. CASE a \in i + 1 .. Len(graph) + 1 /\ b \in i + 1 .. Len(graph) + 1
      <4>1. /\ h[a] = graph[a - 1] /\ h[b] = graph[b - 1] 
            /\ a - 1 \in DOMAIN graph /\ b - 1 \in DOMAIN graph
        BY <1>0, <2>5, <3>5
      <4>2. a - 1 < b - 1
        BY <3>5
      <4> QED BY <4>1, <4>2 DEF RankSorted
    <3>6. ~(a = i /\ b = i)
      BY <2>3
    <3> QED BY <2>3, <2>6, <3>1, <3>2, <3>3, <3>4, <3>5, <3>6
  <2>8. \A j \in DOMAIN h : j # i => h[j].context <= lastContext
    BY <1>0, <2>4, <2>5, <2>6 DEF ContextsGenerated
  <2>9. ContextsGenerated'
    <3>1. \A j \in DOMAIN h : h[j].context <= lastContext + 1
      <4> SUFFICES ASSUME NEW j \in DOMAIN h PROVE h[j].context <= lastContext + 1
        OBVIOUS
      <4>1. CASE j = i
        BY <1>0, <2>1, <4>1
      <4>2. CASE j # i
        <5>1. h[j].context \in Nat
          BY <1>0, <2>4, <2>5, <2>6, <4>2
        <5> QED BY <1>0, <2>8, <4>2, <5>1
      <4> QED BY <4>1, <4>2
    <3> QED BY <2>2, <3>1 DEF ContextsGenerated, h
  <2>10. ContextsDistinct'
    <3> SUFFICES ASSUME NEW a \in DOMAIN h, NEW b \in DOMAIN h, h[a].context = h[b].context
                 PROVE  a = b
      BY DEF ContextsDistinct, h
    <3>1. h[i].context > lastContext
      BY <1>0, <2>1
    <3>2. a = i <=> b = i
      <4>1. ASSUME NEW k \in DOMAIN h, k # i PROVE h[k].context # h[i].context
        <5>1. h[k].context <= lastContext /\ h[i].context = lastContext + 1
          BY <2>1, <2>8, <4>1
        <5> QED BY <1>0, <5>1
      <4> QED BY <4>1
    <3>3. CASE a # i /\ b # i
      <4> DEFINE u(k) == IF k < i THEN k ELSE k - 1
      <4>1. \A k \in DOMAIN h : k # i => h[k] = graph[u(k)] /\ u(k) \in DOMAIN graph
        <5> SUFFICES ASSUME NEW k \in DOMAIN h, k # i PROVE h[k] = graph[u(k)] /\ u(k) \in DOMAIN graph
          OBVIOUS
        <5>1. CASE k \in 1 .. i - 1
          BY <1>0, <2>4, <5>1
        <5>2. CASE k \in i + 1 .. Len(graph) + 1
          <6>1. ~(k < i)
            BY <5>2
          <6> QED BY <1>0, <2>5, <5>2, <6>1
        <5> QED BY <2>6, <5>1, <5>2
      <4>2. u(a) = u(b)
        <5> HIDE DEF u
        <5> QED BY <3>3, <4>1 DEF ContextsDistinct
      <4> QED BY <2>3, <3>3, <4>2
    <3> QED BY <3>2, <3>3
  <2> QED BY <2>7, <2>9, <2>10
<1>2. CASE AddDllDirectories
  <2>1. /\ DOMAIN graph' = DOMAIN graph /\ lastContext' = lastContext
        /\ \A j \in DOMAIN graph : graph'[j].rank = graph[j].rank /\ graph'[j].context = graph[j].context
    <3>1. graph' = [j \in DOMAIN graph |-> [graph[j] EXCEPT !.dlls = @ \/ graph[j].context = current]]
      BY <1>2 DEF AddDllDirectories
    <3>2. \A j \in DOMAIN graph : graph[j] \in Node
      BY <1>0, ElementOfSeq DEF TypeOK
    <3>3. lastContext' = lastContext
      BY <1>2 DEF AddDllDirectories
    <3> QED BY <3>1, <3>2, <3>3 DEF Node
  <2> QED BY <2>1 DEF RankSorted, ContextsDistinct, ContextsGenerated
<1>3. ASSUME NEW context \in Contexts, RemoveNode(context)
      PROVE  RankSorted' /\ ContextsDistinct' /\ ContextsGenerated'
  <2> DEFINE h == graph'
             u(i, k) == IF k < i THEN k ELSE k + 1
  <2>1. PICK i \in DOMAIN graph : h = RemoveAt(graph, i)
    BY <1>3 DEF RemoveNode
  <2>2. i \in 1 .. Len(graph) /\ graph \in Seq(Node)
    BY <1>0 DEF TypeOK
  <2>3. /\ h \in Seq(Node) /\ Len(h) = Len(graph) - 1
        /\ \A j \in 1 .. i - 1 : h[j] = graph[j]
        /\ \A j \in i .. Len(graph) - 1 : h[j] = graph[j + 1]
    <3> HIDE DEF h
    <3> QED BY <2>1, <2>2, RemoveAtProperties
  <2> HIDE DEF h
  <2>4. DOMAIN h = 1 .. Len(graph) - 1
    BY <2>3, LenProperties
  <2>5. ASSUME NEW k \in DOMAIN h PROVE h[k] = graph[u(i, k)] /\ u(i, k) \in DOMAIN graph
    <3>1. CASE k < i
      BY <1>0, <2>2, <2>3, <2>4, <3>1
    <3>2. CASE ~(k < i)
      <4>1. k \in i .. Len(graph) - 1
        BY <1>0, <2>2, <2>4, <3>2
      <4> QED BY <1>0, <2>2, <2>3, <3>2, <4>1
    <3> QED BY <3>1, <3>2
  <2>6. \A a, b \in DOMAIN h : a < b => u(i, a) < u(i, b)
    BY <1>0, <2>2, <2>4
  <2>7. \A a, b \in DOMAIN h : u(i, a) = u(i, b) => a = b
    BY <1>0, <2>2, <2>4
  <2>8. lastContext' = lastContext
    BY <1>3 DEF RemoveNode
  <2> HIDE DEF u
  <2>9. \A a, b \in DOMAIN h : a < b => h[a].rank <= h[b].rank
    BY <2>5, <2>6 DEF RankSorted
  <2>10. \A a, b \in DOMAIN h : h[a].context = h[b].context => a = b
    BY <2>5, <2>7 DEF ContextsDistinct
  <2>11. \A a \in DOMAIN h : h[a].context <= lastContext
    BY <2>5 DEF ContextsGenerated
  <2> QED BY <2>8, <2>9, <2>10, <2>11 DEF RankSorted, ContextsDistinct, ContextsGenerated, h
<1>4. CASE graph' = graph /\ lastContext' \in {lastContext, lastContext + 1}
  <2>1. RankSorted' /\ ContextsDistinct'
    BY <1>4 DEF RankSorted, ContextsDistinct
  <2>2. \A j \in DOMAIN graph : graph[j].context <= lastContext'
    BY <1>0, <1>4 DEF ContextsGenerated
  <2> QED BY <1>4, <2>1, <2>2 DEF ContextsGenerated
<1> QED BY <1>1, <1>2, <1>3, <1>4, GraphStep DEF OtherStep

\* An Add keeps every node and every WinRT package and makes one of each; Remove
\* keeps all nodes but the one it takes.
LEMMA NodesAfterAdd ==
    ASSUME TypeOK, RankSorted,
           NEW package \in Packages, NEW rank \in Ranks, NEW prepend \in BOOLEAN,
           AddNode(package, rank, prepend)
    PROVE  /\ \A j \in DOMAIN graph : \E k \in DOMAIN graph' : graph'[k] = graph[j]
           /\ \A k \in DOMAIN graph' : \/ graph'[k].context = current'
                                       \/ \E j \in DOMAIN graph : graph'[k] = graph[j]
           /\ \E k \in DOMAIN graph' : graph'[k].context = current'
           /\ \A j \in DOMAIN winrt : \E k \in DOMAIN winrt' : winrt'[k] = winrt[j]
           /\ \E k \in DOMAIN winrt' : winrt'[k] = current'
<1> DEFINE node == [context |-> lastContext + 1, package |-> package, rank |-> rank, dlls |-> FALSE]
           h == graph'
<1>1. PICK i \in 1 .. Len(graph) + 1 :
          /\ winrt' = InsertOrAppend(winrt, i, lastContext + 1)
          /\ h \in Seq(Node) /\ Len(h) = Len(graph) + 1
          /\ h[i] = node
          /\ \A j \in 1 .. i - 1 : h[j] = graph[j]
          /\ \A j \in i .. Len(graph) : h[j + 1] = graph[j]
  BY NodeAdded
<1>2. node.context = current' /\ current' = lastContext + 1 /\ current' \in Contexts
  BY BoundAssumption DEF AddNode, TypeOK, Contexts
<1> HIDE DEF h, node
<1>3. /\ Len(graph) \in Nat /\ DOMAIN graph = 1 .. Len(graph) /\ DOMAIN h = 1 .. Len(graph) + 1
  BY <1>1, LenProperties DEF TypeOK
<1>4. ASSUME NEW j \in DOMAIN graph PROVE \E k \in DOMAIN h : h[k] = graph[j]
  <2>1. CASE j < i
    BY <1>1, <1>3, <2>1
  <2>2. CASE i <= j
    <3>1. j + 1 \in DOMAIN h /\ h[j + 1] = graph[j]
      BY <1>1, <1>3, <2>2
    <3> QED BY <3>1
  <2> QED BY <1>1, <1>3, <2>1, <2>2
<1>5. ASSUME NEW k \in DOMAIN h, k # i PROVE \E j \in DOMAIN graph : h[k] = graph[j]
  <2>1. CASE k < i
    BY <1>1, <1>3, <2>1
  <2>2. CASE i < k
    <3>1. k - 1 \in i .. Len(graph) /\ (k - 1) + 1 = k
      BY <1>3, <2>2
    <3>2. h[k] = graph[k - 1]
      <4>1. h[(k - 1) + 1] = graph[k - 1]
        BY <1>1, <3>1
      <4> QED BY <3>1, <4>1
    <3> QED BY <1>3, <3>1, <3>2
  <2> QED BY <1>3, <1>5, <2>1, <2>2
<1>6. i \in DOMAIN h /\ h[i].context = current'
  BY <1>1, <1>2, <1>3
<1>7. i \in Nat \ {0} /\ winrt \in Seq(Contexts) /\ winrt' = InsertOrAppend(winrt, i, current')
  BY <1>1, <1>2, <1>3 DEF TypeOK
<1>8. /\ \A j \in DOMAIN winrt : \E k \in DOMAIN winrt' : winrt'[k] = winrt[j]
      /\ \E k \in DOMAIN winrt' : winrt'[k] = current'
  <2>1. PICK x \in Contexts : x = current'
    BY <1>2
  <2>2. PICK s : s = winrt
    OBVIOUS
  <2>3. PICK r : r = winrt'
    OBVIOUS
  <2>4. s \in Seq(Contexts) /\ i \in Nat \ {0} /\ r = InsertOrAppend(s, i, x)
    BY <1>7, <2>1, <2>2, <2>3
  <2>5. \E k \in DOMAIN r : r[k] = x
    BY <2>1, <2>4, InsertOrAppendProperties
  <2>6. \A j \in DOMAIN s : \E k \in DOMAIN r : r[k] = s[j]
    BY <2>1, <2>4, InsertOrAppendProperties
  <2> QED BY <2>1, <2>2, <2>3, <2>5, <2>6
<1> QED BY <1>4, <1>5, <1>6, <1>8 DEF h

\* A Remove takes the node of its context and keeps every other.
LEMMA NodesAfterRemove ==
    ASSUME TypeOK, ContextsDistinct, NEW context \in Contexts, RemoveNode(context)
    PROVE  /\ \A j \in DOMAIN graph : graph[j].context # context =>
                 \E k \in DOMAIN graph' : graph'[k] = graph[j]
           /\ \A k \in DOMAIN graph' : \E j \in DOMAIN graph :
                 graph'[k] = graph[j] /\ graph[j].context # context
<1> DEFINE h == graph'
<1>1. PICK i \in DOMAIN graph : graph[i].context = context /\ h = RemoveAt(graph, i)
  BY DEF RemoveNode
<1> HIDE DEF h
<1>2. /\ Len(graph) \in Nat /\ DOMAIN graph = 1 .. Len(graph) /\ graph \in Seq(Node)
      /\ i \in 1 .. Len(graph)
  BY LenProperties DEF TypeOK
<1>3. /\ h \in Seq(Node) /\ Len(h) = Len(graph) - 1
      /\ \A j \in 1 .. i - 1 : h[j] = graph[j]
      /\ \A j \in i .. Len(graph) - 1 : h[j] = graph[j + 1]
  BY <1>1, <1>2, RemoveAtProperties
<1>4. DOMAIN h = 1 .. Len(graph) - 1
  BY <1>3, LenProperties
<1>5. ASSUME NEW j \in DOMAIN graph, j # i PROVE \E k \in DOMAIN h : h[k] = graph[j]
  <2>1. CASE j < i
    BY <1>2, <1>3, <1>4, <2>1
  <2>2. CASE i < j
    <3>1. j - 1 \in i .. Len(graph) - 1 /\ (j - 1) + 1 = j
      BY <1>2, <2>2
    <3>2. h[j - 1] = graph[(j - 1) + 1]
      BY <1>3, <3>1
    <3> QED BY <1>2, <1>4, <3>1, <3>2
  <2> QED BY <1>2, <1>5, <2>1, <2>2
<1>6. ASSUME NEW k \in DOMAIN h PROVE \E j \in DOMAIN graph : j # i /\ h[k] = graph[j]
  <2>1. CASE k < i
    BY <1>2, <1>3, <1>4, <2>1
  <2>2. CASE i <= k
    <3>1. k \in i .. Len(graph) - 1 /\ k + 1 \in DOMAIN graph /\ k + 1 # i
      BY <1>2, <1>4, <2>2
    <3> QED BY <1>3, <3>1
  <2> QED BY <1>2, <1>4, <2>1, <2>2
<1> QED BY <1>1, <1>5, <1>6 DEF ContextsDistinct, h

\* A call under way stays one that will advance the revision.
LEMMA BusyStep == TypeOK /\ Busy /\ [Next]_vars => Busy'
<1> SUFFICES ASSUME TypeOK, Busy, [Next]_vars PROVE Busy'
  OBVIOUS
<1> USE DEF Busy
<1>1. ASSUME NEW package, NEW rank, NEW prepend, AddNode(package, rank, prepend) PROVE Busy'
  BY <1>1, BoundAssumption DEF AddNode, TypeOK, Contexts, history
<1>2. CASE AddDllDirectories \/ AddDllDirectoriesFails \/ WritePathFails
  BY <1>2 DEF AddDllDirectories, AddDllDirectoriesFails, WritePathFails, Return
<1>3. ASSUME NEW context \in Contexts, RemoveNode(context) \/ RemoveUnknown(context) PROVE Busy'
  BY <1>3 DEF RemoveNode, RemoveUnknown, Return
<1>4. CASE ReadPath \/ WritePath
  BY <1>4 DEF ReadPath, WritePath, Return
<1>5. CASE (\E d \in Dirs : AppAppends(d)) \/ AppPutsBack \/ ParseAppxManifestFails \/ UNCHANGED vars
  BY <1>5 DEF AppAppends, AppPutsBack, ParseAppxManifestFails, vars, op
<1> QED BY <1>1, <1>2, <1>3, <1>4, <1>5 DEF Next

\* The revision id of the last return is the current one.
LEMMA PublishedStep == published.revision = revision /\ [Next]_vars => (published.revision = revision)'
<1> SUFFICES ASSUME published.revision = revision, [Next]_vars PROVE published'.revision = revision'
  OBVIOUS
<1>1. ASSUME NEW g, NEW rev, Return(g, rev) PROVE published'.revision = revision'
  BY <1>1 DEF Return
<1>2. \/ \E g, rev : Return(g, rev)
      \/ UNCHANGED <<published, revision>>
  BY DEF Next, AddNode, AddDllDirectories, RemoveNode, ParseAppxManifestFails, AddDllDirectoriesFails,
         RemoveUnknown, ReadPath, WritePath, WritePathFails, AppAppends, AppPutsBack, vars, history
<1> QED BY <1>1, <1>2

\* What was handed out stays whole, what Add has made stays until it returns, and what
\* is in the graph is handed out unless a call fails.
LEMMA ServedStep ==
    TypeOK /\ RankSorted /\ ContextsDistinct /\ Busy /\ AddedNow /\ HandedServed /\ NodesHanded
        /\ [Next]_vars => AddedNow' /\ HandedServed' /\ NodesHanded'
<1> SUFFICES ASSUME TypeOK, RankSorted, ContextsDistinct, Busy,
                    AddedNow, HandedServed, NodesHanded, [Next]_vars
             PROVE  AddedNow' /\ HandedServed' /\ NodesHanded'
  OBVIOUS
<1>1. ASSUME NEW package \in Packages, NEW rank \in Ranks, NEW prepend \in BOOLEAN,
             AddNode(package, rank, prepend)
      PROVE  AddedNow' /\ HandedServed' /\ NodesHanded'
  <2>1. /\ \A j \in DOMAIN graph : \E k \in DOMAIN graph' : graph'[k] = graph[j]
        /\ \A k \in DOMAIN graph' : \/ graph'[k].context = current'
                                    \/ \E j \in DOMAIN graph : graph'[k] = graph[j]
        /\ \E k \in DOMAIN graph' : graph'[k].context = current'
        /\ \A j \in DOMAIN winrt : \E k \in DOMAIN winrt' : winrt'[k] = winrt[j]
        /\ \E k \in DOMAIN winrt' : winrt'[k] = current'
    BY <1>1, NodesAfterAdd
  <2>2. step = "idle" /\ step' # "idle" /\ adding' = TRUE /\ handed' = handed /\ mishaps' = mishaps
    BY <1>1 DEF AddNode, history
  <2>3. AddedNow'
    BY <2>1 DEF AddedNow
  <2>4. HandedServed'
    <3>1. ASSUME NEW c \in handed
          PROVE  /\ \E i \in DOMAIN graph' : graph'[i].context = c /\ graph'[i].dlls
                 /\ \E i \in DOMAIN winrt' : winrt'[i] = c
      <4>1. PICK i \in DOMAIN graph : graph[i].context = c /\ graph[i].dlls
        BY DEF HandedServed
      <4>2. PICK j \in DOMAIN winrt : winrt[j] = c
        BY DEF HandedServed
      <4>3. \E k \in DOMAIN graph' : graph'[k] = graph[i]
        BY <2>1
      <4>4. \E k \in DOMAIN winrt' : winrt'[k] = winrt[j]
        BY <2>1
      <4> QED BY <4>1, <4>2, <4>3, <4>4
    <3> QED BY <2>2, <3>1 DEF HandedServed
  <2>5. NodesHanded'
    <3> SUFFICES ASSUME "failure" \notin mishaps, NEW k \in DOMAIN graph'
                 PROVE  graph'[k].context \in handed \/ graph'[k].context = current'
      BY <2>2 DEF NodesHanded
    <3> QED BY <2>1, <2>2 DEF NodesHanded
  <2> QED BY <2>3, <2>4, <2>5
<1>2. CASE AddDllDirectories
  <2>1. /\ DOMAIN graph' = DOMAIN graph
        /\ \A j \in DOMAIN graph : /\ graph'[j].context = graph[j].context
                                   /\ graph'[j].dlls = (graph[j].dlls \/ graph[j].context = current)
    <3>1. graph' = [j \in DOMAIN graph |-> [graph[j] EXCEPT !.dlls = @ \/ graph[j].context = current]]
      BY <1>2 DEF AddDllDirectories
    <3>2. \A j \in DOMAIN graph : graph[j] \in Node
      BY LenProperties, ElementOfSeq DEF TypeOK
    <3> QED BY <3>1, <3>2 DEF Node
  <2>2. /\ step' = "idle" /\ handed' = handed \cup {current} /\ winrt' = winrt /\ mishaps' = mishaps
        /\ step # "idle" /\ adding
    BY <1>2 DEF AddDllDirectories, Return, Busy
  <2>3. AddedNow'
    BY <2>2 DEF AddedNow
  <2>4. HandedServed'
    <3>1. ASSUME NEW c \in handed
          PROVE  /\ \E i \in DOMAIN graph' : graph'[i].context = c /\ graph'[i].dlls
                 /\ \E i \in DOMAIN winrt : winrt[i] = c
      <4>1. PICK i \in DOMAIN graph : graph[i].context = c /\ graph[i].dlls
        BY DEF HandedServed
      <4>2. graph'[i].context = c /\ graph'[i].dlls
        BY <2>1, <4>1
      <4> QED BY <2>1, <4>2 DEF HandedServed
    <3>2. /\ \E i \in DOMAIN graph' : graph'[i].context = current /\ graph'[i].dlls
          /\ \E i \in DOMAIN winrt : winrt[i] = current
      BY <2>1, <2>2 DEF AddedNow
    <3> QED BY <2>2, <3>1, <3>2 DEF HandedServed
  <2>5. NodesHanded'
    BY <2>1, <2>2 DEF NodesHanded
  <2> QED BY <2>3, <2>4, <2>5
<1>3. ASSUME NEW context \in Contexts, RemoveNode(context)
      PROVE  AddedNow' /\ HandedServed' /\ NodesHanded'
  <2>1. /\ \A j \in DOMAIN graph : graph[j].context # context =>
              \E k \in DOMAIN graph' : graph'[k] = graph[j]
        /\ \A k \in DOMAIN graph' : \E j \in DOMAIN graph :
              graph'[k] = graph[j] /\ graph[j].context # context
    BY <1>3, NodesAfterRemove
  <2>2. /\ step = "idle" /\ adding' = FALSE /\ handed' = handed \ {context}
        /\ winrt' = winrt /\ mishaps' = mishaps
    BY <1>3 DEF RemoveNode
  <2>3. AddedNow'
    BY <2>2 DEF AddedNow
  <2>4. HandedServed'
    <3>1. ASSUME NEW c \in handed \ {context}
          PROVE  /\ \E i \in DOMAIN graph' : graph'[i].context = c /\ graph'[i].dlls
                 /\ \E i \in DOMAIN winrt : winrt[i] = c
      <4>1. PICK i \in DOMAIN graph : graph[i].context = c /\ graph[i].dlls
        BY DEF HandedServed
      <4>2. \E k \in DOMAIN graph' : graph'[k] = graph[i]
        BY <2>1, <4>1
      <4> QED BY <4>1, <4>2 DEF HandedServed
    <3> QED BY <2>2, <3>1 DEF HandedServed
  <2>5. NodesHanded'
    BY <2>1, <2>2 DEF NodesHanded
  <2> QED BY <2>3, <2>4, <2>5
<1>4. CASE OtherStep
  <2>1. HandedServed'
    BY <1>4 DEF HandedServed, OtherStep
  <2>2. AddedNow'
    BY <1>4 DEF AddedNow, OtherStep
  <2>3. NodesHanded'
    BY <1>4 DEF NodesHanded, OtherStep
  <2> QED BY <2>1, <2>2, <2>3
<1> QED BY <1>1, <1>2, <1>3, <1>4, GraphStep

\* The WinRT packages get the new one at the graph's index, so that the two lists are
\* in the same order until a package is removed from one of them.
LEMMA WinRTStep == TypeOK /\ RankSorted /\ WinRTOrder /\ [Next]_vars => WinRTOrder'
<1> SUFFICES ASSUME TypeOK, RankSorted, WinRTOrder, [Next]_vars PROVE WinRTOrder'
  OBVIOUS
<1>0. /\ Len(graph) \in Nat /\ DOMAIN graph = 1 .. Len(graph) /\ graph \in Seq(Node)
      /\ Len(winrt) \in Nat /\ DOMAIN winrt = 1 .. Len(winrt) /\ winrt \in Seq(Contexts)
      /\ Len(graph) <= Len(winrt)
  BY LenProperties DEF TypeOK, WinRTOrder
<1>1. ASSUME NEW package \in Packages, NEW rank \in Ranks, NEW prepend \in BOOLEAN,
             AddNode(package, rank, prepend)
      PROVE  WinRTOrder'
  <2> DEFINE node == [context |-> lastContext + 1, package |-> package, rank |-> rank, dlls |-> FALSE]
             c == lastContext + 1
             h == graph'
             w == winrt'
  <2>0. PICK i \in 1 .. Len(graph) + 1 :
            /\ w = InsertOrAppend(winrt, i, lastContext + 1)
            /\ h \in Seq(Node) /\ Len(h) = Len(graph) + 1
            /\ h[i] = node
            /\ \A j \in 1 .. i - 1 : h[j] = graph[j]
            /\ \A j \in i .. Len(graph) : h[j + 1] = graph[j]
    BY <1>1, NodeAdded
  <2>1. /\ w = InsertOrAppend(winrt, i, c)
        /\ h \in Seq(Node) /\ Len(h) = Len(graph) + 1
        /\ h[i].context = c
        /\ \A j \in 1 .. i - 1 : h[j] = graph[j]
        /\ \A j \in i .. Len(graph) : h[j + 1] = graph[j]
    BY <2>0
  <2>2. c \in Contexts
    BY <1>1, BoundAssumption DEF AddNode, TypeOK, Contexts
  <2> HIDE DEF c, h, w
  <2>3. /\ w \in Seq(Contexts) /\ Len(w) = Len(winrt) + 1
        /\ \A j \in 1 .. i - 1 : w[j] = winrt[j]
        /\ w[i] = c
        /\ \A j \in i .. Len(winrt) : w[j + 1] = winrt[j]
    <3>1. i \in 1 .. Len(winrt) + 1
      BY <1>0
    <3>2. \A r : r = InsertOrAppend(winrt, i, c) =>
                  /\ r \in Seq(Contexts) /\ Len(r) = Len(winrt) + 1
                  /\ \A j \in 1 .. i - 1 : r[j] = winrt[j]
                  /\ r[i] = c
                  /\ \A j \in i .. Len(winrt) : r[j + 1] = winrt[j]
      BY <1>0, <2>2, <3>1, InsertOrAppendPlaces
    <3> QED BY <2>1, <3>2
  <2>4. ASSUME Len(h) = Len(w) PROVE w = ContextsOf(h)
    <3>a. Len(graph) \in Nat /\ Len(winrt) \in Nat
      BY <1>0
    <3>b. Len(h) = Len(graph) + 1 /\ Len(w) = Len(winrt) + 1
      BY <2>1, <2>3
    <3>c. Len(graph) + 1 = Len(winrt) + 1
      BY <2>4, <3>b, Zenon
    <3>0. Len(graph) = Len(winrt)
      BY <3>a, <3>c
    <3>1. Len(graph) = Len(winrt) /\ winrt = ContextsOf(graph)
      BY <3>0 DEF WinRTOrder
    <3>2. \A j \in 1 .. Len(graph) : winrt[j] = graph[j].context
      BY <1>0, <3>1 DEF ContextsOf
    <3>3. ASSUME NEW k \in 1 .. Len(graph) + 1 PROVE w[k] = h[k].context
      <4>1. CASE k < i
        <5>1. k \in 1 .. i - 1 /\ k \in 1 .. Len(graph)
          BY <1>0, <4>1
        <5> QED BY <2>1, <2>3, <3>2, <5>1
      <4>2. CASE k = i
        BY <2>1, <2>3, <4>2
      <4>3. CASE i < k
        <5>1. k - 1 \in i .. Len(graph) /\ k - 1 \in i .. Len(winrt) /\ k - 1 \in 1 .. Len(graph)
              /\ (k - 1) + 1 = k
          BY <1>0, <3>1, <4>3
        <5>2. w[(k - 1) + 1] = winrt[k - 1] /\ h[(k - 1) + 1] = graph[k - 1]
          BY <2>1, <2>3, <5>1
        <5> QED BY <3>2, <5>1, <5>2
      <4> QED BY <1>0, <4>1, <4>2, <4>3
    <3>4. DOMAIN w = 1 .. Len(graph) + 1 /\ DOMAIN h = 1 .. Len(graph) + 1
      BY <2>1, <2>3, <3>1, LenProperties
    <3>5. w \in [1 .. Len(graph) + 1 -> Contexts]
      BY <2>3, <3>4, ElementOfSeq, LenProperties
    <3> QED BY <3>3, <3>4, <3>5 DEF ContextsOf
  <2>5. Len(h) <= Len(w)
    BY <1>0, <2>1, <2>3
  <2> QED BY <2>4, <2>5 DEF WinRTOrder, h, w
<1>2. CASE AddDllDirectories
  <2>1. /\ graph' = [k \in DOMAIN graph |-> [graph[k] EXCEPT !.dlls = @ \/ graph[k].context = current]]
        /\ winrt' = winrt
    BY <1>2 DEF AddDllDirectories
  <2>2. \A k \in DOMAIN graph : graph[k] \in Node
    BY <1>0, ElementOfSeq
  <2>3. DOMAIN graph' = DOMAIN graph /\ \A k \in DOMAIN graph : graph'[k].context = graph[k].context
    BY <2>1, <2>2 DEF Node
  <2>4. ContextsOf(graph') = ContextsOf(graph)
    BY <2>3 DEF ContextsOf
  <2>5. Len(graph') = Len(graph)
    BY <1>0, <2>3
  <2> QED BY <2>1, <2>4, <2>5 DEF WinRTOrder
<1>3. ASSUME NEW context \in Contexts, RemoveNode(context) PROVE WinRTOrder'
  <2>1. PICK k \in DOMAIN graph : graph' = RemoveAt(graph, k) /\ winrt' = winrt
    BY <1>3 DEF RemoveNode
  <2>2. k \in 1 .. Len(graph)
    BY <1>0
  <2>3. Len(graph') = Len(graph) - 1
    BY <1>0, <2>1, <2>2, RemoveAtProperties
  <2>a. Len(graph) \in Nat /\ Len(winrt) \in Nat /\ Len(graph) <= Len(winrt)
    BY <1>0
  <2>b. Len(winrt') = Len(winrt)
    BY <2>1
  <2>4. Len(graph') <= Len(winrt') /\ Len(graph') # Len(winrt')
    BY <2>3, <2>a, <2>b
  <2> QED BY <2>4 DEF WinRTOrder
<1>4. CASE OtherStep
  BY <1>4 DEF OtherStep, WinRTOrder
<1> QED BY <1>1, <1>2, <1>3, <1>4, GraphStep

\* Every step preserves the invariant.
LEMMA GraphInvariantStep == GraphInv /\ [Next]_vars => GraphInv'
<1> SUFFICES ASSUME GraphInv, [Next]_vars PROVE GraphInv'
  OBVIOUS
<1>1. /\ TypeOK /\ RankSorted /\ ContextsDistinct /\ WinRTOrder /\ Busy /\ ContextsGenerated
      /\ AddedNow /\ HandedServed /\ NodesHanded /\ published.revision = revision
  BY DEF GraphInv
<1>2. TypeOK'
  BY <1>1, GraphTypeStep
<1>3. RankSorted' /\ ContextsDistinct' /\ ContextsGenerated'
  BY <1>1, OrderStep
<1>4. Busy'
  BY <1>1, BusyStep
<1>5. AddedNow' /\ HandedServed' /\ NodesHanded'
  BY <1>1, ServedStep
<1>6. (published.revision = revision)'
  BY <1>1, PublishedStep
<1>7. WinRTOrder'
  BY <1>1, WinRTStep
<1> QED BY <1>2, <1>3, <1>4, <1>5, <1>6, <1>7 DEF GraphInv

\* It holds before the first call.
LEMMA GraphInitInvariant == Init => GraphInv
<1> SUFFICES ASSUME Init PROVE GraphInv
  OBVIOUS
<1> USE DEF Init
<1>1. TypeOK
  <2>1. path \in Seq(Dirs) /\ path \in Seq(Packages \cup Dirs)
    <3>1. path = << >> \/ \E d \in Dirs : path = <<d>>
      OBVIOUS
    <3>2. CASE path = << >>
      BY <3>2, EmptySeq
    <3>3. ASSUME NEW d \in Dirs, path = <<d>> PROVE path \in Seq(Dirs) /\ path \in Seq(Packages \cup Dirs)
      BY <3>3
    <3> QED BY <3>1, <3>2, <3>3
  <2>2. /\ graph \in Seq(Node) /\ winrt \in Seq(Contexts) /\ lastAdded \in Seq(Packages)
        /\ appRead \in Seq(Dirs) /\ newPath \in Seq(Packages \cup Dirs) /\ published.contexts \in Seq(Contexts)
    BY EmptySeq
  <2>3. 0 \in 0 .. MaxContext /\ 0 \in 0 .. MaxRevision
    BY BoundAssumption
  <2>4. published \in [revision : 0 .. MaxRevision, contexts : Seq(Contexts)]
    BY <2>2, <2>3
  <2> QED BY <2>1, <2>2, <2>3, <2>4 DEF TypeOK
<1>2. DOMAIN graph = {}
  BY EmptySeq, LenProperties
<1>3. RankSorted /\ ContextsDistinct /\ ContextsGenerated
  BY <1>2 DEF RankSorted, ContextsDistinct, ContextsGenerated
<1>4. Busy /\ AddedNow /\ HandedServed /\ NodesHanded
  BY <1>2 DEF Busy, AddedNow, HandedServed, NodesHanded
<1>5. WinRTOrder
  <2>1. << >> \in Seq(Node) /\ Len(<< >>) = 0 /\ << >> \in Seq(Contexts)
    BY EmptySeq
  <2>2. DOMAIN graph = {} /\ DOMAIN winrt = {}
    BY <2>1, LenProperties
  <2>3. ContextsOf(graph) = winrt
    BY <2>2 DEF ContextsOf
  <2> QED BY <2>1, <2>3 DEF WinRTOrder
<1> QED BY <1>1, <1>3, <1>4, <1>5 DEF GraphInv

-----------------------------------------------------------------------------
(* The package graph: theorems *)

\* The invariant holds in every reachable state: the variables have their types, and
\* what was handed out, what is under way and what the graph holds fit together.
THEOREM GraphInductiveInvariant == Spec => []GraphInv
BY GraphInitInvariant, GraphInvariantStep, PTL DEF Spec

\* The graph is sorted by rank and has each context once, after any Adds and Removes.
THEOREM GraphIsSorted == Spec => []GraphSorted
<1>1. GraphInv => GraphSorted
  BY DEF GraphInv, GraphSorted
<1> QED BY <1>1, GraphInductiveInvariant, PTL

\* What the app has a context for can be used, and it has a context for every node,
\* unless a call failed halfway.
THEOREM ContextsAreUsable == Spec => []ContextsUsable
<1>1. GraphInv => ContextsUsable
  BY DEF GraphInv, ContextsUsable, HandedComplete, EveryNodeRemovable, HandedServed, NodesHanded
<1> QED BY <1>1, GraphInductiveInvariant, PTL

\* A new node comes first or last among those of its rank, as the caller asked, and
\* the others keep their order.
THEOREM CollisionsInOrder == Spec => CollisionOrder
<1> DEFINE Ordered(package, rank, prepend) ==
               LET i == Added(graph, graph') IN
               /\ RemoveAt(graph', i) = graph
               /\ \A j \in DOMAIN graph' \ {i} : graph'[j].rank = rank => (i < j <=> prepend)
           Step == \A package \in Packages, rank \in Ranks, prepend \in BOOLEAN :
                       AddNode(package, rank, prepend) => Ordered(package, rank, prepend)
<1>1. ASSUME GraphInv, NEW package \in Packages, NEW rank \in Ranks, NEW prepend \in BOOLEAN,
             AddNode(package, rank, prepend)
      PROVE  Ordered(package, rank, prepend)
  <2> DEFINE node == [context |-> lastContext + 1, package |-> package, rank |-> rank, dlls |-> FALSE]
             h == graph'
  <2>0. TypeOK /\ RankSorted /\ ContextsGenerated
    BY <1>1 DEF GraphInv
  <2>1. PICK i \in 1 .. Len(graph) + 1 :
            /\ node \in Node
            /\ h = InsertAt(graph, i, node)
            /\ h \in Seq(Node) /\ Len(h) = Len(graph) + 1
            /\ h[i] = node
            /\ \A j \in 1 .. i - 1 :
                  /\ h[j] = graph[j]
                  /\ graph[j].rank < rank \/ (~prepend /\ graph[j].rank = rank)
            /\ \A j \in i .. Len(graph) :
                  /\ h[j + 1] = graph[j]
                  /\ rank < graph[j].rank \/ (prepend /\ graph[j].rank = rank)
    BY <1>1, <2>0, NodeAdded
  <2>2. node.context = lastContext + 1
    OBVIOUS
  <2> HIDE DEF h, node
  <2>3. /\ Len(graph) \in Nat /\ DOMAIN graph = 1 .. Len(graph) /\ DOMAIN h = 1 .. Len(graph) + 1
        /\ graph \in Seq(Node) /\ lastContext \in Nat
        /\ \A j \in DOMAIN graph : graph[j].context \in Nat /\ graph[j].rank \in Int
        /\ rank \in Int
    <3>1. Contexts \subseteq Nat /\ Ranks \subseteq Int /\ lastContext \in Nat
      BY <2>0, BoundAssumption, RankAssumption DEF Contexts, TypeOK
    <3>2. graph \in Seq(Node) /\ Len(graph) \in Nat /\ DOMAIN graph = 1 .. Len(graph)
      BY <2>0, LenProperties DEF TypeOK
    <3>3. \A n \in Node : n.context \in Contexts /\ n.rank \in Ranks
      BY DEF Node
    <3>4. \A j \in DOMAIN graph : graph[j] \in Node
      BY <3>2, ElementOfSeq
    <3>5. DOMAIN h = 1 .. Len(graph) + 1
      BY <2>1, LenProperties
    <3> QED BY <3>1, <3>2, <3>3, <3>4, <3>5
  <2>4. ASSUME NEW j \in DOMAIN h, j # i
        PROVE  \/ j < i /\ j \in DOMAIN graph /\ h[j] = graph[j]
               \/ i < j /\ j - 1 \in i .. Len(graph) /\ j - 1 \in DOMAIN graph /\ h[j] = graph[j - 1]
    <3>1. CASE j < i
      BY <2>1, <2>3, <3>1
    <3>2. CASE i < j
      <4>1. j - 1 \in i .. Len(graph) /\ j - 1 \in DOMAIN graph /\ (j - 1) + 1 = j
        BY <2>3, <3>2
      <4>2. h[(j - 1) + 1] = graph[j - 1]
        BY <2>1, <4>1
      <4> QED BY <3>2, <4>1, <4>2
    <3> QED BY <2>3, <2>4, <3>1, <3>2
  <2>5. Added(graph, h) = i
    <3> DEFINE New(k) == \A j \in DOMAIN graph : graph[j].context # h[k].context
    <3>1. i \in DOMAIN h /\ New(i)
      <4>1. \A j \in DOMAIN graph : graph[j].context <= lastContext /\ graph[j].context \in Nat
        BY <2>0, <2>3 DEF ContextsGenerated
      <4>2. h[i].context = lastContext + 1
        BY <2>1, <2>2
      <4> QED BY <2>3, <4>1, <4>2
    <3>2. ASSUME NEW k \in DOMAIN h, k # i PROVE ~New(k)
      <4>1. \E j \in DOMAIN graph : h[k] = graph[j]
        BY <2>4, <3>2
      <4> QED BY <4>1
    <3>3. Added(graph, h) = CHOOSE k \in DOMAIN h : New(k)
      BY DEF Added
    <3> HIDE DEF New
    <3> QED BY <3>1, <3>2, <3>3
  <2>6. RemoveAt(h, i) = graph
    BY <2>1, <2>3, RemoveInserted
  <2>7. ASSUME NEW j \in DOMAIN h \ {i}, h[j].rank = rank PROVE i < j <=> prepend
    <3>1. CASE j < i
      <4>1. h[j] = graph[j] /\ j \in 1 .. i - 1 /\ j \in DOMAIN graph
        BY <2>3, <2>4, <3>1
      <4>2. graph[j].rank < rank \/ ~prepend
        BY <2>1, <4>1
      <4>3. ~(graph[j].rank < rank)
        BY <2>3, <2>7, <4>1
      <4>4. ~(i < j)
        BY <2>3, <3>1
      <4> QED BY <4>2, <4>3, <4>4
    <3>2. CASE i < j
      <4>1. h[j] = graph[j - 1] /\ j - 1 \in i .. Len(graph) /\ j - 1 \in DOMAIN graph
        BY <2>3, <2>4, <3>2
      <4>2. rank < graph[j - 1].rank \/ prepend
        BY <2>1, <4>1
      <4>3. ~(rank < graph[j - 1].rank)
        BY <2>3, <2>7, <4>1
      <4> QED BY <3>2, <4>2, <4>3
    <3> QED BY <2>3, <2>7, <3>1, <3>2
  <2> QED BY <2>5, <2>6, <2>7 DEF h
<1>2. GraphInv => Step
  <2> HIDE DEF Ordered
  <2> QED BY <1>1
<1>3. GraphInv => [Step]_vars
  <2> HIDE DEF Step
  <2> QED BY <1>2
<1>4. [][Step]_vars <=> CollisionOrder
  BY DEF CollisionOrder
<1> HIDE DEF Step
<1> QED BY <1>3, <1>4, GraphInductiveInvariant, PTL

\* A caller that finds the revision id unchanged finds the graph unchanged, unless a
\* call failed halfway.
THEOREM RevisionTellsOfGraph == Spec => RevisionTracksGraph
<1>1. ASSUME GraphInv, [Next]_vars, published'.revision = published.revision, "failure" \notin mishaps'
      PROVE  published'.contexts = published.contexts
  <2>1. \/ Return(graph, revision + 1)
        \/ Return(graph, revision) /\ "failure" \in mishaps'
        \/ published' = published
    <3>1. ASSUME NEW package, NEW rank, NEW prepend, AddNode(package, rank, prepend)
          PROVE  published' = published
      BY <3>1 DEF AddNode, history
    <3>2. ASSUME NEW context, RemoveNode(context) PROVE published' = published
      BY <3>2 DEF RemoveNode
    <3>3. ASSUME NEW context, RemoveUnknown(context) PROVE Return(graph, revision + 1)
      BY <3>3 DEF RemoveUnknown
    <3>4. ASSUME NEW d, AppAppends(d) PROVE published' = published
      BY <3>4 DEF AppAppends
    <3>5. AddDllDirectories => Return(graph, revision + 1)
      BY DEF AddDllDirectories
    <3>6. AddDllDirectoriesFails \/ WritePathFails => Return(graph, revision) /\ "failure" \in mishaps'
      BY DEF AddDllDirectoriesFails, WritePathFails
    <3>7. WritePath => Return(graph, revision + 1) \/ published' = published
      BY DEF WritePath
    <3>8. ParseAppxManifestFails \/ ReadPath \/ AppPutsBack \/ UNCHANGED vars => published' = published
      BY DEF ParseAppxManifestFails, ReadPath, AppPutsBack, vars, history
    <3> QED BY <1>1, <3>1, <3>2, <3>3, <3>4, <3>5, <3>6, <3>7, <3>8 DEF Next
  <2>2. ASSUME Return(graph, revision + 1) PROVE FALSE
    <3>1. published'.revision = revision + 1
      BY <2>2 DEF Return
    <3>2. published.revision = revision /\ revision \in Nat
      BY <1>1, BoundAssumption DEF GraphInv, TypeOK
    <3>3. published'.revision = published.revision
      BY <1>1
    <3> QED BY <3>1, <3>2, <3>3
  <2> QED BY <1>1, <2>1, <2>2
<1>2. GraphInv /\ [Next]_vars =>
          [published'.revision = published.revision /\ "failure" \notin mishaps' =>
              published'.contexts = published.contexts]_vars
  BY <1>1
<1> QED BY <1>2, GraphInductiveInvariant, PTL DEF Spec, RevisionTracksGraph

-----------------------------------------------------------------------------
(* The package graph in PATH *)

\* UpdatePath reads PATH and writes it later: the graph's entries stay in front, and
\* what the app sets in between is overwritten, nothing else of it.
LEMMA PathStep == TypeOK /\ PathInv /\ [Next]_vars => PathInv'
<1> SUFFICES ASSUME TypeOK, PathInv, [Next]_vars, mishaps' = {}
             PROVE  /\ path' = lastAdded' \o appPath'
                    /\ step' \in {"idle", "addDlls"} => lastAdded' = PathList(graph')
                    /\ step' = "writePath" => newPath' = PathList(graph') \o appRead'
  BY DEF PathInv
<1>0. mishaps = {}
  BY DEF Next, AddNode, AddDllDirectories, RemoveNode, ParseAppxManifestFails, AddDllDirectoriesFails,
         RemoveUnknown, ReadPath, WritePath, WritePathFails, AppAppends, AppPutsBack, vars, history
<1>1. /\ path = lastAdded \o appPath
      /\ step \in {"idle", "addDlls"} => lastAdded = PathList(graph)
      /\ step = "writePath" => newPath = PathList(graph) \o appRead
  BY <1>0 DEF PathInv
<1>2. ASSUME NEW s, s \in Seq(Packages) \/ s \in Seq(Dirs) PROVE s \in Seq(Packages \cup Dirs)
  <2>1. Packages \subseteq Packages \cup Dirs /\ Dirs \subseteq Packages \cup Dirs
    OBVIOUS
  <2> QED BY <1>2, <2>1, SeqMonotonic
<1>3. ASSUME NEW package, NEW rank, NEW prepend, AddNode(package, rank, prepend)
      PROVE  path' = lastAdded' \o appPath' /\ step' = "readPath"
  BY <1>1, <1>3 DEF AddNode, history
<1>4. ASSUME NEW context, RemoveNode(context)
      PROVE  path' = lastAdded' \o appPath' /\ step' = "readPath"
  BY <1>1, <1>4 DEF RemoveNode
<1>5. CASE ReadPath
  <2>1. Without(path, lastAdded) = appPath
    <3>1. lastAdded \in Seq(Packages \cup Dirs) /\ appPath \in Seq(Packages \cup Dirs)
      BY <1>2 DEF TypeOK
    <3> QED BY <1>1, <3>1, WithoutFront
  <2> QED BY <1>1, <1>5, <2>1 DEF ReadPath
<1>6. CASE WritePath
  BY <1>1, <1>6 DEF WritePath, Return
<1>7. CASE AddDllDirectories
  <2>1. PathList(graph') = PathList(graph)
    <3>1. graph' = [i \in DOMAIN graph |-> [graph[i] EXCEPT !.dlls = @ \/ graph[i].context = current]]
      BY <1>7 DEF AddDllDirectories
    <3>2. \A i \in DOMAIN graph : graph[i] \in Node
      BY LenProperties, ElementOfSeq DEF TypeOK
    <3>3. DOMAIN graph' = DOMAIN graph /\ \A i \in DOMAIN graph : graph'[i].package = graph[i].package
      BY <3>1, <3>2 DEF Node
    <3> QED BY <3>3 DEF PathList
  <2>2. step = "addDlls" /\ step' = "idle" /\ UNCHANGED <<path, lastAdded, appPath>>
    BY <1>7 DEF AddDllDirectories, Return
  <2> QED BY <1>1, <2>1, <2>2
<1>8. ASSUME NEW d \in Dirs, AppAppends(d)
      PROVE  path' = lastAdded' \o appPath' /\ UNCHANGED <<step, lastAdded, graph, newPath, appRead>>
  <2>1. /\ path' = Append(path, d) /\ appPath' = Append(appPath, d)
        /\ UNCHANGED <<step, lastAdded, graph, newPath, appRead>>
    BY <1>8 DEF AppAppends, op
  <2>2. /\ lastAdded \in Seq(Packages \cup Dirs) /\ appPath \in Seq(Packages \cup Dirs)
        /\ d \in Packages \cup Dirs /\ <<d>> \in Seq(Packages \cup Dirs)
    BY <1>2 DEF TypeOK
  <2>3. path' = path \o <<d>> /\ appPath' = appPath \o <<d>>
    BY <1>1, <2>1, <2>2, AppendIsConcat DEF TypeOK
  <2>4. (lastAdded \o appPath) \o <<d>> = lastAdded \o (appPath \o <<d>>)
    BY <2>2, ConcatAssociative
  <2> QED BY <1>1, <2>1, <2>3, <2>4
<1>9. ASSUME NEW context, RemoveUnknown(context)
      PROVE  step = "idle" /\ step' = "idle" /\ UNCHANGED <<path, lastAdded, appPath, graph>>
  BY <1>9 DEF RemoveUnknown, Return
<1>10. ParseAppxManifestFails \/ UNCHANGED vars
           => UNCHANGED <<path, lastAdded, appPath, appRead, graph, step, newPath>>
  BY DEF ParseAppxManifestFails, vars, op, history
<1>11. ~AddDllDirectoriesFails /\ ~WritePathFails /\ ~AppPutsBack
  BY DEF AddDllDirectoriesFails, WritePathFails, AppPutsBack
<1> QED BY <1>1, <1>3, <1>4, <1>5, <1>6, <1>7, <1>8, <1>9, <1>10, <1>11 DEF Next

\* The graph's packages are in front of PATH in the graph's order, and behind them are
\* the app's own entries and nothing else, those missing that the app set between
\* UpdatePath's reading and writing of PATH; as long as no call failed and the app did
\* not put back an old PATH.
THEOREM PathFollowsGraph == Spec => []PathServesGraph
<1>1. Init => PathInv
  <2> SUFFICES ASSUME Init PROVE PathInv
    OBVIOUS
  <2>1. graph = << >> /\ lastAdded = << >> /\ appPath = path /\ step = "idle"
    BY DEF Init
  <2>2. path \in Seq(Packages \cup Dirs)
    BY GraphInitInvariant DEF GraphInv, TypeOK
  <2>3. << >> \o path = path
    BY <2>2, ConcatEmptySeq
  <2>4. PathList(<< >>) = << >>
    <3>1. << >> \in Seq(Node) /\ Len(<< >>) = 0
      BY EmptySeq
    <3>2. PathList(<< >>) \in Seq(Packages) /\ Len(PathList(<< >>)) = 0
      BY <3>1, ListsOfNodes
    <3> QED BY <3>2, EmptySeq
  <2> QED BY <2>1, <2>3, <2>4 DEF PathInv
<1>2. GraphInv /\ PathInv /\ [Next]_vars => PathInv'
  BY PathStep DEF GraphInv
<1>3. PathInv => PathServesGraph
  BY DEF PathInv, PathServesGraph
<1> QED BY <1>1, <1>2, <1>3, GraphInductiveInvariant, PTL DEF Spec

-----------------------------------------------------------------------------
(* The resolution of a dependency *)

\* What is steady is usable as long as the resolution lasts, and was there when
\* the family was counted.
SteadyUsable ==
    purpose \in {"create", "add"} =>
        /\ steady \subseteq installed \ broken
        /\ listing => steady \subseteq counted

\* The champion meets the dependency's version and architecture, and nothing
\* seen so far that was usable all the while beats it: not at all if the
\* dependency names architectures, and otherwise only by being specific to the
\* process's architecture where the champion is neutral.
ChampionFits ==
    /\ best # NoPackage => Eligible(best)
    /\ ~listing => \A p \in steady \ todo :
          Eligible(p) =>
              /\ best # NoPackage
              /\ \/ Version[p] <= Version[best]
                 \/ filter = {} /\ Architecture[best] = Neutral /\ Architecture[p] # Neutral

ResolutionInv == ResolutionTypeOK /\ SteadyUsable /\ ChampionFits /\ NotFoundMeansNone

\* A resolution that does not fail and does not finish.
Looks == ListNames \/ \E p \in Family : Skip(p) \/ Take(p)

\* A resolution that is over before it has looked at every candidate.
GivesUp == Stop("error") \/ Stop("crash")

\* The ways a step of the model may go.
LEMMA ResolutionCases ==
    ASSUME [ResolutionNext]_resolutionVars
    PROVE  \/ CreatePackageDependency \/ Add \/ AddResolved \/ RemoveDependency
           \/ NotFound \/ Found \/ Looks \/ GivesUp
           \/ \E inst, brk : Deploy(inst, brk)
           \/ UNCHANGED resolutionVars
BY DEF ResolutionNext, Looks, GivesUp, NamesDoNotFit, Vanished

\* Every step of the app, of a resolution or of the deployment service keeps
\* the variables in their types.
LEMMA ResolutionTypeStep == ResolutionTypeOK /\ [ResolutionNext]_resolutionVars => ResolutionTypeOK'
<1> SUFFICES ASSUME ResolutionTypeOK, [ResolutionNext]_resolutionVars PROVE ResolutionTypeOK'
  OBVIOUS
<1> USE ChangesAssumption DEF ResolutionTypeOK
<1>1. CASE CreatePackageDependency \/ Add
  <2>1. UNCHANGED <<filter, installed, broken, changes, resolved, contexts>>
    BY <1>1 DEF CreatePackageDependency, Add, deployment, dependency
  <2>2. \/ /\ \/ Resolve("create") /\ purpose = "idle"
              \/ Resolve("add") /\ purpose = "idle" /\ contexts < MaxContexts
           /\ exists' = exists
        \/ exists' = TRUE /\ UNCHANGED <<purpose, listing, counted, todo, best, last, steady>>
    BY <1>1 DEF CreatePackageDependency, Add, dependency, search
  <2>3. CASE /\ \/ Resolve("create") /\ purpose = "idle"
                \/ Resolve("add") /\ purpose = "idle" /\ contexts < MaxContexts
             /\ exists' = exists
    BY <2>1, <2>3 DEF Resolve
  <2>4. CASE exists' = TRUE /\ UNCHANGED <<purpose, listing, counted, todo, best, last, steady>>
    BY <2>1, <2>4
  <2> QED BY <2>2, <2>3, <2>4
<1>2. CASE AddResolved \/ RemoveDependency
  <2>1. CASE AddResolved
    BY <2>1 DEF AddResolved, deployment, search
  <2>2. CASE RemoveDependency
    BY <2>2 DEF RemoveDependency, deployment, search
  <2> QED BY <1>2, <2>1, <2>2
<1>3. CASE NotFound
  BY <1>3 DEF NotFound, Choosing, deployment, dependency
<1>4. CASE Found
  <2>1. /\ best \in Family /\ resolved' = best
        /\ purpose' = "idle" /\ todo = {} /\ ~listing
        /\ UNCHANGED <<filter, installed, broken, changes, listing, counted, todo, best, steady>>
    BY <1>4 DEF Found, Choosing, deployment
  <2>2. contexts' \in 0 .. MaxContexts /\ last' \in {"ok", "gone"}
    BY <1>4 DEF Found, Choosing
  <2>3. exists' \in BOOLEAN
    BY <1>4 DEF Found
  <2>4. best # NoPackage
    BY <1>4 DEF Found
  <2> QED BY <2>1, <2>2, <2>3, <2>4
<1>5. CASE ListNames
  BY <1>5 DEF ListNames, deployment, dependency
<1>6. ASSUME NEW p \in Family, Skip(p) \/ Take(p) PROVE ResolutionTypeOK'
  BY <1>6 DEF Skip, Take, Choosing, deployment, dependency
<1>7. CASE GivesUp
  BY <1>7 DEF GivesUp, Stop, deployment, dependency
<1>8. ASSUME NEW inst \in SUBSET Family, NEW brk \in SUBSET inst, Deploy(inst, brk)
      PROVE  ResolutionTypeOK'
  BY <1>8 DEF Deploy, dependency, search
<1>9. CASE UNCHANGED resolutionVars
  BY <1>9 DEF resolutionVars, deployment, dependency, search
<1>10. ASSUME NEW p \in Family,
              \/ p \notin installed /\ Deploy(installed \cup {p}, broken)
              \/ p \in installed /\ Deploy(installed \ {p}, broken \ {p})
              \/ p \in installed \ broken /\ Deploy(installed, broken \cup {p})
       PROVE  ResolutionTypeOK'
  BY <1>8, <1>10
<1> QED
  BY <1>1, <1>2, <1>3, <1>4, <1>5, <1>6, <1>7, <1>9, <1>10 DEF ResolutionNext, NamesDoNotFit, Vanished, GivesUp

\* The variables have their types to begin with.
LEMMA ResolutionInitTyped == ResolutionInit => ResolutionTypeOK
<1>1. 0 \in 0 .. MaxChanges /\ 0 \in 0 .. MaxContexts
  BY ChangesAssumption
<1>2. ResolutionInit => exists \in BOOLEAN /\ listing \in BOOLEAN /\ ~listing
  BY DEF ResolutionInit
<1> QED BY <1>1, <1>2 DEF ResolutionInit, ResolutionTypeOK

\* The variables always have their types.
THEOREM ResolutionTypeCorrect == ResolutionSpec => []ResolutionTypeOK
BY ResolutionInitTyped, ResolutionTypeStep, PTL DEF ResolutionSpec

-----------------------------------------------------------------------------
\* A resolution begins with what is usable, and a deployment that happens under
\* it takes from what is steady whatever it removes or breaks.
LEMMA SteadyStep == ResolutionTypeOK /\ SteadyUsable /\ [ResolutionNext]_resolutionVars => SteadyUsable'
<1> SUFFICES ASSUME ResolutionTypeOK, SteadyUsable, [ResolutionNext]_resolutionVars PROVE SteadyUsable'
  OBVIOUS
<1> USE DEF SteadyUsable, ResolutionTypeOK
<1>1. CASE CreatePackageDependency \/ Add \/ AddResolved \/ RemoveDependency
  BY <1>1 DEF CreatePackageDependency, Add, AddResolved, RemoveDependency, Resolve, deployment, search
<1>2. CASE NotFound \/ Found
  BY <1>2 DEF NotFound, Found, deployment
<1>3. CASE Looks
  BY <1>3 DEF Looks, ListNames, Skip, Take, deployment
<1>4. CASE GivesUp
  BY <1>4 DEF GivesUp, Stop
<1>5. ASSUME NEW inst, NEW brk, Deploy(inst, brk) PROVE SteadyUsable'
  BY <1>5 DEF Deploy, search
<1>6. CASE UNCHANGED resolutionVars
  BY <1>6 DEF resolutionVars, deployment, search
<1> QED BY <1>1, <1>2, <1>3, <1>4, <1>5, <1>6, ResolutionCases

-----------------------------------------------------------------------------
\* All that is steady is among the names listed; a candidate that is passed over
\* is beaten by the champion; a candidate that is taken beats the champion and so
\* everything the champion had beaten.
LEMMA ChampionStep ==
    ResolutionTypeOK /\ SteadyUsable /\ ChampionFits /\ [ResolutionNext]_resolutionVars => ChampionFits'
<1> SUFFICES ASSUME ResolutionTypeOK, SteadyUsable, ChampionFits, [ResolutionNext]_resolutionVars PROVE ChampionFits'
  OBVIOUS
<1> USE PackageAssumption DEF ResolutionTypeOK, ChampionFits, Eligible
<1>1. ASSUME NEW for, Resolve(for), filter' = filter PROVE ChampionFits'
  BY <1>1 DEF Resolve
<1>2. ASSUME UNCHANGED <<filter, best, todo, listing>>, steady' \subseteq steady PROVE ChampionFits'
  BY <1>2
<1>3. CASE CreatePackageDependency \/ Add \/ AddResolved \/ RemoveDependency
  BY <1>1, <1>2, <1>3 DEF CreatePackageDependency, Add, AddResolved, RemoveDependency, search
<1>4. CASE NotFound \/ Found
  BY <1>2, <1>4 DEF NotFound, Found
<1>5. CASE ListNames
  <2>1. /\ listing /\ best' = best /\ best = NoPackage /\ steady' = steady /\ filter' = filter
        /\ todo' = IF counted = {} THEN {} ELSE installed
    BY <1>5 DEF ListNames
  <2>2. steady \subseteq installed /\ steady \subseteq counted
    BY <2>1 DEF SteadyUsable
  <2>3. steady \ todo' = {}
    BY <2>1, <2>2
  <2> QED BY <2>1, <2>3
<1>6. ASSUME NEW p \in Family, Skip(p) PROVE ChampionFits'
  <2>1. /\ purpose \in {"create", "add"} /\ ~listing /\ todo' = todo \ {p}
        /\ best' = best /\ steady' = steady /\ filter' = filter
        /\ ~PassesFilters(best, p) \/ p \in installed \cap broken
    BY <1>6 DEF Skip, Choosing
  <2>2. p \in steady => ~PassesFilters(best, p)
    BY <2>1 DEF SteadyUsable
  <2>3. ASSUME p \in steady, Eligible(p)
        PROVE  /\ best # NoPackage
               /\ \/ Version[p] <= Version[best]
                  \/ filter = {} /\ Architecture[best] = Neutral /\ Architecture[p] # Neutral
    <3>1. ~PassesFilters(best, p)
      BY <2>2, <2>3
    <3>2. \/ best # NoPackage /\ ~(Version[best] <= Version[p])
          \/ filter = {} /\ best # NoPackage /\ Architecture[best] = Neutral /\ Architecture[p] # Neutral
      BY <2>3, <3>1 DEF PassesFilters, PassesArchitecture, IsPackageABetterFitPerArchitecture
    <3>3. best # NoPackage => Version[best] \in Nat /\ Version[p] \in Nat
      OBVIOUS
    <3> QED BY <3>2, <3>3
  <2> QED BY <2>1, <2>3
<1>7. ASSUME NEW p \in Family, Take(p) PROVE ChampionFits'
  <2>1. /\ ~listing /\ todo' = todo \ {p} /\ best' = p /\ steady' = steady /\ filter' = filter
        /\ PassesFilters(best, p)
    BY <1>7 DEF Take, Choosing
  <2>2. p # NoPackage /\ Eligible(p)
    BY <2>1 DEF PassesFilters, PassesArchitecture, IsPackageABetterFitPerArchitecture
  <2>3. best # NoPackage =>
          /\ Version[best] <= Version[p]
          /\ filter = {} /\ Architecture[best] = Neutral => Architecture[p] = Neutral
    BY <2>1 DEF PassesFilters, PassesArchitecture, IsPackageABetterFitPerArchitecture
  <2>4. ASSUME NEW q \in steady \ todo, Eligible(q)
        PROVE  \/ Version[q] <= Version[p]
               \/ filter = {} /\ Architecture[p] = Neutral /\ Architecture[q] # Neutral
    <3>1. /\ best # NoPackage
          /\ \/ Version[q] <= Version[best]
             \/ filter = {} /\ Architecture[best] = Neutral /\ Architecture[q] # Neutral
      BY <2>1, <2>4
    <3>2. Version[q] \in Nat /\ Version[p] \in Nat /\ Version[best] \in Nat
      BY <3>1
    <3> QED BY <2>3, <3>1, <3>2
  <2>5. Version[p] <= Version[p]
    OBVIOUS
  <2> QED BY <2>1, <2>2, <2>4, <2>5
<1>8. CASE GivesUp
  BY <1>8 DEF GivesUp, Stop
<1>9. ASSUME NEW inst, NEW brk, Deploy(inst, brk) PROVE ChampionFits'
  BY <1>2, <1>9 DEF Deploy, search
<1>10. CASE UNCHANGED resolutionVars
  BY <1>2, <1>10 DEF resolutionVars, search
<1> QED BY <1>3, <1>4, <1>5, <1>6, <1>7, <1>8, <1>9, <1>10, ResolutionCases DEF Looks

\* A resolution that ends without a champion has none to find, and what was
\* steady then is remembered until the next resolution begins.
LEMMA NotFoundStep ==
    ResolutionTypeOK /\ ChampionFits /\ NotFoundMeansNone /\ [ResolutionNext]_resolutionVars => NotFoundMeansNone'
<1> SUFFICES ASSUME ResolutionTypeOK, ChampionFits, NotFoundMeansNone, [ResolutionNext]_resolutionVars
             PROVE  NotFoundMeansNone'
  OBVIOUS
<1> USE DEF ResolutionTypeOK, NotFoundMeansNone, Eligible
<1>1. CASE CreatePackageDependency \/ Add \/ AddResolved \/ RemoveDependency
  BY <1>1 DEF CreatePackageDependency, Add, AddResolved, RemoveDependency, Resolve, search
<1>2. CASE NotFound
  BY <1>2 DEF NotFound, Choosing, ChampionFits
<1>3. CASE Found
  BY <1>3 DEF Found
<1>4. CASE Looks
  BY <1>4 DEF Looks, ListNames, Skip, Take, Choosing
<1>5. CASE GivesUp
  BY <1>5 DEF GivesUp, Stop
<1>6. ASSUME NEW inst, NEW brk, Deploy(inst, brk) PROVE NotFoundMeansNone'
  BY <1>6 DEF Deploy, search
<1>7. CASE UNCHANGED resolutionVars
  BY <1>7 DEF resolutionVars, search
<1> QED BY <1>1, <1>2, <1>3, <1>4, <1>5, <1>6, <1>7, ResolutionCases

\* The inductive invariant holds in every reachable state.
THEOREM ResolutionInductiveInvariant == ResolutionSpec => []ResolutionInv
<1>1. ResolutionInit => ResolutionInv
  <2>1. ResolutionInit => ResolutionTypeOK
    BY ResolutionInitTyped
  <2>2. ResolutionInit => SteadyUsable /\ ChampionFits /\ NotFoundMeansNone
    BY DEF ResolutionInit, SteadyUsable, ChampionFits, NotFoundMeansNone
  <2> QED BY <2>1, <2>2 DEF ResolutionInv
<1>2. ResolutionInv /\ [ResolutionNext]_resolutionVars => ResolutionInv'
  BY ResolutionTypeStep, SteadyStep, ChampionStep, NotFoundStep DEF ResolutionInv
<1> QED BY <1>1, <1>2, PTL DEF ResolutionSpec

\* When a resolution finds nothing, nothing eligible was usable all the while.
THEOREM NotFoundIsRight == ResolutionSpec => []NotFoundMeansNone
<1>1. ResolutionInv => NotFoundMeansNone
  BY DEF ResolutionInv
<1> QED BY <1>1, ResolutionInductiveInvariant, PTL

\* A dependency that names its architectures resolves to the highest version.
THEOREM FilteredIsHighest == ResolutionSpec => []HighestVersionFiltered
<1>1. ResolutionInv => HighestVersionFiltered
  BY DEF ResolutionInv, ResolutionTypeOK, ChampionFits, HighestVersionFiltered, HighestVersion
<1> QED BY <1>1, ResolutionInductiveInvariant, PTL

-----------------------------------------------------------------------------
(* The bootstrapper: the invariant *)

\* A call that is under way is the first one, of a running process.
FirstCall ==
    /\ stage # "idle" => alive /\ count = 0 /\ MaxCount > 0 /\ request \in Requests
    /\ stage \in {"start", "load"} => kind # "os"
    /\ stage = "start" => started < MaxManagers
    /\ alive /\ stage \in {"idle", "start"} => new = NoLocals

\* What its locals hold: a manager and the framework that was the newest when the
\* manager was created, and a version to use that is not older.
LocalsFit ==
    /\ kind = "os" => new.manager = 0 /\ new.framework = 0
    /\ kind # "os" /\ stage \in {"load", "create", "add"} =>
          new.manager > 0 /\ new.framework > 0 /\ new.framework <= newest[request.family]
    /\ stage = "add" =>
          new.resolved > 0 /\ request.minVersion <= new.resolved /\ new.framework <= new.resolved

\* What is set together is there together, whoever was told so.
Whole ==
    /\ count = 0 => inGraph = 0 /\ dll = 0 /\ manager = 0 /\ granted = {} /\ inUse = None
    /\ count > 0 => inGraph > 0 /\ (kind # "os" => dll > 0 /\ manager > 0)
    /\ kind = "os" => manager = 0
    /\ inUse.minVersion <= inGraph

\* A manager that the process holds was started and is not on its way out.
HeldStays ==
    alive => \A m \in {manager, new.manager} \ {0} :
                 m \in 1 .. started /\ ddlm[m] \notin {"none", "exited"} /\ m \notin signaled

\* The inductive invariant.
BootstrapInv ==
    /\ BootstrapTypeOK
    /\ FirstCall /\ LocalsFit /\ Whole /\ GrantedServed /\ HeldStays

\* PATH has, apart from the app's entries, nothing before the first call adds the
\* framework's, that one at the front until the call ends, and then the package's.
AppsOnly(p, from) == \A i \in DOMAIN p : from <= i => p[i] = App
OneEntry(p, v) == \E k \in DOMAIN p : p[k] = v /\ \A i \in DOMAIN p \ {k} : p[i] = App
EntryInv ==
    alive /\ incidents = {} =>
        /\ kind = "os" \/ (count = 0 /\ stage \in {"idle", "start", "load"}) => AppsOnly(searchPath, 1)
        /\ kind # "os" /\ count > 0 => OneEntry(searchPath, inGraph)
        /\ kind # "os" /\ stage \in {"create", "add"} =>
              /\ searchPath # << >> /\ Head(searchPath) = new.framework
              /\ AppsOnly(searchPath, 2)

-----------------------------------------------------------------------------
(* The bootstrapper: PATH as it changes it *)

\* RemoveFirst takes one entry out, if it is there.
LEMMA RemoveFirstProperties ==
    ASSUME NEW S, NEW s \in Seq(S), NEW e
    PROVE  /\ RemoveFirst(s, e) \in Seq(S)
           /\ (\E k \in DOMAIN s : s[k] = e) =>
                 \E k \in 1 .. Len(s) : s[k] = e /\ RemoveFirst(s, e) = RemoveAt(s, k)
<1>1. Len(s) \in Nat /\ DOMAIN s = 1 .. Len(s)
  BY LenProperties
<1>2. CASE ~\E k \in 1 .. Len(s) : s[k] = e
  BY <1>1, <1>2 DEF RemoveFirst
<1>3. CASE \E k \in 1 .. Len(s) : s[k] = e
  <2> DEFINE I == {i \in 1 .. Len(s) : s[i] = e}
             k == CHOOSE x \in I : \A y \in I : x <= y
  <2>1. k \in I
    <3>1. I \in SUBSET (1 .. Len(s)) /\ I # {}
      BY <1>3
    <3>2. \E x \in I : \A y \in I : x <= y
      <4> HIDE DEF I
      <4> QED BY <1>1, <3>1, FirstExists
    <3> HIDE DEF I
    <3> QED BY <3>2
  <2>2. RemoveFirst(s, e) = RemoveAt(s, k)
    BY <1>3 DEF RemoveFirst, SelectInSeq, Min
  <2>3. k \in 1 .. Len(s) /\ s[k] = e
    BY <2>1
  <2> HIDE DEF k
  <2> QED BY <2>2, <2>3, RemoveAtProperties
<1> QED BY <1>2, <1>3

\* What is put in front of a list, entry by entry.
LEMMA PushProperties ==
    ASSUME NEW S, NEW s \in Seq(S), NEW x \in S
    PROVE  /\ <<x>> \o s \in Seq(S) /\ <<x>> \o s # << >> /\ Head(<<x>> \o s) = x
           /\ DOMAIN (<<x>> \o s) = 1 .. Len(s) + 1 /\ DOMAIN s = 1 .. Len(s) /\ Len(s) \in Nat
           /\ (<<x>> \o s)[1] = x
           /\ \A i \in 2 .. Len(s) + 1 : (<<x>> \o s)[i] = s[i - 1]
           /\ Tail(<<x>> \o s) = s
<1> DEFINE h == <<x>> \o s
<1>1. Len(s) \in Nat /\ DOMAIN s = 1 .. Len(s)
  BY LenProperties
<1>2. <<x>> \in Seq(S) /\ Len(<<x>>) = 1 /\ <<x>>[1] = x
  OBVIOUS
<1>3. /\ h \in Seq(S) /\ Len(h) = 1 + Len(s)
      /\ \A i \in 1 .. 1 + Len(s) : h[i] = IF i <= 1 THEN <<x>>[i] ELSE s[i - 1]
  <2>1. /\ h \in Seq(S) /\ Len(h) = Len(<<x>>) + Len(s)
        /\ \A i \in 1 .. Len(<<x>>) + Len(s) :
              h[i] = IF i <= Len(<<x>>) THEN <<x>>[i] ELSE s[i - Len(<<x>>)]
    BY <1>2, ConcatProperties
  <2> HIDE DEF h
  <2> QED BY <1>2, <2>1
<1> HIDE DEF h
<1>4. DOMAIN h = 1 .. Len(s) + 1 /\ Len(h) = Len(s) + 1
  BY <1>1, <1>3, LenProperties
<1>5. h[1] = x /\ \A i \in 2 .. Len(s) + 1 : h[i] = s[i - 1]
  BY <1>1, <1>2, <1>3
<1>6. h # << >>
  BY <1>1, <1>3, <1>4
<1>7. Head(h) = x
  BY <1>5
<1>8. Tail(h) = s
  <2>1. /\ Tail(h) \in Seq(S) /\ Len(Tail(h)) = Len(h) - 1
        /\ \A i \in 1 .. Len(Tail(h)) : Tail(h)[i] = h[i + 1]
    BY <1>3, <1>6, HeadTailProperties
  <2>2. Len(Tail(h)) = Len(s) /\ \A i \in 1 .. Len(s) : Tail(h)[i] = s[i]
    <3>1. Len(Tail(h)) = Len(s)
      BY <1>1, <1>4, <2>1
    <3>2. ASSUME NEW i \in 1 .. Len(s) PROVE Tail(h)[i] = s[i]
      <4>1. i + 1 \in 2 .. Len(s) + 1 /\ (i + 1) - 1 = i
        BY <1>1
      <4>2. h[i + 1] = s[(i + 1) - 1]
        BY <1>5, <4>1
      <4> QED BY <2>1, <3>1, <4>1, <4>2
    <3> QED BY <3>1, <3>2
  <2> QED BY <2>1, <2>2, SeqEqual
<1> QED BY <1>1, <1>3, <1>4, <1>5, <1>6, <1>7, <1>8 DEF h

-----------------------------------------------------------------------------
(* The bootstrapper: steps *)

\* Every step keeps the variables in their types.
LEMMA BootstrapTypeStep == BootstrapInv /\ [BootstrapNext]_bootstrapVars => BootstrapTypeOK'
<1> SUFFICES ASSUME BootstrapInv, [BootstrapNext]_bootstrapVars PROVE BootstrapTypeOK'
  OBVIOUS
<1>a. BootstrapTypeOK /\ FirstCall /\ LocalsFit
  BY DEF BootstrapInv
<1>b. /\ MaxVersion \in Nat \ {0} /\ MaxCount \in Nat /\ MaxManagers \in Nat
      /\ 0 \in 0 .. MaxVersion /\ 0 \in 0 .. MaxManagers
      /\ \A v \in 0 .. MaxVersion : v > 0 => v \in Versions
      /\ Versions \subseteq 0 .. MaxVersion
  BY CountAssumption DEF Versions
<1>c. NoLocals \in [manager : 0 .. MaxManagers, framework : 0 .. MaxVersion, resolved : 0 .. MaxVersion]
  BY <1>b DEF NoLocals
<1>d. ASSUME NEW s \in Seq(Versions \cup {App}), NEW v \in Versions \cup {App}
      PROVE  <<v>> \o s \in Seq(Versions \cup {App})
  BY PushProperties
<1>1. ASSUME NEW r \in Requests, InitializeAgain(r) PROVE BootstrapTypeOK'
  <2>1. count' \in 0 .. MaxCount /\ granted' \subseteq Requests /\ outcome' \in {"ok", "incompatible"}
    BY <1>1, <1>a, <1>b DEF InitializeAgain, BootstrapTypeOK
  <2>2. request' = r /\ UNCHANGED <<alive, kind, newest, searchPath, inUse, inGraph, dll, manager,
                                    stage, new, started, ddlm, signaled, incidents>>
    BY <1>1 DEF InitializeAgain, managers
  <2> QED BY <1>a, <2>1, <2>2 DEF BootstrapTypeOK
<1>2. ASSUME NEW r \in Requests, FirstTimeInitialization(r) PROVE BootstrapTypeOK'
  <2>1. stage' \in {"create", "start"} /\ request' = r
        /\ UNCHANGED <<alive, kind, newest, searchPath, count, inUse, inGraph, dll, manager,
                       new, started, ddlm, signaled, granted, outcome, incidents>>
    BY <1>2 DEF FirstTimeInitialization, globals, managers, told
  <2> QED BY <1>a, <2>1 DEF BootstrapTypeOK
<1>3. CASE CreateLifetimeManager
  <2>1. /\ started' = started + 1 /\ started + 1 \in Managers /\ started + 1 \in 0 .. MaxManagers
        /\ request.family \in Families
    BY <1>3, <1>a, <1>b DEF CreateLifetimeManager, FirstCall, BootstrapTypeOK, Managers, Requests
  <2>2. newest[request.family] \in 0 .. MaxVersion
    BY <1>a, <1>b, <2>1 DEF BootstrapTypeOK
  <2>3. new' \in [manager : 0 .. MaxManagers, framework : 0 .. MaxVersion, resolved : 0 .. MaxVersion]
    <3>1. new' = [new EXCEPT !.manager = started + 1, !.framework = newest[request.family]]
      BY <1>3, <2>1 DEF CreateLifetimeManager
    <3> QED BY <1>a, <2>1, <2>2, <3>1 DEF BootstrapTypeOK
  <2>4. ddlm' \in [Managers -> {"none", "starting", "opened", "waiting", "exited"}]
    BY <1>3, <1>a, <2>1 DEF CreateLifetimeManager, BootstrapTypeOK
  <2>5. signaled \subseteq 1 .. started + 1
    BY <1>a, <1>b DEF BootstrapTypeOK
  <2>6. /\ stage' = "load"
        /\ UNCHANGED <<alive, kind, newest, searchPath, count, inUse, inGraph, dll, manager,
                       request, signaled, granted, outcome, incidents>>
    BY <1>3 DEF CreateLifetimeManager, globals, told
  <2> QED BY <1>a, <2>1, <2>3, <2>4, <2>5, <2>6 DEF BootstrapTypeOK
<1>4. CASE LoadRuntime
  <2>1. new.framework \in Versions
    BY <1>4, <1>a, <1>b DEF LoadRuntime, LocalsFit, FirstCall, BootstrapTypeOK
  <2>2. searchPath' \in Seq(Versions \cup {App})
    BY <1>4, <1>a, <1>d, <2>1 DEF LoadRuntime, BootstrapTypeOK
  <2> QED BY <1>4, <1>a, <2>2 DEF LoadRuntime, BootstrapTypeOK, globals, managers, told
<1>5. CASE CreateDependency
  <2>1. newest[request.family] \in 0 .. MaxVersion
    BY <1>5, <1>a, <1>b DEF CreateDependency, FirstCall, BootstrapTypeOK, Requests
  <2>2. new' \in [manager : 0 .. MaxManagers, framework : 0 .. MaxVersion, resolved : 0 .. MaxVersion]
    BY <1>5, <1>a, <2>1 DEF CreateDependency, BootstrapTypeOK
  <2> QED BY <1>5, <1>a, <2>2 DEF CreateDependency, BootstrapTypeOK, globals, managers, told
<1>6. CASE AddDependency
  <2>1. /\ new.resolved \in Versions /\ new.resolved \in 0 .. MaxVersion
        /\ new.framework \in 0 .. MaxVersion /\ new.manager \in 0 .. MaxManagers
        /\ request \in Requests /\ 1 \in 0 .. MaxCount
    BY <1>6, <1>a, <1>b DEF AddDependency, LocalsFit, FirstCall, BootstrapTypeOK
  <2>2. searchPath' \in Seq(Versions \cup {App})
    <3> DEFINE h == <<new.resolved>> \o searchPath
    <3>1. h \in Seq(Versions \cup {App}) /\ Tail(h) = searchPath
      BY <1>a, <2>1, PushProperties DEF BootstrapTypeOK
    <3>2. searchPath' = IF kind = "os" THEN searchPath ELSE RemoveFromFront(h, new.framework)
      BY <1>6 DEF AddDependency
    <3> HIDE DEF h
    <3> QED BY <1>a, <3>1, <3>2 DEF RemoveFromFront, BootstrapTypeOK
  <2>3. inUse' \in Requests \cup {None}
    <3>1. request.family \in Families
      BY <2>1 DEF Requests
    <3>2. inUse' = [family |-> request.family,
                    minVersion |-> IF kind = "os" THEN new.resolved ELSE new.framework]
      BY <1>6 DEF AddDependency
    <3> QED BY <2>1, <3>1, <3>2 DEF Requests
  <2>4. /\ inGraph' = new.resolved /\ dll' = new.framework /\ manager' = new.manager
        /\ count' = 1 /\ granted' = {request} /\ outcome' = "ok"
        /\ incidents' \subseteq incidents \cup {"overtaken"}
        /\ stage' = "idle" /\ new' = NoLocals
        /\ UNCHANGED <<alive, kind, newest, request, started, ddlm, signaled>>
    BY <1>6 DEF AddDependency, managers
  <2> QED BY <1>a, <1>c, <2>1, <2>2, <2>3, <2>4 DEF BootstrapTypeOK
<1>7. CASE InitializeFails
  BY <1>7, <1>a, <1>c DEF InitializeFails, BootstrapTypeOK, globals, managers
<1>8. CASE Shutdown
  <2>1. count' \in 0 .. MaxCount
    BY <1>8, <1>a, <1>b DEF Shutdown, BootstrapTypeOK
  <2>2. searchPath' \in Seq(Versions \cup {App})
    BY <1>8, <1>a, RemoveFirstProperties DEF Shutdown, BootstrapTypeOK
  <2>3. signaled' \subseteq 1 .. started
    <3>1. count = 1 /\ kind = "event" => manager \in 1 .. started
      BY <1>8, <1>b DEF Shutdown, BootstrapInv, Whole, HeldStays, BootstrapTypeOK
    <3> QED BY <1>8, <1>a, <3>1 DEF Shutdown, BootstrapTypeOK
  <2>4. /\ inUse' = None /\ outcome' = "shutdown"
        /\ inGraph' \in {inGraph, 0} /\ dll' \in {dll, 0} /\ manager' \in {manager, 0}
        /\ granted' \in {granted, {}}
        /\ UNCHANGED <<alive, kind, newest, stage, request, new, started, ddlm, incidents>>
    BY <1>8 DEF Shutdown, call
  <2> QED BY <1>a, <1>b, <2>1, <2>2, <2>3, <2>4 DEF BootstrapTypeOK
<1>9. ASSUME NEW m \in Managers, ManagerStep(m) PROVE BootstrapTypeOK'
  <2>1. \E to \in {"opened", "waiting", "exited"} : Move(m, to)
    BY <1>9 DEF ManagerStep, OpenEvent, OpenCaller, Quit
  <2> QED BY <1>a, <2>1 DEF Move, BootstrapTypeOK, globals, call, told
<1>10. ASSUME NEW f \in Families, InstallFramework(f) PROVE BootstrapTypeOK'
  <2>1. newest[f] + 1 \in Versions
    BY <1>10, <1>a, <1>b DEF InstallFramework, BootstrapTypeOK, Versions
  <2> QED BY <1>10, <1>a, <2>1 DEF InstallFramework, BootstrapTypeOK, globals, call, managers, told
<1>11. CASE AppPrepends
  <2>1. searchPath' \in Seq(Versions \cup {App})
    BY <1>11, <1>a, <1>d DEF AppPrepends, BootstrapTypeOK
  <2>2. incidents' \subseteq incidents \cup {"prepended"}
    BY <1>11 DEF AppPrepends
  <2> QED BY <1>11, <1>a, <2>1, <2>2 DEF AppPrepends, BootstrapTypeOK, globals, call, managers
<1>12. CASE ProcessEnds
  BY <1>12, <1>a DEF ProcessEnds, BootstrapTypeOK, globals, managers, told
<1>13. CASE UNCHANGED bootstrapVars
  BY <1>13, <1>a DEF bootstrapVars, BootstrapTypeOK, globals, call, managers, told
<1> QED BY <1>1, <1>2, <1>3, <1>4, <1>5, <1>6, <1>7, <1>8, <1>9, <1>10, <1>11, <1>12, <1>13
        DEF BootstrapNext, CallStep

\* Every step keeps the invariant.
LEMMA BootstrapInvariantStep == BootstrapInv /\ [BootstrapNext]_bootstrapVars => BootstrapInv'
<1> SUFFICES ASSUME BootstrapInv, [BootstrapNext]_bootstrapVars PROVE BootstrapInv'
  OBVIOUS
<1>0. BootstrapTypeOK'
  BY BootstrapTypeStep
<1>a. BootstrapTypeOK /\ FirstCall /\ LocalsFit /\ Whole /\ GrantedServed /\ HeldStays
  BY DEF BootstrapInv
<1>b. /\ MaxVersion \in Nat \ {0} /\ MaxCount \in Nat /\ MaxManagers \in Nat
      /\ NoLocals.manager = 0 /\ NoLocals.framework = 0 /\ NoLocals.resolved = 0
      /\ None.minVersion = 0
  BY CountAssumption DEF NoLocals, None
<1>c. /\ \A f \in Families : newest[f] \in Nat /\ newest[f] > 0
      /\ \A r \in Requests : r.family \in Families /\ r.minVersion \in Nat
      /\ granted \subseteq Requests /\ inGraph \in Nat /\ count \in Nat /\ manager \in Nat
      /\ new.manager \in Nat /\ new.framework \in Nat /\ new.resolved \in Nat
      /\ inUse.minVersion \in Nat /\ started \in Nat
      /\ stage \in {"idle", "start", "load", "create", "add"}
  <2>1. \A f \in Families : newest[f] \in Nat /\ newest[f] > 0
    BY <1>a, <1>b DEF BootstrapTypeOK, Versions
  <2>2. \A r \in Requests : r.family \in Families /\ r.minVersion \in Nat
    BY <1>b DEF Requests
  <2>3. inUse.minVersion \in Nat
    BY <1>a, <1>b, <2>2 DEF BootstrapTypeOK
  <2>4. new.manager \in Nat /\ new.framework \in Nat /\ new.resolved \in Nat
    BY <1>a, <1>b DEF BootstrapTypeOK
  <2> QED BY <1>a, <1>b, <2>1, <2>2, <2>3, <2>4 DEF BootstrapTypeOK
<1> DEFINE Rest == FirstCall /\ LocalsFit /\ Whole /\ GrantedServed /\ HeldStays
<1>1. ASSUME NEW r \in Requests, InitializeAgain(r) PROVE Rest'
  <2>1. /\ alive /\ stage = "idle" /\ count > 0 /\ count' > 0 /\ request' = r
        /\ UNCHANGED <<alive, kind, newest, searchPath, inUse, inGraph, dll, manager, stage, new,
                       started, ddlm, signaled, incidents>>
        /\ granted' \subseteq granted \cup {r}
        /\ r \in granted' => r \in granted \/ r.minVersion <= inUse.minVersion
    BY <1>1, <1>b, <1>c DEF InitializeAgain, Compatible, managers
  <2>2. FirstCall' /\ LocalsFit'
    BY <1>a, <2>1 DEF FirstCall, LocalsFit
  <2>3. Whole'
    BY <1>a, <1>c, <2>1 DEF Whole
  <2>4. GrantedServed'
    <3>1. r.minVersion <= inUse.minVersion => r.minVersion <= inGraph
      BY <1>a, <1>c DEF Whole
    <3> QED BY <1>a, <2>1, <3>1 DEF GrantedServed
  <2>5. HeldStays'
    BY <1>a, <2>1 DEF HeldStays
  <2> QED BY <2>2, <2>3, <2>4, <2>5
<1>2. ASSUME NEW r \in Requests, FirstTimeInitialization(r) PROVE Rest'
  <2>1. /\ alive /\ stage = "idle" /\ count = 0 /\ MaxCount > 0 /\ request' = r
        /\ kind # "os" => started < MaxManagers
        /\ stage' = IF kind = "os" THEN "create" ELSE "start"
        /\ UNCHANGED <<alive, kind, newest, searchPath, count, inUse, inGraph, dll, manager,
                       new, started, ddlm, signaled, granted, outcome, incidents>>
    BY <1>2 DEF FirstTimeInitialization, globals, managers, told
  <2>2. FirstCall'
    BY <1>a, <2>1 DEF FirstCall
  <2>3. LocalsFit'
    BY <1>a, <2>1 DEF LocalsFit
  <2>4. Whole' /\ GrantedServed' /\ HeldStays'
    BY <1>a, <2>1 DEF Whole, GrantedServed, HeldStays
  <2> QED BY <2>2, <2>3, <2>4
<1>3. ASSUME CreateLifetimeManager PROVE Rest'
  <2> DEFINE m == started + 1
             to == IF kind = "event" THEN "starting" ELSE "waiting"
  <2>1. /\ stage = "start" /\ started' = m /\ ddlm' = [ddlm EXCEPT ![m] = to]
        /\ new' = [new EXCEPT !.manager = m, !.framework = newest[request.family]]
        /\ stage' = "load"
        /\ UNCHANGED <<alive, kind, newest, searchPath, count, inUse, inGraph, dll, manager,
                       request, signaled, granted, outcome, incidents>>
    BY <1>3 DEF CreateLifetimeManager, globals, told
  <2>2. /\ alive /\ count = 0 /\ kind # "os" /\ request \in Requests
        /\ m \in Managers /\ manager = 0 /\ m \notin signaled /\ m \in 1 .. m
    BY <1>a, <1>b, <1>c, <2>1 DEF FirstCall, Whole, BootstrapTypeOK, Managers
  <2>3. new'.manager = m /\ new'.framework = newest[request.family] /\ m > 0
    BY <1>a, <1>c, <2>1 DEF BootstrapTypeOK
  <2>4. FirstCall'
    BY <1>a, <2>1, <2>2 DEF FirstCall
  <2>5. LocalsFit'
    <3>1. newest[request.family] > 0 /\ newest[request.family] <= newest[request.family]
      BY <1>c, <2>2
    <3> QED BY <2>1, <2>2, <2>3, <3>1 DEF LocalsFit
  <2>6. Whole' /\ GrantedServed'
    BY <1>a, <2>1 DEF Whole, GrantedServed
  <2>7. HeldStays'
    <3>1. ddlm'[m] = to /\ to \notin {"none", "exited"}
      BY <1>a, <2>1, <2>2 DEF BootstrapTypeOK
    <3> QED BY <2>1, <2>2, <2>3, <3>1 DEF HeldStays
  <2> QED BY <2>4, <2>5, <2>6, <2>7
<1>4. ASSUME LoadRuntime PROVE Rest'
  <2>1. /\ stage = "load" /\ stage' = "create"
        /\ UNCHANGED <<alive, kind, newest, count, inUse, inGraph, dll, manager, request, new,
                       started, ddlm, signaled, granted, outcome, incidents>>
    BY <1>4 DEF LoadRuntime, globals, managers, told
  <2>2. FirstCall' /\ LocalsFit'
    BY <1>a, <2>1 DEF FirstCall, LocalsFit
  <2>3. Whole' /\ GrantedServed' /\ HeldStays'
    BY <1>a, <2>1 DEF Whole, GrantedServed, HeldStays
  <2> QED BY <2>2, <2>3
<1>5. ASSUME CreateDependency PROVE Rest'
  <2>1. /\ stage = "create" /\ newest[request.family] >= request.minVersion /\ stage' = "add"
        /\ new' = [new EXCEPT !.resolved = newest[request.family]]
        /\ UNCHANGED <<alive, kind, newest, count, inUse, inGraph, dll, manager, request,
                       started, ddlm, signaled, granted, outcome, incidents>>
    BY <1>5 DEF CreateDependency, globals, managers, told
  <2>2. /\ new'.resolved = newest[request.family]
        /\ new'.manager = new.manager /\ new'.framework = new.framework
    BY <1>a, <2>1 DEF BootstrapTypeOK
  <2>3. request \in Requests /\ request.family \in Families /\ request.minVersion \in Nat
        /\ newest[request.family] \in Nat /\ newest[request.family] > 0
    BY <1>a, <1>c, <2>1 DEF FirstCall
  <2>4. FirstCall'
    BY <1>a, <2>1 DEF FirstCall
  <2>5. LocalsFit'
    BY <1>a, <1>c, <2>1, <2>2, <2>3 DEF LocalsFit
  <2>6. Whole' /\ GrantedServed' /\ HeldStays'
    BY <1>a, <2>1, <2>2 DEF Whole, GrantedServed, HeldStays
  <2> QED BY <2>4, <2>5, <2>6
<1>6. ASSUME AddDependency PROVE Rest'
  <2>1. /\ stage = "add" /\ stage' = "idle" /\ new' = NoLocals
        /\ inGraph' = new.resolved /\ dll' = new.framework /\ manager' = new.manager
        /\ inUse'.minVersion = IF kind = "os" THEN new.resolved ELSE new.framework
        /\ count' = 1 /\ granted' = {request}
        /\ UNCHANGED <<alive, kind, newest, request, started, ddlm, signaled>>
    BY <1>6 DEF AddDependency, managers
  <2>2. FirstCall'
    BY <2>1 DEF FirstCall
  <2>3. LocalsFit'
    BY <1>b, <2>1 DEF LocalsFit
  <2>4. Whole' /\ GrantedServed'
    BY <1>a, <1>c, <2>1 DEF Whole, GrantedServed, LocalsFit
  <2>5. HeldStays'
    BY <1>a, <1>b, <2>1 DEF HeldStays
  <2> QED BY <2>2, <2>3, <2>4, <2>5
<1>7. ASSUME InitializeFails PROVE Rest'
  <2>1. /\ stage' = "idle" /\ new' = NoLocals
        /\ UNCHANGED <<alive, kind, newest, count, inUse, inGraph, dll, manager, request,
                       started, ddlm, signaled, granted>>
    BY <1>7 DEF InitializeFails, globals, managers
  <2>2. FirstCall' /\ LocalsFit'
    BY <1>b, <2>1 DEF FirstCall, LocalsFit
  <2>3. Whole' /\ GrantedServed' /\ HeldStays'
    BY <1>a, <1>b, <2>1 DEF Whole, GrantedServed, HeldStays
  <2> QED BY <2>2, <2>3
<1>8. ASSUME Shutdown PROVE Rest'
  <2>1. /\ alive /\ stage = "idle" /\ inUse' = None
        /\ count' = IF count = 0 THEN 0 ELSE count - 1
        /\ UNCHANGED <<alive, kind, newest, stage, request, new, started, ddlm, incidents>>
    BY <1>8 DEF Shutdown, call
  <2>2. new = NoLocals
    BY <1>a, <2>1 DEF FirstCall
  <2>3. FirstCall' /\ LocalsFit'
    BY <1>a, <1>b, <2>1, <2>2 DEF FirstCall, LocalsFit
  <2>4. CASE count = 1
    <3>1. /\ count' = 0 /\ inGraph' = 0 /\ dll' = 0 /\ manager' = 0 /\ granted' = {}
      BY <1>8, <2>1, <2>4 DEF Shutdown
    <3>2. Whole' /\ GrantedServed' /\ HeldStays'
      BY <1>b, <2>1, <2>2, <3>1 DEF Whole, GrantedServed, HeldStays
    <3> QED BY <2>3, <3>2
  <2>5. CASE count # 1
    <3>1. /\ UNCHANGED <<inGraph, dll, manager, signaled, granted>>
          /\ count = 0 <=> count' = 0
          /\ count > 0 <=> count' > 0
      BY <1>8, <1>c, <2>1, <2>5 DEF Shutdown
    <3>2. Whole'
      BY <1>a, <1>b, <1>c, <2>1, <3>1 DEF Whole
    <3>3. GrantedServed' /\ HeldStays'
      BY <1>a, <2>1, <3>1 DEF GrantedServed, HeldStays
    <3> QED BY <2>3, <3>2, <3>3
  <2> QED BY <2>4, <2>5
<1>9. ASSUME NEW m \in Managers, ManagerStep(m) PROVE Rest'
  <2>1. PICK to \in {"opened", "waiting", "exited"} :
              /\ Move(m, to)
              /\ to = "exited" => ~Held(m) \/ m \in signaled \/ ~alive
    BY <1>9 DEF ManagerStep, OpenEvent, OpenCaller, Quit
  <2>2. /\ ddlm' = [ddlm EXCEPT ![m] = to]
        /\ UNCHANGED <<alive, kind, newest, searchPath, count, inUse, inGraph, dll, manager,
                       stage, request, new, started, signaled, granted, outcome, incidents>>
    BY <2>1 DEF Move, globals, call, told
  <2>3. FirstCall' /\ LocalsFit' /\ Whole' /\ GrantedServed'
    BY <1>a, <2>2 DEF FirstCall, LocalsFit, Whole, GrantedServed
  <2>4. HeldStays'
    <3> SUFFICES ASSUME alive, NEW n \in {manager, new.manager} \ {0}
                 PROVE  n \in 1 .. started /\ ddlm'[n] \notin {"none", "exited"} /\ n \notin signaled
      BY <2>2 DEF HeldStays
    <3>1. n \in 1 .. started /\ ddlm[n] \notin {"none", "exited"} /\ n \notin signaled
      BY <1>a DEF HeldStays
    <3>2. CASE n = m
      <4>1. Held(m)
        BY <3>2 DEF Held
      <4>2. ddlm'[n] = to
        BY <1>a, <2>2, <3>2 DEF BootstrapTypeOK
      <4> QED BY <2>1, <3>1, <3>2, <4>1, <4>2
    <3>3. CASE n # m
      <4>1. ddlm'[n] = ddlm[n]
        BY <1>a, <2>2, <3>3 DEF BootstrapTypeOK
      <4> QED BY <3>1, <4>1
    <3> QED BY <3>2, <3>3
  <2> QED BY <2>3, <2>4
<1>10. ASSUME NEW f \in Families, InstallFramework(f) PROVE Rest'
  <2>1. /\ newest' = [newest EXCEPT ![f] = @ + 1]
        /\ UNCHANGED <<alive, kind, searchPath, count, inUse, inGraph, dll, manager,
                       stage, request, new, started, ddlm, signaled, granted, outcome, incidents>>
    BY <1>10 DEF InstallFramework, globals, call, managers, told
  <2>2. FirstCall' /\ Whole' /\ GrantedServed' /\ HeldStays'
    BY <1>a, <2>1 DEF FirstCall, Whole, GrantedServed, HeldStays
  <2>3. LocalsFit'
    <3>1. stage # "idle" => request.family \in Families
      BY <1>a, <1>c DEF FirstCall
    <3>2. stage # "idle" => newest[request.family] <= newest'[request.family]
      BY <1>a, <1>c, <2>1, <3>1 DEF BootstrapTypeOK
    <3>3. stage # "idle" => newest'[request.family] \in Nat /\ newest[request.family] \in Nat
      <4>1. newest' \in [Families -> Versions]
        BY <1>0 DEF BootstrapTypeOK
      <4>2. Versions \subseteq Nat
        BY <1>b DEF Versions
      <4> QED BY <1>c, <3>1, <4>1, <4>2
    <3> QED BY <1>a, <1>c, <2>1, <3>2, <3>3 DEF LocalsFit
  <2> QED BY <2>2, <2>3
<1>11. ASSUME AppPrepends PROVE Rest'
  <2>1. UNCHANGED <<alive, kind, newest, count, inUse, inGraph, dll, manager, stage, request, new,
                    started, ddlm, signaled, granted, outcome>>
    BY <1>11 DEF AppPrepends, globals, call, managers
  <2> QED BY <1>a, <2>1 DEF FirstCall, LocalsFit, Whole, GrantedServed, HeldStays
<1>12. ASSUME ProcessEnds PROVE Rest'
  <2>1. /\ ~alive' /\ stage' = "idle"
        /\ UNCHANGED <<kind, newest, count, inUse, inGraph, dll, manager, request, new, granted>>
    BY <1>12 DEF ProcessEnds, globals, told
  <2> QED BY <1>a, <2>1 DEF FirstCall, LocalsFit, Whole, GrantedServed, HeldStays
<1>13. ASSUME UNCHANGED bootstrapVars PROVE Rest'
  <2>1. UNCHANGED <<alive, kind, newest, count, inUse, inGraph, dll, manager, stage, request, new,
                    started, ddlm, signaled, granted>>
    BY <1>13 DEF bootstrapVars, globals, call, managers, told
  <2> QED BY <1>a, <2>1 DEF FirstCall, LocalsFit, Whole, GrantedServed, HeldStays
<1>14. Rest'
  <2> HIDE DEF Rest
  <2> QED BY <1>1, <1>2, <1>3, <1>4, <1>5, <1>6, <1>7, <1>8, <1>9, <1>10, <1>11, <1>12, <1>13
          DEF BootstrapNext, CallStep
<1> QED BY <1>0, <1>14 DEF BootstrapInv

\* The first state satisfies it.
LEMMA BootstrapInitInvariant == BootstrapInit => BootstrapInv
<1> SUFFICES ASSUME BootstrapInit PROVE BootstrapInv
  OBVIOUS
<1>1. /\ MaxVersion \in Nat \ {0} /\ MaxCount \in Nat /\ MaxManagers \in Nat
      /\ 1 \in Versions /\ << >> \in Seq(Versions \cup {App})
      /\ NoLocals.manager = 0 /\ NoLocals.framework = 0 /\ None.minVersion = 0
  BY CountAssumption DEF Versions, NoLocals, None
<1>2. NoLocals \in [manager : 0 .. MaxManagers, framework : 0 .. MaxVersion, resolved : 0 .. MaxVersion]
  BY <1>1 DEF NoLocals
<1>3. BootstrapTypeOK
  BY <1>1, <1>2 DEF BootstrapInit, BootstrapTypeOK
<1>4. FirstCall /\ LocalsFit
  BY <1>1 DEF BootstrapInit, FirstCall, LocalsFit
<1>5. Whole /\ GrantedServed
  BY <1>1 DEF BootstrapInit, Whole, GrantedServed
<1>6. HeldStays
  BY <1>1 DEF BootstrapInit, HeldStays
<1> QED BY <1>3, <1>4, <1>5, <1>6 DEF BootstrapInv

-----------------------------------------------------------------------------
(* The bootstrapper: theorems *)

\* The invariant holds in every reachable state: the process's globals, the call
\* under way and the managers' processes fit together.
THEOREM BootstrapInductiveInvariant == BootstrapSpec => []BootstrapInv
<1> QED BY BootstrapInitInvariant, BootstrapInvariantStep, PTL DEF BootstrapSpec

\* Between calls the process is initialized with everything that takes, or with
\* nothing at all, whichever step of whichever call failed before.
THEOREM InitializedAsAWhole == BootstrapSpec => []InitializedWhole
<1>1. BootstrapInv => InitializedWhole
  <2> SUFFICES ASSUME BootstrapInv PROVE InitializedWhole
    OBVIOUS
  <2>1. BootstrapTypeOK /\ Whole
    BY DEF BootstrapInv
  <2>2. count = 0 \/ count > 0
    BY <2>1, CountAssumption DEF BootstrapTypeOK
  <2> QED BY <2>1, <2>2 DEF InitializedWhole, Whole
<1> QED BY <1>1, BootstrapInductiveInvariant, PTL

\* Who was told S_OK has the framework asked for, and a manager that has not
\* exited keeps it installed, until the last Shutdown or the end of the process.
THEOREM WhatIsGrantedIsKept == BootstrapSpec => []GrantKept
<1>1. BootstrapInv => GrantKept
  <2> SUFFICES ASSUME BootstrapInv PROVE GrantKept
    OBVIOUS
  <2>1. GrantedServed /\ Whole /\ HeldStays
    BY DEF BootstrapInv
  <2>2. FrameworkPinned
    BY <2>1 DEF Whole, HeldStays, FrameworkPinned
  <2> QED BY <2>1, <2>2 DEF GrantKept
<1> QED BY <1>1, BootstrapInductiveInvariant, PTL

-----------------------------------------------------------------------------
(* The bootstrapper in PATH *)

\* A step after which no Initialize failed or was overtaken or disturbed keeps
\* what PATH has of the framework.
LEMMA EntryStep == BootstrapInv /\ EntryInv /\ [BootstrapNext]_bootstrapVars => EntryInv'
<1> SUFFICES ASSUME BootstrapInv, EntryInv, [BootstrapNext]_bootstrapVars, alive', incidents' = {}
             PROVE  EntryInv'
  BY DEF EntryInv
<1> DEFINE S == Versions \cup {App}
<1>a. BootstrapTypeOK /\ FirstCall /\ LocalsFit /\ Whole
  BY DEF BootstrapInv
<1>b. /\ MaxVersion \in Nat \ {0} /\ searchPath \in Seq(S) /\ App \in S /\ App = 0
      /\ inGraph \in Nat /\ new.framework \in 0 .. MaxVersion /\ new.resolved \in 0 .. MaxVersion
      /\ \A v \in 0 .. MaxVersion : v > 0 => v \in S
      /\ count \in Nat
  BY <1>a, CountAssumption DEF BootstrapTypeOK, Versions, App
<1>c. Len(searchPath) \in Nat /\ DOMAIN searchPath = 1 .. Len(searchPath)
  BY <1>b, LenProperties
<1>u. ASSUME UNCHANGED <<alive, kind, searchPath, count, inGraph, incidents>>,
             UNCHANGED new.framework,
             stage' = stage \/ (stage = "start" /\ stage' = "load") \/ (stage = "create" /\ stage' = "add")
                \/ (stage = "idle" /\ count = 0 /\ stage' = IF kind = "os" THEN "create" ELSE "start")
      PROVE  EntryInv'
  BY <1>u DEF EntryInv
<1>1. ASSUME NEW r \in Requests, InitializeAgain(r) PROVE EntryInv'
  <2>1. /\ count > 0 /\ count' > 0
        /\ UNCHANGED <<alive, kind, searchPath, inGraph, stage, new, incidents>>
    BY <1>1, <1>b DEF InitializeAgain
  <2> QED BY <1>b, <2>1 DEF EntryInv
<1>2. ASSUME NEW r \in Requests, FirstTimeInitialization(r) PROVE EntryInv'
  BY <1>2, <1>u DEF FirstTimeInitialization, globals, told
<1>3. ASSUME CreateLifetimeManager PROVE EntryInv'
  <2>1. /\ stage = "start" /\ stage' = "load" /\ count = 0
        /\ UNCHANGED <<alive, kind, searchPath, count, inGraph, incidents>>
    BY <1>3, <1>a DEF CreateLifetimeManager, globals, told, FirstCall
  <2> QED BY <2>1 DEF EntryInv
<1>4. ASSUME LoadRuntime PROVE EntryInv'
  <2>1. /\ stage = "load" /\ stage' = "create" /\ count = 0 /\ kind # "os"
        /\ searchPath' = <<new.framework>> \o searchPath
        /\ UNCHANGED <<alive, kind, count, inGraph, new, incidents>>
    BY <1>4, <1>a DEF LoadRuntime, globals, told, FirstCall
  <2>2. new.framework \in S
    BY <1>a, <1>b, <2>1 DEF LocalsFit
  <2>3. /\ searchPath' # << >> /\ Head(searchPath') = new.framework
        /\ DOMAIN searchPath' = 1 .. Len(searchPath) + 1
        /\ \A i \in 2 .. Len(searchPath) + 1 : searchPath'[i] = searchPath[i - 1]
    BY <1>b, <2>1, <2>2, PushProperties
  <2>4. AppsOnly(searchPath, 1)
    BY <2>1 DEF EntryInv
  <2>5. AppsOnly(searchPath', 2)
    <3> SUFFICES ASSUME NEW i \in 2 .. Len(searchPath) + 1 PROVE searchPath'[i] = App
      BY <1>c, <2>3 DEF AppsOnly
    <3>1. i - 1 \in DOMAIN searchPath /\ 1 <= i - 1
      BY <1>c
    <3> QED BY <2>3, <2>4, <3>1 DEF AppsOnly
  <2> QED BY <1>b, <2>1, <2>3, <2>5 DEF EntryInv
<1>5. ASSUME CreateDependency PROVE EntryInv'
  <2>1. new'.framework = new.framework
    BY <1>5, <1>a DEF CreateDependency, BootstrapTypeOK
  <2> QED BY <1>5, <1>u, <2>1 DEF CreateDependency, globals, told
<1>6. ASSUME AddDependency PROVE EntryInv'
  <2>1. /\ stage = "add" /\ stage' = "idle" /\ count = 0 /\ count' = 1 /\ inGraph' = new.resolved
        /\ searchPath' = IF kind = "os" THEN searchPath
                         ELSE RemoveFromFront(<<new.resolved>> \o searchPath, new.framework)
        /\ kind # "os" => new.resolved = new.framework
        /\ incidents = {} /\ alive /\ UNCHANGED kind
    BY <1>6, <1>a DEF AddDependency, FirstCall
  <2>2. CASE kind = "os"
    BY <2>1, <2>2 DEF EntryInv
  <2>3. CASE kind # "os"
    <3>1. new.resolved \in S
      BY <1>a, <1>b, <2>1 DEF LocalsFit
    <3>2. searchPath' = searchPath
      <4> DEFINE h == <<new.resolved>> \o searchPath
      <4>1. h # << >> /\ Head(h) = new.resolved /\ Tail(h) = searchPath
        BY <1>b, <3>1, PushProperties
      <4> HIDE DEF h
      <4> QED BY <2>1, <2>3, <4>1 DEF RemoveFromFront
    <3>3. searchPath # << >> /\ Head(searchPath) = new.framework /\ AppsOnly(searchPath, 2)
      BY <2>1, <2>3 DEF EntryInv
    <3>4. OneEntry(searchPath, new.resolved)
      <4>1. 1 \in DOMAIN searchPath /\ searchPath[1] = new.resolved
        BY <1>b, <1>c, <2>1, <2>3, <3>3
      <4>2. \A i \in DOMAIN searchPath \ {1} : searchPath[i] = App
        BY <1>c, <3>3 DEF AppsOnly
      <4> QED BY <4>1, <4>2 DEF OneEntry
    <3> QED BY <2>1, <2>3, <3>2, <3>4 DEF EntryInv
  <2> QED BY <2>2, <2>3
<1>7. ASSUME InitializeFails PROVE EntryInv'
  BY <1>7 DEF InitializeFails
<1>8. ASSUME Shutdown PROVE EntryInv'
  <2>1. /\ stage = "idle" /\ count' = IF count = 0 THEN 0 ELSE count - 1
        /\ UNCHANGED <<alive, kind, stage, incidents>>
    BY <1>8 DEF Shutdown, call
  <2>2. CASE count = 1
    <3>1. /\ count' = 0
          /\ searchPath' = IF kind = "os" THEN searchPath ELSE RemoveFirst(searchPath, inGraph)
      BY <1>8, <2>1, <2>2 DEF Shutdown
    <3>2. CASE kind = "os"
      BY <2>1, <3>1, <3>2 DEF EntryInv
    <3>3. CASE kind # "os"
      <4>1. OneEntry(searchPath, inGraph) /\ inGraph # App
        BY <1>a, <1>b, <2>1, <2>2, <3>3 DEF EntryInv, Whole
      <4>2. PICK k \in 1 .. Len(searchPath) :
                   searchPath[k] = inGraph /\ searchPath' = RemoveAt(searchPath, k)
        BY <1>b, <1>c, <3>1, <3>3, <4>1, RemoveFirstProperties DEF OneEntry
      <4>3. \A i \in DOMAIN searchPath \ {k} : searchPath[i] = App
        BY <1>c, <4>1, <4>2 DEF OneEntry
      <4> DEFINE s == RemoveAt(searchPath, k)
      <4>4. /\ s \in Seq(S) /\ Len(s) = Len(searchPath) - 1
            /\ \A i \in 1 .. k - 1 : s[i] = searchPath[i]
            /\ \A i \in k .. Len(searchPath) - 1 : s[i] = searchPath[i + 1]
        BY <1>b, <4>2, RemoveAtProperties
      <4> HIDE DEF s
      <4>5. AppsOnly(s, 1)
        <5> SUFFICES ASSUME NEW i \in 1 .. Len(searchPath) - 1 PROVE s[i] = App
          BY <1>c, <4>4, LenProperties DEF AppsOnly
        <5>1. i \in DOMAIN searchPath /\ i + 1 \in DOMAIN searchPath
          BY <1>c
        <5>2. i < k => i \in 1 .. k - 1 /\ i # k
          BY <1>c
        <5>3. ~(i < k) => i \in k .. Len(searchPath) - 1 /\ i + 1 # k
          BY <1>c
        <5> QED BY <4>3, <4>4, <5>1, <5>2, <5>3
      <4> QED BY <2>1, <3>1, <3>3, <4>2, <4>5 DEF EntryInv, s
    <3> QED BY <3>2, <3>3
  <2>3. CASE count # 1
    <3>1. UNCHANGED <<searchPath, inGraph>> /\ (count = 0 <=> count' = 0) /\ (count > 0 <=> count' > 0)
      BY <1>8, <1>b, <2>1, <2>3 DEF Shutdown
    <3> QED BY <2>1, <3>1 DEF EntryInv
  <2> QED BY <2>2, <2>3
<1>9. ASSUME NEW m \in Managers, ManagerStep(m) PROVE EntryInv'
  <2>1. \E to \in {"opened", "waiting", "exited"} : Move(m, to)
    BY <1>9 DEF ManagerStep, OpenEvent, OpenCaller, Quit
  <2> QED BY <1>u, <2>1 DEF Move, globals, call, told
<1>10. ASSUME NEW f \in Families, InstallFramework(f) PROVE EntryInv'
  BY <1>10, <1>u DEF InstallFramework, globals, call, told
<1>11. ASSUME AppPrepends PROVE EntryInv'
  <2>1. /\ stage = "idle" /\ alive /\ incidents = {}
        /\ searchPath' = <<App>> \o searchPath
        /\ UNCHANGED <<kind, count, inGraph, stage, new>>
    BY <1>11 DEF AppPrepends, globals, call
  <2>2. /\ DOMAIN searchPath' = 1 .. Len(searchPath) + 1 /\ searchPath'[1] = App
        /\ \A i \in 2 .. Len(searchPath) + 1 : searchPath'[i] = searchPath[i - 1]
    BY <1>b, <2>1, PushProperties
  <2>3. AppsOnly(searchPath, 1) => AppsOnly(searchPath', 1)
    <3> SUFFICES ASSUME AppsOnly(searchPath, 1), NEW i \in 2 .. Len(searchPath) + 1
                 PROVE  searchPath'[i] = App
      BY <1>c, <2>2 DEF AppsOnly
    <3>1. i - 1 \in DOMAIN searchPath /\ 1 <= i - 1
      BY <1>c
    <3> QED BY <2>2, <3>1 DEF AppsOnly
  <2>4. OneEntry(searchPath, inGraph) => OneEntry(searchPath', inGraph)
    <3> SUFFICES ASSUME OneEntry(searchPath, inGraph) PROVE OneEntry(searchPath', inGraph)
      OBVIOUS
    <3>1. PICK k \in 1 .. Len(searchPath) :
             searchPath[k] = inGraph /\ \A i \in 1 .. Len(searchPath) \ {k} : searchPath[i] = App
      BY <1>c DEF OneEntry
    <3>2. k + 1 \in 2 .. Len(searchPath) + 1 /\ (k + 1) - 1 = k /\ k + 1 \in DOMAIN searchPath'
      BY <1>c, <2>2
    <3>3. searchPath'[k + 1] = inGraph
      BY <2>2, <3>1, <3>2
    <3>4. ASSUME NEW i \in 2 .. Len(searchPath) + 1, i # k + 1 PROVE searchPath'[i] = App
      <4>1. i - 1 \in 1 .. Len(searchPath) \ {k}
        BY <1>c, <3>4
      <4> QED BY <2>2, <3>1, <4>1
    <3>5. \A i \in DOMAIN searchPath' \ {k + 1} : searchPath'[i] = App
      <4>1. \A i \in DOMAIN searchPath' : i = 1 \/ i \in 2 .. Len(searchPath) + 1
        BY <1>c, <2>2
      <4> QED BY <2>2, <3>4, <4>1
    <3> QED BY <3>2, <3>3, <3>5 DEF OneEntry
  <2> QED BY <2>1, <2>3, <2>4 DEF EntryInv
<1>12. ASSUME ProcessEnds PROVE EntryInv'
  BY <1>12 DEF ProcessEnds
<1>13. ASSUME UNCHANGED bootstrapVars PROVE EntryInv'
  BY <1>13, <1>u DEF bootstrapVars, globals, call, told
<1> QED BY <1>1, <1>2, <1>3, <1>4, <1>5, <1>6, <1>7, <1>8, <1>9, <1>10, <1>11, <1>12, <1>13
        DEF BootstrapNext, CallStep

\* PATH has one entry of the framework while the process is initialized and none
\* before and after, however often the app prepends its own between calls.
THEOREM PathEntryIsTemporary == BootstrapSpec => []PathEntryTemporary
<1>1. BootstrapInit => EntryInv
  BY DEF BootstrapInit, EntryInv, AppsOnly
<1>2. BootstrapInv /\ EntryInv => PathEntryTemporary
  <2> SUFFICES ASSUME BootstrapInv, EntryInv, alive, stage = "idle", incidents = {}
               PROVE  Entries(searchPath) = IF count > 0 /\ kind # "os" THEN 1 ELSE 0
    BY DEF PathEntryTemporary
  <2>1. BootstrapTypeOK /\ Whole
    BY DEF BootstrapInv
  <2>2. /\ Len(searchPath) \in Nat /\ DOMAIN searchPath = 1 .. Len(searchPath)
        /\ count \in Nat /\ inGraph \in Nat /\ App = 0
    BY <2>1, LenProperties, CountAssumption DEF BootstrapTypeOK, App
  <2>3. CASE count > 0 /\ kind # "os"
    <3>1. OneEntry(searchPath, inGraph) /\ inGraph # App
      BY <2>1, <2>2, <2>3 DEF EntryInv, Whole
    <3>2. PICK k \in DOMAIN searchPath :
             searchPath[k] = inGraph /\ \A i \in DOMAIN searchPath \ {k} : searchPath[i] = App
      BY <3>1 DEF OneEntry
    <3>3. {i \in DOMAIN searchPath : searchPath[i] # App} = {k}
      BY <3>1, <3>2
    <3> QED BY <2>3, <3>3, FS_Singleton DEF Entries
  <2>4. CASE ~(count > 0 /\ kind # "os")
    <3>1. AppsOnly(searchPath, 1)
      BY <2>2, <2>4 DEF EntryInv
    <3>2. {i \in DOMAIN searchPath : searchPath[i] # App} = {}
      BY <2>2, <3>1 DEF AppsOnly
    <3> QED BY <2>4, <3>2, FS_EmptySet DEF Entries
  <2> QED BY <2>3, <2>4
<1> QED BY <1>1, <1>2, EntryStep, BootstrapInitInvariant, BootstrapInvariantStep, PTL DEF BootstrapSpec
==============================================================================
