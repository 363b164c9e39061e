----------------------- MODULE PackageDeploymentProofs -----------------------
(***************************************************************************)
(* Proofs about PackageDeployment: for any families, versions and package  *)
(* sets, whatever the service answers and others deploy, the answer of a   *)
(* call is true, a call that fails leaves its items done up to the one     *)
(* that failed, and its progress is what it should be.                     *)
(***************************************************************************)
EXTENDS PackageDeployment, FiniteSetTheorems, TLAPS

(***************************************************************************)
(* The inductive invariant.                                                *)
(***************************************************************************)
Working == {"item", "family", "deploying", "answered"}
Queries == {"isReady", "isProvisioned"}

\* The history knows the present state as long as the call lasts.
Noticed ==
    call.pc \notin {"idle", "done"} =>
        /\ \A p \in Packages : <<p, repo[p]>> \in seen.states
        /\ \A j \in 1 .. N : <<j, Status(Item(j), repo)>> \in seen.status
        /\ \A f \in Families : <<f, f \in provisioned>> \in seen.provisioned

\* What a call is like before and when its items are looked at or worked on, and
\* that it has a result when it is done and not before.
Checked ==
    /\ call.pc \notin {"idle", "queued", "done"} => N > 0
    /\ call.mode = "product" => call.kind \in Queries
    /\ Single /\ call.pc # "idle" => N = 1
    /\ call.pc = "check" => call.kind \in Queries \cup {"ensure"}
    /\ call.pc \in Working => call.kind \notin Queries \cup {"reset", "repair"}
    /\ call.pc \in Working \cup {"check"} /\ call.kind \in {"ensure", "add", "stage"} =>
          \A j \in 1 .. N : Uri(j) # 0
    /\ call.kind = "ensure" => call.mode = "set"
    /\ call.kind \in {"add", "stage"} => call.mode = "set" \/ (Single /\ Uri(1) # 0)
    /\ call.pc \in {"idle", "queued"} => call.i = 1 /\ ~call.newer /\ call.todo = {}
    /\ call.pc # "done" => call.result = "none"
    /\ call.pc = "done" => call.result # "none"

\* A query or the first half of EnsurePackageSetReady has found the items before as it says.
Found ==
    call.pc = "check" =>
        IF call.kind = "isProvisioned"
        THEN \A j \in 1 .. call.i - 1 : <<Item(j).family, TRUE>> \in seen.provisioned
        ELSE /\ \A j \in 1 .. call.i - 1 : SeenStatus(j, IF call.newer THEN {"ready", "newer"} ELSE Good(call.option))
             /\ call.newer => call.option /\ \E j \in 1 .. call.i - 1 : SeenStatus(j, {"newer"})

\* The items before the present one are done, those after it were not asked for.
Prefix ==
    /\ call.pc \in Working => \A j \in 1 .. call.i - 1 : Achieved(j)
    /\ seen.asked # {} => call.pc \in Working \cup {"done"}
    /\ seen.asked \subseteq 1 .. call.i
    /\ call.pc \in {"deploying", "answered"} => call.activity \in {0, call.i}

\* What the service was asked to do is what the item needs.
RemovesFamily == call.kind = "remove" /\ call.mode # "fullName" /\ Uri(call.i) = 0
Asked ==
    call.pc = "deploying" =>
        /\ call.kind \in {"ensure", "add", "stage"} => call.pkg = AtUri
        /\ call.kind = "register" =>
              IF call.mode = "fullName" THEN call.pkg = Named
              ELSE IF Uri(call.i) # 0 THEN call.pkg = AtUri ELSE call.pkg[1] = It.family
        /\ call.kind = "remove" => RemovesFamily \/ (call.mode = "fullName" /\ call.pkg = Named)
        /\ call.pkg[1] = It.family

\* Of a family that is being removed every package was gone at some time, is still to do
\* or is being done.
Removing ==
    /\ call.todo # {} => /\ call.pc \in {"family", "deploying", "answered", "done"} /\ RemovesFamily
                         /\ call.todo \subseteq Family(It.family)
    /\ call.pc = "family" => RemovesFamily
    /\ call.pc \in {"family", "deploying", "answered"} /\ RemovesFamily =>
          \A p \in Family(It.family) :
             SeenGone(p) \/ p \in call.todo \/ (call.pc = "deploying" /\ call.pkg = p)
                         \/ (call.pc = "answered" /\ ~Succeeded)

\* An item that was answered well is done, but for the rest of its family.
Served == call.pc = "answered" /\ Succeeded /\ call.todo = {} => Achieved(call.i)

\* Where the progress stands: items before have added their share, for "ensure" twice at most.
Begun == IF Single THEN 0 ELSE 10 * N + (call.i - 1) * 90
Progress ==
    LET most == IF call.kind = "ensure" THEN Begun + (call.i - 1) * 90 ELSE Begun
    IN  /\ call.pc = "check" => call.progress = IF call.kind = "ensure" THEN N ELSE 0
        /\ call.pc \in {"idle", "queued"} => call.progress = 0
        /\ call.pc = "item" => IF call.kind = "ensure" THEN call.progress <= most ELSE call.progress = Begun
        /\ call.pc \in {"family", "deploying", "answered"} =>
              IF call.kind = "ensure" THEN call.before <= most ELSE call.before = Begun
        /\ call.pc \in {"family", "deploying"} \/ (call.pc = "answered" /\ call.todo # {}) =>
              call.share <= ItemShare
        /\ call.pc \in {"family", "deploying", "answered"} =>
              IF Adds THEN call.progress \in call.before .. call.before + ItemShare
              ELSE call.progress \in 0 .. call.before + ItemShare

Facts == Noticed /\ Checked /\ Found /\ Prefix /\ Asked /\ Removing /\ Served /\ Progress

IInv == TypeOK /\ Facts /\ ProgressTold /\ SuccessMeansDone /\ FailureLeavesPrefix

-----------------------------------------------------------------------------
(* Items and packages *)

\* What a call in its type names: items, their families, versions and URIs.
LEMMA ItemFacts ==
    ASSUME TypeOK
    PROVE  /\ MaxVersion \in Nat \ {0} /\ MaxItems \in Nat \ {0}
           /\ N \in Nat /\ N <= MaxItems
           /\ \A j \in 1 .. N : /\ Item(j) \in PackageItems
                                /\ Item(j).family \in Families /\ Item(j).min \in Versions
                                /\ Uri(j) \in 0 .. MaxVersion
                                /\ <<Item(j).family, Item(j).min>> \in Packages
                                /\ Uri(j) # 0 => <<Item(j).family, Uri(j)>> \in Packages
<1>1. call.set \in [uri : 0 .. MaxVersion, items : Seq(PackageItems)] /\ Len(call.set.items) <= MaxItems
  BY SetAssumption DEF TypeOK, CallType
<1>2. MaxVersion \in Nat \ {0} /\ MaxItems \in Nat \ {0}
  BY SetAssumption
<1>3. N \in Nat /\ N <= MaxItems /\ \A j \in 1 .. N : Item(j) \in PackageItems
  BY <1>1 DEF N, Item
<1>4. ASSUME NEW j \in 1 .. N
      PROVE  /\ Item(j).family \in Families /\ Item(j).min \in Versions
             /\ Uri(j) \in 0 .. MaxVersion
  BY <1>1, <1>3 DEF PackageItems, Uri, UriOf, Item
<1>5. ASSUME NEW j \in 1 .. N
      PROVE  /\ <<Item(j).family, Item(j).min>> \in Packages
             /\ Uri(j) # 0 => <<Item(j).family, Uri(j)>> \in Packages
  BY <1>2, <1>4 DEF Packages, Versions
<1> QED BY <1>2, <1>3, <1>4, <1>5

\* The packages of a family are the packages with its name.
LEMMA FamilyFacts ==
    ASSUME NEW f \in Families
    PROVE  /\ Family(f) \subseteq Packages
           /\ \A p \in Packages : p \in Family(f) <=> p[1] = f
           /\ \A p \in Packages : p[1] \in Families /\ p[2] \in Versions /\ p = <<p[1], p[2]>>
           /\ IsFiniteSet(Family(f))
<1>1. 1 \in Int /\ MaxVersion \in Int
  BY SetAssumption
<1>a. IsFiniteSet(Versions)
  BY <1>1, FS_Interval DEF Versions
<1>b. IsFiniteSet({f})
  BY FS_Singleton
<1>2. IsFiniteSet(Family(f))
  BY <1>a, <1>b, FS_Product DEF Family
<1>3. Family(f) \subseteq Packages /\ \A p \in Packages : p \in Family(f) <=> p[1] = f
  BY DEF Family, Packages
<1> QED BY <1>2, <1>3 DEF Packages

-----------------------------------------------------------------------------
(* Steps of one call *)

\* The call is the same, and what was seen stays seen.
SameCall ==
    /\ call'.kind = call.kind /\ call'.mode = call.mode
    /\ call'.set = call.set /\ call'.option = call.option
Remembers ==
    /\ seen.states \subseteq seen'.states
    /\ seen.status \subseteq seen'.status
    /\ seen.provisioned \subseteq seen'.provisioned

\* What was achieved stays so.
LEMMA AchievedStays ==
    ASSUME SameCall, Remembers
    PROVE  /\ N' = N /\ Single' = Single /\ Adds' = Adds /\ ItemShare' = ItemShare
           /\ \A j : Item(j)' = Item(j) /\ Uri(j)' = Uri(j)
           /\ \A p : SeenGone(p) => SeenGone(p)'
           /\ \A j, S : SeenStatus(j, S) => SeenStatus(j, S)'
           /\ \A j : Achieved(j) => Achieved(j)'
<1>1. /\ N' = N /\ Single' = Single /\ Adds' = Adds /\ ItemShare' = ItemShare
      /\ \A j : Item(j)' = Item(j) /\ Uri(j)' = Uri(j)
  BY DEF SameCall, N, Single, Adds, ItemShare, Item, Uri
<1>2. \A p : SeenGone(p) => SeenGone(p)'
  BY DEF Remembers, SeenGone
<1>3. \A j, S : SeenStatus(j, S) => SeenStatus(j, S)'
  BY DEF Remembers, SeenStatus
<1>4. \A p : SeenRegistered(p) => SeenRegistered(p)'
  BY DEF Remembers, SeenRegistered
<1>5. ASSUME NEW j, Achieved(j) PROVE Achieved(j)'
  BY <1>1, <1>2, <1>3, <1>4, <1>5 DEF Achieved, SameCall, Remembers
<1> QED BY <1>1, <1>2, <1>3, <1>5

\* Noting what holds keeps what was noted.
LEMMA NotedFacts ==
    ASSUME NEW s \in SeenType, NEW set \in PackageSets,
           NEW r \in [Packages -> States], NEW prov \in SUBSET Families
    PROVE  LET t == Noted(s, set, r, prov)
           IN  /\ t \in SeenType /\ t.asked = s.asked
               /\ s.states \subseteq t.states /\ s.status \subseteq t.status
               /\ s.provisioned \subseteq t.provisioned
               /\ \A p \in Packages : <<p, r[p]>> \in t.states
               /\ \A j \in 1 .. Len(set.items) : <<j, Status(set.items[j], r)>> \in t.status
               /\ \A f \in Families : <<f, f \in prov>> \in t.provisioned
<1> DEFINE t == Noted(s, set, r, prov)
<1>1. DOMAIN set.items = 1 .. Len(set.items) /\ Len(set.items) \in Nat /\ Len(set.items) <= MaxItems
      /\ MaxItems \in Nat
  BY SetAssumption
<1> DEFINE A == s.states \cup {<<p, r[p]>> : p \in Packages}
           B == s.status \cup {<<j, Status(set.items[j], r)>> : j \in DOMAIN set.items}
           C == s.provisioned \cup {<<f, f \in prov>> : f \in Families}
<1>2. t = [s EXCEPT !.states = A, !.status = B, !.provisioned = C]
  BY Zenon DEF Noted
<1>2b. /\ s.states \subseteq Packages \X States /\ s.provisioned \subseteq Families \X BOOLEAN
       /\ s.asked \subseteq 1 .. MaxItems
       /\ s.status \subseteq (1 .. MaxItems) \X {"ready", "newer", "notReady"}
  BY DEF SeenType
<1> HIDE DEF t
<1>3a. A \subseteq Packages \X States
  BY <1>2b
<1>3b. C \subseteq Families \X BOOLEAN
  <2>1. \A f \in Families : <<f, f \in prov>> \in Families \X BOOLEAN
    <3>1. \A f \in Families, b \in BOOLEAN : <<f, b>> \in Families \X BOOLEAN
      OBVIOUS
    <3>2. \A f \in Families : (f \in prov) \in BOOLEAN
      OBVIOUS
    <3> QED BY <3>1, <3>2, Zenon
  <2> QED BY <1>2b, <2>1
<1>4. \A j \in DOMAIN set.items : Status(set.items[j], r) \in {"ready", "newer", "notReady"}
  BY DEF Status
<1>5. B \subseteq (1 .. MaxItems) \X {"ready", "newer", "notReady"}
  BY <1>1, <1>2b, <1>4
<1>6. t.states = A /\ t.status = B /\ t.provisioned = C /\ t.asked = s.asked /\ t \in SeenType
  <2> HIDE DEF A, B, C
  <2>1. /\ A \in SUBSET (Packages \X States) /\ C \in SUBSET (Families \X BOOLEAN)
        /\ B \in SUBSET ((1 .. MaxItems) \X {"ready", "newer", "notReady"})
    BY <1>3a, <1>3b, <1>5
  <2>2. t.states = A /\ t.status = B /\ t.provisioned = C /\ t.asked = s.asked
    BY <1>2 DEF SeenType
  <2>3. t \in SeenType
    BY <1>2, <2>1 DEF SeenType
  <2> QED BY <2>2, <2>3
<1>7. \A p \in Packages : <<p, r[p]>> \in A
  OBVIOUS
<1>8. \A j \in 1 .. Len(set.items) : <<j, Status(set.items[j], r)>> \in B
  BY <1>1
<1>9. \A f \in Families : <<f, f \in prov>> \in C
  OBVIOUS
<1>10. s.states \subseteq A /\ s.status \subseteq B /\ s.provisioned \subseteq C
  OBVIOUS
<1> HIDE DEF A, B, C
<1>11. /\ t.asked = s.asked
       /\ s.states \subseteq t.states /\ s.status \subseteq t.status
       /\ s.provisioned \subseteq t.provisioned
       /\ \A p \in Packages : <<p, r[p]>> \in t.states
       /\ \A j \in 1 .. Len(set.items) : <<j, Status(set.items[j], r)>> \in t.status
       /\ \A f \in Families : <<f, f \in prov>> \in t.provisioned
  BY <1>6, <1>7, <1>8, <1>9, <1>10
<1> QED BY <1>6, <1>11 DEF t

LEMMA SomePackage == (CHOOSE p \in Packages : TRUE) \in Packages
<1>1. PICK f \in Families : TRUE
  BY SetAssumption
<1>2. <<f, 1>> \in Packages
  BY SetAssumption DEF Packages, Versions
<1> QED BY <1>2

LEMMA NothingTyped == NothingSeen \in SeenType
  BY DEF NothingSeen, SeenType

\* A new call is of the type calls have.
LEMMA NewCallTyped ==
    ASSUME NEW kind \in Kinds, NEW mode \in Modes, NEW set \in PackageSets, NEW option \in BOOLEAN
    PROVE  NewCall(kind, mode, set, option) \in CallType
<1>1. 1 \in 1 .. MaxItems /\ 0 \in 0 .. MaxItems /\ 0 \in 0 .. 200 * MaxItems /\ 0 \in 0 .. 100
  BY SetAssumption
<1> QED BY <1>1, SomePackage DEF NewCall, CallType

-----------------------------------------------------------------------------
(* A call begins *)

LEMMA InitHolds == Init => IInv
<1> SUFFICES ASSUME Init PROVE IInv
  OBVIOUS
<1>1. (CHOOSE s \in PackageSets : TRUE) \in PackageSets
  BY SetAssumption
<1> DEFINE first == NewCall("isReady", "set", CHOOSE s \in PackageSets : TRUE, FALSE)
<1>2. first \in CallType
  BY <1>1, NewCallTyped DEF Kinds, Modes
<1>a. /\ first.kind = "isReady" /\ first.mode = "set" /\ first.result = "none"
      /\ first.todo = {} /\ first.progress = 0 /\ first.i = 1 /\ ~first.newer
  BY DEF NewCall
<1>b. call = [first EXCEPT !.pc = "idle"]
  BY DEF Init
<1> HIDE DEF first
<1>3. /\ call \in CallType /\ call.pc = "idle" /\ call.kind = "isReady" /\ call.mode = "set"
      /\ call.result = "none" /\ call.todo = {} /\ call.progress = 0 /\ call.i = 1 /\ ~call.newer
  BY <1>2, <1>a, <1>b DEF CallType
<1>4. TypeOK
  BY <1>3, NothingTyped, SetAssumption DEF Init, TypeOK
<1>5. seen.asked = {}
  BY DEF Init, NothingSeen
<1>6. Facts
  BY <1>3, <1>5 DEF Facts, Noticed, Checked, Single, Found, Prefix, Asked, Removing, Served, Progress, Working
<1>7. ProgressTold /\ SuccessMeansDone /\ FailureLeavesPrefix
  BY <1>3, <1>4 DEF ProgressTold, SuccessMeansDone, FailureLeavesPrefix
<1> QED BY <1>4, <1>6, <1>7 DEF IInv

LEMMA BeginKeeps ==
    ASSUME IInv, Begin
    PROVE  IInv'
<1>1. PICK kind \in Kinds, mode \in Modes, set \in PackageSets, option \in BOOLEAN :
          /\ Offered(kind, mode)
          /\ mode \in {"one", "fullName"} => Len(set.items) = 1
          /\ mode = "one" /\ kind \in {"add", "stage"} => UriOf(set, 1) # 0
          /\ call' = NewCall(kind, mode, set, option)
          /\ seen' = Noted(NothingSeen, set, repo, provisioned)
  BY DEF Begin
<1>2. call.pc = "idle" /\ UNCHANGED <<repo, provisioned, changes>>
  BY DEF Begin
<1>3. /\ call'.pc = "queued" /\ call'.kind = kind /\ call'.mode = mode /\ call'.set = set
      /\ call'.result = "none" /\ call'.todo = {} /\ call'.progress = 0 /\ call'.i = 1 /\ ~call'.newer
  BY <1>1 DEF NewCall
<1>4. call' \in CallType
  BY <1>1, NewCallTyped
<1>5. /\ seen' \in SeenType /\ seen'.asked = {}
      /\ \A p \in Packages : <<p, repo[p]>> \in seen'.states
      /\ \A j \in 1 .. Len(set.items) : <<j, Status(set.items[j], repo)>> \in seen'.status
      /\ \A f \in Families : <<f, f \in provisioned>> \in seen'.provisioned
  BY <1>1, NotedFacts, NothingTyped DEF IInv, TypeOK, NothingSeen
<1>6. TypeOK'
  BY <1>2, <1>3, <1>4, <1>5 DEF IInv, TypeOK
<1>7. Noticed'
  BY <1>2, <1>3, <1>5 DEF Noticed, N, Item, Status, IsReady, IsNewerAvailable
<1>8. Checked'
  <2>1. mode = "product" => kind \in Queries
    BY <1>1 DEF Offered, Queries, Kinds
  <2>2. kind = "ensure" => mode = "set"
    BY <1>1 DEF Offered
  <2>3. kind \in {"add", "stage"} => mode = "set" \/ (mode = "one" /\ UriOf(set, 1) # 0)
    BY <1>1 DEF Offered
  <2> QED BY <1>1, <1>3, <2>1, <2>2, <2>3 DEF Checked, Working, Single, N, Uri
<1>9. Facts'
  BY <1>3, <1>5, <1>7, <1>8 DEF Facts, Found, Prefix, Asked, Removing, Served, Progress, Working
<1>10. (ProgressTold /\ SuccessMeansDone /\ FailureLeavesPrefix)'
  BY <1>3, <1>6 DEF ProgressTold, SuccessMeansDone, FailureLeavesPrefix
<1> QED BY <1>6, <1>9, <1>10 DEF IInv

-----------------------------------------------------------------------------
(* Steps that leave the packages alone *)

\* Nothing is deployed and nothing noted.
Still == UNCHANGED <<repo, provisioned, changes, seen>>

LEMMA StillFacts ==
    ASSUME IInv, SameCall, Still, call.pc \notin {"idle", "done"}
    PROVE  Remembers /\ Noticed'
<1>1. Remembers
  BY DEF Still, Remembers
<1>2. N' = N /\ \A j : Item(j)' = Item(j)
  BY <1>1, AchievedStays
<1>3. /\ \A p \in Packages : <<p, repo[p]>> \in seen.states
      /\ \A j \in 1 .. N : <<j, Status(Item(j), repo)>> \in seen.status
      /\ \A f \in Families : <<f, f \in provisioned>> \in seen.provisioned
  BY DEF IInv, Facts, Noticed
<1>4. \A j : Status(Item(j), repo)' = Status(Item(j), repo)
  BY <1>2 DEF Status, IsReady, IsNewerAvailable, Still
<1>5. repo' = repo /\ provisioned' = provisioned /\ seen' = seen
  BY DEF Still
<1>6. \A p \in Packages : <<p, repo'[p]>> \in seen'.states
  BY <1>3, <1>5
<1>7. \A j \in 1 .. N' : <<j, Status(Item(j), repo)'>> \in seen'.status
  BY <1>2, <1>3, <1>4, <1>5
<1>8. \A f \in Families : <<f, f \in provisioned'>> \in seen'.provisioned
  BY <1>3, <1>5, Zenon
<1> QED BY <1>1, <1>6, <1>7, <1>8, Zenon DEF Noticed

Results == {"success", "failure", "exception", "ready", "newer", "notReady", "yes", "no"}

LEMMA EndedTyped ==
    ASSUME NEW c \in CallType, NEW result \in Results
    PROVE  Ended(c, result) \in CallType
  BY Zenon DEF Ended, CallType, Results

\* A call ends: its result is true, and the rest of the invariant is about calls under way.
LEMMA EndedKeeps ==
    ASSUME IInv, Still, SameCall, NEW c \in CallType, NEW result \in Results,
           call' = Ended(c, result), c.i = call.i, c.todo = call.todo,
           call.pc \notin {"idle", "done"},
           call.mode = "set" /\ call.kind \in {"add", "stage", "register", "remove"} /\ result = "success"
               => c.progress = 100 * N,
           (SuccessMeansDone /\ FailureLeavesPrefix)'
    PROVE  IInv'
<1>1. /\ call'.pc = "done" /\ call'.result = result /\ result # "none"
      /\ call'.i = call.i /\ call'.todo = call.todo /\ call'.progress = c.progress
  BY DEF Ended, CallType, Results
<1>a. call' \in CallType
  BY EndedTyped
<1>2. TypeOK'
  BY <1>1, <1>a DEF IInv, TypeOK, Still
<1>3. /\ N' = N /\ Single' = Single /\ \A j : Uri(j)' = Uri(j)
  BY StillFacts, AchievedStays
<1>4. Checked'
  BY <1>1, <1>3 DEF IInv, Facts, Checked, Working, SameCall
<1>5. Prefix'
  BY <1>1 DEF IInv, Facts, Prefix, Still, Working
<1>6. Removing'
  <2>1. Family(It.family)' = Family(It.family)
    BY <1>1, StillFacts, AchievedStays DEF It, Family
  <2> QED BY <1>1, <1>3, <2>1 DEF IInv, Facts, Removing, RemovesFamily, SameCall
<1>7. ProgressTold'
  BY <1>1, <1>2, <1>3 DEF ProgressTold, SameCall
<1> QED BY <1>1, <1>2, <1>4, <1>5, <1>6, <1>7 DEF IInv, Facts, Noticed, Found, Asked, Served, Progress

LEMMA ValidateKeeps ==
    ASSUME IInv, Validate
    PROVE  IInv'
<1>1. call.pc = "queued" /\ Still /\ call \in CallType /\ call.result = "none" /\ call.todo = {}
      /\ call.i = 1 /\ ~call.newer /\ call.progress = 0 /\ seen.asked = {} /\ N \in Nat /\ N <= MaxItems /\ MaxItems \in Nat \ {0}
  BY ItemFacts DEF Validate, IInv, Facts, TypeOK, Checked, Removing, Progress, Prefix, Working, Still
<1>2. ASSUME NEW result \in {"exception", "notReady", "no"}, call' = Ended(call, result),
             result # "exception" => N = 0
      PROVE  IInv'
  <2>1. SameCall /\ call'.result = result
    BY <1>1, <1>2 DEF SameCall, Ended, CallType
  <2>2. N' = N
    BY <2>1, <1>1, StillFacts, AchievedStays
  <2>3. /\ call'.result \in {"exception", "notReady", "no"}
        /\ call'.result # "exception" => ~(N' > 0)
    BY <1>2, <2>1, <2>2
  <2>4. (SuccessMeansDone /\ FailureLeavesPrefix)'
    BY <2>3, Zenon DEF SuccessMeansDone, FailureLeavesPrefix
  <2> QED BY <1>1, <1>2, <2>1, <2>4, EndedKeeps DEF Results
<1>3. ASSUME NEW pc \in {"check", "item"}, NEW progress \in Nat,
             call' = [call EXCEPT !.pc = pc, !.progress = progress],
             N > 0, call.kind \notin {"reset", "repair"},
             call.kind \in {"ensure", "add", "stage"} => \A j \in 1 .. N : Uri(j) # 0,
             IF pc = "check" THEN call.kind \in Queries \cup {"ensure"} ELSE call.kind \notin Queries \cup {"ensure"},
             progress = IF call.kind = "ensure" THEN N
                        ELSE IF call.kind \in Queries \/ Single THEN 0 ELSE 10 * N
      PROVE  IInv'
  <2>1. progress \in 0 .. 200 * MaxItems
    BY <1>1, <1>3
  <2>2. /\ call'.pc = pc /\ call'.progress = progress /\ call'.result = "none"
        /\ call'.todo = {} /\ call'.i = 1 /\ ~call'.newer /\ SameCall
    BY <1>1, <1>3 DEF SameCall, CallType
  <2>a. call' \in CallType
    <3>1. call \in CallType /\ progress \in 0 .. 200 * MaxItems
      BY <1>1, <2>1
    <3>2. [call EXCEPT !.pc = pc, !.progress = progress] \in CallType
      BY <3>1, Zenon DEF CallType
    <3> QED BY <1>3, <3>2
  <2>3. /\ Noticed' /\ N' = N /\ Single' = Single /\ Adds' = Adds /\ \A j : Uri(j)' = Uri(j)
    <3>1. call.pc \notin {"idle", "done"}
      BY <1>1
    <3>2. Remembers /\ Noticed'
      BY <1>1, <2>2, <3>1, StillFacts
    <3> QED BY <2>2, <3>2, AchievedStays
  <2>4. TypeOK'
    <3>1. Len(call'.set.items) = N
      BY <2>3 DEF N
    <3>2. call'.i <= Len(call'.set.items)
      BY <1>1, <1>3, <2>2, <3>1
    <3> QED BY <1>1, <2>a, <3>2 DEF IInv, TypeOK, Still
  <2>5. Checked'
    BY <1>1, <1>3, <2>2, <2>3 DEF IInv, Facts, Checked, Working, Queries, SameCall
  <2>6. Found' /\ Prefix'
    BY <1>1, <2>2 DEF Found, Prefix, Still, Working
  <2>7. Progress'
    BY <1>1, <1>3, <2>2, <2>3 DEF Progress, Begun, SameCall, Queries
  <2>8. Facts'
    BY <1>3, <2>2, <2>3, <2>5, <2>6, <2>7 DEF Facts, Asked, Removing, Served
  <2>9. ProgressTold'
    <3>1. call'.pc = "item" /\ call'.mode = "set" => call'.progress = 10 * N' + (call'.i - 1) * ItemShare'
      BY <1>1, <1>3, <2>2, <2>3 DEF ItemShare, Single, SameCall, Queries
    <3> QED BY <1>3, <2>2, <2>4, <3>1 DEF ProgressTold
  <2> QED BY <2>2, <2>4, <2>8, <2>9 DEF IInv, SuccessMeansDone, FailureLeavesPrefix
<1>4. CASE NotImplemented \/ ~Valid
  BY <1>2, <1>4 DEF Validate
<1>5. CASE ~(NotImplemented \/ ~Valid)
  <2>1. call.kind \notin {"reset", "repair"} /\ call.kind \in Kinds
    BY <1>1, <1>5 DEF NotImplemented, CallType
  <2>2. call.kind \notin Queries => N > 0
    BY <1>1, <1>5 DEF Valid, IInv, Facts, Checked, Single, CallType, Modes
  <2>3. call.kind \in {"ensure", "add", "stage"} => \A j \in 1 .. N : Uri(j) # 0
    <3>1. CASE call.mode = "set"
      BY <1>5, <3>1 DEF Valid
    <3>2. CASE call.mode # "set"
      <4>1. call.kind \in {"ensure", "add", "stage"} => N = 1 /\ Uri(1) # 0
        BY <1>1, <3>2 DEF IInv, Facts, Checked
      <4> QED BY <4>1
    <3> QED BY <3>1, <3>2
  <2>4. CASE call.kind \in Queries /\ N = 0
    <3>1. call' = Ended(call, "notReady") \/ call' = Ended(call, "no")
      <4>1. CASE call.kind = "isReady"
        <5>1. /\ (call.kind = "isReady" /\ N = 0) /\ ~(NotImplemented \/ ~Valid)
              /\ ~(call.kind = "isProvisioned" /\ N = 0) /\ call.kind # "ensure"
              /\ ~(call.kind \in {"isReady", "isProvisioned"} /\ N > 0)
          BY <1>5, <2>4, <4>1
        <5> QED BY <5>1 DEF Validate
      <4>2. CASE call.kind = "isProvisioned"
        <5>1. /\ (call.kind = "isProvisioned" /\ N = 0) /\ ~(NotImplemented \/ ~Valid)
              /\ ~(call.kind = "isReady" /\ N = 0) /\ call.kind # "ensure"
              /\ ~(call.kind \in {"isReady", "isProvisioned"} /\ N > 0)
          BY <1>5, <2>4, <4>2
        <5> QED BY <5>1 DEF Validate
      <4> QED BY <2>4, <4>1, <4>2 DEF Queries
    <3> QED BY <1>2, <2>4, <3>1
  <2>5. CASE call.kind \in Queries /\ N # 0
    <3>1. call' = [call EXCEPT !.pc = "check"]
      BY <1>1, <1>5, <2>5 DEF Validate, Queries
    <3>2. call' = [call EXCEPT !.pc = "check", !.progress = 0]
      BY <1>1, <3>1 DEF CallType
    <3>3. call.kind \notin {"ensure", "add", "stage", "reset", "repair"} /\ N > 0
      BY <1>1, <2>5 DEF Queries
    <3>4. 0 = IF call.kind = "ensure" THEN N ELSE IF call.kind \in Queries \/ Single THEN 0 ELSE 10 * N
      BY <2>5, <3>3
    <3>5. IF "check" = "check" THEN call.kind \in Queries \cup {"ensure"}
                              ELSE call.kind \notin Queries \cup {"ensure"}
      BY <2>5
    <3>6. "check" \in {"check", "item"} /\ 0 \in Nat
      OBVIOUS
    <3> QED BY <1>3, <3>2, <3>3, <3>4, <3>5, <3>6
  <2>6. CASE call.kind = "ensure"
    <3>1. call' = [call EXCEPT !.pc = "check", !.progress = N]
      BY <1>5, <2>6 DEF Validate
    <3> QED BY <1>1, <1>3, <2>1, <2>2, <2>3, <2>6, <3>1 DEF Queries
  <2>7. CASE call.kind \notin Queries \cup {"ensure"}
    <3>1. call' = [call EXCEPT !.pc = "item", !.progress = IF Single THEN 0 ELSE 10 * N]
      BY <1>5, <2>7 DEF Validate, Queries
    <3> DEFINE progress == IF Single THEN 0 ELSE 10 * N
    <3>2. progress \in Nat
      BY <1>1
    <3> HIDE DEF progress
    <3>3. call' = [call EXCEPT !.pc = "item", !.progress = progress]
      BY <3>1 DEF progress
    <3>4. progress = IF Single THEN 0 ELSE 10 * N
      BY DEF progress
    <3> QED BY <1>3, <2>1, <2>2, <2>3, <2>7, <3>2, <3>3, <3>4
  <2> QED BY <1>1, <2>2, <2>4, <2>5, <2>6, <2>7
<1> QED BY <1>4, <1>5

-----------------------------------------------------------------------------
(* A query looks at its items *)

\* The next item is looked at.
LEMMA NextItemKeeps ==
    ASSUME IInv, Still, NEW newer \in BOOLEAN, call.pc = "check", call.i < N,
           call' = [call EXCEPT !.i = call.i + 1, !.newer = newer],
           Found'
    PROVE  IInv'
<1>1. /\ call \in CallType /\ N \in Nat /\ N <= MaxItems /\ MaxItems \in Nat
      /\ call.i \in 1 .. MaxItems
  BY ItemFacts DEF IInv, TypeOK, CallType
<1>2. /\ call'.pc = "check" /\ call'.i = call.i + 1 /\ SameCall /\ call'.progress = call.progress
      /\ call'.todo = call.todo /\ call'.result = call.result
  BY <1>1 DEF SameCall, CallType
<1>3. call' \in CallType
  <2>1. call \in CallType /\ call.i + 1 \in 1 .. MaxItems
    BY <1>1
  <2> DEFINE next == call.i + 1
  <2> HIDE DEF next
  <2>2. next \in 1 .. MaxItems /\ call' = [call EXCEPT !.i = next, !.newer = newer]
    BY <2>1 DEF next
  <2>3. [call EXCEPT !.i = next, !.newer = newer] \in CallType
    BY <2>1, <2>2, Zenon DEF CallType
  <2> QED BY <2>2, <2>3
<1>4. /\ Remembers /\ Noticed' /\ N' = N /\ Single' = Single /\ \A j : Uri(j)' = Uri(j)
  <2>1. Remembers /\ Noticed'
    BY <1>2, StillFacts
  <2> QED BY <1>2, <2>1, AchievedStays
<1>5. TypeOK'
  <2>1. Len(call'.set.items) = N
    BY <1>4 DEF N
  <2> QED BY <1>1, <1>2, <1>3, <2>1 DEF IInv, TypeOK, Still
<1>6. Checked'
  BY <1>2, <1>4 DEF IInv, Facts, Checked, Working, SameCall
<1>7. Prefix'
  BY <1>1, <1>2 DEF IInv, Facts, Prefix, Still, Working
<1>8. Removing' /\ Asked' /\ Served'
  BY <1>2 DEF IInv, Facts, Removing, Asked, Served
<1>9. Progress'
  BY <1>2, <1>4 DEF IInv, Facts, Progress, SameCall
<1>10. (ProgressTold /\ SuccessMeansDone /\ FailureLeavesPrefix)'
  BY <1>2, <1>5 DEF IInv, Facts, Checked, ProgressTold, SuccessMeansDone, FailureLeavesPrefix
<1> QED BY <1>4, <1>5, <1>6, <1>7, <1>8, <1>9, <1>10 DEF IInv, Facts

\* EnsurePackageSetReadyAsync found something to do and begins with the first item.
LEMMA EnsureBegins ==
    ASSUME IInv, Still, call.pc = "check", call.kind = "ensure",
           call' = [call EXCEPT !.pc = "item", !.i = 1, !.progress = 10 * N],
           \A j \in 1 .. N : Uri(j) # 0
    PROVE  IInv'
<1>1. /\ call \in CallType /\ N \in Nat /\ N <= MaxItems /\ MaxItems \in Nat \ {0}
      /\ call.i \in 1 .. MaxItems /\ N > 0 /\ seen.asked = {} /\ call.mode = "set"
  BY ItemFacts DEF IInv, TypeOK, CallType, Facts, Checked, Prefix, Working
<1>2. /\ call'.pc = "item" /\ call'.i = 1 /\ SameCall /\ call'.progress = 10 * N
      /\ call'.todo = call.todo /\ call'.result = call.result
  BY <1>1 DEF SameCall, CallType
<1>3. call' \in CallType
  <2>1. call \in CallType /\ 1 \in 1 .. MaxItems /\ 10 * N \in 0 .. 200 * MaxItems
    BY <1>1
  <2> DEFINE progress == 10 * N
  <2> HIDE DEF progress
  <2>2. progress \in 0 .. 200 * MaxItems /\ call' = [call EXCEPT !.pc = "item", !.i = 1, !.progress = progress]
    BY <2>1 DEF progress
  <2>3. [call EXCEPT !.pc = "item", !.i = 1, !.progress = progress] \in CallType
    BY <2>1, <2>2, Zenon DEF CallType
  <2> QED BY <2>2, <2>3
<1>4. /\ Remembers /\ Noticed' /\ N' = N /\ Single' = Single /\ \A j : Uri(j)' = Uri(j)
  <2>1. Remembers /\ Noticed'
    BY <1>2, StillFacts
  <2> QED BY <1>2, <2>1, AchievedStays
<1>5. TypeOK'
  <2>1. Len(call'.set.items) = N
    BY <1>4 DEF N
  <2> QED BY <1>1, <1>2, <1>3, <2>1 DEF IInv, TypeOK, Still
<1>6. Checked'
  BY <1>1, <1>2, <1>4 DEF IInv, Facts, Checked, Working, SameCall, Queries
<1>7. Prefix'
  BY <1>1, <1>2 DEF IInv, Facts, Prefix, Still, Working
<1>8. Removing' /\ Asked' /\ Served' /\ Found'
  BY <1>2 DEF IInv, Facts, Removing, Asked, Served, Found
<1>9. Progress'
  BY <1>1, <1>2, <1>4 DEF IInv, Facts, Progress, SameCall, Begun, Single
<1>10. (ProgressTold /\ SuccessMeansDone /\ FailureLeavesPrefix)'
  BY <1>2, <1>5 DEF IInv, Facts, Checked, ProgressTold, SuccessMeansDone, FailureLeavesPrefix, SameCall
<1> QED BY <1>4, <1>5, <1>6, <1>7, <1>8, <1>9, <1>10 DEF IInv, Facts

LEMMA CheckReadyKeeps ==
    ASSUME IInv, CheckReady
    PROVE  IInv'
<1> DEFINE status == Status(It, repo)
           newer == call.newer \/ (call.option /\ status = "newer")
           answer == IF status = "notReady" THEN "notReady" ELSE IF newer THEN "newer" ELSE "ready"
           good == IF newer THEN {"ready", "newer"} ELSE Good(call.option)
<1>1. /\ call.pc = "check" /\ call.kind \in {"isReady", "ensure"} /\ Still
      /\ call \in CallType /\ N \in Nat /\ N > 0 /\ call.i \in 1 .. N /\ call.i <= N
      /\ call.newer \in BOOLEAN /\ call.option \in BOOLEAN /\ call.i \in Nat
      /\ status \in {"ready", "newer", "notReady"}
  BY ItemFacts DEF CheckReady, IInv, Facts, Checked, TypeOK, CallType, Still, Status, N
<1>2. <<call.i, status>> \in seen.status
  BY <1>1 DEF IInv, Facts, Noticed, It, Item
<1>3. /\ \A j \in 1 .. call.i - 1 : SeenStatus(j, IF call.newer THEN {"ready", "newer"} ELSE Good(call.option))
      /\ call.newer => call.option /\ \E j \in 1 .. call.i - 1 : SeenStatus(j, {"newer"})
  BY <1>1 DEF IInv, Facts, Found
<1>4. newer \in BOOLEAN
  BY <1>1
<1>5. status # "notReady" => \A j \in 1 .. call.i : SeenStatus(j, good)
  <2> SUFFICES ASSUME status # "notReady", NEW j \in 1 .. call.i PROVE SeenStatus(j, good)
    OBVIOUS
  <2>1. CASE j = call.i
    <3>1. status \in good
      BY <1>1 DEF Good
    <3> QED BY <1>2, <2>1, <3>1 DEF SeenStatus
  <2>2. CASE j # call.i
    <3>1. j \in 1 .. call.i - 1
      BY <1>1, <2>2
    <3>2. (IF call.newer THEN {"ready", "newer"} ELSE Good(call.option)) \subseteq good
      BY <1>1 DEF Good
    <3> QED BY <1>3, <3>1, <3>2 DEF SeenStatus
  <2> QED BY <2>1, <2>2
<1>6. newer => call.option /\ \E j \in 1 .. call.i : SeenStatus(j, {"newer"})
  <2>1. CASE call.newer
    <3>1. 1 .. call.i - 1 \subseteq 1 .. call.i
      BY <1>1
    <3> QED BY <1>3, <2>1, <3>1
  <2>2. CASE ~call.newer
    BY <1>1, <1>2, <2>2 DEF SeenStatus
  <2> QED BY <2>1, <2>2
<1>7. call' = IF status # "notReady" /\ call.i < N THEN [call EXCEPT !.i = call.i + 1, !.newer = newer]
              ELSE IF call.kind = "isReady" THEN Ended(call, answer)
              ELSE IF answer = "ready" THEN Ended(call, "success")
              ELSE [call EXCEPT !.pc = "item", !.i = 1, !.progress = 10 * N]
  BY Zenon DEF CheckReady
<1> HIDE DEF status, newer
<1>8. CASE status # "notReady" /\ call.i < N
  <2>1. call' = [call EXCEPT !.i = call.i + 1, !.newer = newer]
    BY <1>7, <1>8
  <2>2. /\ call'.i = call.i + 1 /\ call'.newer = newer /\ SameCall
    BY <1>1, <2>1 DEF CallType, SameCall
  <2>3. \A j, S : SeenStatus(j, S)' = SeenStatus(j, S)
    BY <1>1 DEF SeenStatus, Still
  <2>4. call'.i - 1 = call.i
    BY <1>1, <2>2
  <2>5. Found'
    <3>1. call'.kind # "isProvisioned"
      BY <1>1, <2>2 DEF SameCall
    <3>2. \A j \in 1 .. call.i : SeenStatus(j, IF newer THEN {"ready", "newer"} ELSE Good(call.option))
      BY <1>5, <1>8
    <3>3. Good(call.option)' = Good(call.option)
      BY <2>2 DEF SameCall, Good
    <3>4. \A j \in 1 .. call'.i - 1 : SeenStatus(j, IF call.newer THEN {"ready", "newer"} ELSE Good(call.option))'
      <4> SUFFICES ASSUME NEW j \in 1 .. call.i
                   PROVE  SeenStatus(j, IF call.newer THEN {"ready", "newer"} ELSE Good(call.option))'
        BY <2>4
      <4>1. (IF call.newer THEN {"ready", "newer"} ELSE Good(call.option))'
            = IF newer THEN {"ready", "newer"} ELSE Good(call.option)
        BY <2>2, <3>3
      <4>2. SeenStatus(j, IF newer THEN {"ready", "newer"} ELSE Good(call.option))
        BY <3>2
      <4> QED BY <1>1, <4>1, <4>2 DEF SeenStatus, Still
    <3>5. call'.newer => call'.option /\ \E j \in 1 .. call'.i - 1 : SeenStatus(j, {"newer"})'
      BY <1>6, <2>2, <2>3, <2>4 DEF SameCall
    <3> QED BY <3>1, <3>4, <3>5 DEF Found
  <2> QED BY <1>1, <1>4, <1>8, <2>1, <2>5, NextItemKeeps
<1>9. CASE ~(status # "notReady" /\ call.i < N)
  <2>1. status # "notReady" => call.i = N
    BY <1>1, <1>9
  <2>2. CASE call' = Ended(call, answer) /\ call.kind = "isReady"
    <3> DEFINE result == answer
    <3>1. /\ result \in {"ready", "newer", "notReady"}
          /\ result = "notReady" => status = "notReady"
          /\ result # "notReady" => status # "notReady" /\ (newer <=> result = "newer")
      OBVIOUS
    <3> HIDE DEF result
    <3>2. call' = Ended(call, result)
      BY <2>2 DEF result
    <3>3. call'.result = result /\ SameCall /\ call'.i = call.i
      BY <1>1, <3>2 DEF Ended, CallType, SameCall
    <3>4. /\ Remembers /\ N' = N /\ \A j, S : SeenStatus(j, S) => SeenStatus(j, S)'
      <4>1. Remembers
        BY <1>1, <3>3, StillFacts
      <4> QED BY <3>3, <4>1, AchievedStays
    <3>5. Good(call.option)' = Good(call.option)
      BY <3>3 DEF SameCall, Good
    <3>6. result = "ready" => \A j \in 1 .. N' : SeenStatus(j, Good(call.option))'
      <4> SUFFICES ASSUME result = "ready", NEW j \in 1 .. N PROVE SeenStatus(j, Good(call.option))'
        BY <3>4
      <4>1. SeenStatus(j, Good(call.option))
        BY <1>5, <2>1, <3>1
      <4> QED BY <1>1, <3>5, <4>1 DEF SeenStatus, Still
    <3>7. result = "newer" => /\ \A j \in 1 .. N' : SeenStatus(j, {"ready", "newer"})'
                              /\ \E j \in 1 .. N' : SeenStatus(j, {"newer"})'
      BY <1>5, <1>6, <2>1, <3>1, <3>4
    <3>8. result = "notReady" => \E j \in 1 .. N' : SeenStatus(j, {"notReady"})'
      <4> SUFFICES ASSUME result = "notReady" PROVE \E j \in 1 .. N' : SeenStatus(j, {"notReady"})'
        OBVIOUS
      <4>1. PICK j \in 1 .. N : j = call.i
        BY <1>1
      <4>2. SeenStatus(j, {"notReady"})
        BY <1>2, <3>1, <4>1 DEF SeenStatus
      <4> QED BY <3>4, <4>2
    <3>9. (SuccessMeansDone /\ FailureLeavesPrefix)'
      <4>1. result \notin {"success", "failure", "yes", "no"} /\ N' > 0
        BY <1>1, <3>1, <3>4
      <4> QED BY <3>3, <3>6, <3>7, <3>8, <4>1, Zenon DEF SuccessMeansDone, FailureLeavesPrefix
    <3> QED BY <1>1, <3>1, <3>2, <3>3, <3>9, EndedKeeps DEF Results
  <2>3. CASE call' = Ended(call, "success") /\ call.kind = "ensure" /\ answer = "ready"
    <3>1. call'.result = "success" /\ SameCall /\ call'.i = call.i
      BY <1>1, <2>3 DEF Ended, CallType, SameCall
    <3>2. N' = N /\ \A j : Achieved(j) => Achieved(j)'
      <4>1. Remembers
        BY <1>1, <3>1, StillFacts
      <4> QED BY <3>1, <4>1, AchievedStays
    <3>3. \A j \in 1 .. N : Achieved(j)
      BY <1>5, <2>1, <2>3 DEF Achieved
    <3>4. (SuccessMeansDone /\ FailureLeavesPrefix)'
      <4>1. N' > 0 /\ \A j \in 1 .. N' : Achieved(j)'
        BY <1>1, <3>2, <3>3
      <4> QED BY <3>1, <4>1, Zenon DEF SuccessMeansDone, FailureLeavesPrefix
    <3> QED BY <1>1, <2>3, <3>1, <3>4, EndedKeeps DEF Results
  <2>4. CASE call' = [call EXCEPT !.pc = "item", !.i = 1, !.progress = 10 * N] /\ call.kind = "ensure"
    <3>1. \A j \in 1 .. N : Uri(j) # 0
      BY <1>1, <2>4 DEF IInv, Facts, Checked
    <3> QED BY <1>1, <2>4, <3>1, EnsureBegins
  <2> QED BY <1>1, <1>7, <1>9, <2>2, <2>3, <2>4
<1> QED BY <1>8, <1>9

\* The family of an item that is provisioned, or is not, has been seen so.
LEMMA SeenNow ==
    ASSUME TypeOK, Noticed, call.pc \notin {"idle", "done"}, NEW f \in Families
    PROVE  /\ f \in provisioned => <<f, TRUE>> \in seen.provisioned
           /\ f \notin provisioned => <<f, FALSE>> \in seen.provisioned
<1>1. <<f, f \in provisioned>> \in seen.provisioned
  BY DEF Noticed
<1>2. CASE f \in provisioned
  <2>1. (f \in provisioned) = TRUE
    BY <1>2
  <2>2. <<f, TRUE>> \in seen.provisioned
    BY <1>1, <2>1, Zenon
  <2> QED BY <1>2, <2>2
<1>3. CASE f \notin provisioned
  <2>1. (f \in provisioned) = FALSE
    BY <1>3
  <2>2. <<f, FALSE>> \in seen.provisioned
    BY <1>1, <2>1, Zenon
  <2> QED BY <1>3, <2>2
<1> QED BY <1>2, <1>3

LEMMA CheckProvisionedKeeps ==
    ASSUME IInv, CheckProvisioned
    PROVE  IInv'
<1> DEFINE looked == IF call.mode = "set" THEN 1 .. N ELSE {call.i}
           all == \A j \in looked : Item(j).family \in provisioned
           InProvisioned(j) == <<Item(j).family, TRUE>> \in seen.provisioned
<1>1. /\ call.pc = "check" /\ call.kind = "isProvisioned" /\ Still
      /\ call \in CallType /\ N \in Nat /\ N > 0 /\ call.i \in 1 .. N /\ call.i <= N /\ call.i \in Nat
      /\ call.newer \in BOOLEAN /\ looked \subseteq 1 .. N
      /\ \A j \in 1 .. N : Item(j).family \in Families
  <2>1. /\ call.pc = "check" /\ call.kind = "isProvisioned" /\ Still
        /\ call \in CallType /\ call.i \in Nat /\ call.i >= 1 /\ call.newer \in BOOLEAN
    BY DEF CheckProvisioned, IInv, TypeOK, CallType, Still
  <2>2. N > 0 /\ call.i <= N
    BY <2>1 DEF IInv, TypeOK, Facts, Checked, N
  <2>3. N \in Nat /\ \A j \in 1 .. N : Item(j).family \in Families
    BY ItemFacts DEF IInv
  <2> QED BY <2>1, <2>2, <2>3
<1>2. /\ TypeOK /\ Noticed
      /\ \A j \in 1 .. call.i - 1 : InProvisioned(j)
  <2>1. TypeOK /\ Noticed /\ Found
    BY DEF IInv, Facts
  <2> QED BY <1>1, <2>1 DEF Found
<1>3. /\ \A j \in 1 .. N : Item(j).family \in provisioned => InProvisioned(j)
      /\ \A j \in 1 .. N : Item(j).family \notin provisioned => <<Item(j).family, FALSE>> \in seen.provisioned
  <2>1. call.pc \notin {"idle", "done"}
    BY <1>1
  <2> QED BY <1>1, <1>2, <2>1, SeenNow, Zenon
<1>4. call' = IF ~all THEN Ended(call, "no")
              ELSE IF N \in looked THEN Ended(call, "yes") ELSE [call EXCEPT !.i = call.i + 1]
  BY Zenon DEF CheckProvisioned
<1>5. ASSUME SameCall
      PROVE  N' = N /\ seen' = seen /\ \A j : Item(j)' = Item(j)
  <2>1. Remembers
    BY <1>1, <1>5, StillFacts
  <2> QED BY <1>1, <1>5, <2>1, AchievedStays DEF Still
<1>6. CASE ~all
  <2>1. call' = Ended(call, "no")
    BY <1>4, <1>6
  <2>2. call'.result = "no" /\ SameCall
    BY <1>1, <2>1 DEF Ended, CallType, SameCall
  <2>3. PICK j \in 1 .. N : <<Item(j).family, FALSE>> \in seen.provisioned
    BY <1>1, <1>3, <1>6
  <2>4. (\E k \in 1 .. N : <<Item(k).family, FALSE>> \in seen.provisioned)'
    BY <1>5, <2>2, <2>3, Zenon
  <2>5. (SuccessMeansDone /\ FailureLeavesPrefix)'
    BY <2>2, <2>4, Zenon DEF SuccessMeansDone, FailureLeavesPrefix
  <2> QED BY <1>1, <2>1, <2>2, <2>5, EndedKeeps DEF Results
<1>7. CASE all /\ N \in looked
  <2>1. call' = Ended(call, "yes")
    BY <1>4, <1>7
  <2>2. call'.result = "yes" /\ SameCall
    BY <1>1, <2>1 DEF Ended, CallType, SameCall
  <2>3. \A j \in 1 .. N : InProvisioned(j)
    <3> SUFFICES ASSUME NEW j \in 1 .. N PROVE InProvisioned(j)
      OBVIOUS
    <3>1. j \in looked \/ j \in 1 .. call.i - 1
      BY <1>1, <1>7
    <3> HIDE DEF looked, InProvisioned
    <3> QED BY <1>2, <1>3, <1>7, <3>1
  <2>4. (\A j \in 1 .. N : <<Item(j).family, TRUE>> \in seen.provisioned)'
    BY <1>5, <2>2, <2>3, Zenon
  <2>5. (SuccessMeansDone /\ FailureLeavesPrefix)'
    BY <2>2, <2>4, Zenon DEF SuccessMeansDone, FailureLeavesPrefix
  <2> QED BY <1>1, <2>1, <2>2, <2>5, EndedKeeps DEF Results
<1>8. CASE all /\ N \notin looked
  <2>1. call' = [call EXCEPT !.i = call.i + 1] /\ call.i < N /\ looked = {call.i}
    <3>1. call' = [call EXCEPT !.i = call.i + 1]
      <4> HIDE DEF looked, all
      <4> QED BY <1>4, <1>8
    <3> QED BY <1>1, <1>8, <3>1
  <2>2. call' = [call EXCEPT !.i = call.i + 1, !.newer = call.newer]
    BY <1>1, <2>1 DEF CallType
  <2>3. /\ call'.i = call.i + 1 /\ call'.newer = call.newer /\ SameCall
    BY <1>1, <2>1 DEF CallType, SameCall
  <2>4. \A j \in 1 .. call.i : InProvisioned(j)
    <3> SUFFICES ASSUME NEW j \in 1 .. call.i PROVE InProvisioned(j)
      OBVIOUS
    <3>1. j \in looked \/ j \in 1 .. call.i - 1
      BY <1>1, <2>1
    <3>2. j \in 1 .. N
      BY <1>1
    <3> HIDE DEF looked, InProvisioned
    <3> QED BY <1>2, <1>3, <1>8, <3>1, <3>2
  <2>5. Found'
    <3>1. call'.i - 1 = call.i /\ call'.kind = "isProvisioned"
      BY <1>1, <2>3 DEF SameCall
    <3>2. \A j \in 1 .. call'.i - 1 : <<Item(j)'.family, TRUE>> \in seen'.provisioned
      BY <1>5, <2>3, <2>4, <3>1, Zenon
    <3> QED BY <3>1, <3>2, Zenon DEF Found
  <2> QED BY <1>1, <2>1, <2>2, <2>5, NextItemKeeps
<1> QED BY <1>6, <1>7, <1>8

-----------------------------------------------------------------------------
(* The service is asked, or the answer is known without it *)

AskingFrom == {"item", "family"}

\* The service is asked for a package of the item.
LEMMA AskKeeps ==
    ASSUME IInv, call.pc \in AskingFrom,
           NEW p \in Packages, NEW todo \in SUBSET Packages, NEW share \in 0 .. 100, NEW before \in Nat,
           Ask([call EXCEPT !.todo = todo], p, share, before),
           share <= ItemShare,
           IF call.pc = "item" THEN before = call.progress ELSE before = call.before /\ share = call.share,
           todo # {} => call.pc = "family", todo \subseteq call.todo,
           RemovesFamily => call.pc = "family" /\ call.todo \ {p} \subseteq todo,
           call.kind \in {"ensure", "add", "stage"} => p = AtUri,
           call.kind = "register" =>
              IF call.mode = "fullName" THEN p = Named ELSE Uri(call.i) # 0 => p = AtUri,
           call.kind = "remove" => RemovesFamily \/ (call.mode = "fullName" /\ p = Named),
           p[1] = It.family
    PROVE  IInv'
<1> DEFINE c == [call EXCEPT !.todo = todo]
<1>1. /\ call \in CallType /\ N \in Nat /\ N > 0 /\ N <= MaxItems /\ MaxItems \in Nat
      /\ call.i \in Nat /\ call.i >= 1 /\ call.i <= N /\ call.progress \in Nat
      /\ call.progress <= 200 * MaxItems /\ ItemShare \in {90, 100}
  <2>1. call \in CallType /\ N \in Nat /\ N <= MaxItems /\ MaxItems \in Nat
    BY ItemFacts DEF IInv, TypeOK
  <2>2. call.i \in Nat /\ call.i >= 1 /\ call.progress \in Nat /\ call.progress <= 200 * MaxItems
    BY <2>1 DEF CallType
  <2>3. N > 0 /\ call.i <= N
    BY DEF IInv, TypeOK, Facts, Checked, N, AskingFrom
  <2> QED BY <2>1, <2>2, <2>3 DEF ItemShare
<1>2. before \in 0 .. 200 * MaxItems
  BY <1>1 DEF CallType
<1>3. /\ call' = [c EXCEPT !.pc = "deploying", !.pkg = p, !.share = share, !.before = before, !.activity = 0]
      /\ seen' = [seen EXCEPT !.asked = seen.asked \cup {c.i}]
      /\ UNCHANGED <<repo, provisioned, changes>>
  BY Zenon DEF Ask
<1>4. c \in CallType
  BY <1>1, Zenon DEF CallType
<1>5. c.i = call.i
  BY <1>1 DEF CallType
<1>6. call' \in CallType
  <2>1. 0 \in 0 .. MaxItems
    BY <1>1
  <2> HIDE DEF c
  <2>2. [c EXCEPT !.pc = "deploying", !.pkg = p, !.share = share, !.before = before, !.activity = 0] \in CallType
    BY <1>2, <1>4, <2>1, Zenon DEF CallType
  <2> QED BY <1>3, <2>2
<1>7. /\ call'.pc = "deploying" /\ call'.pkg = p /\ call'.share = share /\ call'.before = before
      /\ call'.activity = 0 /\ call'.todo = todo /\ SameCall /\ call'.i = call.i
      /\ call'.progress = call.progress /\ call'.result = call.result
  BY <1>1, <1>3 DEF CallType, SameCall
<1>8. /\ seen' \in SeenType /\ seen'.asked = seen.asked \cup {call.i}
      /\ seen'.states = seen.states /\ seen'.status = seen.status /\ seen'.provisioned = seen.provisioned
  <2>1. seen \in SeenType
    BY DEF IInv, TypeOK
  <2>2. seen.asked \cup {call.i} \in SUBSET (1 .. MaxItems)
    BY <1>1, <2>1 DEF SeenType
  <2> DEFINE asked == seen.asked \cup {call.i}
  <2> HIDE DEF asked
  <2>3. seen' = [seen EXCEPT !.asked = asked] /\ asked \in SUBSET (1 .. MaxItems)
    BY <1>3, <1>5, <2>2 DEF asked
  <2>4. [seen EXCEPT !.asked = asked] \in SeenType
    BY <2>1, <2>3 DEF SeenType
  <2> QED BY <2>1, <2>3, <2>4 DEF SeenType, asked
<1>9. Remembers
  BY <1>8 DEF Remembers
<1>10. /\ N' = N /\ Single' = Single /\ Adds' = Adds /\ ItemShare' = ItemShare
       /\ \A j : Item(j)' = Item(j) /\ Uri(j)' = Uri(j)
       /\ \A q : SeenGone(q) => SeenGone(q)'
       /\ \A j : Achieved(j) => Achieved(j)'
  BY <1>7, <1>9, AchievedStays
<1>11. TypeOK'
  <2>1. Len(call'.set.items) = N
    BY <1>10 DEF N
  <2> QED BY <1>1, <1>3, <1>6, <1>7, <1>8, <2>1 DEF IInv, TypeOK
<1>12. Noticed'
  <2>1. /\ \A q \in Packages : <<q, repo[q]>> \in seen.states
        /\ \A j \in 1 .. N : <<j, Status(Item(j), repo)>> \in seen.status
        /\ \A f \in Families : <<f, f \in provisioned>> \in seen.provisioned
    BY DEF IInv, Facts, Noticed, AskingFrom
  <2>2. \A j : Status(Item(j), repo)' = Status(Item(j), repo)
    BY <1>3, <1>10 DEF Status, IsReady, IsNewerAvailable
  <2>3. \A q \in Packages : <<q, repo'[q]>> \in seen'.states
    BY <1>3, <1>8, <2>1
  <2>4. \A j \in 1 .. N' : <<j, Status(Item(j), repo)'>> \in seen'.status
    BY <1>8, <1>10, <2>1, <2>2
  <2>5. \A f \in Families : <<f, f \in provisioned'>> \in seen'.provisioned
    BY <1>3, <1>8, <2>1, Zenon
  <2> QED BY <2>3, <2>4, <2>5, Zenon DEF Noticed
<1>13. Checked'
  BY <1>1, <1>7, <1>10 DEF IInv, Facts, Checked, Working, SameCall, AskingFrom
<1>14. Prefix'
  <2>1. \A j \in 1 .. call.i - 1 : Achieved(j)'
    BY <1>10 DEF IInv, Facts, Prefix, Working, AskingFrom
  <2>2. seen'.asked \subseteq 1 .. call'.i
    BY <1>1, <1>7, <1>8 DEF IInv, Facts, Prefix
  <2> QED BY <1>1, <1>7, <2>1, <2>2 DEF Prefix, Working
<1>15. It' = It /\ Uri(call.i)' = Uri(call.i) /\ AtUri' = AtUri /\ Named' = Named /\ RemovesFamily' = RemovesFamily
  BY <1>7, <1>10 DEF It, AtUri, Named, RemovesFamily, SameCall
<1>16. Asked'
  BY <1>7, <1>15 DEF Asked, SameCall
<1>17. Removing'
  <2>1. todo # {} => RemovesFamily /\ todo \subseteq Family(It.family)
    BY DEF IInv, Facts, Removing
  <2>2. RemovesFamily => \A q \in Family(It.family) : SeenGone(q) \/ q \in call.todo
    BY DEF IInv, Facts, Removing, AskingFrom
  <2>3. RemovesFamily => \A q \in Family(It.family) : SeenGone(q)' \/ q \in todo \/ q = p
    BY <1>10, <2>2
  <2>4. Family(It.family)' = Family(It.family)
    BY <1>15 DEF Family
  <2> QED BY <1>7, <1>15, <2>1, <2>3, <2>4 DEF Removing
<1>18. Progress'
  <2>1. call.pc = "item" => IF call.kind = "ensure" THEN call.progress <= Begun + (call.i - 1) * 90 ELSE call.progress = Begun
    BY DEF IInv, Facts, Progress
  <2>2. call.pc = "family" =>
           /\ IF call.kind = "ensure" THEN call.before <= Begun + (call.i - 1) * 90 ELSE call.before = Begun
           /\ IF Adds THEN call.progress \in call.before .. call.before + ItemShare
              ELSE call.progress \in 0 .. call.before + ItemShare
    BY DEF IInv, Facts, Progress
  <2>3. Begun' = Begun
    BY <1>7, <1>10 DEF Begun
  <2>4. call.pc = "item" \/ call.pc = "family"
    BY DEF AskingFrom
  <2>5. IF call.kind = "ensure" THEN before <= Begun + (call.i - 1) * 90 ELSE before = Begun
    BY <2>1, <2>2, <2>4
  <2>6. IF Adds THEN call.progress \in before .. before + ItemShare
        ELSE call.progress \in 0 .. before + ItemShare
    BY <1>1, <2>2, <2>4
  <2> QED BY <1>7, <1>10, <2>3, <2>5, <2>6 DEF Progress, SameCall
<1>19. ProgressTold'
  <2>1. Adds => call.progress \in before .. before + share
    <3>1. call.pc = "family" => ~Adds
      BY DEF IInv, Facts, Removing, RemovesFamily, Adds
    <3> QED BY <1>1, <3>1 DEF AskingFrom
  <2> QED BY <1>7, <1>10, <1>11, <2>1 DEF ProgressTold, IInv, Facts, Checked, AskingFrom
<1>20. call'.result = "none"
  BY <1>7 DEF IInv, Facts, Checked, AskingFrom
<1> QED BY <1>7, <1>11, <1>12, <1>13, <1>14, <1>16, <1>17, <1>18, <1>19, <1>20
        DEF IInv, Facts, Found, Served, SuccessMeansDone, FailureLeavesPrefix

\* The item is answered without the service being asked.
LEMMA AnswerKeeps ==
    ASSUME IInv, call.pc = "item", NEW answer \in {"ok", "failed"}, Answer(answer),
           RemovesFamily => answer = "failed" \/ \A p \in Family(It.family) : SeenGone(p),
           answer = "ok" => Achieved(call.i)
    PROVE  IInv'
<1>1. /\ call \in CallType /\ N \in Nat /\ N > 0 /\ N <= MaxItems /\ MaxItems \in Nat
      /\ call.i \in Nat /\ call.i >= 1 /\ call.i <= N /\ call.progress \in Nat
      /\ call.progress <= 200 * MaxItems /\ ItemShare \in {90, 100} /\ call.todo = {}
      /\ call.share \in Nat
  <2>1. call \in CallType /\ N \in Nat /\ N <= MaxItems /\ MaxItems \in Nat
    BY ItemFacts DEF IInv, TypeOK
  <2>2. /\ call.i \in Nat /\ call.i >= 1 /\ call.progress \in Nat /\ call.progress <= 200 * MaxItems
        /\ call.share \in Nat
    BY <2>1 DEF CallType
  <2>3. N > 0 /\ call.i <= N /\ call.todo = {}
    BY DEF IInv, TypeOK, Facts, Checked, Removing, N
  <2> QED BY <2>1, <2>2, <2>3 DEF ItemShare
<1>2. /\ call' = [call EXCEPT !.pc = "answered", !.answer = answer, !.before = call.progress, !.activity = 0]
      /\ Still
  BY DEF Answer, Still
<1>3. call' \in CallType
  <2>1. 0 \in 0 .. MaxItems /\ call.progress \in 0 .. 200 * MaxItems
    BY <1>1
  <2>2. [call EXCEPT !.pc = "answered", !.answer = answer, !.before = call.progress, !.activity = 0] \in CallType
    BY <1>1, <2>1, Zenon DEF CallType
  <2> QED BY <1>2, <2>2
<1>4. /\ call'.pc = "answered" /\ call'.before = call.progress /\ call'.answer = answer
      /\ call'.activity = 0 /\ call'.todo = {} /\ SameCall /\ call'.i = call.i
      /\ call'.progress = call.progress /\ call'.result = call.result /\ call'.share = call.share
  BY <1>1, <1>2 DEF CallType, SameCall
<1>5. Remembers /\ Noticed'
  BY <1>2, <1>4, StillFacts
<1>6. /\ N' = N /\ Single' = Single /\ Adds' = Adds /\ ItemShare' = ItemShare
      /\ \A j : Item(j)' = Item(j) /\ Uri(j)' = Uri(j)
      /\ \A q : SeenGone(q) => SeenGone(q)'
      /\ \A j : Achieved(j) => Achieved(j)'
  BY <1>4, <1>5, AchievedStays
<1>7. TypeOK'
  <2>1. Len(call'.set.items) = N
    BY <1>6 DEF N
  <2> QED BY <1>1, <1>2, <1>3, <1>4, <2>1 DEF IInv, TypeOK, Still
<1>8. Checked'
  BY <1>1, <1>4, <1>6 DEF IInv, Facts, Checked, Working, SameCall
<1>9. Prefix'
  <2>1. \A j \in 1 .. call.i - 1 : Achieved(j)'
    BY <1>6 DEF IInv, Facts, Prefix, Working
  <2> QED BY <1>1, <1>2, <1>4, <2>1 DEF IInv, Facts, Prefix, Working, Still
<1>10. It' = It /\ Uri(call.i)' = Uri(call.i) /\ RemovesFamily' = RemovesFamily
  BY <1>4, <1>6 DEF It, RemovesFamily, SameCall
<1>11. Removing'
  <2>1. RemovesFamily => answer = "failed" \/ \A q \in Family(It.family) : SeenGone(q)'
    BY <1>6
  <2>3. answer = "failed" => ~Succeeded'
    BY <1>4 DEF Succeeded
  <2>2. Family(It.family)' = Family(It.family)
    BY <1>10 DEF Family
  <2> QED BY <1>4, <1>10, <2>1, <2>2, <2>3 DEF Removing
<1>12. Served'
  <2>1. Succeeded' => answer = "ok"
    BY <1>4 DEF Succeeded
  <2>2. \A j : call.i = j /\ answer = "ok" => Achieved(j)'
    BY <1>6
  <2>3. answer = "ok" => Achieved(call.i)'
    BY <1>4, <2>2
  <2> QED BY <2>1, <2>3 DEF Served
<1>13. Progress'
  <2>1. IF call.kind = "ensure" THEN call.progress <= Begun + (call.i - 1) * 90 ELSE call.progress = Begun
    BY DEF IInv, Facts, Progress
  <2>2. Begun' = Begun
    BY <1>4, <1>6 DEF Begun
  <2> QED BY <1>1, <1>4, <1>6, <2>1, <2>2 DEF Progress, SameCall
<1>14. ProgressTold'
  BY <1>1, <1>4, <1>6, <1>7 DEF ProgressTold, IInv, Facts, Checked
<1>15. call'.result = "none"
  BY <1>4 DEF IInv, Facts, Checked
<1> QED BY <1>4, <1>5, <1>7, <1>8, <1>9, <1>11, <1>12, <1>13, <1>14, <1>15
        DEF IInv, Facts, Found, Asked, SuccessMeansDone, FailureLeavesPrefix

\* The present item, as a member of its set.
LEMMA PresentItem ==
    ASSUME IInv, call.pc \in Working
    PROVE  /\ call.i \in 1 .. N /\ It.family \in Families /\ Named \in Packages /\ Named[1] = It.family
           /\ Uri(call.i) # 0 => AtUri \in Packages /\ AtUri[1] = It.family
           /\ Family(It.family) \subseteq Packages
           /\ \A p \in Family(It.family) : p[1] = It.family
           /\ IsFiniteSet(Family(It.family))
<1>1. call.i \in 1 .. N
  <2>1. call.i \in Nat /\ call.i >= 1 /\ N \in Nat
    BY ItemFacts DEF IInv, TypeOK, CallType
  <2>2. call.i <= N
    BY DEF IInv, TypeOK, Working, N
  <2> QED BY <2>1, <2>2
<1>2. It \in PackageItems /\ It.family \in Families /\ Named \in Packages /\ Named[1] = It.family
      /\ (Uri(call.i) # 0 => AtUri \in Packages /\ AtUri[1] = It.family)
  BY <1>1, ItemFacts DEF IInv, It, Named, AtUri, Item
<1> QED BY <1>1, <1>2, FamilyFacts

\* Everything asked for by name or URI.
LEMMA AskForKeeps ==
    ASSUME IInv, call.pc = "item", ~RemovesFamily, NEW p \in Packages, AskFor(p), p[1] = It.family,
           call.kind \in {"ensure", "add", "stage"} => p = AtUri,
           call.kind = "register" =>
              IF call.mode = "fullName" THEN p = Named ELSE Uri(call.i) # 0 => p = AtUri,
           call.kind = "remove" => call.mode = "fullName" /\ p = Named
    PROVE  IInv'
<1>1. /\ call \in CallType /\ call.todo = {} /\ call.progress \in Nat /\ ItemShare \in 0 .. 100
      /\ call.pc \in AskingFrom
  BY DEF IInv, TypeOK, CallType, Facts, Removing, ItemShare, AskingFrom
<1> DEFINE none == {}
<1>2. none \in SUBSET Packages /\ none = {} /\ none \subseteq call.todo
  OBVIOUS
<1>3. Ask([call EXCEPT !.todo = {}], p, ItemShare, call.progress)
  <2>1. call = [call EXCEPT !.todo = {}]
    BY <1>1 DEF CallType
  <2> QED BY <2>1, Zenon DEF AskFor
<1>4. ItemShare <= ItemShare
  BY <1>1
<1> QED BY <1>1, <1>2, <1>3, <1>4, AskKeeps

LEMMA EnsureReadyAsyncKeeps ==
    ASSUME IInv, EnsureReadyAsync
    PROVE  IInv'
<1>1. call.pc = "item" /\ call.kind = "ensure" /\ call.pc \in Working /\ ~RemovesFamily
  BY DEF EnsureReadyAsync, At, Working, RemovesFamily
<1>2. call.i \in 1 .. N /\ Uri(call.i) # 0 /\ AtUri \in Packages /\ AtUri[1] = It.family
  BY <1>1, PresentItem DEF IInv, Facts, Checked
<1>3. CASE Status(It, repo) \in Good(call.option) /\ Answer("ok")
  <2>1. <<call.i, Status(It, repo)>> \in seen.status
    BY <1>1, <1>2 DEF IInv, Facts, Noticed, It
  <2>2. Achieved(call.i)
    BY <1>1, <1>3, <2>1 DEF Achieved, SeenStatus
  <2> QED BY <1>1, <1>3, <2>2, AnswerKeeps
<1>4. CASE AskFor(AtUri)
  BY <1>1, <1>2, <1>4, AskForKeeps
<1> QED BY <1>3, <1>4 DEF EnsureReadyAsync

LEMMA AskingKeeps ==
    ASSUME IInv,
           \/ AddPackage \/ StagePackage \/ RegisterPackage \/ RegisterPackageByPackageFullName
           \/ ProvisionPackageByFamilyName \/ DeprovisionPackageByFamilyName
    PROVE  IInv'
<1>1. /\ call.pc = "item" /\ call.pc \in Working /\ ~RemovesFamily
      /\ call.kind \notin {"ensure", "remove"}
  BY DEF AddPackage, StagePackage, RegisterPackage, RegisterPackageByPackageFullName,
         ProvisionPackageByFamilyName, DeprovisionPackageByFamilyName, At, Working, RemovesFamily
<1>2. /\ call.i \in 1 .. N /\ Named \in Packages /\ Named[1] = It.family
      /\ Uri(call.i) # 0 => AtUri \in Packages /\ AtUri[1] = It.family
  BY <1>1, PresentItem
<1>3. CASE AddPackage \/ StagePackage
  <2>1. call.kind \in {"add", "stage"} /\ AskFor(AtUri)
    BY <1>3 DEF AddPackage, StagePackage, At
  <2>2. Uri(call.i) # 0
    BY <1>1, <1>2, <2>1 DEF IInv, Facts, Checked
  <2> QED BY <1>1, <1>2, <2>1, <2>2, AskForKeeps
<1>4. CASE RegisterPackage
  <2>1. call.kind = "register" /\ call.mode # "fullName" /\ Uri(call.i) # 0 /\ AskFor(AtUri)
    BY <1>4 DEF RegisterPackage, At
  <2> QED BY <1>1, <1>2, <2>1, AskForKeeps
<1>5. CASE RegisterPackageByPackageFullName
  <2>1. call.kind = "register" /\ call.mode = "fullName" /\ AskFor(Named)
    BY <1>5 DEF RegisterPackageByPackageFullName, At
  <2> QED BY <1>1, <1>2, <2>1, AskForKeeps
<1>6. CASE ProvisionPackageByFamilyName \/ DeprovisionPackageByFamilyName
  <2>1. call.kind \in {"provision", "deprovision"} /\ AskFor(Named)
    BY <1>6 DEF ProvisionPackageByFamilyName, DeprovisionPackageByFamilyName, At
  <2> QED BY <1>1, <1>2, <2>1, AskForKeeps
<1> QED BY <1>3, <1>4, <1>5, <1>6

LEMMA RegisterByFamilyNameKeeps ==
    ASSUME IInv, RegisterPackageByPackageFamilyName
    PROVE  IInv'
<1>1. /\ call.pc = "item" /\ call.kind = "register" /\ call.pc \in Working /\ ~RemovesFamily
      /\ call.mode # "fullName" /\ Uri(call.i) = 0
  BY DEF RegisterPackageByPackageFamilyName, At, Working, RemovesFamily
<1>2. CASE \E p \in Family(It.family) : AskFor(p)
  <2>1. PICK p \in Family(It.family) : AskFor(p)
    BY <1>2
  <2>2. p \in Packages /\ p[1] = It.family
    BY <1>1, PresentItem
  <2> QED BY <1>1, <2>1, <2>2, AskForKeeps
<1>3. CASE Answer("failed")
  BY <1>1, <1>3, AnswerKeeps
<1> QED BY <1>2, <1>3 DEF RegisterPackageByPackageFamilyName

LEMMA RemovePackageKeeps ==
    ASSUME IInv, RemovePackage
    PROVE  IInv'
<1>1. call.pc = "item" /\ ~RemovesFamily /\ Answer("failed")
  BY DEF RemovePackage, At, RemovesFamily
<1> QED BY <1>1, AnswerKeeps

\* A package that is not registered has been seen so.
LEMMA GoneNow ==
    ASSUME IInv, call.pc \notin {"idle", "done"}, NEW p \in Packages, repo[p] # "registered"
    PROVE  SeenGone(p)
<1>1. <<p, repo[p]>> \in seen.states /\ repo[p] \in {"absent", "staged"}
  BY DEF IInv, Facts, Noticed, TypeOK, States
<1> QED BY <1>1 DEF SeenGone

LEMMA RemoveByFamilyNameKeeps ==
    ASSUME IInv, RemovePackageByFamilyName
    PROVE  IInv'
<1> DEFINE found == Registered(It.family)
<1>1. /\ call.pc = "item" /\ call.kind = "remove" /\ call.pc \in Working /\ RemovesFamily
  BY DEF RemovePackageByFamilyName, At, Working, RemovesFamily
<1>2. /\ call.i \in 1 .. N /\ found \subseteq Packages /\ found \subseteq Family(It.family) /\ IsFiniteSet(found)
      /\ Family(It.family) \subseteq Packages
  BY <1>1, PresentItem, FS_Subset DEF Registered
<1>3. \A p \in Family(It.family) : SeenGone(p) \/ p \in found
  BY <1>1, <1>2, GoneNow DEF Registered
<1>4. CASE found = {} /\ Answer(IF call.option THEN "failed" ELSE "ok")
  <2> DEFINE answer == IF call.option THEN "failed" ELSE "ok"
  <2>1. answer \in {"ok", "failed"} /\ Answer(answer)
    BY <1>4
  <2>2. \A p \in Family(It.family) : SeenGone(p)
    BY <1>3, <1>4
  <2>3. Achieved(call.i)
    BY <1>1, <2>2 DEF Achieved, RemovesFamily, It
  <2> HIDE DEF answer
  <2> QED BY <1>1, <2>1, <2>2, <2>3, AnswerKeeps
<1>5. ASSUME found # {},
             call' = [call EXCEPT !.pc = "family", !.todo = found, !.before = call.progress,
                                  !.share = ItemShare \div Cardinality(found)],
             Still
      PROVE  IInv'
  <2>1. /\ call \in CallType /\ N \in Nat /\ N > 0 /\ N <= MaxItems /\ MaxItems \in Nat
        /\ call.i \in Nat /\ call.i >= 1 /\ call.i <= N /\ call.progress \in Nat
        /\ call.progress <= 200 * MaxItems /\ ItemShare \in {90, 100}
    <3>1. call \in CallType /\ N \in Nat /\ N <= MaxItems /\ MaxItems \in Nat
      BY ItemFacts DEF IInv, TypeOK
    <3>2. call.progress \in Nat /\ call.progress <= 200 * MaxItems
      BY <3>1 DEF CallType
    <3> QED BY <1>2, <3>1, <3>2 DEF ItemShare
  <2> DEFINE share == ItemShare \div Cardinality(found)
  <2>2. share \in 0 .. 100 /\ share <= ItemShare
    <3>1. Cardinality(found) \in Nat /\ Cardinality(found) # 0
      BY <1>2, <1>5, FS_CardinalityType, FS_EmptySet
    <3> DEFINE n == Cardinality(found)
    <3> HIDE DEF n
    <3>2. n \in Nat /\ n # 0
      BY <3>1 DEF n
    <3>3. \A m \in {90, 100} : m \div n \in 0 .. 100 /\ m \div n <= m
      BY <3>2
    <3> QED BY <2>1, <3>3 DEF n
  <2> HIDE DEF share
  <2>3. call' = [call EXCEPT !.pc = "family", !.todo = found, !.before = call.progress, !.share = share]
    BY <1>5 DEF share
  <2>4. call' \in CallType
    <3>1. call.progress \in 0 .. 200 * MaxItems /\ found \in SUBSET Packages
      BY <1>2, <2>1
    <3> HIDE DEF found
    <3>2. [call EXCEPT !.pc = "family", !.todo = found, !.before = call.progress, !.share = share] \in CallType
      BY <2>1, <2>2, <3>1, Zenon DEF CallType
    <3> QED BY <2>3, <3>2
  <2>5. /\ call'.pc = "family" /\ call'.before = call.progress /\ call'.share = share
        /\ call'.todo = found /\ SameCall /\ call'.i = call.i
        /\ call'.progress = call.progress /\ call'.result = call.result
    BY <2>1, <2>3 DEF CallType, SameCall
  <2>6. Remembers /\ Noticed'
    BY <1>1, <1>5, <2>5, StillFacts
  <2>7. /\ N' = N /\ Single' = Single /\ Adds' = Adds /\ ItemShare' = ItemShare
        /\ \A j : Item(j)' = Item(j) /\ Uri(j)' = Uri(j)
        /\ \A q : SeenGone(q) => SeenGone(q)'
        /\ \A j : Achieved(j) => Achieved(j)'
    BY <2>5, <2>6, AchievedStays
  <2>8. TypeOK'
    <3>1. Len(call'.set.items) = N
      BY <2>7 DEF N
    <3> QED BY <1>5, <2>1, <2>4, <2>5, <3>1 DEF IInv, TypeOK, Still
  <2>9. Checked'
    BY <1>1, <2>1, <2>5, <2>7 DEF IInv, Facts, Checked, Working, SameCall
  <2>10. Prefix'
    <3>1. \A j \in 1 .. call.i - 1 : Achieved(j)'
      BY <1>1, <2>7 DEF IInv, Facts, Prefix
    <3> QED BY <1>5, <2>1, <2>5, <3>1 DEF IInv, Facts, Prefix, Working, Still
  <2>11. It' = It /\ RemovesFamily' = RemovesFamily /\ Family(It.family)' = Family(It.family)
    BY <2>5, <2>7 DEF It, RemovesFamily, SameCall, Family
  <2>12. Removing'
    <3>1. \A q \in Family(It.family) : SeenGone(q)' \/ q \in found
      BY <1>3, <2>7
    <3> QED BY <1>1, <1>2, <2>5, <2>11, <3>1 DEF Removing
  <2>13. Progress'
    <3>1. call.progress = Begun
      BY <1>1 DEF IInv, Facts, Progress
    <3>2. Begun' = Begun
      BY <2>5, <2>7 DEF Begun
    <3> QED BY <1>1, <2>1, <2>2, <2>5, <2>7, <3>1, <3>2 DEF Progress, SameCall
  <2>14. ProgressTold'
    BY <1>1, <2>5, <2>7, <2>8 DEF ProgressTold, IInv, Facts, Checked
  <2>15. call'.result = "none"
    BY <1>1, <2>5 DEF IInv, Facts, Checked
  <2> QED BY <2>5, <2>6, <2>8, <2>9, <2>10, <2>12, <2>13, <2>14, <2>15
          DEF IInv, Facts, Found, Asked, Served, SuccessMeansDone, FailureLeavesPrefix
<1> QED BY <1>4, <1>5 DEF RemovePackageByFamilyName, Still

LEMMA RemoveByFullNameKeeps ==
    ASSUME IInv, RemovePackageByFullName
    PROVE  IInv'
<1>1. CASE At("remove") /\ call.mode = "fullName" /\ AskFor(Named)
  <2>1. call.pc = "item" /\ call.kind = "remove" /\ call.pc \in Working /\ ~RemovesFamily
    BY <1>1 DEF At, Working, RemovesFamily
  <2>2. Named \in Packages /\ Named[1] = It.family
    BY <2>1, PresentItem
  <2> QED BY <1>1, <2>1, <2>2, AskForKeeps
<1>2. ASSUME call.pc = "family", NEW p \in call.todo,
             Ask([call EXCEPT !.todo = call.todo \ {p}], p, call.share, call.before)
      PROVE  IInv'
  <2>1. /\ call \in CallType /\ call.pc \in Working /\ call.pc \in AskingFrom /\ RemovesFamily /\ call.kind = "remove"
    BY <1>2 DEF IInv, TypeOK, Working, AskingFrom, Facts, Removing, RemovesFamily
  <2>2. /\ call.todo \in SUBSET Packages /\ call.todo \ {p} \in SUBSET Packages
        /\ call.share \in 0 .. 100 /\ call.before \in Nat /\ call.share <= ItemShare
    <3>1. call.todo \in SUBSET Packages /\ call.share \in 0 .. 100 /\ call.before \in 0 .. 200 * MaxItems
      BY <2>1 DEF CallType
    <3>2. call.share <= ItemShare
      BY <1>2 DEF IInv, Facts, Progress
    <3> QED BY <3>1, <3>2
  <2>3. p \in Packages /\ p[1] = It.family
    <3>1. call.todo \subseteq Family(It.family)
      BY <1>2 DEF IInv, Facts, Removing
    <3> QED BY <1>2, <2>1, <2>2, <3>1, PresentItem
  <2> DEFINE todo == call.todo \ {p}
  <2>4. todo \in SUBSET Packages /\ call.todo \ {p} \subseteq todo /\ todo \subseteq call.todo
    BY <2>2
  <2>5. Ask([call EXCEPT !.todo = todo], p, call.share, call.before)
    BY <1>2, Zenon
  <2> HIDE DEF todo
  <2> QED BY <1>2, <2>1, <2>2, <2>3, <2>4, <2>5, AskKeeps
<1> QED BY <1>1, <1>2, Zenon DEF RemovePackageByFullName

-----------------------------------------------------------------------------
(* The service answers *)

\* What was seen of the package the service worked on makes the item done.
LEMMA DoneNow ==
    ASSUME IInv, call.pc = "deploying", SameCall, Remembers, call'.i = call.i,
           call.kind = "ensure" => <<call.pkg, "registered">> \in seen'.states,
           call.kind \in {"add", "register"} => SeenRegistered(call.pkg)',
           call.kind = "stage" => SeenRegistered(call.pkg)' \/ <<call.pkg, "staged">> \in seen'.states,
           call.kind = "remove" => SeenGone(call.pkg)' /\ call.todo = {},
           call.kind = "provision" => <<call.pkg[1], TRUE>> \in seen'.provisioned,
           call.kind = "deprovision" => <<call.pkg[1], FALSE>> \in seen'.provisioned,
           call'.pkg = call.pkg
    PROVE  Achieved(call.i)'
<1>1. PICK j \in 1 .. N : j = call.i
  BY PresentItem DEF Working
<1> DEFINE f == Item(j).family
           p == call.pkg
<1>2. /\ N' = N /\ Item(j)' = Item(j) /\ Uri(j)' = Uri(j) /\ It = Item(j)
      /\ \A q : SeenGone(q) => SeenGone(q)'
  BY <1>1, AchievedStays DEF It
<1>3. /\ p \in Packages /\ p[1] = f
      /\ f \in Families /\ Family(f) \subseteq Packages
      /\ call.kind \in {"ensure", "add", "stage"} => p = <<f, Uri(j)>>
      /\ call.kind = "register" =>
              IF call.mode = "fullName" THEN p = <<f, Item(j).min>>
              ELSE Uri(j) # 0 => p = <<f, Uri(j)>>
      /\ call.kind = "remove" => RemovesFamily \/ (call.mode = "fullName" /\ p = <<f, Item(j).min>>)
  <2>1. call.pkg \in Packages
    BY DEF IInv, TypeOK, CallType
  <2>2. f \in Families /\ Family(f) \subseteq Packages
    BY <1>2, PresentItem DEF Working
  <2> QED BY <1>1, <1>2, <2>1, <2>2 DEF IInv, Facts, Asked, AtUri, Named
<1>4. SeenRegistered(p)' = \E v \in Versions : v >= p[2] /\ <<<<p[1], v>>, "registered">> \in seen'.states
  BY DEF SeenRegistered
<1>5. call.kind = "register" /\ Uri(j) = 0 => \E q \in Family(f) : <<q, "registered">> \in seen'.states
  <2> SUFFICES ASSUME call.kind = "register" PROVE \E q \in Family(f) : <<q, "registered">> \in seen'.states
    OBVIOUS
  <2>1. PICK v \in Versions : <<<<p[1], v>>, "registered">> \in seen'.states
    BY <1>4
  <2>2. <<p[1], v>> \in Family(f)
    BY <1>3 DEF Family
  <2> QED BY <2>1, <2>2
<1>6. call.kind = "remove" /\ RemovesFamily => \A q \in Family(f) : SeenGone(q)'
  <2> SUFFICES ASSUME call.kind = "remove", RemovesFamily, NEW q \in Family(f) PROVE SeenGone(q)'
    OBVIOUS
  <2>1. SeenGone(q) \/ q = p
    BY <1>2 DEF IInv, Facts, Removing
  <2> QED BY <1>2, <2>1 DEF SeenGone
<1>7. call.kind = "remove" /\ ~RemovesFamily => call.mode = "fullName" /\ \E s \in {"absent", "staged"} : <<<<f, Item(j).min>>, s>> \in seen'.states
  BY <1>2, <1>3 DEF SeenGone
<1>8. RemovesFamily <=> call.kind = "remove" /\ call.mode # "fullName" /\ Uri(j) = 0
  BY <1>1 DEF RemovesFamily
<1> HIDE DEF f, p
<1>9. Item(j)'.family = f /\ Item(j)'.min = Item(j).min
  BY <1>2 DEF f
<1>10. CASE call.kind = "ensure"
  BY <1>1, <1>2, <1>3, <1>9, <1>10 DEF Achieved, SameCall, p
<1>11. CASE call.kind = "add"
  BY <1>1, <1>2, <1>3, <1>9, <1>11 DEF Achieved, SameCall, p, SeenRegistered
<1>12. CASE call.kind = "stage"
  BY <1>1, <1>2, <1>3, <1>9, <1>12 DEF Achieved, SameCall, p, SeenRegistered
<1>13. CASE call.kind = "register"
  BY <1>1, <1>2, <1>3, <1>5, <1>9, <1>13 DEF Achieved, SameCall, p, SeenRegistered, Family
<1>14. CASE call.kind = "remove"
  <2>1. /\ call'.kind = "remove" /\ call'.mode = call.mode /\ Uri(j)' = Uri(j)
        /\ Item(j)'.family = f /\ Item(j)'.min = Item(j).min
    BY <1>2, <1>9, <1>14 DEF SameCall
  <2>2. CASE RemovesFamily
    <3>1. \A q \in Family(f) : SeenGone(q)'
      BY <1>6, <1>14, <2>2
    <3>2. call'.mode # "fullName" /\ Uri(j)' = 0
      BY <1>8, <2>1, <2>2
    <3>3. Achieved(j)'
      BY <2>1, <3>1, <3>2 DEF Achieved, SeenGone, Family
    <3> QED BY <1>1, <3>3
  <2>3. CASE ~RemovesFamily
    <3>1. call'.mode = "fullName" /\ \E s \in {"absent", "staged"} : <<<<f, Item(j).min>>, s>> \in seen'.states
      BY <1>7, <1>14, <2>1, <2>3
    <3>2. Achieved(j)'
      BY <2>1, <3>1 DEF Achieved, SeenGone, Family
    <3> QED BY <1>1, <3>2
  <2> QED BY <2>2, <2>3
<1>15. CASE call.kind = "provision"
  BY <1>1, <1>2, <1>3, <1>9, <1>15, Zenon DEF Achieved, SameCall, p
<1>16. CASE call.kind = "deprovision"
  BY <1>1, <1>2, <1>3, <1>9, <1>16, Zenon DEF Achieved, SameCall, p
<1> QED BY <1>10, <1>11, <1>12, <1>13, <1>14, <1>15, <1>16 DEF Achieved, SameCall

\* The service finishes an operation.
LEMMA FinishKeeps ==
    ASSUME IInv, call.pc = "deploying",
           NEW answer \in {"ok", "downgrade", "notFound", "failed", "thrown"},
           NEW r \in [Packages -> States], NEW prov \in SUBSET Families,
           Finish(answer, r, prov),
           Succeeded' /\ call.todo = {} => Achieved(call.i)',
           Succeeded' /\ RemovesFamily => SeenGone(call.pkg)'
    PROVE  IInv'
<1>1. /\ call \in CallType /\ N \in Nat /\ N > 0 /\ N <= MaxItems /\ MaxItems \in Nat
      /\ call.i \in Nat /\ call.i >= 1 /\ call.i <= N /\ seen \in SeenType /\ call.set \in PackageSets
  <2>1. call \in CallType /\ N \in Nat /\ N <= MaxItems /\ MaxItems \in Nat /\ seen \in SeenType
    BY ItemFacts DEF IInv, TypeOK
  <2>2. call.set \in PackageSets
    BY <2>1 DEF CallType
  <2>3. N > 0
    BY DEF IInv, Facts, Checked
  <2> QED BY <2>1, <2>2, <2>3, PresentItem DEF Working
<1> DEFINE activity == IF answer = "thrown" THEN 0 ELSE call.i
<1>2. activity \in 0 .. MaxItems /\ activity \in {0, call.i}
  BY <1>1
<1>3. /\ call' = [call EXCEPT !.pc = "answered", !.answer = answer, !.activity = activity]
      /\ seen' = Noted(seen, call.set, r, prov) /\ repo' = r /\ provisioned' = prov /\ changes' = changes
  BY Zenon DEF Finish
<1> HIDE DEF activity
<1>4. call' \in CallType
  <2>1. [call EXCEPT !.pc = "answered", !.answer = answer, !.activity = activity] \in CallType
    BY <1>1, <1>2, Zenon DEF CallType
  <2> QED BY <1>3, <2>1
<1>5. /\ call'.pc = "answered" /\ call'.answer = answer /\ call'.activity = activity
      /\ call'.before = call.before /\ call'.share = call.share /\ call'.todo = call.todo
      /\ SameCall /\ call'.i = call.i /\ call'.pkg = call.pkg
      /\ call'.progress = call.progress /\ call'.result = call.result
  BY <1>1, <1>3 DEF CallType, SameCall
<1>6. /\ seen' \in SeenType /\ seen'.asked = seen.asked /\ Remembers
      /\ \A p \in Packages : <<p, r[p]>> \in seen'.states
      /\ \A j \in 1 .. Len(call.set.items) : <<j, Status(call.set.items[j], r)>> \in seen'.status
      /\ \A f \in Families : <<f, f \in prov>> \in seen'.provisioned
  BY <1>1, <1>3, NotedFacts DEF Remembers
<1>7. /\ N' = N /\ Single' = Single /\ Adds' = Adds /\ ItemShare' = ItemShare
      /\ \A j : Item(j)' = Item(j) /\ Uri(j)' = Uri(j)
      /\ \A q : SeenGone(q) => SeenGone(q)'
      /\ \A j : Achieved(j) => Achieved(j)'
  BY <1>5, <1>6, AchievedStays
<1>8. TypeOK'
  <2>1. Len(call'.set.items) = N
    BY <1>7 DEF N
  <2> QED BY <1>1, <1>3, <1>4, <1>5, <1>6, <2>1 DEF IInv, TypeOK
<1>9. Noticed'
  <2>1. \A j : Status(Item(j), repo)' = Status(call.set.items[j], r)
    BY <1>3, <1>7 DEF Status, IsReady, IsNewerAvailable, Item
  <2>2. \A j \in 1 .. N' : <<j, Status(Item(j), repo)'>> \in seen'.status
    BY <1>6, <1>7, <2>1 DEF N
  <2>3. \A q \in Packages : <<q, repo'[q]>> \in seen'.states
    BY <1>3, <1>6
  <2>4. \A f \in Families : <<f, f \in provisioned'>> \in seen'.provisioned
    BY <1>3, <1>6, Zenon
  <2> QED BY <2>2, <2>3, <2>4, Zenon DEF Noticed
<1>10. Checked'
  BY <1>1, <1>5, <1>7 DEF IInv, Facts, Checked, Working, SameCall
<1>11. Prefix'
  <2>1. \A j \in 1 .. call.i - 1 : Achieved(j)'
    BY <1>7 DEF IInv, Facts, Prefix, Working
  <2> QED BY <1>1, <1>2, <1>5, <1>6, <2>1 DEF IInv, Facts, Prefix, Working
<1>12. It' = It /\ RemovesFamily' = RemovesFamily /\ Family(It.family)' = Family(It.family)
  BY <1>5, <1>7 DEF It, RemovesFamily, SameCall, Family
<1>13. Removing'
  <2>1. RemovesFamily => \A q \in Family(It.family) : SeenGone(q) \/ q \in call.todo \/ q = call.pkg
    BY DEF IInv, Facts, Removing
  <2>2. RemovesFamily => \A q \in Family(It.family) : SeenGone(q)' \/ q \in call.todo \/ ~Succeeded'
    <3>1. ASSUME NEW q, q = call.pkg, SeenGone(call.pkg)' PROVE SeenGone(q)'
      BY <1>5, <3>1 DEF SeenGone
    <3> QED BY <1>7, <2>1, <3>1
  <2>3. call.todo # {} => RemovesFamily /\ call.todo \subseteq Family(It.family)
    BY DEF IInv, Facts, Removing
  <2> QED BY <1>5, <1>12, <2>2, <2>3 DEF Removing
<1>14. Served'
  BY <1>5 DEF Served
<1>15. Progress'
  <2>1. Begun' = Begun
    BY <1>5, <1>7 DEF Begun
  <2> QED BY <1>5, <1>7, <2>1 DEF IInv, Facts, Progress, SameCall
<1>16. ProgressTold'
  BY <1>5, <1>7, <1>8 DEF ProgressTold, IInv, Facts, Checked
<1>17. call'.result = "none"
  BY <1>5 DEF IInv, Facts, Checked
<1> QED BY <1>5, <1>8, <1>9, <1>10, <1>11, <1>13, <1>14, <1>15, <1>16, <1>17
        DEF IInv, Facts, Found, Asked, SuccessMeansDone, FailureLeavesPrefix

LEMMA DeployKeeps ==
    ASSUME IInv, Deploy
    PROVE  IInv'
<1> DEFINE p == call.pkg
           prov == CASE call.kind = "provision" -> provisioned \cup {p[1]}
                     [] call.kind = "deprovision" -> provisioned \ {p[1]}
                     [] OTHER -> provisioned
<1>1. /\ call.pc = "deploying" /\ call \in CallType /\ p \in Packages /\ seen \in SeenType
      /\ repo \in [Packages -> States] /\ provisioned \in SUBSET Families /\ call.set \in PackageSets
      /\ p[1] \in Families /\ p[2] \in Versions /\ Versions \subseteq Int
      /\ call.kind \in Kinds \ (Queries \cup {"reset", "repair"})
  <2>1. call \in CallType /\ seen \in SeenType /\ repo \in [Packages -> States] /\ provisioned \in SUBSET Families
    BY DEF IInv, TypeOK
  <2>2. p \in Packages /\ call.set \in PackageSets /\ call.kind \in Kinds
    BY <2>1 DEF CallType
  <2>3. call.pc = "deploying"
    BY DEF Deploy
  <2>4. call.kind \notin Queries \cup {"reset", "repair"}
    BY <2>3 DEF IInv, Facts, Checked, Working
  <2> QED BY <2>1, <2>2, <2>3, <2>4 DEF Packages, Versions
\* What is seen when the service has finished.
<1>2. ASSUME NEW answer \in {"ok", "downgrade", "notFound", "failed", "thrown"},
             NEW r \in [Packages -> States], NEW v \in SUBSET Families, Finish(answer, r, v)
      PROVE  /\ SameCall /\ call'.i = call.i /\ call'.pkg = call.pkg /\ call'.answer = answer /\ Remembers
             /\ \A q \in Packages : <<q, r[q]>> \in seen'.states
             /\ \A f \in Families : <<f, f \in v>> \in seen'.provisioned
             /\ Succeeded' => \/ answer = "ok"
                              \/ answer = "downgrade" /\ call.kind \in {"add", "stage", "register"}
                              \/ answer = "notFound" /\ call.kind = "remove"
  <2>1. /\ call' = [call EXCEPT !.pc = "answered", !.answer = answer,
                                !.activity = IF answer = "thrown" THEN 0 ELSE call.i]
        /\ seen' = Noted(seen, call.set, r, v)
    BY <1>2 DEF Finish
  <2>2. SameCall /\ call'.i = call.i /\ call'.pkg = call.pkg /\ call'.answer = answer
    BY <1>1, <2>1 DEF CallType, SameCall
  <2>3. /\ Remembers
        /\ \A q \in Packages : <<q, r[q]>> \in seen'.states
        /\ \A f \in Families : <<f, f \in v>> \in seen'.provisioned
    BY <1>1, <2>1, NotedFacts DEF Remembers
  <2> QED BY <2>2, <2>3 DEF Succeeded, SameCall
<1>3. CASE call.kind \in {"ensure", "add", "stage", "register"} /\ Newer(p) # {} /\ Finish("downgrade", repo, provisioned)
  <2>1. PICK q \in Family(p[1]) : q[2] > p[2] /\ repo[q] = "registered"
    BY <1>3 DEF Newer
  <2>2. q \in Packages /\ q[2] \in Versions /\ q = <<p[1], q[2]>> /\ q[2] >= p[2]
    BY <1>1, <2>1 DEF Family, Packages, Versions
  <2>3. /\ SameCall /\ call'.i = call.i /\ call'.pkg = call.pkg /\ Remembers
        /\ <<q, "registered">> \in seen'.states
        /\ Succeeded' => call.kind \in {"add", "stage", "register"}
    BY <1>1, <1>2, <1>3, <2>1, <2>2
  <2>4. SeenRegistered(call.pkg)'
    BY <2>2, <2>3 DEF SeenRegistered
  <2>5. Succeeded' => Achieved(call.i)'
    BY <1>1, <2>3, <2>4, DoneNow
  <2>6. ~RemovesFamily
    BY <1>3 DEF RemovesFamily
  <2> QED BY <1>1, <1>3, <2>5, <2>6, FinishKeeps
<1>4. CASE call.kind = "remove" /\ repo[p] # "registered" /\ Finish("notFound", repo, provisioned)
  <2>1. /\ SameCall /\ call'.i = call.i /\ call'.pkg = call.pkg /\ Remembers
        /\ <<p, repo[p]>> \in seen'.states /\ repo[p] \in {"absent", "staged"}
    BY <1>1, <1>2, <1>4 DEF States
  <2>2. SeenGone(call.pkg)'
    BY <2>1 DEF SeenGone
  <2>3. call.todo = {} => Achieved(call.i)'
    BY <1>1, <1>4, <2>1, <2>2, DoneNow
  <2> QED BY <1>1, <1>4, <2>2, <2>3, FinishKeeps
<1>5. CASE Finish("ok", Deployed, prov)
  <2>1. Deployed \in [Packages -> States]
    BY <1>1 DEF Deployed, States
  <2>2. prov \in SUBSET Families
    BY <1>1
  <2>3. /\ SameCall /\ call'.i = call.i /\ call'.pkg = call.pkg /\ Remembers
        /\ <<p, Deployed[p]>> \in seen'.states
        /\ <<p[1], p[1] \in prov>> \in seen'.provisioned
    <3> HIDE DEF p, prov
    <3> QED BY <1>1, <1>2, <1>5, <2>1, <2>2 DEF p
  <2>4. call.kind = "remove" => SeenGone(call.pkg)'
    <3>1. call.kind = "remove" => Deployed[p] = "absent"
      BY <1>1 DEF Deployed
    <3> QED BY <2>3, <3>1 DEF SeenGone
  <2>5. call.todo = {} => Achieved(call.i)'
    <3>1. call.kind \in {"ensure", "add", "register"} => Deployed[p] = "registered"
      BY <1>1 DEF Deployed
    <3>2. call.kind = "stage" => Deployed[p] \in {"registered", "staged"}
      BY <1>1 DEF Deployed, States
    <3>3. <<p, "registered">> \in seen'.states => SeenRegistered(call.pkg)'
      <4>1. p = <<p[1], p[2]>> /\ p[2] >= p[2]
        BY <1>1 DEF Packages, Versions
      <4> SUFFICES ASSUME <<p, "registered">> \in seen'.states
                   PROVE  \E v \in Versions : v >= p[2] /\ <<<<p[1], v>>, "registered">> \in seen'.states
        BY <2>3 DEF SeenRegistered
      <4> QED BY <1>1, <4>1
    <3>4. call.kind = "provision" => <<p[1], TRUE>> \in seen'.provisioned
      <4>1. call.kind = "provision" => (p[1] \in prov) = TRUE
        OBVIOUS
      <4> HIDE DEF p, prov
      <4> QED BY <2>3, <4>1, Zenon
    <3>5. call.kind = "deprovision" => <<p[1], FALSE>> \in seen'.provisioned
      <4>1. call.kind = "deprovision" => (p[1] \in prov) = FALSE
        OBVIOUS
      <4> HIDE DEF p, prov
      <4> QED BY <2>3, <4>1, Zenon
    <3>6. call.kind = "ensure" => <<call.pkg, "registered">> \in seen'.states
      BY <2>3, <3>1
    <3>7. call.kind \in {"add", "register"} => SeenRegistered(call.pkg)'
      BY <2>3, <3>1, <3>3
    <3>8. call.kind = "stage" => SeenRegistered(call.pkg)' \/ <<call.pkg, "staged">> \in seen'.states
      BY <2>3, <3>2, <3>3
    <3> HIDE DEF prov
    <3> QED BY <1>1, <2>3, <2>4, <3>4, <3>5, <3>6, <3>7, <3>8, DoneNow
  <2>6. RemovesFamily => SeenGone(call.pkg)'
    BY <2>4 DEF RemovesFamily
  <2> HIDE DEF prov
  <2> QED BY <1>1, <1>5, <2>1, <2>2, <2>5, <2>6, FinishKeeps
<1>6. ASSUME NEW answer \in {"failed", "thrown"}, Finish(answer, repo, provisioned)
      PROVE  IInv'
  <2>1. ~Succeeded'
    BY <1>1, <1>2, <1>6
  <2> QED BY <1>1, <1>6, <2>1, FinishKeeps
<1>7. \/ /\ call.kind \in {"ensure", "add", "stage", "register"} /\ Newer(p) # {}
         /\ Finish("downgrade", repo, provisioned)
      \/ call.kind = "remove" /\ repo[p] # "registered" /\ Finish("notFound", repo, provisioned)
      \/ Finish("ok", Deployed, prov)
      \/ \E answer \in {"failed", "thrown"} : Finish(answer, repo, provisioned)
  BY Zenon DEF Deploy
<1> HIDE DEF prov
<1> QED BY <1>3, <1>4, <1>5, <1>6, <1>7

\* The service tells its progress.
LEMMA ReportKeeps ==
    ASSUME IInv, Report
    PROVE  IInv'
<1>1. PICK percent \in {50, 100} :
          call' = [call EXCEPT !.progress =
                     IF Adds THEN MaxOf(call.progress, call.before + ((percent * call.share) \div 100))
                     ELSE (percent * call.share) \div 100]
  BY Zenon DEF Report
<1>2. /\ call.pc = "deploying" /\ Still /\ call \in CallType
      /\ N \in Nat /\ N > 0 /\ N <= MaxItems /\ MaxItems \in Nat
      /\ call.i \in Nat /\ call.i >= 1 /\ call.i <= N
      /\ call.share \in Nat /\ call.share <= ItemShare /\ call.before \in Nat /\ call.progress \in Nat
      /\ ItemShare \in {90, 100}
  <2>1. call.pc = "deploying" /\ Still
    BY DEF Report, Still
  <2>2. call \in CallType /\ N \in Nat /\ N <= MaxItems /\ MaxItems \in Nat
    BY ItemFacts DEF IInv, TypeOK
  <2>3. call.share \in Nat /\ call.before \in Nat /\ call.progress \in Nat
    BY <2>2 DEF CallType
  <2>4. N > 0 /\ call.share <= ItemShare
    BY <2>1 DEF IInv, Facts, Checked, Progress
  <2>5. call.i \in 1 .. N
    BY <2>1, PresentItem DEF Working
  <2> QED BY <2>1, <2>2, <2>3, <2>4, <2>5 DEF ItemShare
<1> DEFINE part == (percent * call.share) \div 100
           progress == IF Adds THEN MaxOf(call.progress, call.before + part) ELSE part
<1>3. part \in Nat /\ part <= call.share
  <2>1. CASE percent = 50
    BY <1>2, <2>1
  <2>2. CASE percent = 100
    BY <1>2, <2>2
  <2> QED BY <2>1, <2>2
<1>4. call' = [call EXCEPT !.progress = progress]
  BY <1>1
<1> HIDE DEF part
\* An item adds at most its share, to at most the shares of those before it.
<1>5. call.before + ItemShare <= 200 * MaxItems
  <2>1. IF call.kind = "ensure" THEN call.before <= Begun + (call.i - 1) * 90 ELSE call.before = Begun
    BY <1>2 DEF IInv, Facts, Progress
  <2>2. Single => N = 1
    BY <1>2 DEF IInv, Facts, Checked
  <2> DEFINE i == call.i
             before == call.before
  <2>3. i \in Nat /\ i >= 1 /\ i <= N /\ before \in Nat
    BY <1>2
  <2>4. CASE Single
    <3>1. before <= (i - 1) * 90 /\ ItemShare = 100 /\ N = 1
      BY <2>1, <2>2, <2>3, <2>4 DEF Begun, ItemShare
    <3> HIDE DEF i
    <3>2. i = 1
      BY <2>3, <3>1
    <3> QED BY <1>2, <2>3, <3>1, <3>2
  <2>5. CASE ~Single
    <3>1. before <= 10 * N + (i - 1) * 180 /\ ItemShare = 90
      BY <1>2, <2>1, <2>3, <2>5 DEF Begun, ItemShare
    <3> HIDE DEF i, before
    <3>2. before + 90 <= 200 * MaxItems
      BY <1>2, <2>3, <3>1
    <3> QED BY <3>1, <3>2 DEF before
  <2> QED BY <2>4, <2>5
<1>6. call.pc = "deploying" /\ Adds => call.progress \in call.before .. call.before + call.share
  BY DEF IInv, ProgressTold
<1>7. /\ progress \in 0 .. 200 * MaxItems
      /\ Adds => progress \in call.before .. call.before + call.share
      /\ ~Adds => progress \in 0 .. call.before + ItemShare
  BY <1>2, <1>3, <1>5, <1>6 DEF MaxOf
<1> HIDE DEF progress
<1>8. call' \in CallType
  <2>1. [call EXCEPT !.progress = progress] \in CallType
    BY <1>2, <1>7, Zenon DEF CallType
  <2> QED BY <1>4, <2>1
<1>9. /\ call'.pc = "deploying" /\ call'.answer = call.answer /\ call'.activity = call.activity
      /\ call'.before = call.before /\ call'.share = call.share /\ call'.todo = call.todo
      /\ SameCall /\ call'.i = call.i /\ call'.pkg = call.pkg
      /\ call'.progress = progress /\ call'.result = call.result
  BY <1>2, <1>4 DEF CallType, SameCall
<1>10. Remembers /\ Noticed'
  BY <1>2, <1>9, StillFacts
<1>11. /\ N' = N /\ Single' = Single /\ Adds' = Adds /\ ItemShare' = ItemShare
       /\ \A j : Item(j)' = Item(j) /\ Uri(j)' = Uri(j)
       /\ \A q : SeenGone(q) => SeenGone(q)'
       /\ \A j : Achieved(j) => Achieved(j)'
  BY <1>9, <1>10, AchievedStays
<1>12. TypeOK'
  <2>1. Len(call'.set.items) = N
    BY <1>11 DEF N
  <2> QED BY <1>2, <1>8, <1>9, <2>1 DEF IInv, TypeOK, Still
<1>13. Checked'
  BY <1>2, <1>9, <1>11 DEF IInv, Facts, Checked, Working, SameCall
<1>14. Prefix'
  <2>1. \A j \in 1 .. call.i - 1 : Achieved(j)'
    BY <1>2, <1>11 DEF IInv, Facts, Prefix, Working
  <2> QED BY <1>2, <1>9, <2>1 DEF IInv, Facts, Prefix, Working, Still
<1>15. /\ It' = It /\ RemovesFamily' = RemovesFamily /\ Family(It.family)' = Family(It.family)
       /\ AtUri' = AtUri /\ Named' = Named /\ Uri(call.i)' = Uri(call.i)
  BY <1>9, <1>11 DEF It, RemovesFamily, SameCall, Family, AtUri, Named
<1>16. Asked'
  BY <1>2, <1>9, <1>15 DEF IInv, Facts, Asked, SameCall
<1>17. Removing'
  <2>1. RemovesFamily => \A q \in Family(It.family) : SeenGone(q)' \/ q \in call.todo \/ q = call.pkg
    BY <1>2, <1>11 DEF IInv, Facts, Removing
  <2>2. call.todo # {} => RemovesFamily /\ call.todo \subseteq Family(It.family)
    BY DEF IInv, Facts, Removing
  <2> QED BY <1>9, <1>15, <2>1, <2>2 DEF Removing
<1>18. Progress'
  <2>1. Begun' = Begun
    BY <1>9, <1>11 DEF Begun
  <2> QED BY <1>2, <1>7, <1>9, <1>11, <2>1 DEF IInv, Facts, Progress, SameCall
<1>19. ProgressTold'
  BY <1>2, <1>7, <1>9, <1>11, <1>12 DEF ProgressTold, IInv, Facts, Checked
<1>20. call'.result = "none"
  BY <1>2, <1>9 DEF IInv, Facts, Checked
<1> QED BY <1>9, <1>10, <1>12, <1>13, <1>14, <1>16, <1>17, <1>18, <1>19, <1>20
        DEF IInv, Facts, Found, Served, SuccessMeansDone, FailureLeavesPrefix

\* What the bounds on the progress of an item come to.
LEMMA ProgressFacts ==
    ASSUME IInv, call.pc = "answered"
    PROVE  /\ ProgressAfterItem \in 0 .. 200 * MaxItems
           /\ call.i < N /\ Succeeded =>
                IF call.kind = "ensure" THEN ProgressAfterItem <= 10 * N + call.i * 180
                ELSE ProgressAfterItem = 10 * N + call.i * 90
           /\ call.mode = "set" /\ call.kind \in {"add", "stage", "register", "remove"} /\ Succeeded =>
                ProgressAfterItem = 10 * N + call.i * 90
<1> DEFINE i == call.i
           before == call.before
           progress == call.progress
<1>1. /\ N \in Nat /\ N <= MaxItems /\ MaxItems \in Nat /\ N > 0
      /\ i \in Nat /\ i >= 1 /\ i <= N /\ before \in Nat /\ progress \in Nat
      /\ Single => N = 1 /\ call.kind # "ensure"
  <2>1. call \in CallType /\ N \in Nat /\ N <= MaxItems /\ MaxItems \in Nat
    BY ItemFacts DEF IInv, TypeOK
  <2>2. before \in Nat /\ progress \in Nat
    BY <2>1 DEF CallType
  <2>3. i \in 1 .. N
    BY PresentItem DEF Working
  <2>4. N > 0 /\ (Single => N = 1 /\ call.kind # "ensure")
    BY DEF IInv, Facts, Checked, Single
  <2> QED BY <2>1, <2>2, <2>3, <2>4
<1>2. /\ progress <= before + ItemShare
      /\ Single => before = 0 /\ ItemShare = 100
      /\ ~Single => /\ ItemShare = 90
                    /\ IF call.kind = "ensure" THEN before <= 10 * N + (i - 1) * 180
                       ELSE before = 10 * N + (i - 1) * 90
  <2>1. IF call.kind = "ensure" THEN before <= Begun + (i - 1) * 90 ELSE before = Begun
    BY DEF IInv, Facts, Progress
  <2>2. IF Adds THEN progress \in before .. before + ItemShare ELSE progress \in 0 .. before + ItemShare
    BY DEF IInv, Facts, Progress
  <2>3. progress <= before + ItemShare
    BY <1>1, <2>2 DEF ItemShare
  <2> QED BY <1>1, <2>1, <2>3 DEF Begun, ItemShare
<1>3. ProgressAfterItem =
        IF call.kind = "ensure" THEN IF Succeeded THEN progress + ItemShare ELSE progress
        ELSE IF Single \/ (call.answer = "thrown" /\ call.kind # "remove") THEN progress
        ELSE MaxOf(progress, before + ItemShare)
  BY DEF ProgressAfterItem
<1>4. call.answer = "thrown" => ~Succeeded
  BY DEF Succeeded
<1> HIDE DEF i, before, progress
<1>5. CASE Single
  <2>1. ProgressAfterItem = progress /\ progress <= 100 /\ ~(i < N)
    BY <1>1, <1>2, <1>3, <1>5
  <2>2. call.mode # "set"
    BY <1>5 DEF Single
  <2> QED BY <1>1, <2>1, <2>2 DEF i
<1>6. CASE ~Single /\ call.kind = "ensure"
  <2>1. ProgressAfterItem \in Nat /\ ProgressAfterItem <= 10 * N + i * 180
    BY <1>1, <1>2, <1>3, <1>6
  <2>2. 10 * N + i * 180 <= 200 * MaxItems
    BY <1>1
  <2>3. ProgressAfterItem \in 0 .. 200 * MaxItems
    BY <1>1, <2>1, <2>2
  <2> QED BY <1>6, <2>1, <2>3 DEF i
<1>7. CASE ~Single /\ call.kind # "ensure"
  <2>1. progress <= 10 * N + i * 90 /\ before + ItemShare = 10 * N + i * 90
    BY <1>1, <1>2, <1>7
  <2>2. /\ ProgressAfterItem \in Nat /\ ProgressAfterItem <= 10 * N + i * 90
        /\ Succeeded => ProgressAfterItem = 10 * N + i * 90
    BY <1>1, <1>3, <1>4, <1>7, <2>1 DEF MaxOf
  <2>3. 10 * N + i * 90 <= 200 * MaxItems
    BY <1>1
  <2>4. ProgressAfterItem \in 0 .. 200 * MaxItems
    BY <1>1, <2>2, <2>3
  <2> QED BY <1>7, <2>2, <2>4 DEF i
<1> QED BY <1>5, <1>6, <1>7

\* The call goes on with the rest of a family or with the next item.
LEMMA GoesOn ==
    ASSUME IInv, Still, call.pc = "answered", NEW pc \in {"family", "item"},
           NEW i \in 1 .. MaxItems, NEW progress \in 0 .. 200 * MaxItems,
           call' = [call EXCEPT !.pc = pc, !.i = i, !.progress = progress, !.answer = "none"],
           Succeeded,
           pc = "family" => call.todo # {} /\ i = call.i /\ progress = call.progress,
           pc = "item" => /\ call.todo = {} /\ i = call.i + 1 /\ i <= N
                          /\ IF call.kind = "ensure" THEN progress <= 10 * N + call.i * 180
                             ELSE progress = 10 * N + call.i * 90
    PROVE  IInv'
<1>1. /\ call \in CallType /\ N \in Nat /\ N > 0 /\ N <= MaxItems /\ MaxItems \in Nat
      /\ call.i \in Nat /\ call.i >= 1 /\ call.i <= N /\ i \in Nat /\ i >= 1 /\ i <= N
      /\ progress \in Nat /\ ItemShare \in {90, 100}
  <2>1. call \in CallType /\ N \in Nat /\ N <= MaxItems /\ MaxItems \in Nat
    BY ItemFacts DEF IInv, TypeOK
  <2>2. N > 0
    BY DEF IInv, Facts, Checked
  <2>3. call.i \in 1 .. N
    BY PresentItem DEF Working
  <2> QED BY <2>1, <2>2, <2>3 DEF ItemShare
<1>2. call' \in CallType
  <2>1. [call EXCEPT !.pc = pc, !.i = i, !.progress = progress, !.answer = "none"] \in CallType
    BY <1>1, Zenon DEF CallType
  <2> QED BY <2>1
<1>3. /\ call'.pc = pc /\ call'.before = call.before /\ call'.share = call.share /\ call'.todo = call.todo
      /\ SameCall /\ call'.i = i /\ call'.progress = progress /\ call'.result = call.result
  BY <1>1 DEF CallType, SameCall
<1>4. Remembers /\ Noticed'
  BY <1>3, StillFacts
<1>5. /\ N' = N /\ Single' = Single /\ Adds' = Adds /\ ItemShare' = ItemShare
      /\ \A j : Item(j)' = Item(j) /\ Uri(j)' = Uri(j)
      /\ \A q : SeenGone(q) => SeenGone(q)'
      /\ \A j : Achieved(j) => Achieved(j)'
  BY <1>3, <1>4, AchievedStays
<1>6. TypeOK'
  <2>1. Len(call'.set.items) = N
    BY <1>5 DEF N
  <2> QED BY <1>1, <1>2, <1>3, <2>1 DEF IInv, TypeOK, Still
<1>7. Checked'
  BY <1>1, <1>3, <1>5 DEF IInv, Facts, Checked, Working, SameCall
<1>8. Prefix'
  <2>1. \A j \in 1 .. i - 1 : Achieved(j)'
    <3> SUFFICES ASSUME NEW j \in 1 .. i - 1 PROVE Achieved(j)'
      OBVIOUS
    <3>1. CASE j \in 1 .. call.i - 1
      BY <1>5, <3>1 DEF IInv, Facts, Prefix, Working
    <3>2. CASE j \notin 1 .. call.i - 1
      <4>1. j = call.i /\ call.todo = {}
        BY <1>1, <3>2
      <4>2. Achieved(j)
        BY <4>1 DEF IInv, Facts, Served
      <4> QED BY <1>5, <4>2
    <3> QED BY <3>1, <3>2
  <2>2. seen'.asked \subseteq 1 .. i
    BY <1>1 DEF IInv, Facts, Prefix, Still
  <2> QED BY <1>3, <2>1, <2>2 DEF Prefix, Working
<1>9. Removing'
  <2>1. CASE pc = "family"
    <3>1. It' = It /\ RemovesFamily' = RemovesFamily /\ Family(It.family)' = Family(It.family)
      BY <1>3, <1>5, <2>1 DEF It, RemovesFamily, SameCall, Family
    <3>2. RemovesFamily /\ call.todo \subseteq Family(It.family)
      BY <2>1 DEF IInv, Facts, Removing
    <3>3. \A q \in Family(It.family) : SeenGone(q)' \/ q \in call.todo
      BY <1>5, <3>2 DEF IInv, Facts, Removing
    <3> QED BY <1>3, <2>1, <3>1, <3>2, <3>3 DEF Removing
  <2>2. CASE pc = "item"
    BY <1>3, <2>2 DEF Removing
  <2> QED BY <2>1, <2>2
<1>10. Progress'
  <2>1. CASE pc = "family"
    <3>1. call.kind = "remove" /\ call.pc = "answered"
      BY <2>1 DEF IInv, Facts, Removing, RemovesFamily
    <3>2. Begun' = Begun
      BY <1>3, <1>5, <2>1 DEF Begun
    <3>3. call.share <= ItemShare
      BY <2>1 DEF IInv, Facts, Progress
    <3> QED BY <1>3, <1>5, <2>1, <3>1, <3>2, <3>3 DEF IInv, Facts, Progress, SameCall
  <2>2. CASE pc = "item"
    <3>1. ~Single
      BY <1>1, <2>2 DEF IInv, Facts, Checked
    <3>2. Begun' = 10 * N + call.i * 90
      BY <1>1, <1>3, <1>5, <2>2, <3>1 DEF Begun
    <3> QED BY <1>1, <1>3, <1>5, <2>2, <3>2 DEF Progress, SameCall
  <2> QED BY <2>1, <2>2
<1>11. ProgressTold'
  <2>1. call.result = "none"
    BY DEF IInv, Facts, Checked
  <2>2. pc = "item" /\ call.mode = "set" /\ call.kind # "ensure" => progress = 10 * N + (i - 1) * ItemShare
    BY <1>1 DEF ItemShare, Single
  <2> QED BY <1>3, <1>5, <1>6, <2>1, <2>2 DEF ProgressTold, SameCall
<1>12. call'.result = "none"
  BY <1>3 DEF IInv, Facts, Checked
<1> QED BY <1>3, <1>4, <1>6, <1>7, <1>8, <1>9, <1>10, <1>11, <1>12
        DEF IInv, Facts, Found, Asked, Served, SuccessMeansDone, FailureLeavesPrefix

LEMMA AnsweredKeeps ==
    ASSUME IInv, Answered
    PROVE  IInv'
<1> DEFINE progress == ProgressAfterItem
           done == [call EXCEPT !.progress = progress, !.answer = "none"]
<1>1. /\ call.pc = "answered" /\ Still /\ call \in CallType
      /\ N \in Nat /\ N > 0 /\ N <= MaxItems /\ MaxItems \in Nat /\ call.i \in 1 .. N
      /\ call.pc \in Working
  <2>1. call.pc = "answered" /\ Still
    BY DEF Answered, Still
  <2>2. call \in CallType /\ N \in Nat /\ N <= MaxItems /\ MaxItems \in Nat
    BY ItemFacts DEF IInv, TypeOK
  <2>3. call.i \in 1 .. N /\ N > 0
    BY <2>1, PresentItem DEF Working, IInv, Facts, Checked
  <2> QED BY <2>1, <2>2, <2>3 DEF Working
<1>2. call' = IF ~Succeeded THEN Ended(done, "failure")
              ELSE IF call.todo # {} THEN [call EXCEPT !.pc = "family", !.answer = "none"]
              ELSE IF call.i < N THEN [done EXCEPT !.pc = "item", !.i = call.i + 1]
              ELSE Ended(done, "success")
  <2>1. [done EXCEPT !.pc = "item", !.i = done.i + 1] = [done EXCEPT !.pc = "item", !.i = call.i + 1]
    BY <1>1 DEF CallType
  <2> QED BY <2>1 DEF Answered
<1>3. /\ progress \in 0 .. 200 * MaxItems
      /\ call.i < N /\ Succeeded =>
           IF call.kind = "ensure" THEN progress <= 10 * N + call.i * 180
           ELSE progress = 10 * N + call.i * 90
      /\ call.mode = "set" /\ call.kind \in {"add", "stage", "register", "remove"} /\ Succeeded =>
           progress = 10 * N + call.i * 90
  BY <1>1, ProgressFacts
<1> HIDE DEF progress
<1>4. done \in CallType
  BY <1>1, <1>3, Zenon DEF CallType
<1>5. /\ done.i = call.i /\ done.todo = call.todo /\ done.progress = progress
      /\ done.kind = call.kind /\ done.mode = call.mode /\ done.set = call.set /\ done.option = call.option
      /\ done.activity = call.activity
  BY <1>1 DEF CallType
<1> HIDE DEF done
<1>6. ASSUME NEW result \in {"success", "failure"}, call' = Ended(done, result)
      PROVE  /\ SameCall /\ call'.i = call.i /\ call'.activity = call.activity /\ call'.result = result
             /\ seen' = seen /\ N' = N /\ \A j : Achieved(j) => Achieved(j)'
  <2>1. SameCall /\ call'.i = call.i /\ call'.activity = call.activity /\ call'.result = result
    BY <1>4, <1>5, <1>6 DEF Ended, CallType, SameCall
  <2>2. Remembers
    BY <1>1, <2>1, StillFacts
  <2> QED BY <1>1, <2>1, <2>2, AchievedStays DEF Still
<1>7. /\ \A j \in 1 .. call.i - 1 : Achieved(j)
      /\ seen.asked \subseteq 1 .. call.i
      /\ call.activity \in {0, call.i}
      /\ Succeeded /\ call.todo = {} => Achieved(call.i)
  BY <1>1 DEF IInv, Facts, Prefix, Served, Working
<1>8. CASE ~Succeeded
  <2>1. call' = Ended(done, "failure")
    BY <1>2, <1>8
  <2>2. (SuccessMeansDone /\ FailureLeavesPrefix)'
    <3>1. /\ call'.result = "failure" /\ seen'.asked \subseteq 1 .. call'.i
          /\ call'.activity \in {0, call'.i} /\ call'.i = call.i
      BY <1>6, <1>7, <2>1
    <3>2. \A j \in 1 .. N' : j < call'.i => Achieved(j)'
      <4> SUFFICES ASSUME NEW j \in 1 .. N, j < call.i PROVE Achieved(j)'
        BY <1>6, <2>1
      <4>1. j \in 1 .. call.i - 1
        BY <1>1
      <4> QED BY <1>6, <1>7, <2>1, <4>1
    <3> QED BY <3>1, <3>2, Zenon DEF SuccessMeansDone, FailureLeavesPrefix
  <2> QED BY <1>1, <1>4, <1>5, <1>6, <2>1, <2>2, EndedKeeps DEF Results
<1>9. CASE Succeeded /\ call.todo # {}
  <2>1. call' = [call EXCEPT !.pc = "family", !.answer = "none"]
    BY <1>2, <1>9
  <2>2. call.i \in 1 .. MaxItems /\ call.progress \in 0 .. 200 * MaxItems
    BY <1>1 DEF CallType
  <2>3. call' = [call EXCEPT !.pc = "family", !.i = call.i, !.progress = call.progress, !.answer = "none"]
    BY <1>1, <2>1 DEF CallType
  <2> QED BY <1>1, <1>9, <2>2, <2>3, GoesOn
<1>10. CASE Succeeded /\ call.todo = {} /\ call.i < N
  <2>1. call' = [done EXCEPT !.pc = "item", !.i = call.i + 1]
    BY <1>2, <1>10
  <2> DEFINE i == call.i + 1
  <2>2. i \in 1 .. MaxItems /\ i <= N
    BY <1>1, <1>10
  <2>3. call' = [call EXCEPT !.pc = "item", !.i = i, !.progress = progress, !.answer = "none"]
    BY <1>1, <2>1 DEF CallType, done
  <2>4. i = call.i + 1
    OBVIOUS
  <2> HIDE DEF i
  <2> QED BY <1>1, <1>3, <1>10, <2>2, <2>3, <2>4, GoesOn
<1>11. CASE Succeeded /\ call.todo = {} /\ ~(call.i < N)
  <2>1. call' = Ended(done, "success") /\ call.i = N
    BY <1>1, <1>2, <1>11
  <2>2. \A j \in 1 .. N : Achieved(j)
    <3> SUFFICES ASSUME NEW j \in 1 .. N PROVE Achieved(j)
      OBVIOUS
    <3>1. j \in 1 .. call.i - 1 \/ j = call.i
      BY <1>1, <2>1
    <3> QED BY <1>7, <1>11, <3>1
  <2>3. (SuccessMeansDone /\ FailureLeavesPrefix)'
    <3>1. call'.result = "success" /\ N' > 0 /\ \A j \in 1 .. N' : Achieved(j)'
      BY <1>1, <1>6, <2>1, <2>2
    <3> QED BY <3>1, Zenon DEF SuccessMeansDone, FailureLeavesPrefix
  <2>4. call.mode = "set" /\ call.kind \in {"add", "stage", "register", "remove"} => done.progress = 100 * N
    BY <1>1, <1>3, <1>5, <1>11, <2>1
  <2> QED BY <1>1, <1>4, <1>5, <1>6, <2>1, <2>3, <2>4, EndedKeeps DEF Results
<1> QED BY <1>8, <1>9, <1>10, <1>11

-----------------------------------------------------------------------------
(* Others deploy *)

LEMMA ChangeKeeps ==
    ASSUME IInv, Change
    PROVE  IInv'
<1>1. /\ call.pc \notin {"idle", "done"} /\ call' = call /\ changes' = changes + 1 /\ changes < MaxChanges
      /\ seen' = Noted(seen, call.set, repo', provisioned')
      /\ repo \in [Packages -> States] /\ provisioned \in SUBSET Families /\ changes \in 0 .. MaxChanges
      /\ seen \in SeenType /\ call.set \in PackageSets /\ MaxChanges \in Nat
  BY SetAssumption DEF Change, IInv, TypeOK, CallType
<1>2. repo' \in [Packages -> States] /\ provisioned' \in SUBSET Families
  <2>1. CASE \E p \in Packages, s \in States : repo' = [repo EXCEPT ![p] = s] /\ UNCHANGED provisioned
    BY <1>1, <2>1
  <2>2. CASE \E f \in Families : provisioned' = (provisioned \ {f}) \cup ({f} \ provisioned) /\ UNCHANGED repo
    BY <1>1, <2>2
  <2> QED BY <2>1, <2>2 DEF Change
<1>3. /\ seen' \in SeenType /\ seen'.asked = seen.asked /\ Remembers
      /\ \A p \in Packages : <<p, repo'[p]>> \in seen'.states
      /\ \A j \in 1 .. Len(call.set.items) : <<j, Status(call.set.items[j], repo')>> \in seen'.status
      /\ \A f \in Families : <<f, f \in provisioned'>> \in seen'.provisioned
  BY <1>1, <1>2, NotedFacts DEF Remembers
<1>4. SameCall
  BY <1>1 DEF SameCall
<1>5. /\ N' = N /\ Single' = Single /\ Adds' = Adds /\ ItemShare' = ItemShare
      /\ \A j : Item(j)' = Item(j) /\ Uri(j)' = Uri(j)
      /\ \A q : SeenGone(q) => SeenGone(q)'
      /\ \A j, S : SeenStatus(j, S) => SeenStatus(j, S)'
      /\ \A j : Achieved(j) => Achieved(j)'
  BY <1>3, <1>4, AchievedStays
<1>6. TypeOK'
  <2>1. changes' \in 0 .. MaxChanges
    BY <1>1
  <2> QED BY <1>1, <1>2, <1>3, <2>1 DEF IInv, TypeOK
<1>7. Noticed'
  <2>1. \A j : Status(Item(j), repo)' = Status(call.set.items[j], repo')
    BY <1>1, <1>5 DEF Status, IsReady, IsNewerAvailable, Item
  <2>2. \A j \in 1 .. N' : <<j, Status(Item(j), repo)'>> \in seen'.status
    BY <1>3, <1>5, <2>1 DEF N
  <2>3. \A q \in Packages : <<q, repo'[q]>> \in seen'.states
    BY <1>3
  <2>4. \A f \in Families : <<f, f \in provisioned'>> \in seen'.provisioned
    BY <1>3, Zenon
  <2> QED BY <2>2, <2>3, <2>4, Zenon DEF Noticed
<1>8. Checked' /\ Asked' /\ Progress'
  <2>1. It' = It /\ AtUri' = AtUri /\ Named' = Named /\ RemovesFamily' = RemovesFamily /\ Begun' = Begun
    BY <1>1, <1>5 DEF It, Item, AtUri, Named, RemovesFamily, Begun
  <2> QED BY <1>1, <1>5, <2>1 DEF IInv, Facts, Checked, Asked, Progress
<1>9. Found'
  <2>1. CASE call.kind = "isProvisioned"
    <3>1. call.pc = "check" => \A j \in 1 .. call.i - 1 : <<Item(j).family, TRUE>> \in seen.provisioned
      BY <2>1 DEF IInv, Facts, Found
    <3>2. call'.pc = "check" => \A j \in 1 .. call'.i - 1 : <<Item(j)'.family, TRUE>> \in seen'.provisioned
      BY <1>1, <1>3, <1>5, <3>1, Zenon DEF Remembers
    <3> QED BY <1>1, <2>1, <3>2, Zenon DEF Found
  <2>2. CASE call.kind # "isProvisioned"
    <3> DEFINE good == IF call.newer THEN {"ready", "newer"} ELSE Good(call.option)
    <3>1. call.pc = "check" => /\ \A j \in 1 .. call.i - 1 : SeenStatus(j, good)
                               /\ call.newer => call.option /\ \E j \in 1 .. call.i - 1 : SeenStatus(j, {"newer"})
      BY <2>2 DEF IInv, Facts, Found
    <3>2. good' = good
      BY <1>1 DEF Good
    <3>3. call'.pc = "check" => \A j \in 1 .. call'.i - 1 : SeenStatus(j, good)'
      <4>1. \A j : SeenStatus(j, good) => SeenStatus(j, good)'
        BY <1>3, <3>2 DEF SeenStatus, Remembers
      <4> HIDE DEF good
      <4> QED BY <1>1, <3>1, <4>1
    <3>4. call'.pc = "check" =>
             (call'.newer => call'.option /\ \E j \in 1 .. call'.i - 1 : SeenStatus(j, {"newer"})')
      BY <1>1, <1>5, <3>1
    <3> QED BY <1>1, <2>2, <3>3, <3>4 DEF Found
  <2> QED BY <2>1, <2>2
<1>10. Prefix'
  <2>1. call.pc \in Working => \A j \in 1 .. call.i - 1 : Achieved(j)'
    BY <1>5 DEF IInv, Facts, Prefix
  <2> QED BY <1>1, <1>3, <2>1 DEF IInv, Facts, Prefix
<1>11. Removing'
  <2>1. /\ RemovesFamily' = RemovesFamily /\ Family(It.family)' = Family(It.family) /\ Succeeded' = Succeeded
    BY <1>1, <1>5 DEF It, Item, RemovesFamily, Family, Succeeded
  <2>2. call.pc \in {"family", "deploying", "answered"} /\ RemovesFamily =>
          \A p \in Family(It.family) :
             SeenGone(p)' \/ p \in call.todo \/ (call.pc = "deploying" /\ call.pkg = p)
                          \/ (call.pc = "answered" /\ ~Succeeded)
    BY <1>5 DEF IInv, Facts, Removing
  <2>3. /\ call.todo # {} => /\ call.pc \in {"family", "deploying", "answered", "done"} /\ RemovesFamily
                             /\ call.todo \subseteq Family(It.family)
        /\ call.pc = "family" => RemovesFamily
    BY DEF IInv, Facts, Removing
  <2> QED BY <1>1, <2>1, <2>2, <2>3 DEF Removing
<1>12. Served'
  <2>1. Succeeded' = Succeeded
    BY <1>1 DEF Succeeded
  <2>2. \A j : call.i = j /\ Achieved(j) => Achieved(j)'
    BY <1>5
  <2>3. Achieved(call.i) => Achieved(call.i)'
    BY <1>1, <2>2
  <2> QED BY <1>1, <2>1, <2>3 DEF IInv, Facts, Served
<1>13. ProgressTold'
  BY <1>1, <1>5, <1>6 DEF IInv, ProgressTold
<1>14. call'.result = "none"
  BY <1>1 DEF IInv, Facts, Checked
<1> QED BY <1>6, <1>7, <1>8, <1>9, <1>10, <1>11, <1>12, <1>13, <1>14
        DEF IInv, Facts, SuccessMeansDone, FailureLeavesPrefix

-----------------------------------------------------------------------------
(* The theorems *)

LEMMA InvariantStep == IInv /\ [Next]_vars => IInv'
<1> SUFFICES ASSUME IInv, [Next]_vars PROVE IInv'
  OBVIOUS
<1>1. CASE Begin BY <1>1, BeginKeeps
<1>2. CASE Validate BY <1>2, ValidateKeeps
<1>3. CASE CheckReady BY <1>3, CheckReadyKeeps
<1>4. CASE CheckProvisioned BY <1>4, CheckProvisionedKeeps
<1>5. CASE EnsureReadyAsync BY <1>5, EnsureReadyAsyncKeeps
<1>6. CASE \/ AddPackage \/ StagePackage \/ RegisterPackage \/ RegisterPackageByPackageFullName
           \/ ProvisionPackageByFamilyName \/ DeprovisionPackageByFamilyName
  BY <1>6, AskingKeeps
<1>7. CASE RegisterPackageByPackageFamilyName BY <1>7, RegisterByFamilyNameKeeps
<1>8. CASE RemovePackage BY <1>8, RemovePackageKeeps
<1>9. CASE RemovePackageByFamilyName BY <1>9, RemoveByFamilyNameKeeps
<1>10. CASE RemovePackageByFullName BY <1>10, RemoveByFullNameKeeps
<1>11. CASE Deploy BY <1>11, DeployKeeps
<1>12. CASE Report BY <1>12, ReportKeeps
<1>13. CASE Answered BY <1>13, AnsweredKeeps
<1>14. CASE Change BY <1>14, ChangeKeeps
<1>15. CASE UNCHANGED vars
  <2>1. /\ repo' = repo /\ provisioned' = provisioned /\ call' = call /\ changes' = changes /\ seen' = seen
    BY <1>15 DEF vars
  <2>2. /\ N' = N /\ It' = It /\ Adds' = Adds /\ Single' = Single /\ ItemShare' = ItemShare
        /\ Succeeded' = Succeeded /\ RemovesFamily' = RemovesFamily /\ AtUri' = AtUri /\ Named' = Named
        /\ Begun' = Begun /\ \A j : Item(j)' = Item(j) /\ Uri(j)' = Uri(j)
    BY <2>1 DEF N, It, Item, Uri, Adds, Single, ItemShare, Succeeded, RemovesFamily, AtUri, Named, Begun
  <2>3. /\ \A j : Achieved(j)' = Achieved(j)
        /\ \A p : SeenGone(p)' = SeenGone(p)
        /\ \A j, S : SeenStatus(j, S)' = SeenStatus(j, S)
        /\ \A j : Status(Item(j), repo)' = Status(Item(j), repo)
    BY <2>1, <2>2 DEF Achieved, SeenGone, SeenStatus, SeenRegistered, Status, IsReady, IsNewerAvailable
  <2>4. TypeOK' /\ Checked' /\ Asked' /\ Progress' /\ ProgressTold'
    BY <2>1, <2>2 DEF IInv, Facts, TypeOK, Checked, Asked, Progress, ProgressTold
  <2>5. Noticed'
    BY <2>1, <2>2, <2>3, Zenon DEF IInv, Facts, Noticed
  <2>6. Found'
    BY <2>1, <2>2, <2>3, Zenon DEF IInv, Facts, Found, Good
  <2>7. Prefix' /\ Served'
    BY <2>1, <2>2, <2>3 DEF IInv, Facts, Prefix, Served
  <2>8. Removing'
    BY <2>1, <2>2, <2>3 DEF IInv, Facts, Removing, Family
  <2>9. SuccessMeansDone'
    BY <2>1, <2>2, <2>3 DEF IInv, SuccessMeansDone, Good
  <2>10. FailureLeavesPrefix'
    BY <2>1, <2>2, <2>3 DEF IInv, FailureLeavesPrefix
  <2> QED BY <2>4, <2>5, <2>6, <2>7, <2>8, <2>9, <2>10 DEF IInv, Facts
<1> QED BY <1>1, <1>2, <1>3, <1>4, <1>5, <1>6, <1>7, <1>8, <1>9, <1>10, <1>11, <1>12, <1>13, <1>14, <1>15
        DEF Next

\* Every reachable state satisfies the invariant.
THEOREM InductiveInvariant == Spec => []IInv
<1> QED BY InitHolds, InvariantStep, PTL DEF Spec

\* The call, the packages and the history have their types, and a call that works does so on
\* an item of its set.
THEOREM TypeCorrect == Spec => []TypeOK
<1>1. IInv => TypeOK
  BY DEF IInv
<1> QED BY <1>1, InductiveInvariant, PTL

\* An operation that succeeds has done every item, and a query's answer is true of its items.
THEOREM SuccessIsTrue == Spec => []SuccessMeansDone
<1>1. IInv => SuccessMeansDone
  BY DEF IInv
<1> QED BY <1>1, InductiveInvariant, PTL

\* A call that fails has done the items before, and never asked for those after.
THEOREM FailureStopsThere == Spec => []FailureLeavesPrefix
<1>1. IInv => FailureLeavesPrefix
  BY DEF IInv
<1> QED BY <1>1, InductiveInvariant, PTL

\* Progress stays within the item's share, adds up, and is 1.0 on success.
THEOREM ProgressIsTold == Spec => []ProgressTold
<1>1. IInv => ProgressTold
  BY DEF IInv
<1> QED BY <1>1, InductiveInvariant, PTL
=============================================================================
