------------------------- MODULE PackageDeployment --------------------------
(***************************************************************************)
(* PackageDeploymentManager: operations on a package, a family or a set of *)
(* packages, done one item after the other by the deployment service, with *)
(* the service's progress passed on.  Other parties deploy at any time, so *)
(* one call with that environment stands for any number of calls.  Queries *)
(* are calls too: they look at one item after the other.                   *)
(***************************************************************************)
EXTENDS Naturals, Sequences, FiniteSets

CONSTANTS
    Families,      \* package family names
    MaxVersion,    \* versions are 1 .. MaxVersion
    PackageSets,   \* what callers pass: [uri, items], items of [family, min, uri]; 0 is no URI
    MaxItems,      \* bound: items of a set
    MaxChanges     \* bound: how often other parties change a package during a call

Versions == 1 .. MaxVersion
Packages == Families \X Versions
States == {"absent", "staged", "registered"}
Kinds == {"isReady", "isProvisioned", "ensure", "add", "stage", "register", "remove",
          "provision", "deprovision", "reset", "repair"}
\* A package set; the packages of an ms-uup product; one URI or family name; one full name.
Modes == {"set", "product", "one", "fullName"}
PackageItems == [family : Families, min : Versions, uri : 0 .. MaxVersion]

ASSUME SetAssumption ==
    /\ MaxVersion \in Nat \ {0}
    /\ MaxItems \in Nat \ {0} /\ MaxChanges \in Nat
    /\ PackageSets \subseteq [uri : 0 .. MaxVersion, items : Seq(PackageItems)]
    /\ \A s \in PackageSets : Len(s.items) <= MaxItems
    /\ Families # {} /\ PackageSets # {}

VARIABLES
    repo,         \* package -> its state for this user
    provisioned,  \* families provisioned for all users
    call,         \* the call under way (CallType)
    changes,      \* bound: changes by other parties
    seen          \* history: what held at some time since the call began

vars == <<repo, provisioned, call, changes, seen>>

CallType == [pc : {"idle", "queued", "check", "item", "family", "deploying", "answered", "done"},
             kind : Kinds, mode : Modes, set : PackageSets,
             option : BOOLEAN,          \* RegisterNewerIfAvailable, or FailIfNotFound
             i : 1 .. MaxItems,         \* the item, from 1
             newer : BOOLEAN,           \* newerAvailable of an item before
             todo : SUBSET Packages,    \* of its family, still to do
             pkg : Packages,            \* what the service works on
             share : 0 .. 100,          \* progressMaxPerPackage, in parts of 1 / (100 * N)
             before : 0 .. 200 * MaxItems,    \* progress when the item began
             progress : 0 .. 200 * MaxItems,  \* reported: 100 * N is 1.0
             answer : {"none", "ok", "downgrade", "notFound", "failed", "thrown"},
             activity : 0 .. MaxItems,  \* activityId: of which item's operation, 0 if none
             result : {"none", "success", "failure", "exception", "ready", "newer", "notReady", "yes", "no"}]
SeenType == [states : SUBSET (Packages \X States),
             status : SUBSET ((1 .. MaxItems) \X {"ready", "newer", "notReady"}),
             provisioned : SUBSET (Families \X BOOLEAN),
             asked : SUBSET (1 .. MaxItems)]

\* A call always works on an item of its set.
TypeOK ==
    /\ repo \in [Packages -> States]
    /\ provisioned \in SUBSET Families
    /\ call \in CallType
    /\ changes \in 0 .. MaxChanges
    /\ seen \in SeenType
    /\ call.pc \in {"check", "item", "family", "deploying", "answered"} => call.i <= Len(call.set.items)

N == Len(call.set.items)
Item(j) == call.set.items[j]
It == Item(call.i)
Family(f) == {f} \X Versions
Registered(f) == {p \in Family(f) : repo[p] = "registered"}
Single == call.mode \in {"one", "fullName"}
ItemShare == IF Single THEN 100 ELSE 90    \* 0.9 / N of the call

\* GetEffectivePackageUri
UriOf(set, j) == IF set.items[j].uri # 0 THEN set.items[j].uri ELSE set.uri
Uri(j) == UriOf(call.set, j)

\* FindAny: the family has a registered package new enough.
IsReady(item, r) == \E v \in Versions : v >= item.min /\ r[<<item.family, v>>] = "registered"
\* The system has a package newer than what is registered.
IsNewerAvailable(item, r) ==
    \E v \in Versions : /\ r[<<item.family, v>>] = "staged"
                        /\ \A u \in Versions : r[<<item.family, u>>] = "registered" => u < v
Status(item, r) == IF ~IsReady(item, r) THEN "notReady"
                   ELSE IF IsNewerAvailable(item, r) THEN "newer" ELSE "ready"
Good(option) == IF option THEN {"ready"} ELSE {"ready", "newer"}

\* What has held by now, for the items of set in repository r.
Noted(s, set, r, prov) ==
    [s EXCEPT !.states = @ \cup {<<p, r[p]>> : p \in Packages},
              !.status = @ \cup {<<j, Status(set.items[j], r)>> : j \in DOMAIN set.items},
              !.provisioned = @ \cup {<<f, f \in prov>> : f \in Families}]
NothingSeen == [states |-> {}, status |-> {}, provisioned |-> {}, asked |-> {}]

NewCall(kind, mode, set, option) ==
    [pc |-> "queued", kind |-> kind, mode |-> mode, set |-> set, option |-> option, i |-> 1,
     newer |-> FALSE, todo |-> {}, pkg |-> CHOOSE p \in Packages : TRUE, share |-> 0, before |-> 0,
     progress |-> 0, answer |-> "none", activity |-> 0, result |-> "none"]

Init ==
    /\ repo \in [Packages -> States]
    /\ provisioned \in SUBSET Families
    /\ call = [NewCall("isReady", "set", CHOOSE s \in PackageSets : TRUE, FALSE) EXCEPT !.pc = "idle"]
    /\ changes = 0
    /\ seen = NothingSeen

-----------------------------------------------------------------------------
(* Beginning and ending *)

\* Which ways to name packages an operation has.
Offered(kind, mode) ==
    CASE kind = "isReady" -> mode # "one"
      [] kind = "isProvisioned" -> mode # "fullName"
      [] kind = "ensure" -> mode = "set"
      [] kind \in {"add", "stage", "provision", "deprovision"} -> mode \in {"set", "one"}
      [] OTHER -> mode # "product"

\* A function of the manager is called.  EnsurePackageReadyByUriAsync is "ensure" of a product's
\* packages when the system knows the product, and "add" of the URI when it does not.
Begin ==
    /\ call.pc = "idle"
    /\ \E kind \in Kinds, mode \in Modes, set \in PackageSets, option \in BOOLEAN :
          /\ Offered(kind, mode)
          /\ mode \in {"one", "fullName"} => Len(set.items) = 1
          /\ mode = "one" /\ kind \in {"add", "stage"} => UriOf(set, 1) # 0
          /\ option => kind \in {"isReady", "ensure", "remove"}
          /\ call' = NewCall(kind, mode, set, option)
          /\ seen' = Noted(NothingSeen, set, repo, provisioned)
    /\ UNCHANGED <<repo, provisioned, changes>>

\* Not implemented yet: the manager says these features are not supported.
NotImplemented ==
    \/ call.kind \in {"reset", "repair"}
    \/ call.kind \in {"provision", "deprovision"} /\ (call.mode = "set" \/ Uri(1) # 0)
    \/ call.kind = "remove" /\ call.mode = "one" /\ Uri(1) # 0

\* The Validate functions: a set has items, and each a URI where one is needed (ids and
\* family names are taken to be well formed).
Valid == call.mode = "set" => /\ N > 0
                              /\ call.kind \in {"ensure", "add", "stage"} => \A j \in 1 .. N : Uri(j) # 0

Ended(c, result) == [c EXCEPT !.pc = "done", !.result = result]

\* Off the caller's thread, validation throws or the call goes on to its items.
Validate ==
    /\ call.pc = "queued"
    /\ call' =
         IF NotImplemented \/ ~Valid THEN Ended(call, "exception")
         ELSE CASE call.kind = "isReady" /\ N = 0 -> Ended(call, "notReady")
                [] call.kind = "isProvisioned" /\ N = 0 -> Ended(call, "no")
                [] call.kind \in {"isReady", "isProvisioned"} /\ N > 0 -> [call EXCEPT !.pc = "check"]
                [] call.kind = "ensure" -> [call EXCEPT !.pc = "check", !.progress = N]
                [] OTHER -> [call EXCEPT !.pc = "item", !.progress = IF Single THEN 0 ELSE 10 * N]
    /\ UNCHANGED <<repo, provisioned, changes, seen>>

\* Mutant: The last item is not looked at.
CheckReadyShort ==
    /\ call.pc = "check" /\ call.kind \in {"isReady", "ensure"}
    /\ LET status == Status(It, repo)
           newer == call.newer \/ (call.option /\ status = "newer")
           answer == IF status = "notReady" THEN "notReady" ELSE IF newer THEN "newer" ELSE "ready"
       IN  call' =
             IF status # "notReady" /\ call.i + 1 < N THEN [call EXCEPT !.i = @ + 1, !.newer = newer]
             ELSE IF call.kind = "isReady" THEN Ended(call, answer)
             ELSE IF answer = "ready" THEN Ended(call, "success")
             ELSE [call EXCEPT !.pc = "item", !.i = 1, !.progress = 10 * N]
    /\ UNCHANGED <<repo, provisioned, changes, seen>>

\* IsPackageSetReady, IsPackageSetReadyOrNewerAvailable and their kin look at an item a step.
\* For EnsurePackageSetReadyAsync the answer says whether there is anything to do.
CheckReady ==
    /\ call.pc = "check" /\ call.kind \in {"isReady", "ensure"}
    /\ LET status == Status(It, repo)
           newer == call.newer \/ (call.option /\ status = "newer")
           answer == IF status = "notReady" THEN "notReady" ELSE IF newer THEN "newer" ELSE "ready"
       IN  call' =
             IF status # "notReady" /\ call.i < N THEN [call EXCEPT !.i = @ + 1, !.newer = newer]
             ELSE IF call.kind = "isReady" THEN Ended(call, answer)
             ELSE IF answer = "ready" THEN Ended(call, "success")
             ELSE [call EXCEPT !.pc = "item", !.i = 1, !.progress = 10 * N]
    /\ UNCHANGED <<repo, provisioned, changes, seen>>

\* A set is looked up in one list of what is provisioned, a product's packages one at a time.
CheckProvisioned ==
    /\ call.pc = "check" /\ call.kind = "isProvisioned"
    /\ LET looked == IF call.mode = "set" THEN 1 .. N ELSE {call.i}
           all == \A j \in looked : Item(j).family \in provisioned
       IN  call' =
             IF ~all THEN Ended(call, "no")
             ELSE IF N \in looked THEN Ended(call, "yes")
             ELSE [call EXCEPT !.i = @ + 1]
    /\ UNCHANGED <<repo, provisioned, changes, seen>>

-----------------------------------------------------------------------------
(* What each operation asks of the deployment service for an item *)

At(kind) == call.pc = "item" /\ call.kind = kind

Ask(c, p, share, before) ==
    /\ call' = [c EXCEPT !.pc = "deploying", !.pkg = p, !.share = share, !.before = before, !.activity = 0]
    /\ seen' = [seen EXCEPT !.asked = @ \cup {c.i}]
    /\ UNCHANGED <<repo, provisioned, changes>>
Answer(answer) ==
    /\ call' = [call EXCEPT !.pc = "answered", !.answer = answer, !.before = call.progress, !.activity = 0]
    /\ UNCHANGED <<repo, provisioned, changes, seen>>
AskFor(p) == Ask(call, p, ItemShare, call.progress)

Named == <<It.family, It.min>>
AtUri == <<It.family, Uri(call.i)>>

EnsureReadyAsync ==
    /\ At("ensure")
    /\ \/ Status(It, repo) \in Good(call.option) /\ Answer("ok")
       \/ Status(It, repo) \notin Good(call.option) /\ AskFor(AtUri)

AddPackage == At("add") /\ AskFor(AtUri)

StagePackage == At("stage") /\ AskFor(AtUri)

RegisterPackage == At("register") /\ call.mode # "fullName" /\ Uri(call.i) # 0 /\ AskFor(AtUri)

\* The service registers the newest version it has.
RegisterPackageByPackageFamilyName ==
    /\ At("register") /\ call.mode # "fullName" /\ Uri(call.i) = 0
    /\ LET had == {p \in Family(It.family) : repo[p] # "absent"}
       IN  \/ \E p \in had : (\A q \in had : q[2] <= p[2]) /\ AskFor(p)
           \/ had = {} /\ Answer("failed")

RegisterPackageByPackageFullName == At("register") /\ call.mode = "fullName" /\ AskFor(Named)

\* By URI it is not implemented.
RemovePackage == At("remove") /\ call.mode # "fullName" /\ Uri(call.i) # 0 /\ Answer("failed")

\* The family's packages are listed once; none is an error only if the caller says so.
RemovePackageByFamilyName ==
    /\ At("remove") /\ call.mode # "fullName" /\ Uri(call.i) = 0
    /\ LET found == Registered(It.family)
       IN  \/ /\ found # {}
              /\ call' = [call EXCEPT !.pc = "family", !.todo = found, !.before = call.progress,
                                      !.share = ItemShare \div Cardinality(found)]
              /\ UNCHANGED <<repo, provisioned, changes, seen>>
           \/ found = {} /\ Answer(IF call.option THEN "failed" ELSE "ok")

\* The next package of the family, or the one that was named.
RemovePackageByFullName ==
    \/ /\ call.pc = "family"
       /\ \E p \in call.todo : Ask([call EXCEPT !.todo = @ \ {p}], p, call.share, call.before)
    \/ At("remove") /\ call.mode = "fullName" /\ AskFor(Named)

ProvisionPackageByFamilyName == At("provision") /\ AskFor(Named)

DeprovisionPackageByFamilyName == At("deprovision") /\ AskFor(Named)

-----------------------------------------------------------------------------
(* The deployment service *)

Newer(p) == {q \in Family(p[1]) : q[2] > p[2] /\ repo[q] = "registered"}
Older(p) == {q \in Family(p[1]) : q[2] < p[2]}

Finish(answer, r, prov) ==
    /\ call' = [call EXCEPT !.pc = "answered", !.answer = answer,
                            !.activity = IF answer = "thrown" THEN 0 ELSE call.i]
    /\ repo' = r /\ provisioned' = prov
    /\ seen' = Noted(seen, call.set, r, prov)
    /\ UNCHANGED changes

\* What the operation does when it succeeds: an update takes the place of older versions.
Deployed ==
    LET p == call.pkg
    IN  CASE call.kind = "stage" -> [repo EXCEPT ![p] = IF @ = "absent" THEN "staged" ELSE @]
          [] call.kind = "remove" -> [repo EXCEPT ![p] = "absent"]
          [] call.kind \in {"provision", "deprovision"} -> repo
          [] OTHER -> [q \in Packages |-> IF q = p THEN "registered"
                                          ELSE IF q \in Older(p) THEN "absent" ELSE repo[q]]

\* The service refuses a downgrade and a removal of what is not there, and may fail anyway.
Deploy ==
    /\ call.pc = "deploying"
    /\ LET p == call.pkg
           installs == call.kind \in {"ensure", "add", "stage", "register"}
       IN  \/ installs /\ Newer(p) # {} /\ Finish("downgrade", repo, provisioned)
           \/ call.kind = "remove" /\ repo[p] # "registered" /\ Finish("notFound", repo, provisioned)
           \/ /\ installs => Newer(p) = {}
              /\ call.kind = "remove" => repo[p] = "registered"
              /\ Finish("ok", Deployed,
                        CASE call.kind = "provision" -> provisioned \cup {p[1]}
                          [] call.kind = "deprovision" -> provisioned \ {p[1]}
                          [] OTHER -> provisioned)
           \/ \E answer \in {"failed", "thrown"} : Finish(answer, repo, provisioned)

\* Progress of the service: some operations add it to what was there, others put it in its place.
Adds == \/ call.kind \in {"ensure", "add", "stage"}
        \/ call.kind = "register" /\ call.mode # "fullName"
MaxOf(a, b) == IF a >= b THEN a ELSE b
\* Mutant: A set's progress starts from nothing at each item.
ReportFromZero ==
    /\ call.pc = "deploying"
    /\ \E percent \in {50, 100} :
          LET part == (percent * call.share) \div 100
          IN  call' = [call EXCEPT !.progress = part]
    /\ UNCHANGED <<repo, provisioned, changes, seen>>

Report ==
    /\ call.pc = "deploying"
    /\ \E percent \in {50, 100} :
          LET part == (percent * call.share) \div 100
          IN  call' = [call EXCEPT !.progress = IF Adds THEN MaxOf(@, call.before + part) ELSE part]
    /\ UNCHANGED <<repo, provisioned, changes, seen>>

\* Which answers an operation takes as success.
Succeeded ==
    \/ call.answer = "ok"
    \/ call.answer = "downgrade" /\ call.kind \in {"add", "stage", "register"}
    \/ call.answer = "notFound" /\ call.kind = "remove" /\ ~call.option

\* progressAfterPackage, reached when the item is done however it ended, unless by an
\* exception (which removal makes an error); for "ensure" added, and only on success.
ProgressAfterItem ==
    IF call.kind = "ensure" THEN IF Succeeded THEN call.progress + ItemShare ELSE call.progress
    ELSE IF Single \/ (call.answer = "thrown" /\ call.kind # "remove") THEN call.progress
    ELSE MaxOf(call.progress, call.before + ItemShare)

\* Mutant: A failing item does not stop the others; the last one's answer is the result.
AnsweredGoesOn ==
    /\ call.pc = "answered"
    /\ LET done == [call EXCEPT !.progress = ProgressAfterItem, !.answer = "none"]
       IN  call' = IF call.todo # {} THEN [call EXCEPT !.pc = "family", !.answer = "none"]
                   ELSE IF call.i < N THEN [done EXCEPT !.pc = "item", !.i = @ + 1]
                   ELSE Ended(done, IF Succeeded THEN "success" ELSE "failure")
    /\ UNCHANGED <<repo, provisioned, changes, seen>>

\* The operation has ended: the next package of the family, the next item, or the result.
Answered ==
    /\ call.pc = "answered"
    /\ LET done == [call EXCEPT !.progress = ProgressAfterItem, !.answer = "none"]
       IN  call' = IF ~Succeeded THEN Ended(done, "failure")
                   ELSE IF call.todo # {} THEN [call EXCEPT !.pc = "family", !.answer = "none"]
                   ELSE IF call.i < N THEN [done EXCEPT !.pc = "item", !.i = @ + 1]
                   ELSE Ended(done, "success")
    /\ UNCHANGED <<repo, provisioned, changes, seen>>

\* Another party deploys.
Change ==
    /\ changes < MaxChanges /\ call.pc \notin {"idle", "done"}
    /\ changes' = changes + 1
    /\ \/ \E p \in Packages, s \in States : s # repo[p] /\ repo' = [repo EXCEPT ![p] = s]
          /\ UNCHANGED provisioned
       \/ \E f \in Families : /\ provisioned' = (provisioned \ {f}) \cup ({f} \ provisioned)
                              /\ UNCHANGED repo
    /\ seen' = Noted(seen, call.set, repo', provisioned')
    /\ UNCHANGED call

Next ==
    \/ Begin \/ Validate \/ CheckReady \/ CheckProvisioned
    \/ EnsureReadyAsync \/ AddPackage \/ StagePackage
    \/ RegisterPackage \/ RegisterPackageByPackageFamilyName \/ RegisterPackageByPackageFullName
    \/ RemovePackage \/ RemovePackageByFamilyName \/ RemovePackageByFullName
    \/ ProvisionPackageByFamilyName \/ DeprovisionPackageByFamilyName
    \/ Deploy \/ Report \/ Answered \/ Change

Spec == Init /\ [][Next]_vars

-----------------------------------------------------------------------------
(* Properties *)

\* Package p, or a newer one of its family, was seen registered during the call.
SeenRegistered(p) == \E v \in Versions : v >= p[2] /\ <<<<p[1], v>>, "registered">> \in seen.states
SeenGone(p) == \E s \in {"absent", "staged"} : <<p, s>> \in seen.states
SeenStatus(j, statuses) == \E s \in statuses : <<j, s>> \in seen.status

\* What the operation promises for item j was so at some time during the call.
Achieved(j) ==
    LET f == Item(j).family
        atUri == <<f, Uri(j)>>
        named == <<f, Item(j).min>>
        byFamily == call.mode # "fullName" /\ Uri(j) = 0
    IN  /\ call.kind = "ensure" =>
               SeenStatus(j, Good(call.option)) \/ <<atUri, "registered">> \in seen.states
        /\ call.kind = "add" => SeenRegistered(atUri)
        /\ call.kind = "stage" => SeenRegistered(atUri) \/ <<atUri, "staged">> \in seen.states
        /\ call.kind = "register" =>
               IF byFamily THEN \E p \in Family(f) : <<p, "registered">> \in seen.states
               ELSE SeenRegistered(IF call.mode = "fullName" THEN named ELSE atUri)
        /\ call.kind = "remove" => IF byFamily THEN \A p \in Family(f) : SeenGone(p) ELSE SeenGone(named)
        /\ call.kind = "provision" => <<f, TRUE>> \in seen.provisioned
        /\ call.kind = "deprovision" => <<f, FALSE>> \in seen.provisioned

\* The answer of a call is true of the packages it names although others deploy at the same
\* time: an operation that succeeds has done every item, and a query saw every item so.
SuccessMeansDone ==
    LET items == 1 .. N
    IN  /\ call.result = "success" => N > 0 /\ \A j \in items : Achieved(j)
        /\ call.result = "ready" => N > 0 /\ \A j \in items : SeenStatus(j, Good(call.option))
        /\ call.result = "newer" => /\ \A j \in items : SeenStatus(j, {"ready", "newer"})
                                    /\ \E j \in items : SeenStatus(j, {"newer"})
        /\ call.result = "notReady" /\ N > 0 => \E j \in items : SeenStatus(j, {"notReady"})
        /\ call.result = "yes" => \A j \in items : <<Item(j).family, TRUE>> \in seen.provisioned
        /\ call.result = "no" /\ N > 0 => \E j \in items : <<Item(j).family, FALSE>> \in seen.provisioned

\* A failing operation stops at the item that failed: those before it are done, those after it
\* were never asked for, and the result names no other item's operation.
FailureLeavesPrefix ==
    call.result = "failure" => /\ \A j \in 1 .. N : j < call.i => Achieved(j)
                               /\ seen.asked \subseteq 1 .. call.i
                               /\ call.activity \in {0, call.i}

\* Progress of a set: while an item is done it is at least what it was when the item began
\* unless the service's progress takes its place, an item adds its share, and success is 1.0.
ProgressTold ==
    /\ TypeOK
    /\ call.pc \in {"deploying", "answered"} /\ Adds => call.progress \in call.before .. call.before + call.share
    /\ call.mode = "set" /\ call.kind \in {"add", "stage", "register", "remove"} =>
          /\ call.pc = "item" => call.progress = 10 * N + (call.i - 1) * ItemShare
          /\ call.result = "success" => call.progress = 100 * N
=============================================================================
