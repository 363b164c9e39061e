------------------------ MODULE NotificationPlatform ------------------------
(***************************************************************************)
(* The long-running process that receives push notifications for apps      *)
(* without package identity (PushNotificationsLongRunningTask) and the     *)
(* client calls that register with it (PushNotificationManager.cpp).  The  *)
(* process is started by COM activation, keeps a listener per app, and     *)
(* ends itself after five seconds without one.  Its calls that change the  *)
(* registrations hold the platform lock exclusively, the two that add and  *)
(* remove a listener hold it shared and run side by side.                  *)
(***************************************************************************)
EXTENDS Naturals, Sequences

CONSTANTS
    Apps,        \* apps, one process each at a time; an app is its processName
    Threads,     \* threads of the apps that call the client
    AppOf,       \* thread -> its app
    OpsOf,       \* thread -> the operations it calls
    Calls,       \* thread -> BOUND on how many operations it starts
    Either,      \* BOUND: of these threads only one, any of them, starts operations
    Packaged,    \* apps for which IsPackagedProcess holds
    Handling,    \* apps with a PushReceived handler
    MaxIds,      \* BOUND on the identifiers an app is given
    MaxStarts,   \* BOUND on the starts of the long-running process
    MaxTries,    \* c_maxBackoff: retries of a channel request
    MaxEnds,     \* app -> BOUND on the ends of its process
    MaxNotes,    \* BOUND on notifications delivered
    None

ASSUME ShapeAssumption ==
    /\ AppOf \in [Threads -> Apps]
    /\ Packaged \subseteq Apps /\ Handling \subseteq Apps
    /\ None \notin Threads /\ None \notin Apps \X Nat
    /\ Calls \in [Threads -> Nat] /\ MaxEnds \in [Apps -> Nat]
    /\ MaxIds \in Nat /\ MaxStarts \in Nat \ {0} /\ MaxTries \in Nat /\ MaxNotes \in Nat

Ids == Apps \X (1 .. MaxIds)
Ops == {"Register", "Unregister", "UnregisterAll", "CreateChannel"}

VARIABLES
    raw,         \* Raw container: app -> number of its identifier, 0 without one
    issued,      \* app -> identifiers created for it
    clsid,       \* ComServerClsid container: identifiers with an entry
    toast,       \* Toast container: apps with a mapping
    wpn,         \* what wpncore keeps: full-trust apps, channels, sinks; see stray
    lrp,         \* the long-running process and its lifetime manager
    listeners,   \* m_notificationListeners
    foreground,  \* m_foregroundMap: identifier -> its entry, see Sinks
    app,         \* app -> its client object
    thread,      \* thread -> the operation it is in
    note         \* the notification in a foreground handler

store == <<raw, issued, clsid, toast>>
memory == <<listeners, foreground>>
vars == <<store, wpn, lrp, memory, app, thread, note>>

\* The platform calls of each operation in order; "claim" and "close" are local.
Script ==
    [Register |-> <<"connect", "fullTrust", "connect", "foreground", "longRunning", "com">>,
     Unregister |-> <<"connect", "dropForeground">>,
     UnregisterAll |-> <<"connect", "dropForeground", "claim", "close",
                         "connect", "dropLongRunning", "dropFullTrust">>,
     CreateChannel |-> <<"connect", "fullTrust", "channel", "foreground", "longRunning", "toast">>,
     Undo |-> <<"dropLongRunning", "dropForeground", "dropFullTrust">>,
     Gone |-> <<>>]

Exclusive == {"add", "remove"}
Shared == {"listen", "insert", "cancel", "unlisten", "erase", "forget", "empty", "setup"}

\* An identifier has no entry ("none"), the sink of a live process, the sink of
\* one that has gone, or, as history, an entry that a failed call has erased.
Sinks == {"sink", "stale"}
Entries == Sinks \cup {"none", "dropped"}

Idle(n) == [op |-> "none", at |-> 1, full |-> 0, conn |-> 0, inside |-> "none",
            id |-> None, appId |-> None, tries |-> 0, left |-> n]
NewApp == [alive |-> TRUE, fg |-> FALSE, lr |-> FALSE, com |-> FALSE,
           registering |-> FALSE, channel |-> None, epoch |-> 0,
           ends |-> 0, viaChannel |-> FALSE, mixed |-> FALSE, undone |-> FALSE]

Init ==
    /\ raw = [a \in Apps |-> 0] /\ issued = [a \in Apps |-> 0]
    /\ clsid = {} /\ toast = {}
    /\ wpn = [trusted |-> {}, channels |-> {}, sinks |-> {}, stray |-> {}]
    /\ lrp = [state |-> "off", epoch |-> 0, timer |-> FALSE, event |-> FALSE,
              late |-> FALSE, slow |-> {}]
    /\ listeners = {} /\ foreground = [i \in Ids |-> "none"]
    /\ app = [a \in Apps |-> NewApp]
    /\ thread = [t \in Threads |-> Idle(Calls[t])]
    /\ note = [id |-> None, left |-> MaxNotes]

ThreadType ==
    [op : DOMAIN Script \cup {"none"}, at : Nat, full : 0 .. MaxStarts, conn : 0 .. MaxStarts,
     inside : Exclusive \cup Shared \cup {"none", "activating"},
     id : (Apps \X (0 .. MaxIds)) \cup {None}, appId : Ids \cup {None}, tries : Nat, left : Nat]
AppType ==
    [alive : BOOLEAN, fg : BOOLEAN, lr : BOOLEAN, com : BOOLEAN, registering : BOOLEAN,
     channel : Ids \cup {None}, epoch : 0 .. MaxStarts, ends : Nat, viaChannel : BOOLEAN,
     mixed : BOOLEAN, undone : BOOLEAN]
ProcessType ==
    [state : {"off", "starting", "up", "awake", "stopping"}, epoch : 0 .. MaxStarts,
     timer : BOOLEAN, event : BOOLEAN, late : BOOLEAN, slow : SUBSET Ids]

TypeOK ==
    /\ raw \in [Apps -> 0 .. MaxIds] /\ issued \in [Apps -> 0 .. MaxIds]
    /\ \A a \in Apps : raw[a] <= issued[a]
    /\ clsid \subseteq Ids /\ toast \subseteq Apps
    /\ wpn \in [trusted : SUBSET Ids, channels : SUBSET Ids, sinks : SUBSET Ids, stray : SUBSET Ids]
    /\ lrp \in ProcessType
    /\ listeners \subseteq Ids /\ foreground \in [Ids -> Entries]
    /\ app \in [Apps -> AppType]
    /\ thread \in [Threads -> ThreadType]
    /\ \A t \in Threads : thread[t].op = "Gone" => thread[t].inside \in Exclusive \cup Shared
    /\ note \in [id : Ids \cup {None}, left : Nat]

IdOf(a) == <<a, raw[a]>>
Known(a) == raw[a] # 0
Op(t) == thread[t].op
Current(t) == Script[Op(t)][thread[t].at]
At(t, call) == Op(t) \notin {"none", "Gone"} /\ thread[t].inside = "none" /\ Current(t) = call
Inside(t, step) == thread[t].inside = step
Enter(t, step, id) == thread' = [thread EXCEPT ![t].inside = step, ![t].id = id]

SharedFree == \A t \in Threads : thread[t].inside \notin Exclusive
PlatformFree == \A t \in Threads : thread[t].inside \notin Exclusive \cup Shared
SinksFree == note.id = None     \* ForegroundSinkManager's lock

\* The client's m_lock can be taken exclusively: InvokeAll holds it shared while
\* the app's handlers run.  A handler may never return.
HandlersDone(a) == ~(note.id \in Ids /\ note.id[1] = a /\ foreground[note.id] = "sink")

(***************************************************************************)
(* The lifetime manager.  lrp.late is history: the platform kept an app    *)
(* after it had decided to end, or decided to end while it had one.        *)
(***************************************************************************)
Setup == [lrp EXCEPT !.timer = TRUE, !.event = FALSE, !.late = @ \/ listeners # {}]
Cancel == [lrp EXCEPT !.timer = FALSE, !.late = @ \/ lrp.event \/ lrp.state = "awake"]

TimerFires ==
    /\ lrp.state \in {"starting", "up", "awake", "stopping"} /\ lrp.timer
    /\ lrp' = [lrp EXCEPT !.timer = FALSE, !.event = TRUE]
    /\ UNCHANGED <<store, wpn, memory, app, thread, note>>

(***************************************************************************)
(* The process: WinMain, Initialize, Shutdown.                             *)
(***************************************************************************)
Started == [lrp EXCEPT !.state = "starting", !.epoch = @ + 1, !.timer = TRUE,
                       !.event = FALSE, !.late = FALSE]

StartupTask ==
    /\ lrp.state = "off" /\ lrp.epoch = 0
    /\ lrp' = Started
    /\ UNCHANGED <<store, wpn, memory, app, thread, note>>

Loadable == {i \in wpn.channels : raw[i[1]] = i[2]}
CanLoad == Loadable \subseteq clsid

\* An AddListener that fails ends the start like a class that is not found.
Initialize ==
    /\ lrp.state = "starting"
    /\ \/ /\ CanLoad
          /\ lrp' = [(IF Loadable = {} THEN lrp ELSE Cancel) EXCEPT !.state = "up"]
          /\ listeners' = Loadable
          /\ wpn' = [wpn EXCEPT !.sinks = @ \cup Loadable]
       \/ /\ Loadable # {}
          /\ lrp' = [lrp EXCEPT !.state = "off", !.timer = FALSE, !.event = FALSE]
          /\ UNCHANGED <<listeners, wpn>>
    /\ UNCHANGED <<store, foreground, app, thread, note>>

WaitReturns ==
    /\ lrp.state = "up" /\ lrp.event
    /\ lrp' = [lrp EXCEPT !.state = "awake", !.event = FALSE]
    /\ UNCHANGED <<store, wpn, memory, app, thread, note>>

Shutdown ==
    /\ lrp.state = "awake" /\ PlatformFree
    /\ lrp' = [lrp EXCEPT !.state = "stopping"]
    /\ UNCHANGED <<store, wpn, memory, app, thread, note>>

Exit ==
    /\ lrp.state = "stopping"
    /\ lrp' = [lrp EXCEPT !.state = "off", !.timer = FALSE, !.event = FALSE]
    /\ listeners' = {} /\ foreground' = [i \in Ids |-> "none"]
    /\ wpn' = [wpn EXCEPT !.sinks = {}, !.stray = {}]
    /\ note' = [note EXCEPT !.id = None]
    /\ UNCHANGED <<store, app, thread>>

(***************************************************************************)
(* What the return of a call, its failure and the end of a process do in   *)
(* the app.  An operation whose process has gone runs on in the platform.  *)
(* app.undone is history: a Register that failed was undone to the end and *)
(* took with it the identifier that an earlier operation had listened to.  *)
(***************************************************************************)
LastCall(t) == thread[t].at = Len(Script[Op(t)])

Noted(client, t) ==
    LET call == Current(t) IN
    [client EXCEPT
       !.fg = (@ \/ (Op(t) = "Register" /\ call = "foreground")) /\ call # "dropForeground",
       !.lr = (@ \/ (Op(t) = "Register" /\ call = "longRunning")) /\ call # "dropLongRunning",
       !.com = @ \/ (call = "com" /\ AppOf[t] \in Packaged),
       !.viaChannel = (@ \/ (Op(t) = "CreateChannel" /\ call = "foreground"))
                      /\ call \notin {"dropForeground", "dropLongRunning"},
       !.epoch = IF call = "longRunning" THEN thread[t].conn ELSE @,
       !.undone = @ \/ (Op(t) = "Undo" /\ call = "dropFullTrust" /\ Known(AppOf[t])),
       !.registering = @ /\ \/ Op(t) = "CreateChannel"
                            \/ ~LastCall(t) /\ <<Op(t), call>> # <<"UnregisterAll", "dropForeground">>]

ReturnedWith(t, appId) ==
    IF Op(t) = "Gone"
    THEN /\ thread' = [thread EXCEPT ![t] = Idle(@.left)]
         /\ UNCHANGED app
    ELSE /\ thread' = [thread EXCEPT ![t] = IF LastCall(t) THEN Idle(@.left)
                                            ELSE [thread[t] EXCEPT !.at = thread[t].at + 1, !.inside = "none",
                                                                   !.appId = appId]]
         /\ app' = [app EXCEPT ![AppOf[t]] = Noted(@, t)]

Returned(t) == ReturnedWith(t, thread[t].appId)

\* The process of a ends; what thread t was in has returned.
Ended(a, t) ==
    /\ app' = [app EXCEPT ![a] = [NewApp EXCEPT !.alive = FALSE, !.ends = app[a].ends + 1,
                                     !.mixed = app[a].mixed, !.undone = app[a].undone]]
    /\ thread' = [u \in Threads |->
         IF AppOf[u] # a THEN thread[u]
         ELSE IF u # t /\ thread[u].inside \in Exclusive \cup Shared
              THEN [thread[u] EXCEPT !.op = "Gone"] ELSE Idle(thread[u].left)]
    /\ foreground' = [i \in Ids |-> IF i[1] = a /\ foreground[i] = "sink" THEN "stale" ELSE foreground[i]]

\* Where Register's scope exits begin, given the call that failed.
UndoFrom(call) == CASE call = "com" -> 1 [] call = "longRunning" -> 2 [] OTHER -> 3
MayRetry(t) == thread[t].tries < MaxTries

Failed(t, retryable) ==
    LET a == AppOf[t]
        GiveUp == /\ thread' = [thread EXCEPT ![t] = Idle(@.left)]
                  /\ app' = [app EXCEPT ![a].registering = @ /\ Op(t) \in {"CreateChannel", "Gone"}]
                  /\ UNCHANGED foreground
    IN CASE Op(t) = "CreateChannel" /\ retryable /\ MayRetry(t) ->
              /\ thread' = [thread EXCEPT ![t].at = 1, ![t].inside = "none", ![t].tries = @ + 1]
              /\ UNCHANGED <<app, foreground>>
         [] Op(t) = "Register" /\ thread[t].at > 2 ->
              /\ thread' = [thread EXCEPT ![t].op = "Undo", ![t].at = UndoFrom(Current(t)),
                                           ![t].inside = "none"]
              /\ UNCHANGED <<app, foreground>>
         [] Op(t) = "Undo" -> Ended(a, t)    \* a throw out of a scope exit
         [] OTHER -> GiveUp

AppEnds(a) ==
    /\ app[a].alive /\ app[a].ends < MaxEnds[a]
    /\ Ended(a, None)
    /\ UNCHANGED <<store, wpn, lrp, listeners, note>>

AppStarts(a) ==
    /\ ~app[a].alive
    /\ app' = [app EXCEPT ![a].alive = TRUE]
    /\ UNCHANGED <<store, wpn, lrp, memory, thread, note>>

(***************************************************************************)
(* The client's operations.  One that is refused at its first check        *)
(* changes nothing and is left out.                                        *)
(***************************************************************************)
MayStart(t, o) ==
    LET a == app[AppOf[t]] IN
    /\ o \in OpsOf[t] /\ Op(t) = "none" /\ thread[t].left > 0 /\ a.alive
    /\ t \in Either => \A u \in Either \ {t} : thread[u].left = Calls[u]
    /\ o # "CreateChannel" => ~a.registering
    /\ o = "Register" => ~a.fg /\ ~a.lr /\ ~a.com
    /\ o = "Unregister" => a.fg /\ (AppOf[t] \in Packaged => a.com)
    /\ o = "UnregisterAll" => (a.fg \/ a.com => a.fg /\ (AppOf[t] \in Packaged => a.com))

\* app.mixed is history: two operations of the app have overlapped (a channel
\* request is not kept apart from the others).
Busy(a) == \E t \in Threads : AppOf[t] = a /\ Op(t) \notin {"none", "Gone"}

Start(t, o) ==
    LET a == AppOf[t]
        claims == o # "CreateChannel" /\ ~(o = "UnregisterAll" /\ ~app[a].fg)
    IN /\ MayStart(t, o)
       /\ claims => HandlersDone(a)
       /\ thread' = [thread EXCEPT ![t] = [Idle(@.left - 1) EXCEPT
                        !.op = o, !.at = IF o = "UnregisterAll" /\ ~app[a].fg THEN 3 ELSE 1]]
       /\ app' = [app EXCEPT
                   ![a].mixed = @ \/ \E u \in Threads : AppOf[u] = a /\ Op(u) # "none",
                   ![a].registering = @ \/ claims,
                   ![a].com = @ /\ o \notin {"Unregister", "UnregisterAll"}]
       /\ UNCHANGED <<store, wpn, lrp, memory, note>>

Claim(t) ==
    /\ At(t, "claim") /\ HandlersDone(AppOf[t])
    /\ IF app[AppOf[t]].registering
       THEN thread' = [thread EXCEPT ![t] = Idle(@.left)] /\ UNCHANGED app
       ELSE /\ thread' = [thread EXCEPT ![t].at = @ + 1]
            /\ app' = [app EXCEPT ![AppOf[t]].registering = TRUE]
    /\ UNCHANGED <<store, wpn, lrp, memory, note>>

Close(t) ==
    /\ At(t, "close")
    /\ \/ /\ wpn' = [wpn EXCEPT !.channels = @ \ {app[AppOf[t]].channel}]
          /\ IF app[AppOf[t]].lr THEN Returned(t) /\ UNCHANGED foreground ELSE Failed(t, FALSE)
       \/ /\ app[AppOf[t]].channel # None
          /\ Failed(t, FALSE) /\ UNCHANGED wpn
    /\ UNCHANGED <<store, lrp, listeners, note>>

RegisterClass(t) ==
    /\ At(t, "com") /\ (AppOf[t] \in Packaged => HandlersDone(AppOf[t]))
    /\ \/ Returned(t) /\ UNCHANGED foreground
       \/ AppOf[t] \in Packaged /\ Failed(t, FALSE)
    /\ UNCHANGED <<store, wpn, lrp, listeners, note>>

\* CoCreateInstance: it starts the process, or waits for the one that starts.
Connected(t) ==
    /\ thread' = [thread EXCEPT
            ![t].at = @ + 1, ![t].inside = "none", ![t].conn = lrp.epoch,
            ![t].full = IF Op(t) = "Register" /\ thread[t].at > 1 THEN @ ELSE lrp.epoch]
    /\ UNCHANGED <<app, foreground>>
Running == lrp.state \in {"up", "awake", "stopping"}

Connect(t) ==
    /\ At(t, "connect")
    /\ CASE Running -> Connected(t) /\ UNCHANGED lrp
         [] lrp.state = "off" /\ lrp.epoch = MaxStarts -> Failed(t, FALSE) /\ UNCHANGED lrp
         [] OTHER ->
              /\ lrp' = IF lrp.state = "off" THEN Started ELSE lrp
              /\ thread' = [thread EXCEPT ![t].inside = "activating", ![t].conn = lrp'.epoch]
              /\ UNCHANGED <<app, foreground>>
    /\ UNCHANGED <<store, wpn, listeners, note>>

ActivationEnds(t) ==
    /\ Inside(t, "activating")
    /\ ~(lrp.state = "starting" /\ lrp.epoch = thread[t].conn)
    /\ IF Running /\ lrp.epoch = thread[t].conn THEN Connected(t) ELSE Failed(t, FALSE)
    /\ UNCHANGED <<store, wpn, lrp, listeners, note>>

(***************************************************************************)
(* The platform's calls.  Answers: does the process the thread holds a     *)
(* proxy of still answer?  A shut-down platform refuses every call; a      *)
(* process that has gone gives an error the client retries.                *)
(***************************************************************************)
PlatformCalls == {"fullTrust", "dropFullTrust", "foreground", "dropForeground",
                  "longRunning", "dropLongRunning", "toast"}
Proxy(t) == IF Op(t) = "Undo" /\ Current(t) = "dropFullTrust" THEN thread[t].full ELSE thread[t].conn
Gone(t) == lrp.epoch # Proxy(t) \/ lrp.state = "off"
Answers(t) == ~Gone(t) /\ lrp.state \in {"up", "awake"}

Refused(t) ==
    /\ \E call \in PlatformCalls : At(t, call)
    /\ ~Answers(t)
    /\ Failed(t, Gone(t))
    /\ UNCHANGED <<store, wpn, lrp, listeners, note>>

\* Mutant: a new identifier for every registration.
BuildFreshIdentifier(a) == issued[a] + 1

\* BuildAppIdentifier: the identifier the app has, or a new one.
BuildAppIdentifier(a) == IF Known(a) THEN raw[a] ELSE issued[a] + 1

RegisterFullTrustApplication(t) ==
    LET a == AppOf[t]
        n == BuildAppIdentifier(a)
    IN /\ At(t, "fullTrust") /\ Answers(t) /\ PlatformFree
       /\ n <= MaxIds
       /\ raw' = [raw EXCEPT ![a] = n] /\ issued' = [issued EXCEPT ![a] = IF n > @ THEN n ELSE @]
       /\ \/ /\ wpn' = [wpn EXCEPT !.trusted = @ \cup {<<a, n>>}]
             /\ ReturnedWith(t, <<a, n>>) /\ UNCHANGED foreground
          \/ Failed(t, FALSE) /\ UNCHANGED wpn
       /\ UNCHANGED <<clsid, toast, lrp, listeners, note>>

UnregisterFullTrustApplication(t) ==
    LET a == AppOf[t] IN
    /\ At(t, "dropFullTrust") /\ Answers(t) /\ PlatformFree
    /\ IF ~Known(a)
       THEN Returned(t) /\ UNCHANGED <<raw, wpn, foreground>>
       ELSE \/ /\ wpn' = [wpn EXCEPT !.trusted = @ \ {IdOf(a)}]
               /\ raw' = [raw EXCEPT ![a] = 0]
               /\ Returned(t) /\ UNCHANGED foreground
            \/ Failed(t, FALSE) /\ UNCHANGED <<raw, wpn>>
    /\ UNCHANGED <<issued, clsid, toast, lrp, listeners, note>>

\* Outside the platform: the client asks wpncore for a channel.  lrp.slow is
\* history: identifiers with a channel whose listener was never registered.
CreateChannelWithRemoteId(t) ==
    LET id == thread[t].appId IN
    /\ At(t, "channel")
    /\ \/ /\ id \in wpn.trusted
          /\ wpn' = [wpn EXCEPT !.channels = @ \cup {id}]
          /\ lrp' = [lrp EXCEPT !.slow = IF id \in clsid THEN @ ELSE @ \cup {id}]
          /\ Returned(t) /\ UNCHANGED foreground
       \/ \E retryable \in BOOLEAN : Failed(t, retryable) /\ UNCHANGED <<wpn, lrp>>
    /\ UNCHANGED <<store, listeners, note>>

\* RegisterForegroundActivator and its inverse wait for the sink manager's
\* lock with the platform lock held.
ForegroundActivator(t) ==
    /\ At(t, "foreground") \/ At(t, "dropForeground")
    /\ Answers(t) /\ PlatformFree
    /\ IF Known(AppOf[t])
       THEN Enter(t, IF Current(t) = "foreground" THEN "add" ELSE "remove", IdOf(AppOf[t])) /\ UNCHANGED app
       ELSE Returned(t)
    /\ UNCHANGED <<store, wpn, lrp, memory, note>>

AddSink(t) ==
    /\ Inside(t, "add") /\ SinksFree
    /\ foreground' = [foreground EXCEPT ![thread[t].id] = IF Op(t) = "Gone" THEN "stale" ELSE "sink"]
    /\ lrp' = Cancel
    /\ Returned(t)
    /\ UNCHANGED <<store, wpn, listeners, note>>

\* Mutant: the sink is removed without waiting for the handler that runs.
RemoveSinkAtOnce(t) ==
    /\ Inside(t, "remove")
    /\ foreground' = [foreground EXCEPT ![thread[t].id] = "none"]
    /\ Returned(t)
    /\ UNCHANGED <<store, wpn, lrp, listeners, note>>

RemoveSink(t) ==
    /\ Inside(t, "remove") /\ SinksFree
    /\ foreground' = [foreground EXCEPT ![thread[t].id] = "none"]
    /\ Returned(t)
    /\ UNCHANGED <<store, wpn, lrp, listeners, note>>

AddToastRegistrationMapping(t) ==
    /\ At(t, "toast") /\ Answers(t) /\ PlatformFree
    /\ toast' = IF Known(AppOf[t]) THEN toast \cup {AppOf[t]} ELSE toast
    /\ thread' = [thread EXCEPT ![t] = Idle(@.left)]
    /\ app' = [app EXCEPT ![AppOf[t]].channel = thread[t].appId]
    /\ UNCHANGED <<raw, issued, clsid, wpn, lrp, memory, note>>

\* RegisterLongRunningActivatorWithClsid, under the shared lock.
RegisterLongRunningActivator(t) ==
    LET id == IdOf(AppOf[t]) IN
    /\ At(t, "longRunning") /\ Answers(t) /\ SharedFree
    /\ IF Known(AppOf[t])
       THEN /\ clsid' = clsid \cup {id}
            /\ lrp' = [lrp EXCEPT !.slow = @ \ {id}]
            /\ Enter(t, "listen", id) /\ UNCHANGED app
       ELSE Returned(t) /\ UNCHANGED <<clsid, lrp>>
    /\ UNCHANGED <<raw, issued, toast, wpn, memory, note>>

\* AddListener registers the sink with wpncore and then puts the listener into
\* the list; either may fail.  wpn.stray is history: sinks that wpncore keeps
\* because what should follow or undo their registration failed.
AddListener(t) ==
    /\ Inside(t, "listen")
    /\ \/ /\ wpn' = [wpn EXCEPT !.sinks = @ \cup {thread[t].id}]
          /\ Enter(t, "insert", thread[t].id) /\ UNCHANGED <<app, foreground>>
       \/ Failed(t, FALSE) /\ UNCHANGED wpn
    /\ UNCHANGED <<store, lrp, listeners, note>>

InsertListener(t) ==
    /\ Inside(t, "insert")
    /\ \/ /\ listeners' = listeners \cup {thread[t].id}
          /\ wpn' = [wpn EXCEPT !.stray = @ \ {thread[t].id}]
          /\ Enter(t, "cancel", thread[t].id) /\ UNCHANGED <<app, foreground>>
       \/ /\ wpn' = [wpn EXCEPT !.stray = @ \cup {thread[t].id}]
          /\ Failed(t, FALSE) /\ UNCHANGED listeners
    /\ UNCHANGED <<store, lrp, note>>

\* Mutant: the timer is left running.
CancelTimerForgets(t) ==
    /\ Inside(t, "cancel")
    /\ Returned(t)
    /\ UNCHANGED <<store, wpn, lrp, memory, note>>

CancelTimer(t) ==
    /\ Inside(t, "cancel")
    /\ lrp' = Cancel
    /\ Returned(t)
    /\ UNCHANGED <<store, wpn, memory, note>>

UnregisterLongRunningActivator(t) ==
    LET id == IdOf(AppOf[t]) IN
    /\ At(t, "dropLongRunning") /\ Answers(t) /\ SharedFree
    /\ Enter(t, IF Known(AppOf[t]) THEN "unlisten" ELSE "empty", id)
    /\ UNCHANGED <<store, wpn, lrp, memory, app, note>>

\* RemoveListener: a failure of wpncore is logged and the listener erased.
RemoveListener(t) ==
    LET id == thread[t].id IN
    /\ Inside(t, "unlisten")
    /\ \/ wpn' = [wpn EXCEPT !.sinks = @ \ {id}, !.stray = @ \ {id}]
       \/ wpn' = [wpn EXCEPT !.stray = @ \cup (wpn.sinks \cap {id})]
    /\ Enter(t, "erase", id)
    /\ UNCHANGED <<store, lrp, memory, app, note>>

EraseListener(t) ==
    /\ Inside(t, "erase")
    /\ listeners' = listeners \ {thread[t].id}
    /\ Enter(t, "forget", thread[t].id)
    /\ UNCHANGED <<store, wpn, lrp, foreground, app, note>>

\* Mutant: the identifier is left for UnregisterFullTrustApplication to remove.
ForgetKeepsRaw(t) ==
    LET id == thread[t].id IN
    /\ Inside(t, "forget") /\ SinksFree
    /\ foreground' = [foreground EXCEPT ![id] = "none"]
    /\ clsid' = clsid \ {id} /\ toast' = toast \ {id[1]}
    /\ Enter(t, "empty", id)
    /\ UNCHANGED <<raw, issued, wpn, lrp, listeners, app, note>>

\* Mutant: the toast mapping is kept.
ForgetKeepsToast(t) ==
    LET id == thread[t].id IN
    /\ Inside(t, "forget") /\ SinksFree
    /\ foreground' = [foreground EXCEPT ![id] = "none"]
    /\ raw' = [raw EXCEPT ![id[1]] = IF @ = id[2] THEN 0 ELSE @]
    /\ clsid' = clsid \ {id}
    /\ Enter(t, "empty", id)
    /\ UNCHANGED <<issued, toast, wpn, lrp, listeners, app, note>>

Forget(t) ==
    LET id == thread[t].id
        a == id[1]
    IN /\ Inside(t, "forget") /\ SinksFree
       /\ foreground' = [foreground EXCEPT ![id] = "none"]
       /\ raw' = [raw EXCEPT ![a] = IF @ = id[2] THEN 0 ELSE @]
       /\ clsid' = clsid \ {id} /\ toast' = toast \ {a}
       /\ Enter(t, "empty", id)
       /\ UNCHANGED <<issued, wpn, lrp, listeners, app, note>>

IsEmpty(t) ==
    /\ Inside(t, "empty")
    /\ IF listeners = {} THEN Enter(t, "setup", thread[t].id) /\ UNCHANGED app ELSE Returned(t)
    /\ UNCHANGED <<store, wpn, lrp, memory, note>>

SetupTimer(t) ==
    /\ Inside(t, "setup")
    /\ lrp' = Setup
    /\ Returned(t)
    /\ UNCHANGED <<store, wpn, memory, note>>

(***************************************************************************)
(* A raw notification reaches a listener, which holds the sink manager's   *)
(* lock while the app's handlers run; an app that does not handle it is    *)
(* launched, unless that fails.  A call to the app that fails erases its   *)
(* sink, whether its process has gone or not.                              *)
(***************************************************************************)
Launch(a) == app' = app \/ app' = [app EXCEPT ![a].alive = TRUE]

OnRawNotificationReceived(i) ==
    /\ i \in wpn.sinks \cap wpn.channels /\ SinksFree /\ note.left > 0
    /\ note' = [note EXCEPT !.left = @ - 1, !.id = IF foreground[i] \in Sinks THEN i ELSE None]
    /\ IF foreground[i] \in Sinks THEN UNCHANGED app ELSE Launch(i[1])
    /\ UNCHANGED <<store, wpn, lrp, memory, thread>>

InvocationEnds ==
    LET i == note.id IN
    /\ i # None
    /\ note' = [note EXCEPT !.id = None]
    /\ \/ /\ foreground[i] = "sink"
          /\ IF i[1] \in Handling THEN UNCHANGED app ELSE Launch(i[1])
          /\ UNCHANGED foreground
       \/ /\ foreground' = [foreground EXCEPT ![i] = "dropped"]
          /\ Launch(i[1])
    /\ UNCHANGED <<store, wpn, lrp, listeners, thread>>

(***************************************************************************)
ThreadStep(t) ==
    \/ Claim(t) \/ Close(t) \/ RegisterClass(t)
    \/ Connect(t) \/ ActivationEnds(t) \/ Refused(t)
    \/ RegisterFullTrustApplication(t) \/ UnregisterFullTrustApplication(t)
    \/ CreateChannelWithRemoteId(t) \/ ForegroundActivator(t) \/ AddSink(t) \/ RemoveSink(t)
    \/ AddToastRegistrationMapping(t)
    \/ RegisterLongRunningActivator(t) \/ AddListener(t) \/ InsertListener(t) \/ CancelTimer(t)
    \/ UnregisterLongRunningActivator(t) \/ RemoveListener(t) \/ EraseListener(t)
    \/ Forget(t) \/ IsEmpty(t) \/ SetupTimer(t)

ProcessStep == TimerFires \/ Initialize \/ WaitReturns \/ Shutdown \/ Exit

Next ==
    \/ \E t \in Threads, o \in Ops : Start(t, o)
    \/ \E t \in Threads : ThreadStep(t)
    \/ \E a \in Apps : AppEnds(a) \/ AppStarts(a)
    \/ StartupTask \/ ProcessStep
    \/ \E i \in Ids : OnRawNotificationReceived(i)
    \/ InvocationEnds

Spec == Init /\ [][Next]_vars

(***************************************************************************)
(* Properties.                                                             *)
(***************************************************************************)
\* The process never shuts down while it keeps an app's listener, except when
\* it had made up its mind before: the timer had fired when the app came, or
\* the check for emptiness was overtaken by a registration.
TrackedStays == lrp.state = "stopping" /\ listeners # {} => lrp.late

\* The next start of the process succeeds: every app it would load has its
\* class identifier stored, except one whose channel was created and whose
\* listener never registered.
PlatformStarts == Loadable \subseteq clsid \cup lrp.slow

\* Between calls the sinks that wpncore has are those of the listeners in the
\* process's list, and the stray ones; not of an app that overlapped its
\* operations, which can add and remove a listener at the same time.
ListenersMatch ==
    lrp.state \in {"up", "awake"} /\ (\A t \in Threads : thread[t].inside \notin Shared)
        => \A i \in Ids :
              \/ app[i[1]].mixed
              \/ IF i \in wpn.stray THEN i \in wpn.sinks ELSE i \in listeners <=> i \in wpn.sinks

\* An app that believes itself registered with the process that runs is: its
\* listener is in the list and its foreground sink in the map, unless a call
\* to that sink has failed, of which the app is not told.
RegisteredServed ==
    \A a \in Apps :
        app[a].alive /\ app[a].fg /\ app[a].lr /\ ~Busy(a)
            /\ lrp.state = "up" /\ lrp.epoch = app[a].epoch
        => IdOf(a) \in listeners /\ foreground[IdOf(a)] \in {"sink", "dropped"}

\* The registrations are what they should be, in type and content.
RegistrationsKept == TypeOK /\ ListenersMatch /\ RegisteredServed

\* Once Unregister has returned no handler of the process runs, unless a
\* channel request registered the sink again or overlapped it.
QuietAfterUnregister ==
    note.id # None =>
        LET a == note.id[1] IN
        foreground[note.id] # "stale" => app[a].mixed \/ app[a].fg \/ app[a].viaChannel \/ Busy(a)

\* When UnregisterAll returns to an app that never overlapped its operations
\* and never had a Register undone past its identifier, the process keeps no
\* listener, sink, identifier, class identifier or toast mapping of it.  What
\* wpncore may keep is not said: a sink whose removal failed, and always the
\* full-trust registration, whose identifier is gone when it is looked for.
UnregisterAllReturns(t) ==
    /\ At(t, "dropFullTrust") /\ Op(t) = "UnregisterAll"
    /\ Answers(t) /\ Op(t)' = "none" /\ app'[AppOf[t]].alive
Traces(a) ==
    {i \in listeners \cup (wpn.sinks \ wpn.stray) \cup clsid
             \cup {j \in Ids : j = IdOf(j[1]) \/ foreground[j] # "none"} : i[1] = a}
UnregisterAllForgets ==
    [][\A t \in Threads :
          UnregisterAllReturns(t) /\ ~app[AppOf[t]].mixed /\ ~app[AppOf[t]].undone
          => Traces(AppOf[t])' = {} /\ AppOf[t] \notin toast']_vars
=============================================================================
