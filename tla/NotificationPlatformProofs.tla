--------------------- MODULE NotificationPlatformProofs ---------------------
(***************************************************************************)
(* Proofs about NotificationPlatform: for any apps, threads and calls, and *)
(* whatever app or process ends, the process keeps the listeners of those  *)
(* who registered, loads them at its next start, calls nobody who has left *)
(* and keeps nothing of an app that has unregistered all.                  *)
(*                                                                         *)
(* The invariant has a part for the process and one, Whole, for each app   *)
(* with its threads.  A step of a thread changes only what is of its own   *)
(* app (FrameWhole keeps the others), and of its siblings it touches what  *)
(* SiblingsKept and ServiceKept say.  Steps of a kind are proved together: *)
(* a call returns (ReturningWhole), fails (FailingWhole), goes on in the   *)
(* platform (EnteringWhole), connects, or returns to an app that has gone. *)
(***************************************************************************)
EXTENDS NotificationPlatform, TLAPS

(***************************************************************************)
(* The inductive invariant.  Its first part is about the process as a      *)
(* whole, the others about one app and its threads.                        *)
(***************************************************************************)
Live(t) == Op(t) \notin {"none", "Gone"}
Locked(t) == thread[t].inside \in Exclusive \cup Shared
HasId(t) ==
    thread[t].inside \in {"add", "remove", "listen", "insert", "cancel", "unlisten", "erase", "forget"}
Held == {"sink", "dropped"}

\* The platform lock, and the process that holds it.
Locks ==
    /\ \A t, u \in Threads : thread[t].inside \in Exclusive /\ Locked(u) => t = u
    /\ \A t \in Threads : Locked(t) => lrp.state \in {"up", "awake"}

\* A listener the process does not expect to keep has a thread that cancels
\* the timer, or is what lrp.late is the history of.
Early ==
    listeners # {} /\ (lrp.timer \/ lrp.event \/ lrp.state \in {"awake", "stopping"})
        => lrp.late \/ \E t \in Threads : thread[t].inside = "cancel"

\* A process that does not run has nothing in memory.
Cleared ==
    /\ lrp.state \in {"off", "starting"}
         => listeners = {} /\ wpn.sinks = {} /\ \A i \in Ids : foreground[i] = "none"
    /\ lrp.epoch = 0 => lrp.state = "off"

\* An identifier that wpncore knows was issued.
Issued == \A i \in wpn.trusted \cup wpn.channels : i[2] <= issued[i[1]]

\* A handler that runs has an entry in the foreground map.
Noticed == note.id # None => foreground[note.id] \in Sinks

Process == Locks /\ Early /\ Cleared /\ Issued /\ PlatformStarts /\ Noticed

\* A thread is in one of the calls of its operation's script.
Placed(t) ==
    /\ thread[t].at \in Nat
    /\ Op(t) = "none" => thread[t].inside = "none"
    /\ Live(t) => thread[t].at \in 1 .. Len(Script[Op(t)])
    /\ Inside(t, "activating") => Live(t) /\ Current(t) = "connect"
    /\ Live(t) => /\ Inside(t, "add") => Current(t) = "foreground"
                  /\ Inside(t, "remove") => Current(t) = "dropForeground"
                  /\ thread[t].inside \in {"listen", "insert", "cancel"} => Current(t) = "longRunning"
                  /\ thread[t].inside \in {"unlisten", "erase", "forget", "empty", "setup"}
                       => Current(t) = "dropLongRunning"
    /\ HasId(t) => thread[t].id \in Ids /\ thread[t].id[1] = AppOf[t]

\* The process a thread has connected to is the present one or an earlier one.
Connections(t) ==
    /\ thread[t].full <= thread[t].conn /\ thread[t].conn <= lrp.epoch
    /\ thread[t].full = lrp.epoch => lrp.state # "starting"
    /\ thread[t].conn = lrp.epoch /\ lrp.state = "starting" => Inside(t, "activating")
    /\ Live(t) /\ Locked(t) => thread[t].conn = lrp.epoch

\* The thread that has set app.registering.
Holder(t) ==
    \/ Op(t) \in {"Register", "Undo", "Unregister"}
    \/ Op(t) = "UnregisterAll" /\ thread[t].at # 3

\* What an operation that has come so far has found or done.
Progress(t) ==
    LET a == AppOf[t] IN
    /\ Holder(t) => app[a].registering
    /\ Op(t) = "Gone" => ~app[a].fg /\ ~app[a].lr
    /\ Op(t) = "Register" => /\ thread[t].at <= 4 => ~app[a].fg
                             /\ thread[t].at <= 5 => ~app[a].lr
                             /\ thread[t].at \in 3 .. 5 => Known(a)
    /\ Op(t) = "UnregisterAll" /\ thread[t].at = 7 => ~app[a].lr
    /\ Op(t) = "Undo" /\ thread[t].at >= 2 => ~app[a].lr
    /\ Op(t) = "Undo" /\ thread[t].at = 3 => ~app[a].fg
    /\ Inside(t, "add") \/ Inside(t, "remove") => thread[t].id = IdOf(a)

\* What holds of the threads of an app that has not overlapped its operations.
Alone(t) ==
    LET a == AppOf[t] IN
    ~app[a].mixed =>
      /\ thread[t].inside \in {"listen", "insert", "cancel", "unlisten", "erase", "forget"}
           => thread[t].id = IdOf(a)
      /\ Inside(t, "empty") \/ Inside(t, "setup") => ~Known(a)
      /\ Op(t) = "UnregisterAll" /\ thread[t].at = 7 => ~Known(a)
      /\ Op(t) = "Undo" /\ thread[t].at = 3 /\ thread[t].full = lrp.epoch
             /\ lrp.state \in {"up", "awake"}
           => \A i \in Ids : i[1] = a => foreground[i] = "none"
      /\ Inside(t, "forget") /\ ~app[a].undone => thread[t].id \notin listeners

Apart(t, u) ==
    AppOf[t] = AppOf[u] /\ t # u =>
      /\ ~(Holder(t) /\ Holder(u))
      /\ ~(Op(t) = "Gone" /\ Op(u) = "Register" /\ thread[u].at > 2)
      /\ ~app[AppOf[t]].mixed => Op(t) = "none" \/ Op(u) = "none"

\* What the process keeps of an app that has not overlapped its operations.
Tidy(a) ==
    ~app[a].mixed =>
      \A i \in Ids : i[1] = a =>
        /\ foreground[i] # "none" => i = IdOf(a)
        /\ foreground[i] = "sink" => app[a].fg \/ app[a].viaChannel
        /\ ~app[a].undone /\ i \in listeners => i = IdOf(a)
Mapped(a) == ~app[a].mixed /\ ~app[a].undone /\ a \in toast => Known(a)

\* An app that has registered, or whose Register has only its listener to
\* add, and from which nothing is being taken away.
Dropping(t) == thread[t].inside \in {"forget", "empty", "setup"}
Last(t) == Op(t) = "Register" /\ thread[t].at = 5
Serving(a) ==
    /\ \A t \in Threads : AppOf[t] = a => ~Dropping(t)
    /\ (app[a].fg /\ app[a].lr) \/ (\E t \in Threads : AppOf[t] = a /\ Last(t))
Serves(t) ==
    LET a == AppOf[t] IN
    Serving(a) /\ Op(t) \in {"Register", "CreateChannel"} =>
      /\ thread[t].inside \in {"listen", "insert", "cancel"} => thread[t].id = IdOf(a)
      /\ Inside(t, "cancel") => IdOf(a) \in listeners
      /\ thread[t].at = 5 /\ thread[t].conn = lrp.epoch /\ Running => foreground[IdOf(a)] \in Held
Served(a) ==
    Serving(a) =>
      /\ Known(a)
      /\ app[a].fg /\ app[a].lr /\ Running /\ app[a].epoch = lrp.epoch
           => IdOf(a) \in listeners /\ foreground[IdOf(a)] \in Held

Client(a) ==
    /\ app[a].epoch <= lrp.epoch
    /\ app[a].epoch = lrp.epoch => lrp.state # "starting"
    /\ Tidy(a) /\ Mapped(a) /\ Served(a)

ThreadInv(t) == Placed(t) /\ Connections(t) /\ Progress(t) /\ Alone(t) /\ Serves(t)

Whole(a) ==
    /\ \A t \in Threads : AppOf[t] = a => ThreadInv(t)
    /\ \A t, u \in Threads : AppOf[t] = a => Apart(t, u)
    /\ Client(a)

IInv == TypeOK /\ Process /\ \A a \in Apps : Whole(a)

-----------------------------------------------------------------------------
(* The scripts *)

LEMMA ScriptFacts ==
    /\ DOMAIN Script = {"Register", "Unregister", "UnregisterAll", "CreateChannel", "Undo", "Gone"}
    /\ Len(Script["Register"]) = 6 /\ Len(Script["Unregister"]) = 2
    /\ Len(Script["UnregisterAll"]) = 7 /\ Len(Script["CreateChannel"]) = 6
    /\ Len(Script["Undo"]) = 3
  BY DEF Script

\* Where each call stands in the scripts.
PlaceOf(o, n) ==
    /\ Script[o][n] = "connect"
         <=> (o # "Undo" /\ n = 1) \/ (o = "Register" /\ n = 3) \/ (o = "UnregisterAll" /\ n = 5)
    /\ Script[o][n] = "fullTrust" <=> o \in {"Register", "CreateChannel"} /\ n = 2
    /\ Script[o][n] = "foreground" <=> o \in {"Register", "CreateChannel"} /\ n = 4
    /\ Script[o][n] = "longRunning" <=> o \in {"Register", "CreateChannel"} /\ n = 5
    /\ Script[o][n] = "com" <=> o = "Register" /\ n = 6
    /\ Script[o][n] = "dropForeground" <=> o \in {"Unregister", "UnregisterAll", "Undo"} /\ n = 2
    /\ Script[o][n] = "claim" <=> o = "UnregisterAll" /\ n = 3
    /\ Script[o][n] = "close" <=> o = "UnregisterAll" /\ n = 4
    /\ Script[o][n] = "dropLongRunning" <=> (o = "UnregisterAll" /\ n = 6) \/ (o = "Undo" /\ n = 1)
    /\ Script[o][n] = "dropFullTrust" <=> (o = "UnregisterAll" /\ n = 7) \/ (o = "Undo" /\ n = 3)
    /\ Script[o][n] = "channel" <=> o = "CreateChannel" /\ n = 3
    /\ Script[o][n] = "toast" <=> o = "CreateChannel" /\ n = 6

LEMMA CallPlaces ==
  ASSUME NEW o \in {"Register", "Unregister", "UnregisterAll", "CreateChannel", "Undo"},
         NEW n \in 1 .. Len(Script[o])
  PROVE  PlaceOf(o, n)
<1>1. CASE o = "Register"
  <2>1. n \in {1, 2, 3, 4, 5, 6}
    BY <1>1, ScriptFacts
  <2>2. QED
    BY <1>1, <2>1 DEF Script, PlaceOf
<1>2. CASE o = "Unregister"
  <2>1. n \in {1, 2}
    BY <1>2, ScriptFacts
  <2>2. QED
    BY <1>2, <2>1 DEF Script, PlaceOf
<1>3. CASE o = "UnregisterAll"
  <2>1. n \in {1, 2, 3, 4, 5, 6, 7}
    BY <1>3, ScriptFacts
  <2>2. QED
    BY <1>3, <2>1 DEF Script, PlaceOf
<1>4. CASE o = "CreateChannel"
  <2>1. n \in {1, 2, 3, 4, 5, 6}
    BY <1>4, ScriptFacts
  <2>2. QED
    BY <1>4, <2>1 DEF Script, PlaceOf
<1>5. CASE o = "Undo"
  <2>1. n \in {1, 2, 3}
    BY <1>5, ScriptFacts
  <2>2. QED
    BY <1>5, <2>1 DEF Script, PlaceOf
<1>6. QED
  BY <1>1, <1>2, <1>3, <1>4, <1>5

-----------------------------------------------------------------------------
(* What the return of a call, its failure and the end of a process do to    *)
(* the thread and to its app.                                               *)

Others(t) ==
    /\ thread' \in [Threads -> ThreadType] /\ app' \in [Apps -> AppType]
    /\ \A u \in Threads : u # t => thread'[u] = thread[u]
    /\ \A b \in Apps : b # AppOf[t] => app'[b] = app[b]

Freed(t) ==
    /\ thread'[t].op = "none" /\ thread'[t].at = 1 /\ thread'[t].inside = "none"
    /\ thread'[t].full = 0 /\ thread'[t].conn = 0

Moved(t, o, n) ==
    /\ thread'[t].op = o /\ thread'[t].at = n /\ thread'[t].inside = "none"
    /\ thread'[t].full = thread[t].full /\ thread'[t].conn = thread[t].conn

\* The operation and the call at which it is, as a pair.
Is(t, o, n) == Op(t) = o /\ thread[t].at = n
AtEnd(t) ==
    \/ Is(t, "Register", 6) \/ Is(t, "Unregister", 2) \/ Is(t, "UnregisterAll", 7)
    \/ Is(t, "CreateChannel", 6) \/ Is(t, "Undo", 3)
AtDrop(t) == Is(t, "Unregister", 2) \/ Is(t, "UnregisterAll", 2) \/ Is(t, "Undo", 2)
AtDropAll(t) == Is(t, "UnregisterAll", 6) \/ Is(t, "Undo", 1)

SameClient(a) ==
    /\ app'[a].fg = app[a].fg /\ app'[a].lr = app[a].lr /\ app'[a].epoch = app[a].epoch
    /\ app'[a].viaChannel = app[a].viaChannel
    /\ app'[a].mixed = app[a].mixed /\ app'[a].undone = app[a].undone

Returning(t) ==
    LET a == AppOf[t] IN
    /\ Others(t)
    /\ AtEnd(t) => Freed(t)
    /\ ~AtEnd(t) => Moved(t, Op(t), thread[t].at + 1)
    /\ app'[a].mixed = app[a].mixed
    /\ app'[a].fg <=> (app[a].fg \/ Is(t, "Register", 4)) /\ ~AtDrop(t)
    /\ app'[a].lr <=> (app[a].lr \/ Is(t, "Register", 5)) /\ ~AtDropAll(t)
    /\ app'[a].viaChannel <=> (app[a].viaChannel \/ Is(t, "CreateChannel", 4))
                                 /\ ~AtDrop(t) /\ ~AtDropAll(t)
    /\ app'[a].epoch = IF Is(t, "Register", 5) \/ Is(t, "CreateChannel", 5)
                       THEN thread[t].conn ELSE app[a].epoch
    /\ app'[a].undone <=> app[a].undone \/ (Is(t, "Undo", 3) /\ Known(a))
    /\ app'[a].registering <=> app[a].registering
          /\ (Op(t) = "CreateChannel" \/ (~AtEnd(t) /\ ~Is(t, "UnregisterAll", 2)))

LEMMA IdleFacts ==
  ASSUME NEW n \in Nat
  PROVE  /\ Idle(n) \in ThreadType /\ Idle(n).op = "none" /\ Idle(n).at = 1
         /\ Idle(n).inside = "none" /\ Idle(n).full = 0 /\ Idle(n).conn = 0
         /\ Idle(n).left = n /\ Idle(n).id = None
  BY ShapeAssumption DEF Idle, ThreadType

LEMMA ThreadFacts ==
  ASSUME TypeOK, NEW t \in Threads
  PROVE  /\ AppOf[t] \in Apps /\ thread[t] \in ThreadType /\ app[AppOf[t]] \in AppType
         /\ lrp \in ProcessType /\ lrp.epoch \in 0 .. MaxStarts
  BY ShapeAssumption DEF TypeOK, ProcessType

\* The calls a live thread can be at.
LEMMA LivePlace ==
  ASSUME TypeOK, NEW t \in Threads, Placed(t), Live(t)
  PROVE  /\ PlaceOf(Op(t), thread[t].at)
         /\ Op(t) \in {"Register", "Unregister", "UnregisterAll", "CreateChannel", "Undo"}
         /\ thread[t].at \in 1 .. 7
         /\ Op(t) = "Register" => thread[t].at \in 1 .. 6
         /\ Op(t) = "Unregister" => thread[t].at \in 1 .. 2
         /\ Op(t) = "UnregisterAll" => thread[t].at \in 1 .. 7
         /\ Op(t) = "CreateChannel" => thread[t].at \in 1 .. 6
         /\ Op(t) = "Undo" => thread[t].at \in 1 .. 3
<1>1. thread[t] \in ThreadType
  BY ThreadFacts
<1>2. Op(t) \in {"Register", "Unregister", "UnregisterAll", "CreateChannel", "Undo"}
  BY <1>1, ScriptFacts DEF ThreadType, Op, Live
<1>3. thread[t].at \in 1 .. Len(Script[Op(t)])
  BY DEF Placed
<1>4. PlaceOf(Op(t), thread[t].at)
  BY <1>2, <1>3, CallPlaces
<1>5. CASE Op(t) = "Register"
  BY <1>5, <1>3, <1>4, ScriptFacts
<1>6. CASE Op(t) = "Unregister"
  BY <1>6, <1>3, <1>4, ScriptFacts
<1>7. CASE Op(t) = "UnregisterAll"
  BY <1>7, <1>3, <1>4, ScriptFacts
<1>8. CASE Op(t) = "CreateChannel"
  BY <1>8, <1>3, <1>4, ScriptFacts
<1>9. CASE Op(t) = "Undo"
  BY <1>9, <1>3, <1>4, ScriptFacts
<1>10. QED
  BY <1>2, <1>5, <1>6, <1>7, <1>8, <1>9

LEMMA ReturnFacts ==
  ASSUME TypeOK, NEW t \in Threads, Placed(t), Live(t), NEW appId \in Ids \cup {None},
         ReturnedWith(t, appId)
  PROVE  Returning(t)
<1> DEFINE a == AppOf[t]
           new == IF LastCall(t) THEN Idle(thread[t].left)
                  ELSE [thread[t] EXCEPT !.at = thread[t].at + 1, !.inside = "none", !.appId = appId]
<1>1. /\ a \in Apps /\ thread[t] \in ThreadType /\ app[a] \in AppType
      /\ thread \in [Threads -> ThreadType] /\ app \in [Apps -> AppType]
  BY ThreadFacts DEF TypeOK
<1>2. PlaceOf(Op(t), thread[t].at) /\ thread[t].at \in 1 .. 7
  BY LivePlace
<1>3. LastCall(t) <=> AtEnd(t)
  BY <1>1, <1>2, LivePlace, ScriptFacts DEF LastCall, AtEnd, Is
<1>4. /\ thread' = [thread EXCEPT ![t] = new]
      /\ app' = [app EXCEPT ![a] = Noted(app[a], t)]
  <2>1. Op(t) # "Gone"
    BY DEF Live
  <2>2. app' = [app EXCEPT ![a] = Noted(app[a], t)]
    BY <2>1 DEF ReturnedWith
  <2>3. thread' = [thread EXCEPT ![t] = new]
    BY <2>1 DEF ReturnedWith
  <2>4. QED
    BY <2>2, <2>3
<1>5. new \in ThreadType
  <2>1. CASE LastCall(t)
    BY <1>1, <2>1, IdleFacts DEF ThreadType
  <2>2. CASE ~LastCall(t)
    <3>1. thread[t].at + 1 \in Nat
      BY <1>2
    <3>2. [thread[t] EXCEPT !.at = thread[t].at + 1, !.inside = "none", !.appId = appId]
            \in ThreadType
      BY <1>1, <3>1 DEF ThreadType
    <3>3. QED
      BY <2>2, <3>2
  <2>3. QED
    BY <2>1, <2>2
<1>6. Noted(app[a], t) \in AppType
  <2>1. thread[t].conn \in 0 .. MaxStarts /\ app[a].epoch \in 0 .. MaxStarts
    BY <1>1 DEF ThreadType, AppType
  <2> DEFINE call == Current(t)
             b1 == (app[a].fg \/ (Op(t) = "Register" /\ call = "foreground"))
                     /\ call # "dropForeground"
             b2 == (app[a].lr \/ (Op(t) = "Register" /\ call = "longRunning"))
                     /\ call # "dropLongRunning"
             b3 == app[a].com \/ (call = "com" /\ AppOf[t] \in Packaged)
             b4 == (app[a].viaChannel \/ (Op(t) = "CreateChannel" /\ call = "foreground"))
                     /\ call \notin {"dropForeground", "dropLongRunning"}
             b5 == app[a].undone \/ (Op(t) = "Undo" /\ call = "dropFullTrust" /\ Known(a))
             b6 == app[a].registering
                     /\ \/ Op(t) = "CreateChannel"
                        \/ ~LastCall(t) /\ <<Op(t), call>> # <<"UnregisterAll", "dropForeground">>
             e == IF call = "longRunning" THEN thread[t].conn ELSE app[a].epoch
  <2>2. /\ b1 \in BOOLEAN /\ b2 \in BOOLEAN /\ b3 \in BOOLEAN
        /\ b4 \in BOOLEAN /\ b5 \in BOOLEAN /\ b6 \in BOOLEAN
    OBVIOUS
  <2>3. e \in 0 .. MaxStarts
    BY <2>1
  <2>4. Noted(app[a], t) =
          [app[a] EXCEPT !.fg = b1, !.lr = b2, !.com = b3, !.viaChannel = b4, !.epoch = e,
                         !.undone = b5, !.registering = b6]
    BY DEF Noted
  <2> HIDE DEF b1, b2, b3, b4, b5, b6, e
  <2>5. QED
    BY <1>1, <2>2, <2>3, <2>4 DEF AppType
<1>7. Others(t)
  BY <1>1, <1>4, <1>5, <1>6 DEF Others
<1>8. AtEnd(t) => Freed(t)
  BY <1>1, <1>3, <1>4, IdleFacts DEF Freed, ThreadType
<1>9. ~AtEnd(t) => Moved(t, Op(t), thread[t].at + 1)
  BY <1>1, <1>3, <1>4 DEF Moved, ThreadType, Op
<1>10. app'[a] = Noted(app[a], t)
  BY <1>1, <1>4
<1>11. Noted(app[a], t).mixed = app[a].mixed
  BY <1>1 DEF Noted, AppType
<1>12. Noted(app[a], t).fg <=> (app[a].fg \/ Is(t, "Register", 4)) /\ ~AtDrop(t)
  BY <1>1, <1>2, LivePlace DEF Noted, AppType, PlaceOf, Current, Is, AtDrop
<1>13. Noted(app[a], t).lr <=> (app[a].lr \/ Is(t, "Register", 5)) /\ ~AtDropAll(t)
  BY <1>1, <1>2, LivePlace DEF Noted, AppType, PlaceOf, Current, Is, AtDropAll
<1>14. Noted(app[a], t).viaChannel <=> (app[a].viaChannel \/ Is(t, "CreateChannel", 4))
                                         /\ ~AtDrop(t) /\ ~AtDropAll(t)
  BY <1>1, <1>2, LivePlace DEF Noted, AppType, PlaceOf, Current, Is, AtDrop, AtDropAll
<1>15. Noted(app[a], t).epoch = IF Is(t, "Register", 5) \/ Is(t, "CreateChannel", 5)
                                THEN thread[t].conn ELSE app[a].epoch
  BY <1>1, <1>2, LivePlace DEF Noted, AppType, PlaceOf, Current, Is
<1>16. Noted(app[a], t).undone <=> app[a].undone \/ (Is(t, "Undo", 3) /\ Known(a))
  BY <1>1, <1>2, LivePlace DEF Noted, AppType, PlaceOf, Current, Is
<1>17. Noted(app[a], t).registering <=> app[a].registering
          /\ (Op(t) = "CreateChannel" \/ (~AtEnd(t) /\ ~Is(t, "UnregisterAll", 2)))
  <2>1. Noted(app[a], t).registering <=> app[a].registering
          /\ (Op(t) = "CreateChannel"
                \/ (~LastCall(t) /\ <<Op(t), Current(t)>> # <<"UnregisterAll", "dropForeground">>))
    BY <1>1 DEF Noted, AppType
  <2>2. <<Op(t), Current(t)>> = <<"UnregisterAll", "dropForeground">> <=> Is(t, "UnregisterAll", 2)
    BY <1>1, <1>2, LivePlace DEF PlaceOf, Current, Is
  <2>3. QED
    BY <2>1, <2>2, <1>3
<1>18. QED
  BY <1>7, <1>8, <1>9, <1>10, <1>11, <1>12, <1>13, <1>14, <1>15, <1>16, <1>17 DEF Returning

EndedBy(a, t) ==
    /\ thread' \in [Threads -> ThreadType] /\ app' \in [Apps -> AppType]
    /\ foreground' \in [Ids -> Entries]
    /\ \A u \in Threads : AppOf[u] # a => thread'[u] = thread[u]
    /\ \A u \in Threads : AppOf[u] = a /\ u # t /\ Locked(u) =>
         /\ thread'[u].op = "Gone" /\ thread'[u].at = thread[u].at
         /\ thread'[u].inside = thread[u].inside /\ thread'[u].id = thread[u].id
         /\ thread'[u].full = thread[u].full /\ thread'[u].conn = thread[u].conn
    /\ \A u \in Threads : AppOf[u] = a /\ (u = t \/ ~Locked(u)) => Freed(u)
    /\ \A b \in Apps : b # a => app'[b] = app[b]
    /\ ~app'[a].fg /\ ~app'[a].lr /\ app'[a].epoch = 0 /\ ~app'[a].alive
    /\ app'[a].mixed = app[a].mixed /\ app'[a].undone = app[a].undone
    /\ \A i \in Ids : foreground'[i] = IF i[1] = a /\ foreground[i] = "sink" THEN "stale"
                                       ELSE foreground[i]

LEMMA EndFacts ==
  ASSUME TypeOK, NEW a \in Apps, NEW t, Ended(a, t)
  PROVE  EndedBy(a, t)
<1> DEFINE end == [NewApp EXCEPT !.alive = FALSE, !.ends = app[a].ends + 1,
                                 !.mixed = app[a].mixed, !.undone = app[a].undone]
           new(u) == IF AppOf[u] # a THEN thread[u]
                     ELSE IF u # t /\ thread[u].inside \in Exclusive \cup Shared
                          THEN [thread[u] EXCEPT !.op = "Gone"] ELSE Idle(thread[u].left)
<1>1. /\ thread \in [Threads -> ThreadType] /\ app \in [Apps -> AppType] /\ app[a] \in AppType
      /\ foreground \in [Ids -> Entries]
  BY DEF TypeOK
<1>2. app' = [app EXCEPT ![a] = end] /\ thread' = [u \in Threads |-> new(u)]
  BY DEF Ended
<1>3. end \in AppType /\ ~end.fg /\ ~end.lr /\ end.epoch = 0 /\ ~end.alive
      /\ end.mixed = app[a].mixed /\ end.undone = app[a].undone
  <2>1. NewApp \in AppType /\ ~NewApp.fg /\ ~NewApp.lr /\ NewApp.epoch = 0
    BY ShapeAssumption DEF NewApp, AppType
  <2>2. /\ app[a].ends + 1 \in Nat /\ FALSE \in BOOLEAN
        /\ app[a].mixed \in BOOLEAN /\ app[a].undone \in BOOLEAN
    BY <1>1 DEF AppType
  <2>3. QED
    BY <2>1, <2>2 DEF AppType
<1>4. \A u \in Threads : new(u) \in ThreadType
  <2>1. TAKE u \in Threads
  <2>2. thread[u] \in ThreadType /\ thread[u].left \in Nat
    BY <1>1 DEF ThreadType
  <2>3. [thread[u] EXCEPT !.op = "Gone"] \in ThreadType
    BY <2>2, ScriptFacts DEF ThreadType
  <2>4. QED
    BY <2>2, <2>3, IdleFacts
<1>5. /\ thread' \in [Threads -> ThreadType] /\ app' \in [Apps -> AppType]
      /\ \A b \in Apps : b # a => app'[b] = app[b]
      /\ ~app'[a].fg /\ ~app'[a].lr /\ app'[a].epoch = 0 /\ ~app'[a].alive
      /\ app'[a].mixed = app[a].mixed /\ app'[a].undone = app[a].undone
  <2> HIDE DEF end, new
  <2> QED BY <1>1, <1>2, <1>3, <1>4
<1>6. \A i \in Ids : foreground'[i] = IF i[1] = a /\ foreground[i] = "sink" THEN "stale"
                                      ELSE foreground[i]
  BY DEF Ended
<1>7. foreground' \in [Ids -> Entries]
  BY <1>1 DEF Ended, Entries, Sinks
<1>8. \A u \in Threads : AppOf[u] # a => thread'[u] = thread[u]
  BY <1>2
<1>9. ASSUME NEW u \in Threads, AppOf[u] = a, u # t, Locked(u)
      PROVE  /\ thread'[u].op = "Gone" /\ thread'[u].at = thread[u].at
             /\ thread'[u].inside = thread[u].inside /\ thread'[u].id = thread[u].id
             /\ thread'[u].full = thread[u].full /\ thread'[u].conn = thread[u].conn
  <2>1. thread'[u] = [thread[u] EXCEPT !.op = "Gone"] /\ thread[u] \in ThreadType
    BY <1>1, <1>2, <1>9 DEF Locked
  <2>2. QED
    BY <2>1 DEF ThreadType
<1>10. ASSUME NEW u \in Threads, AppOf[u] = a, u = t \/ ~Locked(u)
       PROVE  Freed(u)
  <2>1. thread'[u] = Idle(thread[u].left) /\ thread[u] \in ThreadType
    BY <1>1, <1>2, <1>10 DEF Locked
  <2>2. thread[u].left \in Nat
    BY <2>1 DEF ThreadType
  <2>3. QED
    BY <2>1, <2>2, IdleFacts DEF Freed
<1>11. QED
  BY <1>5, <1>6, <1>7, <1>8, <1>9, <1>10 DEF EndedBy

UndoAt(n) == IF n = 6 THEN 1 ELSE IF n = 5 THEN 2 ELSE 3

Failing(t) ==
    LET a == AppOf[t] IN
    /\ Op(t) = "Undo" => EndedBy(a, t)
    /\ Op(t) # "Undo" =>
         /\ Others(t) /\ SameClient(a) /\ UNCHANGED foreground
         /\ \/ Freed(t) /\ ~(Op(t) = "Register" /\ thread[t].at > 2)
               /\ (app'[a].registering <=> app[a].registering /\ Op(t) \in {"CreateChannel", "Gone"})
            \/ Op(t) = "CreateChannel" /\ Moved(t, "CreateChannel", 1)
               /\ app'[a].registering = app[a].registering
            \/ Op(t) = "Register" /\ thread[t].at > 2 /\ Moved(t, "Undo", UndoAt(thread[t].at))
               /\ app'[a].registering = app[a].registering

LEMMA FailFacts ==
  ASSUME TypeOK, NEW t \in Threads, Placed(t), Op(t) # "none", NEW r \in BOOLEAN, Failed(t, r)
  PROVE  Failing(t)
<1> DEFINE a == AppOf[t]
<1>1. /\ a \in Apps /\ thread[t] \in ThreadType /\ app[a] \in AppType
      /\ thread \in [Threads -> ThreadType] /\ app \in [Apps -> AppType]
      /\ thread[t].left \in Nat /\ thread[t].tries \in Nat /\ thread[t].at \in Nat
  BY ThreadFacts DEF TypeOK, ThreadType
<1>2. CASE Op(t) = "Undo"
  <2>1. Ended(a, t)
    BY <1>2 DEF Failed
  <2>2. QED
    BY <1>1, <1>2, <2>1, EndFacts DEF Failing
<1>3. CASE /\ Op(t) = "CreateChannel" /\ UNCHANGED <<app, foreground>>
           /\ thread' = [thread EXCEPT ![t].at = 1, ![t].inside = "none", ![t].tries = @ + 1]
  <2>1. thread' = [thread EXCEPT ![t] = [thread[t] EXCEPT !.at = 1, !.inside = "none",
                                                          !.tries = thread[t].tries + 1]]
    BY <1>1, <1>3
  <2>2. [thread[t] EXCEPT !.at = 1, !.inside = "none", !.tries = thread[t].tries + 1] \in ThreadType
    <3>1. thread[t].tries + 1 \in Nat /\ 1 \in Nat
      BY <1>1
    <3> QED BY <1>1, <3>1 DEF ThreadType
  <2>3. Others(t)
    BY <1>1, <1>3, <2>1, <2>2 DEF Others
  <2>4. Moved(t, "CreateChannel", 1)
    BY <1>1, <1>3, <2>1 DEF Moved, ThreadType, Op
  <2>5. QED
    BY <1>3, <2>3, <2>4 DEF Failing, SameClient
<1>4. CASE /\ Op(t) = "Register" /\ thread[t].at > 2 /\ UNCHANGED <<app, foreground>>
           /\ thread' = [thread EXCEPT ![t].op = "Undo", ![t].at = UndoFrom(Current(t)),
                                       ![t].inside = "none"]
  <2>1. UndoFrom(Current(t)) = UndoAt(thread[t].at) /\ UndoAt(thread[t].at) \in 1 .. 3
    BY <1>1, <1>4, LivePlace DEF UndoFrom, UndoAt, PlaceOf, Current, Live
  <2>2. thread' = [thread EXCEPT ![t] = [thread[t] EXCEPT !.op = "Undo",
                                           !.at = UndoAt(thread[t].at), !.inside = "none"]]
    BY <1>1, <1>4, <2>1
  <2>3. [thread[t] EXCEPT !.op = "Undo", !.at = UndoAt(thread[t].at), !.inside = "none"] \in ThreadType
    <3>1. UndoAt(thread[t].at) \in Nat /\ "Undo" \in DOMAIN Script
      BY <2>1, ScriptFacts
    <3> QED BY <1>1, <3>1 DEF ThreadType
  <2>4. Others(t)
    BY <1>1, <1>4, <2>2, <2>3 DEF Others
  <2>5. Moved(t, "Undo", UndoAt(thread[t].at))
    BY <1>1, <2>2 DEF Moved, ThreadType
  <2>6. QED
    BY <1>4, <2>4, <2>5 DEF Failing, SameClient
<1>5. CASE /\ ~(Op(t) = "Register" /\ thread[t].at > 2) /\ Op(t) # "Undo" /\ UNCHANGED foreground
           /\ thread' = [thread EXCEPT ![t] = Idle(@.left)]
           /\ app' = [app EXCEPT ![a].registering = @ /\ Op(t) \in {"CreateChannel", "Gone"}]
  <2> DEFINE b == app[a].registering /\ Op(t) \in {"CreateChannel", "Gone"}
  <2>1. b \in BOOLEAN /\ app' = [app EXCEPT ![a] = [app[a] EXCEPT !.registering = b]]
    BY <1>1, <1>5
  <2>2. (app'[a].registering <=> b) /\ app' \in [Apps -> AppType] /\ SameClient(a)
        /\ \A c \in Apps : c # a => app'[c] = app[c]
    <3> HIDE DEF b
    <3> QED BY <1>1, <2>1 DEF AppType, SameClient
  <2>3. thread' = [thread EXCEPT ![t] = Idle(thread[t].left)] /\ Idle(thread[t].left) \in ThreadType
    BY <1>1, <1>5, IdleFacts
  <2>4. thread' \in [Threads -> ThreadType] /\ \A u \in Threads : u # t => thread'[u] = thread[u]
    BY <1>1, <2>3
  <2>5. Freed(t)
    BY <1>1, <2>3, IdleFacts DEF Freed
  <2>6. QED
    BY <1>5, <2>2, <2>4, <2>5 DEF Failing, Others
<1>6. QED
  BY <1>1, <1>2, <1>3, <1>4, <1>5 DEF Failed

-----------------------------------------------------------------------------
(* What another step leaves alone: an app none of whose threads, client or  *)
(* memory changes, while the process goes on or starts.                     *)

Advance ==
    \/ /\ lrp'.epoch = lrp.epoch
       /\ \/ lrp'.state = lrp.state
          \/ /\ lrp'.state # "starting"
             /\ lrp'.state \in {"up", "awake"} => lrp.state \in {"starting", "up", "awake"}
             /\ lrp'.state = "stopping" => lrp.state \in {"up", "awake", "stopping"}
    \/ lrp.state = "off" /\ lrp'.state = "starting" /\ lrp'.epoch = lrp.epoch + 1

SameApp(b) ==
    /\ \A u \in Threads : AppOf[u] = b => thread'[u] = thread[u]
    /\ SameClient(b) /\ app'[b].registering = app[b].registering
    /\ raw'[b] = raw[b] /\ (b \in toast' => b \in toast)
    /\ \A i \in Ids : i[1] = b =>
         /\ i \in listeners' <=> i \in listeners
         /\ foreground'[i] = foreground[i] \/ (foreground[i] \in Sinks /\ foreground'[i] = "dropped")

LEMMA IdFacts ==
  ASSUME TypeOK, NEW a \in Apps
  PROVE  /\ IdOf(a)[1] = a /\ IdOf(a)[2] = raw[a]
         /\ Known(a) => IdOf(a) \in Ids
         /\ \A i \in Ids : i[1] \in Apps /\ i[2] \in 1 .. MaxIds /\ i = <<i[1], i[2]>> /\ i # None
         /\ \A i \in Ids : i = IdOf(a) <=> i[1] = a /\ i[2] = raw[a]
         /\ \A i \in Ids : i = IdOf(a) => Known(a)
<1>1. raw[a] \in 0 .. MaxIds /\ MaxIds \in Nat /\ None \notin Apps \X Nat
  BY ShapeAssumption DEF TypeOK
<1>2. \A i \in Ids : i[1] \in Apps /\ i[2] \in 1 .. MaxIds /\ i = <<i[1], i[2]>>
  BY DEF Ids
<1>3. \A i \in Ids : i # None
  BY <1>1, <1>2
<1>4. QED
  BY <1>1, <1>2, <1>3 DEF IdOf, Known, Ids

LEMMA FramePlaced ==
  ASSUME NEW u \in Threads, Placed(u), thread'[u] = thread[u]
  PROVE  Placed(u)'
  BY DEF Placed, HasId, Inside, Live, Op, Current

LEMMA FrameConnections ==
  ASSUME TypeOK, Locks, Advance, NEW u \in Threads, Connections(u), thread'[u] = thread[u]
  PROVE  Connections(u)'
<1>1. /\ thread[u].full \in Nat /\ thread[u].conn \in Nat /\ lrp.epoch \in Nat
  BY ShapeAssumption DEF TypeOK, ThreadType, ProcessType
<1>2. Locked(u) => lrp.state \in {"up", "awake"}
  BY DEF Locks
<1>3. QED
  BY <1>1, <1>2 DEF Connections, Advance, Inside, Locked, Live, Op

LEMMA FrameWhole ==
  ASSUME TypeOK, Locks, Advance, NEW b \in Apps, Whole(b), SameApp(b)
  PROVE  Whole(b)'
<1>1. /\ \A u \in Threads : AppOf[u] = b => thread'[u] = thread[u] /\ ThreadInv(u)
      /\ IdOf(b)' = IdOf(b) /\ Known(b)' = Known(b)
      /\ lrp.epoch \in Nat /\ app[b].epoch \in Nat
  BY ShapeAssumption DEF SameApp, Whole, IdOf, Known, TypeOK, ProcessType, AppType
<1>2. Known(b) => IdOf(b) \in Ids /\ IdOf(b)[1] = b
  BY IdFacts
<1>3. Serving(b)' <=> Serving(b)
  BY <1>1 DEF Serving, Last, Dropping, Op, SameApp, SameClient
<1>4. ASSUME NEW u \in Threads, AppOf[u] = b
      PROVE  ThreadInv(u)'
  <2>1. Placed(u)' /\ Connections(u)'
    BY <1>1, <1>4, FramePlaced, FrameConnections DEF ThreadInv
  <2>2. thread'[u] = thread[u] /\ Progress(u) /\ Alone(u) /\ Serves(u) /\ Connections(u) /\ Placed(u)
    BY <1>1, <1>4 DEF ThreadInv
  <2>3. Progress(u)'
    BY <1>1, <1>4, <2>2 DEF Progress, Holder, Op, Inside, SameApp, SameClient
  <2>4. Alone(u)'
    <3>1. SUFFICES ASSUME ~app'[b].mixed
                   PROVE  Alone(u)'
      BY <1>4 DEF Alone
    <3>2. ~app[b].mixed /\ app'[b].undone = app[b].undone
      BY <3>1 DEF SameApp, SameClient
    <3>3. Inside(u, "forget") => thread[u].id \in Ids /\ thread[u].id[1] = b
      BY <1>4, <2>2 DEF Placed, HasId, Inside
    <3>4. thread[u].full = lrp'.epoch /\ lrp'.state \in {"up", "awake"}
            => thread[u].full = lrp.epoch /\ lrp.state \in {"up", "awake"}
      <4>1. thread[u].full <= lrp.epoch /\ (thread[u].full = lrp.epoch => lrp.state # "starting")
            /\ thread[u].full \in Nat /\ thread[u].conn \in Nat
        BY <1>1, <2>2 DEF Connections, TypeOK, ThreadType
      <4>2. QED
        BY <1>1, <4>1 DEF Advance
    <3>5. QED
      BY <1>1, <1>4, <2>2, <3>2, <3>3, <3>4 DEF Alone, Op, Inside, SameApp, Sinks
  <2>5. Serves(u)'
    <3>1. SUFFICES ASSUME Serving(b)
                   PROVE  Serves(u)'
      BY <1>3, <1>4 DEF Serves
    <3>2. Known(b)
      BY <3>1 DEF Whole, Client, Served
    <3>3. IdOf(b) \in listeners' <=> IdOf(b) \in listeners
      BY <1>2, <3>2 DEF SameApp
    <3>4. foreground[IdOf(b)] \in Held => foreground'[IdOf(b)] \in Held
      BY <1>2, <3>2 DEF SameApp, Held
    <3>5. Op(u) \in {"Register", "CreateChannel"} /\ thread[u].at = 5
            /\ thread[u].conn = lrp'.epoch /\ Running'
            => thread[u].conn = lrp.epoch /\ Running
      <4>1. Op(u) \in {"Register", "CreateChannel"} /\ thread[u].at = 5 => ~Inside(u, "activating")
        <5>1. Live(u) => PlaceOf(Op(u), thread[u].at)
          BY <2>2, LivePlace
        <5>2. QED
          BY <2>2, <5>1 DEF Placed, Current, PlaceOf, Live
      <4>2. /\ thread[u].conn <= lrp.epoch /\ thread[u].conn \in Nat
            /\ thread[u].conn = lrp.epoch /\ lrp.state = "starting" => Inside(u, "activating")
        BY <2>2 DEF Connections, TypeOK, ThreadType
      <4>3. QED
        BY <1>1, <4>1, <4>2 DEF Advance, Running
    <3>6. QED
      BY <1>1, <1>4, <2>2, <3>1, <3>3, <3>4, <3>5 DEF Serves, Op, Inside
  <2>6. QED
    BY <2>1, <2>3, <2>4, <2>5 DEF ThreadInv
<1>5. ASSUME NEW u \in Threads, NEW v \in Threads, AppOf[u] = b
      PROVE  Apart(u, v)'
  BY <1>1, <1>5 DEF Whole, Apart, Holder, Op, SameApp, SameClient
<1>6. Client(b)'
  <2>1. Client(b) /\ app'[b].epoch = app[b].epoch
    BY DEF Whole, SameApp, SameClient
  <2>2. app'[b].epoch <= lrp'.epoch /\ (app'[b].epoch = lrp'.epoch => lrp'.state # "starting")
    BY <1>1, <2>1 DEF Client, Advance
  <2>3. Tidy(b)'
    BY <1>1, <2>1 DEF Client, Tidy, SameApp, SameClient, Sinks
  <2>4. Mapped(b)'
    BY <1>1, <2>1 DEF Client, Mapped, SameApp, SameClient
  <2>5. Served(b)'
    <3>1. app[b].epoch = lrp'.epoch /\ Running' => app[b].epoch = lrp.epoch /\ Running
      BY <1>1, <2>1 DEF Client, Advance, Running
    <3>2. app'[b].fg = app[b].fg /\ app'[b].lr = app[b].lr
      BY DEF SameApp, SameClient
    <3>3. QED
      BY <1>1, <1>2, <1>3, <2>1, <3>1, <3>2 DEF Client, Served, SameApp, Held
  <2>6. QED
    BY <2>2, <2>3, <2>4, <2>5 DEF Client
<1>7. QED
  BY <1>4, <1>5, <1>6 DEF Whole

-----------------------------------------------------------------------------
(* What a thread's step leaves of the other threads of its app.             *)

Siblings(t) ==
    LET a == AppOf[t] IN
    /\ Op(t) # "none" /\ Others(t)
    /\ app[a].registering /\ ~Holder(t) => app'[a].registering
    /\ app'[a].fg => app[a].fg \/ Is(t, "Register", 4)
    /\ app'[a].lr => app[a].lr \/ Is(t, "Register", 5)
    /\ app'[a].mixed = app[a].mixed
    /\ Known(a) => Known(a)' \/ Holder(t) \/ Op(t) = "Gone"
    /\ raw'[a] = raw[a] \/ \A u \in Threads : u # t => ~Inside(u, "add") /\ ~Inside(u, "remove")

LEMMA SiblingsKept ==
  ASSUME TypeOK, Locks, Advance, NEW t \in Threads, Whole(AppOf[t]), Siblings(t)
  PROVE  /\ \A u \in Threads : u # t /\ AppOf[u] = AppOf[t]
              => Placed(u)' /\ Connections(u)' /\ Progress(u)' /\ Alone(u)'
         /\ \A u, v \in Threads : u # t /\ v # t /\ AppOf[u] = AppOf[t] => Apart(u, v)'
<1> DEFINE a == AppOf[t]
<1>1. \A u \in Threads : u # t => thread'[u] = thread[u]
  BY DEF Siblings, Others
<1>2. ASSUME NEW u \in Threads, u # t, AppOf[u] = a
      PROVE  Placed(u)' /\ Connections(u)' /\ Progress(u)' /\ Alone(u)'
  <2>1. thread'[u] = thread[u] /\ ThreadInv(u) /\ Apart(u, t) /\ Apart(t, u)
    BY <1>1, <1>2 DEF Whole
  <2>2. Placed(u)' /\ Connections(u)'
    BY <2>1, FramePlaced, FrameConnections DEF ThreadInv
  <2>3. ~app[a].mixed => Op(u) = "none"
    BY <1>2, <2>1 DEF Apart, Siblings
  <2>4. Alone(u)'
    <3>1. ~app[a].mixed => thread[u].inside = "none"
      BY <2>1, <2>3 DEF ThreadInv, Placed
    <3>2. QED
      BY <1>2, <2>1, <2>3, <3>1 DEF Alone, Op, Inside, Siblings
  <2>5. Progress(u)'
    <3>1. Progress(u) /\ Placed(u)
      BY <2>1 DEF ThreadInv
    <3>2. Holder(u) => app'[a].registering
      BY <1>2, <2>1, <3>1 DEF Progress, Apart, Siblings
    <3>3. Op(u) = "Gone" => ~app'[a].fg /\ ~app'[a].lr
      BY <1>2, <2>1, <3>1 DEF Progress, Apart, Siblings, Is
    <3>4. Op(u) = "Register" => ~Holder(t) /\ (thread[u].at > 2 => Op(t) # "Gone") /\ thread[u].at \in Nat
      BY <1>2, <2>1, <3>1 DEF Apart, Holder, Placed
    <3>5. Op(u) = "Register" => /\ thread[u].at <= 4 => ~app'[a].fg
                                /\ thread[u].at <= 5 => ~app'[a].lr
                                /\ thread[u].at \in 3 .. 5 => Known(a)'
      BY <1>2, <3>1, <3>4 DEF Progress, Siblings, Holder, Is
    <3>6. (Holder(u) => ~Holder(t)) /\ (Is(t, "Register", 4) \/ Is(t, "Register", 5) => Holder(t))
      BY <1>2, <2>1 DEF Apart, Holder, Is
    <3>7. /\ Op(u) = "UnregisterAll" /\ thread[u].at = 7 => ~app'[a].lr
          /\ Op(u) = "Undo" /\ thread[u].at >= 2 => ~app'[a].lr
          /\ Op(u) = "Undo" /\ thread[u].at = 3 => ~app'[a].fg
      BY <1>2, <3>1, <3>6 DEF Progress, Siblings, Holder
    <3>8. Inside(u, "add") \/ Inside(u, "remove") => thread[u].id = IdOf(a)'
      BY <1>2, <3>1 DEF Progress, Siblings, IdOf
    <3>9. QED
      BY <1>2, <2>1, <3>2, <3>3, <3>5, <3>7, <3>8 DEF Progress, Holder, Op, Inside
  <2>6. QED
    BY <2>2, <2>4, <2>5
<1>3. ASSUME NEW u \in Threads, NEW v \in Threads, u # t, v # t, AppOf[u] = a
      PROVE  Apart(u, v)'
  BY <1>1, <1>3 DEF Whole, Apart, Holder, Op, Siblings
<1>4. QED
  BY <1>2, <1>3

\* The service of the app is kept where it still serves.
KeepsService(t) ==
    LET a == AppOf[t] IN
    Serving(a)' =>
      /\ Serving(a) /\ raw'[a] = raw[a]
      /\ IdOf(a) \in listeners => IdOf(a) \in listeners'
      /\ foreground[IdOf(a)] \in Held => foreground'[IdOf(a)] \in Held

LEMMA ServiceKept ==
  ASSUME TypeOK, Advance, NEW t \in Threads, Whole(AppOf[t]), Others(t), KeepsService(t)
  PROVE  \A u \in Threads : u # t /\ AppOf[u] = AppOf[t] => Serves(u)'
<1> DEFINE a == AppOf[t]
<1>1. SUFFICES ASSUME NEW u \in Threads, u # t, AppOf[u] = a, Serving(a)'
               PROVE  Serves(u)'
  BY DEF Serves
<1>2. thread'[u] = thread[u] /\ ThreadInv(u) /\ IdOf(a)' = IdOf(a)
  BY <1>1 DEF Others, Whole, KeepsService, IdOf
<1>3. Op(u) \in {"Register", "CreateChannel"} /\ thread[u].at = 5
        /\ thread[u].conn = lrp'.epoch /\ Running'
        => thread[u].conn = lrp.epoch /\ Running
  <2>1. Op(u) \in {"Register", "CreateChannel"} /\ thread[u].at = 5 => ~Inside(u, "activating")
    <3>1. Live(u) => PlaceOf(Op(u), thread[u].at)
      BY <1>2, LivePlace DEF ThreadInv
    <3>2. QED
      BY <1>2, <3>1 DEF Placed, Current, PlaceOf, Live, ThreadInv
  <2>2. /\ thread[u].conn <= lrp.epoch /\ thread[u].conn \in Nat /\ lrp.epoch \in Nat
        /\ thread[u].conn = lrp.epoch /\ lrp.state = "starting" => Inside(u, "activating")
    BY <1>2, ShapeAssumption DEF Connections, ThreadInv, TypeOK, ThreadType, ProcessType
  <2>3. QED
    BY <1>2, <2>1, <2>2 DEF Advance, Running
<1>4. QED
  BY <1>1, <1>2, <1>3 DEF Serves, KeepsService, ThreadInv, Op, Inside

-----------------------------------------------------------------------------
(* The steps of the process and of the apps.                                *)

\* What a step that leaves the threads and the registrations alone leaves.
Still ==
    /\ UNCHANGED <<raw, issued, clsid, toast, thread>>
    /\ \A b \in Apps : SameClient(b) /\ app'[b].registering = app[b].registering

LEMMA StillWhole ==
  ASSUME IInv, Advance, Still, UNCHANGED listeners,
         \A i \in Ids : foreground'[i] = foreground[i]
                          \/ (foreground[i] \in Sinks /\ foreground'[i] = "dropped")
  PROVE  \A b \in Apps : Whole(b)'
<1>1. TAKE b \in Apps
<1>2. SameApp(b)
  BY <1>1 DEF SameApp, Still
<1>3. QED
  BY <1>1, <1>2, FrameWhole DEF IInv, Process

LEMMA ProcessFacts ==
  ASSUME TypeOK
  PROVE  /\ lrp \in ProcessType /\ lrp.epoch \in 0 .. MaxStarts /\ lrp.timer \in BOOLEAN
         /\ lrp.event \in BOOLEAN /\ lrp.late \in BOOLEAN /\ lrp.slow \subseteq Ids
         /\ Started.state = "starting" /\ Started.epoch = lrp.epoch + 1 /\ Started.slow = lrp.slow
         /\ (lrp.epoch < MaxStarts => Started \in ProcessType)
         /\ Cancel \in ProcessType /\ Cancel.state = lrp.state /\ Cancel.epoch = lrp.epoch
         /\ Cancel.slow = lrp.slow /\ ~Cancel.timer /\ Cancel.event = lrp.event
         /\ (Cancel.late <=> lrp.late \/ lrp.event \/ lrp.state = "awake")
         /\ Setup \in ProcessType /\ Setup.state = lrp.state /\ Setup.epoch = lrp.epoch
         /\ Setup.slow = lrp.slow /\ (Setup.late <=> lrp.late \/ listeners # {})
<1>1. lrp \in ProcessType /\ MaxStarts \in Nat
  BY ShapeAssumption DEF TypeOK
<1>2. /\ lrp.epoch \in 0 .. MaxStarts /\ lrp.timer \in BOOLEAN
      /\ lrp.event \in BOOLEAN /\ lrp.late \in BOOLEAN /\ lrp.slow \subseteq Ids
  BY <1>1 DEF ProcessType
<1>3. /\ Started.state = "starting" /\ Started.epoch = lrp.epoch + 1 /\ Started.slow = lrp.slow
      /\ (lrp.epoch < MaxStarts => Started \in ProcessType)
  <2>1. lrp.epoch < MaxStarts => lrp.epoch + 1 \in 0 .. MaxStarts
    BY <1>1, <1>2
  <2>2. QED
    BY <1>1, <2>1 DEF Started, ProcessType
<1>4. /\ Cancel \in ProcessType /\ Cancel.state = lrp.state /\ Cancel.epoch = lrp.epoch
      /\ Cancel.slow = lrp.slow /\ ~Cancel.timer /\ Cancel.event = lrp.event
      /\ (Cancel.late <=> lrp.late \/ lrp.event \/ lrp.state = "awake")
  <2> DEFINE late == lrp.late \/ lrp.event \/ lrp.state = "awake"
  <2>1. late \in BOOLEAN /\ Cancel = [lrp EXCEPT !.timer = FALSE, !.late = late]
    BY DEF Cancel
  <2> HIDE DEF late
  <2>2. /\ Cancel \in ProcessType /\ Cancel.state = lrp.state /\ Cancel.epoch = lrp.epoch
        /\ Cancel.slow = lrp.slow /\ ~Cancel.timer /\ Cancel.event = lrp.event
        /\ Cancel.late = late
    BY <1>1, <2>1 DEF ProcessType
  <2>3. QED
    BY <2>2 DEF late
<1>5. /\ Setup \in ProcessType /\ Setup.state = lrp.state /\ Setup.epoch = lrp.epoch
      /\ Setup.slow = lrp.slow /\ (Setup.late <=> lrp.late \/ listeners # {})
  <2> DEFINE late == lrp.late \/ listeners # {}
  <2>1. late \in BOOLEAN /\ Setup = [lrp EXCEPT !.timer = TRUE, !.event = FALSE, !.late = late]
    BY DEF Setup
  <2> HIDE DEF late
  <2>2. /\ Setup \in ProcessType /\ Setup.state = lrp.state /\ Setup.epoch = lrp.epoch
        /\ Setup.slow = lrp.slow /\ Setup.late = late
    BY <1>1, <2>1 DEF ProcessType
  <2>3. QED
    BY <2>2 DEF late
<1>6. QED
  BY <1>1, <1>2, <1>3, <1>4, <1>5

\* TypeOK in the next state, part by part.
LEMMA TypeNext ==
  ASSUME TypeOK,
         raw' \in [Apps -> 0 .. MaxIds], issued' \in [Apps -> 0 .. MaxIds],
         \A a \in Apps : raw'[a] <= issued'[a], clsid' \subseteq Ids, toast' \subseteq Apps,
         wpn' \in [trusted : SUBSET Ids, channels : SUBSET Ids, sinks : SUBSET Ids, stray : SUBSET Ids],
         lrp' \in ProcessType, listeners' \subseteq Ids,
         foreground' \in [Ids -> Entries], app' \in [Apps -> AppType],
         thread' \in [Threads -> ThreadType],
         \A t \in Threads : thread'[t].op = "Gone" => thread'[t].inside \in Exclusive \cup Shared,
         note' \in [id : Ids \cup {None}, left : Nat]
  PROVE  TypeOK'
  BY DEF TypeOK

LEMMA StoreTypes ==
  ASSUME TypeOK, UNCHANGED store
  PROVE  /\ raw' \in [Apps -> 0 .. MaxIds] /\ issued' \in [Apps -> 0 .. MaxIds]
         /\ \A a \in Apps : raw'[a] <= issued'[a]
         /\ clsid' \subseteq Ids /\ toast' \subseteq Apps
  BY DEF TypeOK, store

LEMMA ProcessType2 ==
  ASSUME TypeOK, UNCHANGED <<store, wpn, memory, app, thread, note>>, lrp' \in ProcessType
  PROVE  TypeOK'
  BY DEF TypeOK, store, memory

LEMMA StillFacts ==
  ASSUME UNCHANGED <<store, memory, app, thread>>
  PROVE  /\ Still /\ UNCHANGED listeners
         /\ \A i \in Ids : foreground'[i] = foreground[i]
  BY DEF Still, SameClient, store, memory

LEMMA LrpSteps ==
  ASSUME IInv, StartupTask \/ TimerFires \/ WaitReturns \/ Shutdown
  PROVE  IInv'
<1>1. TypeOK /\ Process /\ UNCHANGED <<store, wpn, memory, app, thread, note>>
  BY DEF IInv, StartupTask, TimerFires, WaitReturns, Shutdown
<1>2. /\ raw' = raw /\ issued' = issued /\ clsid' = clsid /\ listeners' = listeners
      /\ foreground' = foreground /\ wpn' = wpn /\ thread' = thread /\ note' = note
  BY <1>1 DEF store, memory
<1>3. CASE StartupTask
  <2>1. lrp' = Started /\ lrp.epoch = 0 /\ lrp.state = "off"
    BY <1>3 DEF StartupTask
  <2>2. lrp' \in ProcessType /\ lrp'.state = "starting" /\ lrp'.epoch = lrp.epoch + 1
        /\ lrp'.slow = lrp.slow
    BY <1>1, <2>1, ProcessFacts, ShapeAssumption
  <2>3. TypeOK'
    BY <1>1, <2>2, ProcessType2
  <2>4. Advance
    BY <2>1, <2>2 DEF Advance
  <2>5. listeners = {} /\ \A t \in Threads : ~Locked(t)
    BY <1>1, <2>1 DEF Process, Cleared, Locks
  <2>6. Locks'
    BY <1>2, <2>5 DEF Locks, Locked, Exclusive
  <2>7. Early' /\ Cleared'
    BY <1>1, <1>2, <2>1, <2>2, <2>5 DEF Early, Cleared, Process
  <2>8. Issued' /\ PlatformStarts' /\ Noticed'
    BY <1>1, <1>2, <2>2 DEF Process, Issued, PlatformStarts, Loadable, Noticed
  <2>9. \A b \in Apps : Whole(b)'
    BY <1>1, <2>4, StillWhole, StillFacts
  <2>10. QED
    BY <2>3, <2>6, <2>7, <2>8, <2>9 DEF IInv, Process
<1>4. CASE TimerFires
  <2>1. lrp.timer /\ lrp' = [lrp EXCEPT !.timer = FALSE, !.event = TRUE]
    BY <1>4 DEF TimerFires
  <2>2. /\ lrp' \in ProcessType /\ lrp'.state = lrp.state /\ lrp'.epoch = lrp.epoch
        /\ lrp'.slow = lrp.slow /\ lrp'.late = lrp.late
    BY <1>1, <2>1, ProcessFacts DEF ProcessType
  <2>3. TypeOK' /\ Advance
    BY <1>1, <2>2, ProcessType2 DEF Advance
  <2>4. Locks'
    BY <1>1, <1>2, <2>2 DEF Process, Locks, Locked
  <2>5. Early' /\ Cleared'
    BY <1>1, <1>2, <2>1, <2>2 DEF Early, Cleared, Process
  <2>6. Issued' /\ PlatformStarts' /\ Noticed'
    BY <1>1, <1>2, <2>2 DEF Process, Issued, PlatformStarts, Loadable, Noticed
  <2>7. \A b \in Apps : Whole(b)'
    BY <1>1, <2>3, StillWhole, StillFacts
  <2>8. QED
    BY <2>3, <2>4, <2>5, <2>6, <2>7 DEF IInv, Process
<1>5. CASE WaitReturns
  <2>1. lrp.state = "up" /\ lrp.event /\ lrp' = [lrp EXCEPT !.state = "awake", !.event = FALSE]
    BY <1>5 DEF WaitReturns
  <2>2. /\ lrp' \in ProcessType /\ lrp'.state = "awake" /\ lrp'.epoch = lrp.epoch
        /\ lrp'.slow = lrp.slow /\ lrp'.late = lrp.late
    BY <1>1, <2>1, ProcessFacts DEF ProcessType
  <2>3. TypeOK' /\ Advance
    BY <1>1, <2>1, <2>2, ProcessType2 DEF Advance
  <2>4. Locks'
    BY <1>1, <1>2, <2>2 DEF Process, Locks, Locked
  <2>5. Early' /\ Cleared'
    BY <1>1, <1>2, <2>1, <2>2 DEF Early, Cleared, Process
  <2>6. Issued' /\ PlatformStarts' /\ Noticed'
    BY <1>1, <1>2, <2>2 DEF Process, Issued, PlatformStarts, Loadable, Noticed
  <2>7. \A b \in Apps : Whole(b)'
    BY <1>1, <2>3, StillWhole, StillFacts
  <2>8. QED
    BY <2>3, <2>4, <2>5, <2>6, <2>7 DEF IInv, Process
<1>6. CASE Shutdown
  <2>1. lrp.state = "awake" /\ PlatformFree /\ lrp' = [lrp EXCEPT !.state = "stopping"]
    BY <1>6 DEF Shutdown
  <2>2. /\ lrp' \in ProcessType /\ lrp'.state = "stopping" /\ lrp'.epoch = lrp.epoch
        /\ lrp'.slow = lrp.slow /\ lrp'.late = lrp.late
    BY <1>1, <2>1, ProcessFacts DEF ProcessType
  <2>3. TypeOK' /\ Advance
    BY <1>1, <2>1, <2>2, ProcessType2 DEF Advance
  <2>4. \A t \in Threads : ~Locked(t) /\ thread[t].inside # "cancel"
    BY <2>1 DEF PlatformFree, Locked, Shared
  <2>5. Locks'
    BY <1>2, <2>4 DEF Locks, Locked
  <2>6. Early' /\ Cleared'
    BY <1>1, <1>2, <2>1, <2>2, <2>4 DEF Early, Cleared, Process
  <2>7. Issued' /\ PlatformStarts' /\ Noticed'
    BY <1>1, <1>2, <2>2 DEF Process, Issued, PlatformStarts, Loadable, Noticed
  <2>8. \A b \in Apps : Whole(b)'
    BY <1>1, <2>3, StillWhole, StillFacts
  <2>9. QED
    BY <2>3, <2>5, <2>6, <2>7, <2>8 DEF IInv, Process
<1>7. QED
  BY <1>3, <1>4, <1>5, <1>6

LEMMA ExitStep ==
  ASSUME IInv, Exit
  PROVE  IInv'
<1>1. /\ TypeOK /\ Process /\ lrp.state = "stopping"
      /\ lrp' = [lrp EXCEPT !.state = "off", !.timer = FALSE, !.event = FALSE]
      /\ listeners' = {} /\ foreground' = [i \in Ids |-> "none"]
      /\ wpn' = [wpn EXCEPT !.sinks = {}, !.stray = {}] /\ note' = [note EXCEPT !.id = None]
      /\ UNCHANGED <<store, app, thread>>
  BY DEF IInv, Exit
<1>2. /\ lrp' \in ProcessType /\ lrp'.state = "off" /\ lrp'.epoch = lrp.epoch
      /\ lrp'.slow = lrp.slow
  BY <1>1, ProcessFacts DEF ProcessType
<1>3. /\ wpn' \in [trusted : SUBSET Ids, channels : SUBSET Ids, sinks : SUBSET Ids, stray : SUBSET Ids]
      /\ wpn'.trusted = wpn.trusted /\ wpn'.channels = wpn.channels /\ wpn'.sinks = {}
  BY <1>1 DEF TypeOK
<1>4. /\ note' \in [id : Ids \cup {None}, left : Nat] /\ note'.id = None
  BY <1>1 DEF TypeOK
<1>5. raw' = raw /\ issued' = issued /\ clsid' = clsid /\ toast' = toast /\ app' = app /\ thread' = thread
  BY <1>1 DEF store
<1>6. TypeOK'
  <2>1. /\ listeners' \subseteq Ids /\ foreground' \in [Ids -> Entries]
    BY <1>1 DEF Entries
  <2>2. UNCHANGED store
    BY <1>1
  <2>3. /\ app' \in [Apps -> AppType] /\ thread' \in [Threads -> ThreadType]
        /\ \A t \in Threads : thread'[t].op = "Gone" => thread'[t].inside \in Exclusive \cup Shared
    BY <1>1, <1>5 DEF TypeOK, Op
  <2>4. QED
    BY <1>1, <1>2, <1>3, <1>4, <2>1, <2>2, <2>3, StoreTypes, TypeNext
<1>7. \A t \in Threads : ~Locked(t)
  BY <1>1 DEF Process, Locks
<1>8. Process'
  <2>1. Locks'
    BY <1>5, <1>7 DEF Locks, Locked
  <2>2. Early' /\ Cleared'
    BY <1>1, <1>2, <1>3 DEF Process, Early, Cleared
  <2>3. Issued' /\ PlatformStarts' /\ Noticed'
    BY <1>1, <1>2, <1>3, <1>4, <1>5 DEF Process, Issued, PlatformStarts, Loadable, Noticed
  <2>4. QED
    BY <2>1, <2>2, <2>3 DEF Process
<1>9. Advance
  BY <1>1, <1>2 DEF Advance
<1>10. ASSUME NEW b \in Apps
       PROVE  Whole(b)'
  <2>1. Whole(b)
    BY DEF IInv
  <2>2. ASSUME NEW u \in Threads, AppOf[u] = b
        PROVE  ThreadInv(u)'
    <3>1. ThreadInv(u) /\ ~Locked(u)
      BY <2>1, <2>2, <1>7 DEF Whole
    <3>2. Placed(u)' /\ Connections(u)'
      BY <1>1, <1>5, <1>9, <3>1, FramePlaced, FrameConnections DEF ThreadInv, Process
    <3>3. Progress(u)'
      BY <1>5, <3>1 DEF ThreadInv, Progress, Holder, Op, Inside, Known, IdOf
    <3>4. Alone(u)' /\ Serves(u)'
      BY <1>1, <1>2, <1>5, <3>1
         DEF ThreadInv, Alone, Serves, Locked, Shared, Inside, Op, Running, Known, IdOf
    <3>5. QED
      BY <3>2, <3>3, <3>4 DEF ThreadInv
  <2>3. ASSUME NEW u \in Threads, NEW v \in Threads, AppOf[u] = b
        PROVE  Apart(u, v)'
    BY <1>5, <2>1, <2>3 DEF Whole, Apart, Holder, Op
  <2>4. Client(b)'
    <3>1. Client(b)
      BY <2>1 DEF Whole
    <3>2. Tidy(b)' /\ Mapped(b)'
      BY <1>1, <1>5, <3>1 DEF Client, Tidy, Mapped, Known
    <3>3. Served(b)'
      BY <1>2, <1>5, <3>1 DEF Client, Served, Running, Known, Serving, Dropping, Last, Op
    <3>4. QED
      BY <1>2, <1>5, <3>1, <3>2, <3>3 DEF Client
  <2>5. QED
    BY <2>2, <2>3, <2>4 DEF Whole
<1>11. QED
  BY <1>6, <1>8, <1>10 DEF IInv

LEMMA InitializeStep ==
  ASSUME IInv, Initialize
  PROVE  IInv'
<1>1. /\ TypeOK /\ Process /\ lrp.state = "starting"
      /\ UNCHANGED <<store, foreground, app, thread, note>>
  BY DEF IInv, Initialize
<1>2. /\ raw' = raw /\ issued' = issued /\ clsid' = clsid /\ toast' = toast /\ app' = app
      /\ thread' = thread /\ foreground' = foreground /\ note' = note
  BY <1>1 DEF store
<1>3. /\ listeners = {} /\ wpn.sinks = {} /\ \A t \in Threads : ~Locked(t)
      /\ \A i \in Ids : foreground[i] = "none"
  BY <1>1 DEF Process, Cleared, Locks
<1>4. CASE /\ lrp' = [lrp EXCEPT !.state = "off", !.timer = FALSE, !.event = FALSE]
           /\ listeners' = listeners /\ wpn' = wpn
  <2>1. /\ lrp' = [lrp EXCEPT !.state = "off", !.timer = FALSE, !.event = FALSE]
        /\ listeners' = listeners /\ wpn' = wpn
    BY <1>4
  <2>2. /\ lrp' \in ProcessType /\ lrp'.state = "off" /\ lrp'.epoch = lrp.epoch
        /\ lrp'.slow = lrp.slow
    BY <1>1, <2>1, ProcessFacts DEF ProcessType
  <2>3. TypeOK' /\ Advance
    BY <1>1, <2>1, <2>2, ProcessType2 DEF Advance, memory
  <2>4. Locks'
    BY <1>2, <1>3 DEF Locks, Locked
  <2>5. Early' /\ Cleared'
    BY <1>1, <1>2, <1>3, <2>1, <2>2 DEF Early, Cleared, Process
  <2>6. Issued' /\ PlatformStarts' /\ Noticed'
    BY <1>1, <1>2, <2>1, <2>2 DEF Process, Issued, PlatformStarts, Loadable, Noticed
  <2>7. \A b \in Apps : Whole(b)'
    BY <1>1, <2>1, <2>3, StillWhole, StillFacts DEF memory
  <2>8. QED
    BY <2>3, <2>4, <2>5, <2>6, <2>7 DEF IInv, Process
<1>5. CASE /\ lrp' = [(IF Loadable = {} THEN lrp ELSE Cancel) EXCEPT !.state = "up"]
           /\ listeners' = Loadable /\ wpn' = [wpn EXCEPT !.sinks = @ \cup Loadable]
  <2>1. /\ lrp' = [(IF Loadable = {} THEN lrp ELSE Cancel) EXCEPT !.state = "up"]
        /\ listeners' = Loadable /\ wpn' = [wpn EXCEPT !.sinks = @ \cup Loadable]
    BY <1>5
  <2>2. Loadable \subseteq Ids
    BY <1>1 DEF Loadable, TypeOK
  <2>3. /\ lrp' \in ProcessType /\ lrp'.state = "up" /\ lrp'.epoch = lrp.epoch
        /\ lrp'.slow = lrp.slow
        /\ Loadable # {} => ~lrp'.timer /\ (lrp'.event => lrp'.late)
    BY <1>1, <2>1, ProcessFacts DEF ProcessType
  <2>4. /\ wpn' \in [trusted : SUBSET Ids, channels : SUBSET Ids, sinks : SUBSET Ids, stray : SUBSET Ids]
        /\ wpn'.trusted = wpn.trusted /\ wpn'.channels = wpn.channels /\ wpn'.sinks = Loadable
    BY <1>1, <1>3, <2>1, <2>2 DEF TypeOK
  <2>5. TypeOK'
    <3>1. /\ listeners' \subseteq Ids /\ foreground' \in [Ids -> Entries]
          /\ note' \in [id : Ids \cup {None}, left : Nat]
      BY <1>1, <1>2, <2>1, <2>2 DEF TypeOK
    <3>2. /\ app' \in [Apps -> AppType] /\ thread' \in [Threads -> ThreadType]
          /\ \A t \in Threads : thread'[t].op = "Gone" => thread'[t].inside \in Exclusive \cup Shared
      BY <1>1, <1>2 DEF TypeOK, Op
    <3>3. QED
      BY <1>1, <2>3, <2>4, <3>1, <3>2, StoreTypes, TypeNext
  <2>6. Process'
    <3>1. Locks'
      BY <1>2, <1>3 DEF Locks, Locked
    <3>2. Early' /\ Cleared'
      BY <1>1, <2>1, <2>3, <2>4 DEF Process, Early, Cleared
    <3>3. Issued' /\ PlatformStarts' /\ Noticed'
      BY <1>1, <1>2, <2>3, <2>4 DEF Process, Issued, PlatformStarts, Loadable, Noticed
    <3>4. QED
      BY <3>1, <3>2, <3>3 DEF Process
  <2>7. Advance
    BY <1>1, <2>3 DEF Advance
  <2>8. ASSUME NEW b \in Apps
        PROVE  Whole(b)'
    <3>1. Whole(b)
      BY DEF IInv
    <3>2. ASSUME NEW u \in Threads, AppOf[u] = b
          PROVE  ThreadInv(u)'
      <4>1. ThreadInv(u) /\ ~Locked(u)
        BY <3>1, <3>2, <1>3 DEF Whole
      <4>2. Placed(u)' /\ Connections(u)'
        BY <1>1, <1>2, <2>7, <4>1, FramePlaced, FrameConnections DEF ThreadInv, Process
      <4>3. Progress(u)'
        BY <1>2, <4>1 DEF ThreadInv, Progress, Holder, Op, Inside, Known, IdOf
      <4>4. Alone(u)'
        BY <1>2, <1>3, <4>1
           DEF ThreadInv, Alone, Locked, Shared, Inside, Op, Known, IdOf
      <4>5. Op(u) \in {"Register", "CreateChannel"} /\ thread[u].at = 5 => thread[u].conn # lrp.epoch
        <5>1. Live(u) => PlaceOf(Op(u), thread[u].at)
          BY <1>1, <4>1, LivePlace DEF ThreadInv
        <5>2. QED
          BY <1>1, <4>1, <5>1 DEF ThreadInv, Connections, Placed, Current, PlaceOf, Live, Inside
      <4>6. Serves(u)'
        BY <1>2, <2>3, <4>1, <4>5
           DEF Serves, Locked, Shared, Inside, Op
      <4>7. QED
        BY <4>2, <4>3, <4>4, <4>6 DEF ThreadInv
    <3>3. ASSUME NEW u \in Threads, NEW v \in Threads, AppOf[u] = b
          PROVE  Apart(u, v)'
      BY <1>2, <3>1, <3>3 DEF Whole, Apart, Holder, Op
    <3>4. Client(b)'
      <4>1. Client(b)
        BY <3>1 DEF Whole
      <4>2. \A i \in Loadable : i[1] = b => i = IdOf(b)
        BY <1>1, <2>2, IdFacts DEF Loadable
      <4>3. Tidy(b)' /\ Mapped(b)'
        BY <1>2, <1>3, <2>1, <4>1, <4>2 DEF Client, Tidy, Mapped, Known, IdOf
      <4>4. Served(b)'
        BY <1>1, <1>2, <2>3, <4>1 DEF Client, Served, Known, Serving, Dropping, Last, Op
      <4>5. QED
        BY <1>1, <1>2, <2>3, <4>1, <4>3, <4>4 DEF Client
    <3>5. QED
      BY <3>2, <3>3, <3>4 DEF Whole
  <2>9. QED
    BY <2>5, <2>6, <2>8 DEF IInv
<1>6. QED
  BY <1>4, <1>5 DEF Initialize

LEMMA AliveFacts ==
  ASSUME TypeOK, NEW a \in Apps, app' = [app EXCEPT ![a].alive = TRUE]
  PROVE  /\ app' \in [Apps -> AppType]
         /\ \A b \in Apps : SameClient(b) /\ app'[b].registering = app[b].registering
<1>1. app \in [Apps -> AppType] /\ app[a] \in AppType
  BY DEF TypeOK
<1>2. app' = [app EXCEPT ![a] = [app[a] EXCEPT !.alive = TRUE]]
  BY <1>1
<1>3. [app[a] EXCEPT !.alive = TRUE] \in AppType
  BY <1>1 DEF AppType
<1>4. QED
  BY <1>1, <1>2, <1>3 DEF AppType, SameClient

LEMMA NoteSteps ==
  ASSUME IInv, (\E i \in Ids : OnRawNotificationReceived(i)) \/ InvocationEnds
               \/ (\E a \in Apps : AppStarts(a))
  PROVE  IInv'
<1>1. /\ TypeOK /\ Process /\ UNCHANGED <<store, wpn, lrp, listeners, thread>>
  <2>1. TypeOK /\ Process
    BY DEF IInv
  <2>2. CASE \E i \in Ids : OnRawNotificationReceived(i)
    BY <2>1, <2>2 DEF OnRawNotificationReceived, memory
  <2>3. CASE InvocationEnds
    BY <2>1, <2>3 DEF InvocationEnds
  <2>4. CASE \E a \in Apps : AppStarts(a)
    BY <2>1, <2>4 DEF AppStarts, memory
  <2>5. QED
    BY <2>2, <2>3, <2>4
<1>2. /\ raw' = raw /\ issued' = issued /\ clsid' = clsid /\ toast' = toast /\ wpn' = wpn
      /\ thread' = thread /\ lrp' = lrp /\ listeners' = listeners
  BY <1>1 DEF store
<1>3. /\ foreground' \in [Ids -> Entries]
      /\ note' \in [id : Ids \cup {None}, left : Nat] /\ Noticed'
      /\ \A i \in Ids : foreground'[i] = foreground[i]
                          \/ (foreground[i] \in Sinks /\ foreground'[i] = "dropped")
  <2>1. /\ foreground \in [Ids -> Entries]
        /\ note \in [id : Ids \cup {None}, left : Nat] /\ Noticed
    BY <1>1 DEF TypeOK, Process
  <2>2. CASE \E i \in Ids : OnRawNotificationReceived(i)
    <3>1. PICK i \in Ids : OnRawNotificationReceived(i)
      BY <2>2
    <3>2. /\ note.left > 0 /\ foreground' = foreground
          /\ note' = [note EXCEPT !.left = @ - 1, !.id = IF foreground[i] \in Sinks THEN i ELSE None]
      BY <3>1 DEF OnRawNotificationReceived, memory
    <3>3. note.left - 1 \in Nat
      BY <2>1, <3>2
    <3>4. note'.id = IF foreground[i] \in Sinks THEN i ELSE None
      BY <2>1, <3>2
    <3>5. note' \in [id : Ids \cup {None}, left : Nat]
      BY <2>1, <3>2, <3>3
    <3>6. QED
      BY <2>1, <3>2, <3>4, <3>5 DEF Noticed
  <2>3. CASE InvocationEnds
    <3>1. /\ note.id # None /\ note' = [note EXCEPT !.id = None]
          /\ foreground' = foreground \/ foreground' = [foreground EXCEPT ![note.id] = "dropped"]
      BY <2>3 DEF InvocationEnds
    <3>2. note.id \in Ids /\ foreground[note.id] \in Sinks
      BY <2>1, <3>1 DEF Noticed
    <3>3. /\ foreground' \in [Ids -> Entries]
          /\ \A i \in Ids : foreground'[i] = foreground[i]
                              \/ (foreground[i] \in Sinks /\ foreground'[i] = "dropped")
      BY <2>1, <3>1, <3>2 DEF Entries
    <3>4. note' \in [id : Ids \cup {None}, left : Nat] /\ note'.id = None
      BY <2>1, <3>1
    <3>5. QED
      BY <3>3, <3>4 DEF Noticed
  <2>4. CASE \E a \in Apps : AppStarts(a)
    BY <2>1, <2>4 DEF AppStarts, Noticed, memory
  <2>5. QED
    BY <2>2, <2>3, <2>4
<1>4. app' \in [Apps -> AppType]
      /\ \A b \in Apps : SameClient(b) /\ app'[b].registering = app[b].registering
  <2>1. app' = app \/ \E a \in Apps : app' = [app EXCEPT ![a].alive = TRUE]
    <3>1. \A i \in Ids : i[1] \in Apps
      BY DEF Ids
    <3>2. CASE InvocationEnds
      <4>1. note.id \in Ids
        BY <1>1, <3>2 DEF InvocationEnds, TypeOK
      <4>2. app' = app \/ Launch(note.id[1])
        BY <3>2 DEF InvocationEnds
      <4>3. QED
        BY <3>1, <4>1, <4>2 DEF Launch
    <3>3. CASE \E i \in Ids : OnRawNotificationReceived(i)
      <4>1. PICK i \in Ids : OnRawNotificationReceived(i)
        BY <3>3
      <4>2. app' = app \/ Launch(i[1])
        BY <4>1 DEF OnRawNotificationReceived
      <4>3. QED
        BY <3>1, <4>2 DEF Launch
    <3>4. CASE \E a \in Apps : AppStarts(a)
      BY <3>4 DEF AppStarts
    <3>5. QED
      BY <3>2, <3>3, <3>4
  <2>2. QED
    BY <1>1, <2>1, AliveFacts DEF SameClient, TypeOK
<1>5. TypeOK'
  <2>1. /\ wpn' \in [trusted : SUBSET Ids, channels : SUBSET Ids, sinks : SUBSET Ids, stray : SUBSET Ids]
        /\ lrp' \in ProcessType /\ listeners' \subseteq Ids /\ thread' \in [Threads -> ThreadType]
        /\ \A t \in Threads : thread'[t].op = "Gone" => thread'[t].inside \in Exclusive \cup Shared
    BY <1>1, <1>2 DEF TypeOK, Op
  <2>2. QED
    BY <1>1, <1>3, <1>4, <2>1, StoreTypes, TypeNext
<1>6. Process'
  <2>1. Locks' /\ Early'
    BY <1>1, <1>2 DEF Process, Locks, Locked, Early
  <2>2. Cleared'
    BY <1>1, <1>2, <1>3 DEF Process, Cleared, Sinks
  <2>3. Issued' /\ PlatformStarts'
    BY <1>1, <1>2 DEF Process, Issued, PlatformStarts, Loadable
  <2>4. QED
    BY <1>3, <2>1, <2>2, <2>3 DEF Process
<1>7. \A b \in Apps : Whole(b)'
  <2>1. Advance /\ Still
    BY <1>2, <1>4 DEF Advance, Still
  <2>2. QED
    BY <1>2, <1>3, <2>1, StillWhole
<1>8. QED
  BY <1>5, <1>6, <1>7 DEF IInv

\* The end of an app's process leaves the registrations of the apps in order.
LEMMA EndedWhole ==
  ASSUME IInv, NEW a \in Apps, NEW t, EndedBy(a, t), UNCHANGED <<raw, toast, listeners, lrp>>
  PROVE  \A b \in Apps : Whole(b)'
<1>1. TypeOK /\ Process /\ Whole(a) /\ lrp.epoch \in Nat
  BY ShapeAssumption DEF IInv, TypeOK, ProcessType
<1>2. lrp.epoch = 0 => lrp.state = "off"
  BY <1>1 DEF Process, Cleared
<1>3. ASSUME NEW b \in Apps, b # a
      PROVE  Whole(b)'
  <2>1. SameApp(b)
    BY <1>3 DEF SameApp, SameClient, EndedBy
  <2>2. Advance
    BY DEF Advance
  <2>3. QED
    BY <1>1, <1>3, <2>1, <2>2, FrameWhole DEF IInv, Process
<1>4. ASSUME NEW u \in Threads, AppOf[u] = a
      PROVE  /\ ThreadInv(u)' /\ ~Holder(u)' /\ Op(u)' \in {"none", "Gone"}
             /\ (Op(u) = "none" => Op(u)' = "none")
  <2>1. ThreadInv(u)
    BY <1>1, <1>4 DEF Whole
  <2>2. CASE Freed(u)
    <3>1. Placed(u)' /\ Connections(u)'
      BY <1>1, <1>2, <2>2 DEF Freed, Placed, Connections, Op, Live, Inside, HasId, Locked, Exclusive, Shared
    <3>2. Progress(u)' /\ Alone(u)' /\ Serves(u)'
      BY <2>2 DEF Freed, Progress, Alone, Serves, Op, Inside, Holder
    <3>3. QED
      BY <2>2, <3>1, <3>2 DEF Freed, ThreadInv, Holder, Op
  <2>3. CASE u # t /\ Locked(u)
    <3>1. /\ thread'[u].op = "Gone" /\ thread'[u].at = thread[u].at
          /\ thread'[u].inside = thread[u].inside /\ thread'[u].id = thread[u].id
          /\ thread'[u].full = thread[u].full /\ thread'[u].conn = thread[u].conn
      BY <1>4, <2>3 DEF EndedBy
    <3>2. Placed(u) /\ Connections(u) /\ Progress(u) /\ Alone(u)
      BY <2>1 DEF ThreadInv
    <3>3. Placed(u)' /\ Connections(u)'
      BY <2>3, <3>1, <3>2 DEF Placed, Connections, Op, Live, Inside, HasId, Locked, Exclusive, Shared
    <3>4. Progress(u)'
      BY <1>4, <3>1, <3>2 DEF Progress, Op, Inside, Holder, IdOf, EndedBy
    <3>5. Alone(u)' /\ Serves(u)'
      BY <1>4, <3>1, <3>2 DEF Alone, Serves, Op, Inside, IdOf, Known, EndedBy
    <3>6. Op(u) # "none"
      BY <2>3, <3>2 DEF Placed, Locked, Exclusive, Shared
    <3>7. QED
      BY <3>1, <3>3, <3>4, <3>5, <3>6 DEF ThreadInv, Holder, Op
  <2>4. QED
    BY <1>4, <2>2, <2>3 DEF EndedBy
<1>5. ASSUME NEW u \in Threads, NEW v \in Threads, AppOf[u] = a
      PROVE  Apart(u, v)'
  <2>1. Apart(u, v) /\ app'[a].mixed = app[a].mixed
    BY <1>1, <1>5 DEF Whole, EndedBy
  <2>2. SUFFICES ASSUME AppOf[v] = a, u # v
                 PROVE  Apart(u, v)'
    BY <1>5 DEF Apart
  <2>3. QED
    BY <1>4, <1>5, <2>1, <2>2 DEF Apart
<1>6. Client(a)'
  <2>1. Client(a)
    BY <1>1 DEF Whole
  <2>2. /\ ~app'[a].fg /\ ~app'[a].lr /\ app'[a].epoch = 0
        /\ app'[a].mixed = app[a].mixed /\ app'[a].undone = app[a].undone
        /\ \A i \in Ids : foreground'[i] = IF i[1] = a /\ foreground[i] = "sink" THEN "stale"
                                           ELSE foreground[i]
    BY DEF EndedBy
  <2>3. Tidy(a)' /\ Mapped(a)'
    BY <2>1, <2>2 DEF Client, Tidy, Mapped, IdOf, Known
  <2>4. \A u \in Threads : AppOf[u] = a => ~Last(u)'
    BY <1>4 DEF Last
  <2>5. Served(a)'
    BY <2>2, <2>4 DEF Served, Serving
  <2>6. QED
    BY <1>1, <1>2, <2>2, <2>3, <2>5 DEF Client
<1>7. Whole(a)'
  BY <1>4, <1>5, <1>6 DEF Whole
<1>8. QED
  BY <1>3, <1>7

LEMMA EndedStep ==
  ASSUME IInv, NEW a \in Apps, NEW t, EndedBy(a, t), t \in Threads => ~Locked(t),
         UNCHANGED <<store, wpn, lrp, listeners, note>>
  PROVE  IInv'
<1>1. /\ TypeOK /\ Process /\ raw' = raw /\ issued' = issued /\ clsid' = clsid /\ toast' = toast
      /\ wpn' = wpn /\ lrp' = lrp /\ listeners' = listeners /\ note' = note
  BY DEF IInv, store
<1>2. \A u \in Threads : Locked(u) => thread'[u].inside = thread[u].inside
  BY DEF EndedBy
<1>3. \A u \in Threads : ~Locked(u) => ~Locked(u)' /\ thread'[u].op # "Gone"
  <2>1. TAKE u \in Threads
  <2>2. CASE AppOf[u] = a
    BY <2>2 DEF EndedBy, Freed, Locked, Exclusive, Shared
  <2>3. CASE AppOf[u] # a
    BY <1>1, <2>3 DEF EndedBy, Locked, TypeOK
  <2>4. QED
    BY <2>2, <2>3
<1>4. TypeOK'
  <2>1. \A u \in Threads : thread'[u].op = "Gone" => thread'[u].inside \in Exclusive \cup Shared
    BY <1>2, <1>3 DEF Locked
  <2>2. /\ wpn' \in [trusted : SUBSET Ids, channels : SUBSET Ids, sinks : SUBSET Ids, stray : SUBSET Ids]
        /\ lrp' \in ProcessType /\ listeners' \subseteq Ids
        /\ note' \in [id : Ids \cup {None}, left : Nat]
    BY <1>1 DEF TypeOK
  <2>3. /\ foreground' \in [Ids -> Entries] /\ app' \in [Apps -> AppType]
        /\ thread' \in [Threads -> ThreadType]
    BY DEF EndedBy
  <2>4. QED
    BY <1>1, <2>1, <2>2, <2>3, StoreTypes, TypeNext
<1>5. Process'
  <2>1. Locks'
    <3>1. \A u \in Threads : Locked(u)' => Locked(u) /\ thread'[u].inside = thread[u].inside
      BY <1>2, <1>3
    <3>2. QED
      BY <1>1, <3>1 DEF Process, Locks, Locked
  <2>2. Early'
    <3>1. \A u \in Threads : thread[u].inside = "cancel" => thread'[u].inside = "cancel"
      BY <1>2 DEF Locked, Shared
    <3>2. QED
      BY <1>1, <3>1 DEF Process, Early
  <2>3. \A i \in Ids : /\ foreground'[i] = "none" <=> foreground[i] = "none"
                       /\ foreground'[i] \in Sinks <=> foreground[i] \in Sinks
    BY DEF EndedBy, Sinks
  <2>4. Cleared' /\ Noticed'
    <3>1. note.id \in Ids \cup {None}
      BY <1>1 DEF TypeOK
    <3>2. QED
      BY <1>1, <2>3, <3>1 DEF Process, Cleared, Noticed
  <2>5. Issued' /\ PlatformStarts'
    BY <1>1 DEF Process, Issued, PlatformStarts, Loadable
  <2>6. QED
    BY <2>1, <2>2, <2>4, <2>5 DEF Process
<1>6. \A b \in Apps : Whole(b)'
  BY <1>1, EndedWhole
<1>7. QED
  BY <1>4, <1>5, <1>6 DEF IInv

LEMMA AppEndsStep ==
  ASSUME IInv, NEW a \in Apps, AppEnds(a)
  PROVE  IInv'
<1>1. TypeOK /\ Ended(a, None) /\ UNCHANGED <<store, wpn, lrp, listeners, note>> /\ None \notin Threads
  BY ShapeAssumption DEF IInv, AppEnds
<1>2. QED
  BY <1>1, EndFacts, EndedStep

-----------------------------------------------------------------------------
(* What a thread's step keeps, part by part.                                *)

LEMMA PlacedFree ==
  ASSUME NEW t \in Threads, thread'[t].inside = "none", thread'[t].at \in Nat,
         \/ thread'[t].op \in {"none", "Gone"}
         \/ thread'[t].at \in 1 .. Len(Script[thread'[t].op])
  PROVE  Placed(t)'
  BY DEF Placed, Live, Op, Inside, HasId

LEMMA ReturningPlaced ==
  ASSUME TypeOK, NEW t \in Threads, Placed(t), Live(t), Returning(t)
  PROVE  Placed(t)' /\ thread'[t].inside = "none" /\ thread'[t].op # "Gone"
<1>1. CASE AtEnd(t)
  <2>1. Freed(t)
    BY <1>1 DEF Returning
  <2>2. QED
    BY <2>1, PlacedFree DEF Freed
<1>2. CASE ~AtEnd(t)
  <2>1. Moved(t, Op(t), thread[t].at + 1)
    BY <1>2 DEF Returning
  <2>2. thread[t].at + 1 \in 1 .. Len(Script[Op(t)])
    <3>1. CASE Op(t) = "Register"
      BY <1>2, <3>1, LivePlace, ScriptFacts DEF AtEnd, Is
    <3>2. CASE Op(t) = "Unregister"
      BY <1>2, <3>2, LivePlace, ScriptFacts DEF AtEnd, Is
    <3>3. CASE Op(t) = "UnregisterAll"
      BY <1>2, <3>3, LivePlace, ScriptFacts DEF AtEnd, Is
    <3>4. CASE Op(t) = "CreateChannel"
      BY <1>2, <3>4, LivePlace, ScriptFacts DEF AtEnd, Is
    <3>5. CASE Op(t) = "Undo"
      BY <1>2, <3>5, LivePlace, ScriptFacts DEF AtEnd, Is
    <3>6. QED
      BY <3>1, <3>2, <3>3, <3>4, <3>5, LivePlace
  <2>3. QED
    BY <2>1, <2>2, PlacedFree DEF Moved, Live
<1>3. QED
  BY <1>1, <1>2

LEMMA FailingPlaced ==
  ASSUME TypeOK, NEW t \in Threads, Placed(t), Op(t) \notin {"none", "Undo"}, Failing(t)
  PROVE  Placed(t)' /\ thread'[t].inside = "none" /\ thread'[t].op # "Gone"
<1>1. CASE Freed(t)
  BY <1>1, PlacedFree DEF Freed
<1>2. CASE Op(t) = "CreateChannel" /\ Moved(t, "CreateChannel", 1)
  <2>1. 1 \in 1 .. Len(Script["CreateChannel"]) /\ 1 \in Nat
    BY ScriptFacts
  <2>2. /\ thread'[t].op = "CreateChannel" /\ thread'[t].at = 1 /\ thread'[t].inside = "none"
    BY <1>2 DEF Moved
  <2>3. QED
    BY <2>1, <2>2, PlacedFree
<1>3. CASE Op(t) = "Register" /\ Moved(t, "Undo", UndoAt(thread[t].at))
  <2>1. UndoAt(thread[t].at) \in 1 .. 3
    BY DEF UndoAt
  <2>2. /\ UndoAt(thread[t].at) \in 1 .. Len(Script["Undo"]) /\ UndoAt(thread[t].at) \in Nat
    BY <2>1, ScriptFacts
  <2>3. /\ thread'[t].op = "Undo" /\ thread'[t].at = UndoAt(thread[t].at)
        /\ thread'[t].inside = "none"
    BY <1>3 DEF Moved
  <2>4. QED
    BY <2>2, <2>3, PlacedFree
<1>4. QED
  BY <1>1, <1>2, <1>3 DEF Failing

LEMMA FreeConnections ==
  ASSUME TypeOK, Cleared, Advance, NEW t \in Threads, Connections(t), thread'[t].inside = "none",
         ~(lrp.state = "starting" /\ thread[t].conn = lrp.epoch),
         Freed(t) \/ (thread'[t].full = thread[t].full /\ thread'[t].conn = thread[t].conn)
  PROVE  Connections(t)'
<1>1. /\ thread[t].full \in Nat /\ thread[t].conn \in Nat /\ lrp.epoch \in Nat
  BY ShapeAssumption DEF TypeOK, ThreadType, ProcessType
<1>2. ~Locked(t)'
  BY DEF Locked, Exclusive, Shared
<1>3. QED
  BY <1>1, <1>2 DEF Connections, Advance, Freed, Inside, Cleared

\* Memory that a step of t may change is of t's app.
Local(t) ==
    /\ \A b \in Apps : b # AppOf[t] => raw'[b] = raw[b] /\ (b \in toast' => b \in toast)
    /\ \A i \in Ids : i[1] # AppOf[t] => /\ i \in listeners' <=> i \in listeners
                                         /\ foreground'[i] = foreground[i]

\* A step of t starts no operation, and takes app.registering only when it is free.
Continues(t) ==
    /\ Holder(t)' => Holder(t) \/ ~app[AppOf[t]].registering
    /\ Op(t)' = "Gone" => Op(t) = "Gone"
    /\ Op(t)' = "Register" /\ thread'[t].at > 2
         => Op(t) = "Register" /\ (thread[t].at > 2 \/ PlatformFree)

LEMMA ContinuesApart ==
  ASSUME TypeOK, NEW t \in Threads, Whole(AppOf[t]), Siblings(t), Continues(t), NEW u \in Threads
  PROVE  Apart(t, u)' /\ Apart(u, t)'
<1> DEFINE a == AppOf[t]
<1>1. SUFFICES ASSUME AppOf[u] = a, u # t
               PROVE  Apart(t, u)' /\ Apart(u, t)'
  BY DEF Apart
<1>2. /\ thread'[u] = thread[u] /\ Apart(t, u) /\ Apart(u, t) /\ app'[a].mixed = app[a].mixed
      /\ Op(t) # "none" /\ Progress(u)
  BY <1>1 DEF Siblings, Others, Whole, ThreadInv
<1>3. ~(Holder(t)' /\ Holder(u)')
  BY <1>1, <1>2 DEF Continues, Apart, Progress, Holder, Op
<1>4. ~(Op(t)' = "Gone" /\ Op(u)' = "Register" /\ thread'[u].at > 2)
  BY <1>1, <1>2 DEF Continues, Apart, Op
<1>5. ~(Op(u)' = "Gone" /\ Op(t)' = "Register" /\ thread'[t].at > 2)
  BY <1>1, <1>2 DEF Continues, Apart, Op, PlatformFree, TypeOK
<1>6. ~app'[a].mixed => Op(t)' = "none" \/ Op(u)' = "none"
  BY <1>1, <1>2 DEF Apart, Op
<1>7. QED
  BY <1>1, <1>3, <1>4, <1>5, <1>6 DEF Apart

LEMMA StepWhole ==
  ASSUME IInv, NEW t \in Threads, Advance, Siblings(t), Local(t), Continues(t),
         Placed(t)', Connections(t)', Progress(t)', Alone(t)', Client(AppOf[t])',
         \A u \in Threads : AppOf[u] = AppOf[t] => Serves(u)'
  PROVE  \A b \in Apps : Whole(b)'
<1> DEFINE a == AppOf[t]
<1>1. /\ TypeOK /\ Locks /\ a \in Apps /\ Whole(a) /\ Others(t)
  BY ThreadFacts DEF IInv, Process, Siblings
<1>2. ASSUME NEW b \in Apps, b # a
      PROVE  Whole(b)'
  <2>1. SameApp(b)
    BY <1>1, <1>2 DEF SameApp, SameClient, Local, Others
  <2>2. QED
    BY <1>1, <1>2, <2>1, FrameWhole DEF IInv
<1>3. ASSUME NEW u \in Threads, AppOf[u] = a
      PROVE  ThreadInv(u)'
  BY <1>1, <1>3, SiblingsKept DEF ThreadInv
<1>4. ASSUME NEW u \in Threads, NEW v \in Threads, AppOf[u] = a
      PROVE  Apart(u, v)'
  BY <1>1, <1>4, SiblingsKept, ContinuesApart
<1>5. Whole(a)'
  BY <1>3, <1>4 DEF Whole
<1>6. QED
  BY <1>2, <1>5

\* The client's part when the step leaves what the process keeps of the app.
SameMemory(a) ==
    /\ raw'[a] = raw[a] /\ (a \in toast' => a \in toast \/ Known(a))
    /\ \A i \in Ids : i[1] = a => (i \in listeners' <=> i \in listeners)
                                    /\ foreground'[i] = foreground[i]

LEMMA QuietClient ==
  ASSUME TypeOK, NEW t \in Threads, Whole(AppOf[t]), Advance, SameMemory(AppOf[t]), KeepsService(t),
         app'[AppOf[t]].epoch = app[AppOf[t]].epoch,
         app'[AppOf[t]].mixed = app[AppOf[t]].mixed,
         app[AppOf[t]].undone => app'[AppOf[t]].undone,
         app[AppOf[t]].fg \/ app[AppOf[t]].viaChannel
           => app'[AppOf[t]].fg \/ app'[AppOf[t]].viaChannel \/ (~app[AppOf[t]].mixed => ~Known(AppOf[t])),
         app'[AppOf[t]].fg /\ app'[AppOf[t]].lr => app[AppOf[t]].fg /\ app[AppOf[t]].lr
  PROVE  Client(AppOf[t])'
<1> DEFINE a == AppOf[t]
<1>1. /\ Client(a) /\ a \in Apps /\ IdOf(a)' = IdOf(a) /\ Known(a)' = Known(a)
      /\ app[a].epoch \in Nat /\ lrp.epoch \in Nat
  BY ThreadFacts DEF Whole, SameMemory, IdOf, Known, AppType
<1>2. app'[a].epoch <= lrp'.epoch /\ (app'[a].epoch = lrp'.epoch => lrp'.state # "starting")
  BY <1>1 DEF Client, Advance
<1>3. \A i \in Ids : i = IdOf(a) => Known(a)
  BY <1>1, IdFacts
<1>4. Tidy(a)'
  BY <1>1, <1>3 DEF Client, Tidy, SameMemory
<1>5. Mapped(a)'
  BY <1>1 DEF Client, Mapped, SameMemory
<1>6. Served(a)'
  <2>1. app[a].epoch = lrp'.epoch /\ Running' => app[a].epoch = lrp.epoch /\ Running
    BY <1>1 DEF Client, Advance, Running
  <2>2. QED
    BY <1>1, <2>1 DEF Client, Served, KeepsService
<1>7. QED
  BY <1>2, <1>4, <1>5, <1>6 DEF Client

\* What is left to show of a step with which a call returns.
LEMMA ReturningWhole ==
  ASSUME IInv, NEW t \in Threads, Live(t), Returning(t), Advance, Local(t),
         ~Is(t, "UnregisterAll", 3), ~(lrp.state = "starting" /\ thread[t].conn = lrp.epoch),
         Client(AppOf[t])',
         \A u \in Threads : u # t /\ AppOf[u] = AppOf[t] => Serves(u)',
         Known(AppOf[t]) => Known(AppOf[t])' \/ Holder(t),
         raw'[AppOf[t]] = raw[AppOf[t]]
           \/ \A u \in Threads : u # t => ~Inside(u, "add") /\ ~Inside(u, "remove"),
         Is(t, "Register", 2) => Known(AppOf[t])' /\ PlatformFree,
         Op(t) = "Register" /\ Known(AppOf[t]) => Known(AppOf[t])',
         Is(t, "UnregisterAll", 6) /\ ~app[AppOf[t]].mixed => ~Known(AppOf[t])',
         Is(t, "Undo", 2) /\ ~app[AppOf[t]].mixed /\ thread[t].full = lrp'.epoch
             /\ lrp'.state \in {"up", "awake"}
           => \A i \in Ids : i[1] = AppOf[t] => foreground'[i] = "none",
         (Is(t, "Register", 4) \/ Is(t, "CreateChannel", 4)) /\ Serving(AppOf[t])'
             /\ thread[t].conn = lrp'.epoch /\ Running'
           => foreground'[IdOf(AppOf[t])'] \in Held
  PROVE  \A b \in Apps : Whole(b)'
<1> DEFINE a == AppOf[t]
<1>1. /\ TypeOK /\ Process /\ a \in Apps /\ Whole(a) /\ ThreadInv(t) /\ Others(t)
  BY ThreadFacts DEF IInv, Whole, Returning
<1>2. Placed(t)' /\ thread'[t].inside = "none" /\ thread'[t].op # "Gone"
  BY <1>1, ReturningPlaced DEF ThreadInv
<1>3. /\ Op(t) \in {"Register", "Unregister", "UnregisterAll", "CreateChannel", "Undo"}
      /\ thread[t].at \in 1 .. 7
  BY <1>1, LivePlace DEF ThreadInv
<1>4. AtEnd(t) => Freed(t)
  BY DEF Returning
<1>5. ~AtEnd(t) => Moved(t, Op(t), thread[t].at + 1)
  BY DEF Returning
<1>6. Connections(t)'
  <2>1. Freed(t) \/ (thread'[t].full = thread[t].full /\ thread'[t].conn = thread[t].conn)
    BY <1>4, <1>5 DEF Moved
  <2>2. QED
    BY <1>1, <1>2, <2>1, FreeConnections DEF Process, ThreadInv
<1>7. Siblings(t)
  <2>1. Op(t) # "none"
    BY <1>3
  <2>2. app[a].registering /\ ~Holder(t) => app'[a].registering
    BY <1>3 DEF Returning, Holder, Is
  <2>3. app'[a].fg => app[a].fg \/ Is(t, "Register", 4)
    BY DEF Returning
  <2>4. app'[a].lr => app[a].lr \/ Is(t, "Register", 5)
    BY DEF Returning
  <2>5. QED
    BY <1>1, <2>1, <2>2, <2>3, <2>4 DEF Siblings, Returning
<1>8. Continues(t)
  <2>1. CASE AtEnd(t)
    BY <1>4, <2>1 DEF Continues, Freed, Holder, Op
  <2>2. CASE ~AtEnd(t)
    <3>1. thread'[t].op = Op(t) /\ thread'[t].at = thread[t].at + 1
      BY <1>5, <2>2 DEF Moved
    <3>2. Is(t, "UnregisterAll", 2) \/ (Holder(t)' => Holder(t))
      BY <1>3, <3>1 DEF Holder, Op, Is
    <3>3. Is(t, "UnregisterAll", 2) => ~Holder(t)'
      BY <3>1 DEF Holder, Op, Is
    <3>4. Op(t)' = "Register" /\ thread'[t].at > 2
            => Op(t) = "Register" /\ (thread[t].at > 2 \/ PlatformFree)
      BY <1>3, <3>1 DEF Op, Is
    <3>5. QED
      BY <1>2, <3>2, <3>3, <3>4 DEF Continues, Op
  <2>3. QED
    BY <2>1, <2>2
<1>9. Progress(t)'
  <2>1. CASE AtEnd(t)
    BY <1>4, <2>1 DEF Progress, Freed, Holder, Op, Inside
  <2>2. CASE ~AtEnd(t)
    <3>1. thread'[t].op = Op(t) /\ thread'[t].at = thread[t].at + 1 /\ thread'[t].inside = "none"
      BY <1>5, <2>2 DEF Moved
    <3>2. Progress(t)
      BY <1>1 DEF ThreadInv
    <3>3. Holder(t)' => app'[a].registering
      <4>1. CASE Is(t, "UnregisterAll", 2)
        BY <3>1, <4>1 DEF Holder, Op, Is
      <4>2. CASE ~Is(t, "UnregisterAll", 2)
        <5>1. Holder(t)' => Holder(t)
          BY <1>3, <3>1, <4>2 DEF Holder, Op, Is
        <5>2. QED
          BY <2>2, <3>2, <4>2, <5>1 DEF Progress, Returning
      <4>3. QED
        BY <4>1, <4>2
    <3>4. Op(t) = "Register" => /\ thread'[t].at <= 4 => ~app'[a].fg
                                /\ thread'[t].at <= 5 => ~app'[a].lr
                                /\ thread'[t].at \in 3 .. 5 => Known(a)'
      <4>1. SUFFICES ASSUME Op(t) = "Register"
                     PROVE  /\ thread'[t].at <= 4 => ~app'[a].fg
                            /\ thread'[t].at <= 5 => ~app'[a].lr
                            /\ thread'[t].at \in 3 .. 5 => Known(a)'
        OBVIOUS
      <4>2. thread'[t].at <= 4 => ~app[a].fg /\ ~Is(t, "Register", 4)
        BY <1>3, <3>1, <3>2, <4>1 DEF Progress, Is
      <4>3. thread'[t].at <= 5 => ~app[a].lr /\ ~Is(t, "Register", 5)
        BY <1>3, <3>1, <3>2, <4>1 DEF Progress, Is
      <4>4. thread'[t].at \in 3 .. 5 => Known(a)'
        BY <1>3, <3>1, <3>2, <4>1 DEF Progress, Is
      <4>5. QED
        BY <4>2, <4>3, <4>4 DEF Returning
    <3>5. Op(t) = "UnregisterAll" /\ thread'[t].at = 7 => ~app'[a].lr
      BY <1>3, <3>1 DEF Returning, AtDropAll, Is
    <3>6. Op(t) = "Undo" /\ thread'[t].at >= 2 => ~app'[a].lr
      BY <1>3, <3>1, <3>2 DEF Returning, AtDropAll, Is, Progress
    <3>7. Op(t) = "Undo" /\ thread'[t].at = 3 => ~app'[a].fg
      BY <1>3, <3>1 DEF Returning, AtDrop, Is
    <3>8. QED
      BY <1>2, <3>1, <3>3, <3>4, <3>5, <3>6, <3>7 DEF Progress, Op, Inside
  <2>3. QED
    BY <2>1, <2>2
<1>10. Alone(t)'
  <2>1. CASE AtEnd(t)
    BY <1>4, <2>1 DEF Alone, Freed, Op, Inside
  <2>2. CASE ~AtEnd(t)
    <3>1. thread'[t].op = Op(t) /\ thread'[t].at = thread[t].at + 1 /\ thread'[t].inside = "none"
          /\ thread'[t].full = thread[t].full
      BY <1>5, <2>2 DEF Moved
    <3>2. app'[a].mixed = app[a].mixed
      BY DEF Returning
    <3>3. QED
      BY <1>3, <3>1, <3>2 DEF Alone, Op, Inside, Is
  <2>3. QED
    BY <2>1, <2>2
<1>11. Serves(t)'
  <2>1. CASE AtEnd(t)
    BY <1>4, <2>1 DEF Serves, Freed, Op
  <2>2. CASE ~AtEnd(t)
    <3>1. thread'[t].op = Op(t) /\ thread'[t].at = thread[t].at + 1 /\ thread'[t].inside = "none"
          /\ thread'[t].conn = thread[t].conn
      BY <1>5, <2>2 DEF Moved
    <3>2. QED
      BY <1>3, <3>1 DEF Serves, Op, Inside, Is
  <2>3. QED
    BY <2>1, <2>2
<1>12. QED
  BY <1>2, <1>6, <1>7, <1>8, <1>9, <1>10, <1>11, StepWhole

LEMMA FailingWhole ==
  ASSUME IInv, NEW t \in Threads, Op(t) \notin {"none", "Undo"}, Failing(t), Advance, ~Dropping(t),
         ~Is(t, "UnregisterAll", 3), ~(lrp.state = "starting" /\ thread[t].conn = lrp.epoch),
         UNCHANGED <<toast, listeners>>,
         \A b \in Apps : b # AppOf[t] \/ Known(AppOf[t]) => raw'[b] = raw[b],
         raw'[AppOf[t]] = raw[AppOf[t]]
           \/ \A u \in Threads : u # t => ~Inside(u, "add") /\ ~Inside(u, "remove"),
         Op(t) = "Register" /\ thread[t].at \in {3, 4} /\ thread[t].full = lrp'.epoch
           => lrp'.state \notin {"up", "awake"}
  PROVE  \A b \in Apps : Whole(b)'
<1> DEFINE a == AppOf[t]
<1>1. /\ TypeOK /\ Process /\ a \in Apps /\ Whole(a) /\ ThreadInv(t)
      /\ Others(t) /\ SameClient(a) /\ foreground' = foreground
  BY ThreadFacts DEF IInv, Whole, Failing
<1>2. Placed(t)' /\ thread'[t].inside = "none" /\ thread'[t].op # "Gone"
  BY <1>1, FailingPlaced DEF ThreadInv
<1>3. thread[t].at \in Nat
  BY <1>1 DEF ThreadInv, Placed
<1>4. \/ Freed(t) /\ (app'[a].registering <=> app[a].registering /\ Op(t) \in {"CreateChannel", "Gone"})
      \/ Op(t) = "CreateChannel" /\ Moved(t, "CreateChannel", 1) /\ app'[a].registering = app[a].registering
      \/ Op(t) = "Register" /\ thread[t].at > 2 /\ Moved(t, "Undo", UndoAt(thread[t].at))
           /\ app'[a].registering = app[a].registering
  BY DEF Failing
<1>5. Connections(t)'
  <2>1. Freed(t) \/ (thread'[t].full = thread[t].full /\ thread'[t].conn = thread[t].conn)
    BY <1>4 DEF Moved
  <2>2. QED
    BY <1>1, <1>2, <2>1, FreeConnections DEF Process, ThreadInv
<1>6. Siblings(t)
  <2>1. app[a].registering /\ ~Holder(t) => app'[a].registering
    <3>1. ~Holder(t) => Op(t) \in {"CreateChannel", "Gone"}
      <4>1. Live(t) => Op(t) \in {"Register", "Unregister", "UnregisterAll", "CreateChannel", "Undo"}
        BY <1>1, LivePlace DEF ThreadInv
      <4>2. QED
        BY <4>1 DEF Live, Holder, Is
    <3>2. QED
      BY <1>4, <3>1
  <2>2. Known(a) => Known(a)'
    BY <1>1 DEF Known
  <2>3. QED
    BY <1>1, <2>1, <2>2 DEF Siblings, SameClient
<1>7. Continues(t)
  BY <1>2, <1>4 DEF Continues, Freed, Moved, Holder, Op
<1>8. Progress(t)'
  <2>1. CASE Freed(t)
    BY <2>1 DEF Progress, Freed, Holder, Op, Inside
  <2>2. CASE Op(t) = "CreateChannel" /\ Moved(t, "CreateChannel", 1)
    BY <2>2 DEF Progress, Moved, Holder, Op, Inside
  <2>3. CASE /\ Op(t) = "Register" /\ thread[t].at > 2 /\ Moved(t, "Undo", UndoAt(thread[t].at))
             /\ app'[a].registering = app[a].registering
    <3>1. Progress(t) /\ thread[t].at \in 1 .. 6
      BY <1>1, <2>3, LivePlace DEF ThreadInv, Live
    <3>2. UndoAt(thread[t].at) >= 2 => ~app[a].lr
      BY <2>3, <3>1 DEF Progress, UndoAt
    <3>3. UndoAt(thread[t].at) = 3 => ~app[a].fg
      BY <2>3, <3>1 DEF Progress, UndoAt
    <3>4. app'[a].registering
      BY <2>3, <3>1 DEF Progress, Holder
    <3>5. QED
      BY <1>1, <2>3, <3>2, <3>3, <3>4 DEF Progress, Moved, Holder, Op, Inside, SameClient
  <2>4. QED
    BY <1>4, <2>1, <2>2, <2>3
<1>9. Alone(t)'
  <2>1. CASE Freed(t)
    BY <2>1 DEF Alone, Freed, Op, Inside
  <2>2. CASE Op(t) = "CreateChannel" /\ Moved(t, "CreateChannel", 1)
    BY <2>2 DEF Alone, Moved, Op, Inside
  <2>3. CASE Op(t) = "Register" /\ thread[t].at > 2 /\ Moved(t, "Undo", UndoAt(thread[t].at))
    <3>1. UndoAt(thread[t].at) = 3 => thread[t].at \in {3, 4}
      <4>1. thread[t].at \in 1 .. 6
        BY <1>1, <2>3, LivePlace DEF ThreadInv, Live
      <4>2. QED
        BY <2>3, <4>1 DEF UndoAt
    <3>2. thread'[t].op = "Undo" /\ thread'[t].at = UndoAt(thread[t].at)
          /\ thread'[t].full = thread[t].full
      BY <2>3 DEF Moved
    <3>3. QED
      BY <1>2, <2>3, <3>1, <3>2 DEF Alone, Op, Inside
  <2>4. QED
    BY <1>4, <2>1, <2>2, <2>3
<1>10. KeepsService(t)
  <2>1. Serving(a)' => Serving(a)
    <3>1. ~Last(t)'
      BY <1>4 DEF Last, Freed, Moved, Op
    <3>2. \A u \in Threads : u # t => (Last(u)' <=> Last(u)) /\ (Dropping(u)' <=> Dropping(u))
      BY <1>1 DEF Others, Last, Dropping, Op
    <3>3. QED
      BY <1>1, <3>1, <3>2 DEF Serving, SameClient
  <2>2. Serving(a) => Known(a)
    BY <1>1 DEF Whole, Client, Served
  <2>3. QED
    BY <1>1, <2>1, <2>2 DEF KeepsService
<1>11. \A u \in Threads : AppOf[u] = a => Serves(u)'
  <2>1. Serves(t)'
    BY <1>2, <1>4 DEF Serves, Freed, Moved, Op, Inside
  <2>2. QED
    BY <1>1, <1>10, <2>1, ServiceKept
<1>12. Client(a)'
  <2>1. CASE raw'[a] = raw[a]
    <3>1. SameMemory(a)
      BY <1>1, <2>1 DEF SameMemory
    <3>2. QED
      BY <1>1, <1>10, <3>1, QuietClient DEF SameClient
  <2>2. CASE raw'[a] # raw[a]
    <3>1. ~Known(a) /\ Client(a)
      BY <1>1, <2>2 DEF Whole
    <3>2. \A i \in Ids : i = IdOf(a) => Known(a)
      BY <1>1, IdFacts
    <3>3. app'[a].epoch <= lrp'.epoch /\ (app'[a].epoch = lrp'.epoch => lrp'.state # "starting")
      <4>1. app[a].epoch \in Nat /\ lrp.epoch \in Nat
        BY <1>1, ThreadFacts DEF AppType
      <4>2. QED
        BY <1>1, <3>1, <4>1 DEF Client, Advance, SameClient
    <3>4. Tidy(a)' /\ Mapped(a)'
      BY <1>1, <3>1, <3>2 DEF Client, Tidy, Mapped, SameClient
    <3>5. Served(a)'
      <4>1. ~Serving(a)'
        BY <2>2, <1>10 DEF KeepsService
      <4>2. QED
        BY <4>1 DEF Served
    <3>6. QED
      BY <3>3, <3>4, <3>5 DEF Client
  <2>3. QED
    BY <2>1, <2>2
<1>13. Local(t)
  BY <1>1 DEF Local
<1>14. QED
  BY <1>2, <1>5, <1>6, <1>7, <1>8, <1>9, <1>11, <1>12, <1>13, StepWhole

\* A call of a process that has gone returns.
Releasing(t) == Op(t) = "Gone" /\ Others(t) /\ Freed(t) /\ app' = app

LEMMA ReleasingWhole ==
  ASSUME IInv, NEW t \in Threads, Releasing(t), Advance, Local(t), lrp.state # "starting",
         UNCHANGED <<raw, toast, listeners>>,
         \A i \in Ids : i[1] = AppOf[t] /\ foreground'[i] # "none" =>
           foreground'[i] = foreground[i] \/ (foreground'[i] # "sink" /\ i = IdOf(AppOf[t]))
  PROVE  /\ \A b \in Apps : Whole(b)'
<1> DEFINE a == AppOf[t]
<1>1. /\ TypeOK /\ Process /\ a \in Apps /\ Whole(a) /\ ThreadInv(t) /\ Others(t) /\ Client(a)
      /\ app' = app /\ Op(t) = "Gone" /\ Freed(t)
  BY ThreadFacts DEF IInv, Whole, Releasing
<1>2. Placed(t)'
  BY <1>1, PlacedFree DEF Freed
<1>3. Connections(t)'
  BY <1>1, FreeConnections DEF Process, ThreadInv, Freed
<1>4. Siblings(t) /\ Continues(t)
  BY <1>1 DEF Siblings, Continues, Freed, Holder, Op, Known
<1>5. Progress(t)' /\ Alone(t)'
  BY <1>1 DEF Freed, Progress, Alone, Holder, Op, Inside
<1>6. ~Serving(a)'
  <2>1. ~app[a].fg
    BY <1>1 DEF ThreadInv, Progress
  <2>2. \A u \in Threads : AppOf[u] = a => ~Last(u)'
    BY <1>1 DEF Whole, Apart, Others, Last, Op, Freed
  <2>3. QED
    BY <1>1, <2>1, <2>2 DEF Serving
<1>7. \A u \in Threads : AppOf[u] = a => Serves(u)'
  BY <1>6 DEF Serves
<1>8. Client(a)'
  <2>1. app'[a].epoch <= lrp'.epoch /\ (app'[a].epoch = lrp'.epoch => lrp'.state # "starting")
    <3>1. app[a].epoch \in Nat /\ lrp.epoch \in Nat
      BY <1>1, ThreadFacts DEF AppType
    <3>2. QED
      BY <1>1, <3>1 DEF Client, Advance
  <2>2. Tidy(a)'
    <3>1. Tidy(a)
      BY <1>1 DEF Client
    <3>2. QED
      BY <1>1, <3>1 DEF Tidy, IdOf
  <2>3. Mapped(a)'
    BY <1>1 DEF Client, Mapped, Known
  <2>4. QED
    BY <1>6, <2>1, <2>2, <2>3 DEF Client, Served
<1>9. QED
  BY <1>2, <1>3, <1>4, <1>5, <1>7, <1>8, StepWhole

\* A thread goes into the platform, or on in it.
Entering(t, step, id) ==
    /\ Others(t) /\ app' = app
    /\ thread'[t].op = Op(t) /\ thread'[t].at = thread[t].at
    /\ thread'[t].full = thread[t].full /\ thread'[t].conn = thread[t].conn
    /\ thread'[t].inside = step /\ thread'[t].id = id

LEMMA EnteringWhole ==
  ASSUME IInv, NEW t \in Threads, NEW step, NEW id, Entering(t, step, id),
         Op(t) # "none", lrp'.state = lrp.state, lrp'.epoch = lrp.epoch, lrp.state # "starting",
         Local(t), Live(t) => thread[t].conn = lrp.epoch,
         Placed(t)', Alone(t)', Client(AppOf[t])',
         \A u \in Threads : AppOf[u] = AppOf[t] => Serves(u)',
         step \in {"add", "remove"} => id = IdOf(AppOf[t])',
         Known(AppOf[t]) => Known(AppOf[t])' \/ (Holder(t) /\ Op(t) # "Register") \/ Op(t) = "Gone",
         raw'[AppOf[t]] = raw[AppOf[t]]
           \/ \A u \in Threads : u # t => ~Inside(u, "add") /\ ~Inside(u, "remove")
  PROVE  \A b \in Apps : Whole(b)'
<1> DEFINE a == AppOf[t]
<1>1. /\ TypeOK /\ Process /\ a \in Apps /\ Whole(a) /\ ThreadInv(t) /\ Others(t) /\ Advance
  BY ThreadFacts DEF IInv, Whole, Entering, Advance
<1>2. Connections(t)'
  BY <1>1 DEF ThreadInv, Connections, Entering, Inside, Locked, Live, Op
<1>3. Siblings(t) /\ Continues(t)
  BY <1>1 DEF Siblings, Continues, Entering, Holder, Op
<1>4. Progress(t)'
  BY <1>1 DEF ThreadInv, Progress, Entering, Holder, Op, Inside
<1>5. QED
  BY <1>1, <1>2, <1>3, <1>4, StepWhole

\* A thread has connected to the process.
Linking(t) ==
    /\ Others(t) /\ app' = app /\ Live(t) /\ Current(t) = "connect"
    /\ thread'[t].op = Op(t) /\ thread'[t].at = thread[t].at + 1 /\ thread'[t].inside = "none"
    /\ thread'[t].conn = lrp.epoch
    /\ thread'[t].full = IF Op(t) = "Register" /\ thread[t].at > 1 THEN thread[t].full ELSE lrp.epoch

LEMMA LinkingWhole ==
  ASSUME IInv, NEW t \in Threads, Linking(t), lrp' = lrp, lrp.state # "starting",
         UNCHANGED <<raw, toast, listeners, foreground>>
  PROVE  (\A b \in Apps : Whole(b)') /\ thread'[t].op # "Gone"
<1> DEFINE a == AppOf[t]
<1>1. /\ TypeOK /\ Process /\ a \in Apps /\ Whole(a) /\ ThreadInv(t) /\ Others(t) /\ Advance
      /\ app' = app
  BY ThreadFacts DEF IInv, Whole, Linking, Advance
<1>2. /\ \/ Op(t) \in {"Register", "Unregister", "UnregisterAll", "CreateChannel"} /\ thread[t].at = 1
         \/ Is(t, "Register", 3) \/ Is(t, "UnregisterAll", 5)
  BY <1>1, LivePlace DEF ThreadInv, Linking, Current, PlaceOf, Is
<1>3. Placed(t)'
  <2>1. thread'[t].at \in 1 .. Len(Script[thread'[t].op]) /\ thread'[t].at \in Nat
    <3>1. CASE Op(t) = "Register"
      BY <1>2, <3>1, ScriptFacts DEF Linking, Is
    <3>2. CASE Op(t) = "Unregister"
      BY <1>2, <3>2, ScriptFacts DEF Linking, Is
    <3>3. CASE Op(t) = "UnregisterAll"
      BY <1>2, <3>3, ScriptFacts DEF Linking, Is
    <3>4. CASE Op(t) = "CreateChannel"
      BY <1>2, <3>4, ScriptFacts DEF Linking, Is
    <3>5. QED
      BY <1>2, <3>1, <3>2, <3>3, <3>4 DEF Is
  <2>2. QED
    BY <2>1, PlacedFree DEF Linking
<1>4. Connections(t)'
  <2>1. thread[t].full \in Nat /\ lrp.epoch \in Nat /\ thread[t].conn \in Nat
    BY <1>1, ThreadFacts DEF ThreadType
  <2>2. thread[t].full <= lrp.epoch /\ (thread[t].full = lrp.epoch => lrp.state # "starting")
    BY <1>1, <2>1 DEF ThreadInv, Connections
  <2>3. QED
    BY <2>1, <2>2 DEF Connections, Linking, Inside, Locked, Exclusive, Shared
<1>5. Siblings(t) /\ Continues(t)
  <2>1. Op(t) # "none" /\ thread'[t].op = Op(t)
    BY DEF Linking, Live
  <2>2. Holder(t)' => Holder(t)
    BY <1>2, <2>1 DEF Linking, Holder, Op, Is
  <2>3. Op(t) = "Register" /\ thread'[t].at > 2 => thread[t].at > 2
    BY <1>2 DEF Linking, Is
  <2>4. QED
    BY <1>1, <2>1, <2>2, <2>3 DEF Siblings, Continues, Op, Known
<1>6. Progress(t)'
  <2>1. Progress(t)
    BY <1>1 DEF ThreadInv
  <2>2. Known(a)' = Known(a)
    BY DEF Known
  <2>3. QED
    BY <1>1, <1>2, <2>1, <2>2 DEF Progress, Linking, Holder, Op, Inside, Is
<1>7. Alone(t)'
  BY <1>2 DEF Alone, Linking, Op, Inside, Is
<1>8. KeepsService(t)
  <2>1. \A u \in Threads : u # t => (Last(u)' <=> Last(u)) /\ (Dropping(u)' <=> Dropping(u))
    BY <1>1 DEF Others, Last, Dropping, Op
  <2>2. ~Last(t)' /\ ~Dropping(t)
    <3>1. ~Dropping(t)
      BY <1>1 DEF ThreadInv, Placed, Dropping, Linking
    <3>2. QED
      BY <1>2, <3>1 DEF Last, Linking, Op, Is
  <2>3. QED
    BY <1>1, <2>1, <2>2 DEF KeepsService, Serving
<1>9. \A u \in Threads : AppOf[u] = a => Serves(u)'
  <2>1. Serves(t)'
    BY <1>2 DEF Serves, Linking, Op, Inside, Is
  <2>2. QED
    BY <1>1, <1>8, <2>1, ServiceKept
<1>10. Client(a)' /\ Local(t)
  BY <1>1, <1>8, QuietClient DEF SameMemory, Local
<1>11. QED
  BY <1>1, <1>3, <1>4, <1>5, <1>6, <1>7, <1>9, <1>10, StepWhole DEF Linking, Live

\* A thread waits for the process to start, and may have started it.
Activating(t) ==
    /\ Others(t) /\ app' = app /\ Live(t) /\ Current(t) = "connect" /\ Inside(t, "none")
    /\ thread'[t].op = Op(t) /\ thread'[t].at = thread[t].at /\ thread'[t].full = thread[t].full
    /\ thread'[t].inside = "activating" /\ thread'[t].conn = lrp'.epoch

LEMMA ActivatingWhole ==
  ASSUME IInv, NEW t \in Threads, Activating(t), Advance,
         UNCHANGED <<raw, toast, listeners, foreground>>
  PROVE  (\A b \in Apps : Whole(b)') /\ thread'[t].op # "Gone"
<1> DEFINE a == AppOf[t]
<1>1. /\ TypeOK /\ Process /\ a \in Apps /\ Whole(a) /\ ThreadInv(t) /\ Others(t)
      /\ app' = app
  BY ThreadFacts DEF IInv, Whole, Activating
<1>2. /\ \/ Op(t) \in {"Register", "Unregister", "UnregisterAll", "CreateChannel"} /\ thread[t].at = 1
         \/ Is(t, "Register", 3) \/ Is(t, "UnregisterAll", 5)
  BY <1>1, LivePlace DEF ThreadInv, Activating, Current, PlaceOf, Is
<1>3. Placed(t)'
  BY <1>1 DEF ThreadInv, Placed, Activating, Live, Op, Current, Inside, HasId
<1>4. Connections(t)'
  <2>1. thread[t].full \in Nat /\ lrp.epoch \in Nat /\ thread[t].conn \in Nat
    BY <1>1, ThreadFacts DEF ThreadType
  <2>2. thread[t].full <= lrp.epoch /\ (thread[t].full = lrp.epoch => lrp.state # "starting")
    BY <1>1, <2>1 DEF ThreadInv, Connections
  <2>3. QED
    BY <2>1, <2>2 DEF Connections, Activating, Advance, Inside, Locked, Exclusive, Shared
<1>5. Siblings(t) /\ Continues(t)
  <2>1. Op(t) # "none" /\ thread'[t].op = Op(t)
    BY DEF Activating, Live
  <2>2. QED
    BY <1>1, <2>1 DEF Siblings, Continues, Op, Known, Activating, Holder
<1>6. Progress(t)'
  BY <1>1 DEF ThreadInv, Progress, Activating, Holder, Op, Inside, Known
<1>7. Alone(t)'
  BY <1>2 DEF Alone, Activating, Op, Inside, Is
<1>8. KeepsService(t)
  <2>1. \A u \in Threads : u # t => (Last(u)' <=> Last(u)) /\ (Dropping(u)' <=> Dropping(u))
    BY <1>1 DEF Others, Last, Dropping, Op
  <2>2. ~Last(t)' /\ ~Dropping(t)
    BY <1>2 DEF Last, Dropping, Activating, Op, Is, Inside
  <2>3. QED
    BY <1>1, <2>1, <2>2 DEF KeepsService, Serving
<1>9. \A u \in Threads : AppOf[u] = a => Serves(u)'
  <2>1. Serves(t)'
    BY <1>2 DEF Serves, Activating, Op, Inside, Is
  <2>2. QED
    BY <1>1, <1>8, <2>1, ServiceKept
<1>10. Client(a)' /\ Local(t)
  BY <1>1, <1>8, QuietClient DEF SameMemory, Local
<1>11. QED
  BY <1>1, <1>3, <1>4, <1>5, <1>6, <1>7, <1>9, <1>10, StepWhole DEF Activating, Live

-----------------------------------------------------------------------------
(* What a thread's step keeps of the process.                               *)

LEMMA LocksFall ==
  ASSUME Locks, NEW t \in Threads, \A u \in Threads : u # t => thread'[u] = thread[u],
         thread'[t].inside \notin Exclusive,
         thread'[t].inside \in Shared => thread[t].inside \in Shared,
         lrp'.state = lrp.state \/ lrp.state \notin {"up", "awake"}
  PROVE  Locks'
<1>1. \A u \in Threads : Locked(u)' => Locked(u)
  BY DEF Locked
<1>2. \A u \in Threads : thread'[u].inside \in Exclusive => u # t
  OBVIOUS
<1>3. QED
  BY <1>1, <1>2 DEF Locks

LEMMA LocksTaken ==
  ASSUME Locks, NEW t \in Threads, \A u \in Threads : u # t => thread'[u] = thread[u],
         \/ PlatformFree
         \/ SharedFree /\ thread'[t].inside \notin Exclusive,
         lrp.state \in {"up", "awake"}, lrp'.state = lrp.state
  PROVE  Locks'
<1>1. \A u, v \in Threads : thread'[u].inside \in Exclusive /\ Locked(v)' => u = v
  <2>1. SUFFICES ASSUME NEW u \in Threads, NEW v \in Threads, u # v,
                        thread'[u].inside \in Exclusive, Locked(v)'
                 PROVE  FALSE
    OBVIOUS
  <2>2. CASE PlatformFree
    BY <2>1, <2>2 DEF PlatformFree, Locked
  <2>3. CASE SharedFree /\ thread'[t].inside \notin Exclusive
    BY <2>1, <2>3 DEF SharedFree
  <2>4. QED
    BY <2>2, <2>3
<1>2. QED
  BY <1>1 DEF Locks

LEMMA StepDone ==
  ASSUME IInv, NEW t \in Threads, Others(t),
         thread'[t].op = "Gone" => thread'[t].inside \in Exclusive \cup Shared,
         raw' \in [Apps -> 0 .. MaxIds], issued' \in [Apps -> 0 .. MaxIds],
         \A a \in Apps : raw'[a] <= issued'[a], clsid' \subseteq Ids, toast' \subseteq Apps,
         wpn' \in [trusted : SUBSET Ids, channels : SUBSET Ids, sinks : SUBSET Ids, stray : SUBSET Ids],
         lrp' \in ProcessType, listeners' \subseteq Ids,
         foreground' \in [Ids -> Entries], note' = note,
         Process', \A b \in Apps : Whole(b)'
  PROVE  IInv'
<1>1. \A u \in Threads : thread'[u].op = "Gone" => thread'[u].inside \in Exclusive \cup Shared
  BY DEF IInv, TypeOK, Others, Op
<1>2. /\ thread' \in [Threads -> ThreadType] /\ app' \in [Apps -> AppType]
      /\ note' \in [id : Ids \cup {None}, left : Nat]
  BY DEF Others, IInv, TypeOK
<1>3. TypeOK'
  BY <1>1, <1>2, TypeNext DEF IInv
<1>4. QED
  BY <1>3 DEF IInv

\* A step that leaves the process and its listeners alone.
LEMMA KeptParts ==
  ASSUME TypeOK, Process, NEW t \in Threads, \A u \in Threads : u # t => thread'[u] = thread[u],
         thread[t].inside # "cancel", UNCHANGED <<listeners, note>>, wpn'.sinks = wpn.sinks,
         lrp'.state = lrp.state, lrp'.epoch = lrp.epoch, lrp'.timer = lrp.timer,
         lrp'.event = lrp.event, lrp'.late = lrp.late,
         \/ UNCHANGED foreground
         \/ lrp.state \in {"up", "awake"} /\ SinksFree
  PROVE  Early' /\ Cleared' /\ Noticed'
<1>1. Early'
  BY DEF Process, Early
<1>2. Cleared'
  <2>1. lrp'.state \in {"off", "starting"} => foreground' = foreground
    OBVIOUS
  <2>2. QED
    BY <2>1 DEF Process, Cleared
<1>3. Noticed'
  BY DEF Process, Noticed, SinksFree
<1>4. QED
  BY <1>1, <1>2, <1>3

\* A step that leaves the process and the registrations alone.
LEMMA QuietStep ==
  ASSUME IInv, NEW t \in Threads, Others(t), ~Locked(t),
         thread'[t].inside \in {"none", "activating"}, thread'[t].op # "Gone",
         UNCHANGED <<store, lrp, listeners, foreground, note>>,
         wpn' \in [trusted : SUBSET Ids, channels : SUBSET Ids, sinks : SUBSET Ids, stray : SUBSET Ids],
         wpn'.sinks = wpn.sinks, wpn'.trusted \subseteq wpn.trusted,
         wpn'.channels \subseteq wpn.channels,
         \A b \in Apps : Whole(b)'
  PROVE  IInv'
<1>1. /\ TypeOK /\ Process /\ raw' = raw /\ issued' = issued /\ clsid' = clsid /\ lrp' = lrp
      /\ listeners' = listeners /\ foreground' = foreground /\ note' = note
      /\ \A u \in Threads : u # t => thread'[u] = thread[u]
  BY DEF IInv, store, Others
<1>2. Locks'
  BY <1>1, LocksFall DEF Process, Exclusive, Shared
<1>3. Early' /\ Cleared' /\ Noticed'
  <2>1. thread[t].inside # "cancel"
    BY DEF Locked, Shared
  <2>2. QED
    BY <1>1, <2>1, KeptParts
<1>5. Issued' /\ PlatformStarts'
  BY <1>1 DEF Process, Issued, PlatformStarts, Loadable
<1>6. Process'
  BY <1>2, <1>3, <1>5 DEF Process
<1>7. /\ lrp' \in ProcessType /\ listeners' \subseteq Ids
      /\ foreground' \in [Ids -> Entries]
  BY <1>1 DEF TypeOK
<1>8. QED
  BY <1>1, <1>6, <1>7, StoreTypes, StepDone

LEMMA FailedStep ==
  ASSUME IInv, NEW t \in Threads, Live(t), ~Locked(t), NEW r \in BOOLEAN, Failed(t, r),
         ~Is(t, "UnregisterAll", 3), ~(lrp.state = "starting" /\ thread[t].conn = lrp.epoch),
         Op(t) = "Register" /\ thread[t].at \in {3, 4} /\ thread[t].full = lrp.epoch
           => lrp.state \notin {"up", "awake"},
         UNCHANGED <<store, lrp, listeners, note>>,
         wpn' \in [trusted : SUBSET Ids, channels : SUBSET Ids, sinks : SUBSET Ids, stray : SUBSET Ids],
         wpn'.sinks = wpn.sinks, wpn'.trusted = wpn.trusted, wpn'.channels \subseteq wpn.channels,
         Op(t) = "Undo" => wpn' = wpn
  PROVE  IInv'
<1>1. TypeOK /\ Process /\ AppOf[t] \in Apps /\ Placed(t) /\ Op(t) # "none"
  BY ThreadFacts DEF IInv, Whole, ThreadInv, Live
<1>2. Failing(t)
  BY <1>1, FailFacts
<1>3. CASE Op(t) = "Undo"
  BY <1>1, <1>2, <1>3, EndedStep DEF Failing
<1>4. CASE Op(t) # "Undo"
  <2>1. /\ raw' = raw /\ toast' = toast /\ Advance /\ foreground' = foreground /\ Others(t)
    BY <1>2, <1>4 DEF store, Advance, Failing
  <2>2. ~Dropping(t)
    BY DEF Dropping, Locked, Shared
  <2>3. \A b \in Apps : Whole(b)'
    BY <1>1, <1>2, <1>4, <2>1, <2>2, FailingWhole
  <2>4. thread'[t].inside = "none" /\ thread'[t].op # "Gone"
    BY <1>1, <1>2, <1>4, FailingPlaced
  <2>5. QED
    BY <2>1, <2>3, <2>4, QuietStep
<1>5. QED
  BY <1>3, <1>4

LEMMA AtFacts ==
  ASSUME IInv, NEW t \in Threads, NEW call, At(t, call)
  PROVE  /\ TypeOK /\ Process /\ AppOf[t] \in Apps /\ Whole(AppOf[t]) /\ ThreadInv(t) /\ Placed(t)
         /\ Live(t) /\ Op(t) # "none" /\ Op(t) # "Gone" /\ thread[t].inside = "none" /\ ~Locked(t)
         /\ ~Dropping(t) /\ Current(t) = call /\ PlaceOf(Op(t), thread[t].at) /\ thread[t].at \in 1 .. 7
         /\ Op(t) \in {"Register", "Unregister", "UnregisterAll", "CreateChannel", "Undo"}
         /\ ~(lrp.state = "starting" /\ thread[t].conn = lrp.epoch)
         /\ lrp.epoch \in Nat /\ thread[t].conn \in Nat /\ thread[t].full \in Nat
         /\ thread[t].full <= thread[t].conn /\ thread[t].conn <= lrp.epoch
<1>1. /\ TypeOK /\ Process /\ AppOf[t] \in Apps /\ Whole(AppOf[t]) /\ ThreadInv(t) /\ Placed(t)
  BY ThreadFacts DEF IInv, Whole, ThreadInv
<1>2. Live(t) /\ Op(t) # "none" /\ Op(t) # "Gone" /\ thread[t].inside = "none" /\ Current(t) = call
  BY DEF At, Live
<1>3. ~Locked(t) /\ ~Dropping(t)
  BY <1>2 DEF Locked, Dropping, Exclusive, Shared
<1>4. PlaceOf(Op(t), thread[t].at) /\ thread[t].at \in 1 .. 7
      /\ Op(t) \in {"Register", "Unregister", "UnregisterAll", "CreateChannel", "Undo"}
  BY <1>1, <1>2, LivePlace
<1>5. lrp.epoch \in Nat /\ thread[t].conn \in Nat /\ thread[t].full \in Nat
  BY <1>1, ThreadFacts DEF ThreadType
<1>6. /\ ~(lrp.state = "starting" /\ thread[t].conn = lrp.epoch)
      /\ thread[t].full <= thread[t].conn /\ thread[t].conn <= lrp.epoch
  BY <1>1, <1>2 DEF ThreadInv, Connections, Inside
<1>7. QED
  BY <1>1, <1>2, <1>3, <1>4, <1>5, <1>6

\* A call returns that leaves the process and the registrations alone.
LEMMA ReturnedWhole ==
  ASSUME IInv, NEW t \in Threads, NEW call, At(t, call),
         call \notin {"connect", "claim", "foreground", "longRunning", "dropForeground", "dropLongRunning",
                      "fullTrust"},
         Returned(t),
         call = "dropFullTrust" => ~Known(AppOf[t]),
         UNCHANGED <<store, listeners, foreground>>, lrp'.state = lrp.state, lrp'.epoch = lrp.epoch
  PROVE  /\ Others(t) /\ thread'[t].inside = "none" /\ thread'[t].op # "Gone"
         /\ \A b \in Apps : Whole(b)'
<1> DEFINE a == AppOf[t]
<1>1. /\ TypeOK /\ Process /\ a \in Apps /\ Whole(a) /\ ThreadInv(t) /\ Placed(t)
      /\ Live(t) /\ ~Locked(t) /\ ~Dropping(t) /\ Current(t) = call /\ PlaceOf(Op(t), thread[t].at)
      /\ ~(lrp.state = "starting" /\ thread[t].conn = lrp.epoch) /\ thread[t].at \in 1 .. 7
      /\ Op(t) \in {"Register", "Unregister", "UnregisterAll", "CreateChannel", "Undo"}
  BY AtFacts
<1>2. thread[t].appId \in Ids \cup {None}
  BY <1>1, ThreadFacts DEF ThreadType
<1>3. Returning(t)
  BY <1>1, <1>2, ReturnFacts DEF Returned
<1>4. raw' = raw /\ toast' = toast /\ Others(t) /\ Advance /\ foreground' = foreground
      /\ IdOf(a)' = IdOf(a) /\ Known(a)' = Known(a)
  BY <1>3 DEF store, Returning, Advance, IdOf, Known
<1>5. /\ ~Is(t, "Register", 4) /\ ~Is(t, "Register", 5) /\ ~Is(t, "CreateChannel", 4)
      /\ ~Is(t, "CreateChannel", 5) /\ ~AtDrop(t) /\ ~AtDropAll(t) /\ ~Is(t, "Register", 2)
      /\ ~Is(t, "UnregisterAll", 3) /\ ~Is(t, "UnregisterAll", 6) /\ ~Is(t, "Undo", 2)
      /\ (Is(t, "Undo", 3) => ~Known(a)) /\ ~Is(t, "Register", 3)
  BY <1>1 DEF Current, PlaceOf, Is, AtDrop, AtDropAll
<1>6. SameClient(a)
  <2>1. app'[a] \in AppType /\ app[a] \in AppType
    BY <1>1, <1>4 DEF Others, TypeOK
  <2>2. (app'[a].fg <=> app[a].fg) /\ (app'[a].lr <=> app[a].lr)
        /\ (app'[a].viaChannel <=> app[a].viaChannel) /\ (app'[a].undone <=> app[a].undone)
        /\ app'[a].epoch = app[a].epoch /\ app'[a].mixed = app[a].mixed
    BY <1>3, <1>5 DEF Returning
  <2>3. QED
    BY <2>1, <2>2 DEF SameClient, AppType
<1>7. KeepsService(t)
  <2>1. \A u \in Threads : u # t => (Last(u)' <=> Last(u)) /\ (Dropping(u)' <=> Dropping(u))
    BY <1>4 DEF Others, Last, Dropping, Op
  <2>2. ~Last(t)'
    BY <1>1, <1>3, <1>5 DEF Last, Op, Returning, Moved, Freed, Is
  <2>3. QED
    BY <1>1, <1>4, <1>6, <2>1, <2>2 DEF KeepsService, Serving, SameClient
<1>8. Client(a)'
  <2>1. SameMemory(a)
    BY <1>4 DEF SameMemory
  <2>2. QED
    BY <1>1, <1>4, <1>6, <1>7, <2>1, QuietClient DEF SameClient
<1>9. \A u \in Threads : u # t /\ AppOf[u] = a => Serves(u)'
  BY <1>1, <1>4, <1>7, ServiceKept
<1>10. Local(t)
  BY <1>4 DEF Local
<1>11. \A b \in Apps : Whole(b)'
  BY <1>1, <1>3, <1>4, <1>5, <1>8, <1>9, <1>10, ReturningWhole
<1>12. thread'[t].inside = "none" /\ thread'[t].op # "Gone"
  BY <1>1, <1>3, ReturningPlaced
<1>13. QED
  BY <1>4, <1>11, <1>12

LEMMA ReturnedStep ==
  ASSUME IInv, NEW t \in Threads, NEW call, At(t, call),
         call \notin {"connect", "claim", "foreground", "longRunning", "dropForeground", "dropLongRunning",
                      "fullTrust"},
         Returned(t),
         call = "dropFullTrust" => ~Known(AppOf[t]),
         UNCHANGED <<store, lrp, listeners, foreground, note>>,
         wpn' \in [trusted : SUBSET Ids, channels : SUBSET Ids, sinks : SUBSET Ids, stray : SUBSET Ids],
         wpn'.sinks = wpn.sinks, wpn'.trusted = wpn.trusted, wpn'.channels \subseteq wpn.channels
  PROVE  IInv'
<1>1. ~Locked(t)
  BY AtFacts
<1>2. Others(t) /\ thread'[t].inside = "none" /\ thread'[t].op # "Gone" /\ \A b \in Apps : Whole(b)'
  BY ReturnedWhole
<1>3. QED
  BY <1>1, <1>2, QuietStep

\* An operation ends, or UnregisterAll claims app.registering.
LEMMA LeavingWhole ==
  ASSUME IInv, NEW t \in Threads, Live(t), Inside(t, "none"), Others(t), SameClient(AppOf[t]), Advance,
         UNCHANGED <<raw, listeners, foreground>>, toast' \subseteq toast \cup {AppOf[t]},
         AppOf[t] \in toast' => AppOf[t] \in toast \/ Known(AppOf[t]),
         \/ Freed(t) /\ app'[AppOf[t]].registering = app[AppOf[t]].registering
         \/ Is(t, "UnregisterAll", 3) /\ Moved(t, "UnregisterAll", 4)
              /\ ~app[AppOf[t]].registering /\ app'[AppOf[t]].registering
  PROVE  (\A b \in Apps : Whole(b)') /\ thread'[t].inside = "none" /\ thread'[t].op # "Gone"
<1> DEFINE a == AppOf[t]
<1>1. /\ TypeOK /\ Process /\ a \in Apps /\ Whole(a) /\ ThreadInv(t)
  BY ThreadFacts DEF IInv, Whole
<1>2. thread'[t].inside = "none" /\ thread'[t].op # "Gone"
  BY DEF Freed, Moved
<1>3. Placed(t)'
  <2>1. 4 \in 1 .. Len(Script["UnregisterAll"]) /\ 4 \in Nat
    BY ScriptFacts
  <2>2. CASE Freed(t)
    BY <2>2, PlacedFree DEF Freed
  <2>3. CASE Moved(t, "UnregisterAll", 4)
    BY <2>1, <2>3, PlacedFree DEF Moved
  <2>4. QED
    BY <2>2, <2>3
<1>4. Connections(t)'
  <2>1. Freed(t) \/ (thread'[t].full = thread[t].full /\ thread'[t].conn = thread[t].conn)
    BY DEF Moved
  <2>2. ~(lrp.state = "starting" /\ thread[t].conn = lrp.epoch)
    BY <1>1 DEF ThreadInv, Connections, Inside
  <2>3. QED
    BY <1>1, <1>2, <2>1, <2>2, FreeConnections DEF Process, ThreadInv
<1>5. Siblings(t) /\ Continues(t)
  BY DEF Siblings, Continues, Freed, Moved, Holder, Op, Live, SameClient, Known
<1>6. Progress(t)' /\ Alone(t)' /\ Serves(t)'
  BY DEF Progress, Alone, Serves, Freed, Moved, Holder, Op, Inside
<1>7. KeepsService(t)
  <2>1. \A u \in Threads : u # t => (Last(u)' <=> Last(u)) /\ (Dropping(u)' <=> Dropping(u))
    BY DEF Others, Last, Dropping, Op
  <2>2. ~Last(t)' /\ ~Dropping(t)
    BY DEF Last, Dropping, Freed, Moved, Op, Inside
  <2>3. QED
    BY <1>1, <2>1, <2>2 DEF KeepsService, Serving, SameClient
<1>8. Client(a)'
  <2>1. SameMemory(a)
    BY DEF SameMemory
  <2>2. QED
    BY <1>1, <1>7, <2>1, QuietClient DEF SameClient
<1>9. Local(t) /\ \A u \in Threads : AppOf[u] = a => Serves(u)'
  BY <1>1, <1>6, <1>7, ServiceKept DEF Local
<1>10. QED
  BY <1>2, <1>3, <1>4, <1>5, <1>6, <1>8, <1>9, StepWhole

-----------------------------------------------------------------------------
(* The thread's actions.                                                    *)

LEMMA ClaimStep ==
  ASSUME IInv, NEW t \in Threads, Claim(t)
  PROVE  IInv'
<1> DEFINE a == AppOf[t]
<1>1. /\ At(t, "claim") /\ UNCHANGED <<store, wpn, lrp, memory, note>>
  BY DEF Claim
<1>2. /\ TypeOK /\ a \in Apps /\ Live(t) /\ ~Locked(t) /\ thread[t].inside = "none"
      /\ Current(t) = "claim" /\ PlaceOf(Op(t), thread[t].at)
  BY <1>1, AtFacts
<1>3. Is(t, "UnregisterAll", 3)
  BY <1>2 DEF Current, PlaceOf, Is
<1>4. /\ thread \in [Threads -> ThreadType] /\ thread[t] \in ThreadType /\ thread[t].left \in Nat
      /\ app \in [Apps -> AppType] /\ app[a] \in AppType
  BY <1>2, ThreadFacts DEF TypeOK, ThreadType
<1>5. /\ Others(t) /\ SameClient(a)
      /\ \/ Freed(t) /\ app'[a].registering = app[a].registering
         \/ Is(t, "UnregisterAll", 3) /\ Moved(t, "UnregisterAll", 4)
              /\ ~app[a].registering /\ app'[a].registering
  <2>1. CASE app[a].registering
    <3>1. app' = app /\ thread' = [thread EXCEPT ![t] = Idle(thread[t].left)]
      BY <2>1, <1>4 DEF Claim
    <3>2. QED
      BY <1>4, <3>1, IdleFacts DEF Others, SameClient, Freed
  <2>2. CASE ~app[a].registering
    <3>1. /\ thread' = [thread EXCEPT ![t] = [thread[t] EXCEPT !.at = 4]]
          /\ app' = [app EXCEPT ![a] = [app[a] EXCEPT !.registering = TRUE]]
      BY <1>3, <1>4, <2>2 DEF Claim, Is
    <3>2. [thread[t] EXCEPT !.at = 4] \in ThreadType /\ [app[a] EXCEPT !.registering = TRUE] \in AppType
      BY <1>4 DEF ThreadType, AppType
    <3>3. Others(t)
      BY <1>4, <3>1, <3>2 DEF Others
    <3>4. app'[a] = [app[a] EXCEPT !.registering = TRUE]
      BY <1>2, <1>4, <3>1
    <3>5. SameClient(a) /\ app'[a].registering
      BY <1>4, <3>4 DEF SameClient, AppType
    <3>6. Moved(t, "UnregisterAll", 4)
      <4>1. thread'[t] = [thread[t] EXCEPT !.at = 4]
        BY <1>4, <3>1
      <4>2. QED
        BY <1>2, <1>3, <1>4, <4>1 DEF Moved, Is, Op, ThreadType
    <3>7. QED
      BY <1>3, <2>2, <3>3, <3>5, <3>6
  <2>3. QED
    BY <2>1, <2>2
<1>6. /\ raw' = raw /\ toast' = toast /\ listeners' = listeners /\ foreground' = foreground
      /\ Advance /\ Inside(t, "none") /\ UNCHANGED store /\ wpn' = wpn /\ lrp' = lrp /\ note' = note
  BY <1>1, <1>2 DEF store, memory, Advance, Inside
<1>7. (\A b \in Apps : Whole(b)') /\ thread'[t].inside = "none" /\ thread'[t].op # "Gone"
  BY <1>2, <1>5, <1>6, LeavingWhole
<1>8. QED
  BY <1>2, <1>5, <1>6, <1>7, QuietStep DEF TypeOK

LEMMA CloseStep ==
  ASSUME IInv, NEW t \in Threads, Close(t)
  PROVE  IInv'
<1>1. At(t, "close") /\ UNCHANGED <<store, lrp, listeners, note>>
  BY DEF Close
<1>2. /\ TypeOK /\ Live(t) /\ ~Locked(t) /\ Op(t) # "none"
      /\ ~(lrp.state = "starting" /\ thread[t].conn = lrp.epoch)
      /\ Current(t) = "close" /\ PlaceOf(Op(t), thread[t].at)
  BY <1>1, AtFacts
<1>3. Is(t, "UnregisterAll", 4)
  BY <1>2 DEF Current, PlaceOf, Is
<1>4. /\ wpn' \in [trusted : SUBSET Ids, channels : SUBSET Ids, sinks : SUBSET Ids, stray : SUBSET Ids]
      /\ wpn'.sinks = wpn.sinks /\ wpn'.trusted = wpn.trusted /\ wpn'.channels \subseteq wpn.channels
  BY <1>2 DEF Close, TypeOK
<1>5. CASE Failed(t, FALSE)
  <2>1. ~Is(t, "UnregisterAll", 3) /\ Op(t) # "Undo" /\ ~(Op(t) = "Register" /\ thread[t].at \in {3, 4})
    BY <1>3 DEF Is
  <2>2. QED
    BY <1>1, <1>2, <1>4, <1>5, <2>1, FailedStep
<1>6. CASE Returned(t) /\ UNCHANGED foreground
  BY <1>1, <1>2, <1>4, <1>6, ReturnedStep
<1>7. QED
  BY <1>5, <1>6 DEF Close

LEMMA RegisterClassStep ==
  ASSUME IInv, NEW t \in Threads, RegisterClass(t)
  PROVE  IInv'
<1>1. At(t, "com") /\ UNCHANGED <<store, wpn, lrp, listeners, note>>
  BY DEF RegisterClass
<1>2. /\ TypeOK /\ Live(t) /\ ~Locked(t) /\ Op(t) # "none"
      /\ ~(lrp.state = "starting" /\ thread[t].conn = lrp.epoch)
      /\ Current(t) = "com" /\ PlaceOf(Op(t), thread[t].at)
  BY <1>1, AtFacts
<1>3. Is(t, "Register", 6)
  BY <1>2 DEF Current, PlaceOf, Is
<1>4. wpn' = wpn /\ wpn \in [trusted : SUBSET Ids, channels : SUBSET Ids, sinks : SUBSET Ids, stray : SUBSET Ids]
  BY <1>1, <1>2 DEF TypeOK
<1>5. CASE Failed(t, FALSE)
  <2>1. ~Is(t, "UnregisterAll", 3) /\ Op(t) # "Undo" /\ ~(Op(t) = "Register" /\ thread[t].at \in {3, 4})
    BY <1>3 DEF Is
  <2>2. QED
    BY <1>1, <1>2, <1>4, <1>5, <2>1, FailedStep
<1>6. CASE Returned(t) /\ UNCHANGED foreground
  BY <1>1, <1>2, <1>4, <1>6, ReturnedStep
<1>7. QED
  BY <1>5, <1>6 DEF RegisterClass

LEMMA ConnectedFacts ==
  ASSUME TypeOK, NEW t \in Threads, Placed(t), Live(t), Current(t) = "connect", Connected(t)
  PROVE  Linking(t) /\ UNCHANGED foreground
<1> DEFINE full == IF Op(t) = "Register" /\ thread[t].at > 1 THEN thread[t].full ELSE lrp.epoch
           new == [thread[t] EXCEPT !.at = thread[t].at + 1, !.inside = "none", !.conn = lrp.epoch,
                                    !.full = full]
<1>1. /\ thread[t] \in ThreadType /\ thread \in [Threads -> ThreadType] /\ app \in [Apps -> AppType]
      /\ lrp.epoch \in 0 .. MaxStarts /\ thread[t].at \in Nat /\ thread[t].full \in 0 .. MaxStarts
  BY ThreadFacts DEF TypeOK, ThreadType
<1>2. thread' = [thread EXCEPT ![t] = new] /\ app' = app /\ foreground' = foreground
  BY <1>1 DEF Connected
<1>3. new \in ThreadType
  <2>1. thread[t].at + 1 \in Nat /\ full \in 0 .. MaxStarts
    BY <1>1
  <2> HIDE DEF full
  <2>2. QED
    BY <1>1, <2>1 DEF ThreadType
<1>4. thread'[t] = new
  BY <1>1, <1>2
<1>5. Others(t)
  BY <1>1, <1>2, <1>3 DEF Others
<1>6. /\ thread'[t].op = Op(t) /\ thread'[t].at = thread[t].at + 1 /\ thread'[t].inside = "none"
      /\ thread'[t].conn = lrp.epoch /\ thread'[t].full = full
  BY <1>1, <1>4 DEF ThreadType, Op
<1>7. QED
  BY <1>2, <1>5, <1>6 DEF Linking

LEMMA ConnectStep ==
  ASSUME IInv, NEW t \in Threads, Connect(t)
  PROVE  IInv'
<1>1. At(t, "connect") /\ UNCHANGED <<store, wpn, listeners, note>>
  BY DEF Connect
<1>2. /\ TypeOK /\ Process /\ AppOf[t] \in Apps /\ Placed(t) /\ Live(t) /\ ~Locked(t)
      /\ thread[t].inside = "none" /\ ThreadInv(t)
      /\ ~(lrp.state = "starting" /\ thread[t].conn = lrp.epoch) /\ Current(t) = "connect"
      /\ PlaceOf(Op(t), thread[t].at) /\ wpn' = wpn /\ note' = note
      /\ wpn \in [trusted : SUBSET Ids, channels : SUBSET Ids, sinks : SUBSET Ids, stray : SUBSET Ids]
  BY <1>1, AtFacts DEF TypeOK
<1>3. raw' = raw /\ issued' = issued /\ clsid' = clsid /\ toast' = toast /\ listeners' = listeners
  BY <1>1 DEF store
<1>4. CASE Running
  <2>1. Connected(t) /\ lrp' = lrp /\ lrp.state # "starting"
    BY <1>4 DEF Connect, Running
  <2>2. Linking(t) /\ foreground' = foreground
    BY <1>2, <2>1, ConnectedFacts
  <2>3. (\A b \in Apps : Whole(b)') /\ thread'[t].op # "Gone"
    BY <1>3, <2>1, <2>2, LinkingWhole
  <2>4. QED
    BY <1>1, <1>2, <2>1, <2>2, <2>3, QuietStep DEF Linking
<1>5. CASE ~Running /\ lrp.state = "off" /\ lrp.epoch = MaxStarts
  <2>1. Failed(t, FALSE) /\ lrp' = lrp
    BY <1>5 DEF Connect
  <2>2. ~Is(t, "UnregisterAll", 3) /\ Op(t) # "Undo"
    BY <1>2 DEF Is, PlaceOf, Current
  <2>3. QED
    BY <1>1, <1>2, <1>5, <2>1, <2>2, FailedStep
<1>6. CASE ~Running /\ ~(lrp.state = "off" /\ lrp.epoch = MaxStarts)
  <2>1. /\ lrp' = IF lrp.state = "off" THEN Started ELSE lrp
        /\ thread' = [thread EXCEPT ![t].inside = "activating", ![t].conn = lrp'.epoch]
        /\ app' = app /\ foreground' = foreground
    BY <1>6 DEF Connect
  <2>2. lrp \in ProcessType /\ lrp.epoch \in 0 .. MaxStarts /\ MaxStarts \in Nat
        /\ (lrp.state = "off" => lrp.epoch < MaxStarts)
    BY <1>2, <1>6, ThreadFacts, ShapeAssumption
  <2>3. /\ lrp' \in ProcessType /\ lrp'.slow = lrp.slow
        /\ lrp.state = "off" => lrp'.state = "starting" /\ lrp'.epoch = lrp.epoch + 1
        /\ lrp.state # "off" => lrp' = lrp
    BY <1>2, <2>1, <2>2, ProcessFacts
  <2>4. Advance
    BY <2>3 DEF Advance
  <2>5. /\ thread[t] \in ThreadType /\ thread \in [Threads -> ThreadType]
        /\ app \in [Apps -> AppType] /\ lrp'.epoch \in 0 .. MaxStarts
    BY <1>2, <2>3, ThreadFacts DEF TypeOK, ProcessType
  <2>6. thread' = [thread EXCEPT ![t] = [thread[t] EXCEPT !.inside = "activating",
                                                          !.conn = lrp'.epoch]]
    BY <2>1, <2>5
  <2>7. [thread[t] EXCEPT !.inside = "activating", !.conn = lrp'.epoch] \in ThreadType
    BY <2>5 DEF ThreadType
  <2>8. Others(t)
    BY <2>1, <2>5, <2>6, <2>7 DEF Others
  <2>9. Activating(t)
    BY <1>2, <2>1, <2>5, <2>6, <2>8 DEF Activating, ThreadType, Op, Inside
  <2>10. (\A b \in Apps : Whole(b)') /\ thread'[t].op # "Gone"
    BY <1>3, <2>1, <2>4, <2>9, ActivatingWhole
  <2>11. Process'
    <3>1. Locks'
      <4>1. lrp'.state = lrp.state \/ lrp.state \notin {"up", "awake"}
        BY <2>3
      <4>2. QED
        BY <1>2, <2>8, <2>9, <4>1, LocksFall DEF Process, Others, Activating, Exclusive, Shared
    <3>2. Early' /\ Cleared'
      <4>1. \A u \in Threads : thread[u].inside = "cancel" => thread'[u].inside = "cancel"
        BY <1>2, <2>8 DEF Others
      <4>2. lrp.state = "off" => listeners = {}
        BY <1>2 DEF Process, Cleared
      <4>3. Early'
        BY <1>2, <1>3, <2>3, <4>1, <4>2 DEF Process, Early
      <4>4. Cleared'
        BY <1>2, <1>3, <2>1, <2>2, <2>3 DEF Process, Cleared
      <4>5. QED
        BY <4>3, <4>4
    <3>3. Issued' /\ PlatformStarts' /\ Noticed'
      BY <1>2, <1>3, <2>1, <2>3 DEF Process, Issued, PlatformStarts, Loadable, Noticed
    <3>4. QED
      BY <3>1, <3>2, <3>3 DEF Process
  <2>12. listeners' \subseteq Ids /\ foreground' \in [Ids -> Entries]
    BY <1>2, <1>3, <2>1 DEF TypeOK
  <2>13. QED
    BY <1>1, <1>2, <2>3, <2>8, <2>10, <2>11, <2>12, StoreTypes, StepDone
<1>7. QED
  BY <1>4, <1>5, <1>6

LEMMA ActivationEndsStep ==
  ASSUME IInv, NEW t \in Threads, ActivationEnds(t)
  PROVE  IInv'
<1>1. /\ Inside(t, "activating") /\ ~(lrp.state = "starting" /\ lrp.epoch = thread[t].conn)
      /\ UNCHANGED <<store, wpn, lrp, listeners, note>>
  BY DEF ActivationEnds
<1>2. /\ TypeOK /\ Process /\ Placed(t) /\ ThreadInv(t) /\ AppOf[t] \in Apps
      /\ wpn \in [trusted : SUBSET Ids, channels : SUBSET Ids, sinks : SUBSET Ids, stray : SUBSET Ids]
      /\ wpn' = wpn /\ note' = note /\ lrp' = lrp
  BY <1>1, ThreadFacts DEF IInv, Whole, ThreadInv, TypeOK
<1>3. Live(t) /\ Current(t) = "connect" /\ ~Locked(t)
  BY <1>1, <1>2 DEF Placed, Inside, Locked, Exclusive, Shared
<1>4. PlaceOf(Op(t), thread[t].at)
  BY <1>2, <1>3, LivePlace
<1>5. ~Is(t, "UnregisterAll", 3) /\ Op(t) # "Undo"
  BY <1>3, <1>4 DEF Is, PlaceOf, Current
<1>6. CASE Running /\ lrp.epoch = thread[t].conn
  <2>1. Connected(t) /\ lrp.state # "starting"
    BY <1>6 DEF ActivationEnds, Running
  <2>2. Linking(t) /\ foreground' = foreground
    BY <1>2, <1>3, <2>1, ConnectedFacts
  <2>3. (\A b \in Apps : Whole(b)') /\ thread'[t].op # "Gone"
    BY <1>1, <2>1, <2>2, LinkingWhole DEF store
  <2>4. QED
    BY <1>1, <1>2, <1>3, <2>1, <2>2, <2>3, QuietStep DEF Linking
<1>7. CASE ~(Running /\ lrp.epoch = thread[t].conn)
  <2>1. Failed(t, FALSE)
    BY <1>7 DEF ActivationEnds
  <2>2. thread[t].full = lrp.epoch => lrp.state \notin {"up", "awake"}
    <3>1. /\ thread[t].full <= thread[t].conn /\ thread[t].conn <= lrp.epoch
          /\ thread[t].full \in Nat /\ thread[t].conn \in Nat /\ lrp.epoch \in Nat
      BY <1>2, ThreadFacts DEF ThreadInv, Connections, ThreadType
    <3>2. QED
      BY <1>7, <3>1 DEF Running
  <2>3. QED
    BY <1>1, <1>2, <1>3, <1>5, <2>1, <2>2, FailedStep
<1>8. QED
  BY <1>6, <1>7

LEMMA RefusedStep ==
  ASSUME IInv, NEW t \in Threads, Refused(t)
  PROVE  IInv'
<1>1. PICK call \in PlatformCalls : At(t, call)
  BY DEF Refused
<1>2. /\ ~Answers(t) /\ Failed(t, Gone(t)) /\ UNCHANGED <<store, wpn, lrp, listeners, note>>
      /\ Gone(t) \in BOOLEAN
  BY DEF Refused, Gone
<1>3. /\ TypeOK /\ Live(t) /\ ~Locked(t) /\ Current(t) = call /\ PlaceOf(Op(t), thread[t].at)
      /\ ~(lrp.state = "starting" /\ thread[t].conn = lrp.epoch)
      /\ lrp.epoch \in Nat /\ thread[t].conn \in Nat /\ thread[t].full \in Nat
      /\ thread[t].full <= thread[t].conn /\ thread[t].conn <= lrp.epoch
      /\ wpn \in [trusted : SUBSET Ids, channels : SUBSET Ids, sinks : SUBSET Ids, stray : SUBSET Ids]
  BY <1>1, AtFacts DEF TypeOK
<1>4. ~Is(t, "UnregisterAll", 3)
  BY <1>1, <1>3 DEF PlatformCalls, Is, PlaceOf, Current
<1>5. Op(t) = "Register" /\ thread[t].full = lrp.epoch => lrp.state \notin {"up", "awake"}
  BY <1>2, <1>3 DEF Answers, Gone, Proxy
<1>6. QED
  BY <1>2, <1>3, <1>4, <1>5, FailedStep

\* A call that looks for the app's identifier returns without one.
LEMMA UnknownStep ==
  ASSUME IInv, NEW t \in Threads, NEW call \in {"foreground", "dropForeground", "longRunning"},
         At(t, call), ~Known(AppOf[t]), Returned(t),
         UNCHANGED <<store, wpn, lrp, memory, note>>
  PROVE  IInv'
<1> DEFINE a == AppOf[t]
<1>1. /\ TypeOK /\ Process /\ a \in Apps /\ Whole(a) /\ ThreadInv(t) /\ Placed(t)
      /\ Live(t) /\ ~Locked(t) /\ ~Dropping(t) /\ Current(t) = call /\ PlaceOf(Op(t), thread[t].at)
      /\ ~(lrp.state = "starting" /\ thread[t].conn = lrp.epoch) /\ thread[t].at \in 1 .. 7
      /\ Op(t) \in {"Register", "Unregister", "UnregisterAll", "CreateChannel", "Undo"}
      /\ thread[t].conn <= lrp.epoch /\ Client(a)
  BY AtFacts DEF Whole
<1>2. thread[t].appId \in Ids \cup {None}
  BY <1>1, ThreadFacts DEF ThreadType
<1>3. Returning(t)
  BY <1>1, <1>2, ReturnFacts DEF Returned
<1>4. /\ raw' = raw /\ toast' = toast /\ Others(t) /\ Advance /\ foreground' = foreground
      /\ listeners' = listeners /\ lrp' = lrp /\ wpn' = wpn /\ note' = note
      /\ IdOf(a)' = IdOf(a) /\ Known(a)' = Known(a)
  BY <1>3 DEF store, memory, Returning, Advance, IdOf, Known
<1>5. Op(t) # "Register"
  BY <1>1 DEF ThreadInv, Progress, Current, PlaceOf
<1>6. /\ ~Is(t, "Register", 4) /\ ~Is(t, "Register", 5) /\ ~Is(t, "Register", 2)
      /\ ~Is(t, "UnregisterAll", 3) /\ ~Is(t, "UnregisterAll", 6) /\ ~Is(t, "Undo", 3)
      /\ ~AtDropAll(t)
  BY <1>1, <1>5 DEF Current, PlaceOf, Is, AtDropAll
<1>7. /\ app'[a].fg => app[a].fg
      /\ app'[a].lr => app[a].lr
      /\ app'[a].mixed = app[a].mixed /\ (app'[a].undone <=> app[a].undone)
      /\ app'[a].epoch = app[a].epoch \/ app'[a].epoch = thread[t].conn
  BY <1>3, <1>6 DEF Returning
<1>8. ~Serving(a)'
  <2>1. ~Serving(a)
    BY <1>1 DEF Client, Served
  <2>2. \A u \in Threads : u # t => (Last(u)' <=> Last(u)) /\ (Dropping(u)' <=> Dropping(u))
    BY <1>4 DEF Others, Last, Dropping, Op
  <2>3. ~Last(t)'
    BY <1>3, <1>5 DEF Last, Op, Returning, Moved, Freed
  <2>4. QED
    BY <1>1, <1>7, <2>1, <2>2, <2>3 DEF Serving
<1>9. ~app[a].mixed => \A i \in Ids : i[1] = a => foreground[i] = "none"
  BY <1>1, IdFacts DEF Client, Tidy
<1>10. Client(a)'
  <2>1. app'[a].epoch <= lrp'.epoch /\ (app'[a].epoch = lrp'.epoch => lrp'.state # "starting")
    BY <1>1, <1>4, <1>7 DEF Client
  <2>2. Tidy(a)' /\ Mapped(a)'
    BY <1>1, <1>4, <1>7, <1>9 DEF Client, Tidy, Mapped
  <2>3. QED
    BY <1>8, <2>1, <2>2 DEF Client, Served
<1>11. (\A u \in Threads : u # t /\ AppOf[u] = a => Serves(u)') /\ Local(t)
  BY <1>4, <1>8 DEF Serves, Local
<1>12. \A b \in Apps : Whole(b)'
  BY <1>1, <1>3, <1>4, <1>5, <1>6, <1>8, <1>9, <1>10, <1>11, ReturningWhole
<1>13. thread'[t].inside = "none" /\ thread'[t].op # "Gone"
  BY <1>1, <1>3, ReturningPlaced
<1>14. QED
  BY <1>1, <1>4, <1>12, <1>13, QuietStep DEF TypeOK

LEMMA EnterFacts ==
  ASSUME TypeOK, NEW t \in Threads, NEW step \in Exclusive \cup Shared,
         NEW id \in (Apps \X (0 .. MaxIds)) \cup {None}, Enter(t, step, id), app' = app
  PROVE  Entering(t, step, id)
<1>1. /\ thread[t] \in ThreadType /\ thread \in [Threads -> ThreadType] /\ app \in [Apps -> AppType]
  BY ThreadFacts DEF TypeOK
<1> DEFINE new == [thread[t] EXCEPT !.inside = step, !.id = id]
<1>2. thread' = [thread EXCEPT ![t] = new]
  BY <1>1 DEF Enter
<1>3. new \in ThreadType
  BY <1>1 DEF ThreadType
<1>4. thread'[t] = new
  BY <1>1, <1>2
<1>5. Others(t)
  BY <1>1, <1>2, <1>3 DEF Others
<1>6. QED
  BY <1>1, <1>4, <1>5 DEF Entering, ThreadType, Op

\* The identifier of an app, and the app that an identifier is of.
LEMMA OwnId ==
  ASSUME TypeOK, NEW a \in Apps
  PROVE  IdOf(a) \in (Apps \X (0 .. MaxIds)) \cup {None}
  BY DEF TypeOK, IdOf

LEMMA ForegroundActivatorStep ==
  ASSUME IInv, NEW t \in Threads, ForegroundActivator(t)
  PROVE  IInv'
<1> DEFINE a == AppOf[t]
           step == IF Current(t) = "foreground" THEN "add" ELSE "remove"
<1>1. /\ Answers(t) /\ PlatformFree /\ UNCHANGED <<store, wpn, lrp, memory, note>>
  BY DEF ForegroundActivator
<1>2. PICK call \in {"foreground", "dropForeground"} : At(t, call)
  BY DEF ForegroundActivator
<1>3. /\ TypeOK /\ Process /\ a \in Apps /\ Whole(a) /\ ThreadInv(t) /\ Placed(t)
      /\ Live(t) /\ ~Locked(t) /\ ~Dropping(t) /\ Current(t) = call /\ PlaceOf(Op(t), thread[t].at)
      /\ Op(t) \in {"Register", "Unregister", "UnregisterAll", "CreateChannel", "Undo"}
  BY <1>2, AtFacts
<1>4. CASE ~Known(a)
  BY <1>1, <1>2, <1>4, UnknownStep DEF ForegroundActivator
<1>5. CASE Known(a)
  <2>1. Enter(t, step, IdOf(a)) /\ app' = app
    BY <1>5 DEF ForegroundActivator
  <2>2. step \in Exclusive
    BY DEF Exclusive
  <2>3. Entering(t, step, IdOf(a))
    BY <1>3, <2>1, <2>2, EnterFacts, OwnId
  <2>4. /\ raw' = raw /\ issued' = issued /\ clsid' = clsid /\ toast' = toast
        /\ listeners' = listeners /\ foreground' = foreground /\ lrp' = lrp /\ wpn' = wpn
        /\ note' = note /\ IdOf(a)' = IdOf(a) /\ Advance /\ Others(t)
        /\ IdOf(a) \in Ids /\ IdOf(a)[1] = a
    BY <1>1, <1>3, <1>5, <2>3, IdFacts DEF store, memory, IdOf, Advance, Entering
  <2>5. thread[t].conn = lrp.epoch /\ lrp.state \in {"up", "awake"}
    BY <1>1, <1>2, <1>3 DEF Answers, Gone, Proxy
  <2>6. Placed(t)'
    BY <1>2, <1>3, <2>3, <2>4 DEF Placed, Entering, Op, Live, Inside, HasId, Current
  <2>7. Alone(t)'
    <3>1. ~(Op(t) = "UnregisterAll" /\ thread[t].at = 7) /\ ~(Op(t) = "Undo" /\ thread[t].at = 3)
      BY <1>2, <1>3 DEF PlaceOf, Current
    <3>2. QED
      BY <2>3, <3>1 DEF Alone, Entering, Op, Inside
  <2>8. KeepsService(t)
    <3>1. \A u \in Threads : (Last(u)' <=> Last(u)) /\ (Dropping(u)' <=> Dropping(u))
      BY <1>3, <2>3, <2>4 DEF Others, Entering, Last, Dropping, Op
    <3>2. QED
      BY <2>3, <2>4, <3>1 DEF KeepsService, Serving, Entering
  <2>9. Client(a)'
    BY <1>3, <2>3, <2>4, <2>8, QuietClient DEF SameMemory, Entering
  <2>10. \A u \in Threads : AppOf[u] = a => Serves(u)'
    <3>1. Serves(t)'
      BY <1>2, <1>3, <2>3 DEF Serves, Entering, Op, Inside, PlaceOf, Current
    <3>2. QED
      BY <1>3, <2>4, <2>8, <3>1, ServiceKept
  <2>11. \A b \in Apps : Whole(b)'
    BY <1>3, <2>3, <2>4, <2>5, <2>6, <2>7, <2>9, <2>10, EnteringWhole DEF Local, Live, Known
  <2>12. Process'
    <3>1. Locks'
      BY <1>1, <1>3, <2>4, <2>5, LocksTaken DEF Process, Others
    <3>2. Early' /\ Cleared' /\ Noticed'
      BY <1>2, <1>3, <2>4, KeptParts DEF At, Others
    <3>3. Issued' /\ PlatformStarts'
      BY <1>3, <2>4 DEF Process, Issued, PlatformStarts, Loadable
    <3>4. QED
      BY <3>1, <3>2, <3>3 DEF Process
  <2>13. /\ lrp' \in ProcessType /\ listeners' \subseteq Ids /\ thread'[t].inside \in Exclusive \cup Shared
         /\ foreground' \in [Ids -> Entries]
         /\ wpn' \in [trusted : SUBSET Ids, channels : SUBSET Ids, sinks : SUBSET Ids, stray : SUBSET Ids]
    BY <1>3, <2>2, <2>3, <2>4 DEF TypeOK, Entering
  <2>14. QED
    BY <1>1, <1>3, <2>4, <2>11, <2>12, <2>13, StoreTypes, StepDone
<1>6. QED
  BY <1>4, <1>5

\* What holds of a thread inside the platform.
LEMMA LockedFacts ==
  ASSUME IInv, NEW t \in Threads, Locked(t)
  PROVE  /\ TypeOK /\ Process /\ AppOf[t] \in Apps /\ Whole(AppOf[t]) /\ ThreadInv(t) /\ Placed(t)
         /\ Client(AppOf[t]) /\ Op(t) # "none" /\ lrp.state \in {"up", "awake"}
         /\ Live(t) => /\ PlaceOf(Op(t), thread[t].at) /\ thread[t].conn = lrp.epoch
                       /\ Op(t) \in {"Register", "Unregister", "UnregisterAll", "CreateChannel", "Undo"}
         /\ ~Live(t) => Op(t) = "Gone"
         /\ HasId(t) => thread[t].id \in Ids /\ thread[t].id[1] = AppOf[t]
         /\ thread[t].inside \in Exclusive => \A u \in Threads : u # t => ~Locked(u)
         /\ \A u \in Threads : u # t => thread[u].inside \notin Exclusive
         /\ thread[t].id \in (Apps \X (0 .. MaxIds)) \cup {None}
<1>1. /\ TypeOK /\ Process /\ AppOf[t] \in Apps /\ Whole(AppOf[t]) /\ ThreadInv(t) /\ Placed(t)
      /\ Client(AppOf[t])
  BY ThreadFacts DEF IInv, Whole, ThreadInv
<1>2. Op(t) # "none"
  BY <1>1 DEF Placed, Locked, Exclusive, Shared
<1>3. lrp.state \in {"up", "awake"}
  BY <1>1 DEF Process, Locks
<1>4. Live(t) => /\ PlaceOf(Op(t), thread[t].at) /\ thread[t].conn = lrp.epoch
                 /\ Op(t) \in {"Register", "Unregister", "UnregisterAll", "CreateChannel", "Undo"}
  BY <1>1, LivePlace DEF ThreadInv, Connections
<1>5. ~Live(t) => Op(t) = "Gone"
  BY <1>2 DEF Live
<1>6. HasId(t) => thread[t].id \in Ids /\ thread[t].id[1] = AppOf[t]
  BY <1>1 DEF Placed
<1>7. /\ thread[t].inside \in Exclusive => \A u \in Threads : u # t => ~Locked(u)
      /\ \A u \in Threads : u # t => thread[u].inside \notin Exclusive
  BY <1>1 DEF Process, Locks
<1>8. thread[t].id \in (Apps \X (0 .. MaxIds)) \cup {None}
  BY <1>1, ThreadFacts DEF ThreadType
<1>9. QED
  BY <1>1, <1>2, <1>3, <1>4, <1>5, <1>6, <1>7, <1>8

\* A call inside the platform returns: to the app, or to nobody.
LEMMA LockedReturns ==
  ASSUME IInv, NEW t \in Threads, Locked(t), Returned(t)
  PROVE  /\ Live(t) => Returning(t)
         /\ ~Live(t) => Releasing(t)
         /\ Others(t) /\ thread'[t].inside = "none" /\ thread'[t].op # "Gone"
<1>1. /\ TypeOK /\ Placed(t) /\ (~Live(t) => Op(t) = "Gone") /\ AppOf[t] \in Apps
      /\ thread[t] \in ThreadType /\ thread \in [Threads -> ThreadType]
      /\ app \in [Apps -> AppType] /\ thread[t].appId \in Ids \cup {None} /\ thread[t].left \in Nat
  BY LockedFacts, ThreadFacts DEF TypeOK, ThreadType
<1>2. CASE Live(t)
  <2>1. Returning(t)
    BY <1>1, <1>2, ReturnFacts DEF Returned
  <2>2. QED
    BY <1>1, <1>2, <2>1, ReturningPlaced DEF Returning
<1>3. CASE ~Live(t)
  <2>1. thread' = [thread EXCEPT ![t] = Idle(thread[t].left)] /\ app' = app
    BY <1>1, <1>3 DEF Returned, ReturnedWith
  <2>2. Releasing(t)
    BY <1>1, <1>3, <2>1, IdleFacts DEF Releasing, Others, Freed
  <2>3. QED
    BY <1>3, <2>2 DEF Releasing, Freed
<1>4. QED
  BY <1>2, <1>3

\* Cancel keeps what the process is to know of its listeners.
LEMMA CancelKeeps ==
  ASSUME TypeOK, Process, NEW t \in Threads, Locked(t), lrp' = Cancel,
         UNCHANGED <<wpn, listeners, note>>,
         UNCHANGED foreground \/ SinksFree
  PROVE  /\ Early' /\ Cleared' /\ Noticed' /\ lrp' \in ProcessType /\ lrp'.slow = lrp.slow
         /\ lrp'.state = lrp.state /\ lrp'.epoch = lrp.epoch
<1>1. /\ lrp' \in ProcessType /\ lrp'.state = lrp.state /\ lrp'.epoch = lrp.epoch
      /\ lrp'.slow = lrp.slow /\ ~lrp'.timer /\ lrp'.event = lrp.event
      /\ (lrp'.late <=> lrp.late \/ lrp.event \/ lrp.state = "awake")
  BY ProcessFacts
<1>2. lrp.state \in {"up", "awake"}
  BY DEF Process, Locks
<1>3. Early'
  BY <1>1, <1>2 DEF Early
<1>4. Cleared'
  BY <1>1, <1>2 DEF Process, Cleared
<1>5. Noticed'
  BY DEF Process, Noticed, SinksFree
<1>6. QED
  BY <1>1, <1>3, <1>4, <1>5

LEMMA AddSinkStep ==
  ASSUME IInv, NEW t \in Threads, AddSink(t)
  PROVE  IInv'
<1> DEFINE a == AppOf[t]
           id == thread[t].id
           kind == IF Op(t) = "Gone" THEN "stale" ELSE "sink"
<1>1. /\ Inside(t, "add") /\ SinksFree /\ Returned(t) /\ lrp' = Cancel
      /\ foreground' = [foreground EXCEPT ![id] = kind]
      /\ UNCHANGED <<store, wpn, listeners, note>>
  BY DEF AddSink
<1>2. Locked(t) /\ thread[t].inside \in Exclusive /\ HasId(t) /\ thread[t].inside = "add" /\ ~Dropping(t)
  BY <1>1 DEF Inside, Locked, Exclusive, HasId, Dropping
<1>3. /\ TypeOK /\ Process /\ a \in Apps /\ Whole(a) /\ ThreadInv(t) /\ Placed(t) /\ Client(a)
      /\ lrp.state \in {"up", "awake"} /\ id \in Ids /\ id[1] = a
      /\ Live(t) => PlaceOf(Op(t), thread[t].at) /\ thread[t].conn = lrp.epoch
      /\ ~Live(t) => Op(t) = "Gone"
      /\ \A u \in Threads : u # t => ~Locked(u)
  BY <1>2, LockedFacts
<1>4. id = IdOf(a) /\ Known(a)
  BY <1>1, <1>3, IdFacts DEF ThreadInv, Progress
<1>5. /\ raw' = raw /\ toast' = toast /\ listeners' = listeners /\ wpn' = wpn /\ note' = note
      /\ issued' = issued /\ clsid' = clsid /\ IdOf(a)' = IdOf(a) /\ Known(a)' = Known(a)
  BY <1>1 DEF store, IdOf, Known
<1>6. /\ Early' /\ Cleared' /\ Noticed' /\ lrp' \in ProcessType /\ lrp'.slow = lrp.slow
      /\ lrp'.state = lrp.state /\ lrp'.epoch = lrp.epoch
  BY <1>1, <1>2, <1>3, <1>5, CancelKeeps
<1>7. /\ foreground \in [Ids -> Entries]
      /\ foreground' \in [Ids -> Entries]
      /\ \A i \in Ids : foreground'[i] = IF i = id THEN kind ELSE foreground[i]
  BY <1>1, <1>3 DEF TypeOK, Entries, Sinks
<1>8. Advance /\ Local(t)
  BY <1>3, <1>5, <1>6, <1>7 DEF Advance, Local
<1>9. /\ Live(t) => Returning(t)
      /\ ~Live(t) => Releasing(t)
      /\ Others(t) /\ thread'[t].inside = "none" /\ thread'[t].op # "Gone"
  BY <1>1, <1>2, LockedReturns
<1>10. ASSUME Live(t) PROVE \A b \in Apps : Whole(b)'
  <2>1. Is(t, "Register", 4) \/ Is(t, "CreateChannel", 4)
    BY <1>1, <1>3, <1>10 DEF Placed, PlaceOf, Current, Is
  <2>2. Op(t) # "Gone" /\ kind = "sink" /\ Returning(t) /\ ~AtDrop(t) /\ ~AtDropAll(t) /\ ~Is(t, "Undo", 3)
        /\ ~Is(t, "Register", 5) /\ ~Is(t, "CreateChannel", 5) /\ ~Is(t, "Register", 2)
        /\ ~Is(t, "Undo", 2) /\ ~Is(t, "UnregisterAll", 6) /\ ~Is(t, "UnregisterAll", 3) /\ ~AtEnd(t)
    BY <1>9, <1>10, <2>1 DEF Live, Is, AtDrop, AtDropAll, AtEnd
  <2>3. /\ app'[a].mixed = app[a].mixed /\ app'[a].epoch = app[a].epoch
        /\ app'[a].lr <=> app[a].lr
        /\ app'[a].undone <=> app[a].undone
        /\ app'[a].fg <=> app[a].fg \/ Is(t, "Register", 4)
        /\ app'[a].viaChannel <=> app[a].viaChannel \/ Is(t, "CreateChannel", 4)
    BY <2>2 DEF Returning
  <2>4. thread'[t].op = Op(t) /\ thread'[t].at = 5
    BY <2>1, <2>2 DEF Returning, Moved, Is
  <2>5. \A u \in Threads : u # t => (Last(u)' <=> Last(u)) /\ (Dropping(u)' <=> Dropping(u))
    BY <1>9 DEF Others, Last, Dropping, Op
  <2>6. Is(t, "CreateChannel", 4) /\ Serving(a)' => Serving(a)
    <3>1. Is(t, "CreateChannel", 4) => ~Last(t)'
      BY <2>4 DEF Last, Op, Is
    <3>2. QED
      BY <1>2, <2>3, <2>5, <3>1 DEF Serving, Is
  <2>7. Client(a)'
    <3>1. app'[a].epoch <= lrp'.epoch /\ (app'[a].epoch = lrp'.epoch => lrp'.state # "starting")
      BY <1>3, <1>6, <2>3 DEF Client
    <3>2. Tidy(a)'
      BY <1>3, <1>4, <1>5, <1>7, <2>1, <2>3 DEF Client, Tidy
    <3>3. Mapped(a)'
      BY <1>3, <1>5, <2>3 DEF Client, Mapped
    <3>4. Served(a)'
      <4>1. CASE Is(t, "Register", 4)
        BY <1>3, <1>4, <1>5, <2>3, <4>1 DEF Served, ThreadInv, Progress, Is
      <4>2. CASE Is(t, "CreateChannel", 4)
        <5>1. app'[a].fg <=> app[a].fg
          BY <2>3, <4>2 DEF Is
        <5>2. QED
          BY <1>3, <1>4, <1>5, <1>6, <1>7, <2>2, <2>3, <2>6, <4>2, <5>1 DEF Client, Served, Running, Held
      <4>3. QED
        BY <2>1, <4>1, <4>2
    <3>5. QED
      BY <3>1, <3>2, <3>3, <3>4 DEF Client
  <2>8. \A u \in Threads : u # t /\ AppOf[u] = a => Serves(u)'
    <3>1. \A u \in Threads : u # t => thread'[u].inside \notin {"listen", "insert", "cancel"}
      BY <1>3, <1>9 DEF Others, Locked, Shared
    <3>2. foreground'[IdOf(a)] = "sink"
      BY <1>3, <1>4, <1>7, <2>2
    <3>3. QED
      BY <1>5, <3>1, <3>2 DEF Serves, Inside, Held
  <2>9. foreground'[IdOf(a)'] \in Held /\ (Op(t) = "Register" /\ Known(a) => Known(a)')
    BY <1>3, <1>4, <1>5, <1>7, <2>2 DEF Held
  <2>10. ~(lrp.state = "starting" /\ thread[t].conn = lrp.epoch)
    BY <1>3
  <2>11. QED
    BY <1>3, <1>4, <1>5, <1>8, <1>10, <2>2, <2>7, <2>8, <2>9, <2>10, ReturningWhole
<1>11. ASSUME ~Live(t) PROVE \A b \in Apps : Whole(b)'
  <2>1. Releasing(t) /\ kind = "stale" /\ lrp.state # "starting"
    BY <1>3, <1>9, <1>11
  <2>2. \A i \in Ids : i[1] = a /\ foreground'[i] # "none" =>
          foreground'[i] = foreground[i] \/ (foreground'[i] # "sink" /\ i = IdOf(a))
    BY <1>4, <1>7, <2>1
  <2>3. \A b \in Apps : Whole(b)'
    BY <1>5, <1>8, <2>1, <2>2, ReleasingWhole
  <2>4. QED
    BY <2>3
<1>12. \A b \in Apps : Whole(b)'
  BY <1>10, <1>11
<1>13. Process'
  <2>1. Locks'
    BY <1>3, <1>6, <1>9, LocksFall DEF Process, Others, Exclusive, Shared
  <2>2. Issued' /\ PlatformStarts'
    BY <1>3, <1>5, <1>6 DEF Process, Issued, PlatformStarts, Loadable
  <2>3. QED
    BY <1>6, <2>1, <2>2 DEF Process
<1>14. QED
  BY <1>1, <1>3, <1>5, <1>6, <1>7, <1>9, <1>12, <1>13, StoreTypes, StepDone DEF TypeOK

LEMMA RemoveSinkStep ==
  ASSUME IInv, NEW t \in Threads, RemoveSink(t)
  PROVE  IInv'
<1> DEFINE a == AppOf[t]
           id == thread[t].id
<1>1. /\ Inside(t, "remove") /\ SinksFree /\ Returned(t)
      /\ foreground' = [foreground EXCEPT ![id] = "none"]
      /\ UNCHANGED <<store, wpn, lrp, listeners, note>>
  BY DEF RemoveSink
<1>2. Locked(t) /\ thread[t].inside \in Exclusive /\ HasId(t) /\ thread[t].inside = "remove" /\ ~Dropping(t)
      /\ thread[t].inside # "cancel"
  BY <1>1 DEF Inside, Locked, Exclusive, HasId, Dropping
<1>3. /\ TypeOK /\ Process /\ a \in Apps /\ Whole(a) /\ ThreadInv(t) /\ Placed(t) /\ Client(a)
      /\ lrp.state \in {"up", "awake"} /\ id \in Ids /\ id[1] = a
      /\ Live(t) => PlaceOf(Op(t), thread[t].at) /\ thread[t].conn = lrp.epoch
      /\ ~Live(t) => Op(t) = "Gone"
      /\ \A u \in Threads : u # t => ~Locked(u)
  BY <1>2, LockedFacts
<1>4. id = IdOf(a) /\ Known(a)
  BY <1>1, <1>3, IdFacts DEF ThreadInv, Progress
<1>5. /\ raw' = raw /\ toast' = toast /\ listeners' = listeners /\ wpn' = wpn /\ note' = note /\ lrp' = lrp
      /\ issued' = issued /\ clsid' = clsid /\ IdOf(a)' = IdOf(a) /\ Known(a)' = Known(a)
  BY <1>1 DEF store, IdOf, Known
<1>6. /\ foreground \in [Ids -> Entries]
      /\ foreground' \in [Ids -> Entries]
      /\ \A i \in Ids : foreground'[i] = IF i = id THEN "none" ELSE foreground[i]
  BY <1>1, <1>3 DEF TypeOK, Entries
<1>7. Advance /\ Local(t)
  BY <1>3, <1>5, <1>6 DEF Advance, Local
<1>8. /\ Live(t) => Returning(t)
      /\ ~Live(t) => Releasing(t)
      /\ Others(t) /\ thread'[t].inside = "none" /\ thread'[t].op # "Gone"
  BY <1>1, <1>2, LockedReturns
<1>9. ASSUME Live(t)
      PROVE  \A b \in Apps : Whole(b)'
  <2>1. AtDrop(t) /\ Returning(t)
    BY <1>1, <1>3, <1>8, <1>9 DEF Placed, PlaceOf, Current, Is, AtDrop
  <2>2. /\ ~Is(t, "Register", 4) /\ ~Is(t, "CreateChannel", 4) /\ ~Is(t, "Register", 5)
        /\ ~Is(t, "CreateChannel", 5) /\ ~Is(t, "Register", 2) /\ ~Is(t, "Undo", 3)
        /\ ~Is(t, "UnregisterAll", 6) /\ ~Is(t, "UnregisterAll", 3) /\ Op(t) # "Register"
        /\ Holder(t)
    BY <2>1 DEF AtDrop, Is, Holder
  <2>3. /\ app'[a].mixed = app[a].mixed /\ app'[a].epoch = app[a].epoch /\ ~app'[a].fg
        /\ app'[a].undone <=> app[a].undone
    BY <2>1, <2>2 DEF Returning
  <2>4. ~Serving(a)'
    <3>1. \A u \in Threads : u # t /\ AppOf[u] = a => ~Last(u)
      BY <1>3, <2>2 DEF Whole, Apart, Last, Holder
    <3>2. \A u \in Threads : u # t => (Last(u)' <=> Last(u))
      BY <1>8 DEF Others, Last, Op
    <3>3. ~Last(t)'
      BY <2>1, <2>2 DEF Returning, Last, Op, Freed, Moved
    <3>4. QED
      BY <2>3, <3>1, <3>2, <3>3 DEF Serving
  <2>5. ~app[a].mixed => \A i \in Ids : i[1] = a => foreground'[i] = "none"
    BY <1>3, <1>4, <1>6 DEF Client, Tidy
  <2>6. Client(a)'
    <3>1. app'[a].epoch <= lrp'.epoch /\ (app'[a].epoch = lrp'.epoch => lrp'.state # "starting")
      BY <1>3, <1>5, <2>3 DEF Client
    <3>2. Tidy(a)' /\ Mapped(a)'
      BY <1>3, <1>5, <2>3, <2>5 DEF Client, Tidy, Mapped
    <3>3. QED
      BY <2>4, <3>1, <3>2 DEF Client, Served
  <2>7. \A u \in Threads : u # t /\ AppOf[u] = a => Serves(u)'
    BY <2>4 DEF Serves
  <2>8. ~(lrp.state = "starting" /\ thread[t].conn = lrp.epoch)
    BY <1>3
  <2>9. QED
    BY <1>3, <1>5, <1>7, <1>9, <2>1, <2>2, <2>5, <2>6, <2>7, <2>8, ReturningWhole
<1>10. ASSUME ~Live(t)
       PROVE  \A b \in Apps : Whole(b)'
  <2>1. Releasing(t) /\ lrp.state # "starting"
    BY <1>3, <1>8, <1>10
  <2>2. \A i \in Ids : i[1] = a /\ foreground'[i] # "none" => foreground'[i] = foreground[i]
    BY <1>6
  <2>3. QED
    BY <1>5, <1>7, <2>1, <2>2, ReleasingWhole
<1>11. Process'
  <2>1. Locks'
    BY <1>3, <1>5, <1>8, LocksFall DEF Process, Others, Exclusive, Shared
  <2>2. Early' /\ Cleared' /\ Noticed'
    BY <1>1, <1>2, <1>3, <1>5, <1>8, KeptParts DEF Others
  <2>3. Issued' /\ PlatformStarts'
    BY <1>3, <1>5 DEF Process, Issued, PlatformStarts, Loadable
  <2>4. QED
    BY <2>1, <2>2, <2>3 DEF Process
<1>12. \A b \in Apps : Whole(b)'
  BY <1>9, <1>10
<1>13. QED
  BY <1>1, <1>3, <1>5, <1>6, <1>8, <1>11, <1>12, StoreTypes, StepDone DEF TypeOK

LEMMA ToastStep ==
  ASSUME IInv, NEW t \in Threads, AddToastRegistrationMapping(t)
  PROVE  IInv'
<1> DEFINE a == AppOf[t]
           new == [app[a] EXCEPT !.channel = thread[t].appId]
<1>1. /\ At(t, "toast") /\ UNCHANGED <<raw, issued, clsid, wpn, lrp, memory, note>>
      /\ toast' = IF Known(a) THEN toast \cup {a} ELSE toast
      /\ thread' = [thread EXCEPT ![t] = Idle(thread[t].left)]
      /\ app' = [app EXCEPT ![a] = new]
  BY DEF AddToastRegistrationMapping
<1>2. /\ TypeOK /\ Process /\ a \in Apps /\ Live(t) /\ ~Locked(t) /\ thread[t].inside = "none"
  BY <1>1, AtFacts
<1>3. /\ thread \in [Threads -> ThreadType] /\ thread[t] \in ThreadType /\ thread[t].left \in Nat
      /\ app \in [Apps -> AppType] /\ app[a] \in AppType /\ thread[t].appId \in Ids \cup {None}
  BY <1>2, ThreadFacts DEF TypeOK, ThreadType
<1>4. new \in AppType
  BY <1>3 DEF AppType
<1>5. app'[a] = new
  BY <1>1, <1>2, <1>3
<1>6. Others(t) /\ Freed(t)
  BY <1>1, <1>3, <1>4, IdleFacts DEF Others, Freed
<1>7. SameClient(a) /\ app'[a].registering = app[a].registering
  BY <1>3, <1>5 DEF SameClient, AppType
<1>8. /\ raw' = raw /\ issued' = issued /\ clsid' = clsid /\ listeners' = listeners
      /\ foreground' = foreground /\ wpn' = wpn /\ lrp' = lrp /\ note' = note
      /\ Advance /\ Inside(t, "none") /\ toast' \subseteq toast \cup {a}
      /\ (a \in toast' => a \in toast \/ Known(a))
  BY <1>1, <1>2 DEF memory, Advance, Inside
<1>9. (\A b \in Apps : Whole(b)') /\ thread'[t].inside = "none" /\ thread'[t].op # "Gone"
  BY <1>2, <1>6, <1>7, <1>8, LeavingWhole
<1>10. Process'
  <2>1. Locks'
    BY <1>2, <1>6, <1>8, <1>9, LocksFall DEF Process, Others, Exclusive, Shared
  <2>2. Early' /\ Cleared' /\ Noticed'
    BY <1>2, <1>6, <1>8, KeptParts DEF Others
  <2>3. Issued' /\ PlatformStarts'
    BY <1>2, <1>8 DEF Process, Issued, PlatformStarts, Loadable
  <2>4. QED
    BY <2>1, <2>2, <2>3 DEF Process
<1>11. /\ raw' \in [Apps -> 0 .. MaxIds] /\ issued' \in [Apps -> 0 .. MaxIds]
       /\ \A b \in Apps : raw'[b] <= issued'[b]
       /\ clsid' \subseteq Ids /\ toast' \subseteq Apps
       /\ wpn' \in [trusted : SUBSET Ids, channels : SUBSET Ids, sinks : SUBSET Ids, stray : SUBSET Ids]
       /\ lrp' \in ProcessType /\ listeners' \subseteq Ids
       /\ foreground' \in [Ids -> Entries]
  BY <1>2, <1>8 DEF TypeOK
<1>12. QED
  BY <1>6, <1>8, <1>9, <1>10, <1>11, StepDone

LEMMA RegisterLongRunningStep ==
  ASSUME IInv, NEW t \in Threads, RegisterLongRunningActivator(t)
  PROVE  IInv'
<1> DEFINE a == AppOf[t]
           id == IdOf(a)
<1>1. /\ At(t, "longRunning") /\ Answers(t) /\ SharedFree
      /\ UNCHANGED <<raw, issued, toast, wpn, memory, note>>
  BY DEF RegisterLongRunningActivator
<1>2. /\ TypeOK /\ Process /\ a \in Apps /\ Whole(a) /\ ThreadInv(t) /\ Placed(t)
      /\ Live(t) /\ ~Locked(t) /\ ~Dropping(t) /\ Current(t) = "longRunning"
      /\ PlaceOf(Op(t), thread[t].at) /\ Op(t) # "none" /\ thread[t].inside = "none"
  BY <1>1, AtFacts
<1>3. CASE ~Known(a)
  BY <1>1, <1>3, UnknownStep DEF RegisterLongRunningActivator, store
<1>4. CASE Known(a)
  <2>1. /\ Enter(t, "listen", id) /\ app' = app /\ clsid' = clsid \cup {id}
        /\ lrp' = [lrp EXCEPT !.slow = lrp.slow \ {id}]
    BY <1>4 DEF RegisterLongRunningActivator
  <2>2. Entering(t, "listen", id)
    BY <1>2, <2>1, EnterFacts, OwnId DEF Shared
  <2>3. /\ lrp' \in ProcessType /\ lrp'.state = lrp.state /\ lrp'.epoch = lrp.epoch
        /\ lrp'.timer = lrp.timer /\ lrp'.event = lrp.event /\ lrp'.late = lrp.late
        /\ lrp'.slow = lrp.slow \ {id}
    <3>1. lrp \in ProcessType /\ lrp.slow \ {id} \subseteq Ids
      BY <1>2, ProcessFacts
    <3>2. QED
      BY <2>1, <3>1 DEF ProcessType
  <2>4. /\ raw' = raw /\ issued' = issued /\ toast' = toast
        /\ listeners' = listeners /\ foreground' = foreground /\ wpn' = wpn
        /\ note' = note /\ IdOf(a)' = IdOf(a) /\ Known(a)' = Known(a) /\ Advance /\ Others(t)
        /\ id \in Ids /\ id[1] = a
    BY <1>1, <1>2, <1>4, <2>2, <2>3, IdFacts DEF memory, IdOf, Known, Advance, Entering
  <2>5. thread[t].conn = lrp.epoch /\ lrp.state \in {"up", "awake"}
    BY <1>1, <1>2 DEF Answers, Gone, Proxy
  <2>6. Placed(t)'
    BY <1>2, <2>2, <2>4 DEF Placed, Entering, Op, Live, Inside, HasId, Current
  <2>7. Op(t) \in {"Register", "CreateChannel"} /\ thread[t].at = 5
    BY <1>2 DEF PlaceOf, Current
  <2>8. Alone(t)'
    BY <2>2, <2>4, <2>7 DEF Alone, Entering, Op, Inside
  <2>9. KeepsService(t)
    <3>1. \A u \in Threads : (Last(u)' <=> Last(u)) /\ (Dropping(u)' <=> Dropping(u))
      BY <1>2, <2>2, <2>4 DEF Others, Entering, Last, Dropping, Op
    <3>2. QED
      BY <2>2, <2>4, <3>1 DEF KeepsService, Serving, Entering
  <2>10. Client(a)'
    BY <1>2, <2>2, <2>4, <2>9, QuietClient DEF SameMemory, Entering
  <2>11. \A u \in Threads : AppOf[u] = a => Serves(u)'
    <3>1. Serves(t)'
      <4>1. Serving(a)' => Serving(a)
        BY <2>9 DEF KeepsService
      <4>2. Running' <=> Running
        BY <2>3 DEF Running
      <4>3. QED
        BY <1>2, <2>2, <2>3, <2>4, <4>1, <4>2 DEF ThreadInv, Serves, Entering, Op, Inside
    <3>2. QED
      BY <1>2, <2>4, <2>9, <3>1, ServiceKept
  <2>12. \A b \in Apps : Whole(b)'
    BY <1>2, <2>2, <2>3, <2>4, <2>5, <2>6, <2>8, <2>10, <2>11, EnteringWhole DEF Local
  <2>13. Process'
    <3>1. Locks'
      <4>1. thread'[t].inside \notin Exclusive
        BY <2>2 DEF Entering, Exclusive
      <4>2. QED
        BY <1>1, <1>2, <2>3, <2>4, <2>5, <4>1, LocksTaken DEF Process, Others
    <3>2. Early' /\ Cleared' /\ Noticed'
      BY <1>2, <2>3, <2>4, KeptParts DEF Others
    <3>3. Issued' /\ PlatformStarts'
      BY <1>2, <2>1, <2>3, <2>4 DEF Process, Issued, PlatformStarts, Loadable
    <3>4. QED
      BY <3>1, <3>2, <3>3 DEF Process
  <2>14. /\ raw' \in [Apps -> 0 .. MaxIds] /\ issued' \in [Apps -> 0 .. MaxIds]
         /\ \A b \in Apps : raw'[b] <= issued'[b]
         /\ clsid' \subseteq Ids /\ toast' \subseteq Apps
         /\ wpn' \in [trusted : SUBSET Ids, channels : SUBSET Ids, sinks : SUBSET Ids, stray : SUBSET Ids]
         /\ listeners' \subseteq Ids
         /\ foreground' \in [Ids -> Entries]
    BY <1>2, <2>1, <2>4 DEF TypeOK
  <2>15. thread'[t].inside \in Exclusive \cup Shared
    BY <2>2 DEF Entering, Shared
  <2>16. QED
    BY <2>3, <2>4, <2>12, <2>13, <2>14, <2>15, StepDone
<1>5. QED
  BY <1>3, <1>4

LEMMA AddListenerStep ==
  ASSUME IInv, NEW t \in Threads, AddListener(t)
  PROVE  IInv'
<1> DEFINE a == AppOf[t]
           id == thread[t].id
<1>1. Inside(t, "listen") /\ UNCHANGED <<store, lrp, listeners, note>>
  BY DEF AddListener
<1>2. Locked(t) /\ HasId(t) /\ thread[t].inside = "listen" /\ ~Dropping(t) /\ thread[t].inside # "cancel"
  BY <1>1 DEF Inside, Locked, Shared, HasId, Dropping
<1>3. /\ TypeOK /\ Process /\ a \in Apps /\ Whole(a) /\ ThreadInv(t) /\ Placed(t) /\ Client(a)
      /\ lrp.state \in {"up", "awake"} /\ id \in Ids /\ id[1] = a /\ Op(t) # "none"
      /\ Live(t) => PlaceOf(Op(t), thread[t].at) /\ thread[t].conn = lrp.epoch
      /\ ~Live(t) => Op(t) = "Gone"
      /\ \A u \in Threads : u # t => thread[u].inside \notin Exclusive
  BY <1>2, LockedFacts
<1>4. Live(t) => Op(t) \in {"Register", "CreateChannel"} /\ thread[t].at = 5
  BY <1>2, <1>3 DEF Placed, PlaceOf, Current
<1>5. /\ listeners' = listeners /\ raw' = raw /\ toast' = toast /\ note' = note /\ lrp' = lrp
      /\ issued' = issued /\ clsid' = clsid /\ IdOf(a)' = IdOf(a) /\ Known(a)' = Known(a) /\ Advance
  BY <1>1 DEF store, IdOf, Known, Advance
<1>6. CASE /\ wpn' = [wpn EXCEPT !.sinks = wpn.sinks \cup {id}]
           /\ Enter(t, "insert", id) /\ UNCHANGED <<app, foreground>>
  <2>1. Entering(t, "insert", id) /\ foreground' = foreground
    BY <1>2, <1>3, <1>6, LockedFacts, EnterFacts DEF Shared
  <2>2. Others(t) /\ app' = app
    BY <2>1 DEF Entering
  <2>3. /\ wpn' \in [trusted : SUBSET Ids, channels : SUBSET Ids, sinks : SUBSET Ids, stray : SUBSET Ids]
        /\ wpn'.sinks = wpn.sinks \cup {id} /\ wpn'.channels = wpn.channels /\ wpn'.trusted = wpn.trusted
        /\ listeners' \subseteq Ids
    BY <1>3, <1>5, <1>6 DEF TypeOK
  <2>4. Placed(t)'
    BY <1>2, <1>3, <2>1 DEF Placed, Entering, Op, Live, Inside, HasId, Current
  <2>5. Alone(t)'
    <3>1. ~(Op(t) = "UnregisterAll" /\ thread[t].at = 7) /\ ~(Op(t) = "Undo" /\ thread[t].at = 3)
      BY <1>4 DEF Live
    <3>2. ~app[a].mixed => id = IdOf(a)
      BY <1>2, <1>3 DEF ThreadInv, Alone
    <3>3. QED
      BY <1>5, <2>1, <3>1, <3>2 DEF Alone, Entering, Op, Inside
  <2>6. KeepsService(t)
    <3>1. \A u \in Threads : (Last(u)' <=> Last(u)) /\ (Dropping(u)' <=> Dropping(u))
      BY <1>2, <2>1, <2>2 DEF Others, Entering, Last, Dropping, Op
    <3>2. QED
      BY <1>5, <1>6, <2>1, <2>2, <3>1 DEF KeepsService, Serving
  <2>7. Client(a)'
    <3>1. app'[a].epoch <= lrp'.epoch /\ (app'[a].epoch = lrp'.epoch => lrp'.state # "starting")
      BY <1>3, <1>5, <2>2 DEF Client
    <3>2. Tidy(a)'
      <4>1. ~app[a].mixed => id = IdOf(a)
        BY <1>2, <1>3 DEF ThreadInv, Alone
      <4>2. QED
        BY <1>3, <1>5, <1>6, <2>2, <4>1 DEF Client, Tidy
    <3>3. Mapped(a)'
      BY <1>3, <1>5, <2>2 DEF Client, Mapped
    <3>4. Served(a)'
      BY <1>3, <1>5, <2>2, <2>6 DEF Client, Served, KeepsService, Running
    <3>5. QED
      BY <3>1, <3>2, <3>3, <3>4 DEF Client
  <2>8. \A u \in Threads : AppOf[u] = a => Serves(u)'
    <3>1. Serves(t)'
      <4>1. Serving(a)' => Serving(a)
        BY <2>6 DEF KeepsService
      <4>2. Running' <=> Running
        BY <1>5 DEF Running
      <4>3. Serving(a)' /\ Op(t) \in {"Register", "CreateChannel"} => id = IdOf(a)
        BY <1>2, <1>3, <4>1 DEF ThreadInv, Serves
      <4>4. QED
        BY <1>2, <1>3, <1>5, <1>6, <2>1, <4>1, <4>2, <4>3 DEF ThreadInv, Serves, Entering, Op, Inside
    <3>2. QED
      BY <1>3, <1>5, <2>2, <2>6, <3>1, ServiceKept
  <2>9. Local(t)
    BY <1>3, <1>5, <1>6 DEF Local
  <2>10. \A b \in Apps : Whole(b)'
    BY <1>3, <1>5, <2>1, <2>4, <2>5, <2>7, <2>8, <2>9, EnteringWhole
  <2>11. Process'
    <3>1. Locks'
      BY <1>2, <1>3, <1>5, <2>1, <2>2, LocksFall DEF Process, Others, Entering, Exclusive, Shared
    <3>2. Early'
      BY <1>1, <1>2, <1>3, <1>5, <2>2 DEF Process, Early, Others
    <3>3. Cleared' /\ Noticed'
      BY <1>3, <1>5, <1>6, <2>1, <2>3 DEF Process, Cleared, Noticed
    <3>4. Issued' /\ PlatformStarts'
      BY <1>3, <1>5, <2>3 DEF Process, Issued, PlatformStarts, Loadable
    <3>5. QED
      BY <3>1, <3>2, <3>3, <3>4 DEF Process
  <2>12. /\ lrp' \in ProcessType /\ foreground' \in [Ids -> Entries]
         /\ thread'[t].inside \in Exclusive \cup Shared
    BY <1>3, <1>5, <2>1 DEF TypeOK, Entering, Shared
  <2>13. QED
    BY <1>1, <1>3, <1>5, <2>2, <2>3, <2>10, <2>11, <2>12, StoreTypes, StepDone
<1>7. CASE Failed(t, FALSE) /\ UNCHANGED wpn
  <2>1. Failing(t) /\ Op(t) # "Undo"
    BY <1>3, <1>4, <1>7, FailFacts DEF Live
  <2>2. Others(t) /\ foreground' = foreground
    BY <2>1 DEF Failing
  <2>3. ~Is(t, "UnregisterAll", 3) /\ ~(Op(t) = "Register" /\ thread[t].at \in {3, 4})
    BY <1>4 DEF Live, Is
  <2>4. \A b \in Apps : Whole(b)'
    BY <1>2, <1>3, <1>5, <1>7, <2>1, <2>3, FailingWhole
  <2>5. thread'[t].inside = "none" /\ thread'[t].op # "Gone"
    BY <1>3, <2>1, FailingPlaced
  <2>6. Process'
    <3>1. Locks'
      BY <1>3, <1>5, <2>2, <2>5, LocksFall DEF Process, Others, Exclusive, Shared
    <3>2. Early' /\ Cleared' /\ Noticed'
      BY <1>2, <1>3, <1>5, <1>7, <2>2, KeptParts DEF Others
    <3>3. Issued' /\ PlatformStarts'
      BY <1>3, <1>5, <1>7 DEF Process, Issued, PlatformStarts, Loadable
    <3>4. QED
      BY <3>1, <3>2, <3>3 DEF Process
  <2>7. QED
    BY <1>1, <1>3, <1>5, <1>7, <2>2, <2>4, <2>5, <2>6, StoreTypes, StepDone DEF TypeOK
<1>8. QED
  BY <1>6, <1>7 DEF AddListener

LEMMA InsertListenerStep ==
  ASSUME IInv, NEW t \in Threads, InsertListener(t)
  PROVE  IInv'
<1> DEFINE a == AppOf[t]
           id == thread[t].id
<1>1. Inside(t, "insert") /\ UNCHANGED <<store, lrp, note>>
  BY DEF InsertListener
<1>2. Locked(t) /\ HasId(t) /\ thread[t].inside = "insert" /\ ~Dropping(t) /\ thread[t].inside # "cancel"
  BY <1>1 DEF Inside, Locked, Shared, HasId, Dropping
<1>3. /\ TypeOK /\ Process /\ a \in Apps /\ Whole(a) /\ ThreadInv(t) /\ Placed(t) /\ Client(a)
      /\ lrp.state \in {"up", "awake"} /\ id \in Ids /\ id[1] = a /\ Op(t) # "none"
      /\ Live(t) => PlaceOf(Op(t), thread[t].at) /\ thread[t].conn = lrp.epoch
      /\ ~Live(t) => Op(t) = "Gone"
      /\ \A u \in Threads : u # t => thread[u].inside \notin Exclusive
  BY <1>2, LockedFacts
<1>4. Live(t) => Op(t) \in {"Register", "CreateChannel"} /\ thread[t].at = 5
  BY <1>2, <1>3 DEF Placed, PlaceOf, Current
<1>5. /\ raw' = raw /\ toast' = toast /\ note' = note /\ lrp' = lrp
      /\ issued' = issued /\ clsid' = clsid /\ IdOf(a)' = IdOf(a) /\ Known(a)' = Known(a) /\ Advance
  BY <1>1 DEF store, IdOf, Known, Advance
<1>6. CASE /\ wpn' = [wpn EXCEPT !.stray = wpn.stray \ {id}]
           /\ listeners' = listeners \cup {id}
           /\ Enter(t, "cancel", id) /\ UNCHANGED <<app, foreground>>
  <2>1. Entering(t, "cancel", id) /\ foreground' = foreground
    BY <1>2, <1>3, <1>6, LockedFacts, EnterFacts DEF Shared
  <2>2. Others(t) /\ app' = app
    BY <2>1 DEF Entering
  <2>3. /\ wpn' \in [trusted : SUBSET Ids, channels : SUBSET Ids, sinks : SUBSET Ids, stray : SUBSET Ids]
        /\ wpn'.sinks = wpn.sinks /\ wpn'.channels = wpn.channels /\ wpn'.trusted = wpn.trusted
        /\ listeners' \subseteq Ids
    BY <1>3, <1>6 DEF TypeOK
  <2>4. Placed(t)'
    BY <1>2, <1>3, <2>1 DEF Placed, Entering, Op, Live, Inside, HasId, Current
  <2>5. Alone(t)'
    <3>1. ~(Op(t) = "UnregisterAll" /\ thread[t].at = 7) /\ ~(Op(t) = "Undo" /\ thread[t].at = 3)
      BY <1>4 DEF Live
    <3>2. ~app[a].mixed => id = IdOf(a)
      BY <1>2, <1>3 DEF ThreadInv, Alone
    <3>3. QED
      BY <1>5, <2>1, <3>1, <3>2 DEF Alone, Entering, Op, Inside
  <2>6. KeepsService(t)
    <3>1. \A u \in Threads : (Last(u)' <=> Last(u)) /\ (Dropping(u)' <=> Dropping(u))
      BY <1>2, <2>1, <2>2 DEF Others, Entering, Last, Dropping, Op
    <3>2. QED
      BY <1>5, <1>6, <2>1, <2>2, <3>1 DEF KeepsService, Serving
  <2>7. Client(a)'
    <3>1. app'[a].epoch <= lrp'.epoch /\ (app'[a].epoch = lrp'.epoch => lrp'.state # "starting")
      BY <1>3, <1>5, <2>2 DEF Client
    <3>2. Tidy(a)'
      <4>1. ~app[a].mixed => id = IdOf(a)
        BY <1>2, <1>3 DEF ThreadInv, Alone
      <4>2. QED
        BY <1>3, <1>5, <1>6, <2>2, <4>1 DEF Client, Tidy
    <3>3. Mapped(a)'
      BY <1>3, <1>5, <2>2 DEF Client, Mapped
    <3>4. Served(a)'
      BY <1>3, <1>5, <2>2, <2>6 DEF Client, Served, KeepsService, Running
    <3>5. QED
      BY <3>1, <3>2, <3>3, <3>4 DEF Client
  <2>8. \A u \in Threads : AppOf[u] = a => Serves(u)'
    <3>1. Serves(t)'
      <4>1. Serving(a)' => Serving(a)
        BY <2>6 DEF KeepsService
      <4>2. Running' <=> Running
        BY <1>5 DEF Running
      <4>3. Serving(a)' /\ Op(t) \in {"Register", "CreateChannel"} => id = IdOf(a)
        BY <1>2, <1>3, <4>1 DEF ThreadInv, Serves
      <4>4. QED
        BY <1>2, <1>3, <1>5, <1>6, <2>1, <4>1, <4>2, <4>3 DEF ThreadInv, Serves, Entering, Op, Inside
    <3>2. QED
      BY <1>3, <1>5, <2>2, <2>6, <3>1, ServiceKept
  <2>9. Local(t)
    BY <1>3, <1>5, <1>6 DEF Local
  <2>10. \A b \in Apps : Whole(b)'
    BY <1>3, <1>5, <2>1, <2>4, <2>5, <2>7, <2>8, <2>9, EnteringWhole
  <2>11. Process'
    <3>1. Locks'
      BY <1>2, <1>3, <1>5, <2>1, <2>2, LocksFall DEF Process, Others, Entering, Exclusive, Shared
    <3>2. Early'
      BY <2>1 DEF Early, Entering
    <3>3. Cleared' /\ Noticed'
      BY <1>3, <1>5, <1>6, <2>1, <2>3 DEF Process, Cleared, Noticed
    <3>4. Issued' /\ PlatformStarts'
      BY <1>3, <1>5, <2>3 DEF Process, Issued, PlatformStarts, Loadable
    <3>5. QED
      BY <3>1, <3>2, <3>3, <3>4 DEF Process
  <2>12. /\ lrp' \in ProcessType /\ foreground' \in [Ids -> Entries]
         /\ thread'[t].inside \in Exclusive \cup Shared
    BY <1>3, <1>5, <2>1 DEF TypeOK, Entering, Shared
  <2>13. QED
    BY <1>1, <1>3, <1>5, <2>2, <2>3, <2>10, <2>11, <2>12, StoreTypes, StepDone
<1>7. CASE /\ wpn' = [wpn EXCEPT !.stray = wpn.stray \cup {id}]
           /\ Failed(t, FALSE) /\ UNCHANGED listeners
  <2>0. /\ wpn' \in [trusted : SUBSET Ids, channels : SUBSET Ids, sinks : SUBSET Ids, stray : SUBSET Ids]
        /\ wpn'.sinks = wpn.sinks /\ wpn'.channels = wpn.channels /\ wpn'.trusted = wpn.trusted
    BY <1>3, <1>7 DEF TypeOK
  <2>1. Failing(t) /\ Op(t) # "Undo"
    BY <1>3, <1>4, <1>7, FailFacts DEF Live
  <2>2. Others(t) /\ foreground' = foreground
    BY <2>1 DEF Failing
  <2>3. ~Is(t, "UnregisterAll", 3) /\ ~(Op(t) = "Register" /\ thread[t].at \in {3, 4})
    BY <1>4 DEF Live, Is
  <2>4. \A b \in Apps : Whole(b)'
    BY <1>2, <1>3, <1>5, <1>7, <2>1, <2>3, FailingWhole
  <2>5. thread'[t].inside = "none" /\ thread'[t].op # "Gone"
    BY <1>3, <2>1, FailingPlaced
  <2>6. Process'
    <3>1. Locks'
      BY <1>3, <1>5, <2>2, <2>5, LocksFall DEF Process, Others, Exclusive, Shared
    <3>2. Early' /\ Cleared' /\ Noticed'
      BY <1>2, <1>3, <1>5, <1>7, <2>0, <2>2, KeptParts DEF Others
    <3>3. Issued' /\ PlatformStarts'
      BY <1>3, <1>5, <2>0 DEF Process, Issued, PlatformStarts, Loadable
    <3>4. QED
      BY <3>1, <3>2, <3>3 DEF Process
  <2>7. QED
    BY <1>1, <1>3, <1>5, <1>7, <2>0, <2>2, <2>4, <2>5, <2>6, StoreTypes, StepDone DEF TypeOK
<1>8. QED
  BY <1>6, <1>7 DEF InsertListener

LEMMA CancelTimerStep ==
  ASSUME IInv, NEW t \in Threads, CancelTimer(t)
  PROVE  IInv'
<1> DEFINE a == AppOf[t]
<1>1. /\ Inside(t, "cancel") /\ lrp' = Cancel /\ Returned(t)
      /\ UNCHANGED <<store, wpn, memory, note>>
  BY DEF CancelTimer
<1>2. Locked(t) /\ thread[t].inside = "cancel" /\ ~Dropping(t)
  BY <1>1 DEF Inside, Locked, Shared, Dropping
<1>3. /\ TypeOK /\ Process /\ a \in Apps /\ Whole(a) /\ ThreadInv(t) /\ Placed(t) /\ Client(a)
      /\ lrp.state \in {"up", "awake"}
      /\ Live(t) => PlaceOf(Op(t), thread[t].at) /\ thread[t].conn = lrp.epoch
      /\ ~Live(t) => Op(t) = "Gone"
  BY <1>2, LockedFacts
<1>4. Live(t) => Op(t) \in {"Register", "CreateChannel"} /\ thread[t].at = 5
  BY <1>2, <1>3 DEF Placed, PlaceOf, Current
<1>5. /\ raw' = raw /\ toast' = toast /\ listeners' = listeners /\ wpn' = wpn /\ note' = note
      /\ foreground' = foreground /\ issued' = issued /\ clsid' = clsid
      /\ IdOf(a)' = IdOf(a) /\ Known(a)' = Known(a)
  BY <1>1 DEF store, memory, IdOf, Known
<1>6. /\ Early' /\ Cleared' /\ Noticed' /\ lrp' \in ProcessType /\ lrp'.slow = lrp.slow
      /\ lrp'.state = lrp.state /\ lrp'.epoch = lrp.epoch
  BY <1>1, <1>2, <1>3, <1>5, CancelKeeps
<1>7. Advance /\ Local(t)
  BY <1>5, <1>6 DEF Advance, Local
<1>8. /\ Live(t) => Returning(t)
      /\ ~Live(t) => Releasing(t)
      /\ Others(t) /\ thread'[t].inside = "none" /\ thread'[t].op # "Gone"
  BY <1>1, <1>2, LockedReturns
<1>9. ASSUME Live(t)
      PROVE  \A b \in Apps : Whole(b)'
  <2>1. Is(t, "Register", 5) \/ Is(t, "CreateChannel", 5)
    BY <1>4, <1>9 DEF Is
  <2>2. /\ ~AtDrop(t) /\ ~AtDropAll(t) /\ ~Is(t, "Undo", 3)
        /\ ~Is(t, "Register", 4) /\ ~Is(t, "CreateChannel", 4) /\ ~Is(t, "Register", 2)
        /\ ~Is(t, "Undo", 2) /\ ~Is(t, "UnregisterAll", 6) /\ ~Is(t, "UnregisterAll", 3)
        /\ ~AtEnd(t) /\ Returning(t)
    BY <1>8, <1>9, <2>1 DEF Is, AtDrop, AtDropAll, AtEnd
  <2>3. /\ app'[a].mixed = app[a].mixed /\ app'[a].epoch = lrp.epoch
        /\ app'[a].fg <=> app[a].fg
        /\ app'[a].undone <=> app[a].undone
        /\ app'[a].lr <=> app[a].lr \/ Is(t, "Register", 5)
        /\ app'[a].viaChannel <=> app[a].viaChannel
    BY <1>3, <1>9, <2>1, <2>2 DEF Returning
  <2>4. Serving(a)' => Serving(a)
    <3>1. \A u \in Threads : u # t => (Last(u)' <=> Last(u)) /\ (Dropping(u)' <=> Dropping(u))
      BY <1>8 DEF Others, Last, Dropping, Op
    <3>2. ~Last(t)'
      BY <2>1, <2>2 DEF Returning, Moved, Last, Op, Is
    <3>3. Is(t, "Register", 5) => Last(t)
      BY DEF Is, Last
    <3>4. QED
      BY <1>2, <2>3, <3>1, <3>2, <3>3 DEF Serving
  <2>5. KeepsService(t)
    BY <1>5, <2>4 DEF KeepsService
  <2>6. Client(a)'
    <3>1. lrp.epoch \in Nat
      BY <1>3, ThreadFacts
    <3>2. Tidy(a)' /\ Mapped(a)'
      BY <1>3, <1>5, <2>3 DEF Client, Tidy, Mapped
    <3>3. Served(a)'
      BY <1>2, <1>3, <1>4, <1>5, <1>9, <2>4 DEF Client, Served, ThreadInv, Serves, Inside, Running
    <3>4. QED
      BY <1>3, <1>6, <2>3, <3>1, <3>2, <3>3 DEF Client
  <2>7. \A u \in Threads : u # t /\ AppOf[u] = a => Serves(u)'
    BY <1>3, <1>7, <1>8, <2>5, ServiceKept
  <2>8. ~(lrp.state = "starting" /\ thread[t].conn = lrp.epoch)
    BY <1>3
  <2>9. QED
    BY <1>3, <1>5, <1>7, <1>9, <2>2, <2>6, <2>7, <2>8, ReturningWhole
<1>10. ASSUME ~Live(t)
       PROVE  \A b \in Apps : Whole(b)'
  <2>1. Releasing(t) /\ lrp.state # "starting"
    BY <1>3, <1>8, <1>10
  <2>2. QED
    BY <1>5, <1>7, <2>1, ReleasingWhole
<1>11. \A b \in Apps : Whole(b)'
  BY <1>9, <1>10
<1>12. Process'
  <2>1. Locks'
    BY <1>3, <1>6, <1>8, LocksFall DEF Process, Others, Exclusive, Shared
  <2>2. Issued' /\ PlatformStarts'
    BY <1>3, <1>5, <1>6 DEF Process, Issued, PlatformStarts, Loadable
  <2>3. QED
    BY <1>6, <2>1, <2>2 DEF Process
<1>13. QED
  BY <1>1, <1>3, <1>5, <1>6, <1>8, <1>11, <1>12, StoreTypes, StepDone DEF TypeOK

LEMMA UnregisterLongRunningStep ==
  ASSUME IInv, NEW t \in Threads, UnregisterLongRunningActivator(t)
  PROVE  IInv'
<1> DEFINE a == AppOf[t]
           id == IdOf(a)
           step == IF Known(a) THEN "unlisten" ELSE "empty"
<1>1. /\ At(t, "dropLongRunning") /\ Answers(t) /\ SharedFree /\ Enter(t, step, id)
      /\ UNCHANGED <<store, wpn, lrp, memory, app, note>>
  BY DEF UnregisterLongRunningActivator
<1>2. /\ TypeOK /\ Process /\ a \in Apps /\ Whole(a) /\ ThreadInv(t) /\ Placed(t)
      /\ Live(t) /\ ~Locked(t) /\ ~Dropping(t) /\ Current(t) = "dropLongRunning"
      /\ PlaceOf(Op(t), thread[t].at) /\ Op(t) # "none" /\ thread[t].inside = "none"
  BY <1>1, AtFacts
<1>3. Is(t, "UnregisterAll", 6) \/ Is(t, "Undo", 1)
  BY <1>2 DEF PlaceOf, Current, Is
<1>4. step \in Shared /\ step \notin Exclusive
  BY DEF Shared, Exclusive
<1>5. Entering(t, step, id)
  BY <1>1, <1>2, <1>4, EnterFacts, OwnId
<1>6. /\ raw' = raw /\ toast' = toast /\ issued' = issued /\ clsid' = clsid /\ app' = app
      /\ listeners' = listeners /\ foreground' = foreground /\ wpn' = wpn /\ lrp' = lrp
      /\ note' = note /\ IdOf(a)' = IdOf(a) /\ Known(a)' = Known(a) /\ Advance /\ Others(t)
      /\ (Known(a) => id \in Ids) /\ id[1] = a
  BY <1>1, <1>2, <1>5, IdFacts DEF store, memory, IdOf, Known, Advance, Entering
<1>7. thread[t].conn = lrp.epoch /\ lrp.state \in {"up", "awake"}
  BY <1>1, <1>2 DEF Answers, Gone, Proxy
<1>8. Placed(t)'
  BY <1>2, <1>5, <1>6 DEF Placed, Entering, Op, Live, Inside, HasId, Current
<1>9. Alone(t)'
  BY <1>3, <1>5, <1>6 DEF Alone, Entering, Op, Inside, Is
<1>10. KeepsService(t)
  <2>1. \A u \in Threads : (Last(u)' <=> Last(u)) /\ (Dropping(u)' => thread'[u] # thread[u] \/ Dropping(u))
    BY <1>5, <1>6 DEF Others, Entering, Last, Dropping, Op
  <2>2. \A u \in Threads : Dropping(u) => Dropping(u)'
    BY <1>2, <1>6 DEF Others, Dropping
  <2>3. QED
    BY <1>6, <2>1, <2>2 DEF KeepsService, Serving
<1>11. Client(a)'
  BY <1>2, <1>6, <1>10, QuietClient DEF SameMemory
<1>12. \A u \in Threads : AppOf[u] = a => Serves(u)'
  <2>1. Serves(t)'
    BY <1>3, <1>5 DEF Serves, Entering, Op, Is
  <2>2. QED
    BY <1>2, <1>6, <1>10, <2>1, ServiceKept
<1>13. \A b \in Apps : Whole(b)'
  BY <1>2, <1>4, <1>5, <1>6, <1>7, <1>8, <1>9, <1>11, <1>12, EnteringWhole DEF Local
<1>14. Process'
  <2>1. Locks'
    <3>1. thread'[t].inside \notin Exclusive
      BY <1>4, <1>5 DEF Entering
    <3>2. QED
      BY <1>1, <1>2, <1>6, <1>7, <3>1, LocksTaken DEF Process, Others
  <2>2. Early' /\ Cleared' /\ Noticed'
    BY <1>2, <1>6, KeptParts DEF Others
  <2>3. Issued' /\ PlatformStarts'
    BY <1>2, <1>6 DEF Process, Issued, PlatformStarts, Loadable
  <2>4. QED
    BY <2>1, <2>2, <2>3 DEF Process
<1>15. thread'[t].inside \in Exclusive \cup Shared
  BY <1>4, <1>5 DEF Entering
<1>16. QED
  BY <1>1, <1>2, <1>6, <1>13, <1>14, <1>15, StoreTypes, StepDone DEF TypeOK

\* Where a thread goes on to drop its app, the app is not served.
LEMMA DroppingFacts ==
  ASSUME NEW t \in Threads, NEW step \in {"forget", "empty", "setup"}, NEW id, Entering(t, step, id)
  PROVE  ~Serving(AppOf[t])' /\ \A u \in Threads : AppOf[u] = AppOf[t] => Serves(u)'
<1>1. Dropping(t)'
  BY DEF Dropping, Entering
<1>2. ~Serving(AppOf[t])'
  BY <1>1 DEF Serving
<1>3. QED
  BY <1>2 DEF Serves

\* The operations in which a thread drops the app's listener.
LEMMA DropPlaces ==
  ASSUME IInv, NEW t \in Threads, thread[t].inside \in {"unlisten", "erase", "forget", "empty", "setup"}
  PROVE  /\ Locked(t) /\ thread[t].inside # "cancel"
         /\ Live(t) => Is(t, "UnregisterAll", 6) \/ Is(t, "Undo", 1)
         /\ ~Live(t) => Op(t) = "Gone"
         /\ ~(Op(t) = "UnregisterAll" /\ thread[t].at = 7) /\ ~(Op(t) = "Undo" /\ thread[t].at = 3)
         /\ Op(t) # "Gone" => Holder(t)
         /\ Op(t) # "Register" /\ Op(t) # "CreateChannel"
<1>1. Locked(t)
  BY DEF Locked, Shared
<1>2. /\ Placed(t) /\ Live(t) => PlaceOf(Op(t), thread[t].at)
      /\ ~Live(t) => Op(t) = "Gone"
  BY <1>1, LockedFacts
<1>3. Placed(t)
  BY <1>1, LockedFacts
<1>4. Live(t) => Is(t, "UnregisterAll", 6) \/ Is(t, "Undo", 1)
  BY <1>2, <1>3 DEF Placed, PlaceOf, Current, Is
<1>5. QED
  BY <1>1, <1>2, <1>3, <1>4 DEF Live, Is, Holder

LEMMA RemoveListenerStep ==
  ASSUME IInv, NEW t \in Threads, RemoveListener(t)
  PROVE  IInv'
<1> DEFINE a == AppOf[t]
           id == thread[t].id
<1>1. /\ Inside(t, "unlisten") /\ UNCHANGED <<store, lrp, memory, app, note>>
      /\ \/ wpn' = [wpn EXCEPT !.sinks = wpn.sinks \ {id}, !.stray = wpn.stray \ {id}]
         \/ wpn' = [wpn EXCEPT !.stray = wpn.stray \cup (wpn.sinks \cap {id})]
      /\ listeners' = listeners /\ Enter(t, "erase", id)
  BY DEF RemoveListener, memory
<1>2. thread[t].inside = "unlisten" /\ HasId(t)
  BY <1>1 DEF Inside, HasId
<1>3. /\ Locked(t) /\ thread[t].inside # "cancel"
      /\ ~(Op(t) = "UnregisterAll" /\ thread[t].at = 7) /\ ~(Op(t) = "Undo" /\ thread[t].at = 3)
      /\ Live(t) => Is(t, "UnregisterAll", 6) \/ Is(t, "Undo", 1)
  BY <1>2, DropPlaces
<1>4. /\ TypeOK /\ Process /\ a \in Apps /\ Whole(a) /\ ThreadInv(t) /\ Placed(t) /\ Client(a)
      /\ lrp.state \in {"up", "awake"} /\ id \in Ids /\ id[1] = a /\ Op(t) # "none"
      /\ id \in (Apps \X (0 .. MaxIds)) \cup {None}
      /\ Live(t) => thread[t].conn = lrp.epoch
      /\ \A u \in Threads : u # t => thread[u].inside \notin Exclusive
  BY <1>2, <1>3, LockedFacts
<1>5. Entering(t, "erase", id)
  BY <1>1, <1>4, EnterFacts DEF Shared
<1>6. /\ raw' = raw /\ toast' = toast /\ issued' = issued /\ clsid' = clsid /\ app' = app
      /\ foreground' = foreground /\ lrp' = lrp
      /\ note' = note /\ IdOf(a)' = IdOf(a) /\ Known(a)' = Known(a) /\ Advance /\ Others(t)
  BY <1>1, <1>5 DEF store, memory, IdOf, Known, Advance, Entering
<1>7. /\ wpn' \in [trusted : SUBSET Ids, channels : SUBSET Ids, sinks : SUBSET Ids, stray : SUBSET Ids]
      /\ wpn'.sinks \subseteq wpn.sinks /\ wpn'.channels = wpn.channels /\ wpn'.trusted = wpn.trusted
      /\ listeners' \subseteq Ids
  <2>1. /\ wpn \in [trusted : SUBSET Ids, channels : SUBSET Ids, sinks : SUBSET Ids, stray : SUBSET Ids]
        /\ listeners' \subseteq Ids
    BY <1>1, <1>4 DEF TypeOK
  <2>2. CASE wpn' = [wpn EXCEPT !.sinks = wpn.sinks \ {id}, !.stray = wpn.stray \ {id}]
    BY <2>1, <2>2
  <2>3. CASE wpn' = [wpn EXCEPT !.stray = wpn.stray \cup (wpn.sinks \cap {id})]
    BY <2>1, <2>3
  <2>4. QED
    BY <1>1, <2>1, <2>2, <2>3
<1>8. Placed(t)'
  BY <1>2, <1>4, <1>5 DEF Placed, Entering, Op, Live, Inside, HasId, Current
<1>9. Alone(t)'
  <2>1. ~app[a].mixed => id = IdOf(a)
    BY <1>2, <1>4 DEF ThreadInv, Alone
  <2>2. QED
    BY <1>1, <1>3, <1>5, <1>6, <2>1 DEF Alone, Entering, Op, Inside
<1>10. KeepsService(t)
  <2>1. \A u \in Threads : (Last(u)' <=> Last(u)) /\ (Dropping(u)' <=> Dropping(u))
    BY <1>2, <1>5, <1>6 DEF Others, Entering, Last, Dropping, Op
  <2>2. QED
    BY <1>1, <1>6, <2>1 DEF KeepsService, Serving
<1>11. Client(a)' /\ \A u \in Threads : AppOf[u] = a => Serves(u)'
  <2>1. SameMemory(a)
    BY <1>1, <1>6 DEF SameMemory
  <2>2. Client(a)'
    BY <1>4, <1>6, <1>10, <2>1, QuietClient
  <2>3. \A u \in Threads : u # t /\ AppOf[u] = a => Serves(u)'
    BY <1>4, <1>6, <1>10, ServiceKept
  <2>4. Serves(t)'
    BY <1>3, <1>5 DEF Serves, Entering, Op, Live, Is
  <2>5. QED
    BY <2>2, <2>3, <2>4
<1>12. Local(t)
  BY <1>1, <1>4, <1>6 DEF Local
<1>13. \A b \in Apps : Whole(b)'
  BY <1>4, <1>5, <1>6, <1>8, <1>9, <1>11, <1>12, EnteringWhole
<1>14. Process'
  <2>1. Locks'
    <3>1. thread'[t].inside \notin Exclusive /\ thread[t].inside \in Shared
      BY <1>2, <1>5 DEF Entering, Exclusive, Shared
    <3>2. QED
      BY <1>4, <1>6, <3>1, LocksFall DEF Process, Others
  <2>2. Early'
    <3>1. \A u \in Threads : thread[u].inside = "cancel" => thread'[u].inside = "cancel"
      BY <1>3, <1>6 DEF Others
    <3>2. QED
      BY <1>1, <1>4, <1>6, <3>1 DEF Process, Early
  <2>3. Cleared' /\ Noticed'
    BY <1>1, <1>4, <1>6, <1>7 DEF Process, Cleared, Noticed
  <2>4. Issued' /\ PlatformStarts'
    BY <1>4, <1>6, <1>7 DEF Process, Issued, PlatformStarts, Loadable
  <2>5. QED
    BY <2>1, <2>2, <2>3, <2>4 DEF Process
<1>15. thread'[t].inside \in Exclusive \cup Shared
  BY <1>5 DEF Entering, Shared
<1>16. QED
  BY <1>1, <1>4, <1>6, <1>7, <1>13, <1>14, <1>15, StoreTypes, StepDone DEF TypeOK

LEMMA EraseListenerStep ==
  ASSUME IInv, NEW t \in Threads, EraseListener(t)
  PROVE  IInv'
<1> DEFINE a == AppOf[t]
           id == thread[t].id
<1>1. /\ Inside(t, "erase") /\ UNCHANGED <<store, wpn, lrp, foreground, app, note>>
      /\ wpn' = wpn /\ listeners' = listeners \ {id}
      /\ Enter(t, "forget", id)
  BY DEF EraseListener
<1>2. thread[t].inside = "erase" /\ HasId(t)
  BY <1>1 DEF Inside, HasId
<1>3. /\ Locked(t) /\ thread[t].inside # "cancel"
      /\ ~(Op(t) = "UnregisterAll" /\ thread[t].at = 7) /\ ~(Op(t) = "Undo" /\ thread[t].at = 3)
      /\ Live(t) => Is(t, "UnregisterAll", 6) \/ Is(t, "Undo", 1)
  BY <1>2, DropPlaces
<1>4. /\ TypeOK /\ Process /\ a \in Apps /\ Whole(a) /\ ThreadInv(t) /\ Placed(t) /\ Client(a)
      /\ lrp.state \in {"up", "awake"} /\ id \in Ids /\ id[1] = a /\ Op(t) # "none"
      /\ id \in (Apps \X (0 .. MaxIds)) \cup {None}
      /\ Live(t) => thread[t].conn = lrp.epoch
      /\ \A u \in Threads : u # t => thread[u].inside \notin Exclusive
  BY <1>2, <1>3, LockedFacts
<1>5. Entering(t, "forget", id)
  BY <1>1, <1>4, EnterFacts DEF Shared
<1>6. /\ raw' = raw /\ toast' = toast /\ issued' = issued /\ clsid' = clsid /\ app' = app
      /\ foreground' = foreground /\ lrp' = lrp
      /\ note' = note /\ IdOf(a)' = IdOf(a) /\ Known(a)' = Known(a) /\ Advance /\ Others(t)
  BY <1>1, <1>5 DEF store, IdOf, Known, Advance, Entering
<1>7. /\ wpn' \in [trusted : SUBSET Ids, channels : SUBSET Ids, sinks : SUBSET Ids, stray : SUBSET Ids]
      /\ wpn'.sinks = wpn.sinks /\ wpn'.channels = wpn.channels /\ wpn'.trusted = wpn.trusted
      /\ listeners' \subseteq Ids
  BY <1>1, <1>4 DEF TypeOK
<1>8. Placed(t)'
  BY <1>2, <1>4, <1>5 DEF Placed, Entering, Op, Live, Inside, HasId, Current
<1>9. Alone(t)'
  <2>1. ~app[a].mixed => id = IdOf(a)
    BY <1>2, <1>4 DEF ThreadInv, Alone
  <2>2. QED
    BY <1>1, <1>3, <1>5, <1>6, <2>1 DEF Alone, Entering, Op, Inside
<1>10. ~Serving(a)' /\ \A u \in Threads : AppOf[u] = a => Serves(u)'
  BY <1>5, DroppingFacts
<1>11. Client(a)'
  BY <1>1, <1>4, <1>6, <1>10 DEF Client, Tidy, Mapped, Served
<1>12. Local(t)
  BY <1>1, <1>4, <1>6 DEF Local
<1>13. \A b \in Apps : Whole(b)'
  BY <1>4, <1>5, <1>6, <1>8, <1>9, <1>10, <1>11, <1>12, EnteringWhole
<1>14. Process'
  <2>1. Locks'
    <3>1. thread'[t].inside \notin Exclusive /\ thread[t].inside \in Shared
      BY <1>2, <1>5 DEF Entering, Exclusive, Shared
    <3>2. QED
      BY <1>4, <1>6, <3>1, LocksFall DEF Process, Others
  <2>2. Early'
    <3>1. \A u \in Threads : thread[u].inside = "cancel" => thread'[u].inside = "cancel"
      BY <1>3, <1>6 DEF Others
    <3>2. QED
      BY <1>1, <1>4, <1>6, <3>1 DEF Process, Early
  <2>3. Cleared' /\ Noticed'
    BY <1>1, <1>4, <1>6, <1>7 DEF Process, Cleared, Noticed
  <2>4. Issued' /\ PlatformStarts'
    BY <1>4, <1>6, <1>7 DEF Process, Issued, PlatformStarts, Loadable
  <2>5. QED
    BY <2>1, <2>2, <2>3, <2>4 DEF Process
<1>15. thread'[t].inside \in Exclusive \cup Shared
  BY <1>5 DEF Entering, Shared
<1>16. QED
  BY <1>1, <1>4, <1>6, <1>7, <1>13, <1>14, <1>15, StoreTypes, StepDone DEF TypeOK

LEMMA ForgetStep ==
  ASSUME IInv, NEW t \in Threads, Forget(t)
  PROVE  IInv'
<1> DEFINE a == AppOf[t]
           id == thread[t].id
           n == IF raw[a] = id[2] THEN 0 ELSE raw[a]
<1>1. /\ Inside(t, "forget") /\ SinksFree /\ Enter(t, "empty", id)
      /\ UNCHANGED <<issued, wpn, lrp, listeners, app, note>>
      /\ clsid' = clsid \ {id}
  BY DEF Forget
<1>2. thread[t].inside = "forget" /\ HasId(t)
  BY <1>1 DEF Inside, HasId
<1>3. /\ Locked(t) /\ thread[t].inside # "cancel"
      /\ ~(Op(t) = "UnregisterAll" /\ thread[t].at = 7) /\ ~(Op(t) = "Undo" /\ thread[t].at = 3)
      /\ Live(t) => Is(t, "UnregisterAll", 6) \/ Is(t, "Undo", 1)
      /\ Op(t) # "Gone" => Holder(t)
      /\ Op(t) # "Register"
  BY <1>2, DropPlaces
<1>4. /\ TypeOK /\ Process /\ a \in Apps /\ Whole(a) /\ ThreadInv(t) /\ Placed(t) /\ Client(a)
      /\ lrp.state \in {"up", "awake"} /\ id \in Ids /\ id[1] = a /\ Op(t) # "none"
      /\ id \in (Apps \X (0 .. MaxIds)) \cup {None}
      /\ Live(t) => thread[t].conn = lrp.epoch
      /\ \A u \in Threads : u # t => thread[u].inside \notin Exclusive
  BY <1>2, <1>3, LockedFacts
<1>5. /\ foreground' = [foreground EXCEPT ![id] = "none"]
      /\ raw' = [raw EXCEPT ![a] = n]
      /\ toast' = toast \ {a}
  BY <1>4 DEF Forget
<1>6. Entering(t, "empty", id)
  BY <1>1, <1>4, EnterFacts DEF Shared
<1>7. /\ issued' = issued /\ app' = app /\ listeners' = listeners /\ wpn' = wpn /\ lrp' = lrp
      /\ note' = note /\ Advance /\ Others(t)
  BY <1>1, <1>6 DEF Advance, Entering
<1>8. /\ raw \in [Apps -> 0 .. MaxIds] /\ raw' \in [Apps -> 0 .. MaxIds] /\ n \in 0 .. MaxIds /\ n <= raw[a]
      /\ raw'[a] = n /\ \A b \in Apps : b # a => raw'[b] = raw[b]
  <2>1. raw \in [Apps -> 0 .. MaxIds] /\ MaxIds \in Nat
    BY <1>4, ShapeAssumption DEF TypeOK
  <2>2. n \in 0 .. MaxIds /\ n <= raw[a]
    BY <1>4, <2>1
  <2> HIDE DEF n
  <2>3. QED
    BY <1>4, <1>5, <2>1, <2>2
<1>9. /\ foreground' \in [Ids -> Entries]
      /\ \A i \in Ids : foreground'[i] = IF i = id THEN "none" ELSE foreground[i]
  BY <1>4, <1>5 DEF TypeOK, Entries
<1>10. ~app[a].mixed =>
         /\ id = IdOf(a) /\ ~Known(a)'
         /\ \A i \in Ids : i[1] = a => foreground'[i] = "none"
         /\ ~app[a].undone => \A i \in Ids : i[1] = a => i \notin listeners
  <2>1. ~app[a].mixed => id = IdOf(a) /\ (~app[a].undone => id \notin listeners)
    BY <1>2, <1>4 DEF ThreadInv, Alone, Inside
  <2>2. ~app[a].mixed => ~Known(a)'
    BY <1>4, <1>8, <2>1, IdFacts DEF Known
  <2>3. QED
    BY <1>4, <1>9, <2>1, <2>2 DEF Client, Tidy
<1>11. Placed(t)'
  BY <1>2, <1>4, <1>6 DEF Placed, Entering, Op, Live, Inside, HasId, Current
<1>12. Alone(t)'
  BY <1>3, <1>6, <1>7, <1>10 DEF Alone, Entering, Op, Inside
<1>13. ~Serving(a)' /\ \A u \in Threads : AppOf[u] = a => Serves(u)'
  BY <1>6, DroppingFacts
<1>14. Client(a)'
  <2>1. Tidy(a)'
    BY <1>7, <1>10 DEF Tidy
  <2>2. Mapped(a)'
    BY <1>5 DEF Mapped
  <2>3. QED
    BY <1>4, <1>7, <1>13, <2>1, <2>2 DEF Client, Served
<1>15. Local(t)
  BY <1>4, <1>5, <1>7, <1>8, <1>9 DEF Local
<1>16. \A u \in Threads : u # t => ~Inside(u, "add") /\ ~Inside(u, "remove")
  BY <1>4 DEF Inside, Exclusive
<1>17. \A b \in Apps : Whole(b)'
  <2>1. Known(a) => Known(a)' \/ (Holder(t) /\ Op(t) # "Register") \/ Op(t) = "Gone"
    BY <1>3
  <2>2. QED
    BY <1>4, <1>6, <1>7, <1>11, <1>12, <1>13, <1>14, <1>15, <1>16, <2>1, EnteringWhole
<1>18. Process'
  <2>1. Locks'
    <3>1. thread'[t].inside \notin Exclusive /\ thread[t].inside \in Shared
      BY <1>2, <1>6 DEF Entering, Exclusive, Shared
    <3>2. QED
      BY <1>4, <1>7, <3>1, LocksFall DEF Process, Others
  <2>2. Early' /\ Cleared' /\ Noticed'
    BY <1>1, <1>3, <1>4, <1>7, KeptParts DEF Others
  <2>3. Issued'
    BY <1>4, <1>7 DEF Process, Issued
  <2>4. PlatformStarts'
    <3>1. ASSUME NEW i \in wpn.channels, raw'[i[1]] = i[2]
          PROVE  i \in clsid' \cup lrp'.slow
      <4>1. i \in Ids /\ i[1] \in Apps /\ i[2] \in 1 .. MaxIds
        BY <1>4, <3>1, IdFacts DEF TypeOK
      <4>2. raw[i[1]] = i[2] /\ i # id
        BY <1>4, <1>8, <3>1, <4>1
      <4>3. i \in clsid \cup lrp.slow
        BY <1>4, <3>1, <4>2 DEF Process, PlatformStarts, Loadable
      <4>4. QED
        BY <1>1, <1>7, <4>2, <4>3
    <3>2. QED
      BY <1>7, <3>1 DEF PlatformStarts, Loadable
  <2>5. QED
    BY <2>1, <2>2, <2>3, <2>4 DEF Process
<1>19. /\ issued' \in [Apps -> 0 .. MaxIds] /\ clsid' \subseteq Ids /\ toast' \subseteq Apps
       /\ wpn' \in [trusted : SUBSET Ids, channels : SUBSET Ids, sinks : SUBSET Ids, stray : SUBSET Ids]
       /\ lrp' \in ProcessType /\ listeners' \subseteq Ids
  BY <1>1, <1>4, <1>5, <1>7 DEF TypeOK
<1>20. \A b \in Apps : raw'[b] <= issued'[b]
  <2>1. \A b \in Apps : raw[b] <= issued[b] /\ raw[b] \in Nat /\ issued[b] \in Nat
    BY <1>4, ShapeAssumption DEF TypeOK
  <2>2. n \in Nat
    BY <1>8
  <2> HIDE DEF n
  <2>3. QED
    BY <1>4, <1>7, <1>8, <2>1, <2>2
<1>21. thread'[t].inside \in Exclusive \cup Shared
  BY <1>6 DEF Entering, Shared
<1>22. QED
  BY <1>7, <1>8, <1>9, <1>17, <1>18, <1>19, <1>20, <1>21, StepDone

\* The call that dropped the app's listener returns.
LEMMA DropReturns ==
  ASSUME IInv, NEW t \in Threads, thread[t].inside \in {"empty", "setup"}, Returned(t),
         UNCHANGED <<raw, toast, listeners, foreground>>,
         lrp'.state = lrp.state, lrp'.epoch = lrp.epoch
  PROVE  /\ Others(t) /\ thread'[t].inside = "none" /\ thread'[t].op # "Gone"
         /\ \A b \in Apps : Whole(b)'
<1> DEFINE a == AppOf[t]
<1>1. /\ Locked(t) /\ thread[t].inside # "cancel"
      /\ Live(t) => Is(t, "UnregisterAll", 6) \/ Is(t, "Undo", 1)
  BY DropPlaces
<1>2. /\ TypeOK /\ Process /\ a \in Apps /\ Whole(a) /\ ThreadInv(t) /\ Placed(t) /\ Client(a)
      /\ lrp.state \in {"up", "awake"}
  BY <1>1, LockedFacts
<1>3. /\ Live(t) => Returning(t)
      /\ ~Live(t) => Releasing(t)
      /\ Others(t) /\ thread'[t].inside = "none" /\ thread'[t].op # "Gone"
  BY <1>1, LockedReturns
<1>4. Advance /\ Local(t) /\ Known(a)' = Known(a) /\ IdOf(a)' = IdOf(a)
  BY DEF Advance, Local, Known, IdOf
<1>5. ASSUME Live(t)
      PROVE  \A b \in Apps : Whole(b)'
  <2>1. /\ AtDropAll(t) /\ Holder(t) /\ Op(t) # "Register" /\ ~AtEnd(t) /\ Returning(t)
        /\ ~Is(t, "Register", 4) /\ ~Is(t, "CreateChannel", 4) /\ ~Is(t, "Register", 5)
        /\ ~Is(t, "CreateChannel", 5) /\ ~Is(t, "Register", 2) /\ ~Is(t, "Undo", 3)
        /\ ~Is(t, "UnregisterAll", 3) /\ ~Is(t, "Undo", 2) /\ ~AtDrop(t)
    BY <1>1, <1>3, <1>5 DEF AtDropAll, Holder, Is, AtDrop, AtEnd
  <2>2. /\ app'[a].mixed = app[a].mixed /\ app'[a].epoch = app[a].epoch /\ ~app'[a].lr
        /\ app'[a].undone <=> app[a].undone
    BY <2>1 DEF Returning
  <2>3. ~Serving(a)'
    <3>1. \A u \in Threads : u # t /\ AppOf[u] = a => ~Last(u)
      BY <1>2, <2>1 DEF Whole, Apart, Last, Holder
    <3>2. \A u \in Threads : u # t => (Last(u)' <=> Last(u))
      BY <1>3 DEF Others, Last, Op
    <3>3. ~Last(t)'
      BY <2>1 DEF Returning, Last, Op, Moved
    <3>4. QED
      BY <2>2, <3>1, <3>2, <3>3 DEF Serving
  <2>4. ~app[a].mixed => ~Known(a) /\ \A i \in Ids : i[1] = a => foreground[i] = "none"
    <3>1. ~app[a].mixed => ~Known(a)
      BY <1>2 DEF ThreadInv, Alone, Inside
    <3>2. QED
      BY <1>2, <3>1, IdFacts DEF Client, Tidy
  <2>5. Client(a)'
    <3>1. Tidy(a)' /\ Mapped(a)'
      BY <1>2, <1>4, <2>2, <2>4 DEF Client, Tidy, Mapped
    <3>2. QED
      BY <1>2, <2>2, <2>3, <3>1 DEF Client, Served
  <2>6. \A u \in Threads : u # t /\ AppOf[u] = a => Serves(u)'
    BY <2>3 DEF Serves
  <2>7. ~(lrp.state = "starting" /\ thread[t].conn = lrp.epoch)
    BY <1>2
  <2>8. QED
    BY <1>2, <1>4, <1>5, <2>1, <2>4, <2>5, <2>6, <2>7, ReturningWhole
<1>6. ASSUME ~Live(t)
      PROVE  \A b \in Apps : Whole(b)'
  <2>1. Releasing(t) /\ lrp.state # "starting"
    BY <1>2, <1>3, <1>6
  <2>2. QED
    BY <1>4, <2>1, ReleasingWhole
<1>7. QED
  BY <1>3, <1>5, <1>6

LEMMA IsEmptyStep ==
  ASSUME IInv, NEW t \in Threads, IsEmpty(t)
  PROVE  IInv'
<1> DEFINE a == AppOf[t]
           id == thread[t].id
<1>1. Inside(t, "empty") /\ UNCHANGED <<store, wpn, lrp, memory, note>>
  BY DEF IsEmpty
<1>2. thread[t].inside = "empty"
  BY <1>1 DEF Inside
<1>3. /\ Locked(t) /\ thread[t].inside # "cancel"
      /\ ~(Op(t) = "UnregisterAll" /\ thread[t].at = 7) /\ ~(Op(t) = "Undo" /\ thread[t].at = 3)
      /\ Live(t) => Is(t, "UnregisterAll", 6) \/ Is(t, "Undo", 1)
  BY <1>2, DropPlaces
<1>4. /\ TypeOK /\ Process /\ a \in Apps /\ Whole(a) /\ ThreadInv(t) /\ Placed(t) /\ Client(a)
      /\ lrp.state \in {"up", "awake"} /\ Op(t) # "none"
      /\ id \in (Apps \X (0 .. MaxIds)) \cup {None}
      /\ Live(t) => thread[t].conn = lrp.epoch
      /\ \A u \in Threads : u # t => thread[u].inside \notin Exclusive
  BY <1>3, LockedFacts
<1>5. /\ raw' = raw /\ toast' = toast /\ issued' = issued /\ clsid' = clsid /\ wpn' = wpn
      /\ listeners' = listeners /\ foreground' = foreground /\ lrp' = lrp
      /\ note' = note /\ IdOf(a)' = IdOf(a) /\ Known(a)' = Known(a) /\ Advance
  BY <1>1 DEF store, memory, IdOf, Known, Advance
<1>6. CASE Returned(t)
  <2>1. Others(t) /\ thread'[t].inside = "none" /\ thread'[t].op # "Gone" /\ \A b \in Apps : Whole(b)'
    BY <1>2, <1>5, <1>6, DropReturns
  <2>2. Locks'
    BY <1>4, <1>5, <2>1, LocksFall DEF Process, Others, Exclusive, Shared
  <2>3. Process'
    <3>1. Early' /\ Cleared' /\ Noticed'
      BY <1>3, <1>4, <1>5, <2>1, KeptParts DEF Others
    <3>2. Issued' /\ PlatformStarts'
      BY <1>4, <1>5 DEF Process, Issued, PlatformStarts, Loadable
    <3>3. QED
      BY <2>2, <3>1, <3>2 DEF Process
  <2>4. QED
    BY <1>1, <1>4, <1>5, <2>1, <2>3, StoreTypes, StepDone DEF TypeOK
<1>7. CASE Enter(t, "setup", id) /\ app' = app
  <2>1. Entering(t, "setup", id)
    BY <1>4, <1>7, EnterFacts DEF Shared
  <2>2. Others(t)
    BY <2>1 DEF Entering
  <2>3. Placed(t)'
    BY <1>2, <1>4, <2>1 DEF Placed, Entering, Op, Live, Inside, HasId, Current
  <2>4. Alone(t)'
    <3>1. ~app[a].mixed => ~Known(a)
      BY <1>1, <1>4 DEF ThreadInv, Alone
    <3>2. QED
      BY <1>3, <1>5, <1>7, <2>1, <3>1 DEF Alone, Entering, Op, Inside
  <2>5. ~Serving(a)' /\ \A u \in Threads : AppOf[u] = a => Serves(u)'
    BY <2>1, DroppingFacts
  <2>6. Client(a)'
    BY <1>4, <1>5, <1>7, <2>5 DEF Client, Tidy, Mapped, Served
  <2>7. Local(t)
    BY <1>5 DEF Local
  <2>8. \A b \in Apps : Whole(b)'
    BY <1>4, <1>5, <2>1, <2>3, <2>4, <2>5, <2>6, <2>7, EnteringWhole
  <2>9. Process'
    <3>1. Locks'
      <4>1. thread'[t].inside \notin Exclusive /\ thread[t].inside \in Shared
        BY <1>2, <2>1 DEF Entering, Exclusive, Shared
      <4>2. QED
        BY <1>4, <1>5, <2>2, <4>1, LocksFall DEF Process, Others
    <3>2. Early' /\ Cleared' /\ Noticed'
      BY <1>3, <1>4, <1>5, <2>2, KeptParts DEF Others
    <3>3. Issued' /\ PlatformStarts'
      BY <1>4, <1>5 DEF Process, Issued, PlatformStarts, Loadable
    <3>4. QED
      BY <3>1, <3>2, <3>3 DEF Process
  <2>10. thread'[t].inside \in Exclusive \cup Shared
    BY <2>1 DEF Entering, Shared
  <2>11. QED
    BY <1>1, <1>4, <1>5, <2>2, <2>8, <2>9, <2>10, StoreTypes, StepDone DEF TypeOK
<1>8. QED
  BY <1>6, <1>7 DEF IsEmpty

LEMMA SetupTimerStep ==
  ASSUME IInv, NEW t \in Threads, SetupTimer(t)
  PROVE  IInv'
<1>1. Inside(t, "setup") /\ lrp' = Setup /\ Returned(t) /\ UNCHANGED <<store, wpn, memory, note>>
  BY DEF SetupTimer
<1>2. thread[t].inside = "setup" /\ Locked(t)
  BY <1>1 DEF Inside, Locked, Shared
<1>3. TypeOK /\ Process /\ lrp.state \in {"up", "awake"}
  BY <1>2, LockedFacts
<1>4. /\ raw' = raw /\ toast' = toast /\ issued' = issued /\ clsid' = clsid /\ wpn' = wpn
      /\ listeners' = listeners /\ foreground' = foreground /\ note' = note
  BY <1>1 DEF store, memory
<1>5. /\ lrp' \in ProcessType /\ lrp'.state = lrp.state /\ lrp'.epoch = lrp.epoch
      /\ lrp'.slow = lrp.slow /\ (listeners # {} => lrp'.late)
  BY <1>1, <1>3, ProcessFacts
<1>6. Others(t) /\ thread'[t].inside = "none" /\ thread'[t].op # "Gone" /\ \A b \in Apps : Whole(b)'
  BY <1>1, <1>2, <1>4, <1>5, DropReturns
<1>7. Process'
  <2>1. Locks'
    BY <1>3, <1>5, <1>6, LocksFall DEF Process, Others, Exclusive, Shared
  <2>2. Early'
    BY <1>4, <1>5 DEF Early
  <2>3. Cleared' /\ Noticed'
    BY <1>3, <1>4, <1>5 DEF Process, Cleared, Noticed
  <2>4. Issued' /\ PlatformStarts'
    BY <1>3, <1>4, <1>5 DEF Process, Issued, PlatformStarts, Loadable
  <2>5. QED
    BY <2>1, <2>2, <2>3, <2>4 DEF Process
<1>8. QED
  BY <1>1, <1>3, <1>4, <1>5, <1>6, <1>7, StoreTypes, StepDone DEF TypeOK

LEMMA CreateChannelStep ==
  ASSUME IInv, NEW t \in Threads, CreateChannelWithRemoteId(t)
  PROVE  IInv'
<1> DEFINE id == thread[t].appId
           slow == IF id \in clsid THEN lrp.slow ELSE lrp.slow \cup {id}
<1>1. At(t, "channel") /\ UNCHANGED <<store, listeners, note>>
  BY DEF CreateChannelWithRemoteId
<1>2. /\ TypeOK /\ Process /\ Live(t) /\ ~Locked(t) /\ Current(t) = "channel" /\ thread[t].inside = "none"
      /\ PlaceOf(Op(t), thread[t].at) /\ ~(lrp.state = "starting" /\ thread[t].conn = lrp.epoch)
  BY <1>1, AtFacts
<1>3. Op(t) = "CreateChannel" /\ ~Is(t, "UnregisterAll", 3)
  BY <1>2 DEF Current, PlaceOf, Is
<1>4. CASE /\ id \in wpn.trusted /\ wpn' = [wpn EXCEPT !.channels = wpn.channels \cup {id}]
           /\ lrp' = [lrp EXCEPT !.slow = slow]
           /\ Returned(t) /\ UNCHANGED foreground
  <2>1. /\ wpn' \in [trusted : SUBSET Ids, channels : SUBSET Ids, sinks : SUBSET Ids, stray : SUBSET Ids]
        /\ wpn'.sinks = wpn.sinks /\ wpn'.trusted = wpn.trusted /\ wpn'.channels = wpn.channels \cup {id}
        /\ id \in Ids
    BY <1>2, <1>4 DEF TypeOK
  <2>2. lrp \in ProcessType /\ lrp.slow \subseteq Ids /\ slow \subseteq Ids
    BY <1>2, <2>1, ProcessFacts
  <2>3. /\ lrp' \in ProcessType /\ lrp'.state = lrp.state /\ lrp'.epoch = lrp.epoch
        /\ lrp'.timer = lrp.timer /\ lrp'.event = lrp.event /\ lrp'.late = lrp.late
        /\ lrp'.slow = slow
    <3> HIDE DEF slow
    <3>1. QED
      BY <1>4, <2>2 DEF ProcessType
  <2>4. /\ Others(t) /\ thread'[t].inside = "none" /\ thread'[t].op # "Gone"
        /\ \A b \in Apps : Whole(b)'
    BY <1>1, <1>4, <2>3, ReturnedWhole
  <2>5. raw' = raw /\ clsid' = clsid /\ issued' = issued
    BY <1>1 DEF store
  <2>6. Process'
    <3>1. Locks'
      BY <1>2, <2>3, <2>4, LocksFall DEF Process, Others, Exclusive, Shared
    <3>2. Early' /\ Cleared' /\ Noticed'
      BY <1>1, <1>2, <1>4, <2>1, <2>3, <2>4, KeptParts DEF Others
    <3>3. Issued'
      BY <1>2, <1>4, <2>1, <2>5 DEF Process, Issued
    <3>4. PlatformStarts'
      BY <1>2, <2>1, <2>3, <2>5 DEF Process, PlatformStarts, Loadable
    <3>5. QED
      BY <3>1, <3>2, <3>3, <3>4 DEF Process
  <2>7. QED
    BY <1>1, <1>2, <1>4, <2>1, <2>3, <2>4, <2>6, StoreTypes, StepDone DEF TypeOK
<1>5. ASSUME NEW r \in BOOLEAN, Failed(t, r), UNCHANGED <<wpn, lrp>>
      PROVE  IInv'
  BY <1>1, <1>2, <1>3, <1>5, FailedStep DEF TypeOK
<1>6. QED
  BY <1>4, <1>5 DEF CreateChannelWithRemoteId

LEMMA RegisterFullTrustStep ==
  ASSUME IInv, NEW t \in Threads, RegisterFullTrustApplication(t)
  PROVE  IInv'
<1> DEFINE a == AppOf[t]
           n == BuildAppIdentifier(a)
           top == IF n > issued[a] THEN n ELSE issued[a]
<1>1. /\ At(t, "fullTrust") /\ PlatformFree /\ n <= MaxIds
      /\ raw' = [raw EXCEPT ![a] = n] /\ issued' = [issued EXCEPT ![a] = top]
      /\ UNCHANGED <<clsid, toast, lrp, listeners, note>>
  BY DEF RegisterFullTrustApplication
<1>2. /\ TypeOK /\ Process /\ a \in Apps /\ Whole(a) /\ ThreadInv(t) /\ Placed(t) /\ Client(a)
      /\ Live(t) /\ ~Locked(t) /\ ~Dropping(t) /\ Current(t) = "fullTrust" /\ thread[t].inside = "none"
      /\ PlaceOf(Op(t), thread[t].at) /\ ~(lrp.state = "starting" /\ thread[t].conn = lrp.epoch)
  BY <1>1, AtFacts DEF Whole
<1>3. Op(t) \in {"Register", "CreateChannel"} /\ thread[t].at = 2
  BY <1>2 DEF Current, PlaceOf
<1>4. /\ raw \in [Apps -> 0 .. MaxIds] /\ issued \in [Apps -> 0 .. MaxIds] /\ MaxIds \in Nat
      /\ raw[a] \in Nat /\ issued[a] \in Nat /\ raw[a] <= issued[a]
      /\ \A b \in Apps : raw[b] <= issued[b]
  BY <1>2, ShapeAssumption DEF TypeOK
<1>5. /\ n \in 1 .. MaxIds /\ top \in 0 .. MaxIds /\ n <= top /\ issued[a] <= top /\ top \in Nat
      /\ (Known(a) => n = raw[a])
      /\ (~Known(a) => n = issued[a] + 1)
  <2>1. CASE Known(a)
    BY <1>1, <1>2, <1>4, <2>1 DEF BuildAppIdentifier, Known
  <2>2. CASE ~Known(a)
    BY <1>1, <1>2, <1>4, <2>2 DEF BuildAppIdentifier
  <2>3. QED
    BY <2>1, <2>2
<1>6. /\ raw' \in [Apps -> 0 .. MaxIds] /\ issued' \in [Apps -> 0 .. MaxIds]
      /\ raw'[a] = n /\ issued'[a] = top
      /\ \A b \in Apps : b # a => raw'[b] = raw[b] /\ issued'[b] = issued[b]
  <2>1. n \in 0 .. MaxIds /\ top \in 0 .. MaxIds
    BY <1>4, <1>5
  <2> HIDE DEF n, top
  <2>2. QED
    BY <1>1, <1>2, <1>4, <2>1
<1>7. \A b \in Apps : raw'[b] <= issued'[b]
  <2> HIDE DEF n, top
  <2>1. QED
    BY <1>4, <1>5, <1>6
<1>8. Known(a)' /\ (Known(a) => raw' = raw) /\ <<a, n>> \in Ids
  <2>1. Known(a)'
    BY <1>5, <1>6 DEF Known
  <2>2. Known(a) => raw' = raw
    BY <1>1, <1>4, <1>5
  <2>3. <<a, n>> \in Ids
    BY <1>2, <1>5 DEF Ids
  <2>4. QED
    BY <2>1, <2>2, <2>3
<1>9. /\ clsid' = clsid /\ toast' = toast /\ lrp' = lrp /\ listeners' = listeners /\ note' = note
      /\ Advance /\ (Known(a) => IdOf(a)' = IdOf(a))
  BY <1>1, <1>8 DEF Advance, IdOf
<1>10. \A u \in Threads : ~Inside(u, "add") /\ ~Inside(u, "remove")
  BY <1>1 DEF PlatformFree, Inside, Exclusive
<1>11. ASSUME ReturnedWith(t, <<a, n>>), UNCHANGED foreground
       PROVE  Others(t) /\ thread'[t].inside = "none" /\ thread'[t].op # "Gone" /\ \A b \in Apps : Whole(b)'
  <2>1. Returning(t)
    BY <1>2, <1>8, <1>11, ReturnFacts
  <2>2. Others(t) /\ Local(t) /\ foreground' = foreground
    BY <1>6, <1>9, <1>11, <2>1 DEF Returning, Local
  <2>3. /\ ~AtEnd(t) /\ ~AtDrop(t) /\ ~AtDropAll(t) /\ ~Is(t, "Register", 4) /\ ~Is(t, "Register", 5)
        /\ ~Is(t, "CreateChannel", 4) /\ ~Is(t, "CreateChannel", 5) /\ ~Is(t, "UnregisterAll", 3)
        /\ ~Is(t, "UnregisterAll", 6) /\ ~Is(t, "Undo", 2) /\ ~Is(t, "Undo", 3)
    BY <1>3 DEF AtEnd, AtDrop, AtDropAll, Is
  <2>4. SameClient(a)
    <3>1. app'[a] \in AppType /\ app[a] \in AppType
      BY <1>2, <2>2 DEF Others, TypeOK
    <3>2. (app'[a].fg <=> app[a].fg) /\ (app'[a].lr <=> app[a].lr)
          /\ (app'[a].viaChannel <=> app[a].viaChannel) /\ (app'[a].undone <=> app[a].undone)
          /\ app'[a].epoch = app[a].epoch /\ app'[a].mixed = app[a].mixed
      BY <2>1, <2>3 DEF Returning
    <3>3. QED
      BY <3>1, <3>2 DEF SameClient, AppType
  <2>5. Serving(a)' => Serving(a)
    <3>1. \A u \in Threads : u # t => (Last(u)' <=> Last(u)) /\ (Dropping(u)' <=> Dropping(u))
      BY <2>2 DEF Others, Last, Dropping, Op
    <3>2. thread'[t].at = 3
      BY <1>3, <2>1, <2>3 DEF Returning, Moved
    <3>3. ~Last(t)'
      BY <3>2 DEF Last
    <3>4. QED
      BY <1>2, <2>4, <3>1, <3>3 DEF Serving, SameClient
  <2>6. Serving(a) => Known(a)
    BY <1>2 DEF Client, Served
  <2>7. KeepsService(t)
    BY <1>8, <1>9, <2>2, <2>5, <2>6 DEF KeepsService
  <2>8. Client(a)'
    <3>1. CASE Known(a)
      <4>1. SameMemory(a)
        BY <1>8, <1>9, <2>2, <3>1 DEF SameMemory
      <4>2. QED
        BY <1>2, <1>9, <2>4, <2>7, <4>1, QuietClient DEF SameClient
    <3>2. CASE ~Known(a)
      <4>1. app'[a].epoch <= lrp'.epoch /\ (app'[a].epoch = lrp'.epoch => lrp'.state # "starting")
        BY <1>2, <1>9, <2>4 DEF Client, SameClient
      <4>2. \A i \in Ids : i[1] = a => i # IdOf(a)
        BY <1>2, <3>2, IdFacts
      <4>3. Tidy(a)'
        BY <1>2, <1>9, <2>2, <2>4, <4>2 DEF Client, Tidy, SameClient
      <4>4. Mapped(a)' /\ ~Serving(a)'
        BY <1>8, <2>5, <2>6, <3>2 DEF Mapped
      <4>5. QED
        BY <4>1, <4>3, <4>4 DEF Client, Served
    <3>3. QED
      BY <3>1, <3>2
  <2>9. \A u \in Threads : u # t /\ AppOf[u] = a => Serves(u)'
    BY <1>2, <1>9, <2>2, <2>7, ServiceKept
  <2>10. \A b \in Apps : Whole(b)'
    BY <1>1, <1>2, <1>8, <1>9, <1>10, <2>1, <2>2, <2>3, <2>8, <2>9, ReturningWhole
  <2>11. QED
    BY <1>2, <2>1, <2>2, <2>10, ReturningPlaced
<1>12. ASSUME Failed(t, FALSE)
       PROVE  /\ Others(t) /\ thread'[t].inside = "none" /\ thread'[t].op # "Gone" /\ foreground' = foreground
              /\ \A b \in Apps : Whole(b)'
  <2>1. Op(t) \notin {"none", "Undo"} /\ ~Is(t, "UnregisterAll", 3)
        /\ ~(Op(t) = "Register" /\ thread[t].at \in {3, 4})
    BY <1>3 DEF Is
  <2>2. Failing(t)
    BY <1>2, <1>12, <2>1, FailFacts
  <2>3. Others(t) /\ foreground' = foreground
    BY <2>1, <2>2 DEF Failing
  <2>4. \A b \in Apps : b # a \/ Known(a) => raw'[b] = raw[b]
    BY <1>6, <1>8
  <2>5. \A b \in Apps : Whole(b)'
    BY <1>2, <1>9, <1>10, <2>1, <2>2, <2>4, FailingWhole
  <2>6. QED
    BY <1>2, <2>1, <2>2, <2>3, <2>5, FailingPlaced
<1>13. /\ Others(t) /\ thread'[t].inside = "none" /\ thread'[t].op # "Gone" /\ foreground' = foreground
       /\ \A b \in Apps : Whole(b)'
  BY <1>11, <1>12 DEF RegisterFullTrustApplication
<1>14. /\ wpn' \in [trusted : SUBSET Ids, channels : SUBSET Ids, sinks : SUBSET Ids, stray : SUBSET Ids]
       /\ wpn'.sinks = wpn.sinks /\ wpn'.trusted \subseteq wpn.trusted \cup {<<a, n>>}
       /\ wpn'.channels = wpn.channels
  <2>1. wpn \in [trusted : SUBSET Ids, channels : SUBSET Ids, sinks : SUBSET Ids, stray : SUBSET Ids]
    BY <1>2 DEF TypeOK
  <2>2. wpn' = wpn \/ wpn' = [wpn EXCEPT !.trusted = wpn.trusted \cup {<<a, n>>}]
    BY DEF RegisterFullTrustApplication
  <2> HIDE DEF n
  <2>3. QED
    BY <1>8, <2>1, <2>2
<1>15. Process'
  <2>1. Locks'
    BY <1>2, <1>9, <1>13, LocksFall DEF Process, Others, Exclusive, Shared
  <2>2. Early' /\ Cleared' /\ Noticed'
    BY <1>2, <1>9, <1>13, <1>14, KeptParts DEF Others
  <2>3. \A i \in wpn.trusted \cup wpn.channels :
          i \in Ids /\ i[1] \in Apps /\ i[2] \in Nat /\ i[2] <= issued[i[1]]
    <3>1. \A i \in wpn.trusted \cup wpn.channels : i \in Ids /\ i[2] <= issued[i[1]]
      BY <1>2 DEF TypeOK, Process, Issued
    <3>2. \A i \in Ids : i[1] \in Apps /\ i[2] \in 1 .. MaxIds
      BY <1>2, IdFacts
    <3>3. QED
      BY <1>4, <3>1, <3>2
  <2>4. \A b \in Apps : issued[b] \in Nat /\ issued'[b] \in Nat /\ issued[b] <= issued'[b]
    <3> HIDE DEF n, top
    <3>1. QED
      BY <1>4, <1>5, <1>6
  <2>5. Issued'
    <3>1. ASSUME NEW i \in wpn'.trusted \cup wpn'.channels
          PROVE  i[2] <= issued'[i[1]]
      <4> HIDE DEF n, top
      <4>1. CASE i = <<a, n>>
        BY <1>5, <1>6, <4>1
      <4>2. CASE i \in wpn.trusted \cup wpn.channels
        <5>1. i[1] \in Apps /\ i[2] \in Nat /\ i[2] <= issued[i[1]]
          BY <2>3, <4>2
        <5>2. issued[i[1]] \in Nat /\ issued'[i[1]] \in Nat /\ issued[i[1]] <= issued'[i[1]]
          BY <2>4, <5>1
        <5>3. QED
          BY <5>1, <5>2
      <4>3. QED
        BY <1>14, <3>1, <4>1, <4>2
    <3>2. QED
      BY <3>1 DEF Issued
  <2>6. PlatformStarts'
    <3>1. ASSUME NEW i \in wpn.channels, raw'[i[1]] = i[2]
          PROVE  i \in clsid \cup lrp.slow
      <4>1. raw[i[1]] = i[2]
        <5>1. i[1] \in Apps /\ i[2] \in Nat /\ i[2] <= issued[i[1]]
          BY <2>3, <3>1
        <5>2. CASE Known(a)
          BY <1>8, <3>1, <5>2
        <5>3. CASE ~Known(a) /\ i[1] = a
          BY <1>4, <1>5, <1>6, <3>1, <5>1, <5>3
        <5>4. CASE i[1] # a
          BY <1>6, <3>1, <5>1, <5>4
        <5>5. QED
          BY <5>2, <5>3, <5>4
      <4>2. QED
        BY <1>2, <3>1, <4>1 DEF Process, PlatformStarts, Loadable
    <3>2. QED
      BY <1>9, <1>14, <3>1 DEF PlatformStarts, Loadable
  <2>7. QED
    BY <2>1, <2>2, <2>5, <2>6 DEF Process
<1>16. /\ clsid' \subseteq Ids /\ toast' \subseteq Apps /\ lrp' \in ProcessType /\ listeners' \subseteq Ids
       /\ foreground' \in [Ids -> Entries]
  BY <1>2, <1>9, <1>13 DEF TypeOK
<1>17. QED
  BY <1>6, <1>7, <1>9, <1>13, <1>14, <1>15, <1>16, StepDone

LEMMA UnregisterFullTrustStep ==
  ASSUME IInv, NEW t \in Threads, UnregisterFullTrustApplication(t)
  PROVE  IInv'
<1> DEFINE a == AppOf[t]
<1>1. /\ At(t, "dropFullTrust") /\ Answers(t) /\ PlatformFree
      /\ UNCHANGED <<issued, clsid, toast, lrp, listeners, note>>
  BY DEF UnregisterFullTrustApplication
<1>2. /\ TypeOK /\ Process /\ a \in Apps /\ Whole(a) /\ ThreadInv(t) /\ Placed(t) /\ Client(a)
      /\ Live(t) /\ ~Locked(t) /\ ~Dropping(t) /\ Current(t) = "dropFullTrust" /\ thread[t].inside = "none"
      /\ PlaceOf(Op(t), thread[t].at) /\ ~(lrp.state = "starting" /\ thread[t].conn = lrp.epoch)
      /\ thread[t].appId \in Ids \cup {None}
  BY <1>1, AtFacts, ThreadFacts DEF Whole, ThreadType
<1>3. (Is(t, "UnregisterAll", 7) \/ Is(t, "Undo", 3)) /\ ~Is(t, "UnregisterAll", 3)
  BY <1>2 DEF Current, PlaceOf, Is
<1>4. CASE ~Known(a)
  <2>1. Returned(t) /\ UNCHANGED <<raw, wpn, foreground>>
    BY <1>4 DEF UnregisterFullTrustApplication
  <2>2. QED
    BY <1>1, <1>2, <1>4, <2>1, ReturnedStep DEF store, TypeOK
<1>5. CASE Known(a) /\ Failed(t, FALSE) /\ UNCHANGED <<raw, wpn>>
  <2>1. Op(t) # "Register"
    BY <1>3 DEF Is
  <2>2. QED
    BY <1>1, <1>2, <1>3, <1>5, <2>1, FailedStep DEF store, TypeOK
<1>6. CASE /\ Known(a) /\ wpn' = [wpn EXCEPT !.trusted = wpn.trusted \ {IdOf(a)}]
           /\ raw' = [raw EXCEPT ![a] = 0]
           /\ Returned(t) /\ UNCHANGED foreground
  <2>1. /\ Returning(t) /\ AtEnd(t) /\ Freed(t) /\ Others(t)
        /\ thread'[t].op = "none" /\ thread'[t].inside = "none"
    BY <1>2, <1>3, <1>6, ReturnFacts DEF Returned, Returning, AtEnd, Freed
  <2>2. /\ wpn' \in [trusted : SUBSET Ids, channels : SUBSET Ids, sinks : SUBSET Ids, stray : SUBSET Ids]
        /\ wpn'.sinks = wpn.sinks /\ wpn'.trusted \subseteq wpn.trusted /\ wpn'.channels = wpn.channels
    BY <1>2, <1>6 DEF TypeOK
  <2>3. /\ raw \in [Apps -> 0 .. MaxIds] /\ raw' \in [Apps -> 0 .. MaxIds]
        /\ raw'[a] = 0 /\ \A b \in Apps : b # a => raw'[b] = raw[b]
        /\ \A b \in Apps : raw'[b] <= issued'[b]
    BY <1>1, <1>2, <1>6, ShapeAssumption DEF TypeOK
  <2>4. ~Known(a)' /\ Holder(t) /\ Op(t) # "Register"
    BY <1>3, <2>3 DEF Known, Holder, Is
  <2>5. /\ clsid' = clsid /\ toast' = toast /\ lrp' = lrp /\ listeners' = listeners /\ note' = note
        /\ issued' = issued /\ foreground' = foreground /\ Advance /\ Local(t)
    BY <1>1, <1>6, <2>3 DEF Advance, Local
  <2>6. /\ ~AtDrop(t) /\ ~AtDropAll(t) /\ ~Is(t, "Register", 4) /\ ~Is(t, "Register", 5)
        /\ ~Is(t, "CreateChannel", 4) /\ ~Is(t, "CreateChannel", 5) /\ ~Is(t, "Register", 2)
        /\ ~Is(t, "UnregisterAll", 6) /\ ~Is(t, "Undo", 2)
    BY <1>3 DEF AtDrop, AtDropAll, Is
  <2>7. /\ app'[a].mixed = app[a].mixed /\ app'[a].epoch = app[a].epoch
        /\ app'[a].fg <=> app[a].fg
        /\ app'[a].lr <=> app[a].lr
        /\ app'[a].undone <=> app[a].undone \/ Is(t, "Undo", 3)
    BY <1>6, <2>1, <2>6 DEF Returning
  <2>8. \A u \in Threads : ~Inside(u, "add") /\ ~Inside(u, "remove")
    BY <1>1 DEF PlatformFree, Inside, Exclusive
  <2>9. ~Serving(a)'
    <3>1. ~app[a].lr
      BY <1>2, <1>3 DEF ThreadInv, Progress, Is
    <3>2. \A u \in Threads : u # t /\ AppOf[u] = a => ~Last(u)
      BY <1>2, <2>4 DEF Whole, Apart, Last, Holder
    <3>3. \A u \in Threads : u # t => (Last(u)' <=> Last(u))
      BY <2>1 DEF Others, Last, Op
    <3>4. ~Last(t)'
      BY <2>1 DEF Last, Op
    <3>5. QED
      BY <2>7, <3>1, <3>2, <3>3, <3>4 DEF Serving
  <2>10. ~app[a].mixed => Is(t, "Undo", 3) /\ \A i \in Ids : i[1] = a => foreground[i] = "none"
    <3>1. ~app[a].mixed => Is(t, "Undo", 3)
      BY <1>2, <1>3, <1>6 DEF ThreadInv, Alone, Is
    <3>2. Is(t, "Undo", 3) => thread[t].full = lrp.epoch /\ lrp.state \in {"up", "awake"}
      BY <1>1, <1>2 DEF Answers, Gone, Proxy, Is
    <3>3. QED
      BY <1>2, <3>1, <3>2 DEF ThreadInv, Alone, Is
  <2>11. Client(a)'
    <3>1. Tidy(a)' /\ Mapped(a)'
      BY <2>5, <2>7, <2>10 DEF Tidy, Mapped
    <3>2. QED
      BY <1>2, <2>5, <2>7, <2>9, <3>1 DEF Client, Served
  <2>12. \A u \in Threads : u # t /\ AppOf[u] = a => Serves(u)'
    BY <2>9 DEF Serves
  <2>13. \A b \in Apps : Whole(b)'
    BY <1>2, <1>3, <2>1, <2>4, <2>5, <2>6, <2>8, <2>9, <2>11, <2>12, ReturningWhole
  <2>14. Process'
    <3>1. Locks'
      BY <1>2, <2>1, <2>5, LocksFall DEF Process, Others, Exclusive, Shared
    <3>2. Early' /\ Cleared' /\ Noticed'
      BY <1>2, <2>1, <2>2, <2>5, KeptParts DEF Others
    <3>3. Issued'
      BY <1>2, <2>2, <2>5 DEF Process, Issued
    <3>4. PlatformStarts'
      <4>1. ASSUME NEW i \in wpn.channels, raw'[i[1]] = i[2]
            PROVE  i \in clsid \cup lrp.slow
        <5>1. i \in Ids /\ i[1] \in Apps /\ i[2] \in 1 .. MaxIds
          BY <1>2, <4>1, IdFacts DEF TypeOK
        <5>2. raw[i[1]] = i[2]
          BY <2>3, <4>1, <5>1
        <5>3. QED
          BY <1>2, <4>1, <5>2 DEF Process, PlatformStarts, Loadable
      <4>2. QED
        BY <2>2, <2>5, <4>1 DEF PlatformStarts, Loadable
    <3>5. QED
      BY <3>1, <3>2, <3>3, <3>4 DEF Process
  <2>15. /\ issued' \in [Apps -> 0 .. MaxIds] /\ clsid' \subseteq Ids /\ toast' \subseteq Apps
         /\ lrp' \in ProcessType /\ listeners' \subseteq Ids
         /\ foreground' \in [Ids -> Entries]
    BY <1>2, <2>5 DEF TypeOK
  <2>16. QED
    BY <2>1, <2>2, <2>3, <2>5, <2>13, <2>14, <2>15, StepDone
<1>7. QED
  BY <1>4, <1>5, <1>6 DEF UnregisterFullTrustApplication

LEMMA StartStep ==
  ASSUME IInv, NEW t \in Threads, NEW o \in Ops, Start(t, o)
  PROVE  IInv'
<1> DEFINE a == AppOf[t]
           at == IF o = "UnregisterAll" /\ ~app[a].fg THEN 3 ELSE 1
           new == [Idle(thread[t].left - 1) EXCEPT !.op = o, !.at = at]
           mixed == app[a].mixed \/ \E u \in Threads : AppOf[u] = a /\ Op(u) # "none"
           registering == app[a].registering
                            \/ (o # "CreateChannel" /\ ~(o = "UnregisterAll" /\ ~app[a].fg))
           com == app[a].com /\ o \notin {"Unregister", "UnregisterAll"}
           client == [app[a] EXCEPT !.mixed = mixed, !.registering = registering, !.com = com]
<1>1. /\ MayStart(t, o) /\ UNCHANGED <<store, wpn, lrp, memory, note>>
      /\ thread' = [thread EXCEPT ![t] = new]
  BY Zenon DEF Start
<1>2. /\ TypeOK /\ Process /\ a \in Apps /\ Whole(a) /\ ThreadInv(t) /\ Client(a) /\ Op(t) = "none"
      /\ thread[t] \in ThreadType /\ thread \in [Threads -> ThreadType]
      /\ app[a] \in AppType /\ app \in [Apps -> AppType]
      /\ thread[t].left \in Nat /\ thread[t].left > 0 /\ thread[t].inside = "none"
  <2>1. TypeOK /\ Process /\ a \in Apps /\ Whole(a) /\ ThreadInv(t) /\ Client(a)
    BY ThreadFacts DEF IInv, Whole
  <2>2. Op(t) = "none" /\ thread[t].left > 0
    BY <1>1 DEF MayStart
  <2>3. /\ thread[t] \in ThreadType /\ thread \in [Threads -> ThreadType]
        /\ app[a] \in AppType /\ app \in [Apps -> AppType]
    BY <2>1, ThreadFacts DEF TypeOK
  <2>4. thread[t].left \in Nat /\ thread[t].inside = "none"
    BY <2>1, <2>2, <2>3 DEF ThreadType, ThreadInv, Placed
  <2>5. QED
    BY <2>1, <2>2, <2>3, <2>4
<1>3. app' = [app EXCEPT ![a] = client]
  <2>1. app' = [app EXCEPT ![a].mixed = mixed, ![a].registering = registering, ![a].com = com]
    BY <1>2, Zenon DEF Start
  <2> HIDE DEF mixed, registering, com
  <2>2. QED
    BY <1>2, <2>1
<1>4. o \in {"Register", "Unregister", "UnregisterAll", "CreateChannel"} /\ at \in {1, 3}
      /\ (at = 3 => o = "UnregisterAll") /\ o # "none" /\ o # "Gone" /\ o # "Undo"
  BY DEF Ops
<1>5. new \in ThreadType /\ new.op = o /\ new.at = at /\ new.inside = "none" /\ new.full = 0 /\ new.conn = 0
  <2>1. thread[t].left - 1 \in Nat
    BY <1>2
  <2>2. Idle(thread[t].left - 1) \in ThreadType
    BY <2>1, IdleFacts
  <2>3. o \in DOMAIN Script /\ at \in Nat
    BY <1>4, ScriptFacts
  <2>4. /\ Idle(thread[t].left - 1).inside = "none" /\ Idle(thread[t].left - 1).full = 0
        /\ Idle(thread[t].left - 1).conn = 0
    BY <2>1, IdleFacts
  <2> HIDE DEF at
  <2>5. QED
    BY <2>2, <2>3, <2>4 DEF ThreadType
<1>6. client \in AppType /\ client.mixed = mixed /\ client.registering = registering
      /\ client.fg = app[a].fg /\ client.lr = app[a].lr /\ client.epoch = app[a].epoch
      /\ client.viaChannel = app[a].viaChannel /\ client.undone = app[a].undone
  <2>1. mixed \in BOOLEAN /\ registering \in BOOLEAN /\ com \in BOOLEAN
    BY <1>2 DEF AppType
  <2> HIDE DEF mixed, registering, com
  <2>2. QED
    BY <1>2, <2>1 DEF AppType
<1>7. /\ Others(t)
      /\ thread'[t].op = o /\ thread'[t].at = at /\ thread'[t].inside = "none"
      /\ thread'[t].full = 0 /\ thread'[t].conn = 0
      /\ app'[a].mixed = mixed /\ app'[a].registering = registering
      /\ app'[a].fg = app[a].fg /\ app'[a].lr = app[a].lr /\ app'[a].epoch = app[a].epoch
      /\ app'[a].viaChannel = app[a].viaChannel /\ app'[a].undone = app[a].undone
  <2> HIDE DEF new, client, at, mixed, registering
  <2>1. QED
    BY <1>1, <1>2, <1>3, <1>5, <1>6 DEF Others
<1>8. /\ raw' = raw /\ issued' = issued /\ clsid' = clsid /\ toast' = toast /\ wpn' = wpn /\ lrp' = lrp
      /\ listeners' = listeners /\ foreground' = foreground /\ note' = note
      /\ IdOf(a)' = IdOf(a) /\ Known(a)' = Known(a) /\ Advance
  BY <1>1 DEF store, memory, IdOf, Known, Advance
<1>9. \A u \in Threads : (Last(u)' <=> Last(u)) /\ (Dropping(u)' <=> Dropping(u))
  <2>1. ~Last(t)' /\ ~Last(t) /\ ~Dropping(t)' /\ ~Dropping(t)
    BY <1>2, <1>4, <1>7 DEF Last, Dropping, Op
  <2>2. QED
    BY <1>7, <2>1 DEF Others, Last, Dropping, Op
<1>10. Serving(a)' <=> Serving(a)
  BY <1>7, <1>9 DEF Serving
<1>11. Client(a)'
  BY <1>2, <1>7, <1>8, <1>10 DEF Client, Tidy, Mapped, Served, Running
<1>12. ThreadInv(t)'
  <2>1. Placed(t)'
    <3>1. /\ 1 \in 1 .. Len(Script["Register"]) /\ 1 \in 1 .. Len(Script["Unregister"])
          /\ 1 \in 1 .. Len(Script["UnregisterAll"]) /\ 1 \in 1 .. Len(Script["CreateChannel"])
          /\ 3 \in 1 .. Len(Script["UnregisterAll"])
      BY ScriptFacts
    <3>2. at \in 1 .. Len(Script[o])
      BY <1>4, <3>1
    <3>3. at \in Nat
      BY <1>4
    <3> HIDE DEF at
    <3>4. QED
      BY <1>7, <3>2, <3>3, PlacedFree
  <2>2. Connections(t)'
    <3>1. lrp.epoch \in Nat /\ (lrp.epoch = 0 => lrp.state = "off")
      BY <1>2, ThreadFacts DEF Process, Cleared
    <3>2. QED
      BY <1>7, <1>8, <3>1 DEF Connections, Locked, Exclusive, Shared
  <2>3. Progress(t)'
    <3>1. Holder(t)' => registering
      BY <1>4, <1>7 DEF Holder, Op
    <3>2. o = "Register" => ~app[a].fg /\ ~app[a].lr
      BY <1>1 DEF MayStart
    <3>3. o = "Register" => at = 1
      OBVIOUS
    <3> HIDE DEF at, registering
    <3>4. QED
      BY <1>4, <1>7, <3>1, <3>2, <3>3 DEF Progress, Op, Inside
  <2>4. Alone(t)' /\ Serves(t)'
    BY <1>4, <1>7 DEF Alone, Serves, Op, Inside
  <2>5. QED
    BY <2>1, <2>2, <2>3, <2>4 DEF ThreadInv
<1>13. ASSUME NEW u \in Threads, AppOf[u] = a
       PROVE  ThreadInv(u)'
  <2>1. CASE u = t
    BY <1>12, <2>1
  <2>2. CASE u # t
    <3>1. ThreadInv(u) /\ thread'[u] = thread[u]
      BY <1>2, <1>7, <1>13, <2>2 DEF Whole, Others
    <3>2. Placed(u)' /\ Connections(u)'
      BY <1>2, <1>8, <3>1, FramePlaced, FrameConnections DEF ThreadInv, Process
    <3>3. Progress(u)'
      BY <1>7, <1>8, <1>13, <3>1 DEF ThreadInv, Progress, Holder, Op, Inside
    <3>4. Alone(u)'
      BY <1>7, <1>8, <1>13, <3>1 DEF ThreadInv, Alone, Op, Inside
    <3>5. Serves(u)'
      BY <1>8, <1>10, <1>13, <3>1 DEF ThreadInv, Serves, Op, Inside, Running
    <3>6. QED
      BY <3>2, <3>3, <3>4, <3>5 DEF ThreadInv
  <2>3. QED
    BY <2>1, <2>2
<1>14. ASSUME NEW u \in Threads, AppOf[u] = a, u # t
       PROVE  Apart(t, u)' /\ Apart(u, t)'
  <2>1. thread'[u] = thread[u] /\ Progress(u)
    BY <1>2, <1>7, <1>14 DEF Whole, ThreadInv, Others
  <2>2. ~(Holder(t)' /\ Holder(u)')
    <3>1. Holder(t)' => ~app[a].registering
      BY <1>1, <1>4, <1>7 DEF Holder, Op, MayStart
    <3>2. QED
      BY <1>14, <2>1, <3>1 DEF Progress, Holder, Op
  <2>3. /\ ~(Op(t)' = "Gone") /\ ~(Op(t)' = "Register" /\ thread'[t].at > 2)
        /\ (mixed \/ Op(u)' = "none")
    BY <1>4, <1>7, <1>14, <2>1 DEF Op
  <2>4. QED
    BY <1>7, <1>14, <2>2, <2>3 DEF Apart
<1>15. Whole(a)'
  <2>1. ASSUME NEW u \in Threads, NEW v \in Threads, AppOf[u] = a
        PROVE  Apart(u, v)'
    <3>1. CASE u = t \/ v = t \/ AppOf[v] # a \/ u = v
      BY <1>14, <2>1, <3>1 DEF Apart
    <3>2. CASE u # t /\ v # t
      <4>1. Apart(u, v) /\ thread'[u] = thread[u] /\ thread'[v] = thread[v]
        BY <1>2, <1>7, <2>1, <3>2 DEF Whole, Others
      <4>2. QED
        BY <1>7, <2>1, <4>1 DEF Apart, Holder, Op
    <3>3. QED
      BY <3>1, <3>2
  <2>2. QED
    BY <1>11, <1>13, <2>1 DEF Whole
<1>16. ASSUME NEW b \in Apps, b # a
       PROVE  Whole(b)'
  <2>1. SameApp(b)
    BY <1>7, <1>8, <1>16 DEF Others, SameApp, SameClient
  <2>2. QED
    BY <1>2, <1>8, <1>16, <2>1, FrameWhole DEF IInv, Process
<1>17. Process'
  <2>1. Locks'
    BY <1>2, <1>7, <1>8, LocksFall DEF Process, Others, Exclusive, Shared
  <2>2. Early' /\ Cleared' /\ Noticed'
    BY <1>2, <1>7, <1>8, KeptParts DEF Others
  <2>3. Issued' /\ PlatformStarts'
    BY <1>2, <1>8 DEF Process, Issued, PlatformStarts, Loadable
  <2>4. QED
    BY <2>1, <2>2, <2>3 DEF Process
<1>18. thread'[t].op # "Gone" /\ \A b \in Apps : Whole(b)'
  BY <1>4, <1>7, <1>15, <1>16
<1>19. QED
  BY <1>1, <1>2, <1>7, <1>8, <1>17, <1>18, StoreTypes, StepDone DEF TypeOK

-----------------------------------------------------------------------------
(* The invariant holds at the start and is kept by every step.              *)

LEMMA InitInv ==
  ASSUME Init
  PROVE  IInv
<1>1. MaxIds \in Nat /\ MaxStarts \in Nat /\ MaxNotes \in Nat
  BY ShapeAssumption
<1>2. ASSUME NEW t \in Threads
      PROVE  /\ AppOf[t] \in Apps /\ thread[t] \in ThreadType /\ thread[t].op = "none" /\ thread[t].at = 1
             /\ thread[t].inside = "none" /\ thread[t].full = 0 /\ thread[t].conn = 0
  <2>1. Calls[t] \in Nat /\ AppOf[t] \in Apps
    BY ShapeAssumption
  <2>2. thread[t] = Idle(Calls[t])
    BY DEF Init
  <2>3. QED
    BY <2>1, <2>2, IdleFacts
<1>3. NewApp \in AppType
  BY <1>1 DEF NewApp, AppType
<1>4. /\ raw = [a \in Apps |-> 0] /\ issued = [a \in Apps |-> 0] /\ clsid = {} /\ toast = {}
      /\ wpn = [trusted |-> {}, channels |-> {}, sinks |-> {}, stray |-> {}]
      /\ lrp = [state |-> "off", epoch |-> 0, timer |-> FALSE, event |-> FALSE,
                late |-> FALSE, slow |-> {}]
      /\ listeners = {} /\ foreground = [i \in Ids |-> "none"]
      /\ app = [a \in Apps |-> NewApp] /\ note = [id |-> None, left |-> MaxNotes]
      /\ thread = [t \in Threads |-> Idle(Calls[t])]
  BY DEF Init
<1>5. TypeOK
  <2>1. lrp \in ProcessType
    BY <1>1, <1>4 DEF ProcessType
  <2>2. thread \in [Threads -> ThreadType]
    BY <1>2, <1>4
  <2>3. app \in [Apps -> AppType]
    BY <1>3, <1>4
  <2>4. \A t \in Threads : thread[t].op = "Gone" => thread[t].inside \in Exclusive \cup Shared
    BY <1>2
  <2>5. /\ raw \in [Apps -> 0 .. MaxIds] /\ issued \in [Apps -> 0 .. MaxIds]
        /\ \A a \in Apps : raw[a] <= issued[a]
        /\ clsid \subseteq Ids /\ toast \subseteq Apps
        /\ wpn \in [trusted : SUBSET Ids, channels : SUBSET Ids, sinks : SUBSET Ids, stray : SUBSET Ids]
        /\ listeners \subseteq Ids /\ foreground \in [Ids -> Entries]
        /\ note \in [id : Ids \cup {None}, left : Nat]
    BY <1>1, <1>4 DEF Entries
  <2>6. QED
    BY <2>1, <2>2, <2>3, <2>4, <2>5 DEF TypeOK
<1>6. Process
  BY <1>2, <1>4 DEF Process, Locks, Locked, Exclusive, Shared, Early, Cleared, Issued, PlatformStarts,
                    Loadable, Noticed
<1>7. ASSUME NEW a \in Apps
      PROVE  Whole(a)
  <2>1. /\ ~app[a].fg /\ ~app[a].lr /\ app[a].epoch = 0 /\ raw[a] = 0
        /\ lrp.epoch = 0 /\ lrp.state = "off"
    BY <1>4 DEF NewApp
  <2>2. ASSUME NEW t \in Threads, AppOf[t] = a
        PROVE  ThreadInv(t)
    BY <1>2, <1>4, <2>1 DEF ThreadInv, Placed, Connections, Progress, Alone, Serves, Live, Locked, HasId,
                            Exclusive, Shared, Holder, Op, Inside
  <2>3. \A t, u \in Threads : Apart(t, u)
    BY <1>2 DEF Apart, Holder, Op
  <2>4. ~Serving(a)
    BY <1>2, <2>1 DEF Serving, Last, Op
  <2>5. Client(a)
    BY <1>4, <2>1, <2>4 DEF Client, Tidy, Mapped, Served
  <2>6. QED
    BY <2>2, <2>3, <2>5 DEF Whole
<1>8. QED
  BY <1>5, <1>6, <1>7 DEF IInv

LEMMA ThreadSteps ==
  ASSUME IInv, NEW t \in Threads, ThreadStep(t)
  PROVE  IInv'
  BY ClaimStep, CloseStep, RegisterClassStep, ConnectStep, ActivationEndsStep, RefusedStep,
     RegisterFullTrustStep, UnregisterFullTrustStep, CreateChannelStep, ForegroundActivatorStep,
     AddSinkStep, RemoveSinkStep, ToastStep, RegisterLongRunningStep, AddListenerStep, InsertListenerStep,
     CancelTimerStep, UnregisterLongRunningStep, RemoveListenerStep, EraseListenerStep, ForgetStep, IsEmptyStep, SetupTimerStep
     DEF ThreadStep

LEMMA NextInv ==
  ASSUME IInv, [Next]_vars
  PROVE  IInv'
<1>1. CASE UNCHANGED vars
  <2>1. Still /\ UNCHANGED <<store, wpn, lrp, memory, app, thread, note>>
    BY <1>1 DEF vars, store, Still, SameClient
  <2>2. TypeOK'
    BY <2>1, ProcessType2 DEF IInv, TypeOK
  <2>3. Process'
    BY <2>1 DEF IInv, Process, Locks, Locked, Early, Cleared, Issued, PlatformStarts, Loadable, Noticed,
                store, memory
  <2>4. Advance /\ UNCHANGED listeners /\ foreground' = foreground
    BY <2>1 DEF Advance, memory
  <2>5. \A b \in Apps : Whole(b)'
    BY <2>1, <2>4, StillWhole
  <2>6. QED
    BY <2>2, <2>3, <2>5 DEF IInv
<1>2. CASE \E t \in Threads, o \in Ops : Start(t, o)
  BY <1>2, StartStep
<1>3. CASE \E t \in Threads : ThreadStep(t)
  BY <1>3, ThreadSteps
<1>4. CASE \E a \in Apps : AppEnds(a)
  BY <1>4, AppEndsStep
<1>5. CASE (\E a \in Apps : AppStarts(a)) \/ (\E i \in Ids : OnRawNotificationReceived(i)) \/ InvocationEnds
  BY <1>5, NoteSteps
<1>6. CASE StartupTask \/ ProcessStep
  BY <1>6, LrpSteps, InitializeStep, ExitStep DEF ProcessStep
<1>7. QED
  BY <1>1, <1>2, <1>3, <1>4, <1>5, <1>6 DEF Next

\* The invariant the properties follow from: what each call has found and done
\* at its place, and what the process keeps of each app (platform.cpp:66-211,
\* PushNotificationManager.cpp).
THEOREM InductiveInvariant == Spec => []IInv
<1>1. Init => IInv
  BY InitInv
<1>2. IInv /\ [Next]_vars => IInv'
  BY NextInv
<1>3. QED
  BY <1>1, <1>2, PTL DEF Spec

-----------------------------------------------------------------------------
(* The listeners and wpncore's sinks.  They differ while a thread is between *)
(* the two steps that add or remove one, and by the sinks that stay behind. *)

In(step, i) == \E t \in Threads : Inside(t, step) /\ thread[t].id = i
Classed(i) == ~app[i[1]].undone /\ i \in clsid => i = IdOf(i[1])
Booked(i) ==
    /\ i \in wpn.sinks => i \in listeners \/ i \in wpn.stray \/ In("insert", i)
    /\ i \in listeners => i \in wpn.sinks \/ In("erase", i)
    /\ i \in wpn.stray \/ In("insert", i) => i \in wpn.sinks
    /\ In("erase", i) /\ i \in wpn.sinks => i \in wpn.stray
Books == \A i \in Ids : ~app[i[1]].mixed => Booked(i) /\ Classed(i)

Marked(t) == thread[t].inside \in {"insert", "erase"}

\* No thread comes to one of those places or leaves it.
MarksKept ==
    \A u \in Threads :
       \/ thread'[u].inside = thread[u].inside /\ thread'[u].id = thread[u].id
       \/ thread[u].inside \notin {"insert", "erase"} /\ thread'[u].inside \notin {"insert", "erase"}

\* What is history stays.
Grows ==
    \A b \in Apps : (app[b].mixed => app'[b].mixed) /\ (app[b].undone => app'[b].undone)

LEMMA KeptBooks ==
  ASSUME Books, MarksKept, Grows, listeners' = listeners,
         wpn'.sinks = wpn.sinks, wpn'.stray = wpn.stray,
         \A i \in Ids : ~app[i[1]].mixed /\ ~app'[i[1]].mixed => Classed(i)'
  PROVE  Books'
<1>1. \A i \in Ids : i[1] \in Apps
  BY DEF Ids
<1>2. ASSUME NEW i, NEW step \in {"insert", "erase"}
      PROVE  In(step, i)' <=> In(step, i)
  BY DEF In, MarksKept, Inside
<1>3. ASSUME NEW i \in Ids, ~app'[i[1]].mixed
      PROVE  (Booked(i) /\ Classed(i))'
  <2>1. ~app[i[1]].mixed
    BY <1>1, <1>3 DEF Grows
  <2>2. Booked(i)
    BY <2>1 DEF Books
  <2>3. (In("insert", i)' <=> In("insert", i)) /\ (In("erase", i)' <=> In("erase", i))
    BY <1>2
  <2>4. Booked(i)'
    BY <2>2, <2>3 DEF Booked
  <2>5. QED
    BY <1>3, <2>1, <2>4
<1>4. QED
  BY <1>3 DEF Books

LEMMA ClassedKept ==
  ASSUME Books, Grows, raw' = raw, clsid' = clsid
  PROVE  \A i \in Ids : ~app[i[1]].mixed => Classed(i)'
<1>1. \A i \in Ids : i[1] \in Apps
  BY DEF Ids
<1>2. QED
  BY <1>1 DEF Books, Classed, Grows, IdOf

LEMMA ReturnMarks ==
  ASSUME TypeOK, NEW t \in Threads, ~Marked(t), NEW x, ReturnedWith(t, x)
  PROVE  MarksKept /\ Grows
<1>1. /\ thread \in [Threads -> ThreadType] /\ AppOf[t] \in Apps /\ app \in [Apps -> AppType]
      /\ app[AppOf[t]] \in AppType
  BY ThreadFacts DEF TypeOK
<1>2. \A n : Idle(n).inside = "none"
  BY DEF Idle
<1>3. CASE Op(t) = "Gone"
  BY <1>1, <1>2, <1>3 DEF ReturnedWith, MarksKept, Grows, Marked
<1>4. CASE Op(t) # "Gone"
  <2>1. /\ app' = [app EXCEPT ![AppOf[t]] = Noted(app[AppOf[t]], t)]
        /\ \/ thread' = [thread EXCEPT ![t] = Idle(thread[t].left)]
           \/ thread' = [thread EXCEPT ![t] = [thread[t] EXCEPT !.at = thread[t].at + 1, !.inside = "none",
                                                                !.appId = x]]
    BY <1>4 DEF ReturnedWith
  <2>2. /\ Noted(app[AppOf[t]], t).mixed = app[AppOf[t]].mixed
        /\ app[AppOf[t]].undone => Noted(app[AppOf[t]], t).undone
    BY <1>1 DEF Noted, AppType
  <2>3. Grows
    BY <1>1, <2>1, <2>2 DEF Grows
  <2>4. thread'[t].inside = "none" /\ \A u \in Threads : u # t => thread'[u] = thread[u]
    <3>1. thread[t] \in ThreadType
      BY <1>1
    <3>2. [thread[t] EXCEPT !.at = thread[t].at + 1, !.inside = "none", !.appId = x].inside = "none"
      BY <3>1 DEF ThreadType
    <3>3. \E new : thread' = [thread EXCEPT ![t] = new] /\ new.inside = "none"
      BY <1>2, <2>1, <3>2, Zenon
    <3>4. QED
      BY <1>1, <3>3
  <2>5. QED
    BY <2>3, <2>4 DEF MarksKept, Marked
<1>5. QED
  BY <1>3, <1>4

LEMMA FailMarks ==
  ASSUME TypeOK, NEW t \in Threads, ~Marked(t), NEW r, Failed(t, r)
  PROVE  MarksKept /\ Grows
<1> DEFINE a == AppOf[t]
<1>1. /\ thread \in [Threads -> ThreadType] /\ a \in Apps /\ app \in [Apps -> AppType]
      /\ app[a] \in AppType /\ thread[t] \in ThreadType
  BY ThreadFacts DEF TypeOK
<1>2. \A n : Idle(n).inside = "none"
  BY DEF Idle
<1>3. CASE Op(t) = "Undo"
  <2>1. Ended(a, t)
    BY <1>3 DEF Failed
  <2>2. EndedBy(a, t)
    BY <1>1, <2>1, EndFacts
  <2>3. QED
    BY <2>2 DEF EndedBy, MarksKept, Grows, Marked, Locked, Freed, Shared
<1>4. CASE Op(t) # "Undo"
  <2>1. app' = app \/ app' = [app EXCEPT ![a].registering = app[a].registering
                                                             /\ Op(t) \in {"CreateChannel", "Gone"}]
    BY <1>1, <1>4 DEF Failed
  <2>2. Grows
    BY <1>1, <2>1 DEF Grows, AppType
  <2>3. \/ thread' = [thread EXCEPT ![t] = Idle(thread[t].left)]
        \/ thread' = [thread EXCEPT ![t].at = 1, ![t].inside = "none", ![t].tries = @ + 1]
        \/ thread' = [thread EXCEPT ![t].op = "Undo", ![t].at = UndoFrom(Current(t)), ![t].inside = "none"]
    BY <1>1, <1>4 DEF Failed
  <2>4. thread'[t].inside = "none" /\ \A u \in Threads : u # t => thread'[u] = thread[u]
    <3>1. CASE thread' = [thread EXCEPT ![t] = Idle(thread[t].left)]
      BY <1>1, <1>2, <3>1
    <3>2. CASE thread' = [thread EXCEPT ![t].at = 1, ![t].inside = "none", ![t].tries = @ + 1]
      BY <1>1, <3>2 DEF ThreadType
    <3>3. CASE thread' = [thread EXCEPT ![t].op = "Undo", ![t].at = UndoFrom(Current(t)),
                                        ![t].inside = "none"]
      BY <1>1, <3>3 DEF ThreadType
    <3>4. QED
      BY <2>3, <3>1, <3>2, <3>3
  <2>5. QED
    BY <2>2, <2>4 DEF MarksKept, Marked
<1>5. QED
  BY <1>3, <1>4

LEMMA EnterMarks ==
  ASSUME TypeOK, NEW t \in Threads, ~Marked(t), NEW step, step \notin {"insert", "erase"}, NEW id,
         Enter(t, step, id), app' = app
  PROVE  MarksKept /\ Grows
<1>1. thread \in [Threads -> ThreadType]
  BY DEF TypeOK
<1>2. thread'[t].inside = step /\ \A u \in Threads : u # t => thread'[u] = thread[u]
  BY <1>1 DEF Enter, ThreadType
<1>3. QED
  BY <1>2 DEF MarksKept, Grows, Marked

\* The steps of a thread that neither add a listener nor remove one.
LEMMA QuietMarks ==
  ASSUME TypeOK, NEW t \in Threads, ThreadStep(t), ~Marked(t), ~AddListener(t), ~RemoveListener(t)
  PROVE  MarksKept /\ Grows /\ listeners' = listeners /\ wpn'.sinks = wpn.sinks /\ wpn'.stray = wpn.stray
<1> DEFINE Goal == MarksKept /\ Grows
           Rest == listeners' = listeners /\ wpn'.sinks = wpn.sinks /\ wpn'.stray = wpn.stray
<1>1. /\ thread \in [Threads -> ThreadType] /\ AppOf[t] \in Apps /\ app \in [Apps -> AppType]
      /\ wpn \in [trusted : SUBSET Ids, channels : SUBSET Ids, sinks : SUBSET Ids, stray : SUBSET Ids]
  BY ThreadFacts DEF TypeOK
<1>2. \A x : ReturnedWith(t, x) => Goal
  BY ReturnMarks
<1>3. Returned(t) => Goal
  BY <1>2 DEF Returned
<1>4. \A r : Failed(t, r) => Goal
  BY FailMarks
<1>5. \A step, id : Enter(t, step, id) /\ step \notin {"insert", "erase"} /\ app' = app => Goal
  BY EnterMarks
<1>6. \A n : Idle(n).inside = "none"
  BY DEF Idle
<1>7. ASSUME Connected(t)
      PROVE  Goal
  <2>1. thread'[t].inside = "none" /\ (\A u \in Threads : u # t => thread'[u] = thread[u]) /\ app' = app
    BY <1>1, <1>7 DEF Connected, ThreadType
  <2>2. QED
    BY <2>1 DEF MarksKept, Grows, Marked
<1> HIDE DEF Goal
<1>8. CASE Claim(t) \/ AddToastRegistrationMapping(t)
  <2>1. Rest
    BY <1>8 DEF Claim, AddToastRegistrationMapping, memory
  <2>2. Goal
    <3>1. \/ app' = app
          \/ app' = [app EXCEPT ![AppOf[t]].registering = TRUE]
          \/ app' = [app EXCEPT ![AppOf[t]].channel = thread[t].appId]
      BY <1>8 DEF Claim, AddToastRegistrationMapping
    <3>2. Grows
      BY <1>1, <3>1 DEF Grows, AppType
    <3>3. \/ thread' = [thread EXCEPT ![t] = Idle(thread[t].left)]
          \/ thread' = [thread EXCEPT ![t].at = @ + 1]
      BY <1>1, <1>8 DEF Claim, AddToastRegistrationMapping
    <3>4. MarksKept
      BY <1>1, <1>6, <3>3 DEF MarksKept, Marked, ThreadType
    <3>5. QED
      BY <3>2, <3>4 DEF Goal
  <2>3. QED
    BY <2>1, <2>2 DEF Goal
<1>9. CASE Connect(t)
  <2>1. Rest
    BY <1>9 DEF Connect
  <2>2. Goal
    <3>1. CASE \/ Connected(t)
               \/ Failed(t, FALSE)
      BY <1>4, <1>7, <3>1
    <3>2. CASE /\ thread' = [thread EXCEPT ![t].inside = "activating", ![t].conn = lrp'.epoch]
               /\ UNCHANGED <<app, foreground>>
      <4>1. thread'[t].inside = "activating" /\ \A u \in Threads : u # t => thread'[u] = thread[u]
        BY <1>1, <3>2 DEF ThreadType
      <4>2. QED
        BY <3>2, <4>1 DEF Goal, MarksKept, Grows, Marked
    <3>3. QED
      BY <1>9, <3>1, <3>2 DEF Connect
  <2>3. QED
    BY <2>1, <2>2 DEF Goal
<1>10. CASE ActivationEnds(t)
  BY <1>4, <1>7, <1>10 DEF ActivationEnds, Goal
<1>11. CASE Close(t)
  BY <1>1, <1>3, <1>4, <1>11 DEF Close, Goal
<1>12. CASE RegisterClass(t)
  BY <1>3, <1>4, <1>12 DEF RegisterClass, Goal
<1>13. CASE Refused(t)
  BY <1>4, <1>13 DEF Refused, Goal
<1>14. CASE RegisterFullTrustApplication(t)
  BY <1>1, <1>2, <1>4, <1>14 DEF RegisterFullTrustApplication, Goal
<1>15. CASE UnregisterFullTrustApplication(t)
  BY <1>1, <1>3, <1>4, <1>15 DEF UnregisterFullTrustApplication, Goal
<1>16. CASE CreateChannelWithRemoteId(t)
  BY <1>1, <1>3, <1>4, <1>16 DEF CreateChannelWithRemoteId, Goal
<1>17. CASE ForegroundActivator(t)
  BY <1>3, <1>5, <1>17 DEF ForegroundActivator, Goal, memory
<1>18. CASE AddSink(t) \/ RemoveSink(t) \/ CancelTimer(t) \/ SetupTimer(t)
  BY <1>3, <1>18 DEF AddSink, RemoveSink, CancelTimer, SetupTimer, Goal, memory
<1>19. CASE RegisterLongRunningActivator(t)
  BY <1>3, <1>5, <1>19 DEF RegisterLongRunningActivator, Goal, memory
<1>20. CASE UnregisterLongRunningActivator(t)
  BY <1>5, <1>20 DEF UnregisterLongRunningActivator, Goal, memory
<1>21. CASE Forget(t)
  BY <1>5, <1>21 DEF Forget, Goal
<1>22. CASE IsEmpty(t)
  BY <1>3, <1>5, <1>22 DEF IsEmpty, Goal, memory
<1>23. CASE InsertListener(t) \/ EraseListener(t)
  BY <1>23 DEF InsertListener, EraseListener, Inside, Marked
<1>24. QED
  BY <1>8, <1>9, <1>10, <1>11, <1>12, <1>13, <1>14, <1>15, <1>16, <1>17, <1>18, <1>19, <1>20, <1>21, <1>22,
     <1>23 DEF ThreadStep, Goal

\* The class identifiers through the steps that change them or the identifiers.
LEMMA QuietClasses ==
  ASSUME IInv, Books, NEW t \in Threads, ThreadStep(t), Grows
  PROVE  \A i \in Ids : ~app[i[1]].mixed => Classed(i)'
<1> DEFINE a == AppOf[t]
           Goal == \A i \in Ids : ~app[i[1]].mixed => Classed(i)'
<1>1. raw' = raw /\ clsid' = clsid => Goal
  BY ClassedKept
<1>2. /\ TypeOK /\ a \in Apps /\ raw \in [Apps -> 0 .. MaxIds] /\ app \in [Apps -> AppType]
      /\ \A i \in Ids : i[1] \in Apps
  BY ThreadFacts DEF IInv, TypeOK, Ids
<1>3. \A i \in Ids : ~app[i[1]].mixed => Classed(i)
  BY DEF Books
<1>4. ASSUME ~Known(a), raw' = [raw EXCEPT ![a] = raw'[a]], clsid' = clsid
      PROVE  Goal
  <2>1. ASSUME NEW i \in Ids, ~app[i[1]].mixed, ~app'[i[1]].undone, i \in clsid'
        PROVE  i = IdOf(i[1])'
    <3>1. i = IdOf(i[1])
      BY <1>2, <1>3, <1>4, <2>1 DEF Classed, Grows
    <3>2. i[1] # a
      BY <1>2, <1>4, <3>1, IdFacts
    <3>3. QED
      BY <1>2, <1>4, <3>1, <3>2 DEF IdOf
  <2>2. QED
    BY <2>1 DEF Classed
<1>5. CASE RegisterFullTrustApplication(t)
  <2>1. clsid' = clsid /\ raw' = [raw EXCEPT ![a] = BuildAppIdentifier(a)]
    BY <1>5 DEF RegisterFullTrustApplication
  <2>2. CASE Known(a)
    <3>1. raw' = raw
      BY <1>2, <2>1, <2>2 DEF BuildAppIdentifier
    <3>2. QED
      BY <1>1, <2>1, <3>1
  <2>3. CASE ~Known(a)
    BY <1>2, <1>4, <2>1, <2>3
  <2>4. QED
    BY <2>2, <2>3
<1>6. CASE UnregisterFullTrustApplication(t)
  <2>1. clsid' = clsid /\ At(t, "dropFullTrust")
    BY <1>6 DEF UnregisterFullTrustApplication
  <2>2. CASE raw' = raw
    BY <1>1, <2>1, <2>2
  <2>3. CASE raw' # raw
    <3>1. Known(a) /\ raw' = [raw EXCEPT ![a] = 0] /\ Returned(t)
      BY <1>6, <2>3 DEF UnregisterFullTrustApplication
    <3>2. /\ ThreadInv(t) /\ Placed(t) /\ Live(t) /\ (Is(t, "UnregisterAll", 7) \/ Is(t, "Undo", 3))
      BY <2>1, AtFacts DEF PlaceOf, Is, Current
    <3>3. Returning(t)
      BY <1>2, <2>1, <3>1, AtFacts, ReturnFacts, ThreadFacts DEF Returned, ThreadType
    <3>4. app[a].mixed \/ app'[a].undone
      BY <3>1, <3>2, <3>3 DEF ThreadInv, Alone, Returning, Is, Op
    <3>5. QED
      BY <1>2, <1>3, <2>1, <3>1, <3>4 DEF Classed, Grows, IdOf
  <2>4. QED
    BY <2>2, <2>3
<1>7. CASE RegisterLongRunningActivator(t)
  <2>1. raw' = raw /\ clsid' \in {clsid, clsid \cup {IdOf(a)}}
    BY <1>7 DEF RegisterLongRunningActivator
  <2>2. ASSUME NEW i \in Ids, ~app[i[1]].mixed, ~app'[i[1]].undone, i \in clsid'
        PROVE  i = IdOf(i[1])'
    <3>1. i \in clsid => i = IdOf(i[1])
      BY <1>2, <1>3, <2>2 DEF Classed, Grows
    <3>2. i = IdOf(a) => i[1] = a
      BY <1>2, IdFacts
    <3>3. i = IdOf(i[1])
      BY <2>1, <2>2, <3>1, <3>2
    <3>4. QED
      BY <2>1, <3>3 DEF IdOf
  <2>3. QED
    BY <2>2 DEF Classed
<1>8. CASE Forget(t)
  <2> DEFINE id == thread[t].id
  <2>1. /\ Inside(t, "forget") /\ clsid' = clsid \ {id}
        /\ raw' = [raw EXCEPT ![id[1]] = IF @ = id[2] THEN 0 ELSE @]
    BY <1>8 DEF Forget
  <2>2. id \in Ids /\ id[1] = a /\ (~app[a].mixed => id = IdOf(a))
    BY <1>2, <2>1 DEF IInv, Whole, ThreadInv, Placed, HasId, Alone, Inside
  <2>3. ASSUME NEW i \in Ids, ~app[i[1]].mixed, ~app'[i[1]].undone, i \in clsid'
        PROVE  i = IdOf(i[1])'
    <3>1. i = IdOf(i[1]) /\ i # id
      BY <1>2, <1>3, <2>1, <2>3 DEF Classed, Grows
    <3>2. i[1] # a
      BY <2>2, <2>3, <3>1
    <3>3. QED
      BY <1>2, <2>1, <2>2, <3>1, <3>2 DEF IdOf
  <2>4. QED
    BY <2>3 DEF Classed
<1>9. CASE Claim(t) \/ Close(t) \/ RegisterClass(t) \/ Connect(t) \/ ActivationEnds(t) \/ Refused(t)
  <2>1. raw' = raw /\ clsid' = clsid
    BY <1>9 DEF Claim, Close, RegisterClass, Connect, ActivationEnds, Refused, store
  <2>2. QED
    BY <1>1, <2>1
<1>10. CASE \/ CreateChannelWithRemoteId(t) \/ ForegroundActivator(t) \/ AddSink(t) \/ RemoveSink(t)
            \/ AddToastRegistrationMapping(t)
  <2>1. raw' = raw /\ clsid' = clsid
    BY <1>10 DEF CreateChannelWithRemoteId, ForegroundActivator, AddSink, RemoveSink,
                 AddToastRegistrationMapping, store
  <2>2. QED
    BY <1>1, <2>1
<1>11. CASE AddListener(t) \/ InsertListener(t) \/ CancelTimer(t) \/ UnregisterLongRunningActivator(t)
  <2>1. raw' = raw /\ clsid' = clsid
    BY <1>11 DEF AddListener, InsertListener, CancelTimer, UnregisterLongRunningActivator, store
  <2>2. QED
    BY <1>1, <2>1
<1>12. CASE RemoveListener(t) \/ EraseListener(t) \/ IsEmpty(t) \/ SetupTimer(t)
  <2>1. raw' = raw /\ clsid' = clsid
    BY <1>12 DEF RemoveListener, EraseListener, IsEmpty, SetupTimer, store
  <2>2. QED
    BY <1>1, <2>1
<1>13. QED
  BY <1>5, <1>6, <1>7, <1>8, <1>9, <1>10, <1>11, <1>12 DEF ThreadStep

\* Of an app that has not overlapped its operations one thread is in the platform.
LEMMA OwnMark ==
  ASSUME IInv, NEW t \in Threads, Locked(t), HasId(t), ~app[AppOf[t]].mixed, NEW u \in Threads, HasId(u),
         thread[u].id = thread[t].id
  PROVE  u = t
<1>1. /\ AppOf[t] \in Apps /\ Whole(AppOf[t]) /\ Op(t) # "none" /\ thread[t].id[1] = AppOf[t]
  BY LockedFacts
<1>2. AppOf[u] \in Apps /\ Whole(AppOf[u])
  BY ThreadFacts DEF IInv
<1>3. Placed(u) /\ thread[u].inside # "none"
  BY <1>2 DEF Whole, ThreadInv, HasId
<1>4. Op(u) # "none" /\ AppOf[u] = AppOf[t]
  BY <1>1, <1>3 DEF Placed
<1>5. QED
  BY <1>1, <1>4 DEF Whole, Apart

\* The steps of a thread that adds a listener or removes one: only its own
\* identifier matters.
OwnBooked(t, i) ==
    /\ i \in wpn.sinks => i \in listeners \/ i \in wpn.stray \/ Inside(t, "insert")
    /\ i \in listeners => i \in wpn.sinks \/ Inside(t, "erase")
    /\ i \in wpn.stray \/ Inside(t, "insert") => i \in wpn.sinks
    /\ Inside(t, "erase") /\ i \in wpn.sinks => i \in wpn.stray

LEMMA OwnBefore ==
  ASSUME IInv, Books, NEW t \in Threads, Locked(t), HasId(t), ~app[AppOf[t]].mixed
  PROVE  OwnBooked(t, thread[t].id)
<1> DEFINE id == thread[t].id
<1>1. id \in Ids /\ id[1] = AppOf[t]
  BY LockedFacts
<1>2. Booked(id)
  BY <1>1 DEF Books
<1>3. In("insert", id) <=> Inside(t, "insert")
  BY OwnMark DEF In, Inside, HasId
<1>4. In("erase", id) <=> Inside(t, "erase")
  BY OwnMark DEF In, Inside, HasId
<1>5. QED
  BY <1>2, <1>3, <1>4 DEF Booked, OwnBooked

LEMMA OwnAfter ==
  ASSUME IInv, Books, NEW t \in Threads, Locked(t), HasId(t), Others(t), Grows,
         thread'[t].inside = "none" \/ thread'[t].id = thread[t].id,
         \A i \in Ids : i # thread[t].id =>
            /\ i \in listeners' <=> i \in listeners
            /\ i \in wpn'.sinks <=> i \in wpn.sinks
            /\ i \in wpn'.stray <=> i \in wpn.stray,
         \A i \in Ids : ~app[i[1]].mixed => Classed(i)',
         ~app[AppOf[t]].mixed =>
            LET i == thread[t].id
                inserts == thread'[t].inside = "insert"
                erases == thread'[t].inside = "erase"
            IN /\ i \in wpn'.sinks => i \in listeners' \/ i \in wpn'.stray \/ inserts
               /\ i \in listeners' => i \in wpn'.sinks \/ erases
               /\ i \in wpn'.stray \/ inserts => i \in wpn'.sinks
               /\ erases /\ i \in wpn'.sinks => i \in wpn'.stray
  PROVE  Books'
<1>0. PICK id : id = thread[t].id
  OBVIOUS
<1>1. id \in Ids /\ id[1] = AppOf[t] /\ \A i \in Ids : i[1] \in Apps
  BY <1>0, LockedFacts DEF Ids
<1>2. \A u \in Threads : u # t => thread'[u] = thread[u]
  BY DEF Others
<1>3. ASSUME NEW i \in Ids, ~app'[i[1]].mixed
      PROVE  (Booked(i) /\ Classed(i))'
  <2>1. ~app[i[1]].mixed /\ Booked(i)
    BY <1>1, <1>3 DEF Grows, Books
  <2>2. CASE i # id
    <3>1. ASSUME NEW step \in {"insert", "erase"}
          PROVE  In(step, i)' <=> In(step, i)
      <4>1. ~(Inside(t, step) /\ thread[t].id = i)
        BY <1>0, <2>2
      <4>2. ~(thread'[t].inside = step /\ thread'[t].id = i)
        BY <1>0, <2>2
      <4>3. \A u \in Threads : u # t => (Inside(u, step)' <=> Inside(u, step)) /\ thread'[u].id = thread[u].id
        BY <1>2 DEF Inside
      <4>4. QED
        BY <4>1, <4>2, <4>3 DEF In, Inside
    <3>2. (In("insert", i)' <=> In("insert", i)) /\ (In("erase", i)' <=> In("erase", i))
      BY <3>1
    <3>3. Booked(i)'
      BY <1>0, <2>1, <2>2, <3>2 DEF Booked
    <3>4. QED
      BY <1>3, <2>1, <3>3
  <2>3. CASE i = id
    <3>1. ~app[AppOf[t]].mixed
      BY <1>1, <2>1, <2>3
    <3>2. ASSUME NEW step \in {"insert", "erase"}
          PROVE  In(step, id)' <=> thread'[t].inside = step
      <4>1. \A u \in Threads : u # t => ~(Inside(u, step) /\ thread[u].id = id)
        BY <1>0, <3>1, OwnMark DEF Inside, HasId
      <4>2. \A u \in Threads : u # t => ~(thread'[u].inside = step /\ thread'[u].id = id)
        BY <1>2, <4>1 DEF Inside
      <4>3. thread'[t].inside = step => thread'[t].id = id
        BY <1>0
      <4>4. QED
        BY <4>2, <4>3 DEF In, Inside
    <3>3. (In("insert", id)' <=> thread'[t].inside = "insert") /\ (In("erase", id)' <=> thread'[t].inside = "erase")
      BY <3>2
    <3>4. Booked(id)'
      BY <1>0, <3>1, <3>3 DEF Booked
    <3>5. QED
      BY <1>3, <2>1, <2>3, <3>4
  <2>4. QED
    BY <2>2, <2>3
<1>4. QED
  BY <1>3 DEF Books

LEMMA AddListenerBooks ==
  ASSUME IInv, Books, NEW t \in Threads, AddListener(t)
  PROVE  Books'
<1> DEFINE id == thread[t].id
<1>1. Inside(t, "listen") /\ listeners' = listeners
  BY DEF AddListener
<1>2. Locked(t) /\ HasId(t) /\ ~Marked(t)
  BY <1>1 DEF Inside, Locked, Shared, HasId, Marked
<1>3. /\ TypeOK /\ id \in Ids /\ id[1] = AppOf[t] /\ AppOf[t] \in Apps
      /\ wpn \in [trusted : SUBSET Ids, channels : SUBSET Ids, sinks : SUBSET Ids, stray : SUBSET Ids]
  BY <1>2, LockedFacts DEF TypeOK
<1>4. CASE Failed(t, FALSE) /\ UNCHANGED wpn
  <2>1. MarksKept /\ Grows
    BY <1>2, <1>3, <1>4, FailMarks
  <2>2. \A i \in Ids : ~app[i[1]].mixed => Classed(i)'
    BY <2>1, QuietClasses DEF ThreadStep
  <2>3. QED
    BY <1>1, <1>4, <2>1, <2>2, KeptBooks
<1>5. CASE /\ wpn' = [wpn EXCEPT !.sinks = wpn.sinks \cup {id}]
           /\ Enter(t, "insert", id) /\ UNCHANGED <<app, foreground>>
  <2>1. Entering(t, "insert", id)
    BY <1>2, <1>3, <1>5, LockedFacts, EnterFacts DEF Shared
  <2>2. Others(t) /\ app' = app /\ thread'[t].inside = "insert" /\ thread'[t].id = id
    BY <2>1 DEF Entering
  <2>3. Grows
    BY <2>2 DEF Grows
  <2>4. \A i \in Ids : ~app[i[1]].mixed => Classed(i)'
    BY <2>3, QuietClasses DEF ThreadStep
  <2>5. wpn'.sinks = wpn.sinks \cup {id} /\ wpn'.stray = wpn.stray
    BY <1>3, <1>5
  <2>6. ~app[AppOf[t]].mixed => OwnBooked(t, id)
    BY <1>2, OwnBefore
  <2>7. ~app[AppOf[t]].mixed =>
            /\ id \in wpn'.sinks => id \in listeners' \/ id \in wpn'.stray \/ thread'[t].inside = "insert"
            /\ id \in listeners' => id \in wpn'.sinks \/ thread'[t].inside = "erase"
            /\ id \in wpn'.stray \/ thread'[t].inside = "insert" => id \in wpn'.sinks
            /\ thread'[t].inside = "erase" /\ id \in wpn'.sinks => id \in wpn'.stray
    BY <1>1, <2>2, <2>5, <2>6 DEF OwnBooked
  <2>8. \A i \in Ids : i # thread[t].id =>
            /\ i \in listeners' <=> i \in listeners
            /\ i \in wpn'.sinks <=> i \in wpn.sinks
            /\ i \in wpn'.stray <=> i \in wpn.stray
    BY <1>1, <2>5
  <2>9. QED
    BY <1>2, <2>2, <2>3, <2>4, <2>7, <2>8, OwnAfter
<1>6. QED
  BY <1>4, <1>5 DEF AddListener

LEMMA InsertListenerBooks ==
  ASSUME IInv, Books, NEW t \in Threads, InsertListener(t)
  PROVE  Books'
<1> DEFINE id == thread[t].id
<1>1. Inside(t, "insert")
  BY DEF InsertListener
<1>2. Locked(t) /\ HasId(t)
  BY <1>1 DEF Inside, Locked, Shared, HasId
<1>3. /\ TypeOK /\ id \in Ids /\ id[1] = AppOf[t] /\ AppOf[t] \in Apps /\ Op(t) # "none" /\ Placed(t)
      /\ wpn \in [trusted : SUBSET Ids, channels : SUBSET Ids, sinks : SUBSET Ids, stray : SUBSET Ids]
      /\ Live(t) => PlaceOf(Op(t), thread[t].at)
  BY <1>2, LockedFacts DEF TypeOK
<1>4. ~app[AppOf[t]].mixed => OwnBooked(t, id)
  BY <1>2, OwnBefore
<1>5. ASSUME Others(t), Grows, thread'[t].inside \in {"none", "cancel"},
             thread'[t].inside = "none" \/ thread'[t].id = id, wpn'.sinks = wpn.sinks,
             \/ listeners' = listeners \cup {id} /\ wpn'.stray = wpn.stray \ {id}
             \/ listeners' = listeners /\ wpn'.stray = wpn.stray \cup {id}
      PROVE  Books'
  <2>1. \A i \in Ids : ~app[i[1]].mixed => Classed(i)'
    BY <1>5, QuietClasses DEF ThreadStep
  <2>2. ~app[AppOf[t]].mixed =>
            /\ id \in wpn'.sinks => id \in listeners' \/ id \in wpn'.stray \/ thread'[t].inside = "insert"
            /\ id \in listeners' => id \in wpn'.sinks \/ thread'[t].inside = "erase"
            /\ id \in wpn'.stray \/ thread'[t].inside = "insert" => id \in wpn'.sinks
            /\ thread'[t].inside = "erase" /\ id \in wpn'.sinks => id \in wpn'.stray
    BY <1>1, <1>4, <1>5 DEF OwnBooked
  <2>3. \A i \in Ids : i # thread[t].id =>
            /\ i \in listeners' <=> i \in listeners
            /\ i \in wpn'.sinks <=> i \in wpn.sinks
            /\ i \in wpn'.stray <=> i \in wpn.stray
    BY <1>5
  <2>4. QED
    BY <1>2, <1>5, <2>1, <2>2, <2>3, OwnAfter
<1>6. CASE /\ listeners' = listeners \cup {id} /\ wpn' = [wpn EXCEPT !.stray = wpn.stray \ {id}]
           /\ Enter(t, "cancel", id) /\ UNCHANGED <<app, foreground>>
  <2>1. Entering(t, "cancel", id)
    BY <1>2, <1>3, <1>6, LockedFacts, EnterFacts DEF Shared
  <2>2. Others(t) /\ app' = app /\ thread'[t].inside = "cancel" /\ thread'[t].id = id
    BY <2>1 DEF Entering
  <2>3. wpn'.sinks = wpn.sinks /\ wpn'.stray = wpn.stray \ {id}
    BY <1>3, <1>6
  <2>4. Grows
    BY <2>2 DEF Grows
  <2>5. QED
    BY <1>5, <1>6, <2>2, <2>3, <2>4
<1>7. CASE /\ wpn' = [wpn EXCEPT !.stray = wpn.stray \cup {id}]
           /\ Failed(t, FALSE) /\ UNCHANGED listeners
  <2>1. Live(t) => Op(t) # "Undo"
    BY <1>1, <1>3 DEF Placed, PlaceOf, Current, Inside
  <2>2. Op(t) # "Undo"
    BY <2>1 DEF Live
  <2>3. Failing(t)
    BY <1>3, <1>7, FailFacts
  <2>4. Others(t) /\ SameClient(AppOf[t])
    BY <2>2, <2>3 DEF Failing
  <2>5. Grows
    BY <2>4 DEF Others, SameClient, Grows
  <2>6. thread'[t].inside = "none"
    BY <2>2, <2>3 DEF Failing, Freed, Moved
  <2>7. wpn'.sinks = wpn.sinks /\ wpn'.stray = wpn.stray \cup {id}
    BY <1>3, <1>7
  <2>8. QED
    BY <1>5, <1>7, <2>4, <2>5, <2>6, <2>7
<1>8. QED
  BY <1>6, <1>7 DEF InsertListener

LEMMA DropListenerBooks ==
  ASSUME IInv, Books, NEW t \in Threads, RemoveListener(t) \/ EraseListener(t)
  PROVE  Books'
<1> DEFINE id == thread[t].id
<1>1. /\ Inside(t, "unlisten") \/ Inside(t, "erase")
      /\ app' = app
      /\ Enter(t, "erase", id) \/ Enter(t, "forget", id)
  BY DEF RemoveListener, EraseListener
<1>2. Locked(t) /\ HasId(t)
  BY <1>1 DEF Inside, Locked, Shared, HasId
<1>3. /\ TypeOK /\ id \in Ids /\ id[1] = AppOf[t] /\ AppOf[t] \in Apps
      /\ wpn \in [trusted : SUBSET Ids, channels : SUBSET Ids, sinks : SUBSET Ids, stray : SUBSET Ids]
  BY <1>2, LockedFacts DEF TypeOK
<1>4. ~app[AppOf[t]].mixed => OwnBooked(t, id)
  BY <1>2, OwnBefore
<1>5. Entering(t, "erase", id) \/ Entering(t, "forget", id)
  BY <1>1, <1>2, <1>3, LockedFacts, EnterFacts DEF Shared
<1>6. Others(t) /\ thread'[t].id = id
  BY <1>5 DEF Entering
<1>7. Grows
  BY <1>1 DEF Grows
<1>8. \A i \in Ids : ~app[i[1]].mixed => Classed(i)'
  BY <1>7, QuietClasses DEF ThreadStep
<1>9. CASE RemoveListener(t)
  <2>1. /\ Inside(t, "unlisten") /\ listeners' = listeners /\ Enter(t, "erase", id)
        /\ \/ wpn' = [wpn EXCEPT !.sinks = wpn.sinks \ {id}, !.stray = wpn.stray \ {id}]
           \/ wpn' = [wpn EXCEPT !.stray = wpn.stray \cup (wpn.sinks \cap {id})]
    BY <1>3, <1>9 DEF RemoveListener, memory
  <2>2. thread'[t].inside = "erase"
    BY <1>3, <2>1, ThreadFacts DEF Enter, TypeOK, ThreadType
  <2>3. \/ wpn'.sinks = wpn.sinks \ {id} /\ wpn'.stray = wpn.stray \ {id}
        \/ wpn'.sinks = wpn.sinks /\ wpn'.stray = wpn.stray \cup (wpn.sinks \cap {id})
    BY <1>3, <2>1
  <2>4. ~app[AppOf[t]].mixed =>
            /\ id \in wpn'.sinks => id \in listeners' \/ id \in wpn'.stray \/ thread'[t].inside = "insert"
            /\ id \in listeners' => id \in wpn'.sinks \/ thread'[t].inside = "erase"
            /\ id \in wpn'.stray \/ thread'[t].inside = "insert" => id \in wpn'.sinks
            /\ thread'[t].inside = "erase" /\ id \in wpn'.sinks => id \in wpn'.stray
    BY <1>4, <2>1, <2>2, <2>3 DEF OwnBooked
  <2>5. \A i \in Ids : i # thread[t].id =>
            /\ i \in listeners' <=> i \in listeners
            /\ i \in wpn'.sinks <=> i \in wpn.sinks
            /\ i \in wpn'.stray <=> i \in wpn.stray
    BY <2>1, <2>3
  <2>6. QED
    BY <1>2, <1>6, <1>7, <1>8, <2>4, <2>5, OwnAfter
<1>10. CASE EraseListener(t)
  <2>1. Inside(t, "erase") /\ listeners' = listeners \ {id} /\ Enter(t, "forget", id) /\ wpn' = wpn
    BY <1>10 DEF EraseListener
  <2>2. thread'[t].inside = "forget"
    BY <1>3, <2>1, ThreadFacts DEF Enter, TypeOK, ThreadType
  <2>3. ~app[AppOf[t]].mixed =>
            /\ id \in wpn'.sinks => id \in listeners' \/ id \in wpn'.stray \/ thread'[t].inside = "insert"
            /\ id \in listeners' => id \in wpn'.sinks \/ thread'[t].inside = "erase"
            /\ id \in wpn'.stray \/ thread'[t].inside = "insert" => id \in wpn'.sinks
            /\ thread'[t].inside = "erase" /\ id \in wpn'.sinks => id \in wpn'.stray
    BY <1>4, <2>1, <2>2 DEF OwnBooked, Inside
  <2>4. \A i \in Ids : i # thread[t].id =>
            /\ i \in listeners' <=> i \in listeners
            /\ i \in wpn'.sinks <=> i \in wpn.sinks
            /\ i \in wpn'.stray <=> i \in wpn.stray
    BY <2>1
  <2>5. QED
    BY <1>2, <1>6, <1>7, <1>8, <2>3, <2>4, OwnAfter
<1>11. QED
  BY <1>9, <1>10

\* The process's own steps and those of the apps and of wpncore.
LEMMA ProcessBooks ==
  ASSUME IInv, Books, TimerFires \/ StartupTask \/ WaitReturns \/ Shutdown \/ Initialize \/ Exit
  PROVE  Books'
<1>1. /\ raw' = raw /\ clsid' = clsid /\ app' = app /\ thread' = thread
  BY DEF TimerFires, StartupTask, WaitReturns, Shutdown, Initialize, Exit, store
<1>2. MarksKept /\ Grows
  BY <1>1 DEF MarksKept, Grows
<1>3. \A i \in Ids : ~app[i[1]].mixed => Classed(i)'
  BY <1>1, <1>2, ClassedKept
<1>4. /\ TypeOK /\ Process
      /\ wpn \in [trusted : SUBSET Ids, channels : SUBSET Ids, sinks : SUBSET Ids, stray : SUBSET Ids]
  BY DEF IInv, TypeOK
<1>5. CASE TimerFires \/ StartupTask \/ WaitReturns \/ Shutdown \/ (Initialize /\ UNCHANGED <<listeners, wpn>>)
  <2>1. listeners' = listeners /\ wpn' = wpn
    BY <1>5 DEF TimerFires, StartupTask, WaitReturns, Shutdown, memory
  <2>2. QED
    BY <1>2, <1>3, <2>1, KeptBooks
<1>6. ASSUME Initialize \/ Exit, lrp.state \notin {"up", "awake"}, listeners' = wpn'.sinks,
             \A i \in Ids : ~app[i[1]].mixed => i \notin wpn'.stray
      PROVE  Books'
  <2>1. \A i \in Ids, step \in {"insert", "erase"} : ~In(step, i)
    BY <1>4, <1>6 DEF Process, Locks, Locked, Shared, In, Inside
  <2>2. \A i \in Ids, step \in {"insert", "erase"} : ~In(step, i)'
    BY <1>1, <2>1 DEF In, Inside
  <2>3. \A i \in Ids : ~app[i[1]].mixed => Booked(i)'
    BY <1>6, <2>2 DEF Booked
  <2>4. QED
    BY <1>1, <1>3, <2>3 DEF Books
<1>7. CASE Initialize /\ ~UNCHANGED <<listeners, wpn>>
  <2>1. /\ lrp.state = "starting" /\ listeners' = Loadable
        /\ wpn' = [wpn EXCEPT !.sinks = wpn.sinks \cup Loadable]
    BY <1>7 DEF Initialize
  <2>2. wpn.sinks = {}
    BY <1>4, <2>1 DEF Process, Cleared
  <2>3. wpn'.sinks = Loadable /\ wpn'.stray = wpn.stray
    BY <1>4, <2>1, <2>2
  <2>4. \A i \in Ids : ~app[i[1]].mixed => i \notin wpn.stray
    BY <2>2 DEF Books, Booked
  <2>5. QED
    BY <1>6, <1>7, <2>1, <2>3, <2>4
<1>8. CASE Exit
  <2>1. lrp.state = "stopping" /\ listeners' = {} /\ wpn' = [wpn EXCEPT !.sinks = {}, !.stray = {}]
    BY <1>8 DEF Exit
  <2>2. wpn'.sinks = {} /\ wpn'.stray = {}
    BY <1>4, <2>1
  <2>3. QED
    BY <1>6, <1>8, <2>1, <2>2
<1>9. QED
  BY <1>5, <1>7, <1>8

LEMMA AppBooks ==
  ASSUME IInv, Books,
         \/ \E a \in Apps : AppEnds(a) \/ AppStarts(a)
         \/ \E i \in Ids : OnRawNotificationReceived(i)
         \/ InvocationEnds
         \/ \E t \in Threads, o \in Ops : Start(t, o)
         \/ UNCHANGED vars
  PROVE  Books'
<1>1. /\ TypeOK /\ thread \in [Threads -> ThreadType] /\ app \in [Apps -> AppType]
      /\ \A i \in Ids : i[1] \in Apps
  BY DEF IInv, TypeOK, Ids
<1>2. ASSUME MarksKept, Grows, raw' = raw, clsid' = clsid, listeners' = listeners, wpn' = wpn
      PROVE  Books'
  <2>1. \A i \in Ids : ~app[i[1]].mixed => Classed(i)'
    BY <1>2, ClassedKept
  <2>2. QED
    BY <1>2, <2>1, KeptBooks
<1>3. ASSUME thread' = thread, app' = app \/ \E a \in Apps : app' = [app EXCEPT ![a].alive = TRUE]
      PROVE  MarksKept /\ Grows
  BY <1>1, <1>3 DEF MarksKept, Grows, AppType
<1>4. CASE \E a \in Apps : AppStarts(a)
  <2>1. PICK a \in Apps : AppStarts(a)
    BY <1>4
  <2>2. /\ raw' = raw /\ clsid' = clsid /\ listeners' = listeners /\ wpn' = wpn /\ thread' = thread
        /\ app' = [app EXCEPT ![a].alive = TRUE]
    BY <2>1 DEF AppStarts, store, memory
  <2>3. QED
    BY <1>2, <1>3, <2>2
<1>5. CASE \E i \in Ids : OnRawNotificationReceived(i)
  <2>1. PICK i \in Ids : OnRawNotificationReceived(i)
    BY <1>5
  <2>2. /\ raw' = raw /\ clsid' = clsid /\ listeners' = listeners /\ wpn' = wpn /\ thread' = thread
        /\ app' = app \/ Launch(i[1])
    <3>1. UNCHANGED <<store, wpn, lrp, memory, thread>>
      BY Zenon, <2>1 DEF OnRawNotificationReceived
    <3>2. IF foreground[i] \in Sinks THEN UNCHANGED app ELSE Launch(i[1])
      BY Zenon, <2>1 DEF OnRawNotificationReceived
    <3>3. QED
      BY <3>1, <3>2 DEF store, memory
  <2>3. app' = app \/ app' = [app EXCEPT ![i[1]].alive = TRUE]
    BY <2>2 DEF Launch
  <2>4. QED
    BY <1>1, <1>2, <1>3, <2>2, <2>3
<1>6. CASE InvocationEnds
  <2>1. note.id \in Ids
    BY <1>1, <1>6 DEF InvocationEnds, TypeOK
  <2>2. /\ raw' = raw /\ clsid' = clsid /\ listeners' = listeners /\ wpn' = wpn /\ thread' = thread
    BY <1>6 DEF InvocationEnds, store
  <2>3. app' = app \/ app' = [app EXCEPT ![note.id[1]].alive = TRUE]
    BY <1>6 DEF InvocationEnds, Launch
  <2>4. QED
    BY <1>1, <1>2, <1>3, <2>1, <2>2, <2>3
<1>7. CASE \E a \in Apps : AppEnds(a)
  <2>1. PICK a \in Apps : AppEnds(a)
    BY <1>7
  <2>2. /\ raw' = raw /\ clsid' = clsid /\ listeners' = listeners /\ wpn' = wpn
    BY <2>1 DEF AppEnds, store
  <2>3. EndedBy(a, None)
    BY <1>1, <2>1, EndFacts DEF AppEnds
  <2>4. None \notin Threads
    BY ShapeAssumption
  <2>5. MarksKept /\ Grows
    BY <2>3, <2>4 DEF EndedBy, MarksKept, Grows, Locked, Freed, Shared
  <2>6. QED
    BY <1>2, <2>2, <2>5
<1>8. CASE \E t \in Threads, o \in Ops : Start(t, o)
  <2>1. PICK t \in Threads, o \in Ops : Start(t, o)
    BY <1>8
  <2>2. /\ raw' = raw /\ clsid' = clsid /\ listeners' = listeners /\ wpn' = wpn
    BY Zenon, <2>1 DEF Start, store, memory
  <2>3. AppOf[t] \in Apps /\ Op(t) = "none"
    <3>1. MayStart(t, o)
      BY Zenon, <2>1 DEF Start
    <3>2. QED
      BY <1>1, <3>1, ThreadFacts DEF MayStart
  <2>4. Inside(t, "none")
    BY <2>3 DEF IInv, Whole, ThreadInv, Placed, Inside
  <2> DEFINE a == AppOf[t]
             at == IF o = "UnregisterAll" /\ ~app[a].fg THEN 3 ELSE 1
             new == [Idle(thread[t].left - 1) EXCEPT !.op = o, !.at = at]
             mixed == app[a].mixed \/ \E u \in Threads : AppOf[u] = a /\ Op(u) # "none"
             registering == app[a].registering
                              \/ (o # "CreateChannel" /\ ~(o = "UnregisterAll" /\ ~app[a].fg))
             com == app[a].com /\ o \notin {"Unregister", "UnregisterAll"}
  <2>5. thread' = [thread EXCEPT ![t] = new]
    BY <2>1, Zenon DEF Start
  <2>6. app' = [app EXCEPT ![a].mixed = mixed, ![a].registering = registering, ![a].com = com]
    BY <2>1, Zenon DEF Start
  <2>7. MarksKept
    <3>1. new.inside = "none"
      <4> HIDE DEF at
      <4> QED BY DEF Idle
    <3> HIDE DEF new
    <3>2. thread'[t].inside = "none" /\ \A u \in Threads : u # t => thread'[u] = thread[u]
      BY <1>1, <2>5, <3>1
    <3>3. QED
      BY <2>4, <3>2 DEF MarksKept, Inside
  <2>8. Grows
    <3>1. app[a] \in AppType /\ (app[a].mixed => mixed)
      BY <1>1, <2>3
    <3> HIDE DEF mixed, registering, com
    <3>2. app' = [app EXCEPT ![a] = [app[a] EXCEPT !.mixed = mixed, !.registering = registering, !.com = com]]
      BY <1>1, <2>3, <2>6
    <3>3. QED
      BY <1>1, <2>3, <3>1, <3>2 DEF Grows, AppType
  <2>9. QED
    BY <1>2, <2>2, <2>7, <2>8
<1>9. CASE UNCHANGED vars
  <2>1. /\ raw' = raw /\ clsid' = clsid /\ listeners' = listeners /\ wpn' = wpn /\ thread' = thread /\ app' = app
    BY <1>9 DEF vars, store, memory
  <2>2. QED
    BY <1>2, <1>3, <2>1
<1>10. QED
  BY <1>4, <1>5, <1>6, <1>7, <1>8, <1>9

LEMMA BooksInv ==
  ASSUME IInv, Books, [Next]_vars
  PROVE  Books'
<1>1. CASE \E t \in Threads : ThreadStep(t)
  <2>1. PICK t \in Threads : ThreadStep(t)
    BY <1>1
  <2>2. CASE AddListener(t) \/ RemoveListener(t)
    BY <2>2, AddListenerBooks, DropListenerBooks
  <2>3. CASE ~AddListener(t) /\ ~RemoveListener(t) /\ Marked(t)
    <3>1. \A call : ~At(t, call)
      BY <2>3 DEF At, Marked
    <3>2. \A step : Inside(t, step) => step \in {"insert", "erase"}
      BY <2>3 DEF Inside, Marked
    <3>3. ~Claim(t) /\ ~Close(t) /\ ~RegisterClass(t)
      BY <3>1, Zenon DEF Claim, Close, RegisterClass
    <3>4. ~Connect(t) /\ ~ActivationEnds(t) /\ ~Refused(t) /\ ~ForegroundActivator(t)
      <4>1. ~Connect(t) /\ ~Refused(t) /\ ~ForegroundActivator(t)
        BY <3>1, Zenon DEF Connect, Refused, ForegroundActivator
      <4>2. ~Inside(t, "activating")
        BY <3>2
      <4>3. ~ActivationEnds(t)
        BY <4>2, Zenon DEF ActivationEnds
      <4>4. QED
        BY <4>1, <4>3
    <3>5. /\ ~RegisterFullTrustApplication(t) /\ ~UnregisterFullTrustApplication(t)
          /\ ~CreateChannelWithRemoteId(t) /\ ~AddToastRegistrationMapping(t)
      <4>1. ~RegisterFullTrustApplication(t) /\ ~UnregisterFullTrustApplication(t)
        BY <3>1, Zenon DEF RegisterFullTrustApplication, UnregisterFullTrustApplication
      <4>2. ~CreateChannelWithRemoteId(t) /\ ~AddToastRegistrationMapping(t)
        BY <3>1, Zenon DEF CreateChannelWithRemoteId, AddToastRegistrationMapping
      <4>3. QED
        BY <4>1, <4>2
    <3>6. ~RegisterLongRunningActivator(t) /\ ~UnregisterLongRunningActivator(t)
      BY <3>1, Zenon DEF RegisterLongRunningActivator, UnregisterLongRunningActivator
    <3>7. ~AddSink(t) /\ ~RemoveSink(t) /\ ~CancelTimer(t) /\ ~Forget(t) /\ ~IsEmpty(t) /\ ~SetupTimer(t)
      BY <3>2 DEF AddSink, RemoveSink, CancelTimer, Forget, IsEmpty, SetupTimer
    <3>8. InsertListener(t) \/ EraseListener(t)
      BY <2>1, <2>3, <3>3, <3>4, <3>5, <3>6, <3>7 DEF ThreadStep
    <3>9. QED
      BY <3>8, InsertListenerBooks, DropListenerBooks
  <2>4. CASE ~AddListener(t) /\ ~RemoveListener(t) /\ ~Marked(t)
    <3>1. TypeOK
      BY DEF IInv
    <3>2. /\ MarksKept /\ Grows /\ listeners' = listeners /\ wpn'.sinks = wpn.sinks
          /\ wpn'.stray = wpn.stray
      BY <2>1, <2>4, <3>1, QuietMarks
    <3>3. \A i \in Ids : ~app[i[1]].mixed => Classed(i)'
      BY <2>1, <3>2, QuietClasses
    <3>4. QED
      BY <3>2, <3>3, KeptBooks
  <2>5. QED
    BY <2>2, <2>3, <2>4
<1>2. CASE ~\E t \in Threads : ThreadStep(t)
  BY <1>2, ProcessBooks, AppBooks DEF Next, ProcessStep
<1>3. QED
  BY <1>1, <1>2

LEMMA InitBooks ==
  ASSUME Init
  PROVE  Books
<1>1. wpn.sinks = {} /\ wpn.stray = {} /\ listeners = {} /\ clsid = {}
  BY DEF Init
<1>2. \A t \in Threads : thread[t].inside = "none"
  BY DEF Init, Idle
<1>3. QED
  BY <1>1, <1>2 DEF Books, Booked, Classed, In, Inside

\* The listeners and wpncore's sinks are the same but for one being added or
\* removed and for the strays (NotificationListenerManager.cpp:24-52).
THEOREM ListenersKept == Spec => [](IInv /\ Books)
<1>1. Init => IInv /\ Books
  BY InitInv, InitBooks
<1>2. IInv /\ Books /\ [Next]_vars => IInv' /\ Books'
  BY NextInv, BooksInv
<1>3. QED
  BY <1>1, <1>2, PTL DEF Spec

-----------------------------------------------------------------------------
(* What follows.                                                            *)

\* The variables keep their types.
THEOREM TypeCorrect == Spec => []TypeOK
<1>1. IInv => TypeOK
  BY DEF IInv
<1>2. QED
  BY <1>1, InductiveInvariant, PTL

\* The process shuts down with a listener in its list only when it had decided
\* to before the listener came (Shutdown, WaitForEvent, Setup).
THEOREM ProcessStays == Spec => []TrackedStays
<1>1. ASSUME IInv
      PROVE  TrackedStays
  <2>1. \A t \in Threads : thread[t].inside = "cancel" => lrp.state \in {"up", "awake"}
    BY <1>1 DEF IInv, Process, Locks, Locked, Shared
  <2>2. QED
    BY <1>1, <2>1 DEF IInv, Process, Early, TrackedStays
<1>2. QED
  BY <1>1, InductiveInvariant, PTL

\* Initialize finds the class of every channel's app that has ever listened.
THEOREM NextStartLoads == Spec => []PlatformStarts
<1>1. IInv => PlatformStarts
  BY DEF IInv, Process
<1>2. QED
  BY <1>1, InductiveInvariant, PTL

\* The process listens where wpncore delivers, and an app that has registered
\* with the process that runs has its listener and its sink there.
THEOREM RegistrationsStay == Spec => []RegistrationsKept
<1>1. ASSUME IInv, Books
      PROVE  RegistrationsKept
  <2>1. TypeOK /\ Process
    BY <1>1 DEF IInv
  <2>2. ListenersMatch
    <3>1. SUFFICES ASSUME \A t \in Threads : thread[t].inside \notin Shared, NEW i \in Ids, ~app[i[1]].mixed
                   PROVE  IF i \in wpn.stray THEN i \in wpn.sinks ELSE i \in listeners <=> i \in wpn.sinks
      BY DEF ListenersMatch
    <3>2. ~In("insert", i) /\ ~In("erase", i)
      BY <3>1 DEF In, Inside, Shared
    <3>3. QED
      BY <1>1, <3>1, <3>2 DEF Books, Booked
  <2>3. ASSUME NEW a \in Apps, app[a].fg, app[a].lr, ~Busy(a),
               lrp.state = "up", lrp.epoch = app[a].epoch
        PROVE  IdOf(a) \in listeners /\ foreground[IdOf(a)] \in Held
    <3>1. Whole(a)
      BY <1>1 DEF IInv
    <3>2. \A t \in Threads : AppOf[t] = a => ~Dropping(t)
      <4>1. ASSUME NEW t \in Threads, AppOf[t] = a
            PROVE  Op(t) = "none"
        BY <2>3, <3>1, <4>1 DEF Whole, ThreadInv, Progress, Busy
      <4>2. QED
        BY <3>1, <4>1 DEF Whole, ThreadInv, Placed, Dropping
    <3>3. Serving(a)
      BY <2>3, <3>2 DEF Serving
    <3>4. QED
      BY <2>3, <3>1, <3>3 DEF Whole, Client, Served, Running
  <2>4. RegisteredServed
    BY <2>3 DEF RegisteredServed, Held
  <2>5. QED
    BY <2>1, <2>2, <2>4 DEF RegistrationsKept
<1>2. QED
  BY <1>1, ListenersKept, PTL

\* Between Unregister's return and the next registration no handler of the
\* app's process runs.
THEOREM QuietOnceUnregistered == Spec => []QuietAfterUnregister
<1>1. ASSUME IInv
      PROVE  QuietAfterUnregister
  <2>1. SUFFICES ASSUME note.id # None, foreground[note.id] # "stale"
                 PROVE  app[note.id[1]].mixed \/ app[note.id[1]].fg \/ app[note.id[1]].viaChannel
    BY DEF QuietAfterUnregister
  <2>2. TypeOK /\ note.id \in Ids
    BY <1>1, <2>1 DEF IInv, TypeOK
  <2>3. note.id[1] \in Apps /\ foreground[note.id] = "sink"
    BY <1>1, <2>1, <2>2 DEF IInv, Process, Noticed, Sinks, Ids
  <2>4. QED
    BY <1>1, <2>2, <2>3 DEF IInv, Whole, Client, Tidy
<1>2. QED
  BY <1>1, InductiveInvariant, PTL

\* Another thread's step takes an operation from t only by ending its app.
LEMMA OthersKeep ==
  ASSUME TypeOK, NEW t \in Threads, NEW u \in Threads, u # t, ThreadStep(u)
  PROVE  thread'[t] = thread[t] \/ ~app'[AppOf[t]].alive
<1>1. thread \in [Threads -> ThreadType] /\ AppOf[u] \in Apps /\ AppOf[t] \in Apps
  BY ThreadFacts DEF TypeOK
<1>2. ASSUME NEW r, Failed(u, r)
      PROVE  thread'[t] = thread[t] \/ ~app'[AppOf[t]].alive
  <2>1. CASE Op(u) = "Undo"
    <3>1. Ended(AppOf[u], u)
      BY <1>2, <2>1 DEF Failed
    <3>2. EndedBy(AppOf[u], u)
      BY <1>1, <3>1, EndFacts
    <3>3. QED
      BY <3>2 DEF EndedBy
  <2>2. CASE Op(u) # "Undo"
    BY <1>1, <1>2, <2>2 DEF Failed
  <2>3. QED
    BY <2>1, <2>2
<1>3. ASSUME NEW x, ReturnedWith(u, x)
      PROVE  thread'[t] = thread[t]
  BY <1>1, <1>3 DEF ReturnedWith
<1>4. ASSUME NEW step, NEW id, Enter(u, step, id)
      PROVE  thread'[t] = thread[t]
  BY <1>1, <1>4 DEF Enter
<1>5. Returned(u) => thread'[t] = thread[t]
  BY <1>3 DEF Returned
<1>6. CASE Claim(u) \/ AddToastRegistrationMapping(u)
  BY <1>1, <1>6 DEF Claim, AddToastRegistrationMapping
<1>7. CASE Connect(u) \/ ActivationEnds(u)
  <2>1. Connected(u) => thread'[t] = thread[t]
    BY <1>1 DEF Connected
  <2>2. CASE Connect(u)
    BY <1>1, <1>2, <2>1, <2>2 DEF Connect
  <2>3. CASE ActivationEnds(u)
    BY <1>2, <2>1, <2>3 DEF ActivationEnds
  <2>4. QED
    BY <1>7, <2>2, <2>3
<1>8. CASE Close(u) \/ RegisterClass(u) \/ Refused(u)
  BY <1>2, <1>5, <1>8 DEF Close, RegisterClass, Refused
<1>9. CASE RegisterFullTrustApplication(u) \/ UnregisterFullTrustApplication(u)
             \/ CreateChannelWithRemoteId(u)
  BY <1>2, <1>3, <1>5, <1>9 DEF RegisterFullTrustApplication, UnregisterFullTrustApplication,
                                CreateChannelWithRemoteId
<1>10. CASE ForegroundActivator(u) \/ AddSink(u) \/ RemoveSink(u) \/ CancelTimer(u) \/ SetupTimer(u)
  BY <1>4, <1>5, <1>10 DEF ForegroundActivator, AddSink, RemoveSink, CancelTimer, SetupTimer
<1>11. CASE RegisterLongRunningActivator(u) \/ AddListener(u) \/ InsertListener(u)
  BY <1>2, <1>4, <1>5, <1>11 DEF RegisterLongRunningActivator, AddListener, InsertListener
<1>12. CASE \/ UnregisterLongRunningActivator(u) \/ RemoveListener(u) \/ EraseListener(u) \/ Forget(u)
            \/ IsEmpty(u)
  BY <1>4, <1>5, <1>12 DEF UnregisterLongRunningActivator, RemoveListener, EraseListener, Forget, IsEmpty
<1>13. QED
  BY <1>6, <1>7, <1>8, <1>9, <1>10, <1>11, <1>12 DEF ThreadStep

\* UnregisterAll returns with the step that drops the app's full trust.
LEMMA UnregisterAllSteps ==
  ASSUME IInv, Next, NEW t \in Threads, UnregisterAllReturns(t)
  PROVE  UnregisterFullTrustApplication(t)
<1>1. /\ At(t, "dropFullTrust") /\ Op(t) = "UnregisterAll" /\ Answers(t)
      /\ thread'[t].op = "none" /\ app'[AppOf[t]].alive
  BY DEF UnregisterAllReturns, Op
<1>2. /\ TypeOK /\ AppOf[t] \in Apps /\ Current(t) = "dropFullTrust" /\ thread[t].inside = "none"
      /\ thread'[t] # thread[t] /\ thread \in [Threads -> ThreadType]
  BY <1>1, AtFacts DEF Op, TypeOK
<1>3. CASE \E u \in Threads, o \in Ops : Start(u, o)
  <2>1. PICK u \in Threads, o \in Ops : Start(u, o)
    BY <1>3
  <2>2. MayStart(u, o) /\ \E new : thread' = [thread EXCEPT ![u] = new]
    BY <2>1, Zenon DEF Start
  <2>3. u # t
    BY <1>1, <2>2 DEF MayStart
  <2>4. QED
    BY <1>2, <2>2, <2>3
<1>4. CASE \E u \in Threads : ThreadStep(u)
  <2>1. ThreadStep(t)
    BY <1>1, <1>2, <1>4, OthersKeep
  <2>2. \A call : At(t, call) => call = "dropFullTrust"
    BY <1>2 DEF At
  <2>3. \A step : Inside(t, step) => step = "none"
    BY <1>2 DEF Inside
  <2>4. ~Claim(t) /\ ~Close(t) /\ ~RegisterClass(t) /\ ~Connect(t) /\ ~ActivationEnds(t) /\ ~Refused(t)
    BY <1>1, <2>2, <2>3 DEF Claim, Close, RegisterClass, Connect, ActivationEnds, Refused
  <2>5. /\ ~RegisterFullTrustApplication(t) /\ ~CreateChannelWithRemoteId(t) /\ ~ForegroundActivator(t)
        /\ ~AddSink(t) /\ ~RemoveSink(t) /\ ~AddToastRegistrationMapping(t)
    BY <2>2, <2>3 DEF RegisterFullTrustApplication, CreateChannelWithRemoteId, ForegroundActivator,
                      AddSink, RemoveSink, AddToastRegistrationMapping
  <2>6. /\ ~RegisterLongRunningActivator(t) /\ ~AddListener(t) /\ ~InsertListener(t) /\ ~CancelTimer(t)
        /\ ~UnregisterLongRunningActivator(t) /\ ~RemoveListener(t) /\ ~EraseListener(t) /\ ~Forget(t)
        /\ ~IsEmpty(t) /\ ~SetupTimer(t)
    BY <2>2, <2>3 DEF RegisterLongRunningActivator, AddListener, InsertListener, CancelTimer,
                      UnregisterLongRunningActivator, RemoveListener, EraseListener, Forget, IsEmpty, SetupTimer
  <2>7. QED
    BY <2>1, <2>4, <2>5, <2>6 DEF ThreadStep
<1>5. CASE \E a \in Apps : AppEnds(a)
  <2>1. PICK a \in Apps : AppEnds(a)
    BY <1>5
  <2>2. EndedBy(a, None)
    BY <1>2, <2>1, EndFacts DEF AppEnds
  <2>3. QED
    BY <1>1, <1>2, <2>2 DEF EndedBy
<1>6. CASE (\E a \in Apps : AppStarts(a)) \/ StartupTask \/ ProcessStep
  BY <1>2, <1>6 DEF AppStarts, StartupTask, ProcessStep, TimerFires, Initialize, WaitReturns, Shutdown, Exit
<1>7. CASE (\E i \in Ids : OnRawNotificationReceived(i)) \/ InvocationEnds
  <2>1. thread' = thread
    <3>1. CASE InvocationEnds
      BY <3>1, Zenon DEF InvocationEnds
    <3>2. CASE \E i \in Ids : OnRawNotificationReceived(i)
      BY <3>2, Zenon DEF OnRawNotificationReceived
    <3>3. QED
      BY <1>7, <3>1, <3>2
  <2>2. QED
    BY <1>2, <2>1
<1>8. QED
  BY <1>3, <1>4, <1>5, <1>6, <1>7 DEF Next

\* UnregisterAll's return leaves the process nothing of the app: no listener,
\* no sink, no identifier, no class identifier and no toast mapping.
THEOREM UnregisterAllCleans == Spec => UnregisterAllForgets
<1>1. ASSUME IInv, Books, [Next]_vars, NEW t \in Threads, UnregisterAllReturns(t),
             ~app[AppOf[t]].mixed, ~app[AppOf[t]].undone
      PROVE  Traces(AppOf[t])' = {} /\ AppOf[t] \notin toast'
  <2> DEFINE a == AppOf[t]
  <2>1. At(t, "dropFullTrust") /\ Op(t) = "UnregisterAll" /\ thread'[t].op = "none"
    BY <1>1 DEF UnregisterAllReturns, Op
  <2>2. /\ TypeOK /\ Process /\ a \in Apps /\ Whole(a) /\ ThreadInv(t) /\ Client(a)
        /\ Is(t, "UnregisterAll", 7)
    BY <1>1, <2>1, AtFacts DEF Whole, PlaceOf, Current, Is
  <2>3. ~Known(a)
    BY <1>1, <2>2 DEF ThreadInv, Alone, Is
  <2>4. ASSUME NEW i \in Ids, i[1] = a
        PROVE  /\ i # IdOf(i[1]) /\ foreground[i] = "none" /\ i \notin listeners
               /\ i \notin wpn.sinks \ wpn.stray /\ i \notin clsid
    <3>1. i # IdOf(a)
      BY <2>2, <2>3, IdFacts
    <3>2. foreground[i] = "none" /\ i \notin listeners
      BY <1>1, <2>2, <2>4, <3>1 DEF Client, Tidy
    <3>3. Booked(i) /\ Classed(i)
      BY <1>1, <2>4 DEF Books
    <3>4. ~In("insert", i)
      <4>1. SUFFICES ASSUME NEW u \in Threads, Inside(u, "insert"), thread[u].id = i
                     PROVE  FALSE
        BY DEF In
      <4>2. AppOf[u] = a /\ Op(u) # "none" /\ u # t
        <5>1. AppOf[u] \in Apps /\ Whole(AppOf[u]) /\ thread[u].inside = "insert"
          BY <1>1, <2>2, <4>1, ThreadFacts DEF IInv, Inside
        <5>2. Placed(u)
          BY <5>1 DEF Whole, ThreadInv
        <5>3. HasId(u)
          BY <5>1 DEF HasId
        <5>4. thread[u].id[1] = AppOf[u] /\ Op(u) # "none"
          BY <5>1, <5>2, <5>3 DEF Placed
        <5>5. thread[t].inside = "none"
          BY <2>1 DEF At
        <5>6. QED
          BY <2>4, <4>1, <5>1, <5>4, <5>5
      <4>3. QED
        BY <1>1, <2>1, <2>2, <4>2 DEF Whole, Apart
    <3>5. QED
      BY <1>1, <2>4, <3>1, <3>2, <3>3, <3>4 DEF Booked, Classed
  <2>5. a \notin toast
    BY <1>1, <2>2, <2>3 DEF Client, Mapped
  <2>6. UnregisterFullTrustApplication(t)
    <3>1. vars' # vars
      BY <2>1 DEF vars, Op
    <3>2. Next
      BY <1>1, <3>1
    <3>3. QED
      BY <1>1, <3>2, UnregisterAllSteps
  <2>7. /\ toast' = toast /\ listeners' = listeners /\ wpn' = wpn /\ foreground' = foreground
        /\ raw' = raw /\ clsid' = clsid
    BY <2>3, <2>6 DEF UnregisterFullTrustApplication
  <2>8. listeners \subseteq Ids /\ wpn.sinks \subseteq Ids /\ clsid \subseteq Ids
    BY <2>2 DEF TypeOK
  <2>9. Traces(a) = {}
    BY <2>4, <2>8 DEF Traces
  <2>10. Traces(a)' = Traces(a)
    BY <2>7 DEF Traces, IdOf
  <2>11. QED
    BY <2>5, <2>7, <2>9, <2>10
<1>2. IInv /\ Books /\ [Next]_vars
        => [\A t \in Threads :
              UnregisterAllReturns(t) /\ ~app[AppOf[t]].mixed /\ ~app[AppOf[t]].undone
              => Traces(AppOf[t])' = {} /\ AppOf[t] \notin toast']_vars
  BY <1>1
<1>3. QED
  BY <1>2, ListenersKept, PTL DEF Spec, UnregisterAllForgets
=============================================================================
