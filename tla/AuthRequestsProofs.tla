------------------------ MODULE AuthRequestsProofs -------------------------
(***************************************************************************)
(* Proofs about AuthRequests: for any number of requests, threads and      *)
(* senders, whatever they send and whenever they end, a request is         *)
(* completed by one thread and told once, its end is told, and a pending   *)
(* request's pipe is served.                                               *)
(*                                                                         *)
(* A step changes one thread and one request (Frame), so the invariant is  *)
(* a part for every thread and a part for every request.                   *)
(***************************************************************************)
EXTENDS AuthRequests, TLAPS

Constructing == Building \cup {"pushed"}

\* A callback holds no request while it serves its pipe, a constructor holds the new one.
Holds(t) ==
    /\ At(t, "idle") \/ At(t, "fired") \/ (t \in Requests /\ thr[t].pc \in Listening) => thr[t].op = NoOne
    /\ thr[t].pc \in {"built", "pushed"} => t \in Apps
    /\ (t \in Apps /\ thr[t].pc \in Constructing) \/ thr[t].pc \in Holding => thr[t].op \in Requests
    /\ At(t, "answer") => thr[t].what \in Contents

\* Only live operations are used.
LiveOnly(r) ==
    /\ op[r].life # "live" => /\ ~op[r].referenced /\ op[r].status = "Started" /\ op[r].told = 0
                              /\ ~op[r].cancelled /\ r \notin pending /\ ~Open(r)
    /\ \A t \in Threads : thr[t].op = r => op[r].life = "live"

\* The callback of r may have run too early; else its wait is set or it is running.
Listened(r) == op[r].early \/ pipe[r].armed \/ ~At(r, "idle")

\* A constructor's operation is used by its thread only; its pipe is open, and served when
\* the constructor is done.  Until it is launched nobody else constructs it.
Constructed(r) ==
    \A t \in Threads : thr[t].op = r /\ thr[t].pc \in Constructing =>
        /\ t \in Apps /\ ~op[r].referenced /\ ~op[r].handler
        /\ \A u \in Threads \ {t} : thr[u].op = r => thr[u].pc \notin Constructing
        /\ ~At(t, "pushed") => /\ r \notin pending /\ op[r].status = "Started" /\ Open(r)
                               /\ \A u \in Threads \ {t} : thr[u].op # r
        /\ At(t, "built") => Listened(r)

\* A request is in the list, or with the one thread that took it, until it ends.
OneTaker(r) ==
    /\ \A t, u \in Takers(r) : t = u
    /\ r \in pending => Takers(r) = {} /\ op[r].status = "Started"
    /\ Takers(r) # {} => op[r].status = "Started"
    /\ op[r].referenced \/ (\E t \in Threads : thr[t].op = r /\ At(t, "pushed")) =>
          op[r].status # "Started" \/ r \in pending \/ Takers(r) # {}

\* Its handler has been called, is being called by one thread, or is not called yet.
OneCall(r) ==
    /\ op[r].told = 0 \/ (op[r].told = 1 /\ op[r].handler /\ op[r].status # "Started")
    /\ \A t \in Threads : thr[t].op = r /\ At(t, "invoke") =>
          /\ op[r].told = 0 /\ op[r].handler /\ op[r].status # "Started"
          /\ \A u \in Threads : thr[u].op = r /\ At(u, "invoke") => u = t

\* Its end is told, and it ends when it is cancelled.
Told(r) ==
    /\ op[r].handler /\ op[r].status # "Started" =>
          \/ op[r].told = 1
          \/ \E t \in Threads : At(t, "invoke") /\ thr[t].op = r
          \/ op[r].status = "Completed" /\ ~op[r].result
    /\ op[r].cancelled => op[r].status # "Started" \/ Takers(r) # {}

\* Who destroys it is the last to hold it; a callback that holds it completes it, or is its
\* own and has failed.
LastHolder(r) ==
    \A t \in Threads : thr[t].op = r =>
        /\ At(t, "destroy") => /\ ~op[r].referenced /\ r \notin pending /\ ~Open(r)
                               /\ \A u \in Threads \ {t} : thr[u].op # r
        /\ t \in Requests /\ thr[t].pc \in Holding =>
              /\ thr[t].what \in Contents \/ (thr[t].what = "error" /\ t = r)
              /\ ~At(t, "held") => op[r].status # "Started"

Waiting(r) == r \in pending => Open(r) /\ Listened(r)

RequestInv(r) ==
    LiveOnly(r) /\ Constructed(r) /\ OneTaker(r) /\ OneCall(r) /\ Told(r) /\ LastHolder(r) /\ Waiting(r)

\* The pipes that are open differ in their states.
PipesDiffer ==
    \A q, r \in Requests : q # r /\ Open(q) /\ Open(r) => key[q] # key[r]

IInv ==
    /\ TypeOK /\ PipesDiffer
    /\ \A t \in Threads : Holds(t)
    /\ \A r \in Requests : RequestInv(r)

-----------------------------------------------------------------------------
(* Threads, and steps of one thread *)

LEMMA ThreadFacts ==
    /\ \A t \in Threads : t \in Requests <=> t \notin Apps
    /\ Requests \subseteq Threads /\ Apps \subseteq Threads
    /\ NoOne \notin Requests /\ NoOne \notin Threads /\ NoOne \notin Senders
BY NameAssumption DEF Threads

\* Thread t makes a step about request r: no other thread and no other request changes,
\* and a callback that works on another's request does not stop.
Frame(t, r) ==
    /\ t \in Threads /\ r \in Requests /\ key' = key
    /\ \A u \in Threads \ {t} : thr'[u] = thr[u]
    /\ \A q \in Requests \ {r} : op'[q] = op[q] /\ pipe'[q] = pipe[q] /\ (q \in pending' <=> q \in pending)
    /\ {thr[t].op, thr'[t].op} \subseteq {r, NoOne}
    /\ t \in Requests \ {r} => thr'[t].pc # "idle"

Typed ==
    /\ op' \in [Requests -> OpType] /\ pipe' \in [Requests -> PipeType]
    /\ thr' \in [Threads -> ThreadType] /\ pending' \subseteq Requests
    /\ key' \in [Requests -> States]
    /\ sender' \in [Senders -> [pc : {"idle", "connected", "true", "false"}, what : Contents \cup {"none"}]]

\* What a step is not about stays right.
LEMMA FrameKeeps ==
    ASSUME IInv, Typed, NEW t, NEW r, Frame(t, r), RequestInv(r)', Holds(t)', PipesDiffer'
    PROVE  IInv'
<1>1. \A u \in Threads : Holds(u)'
  BY DEF IInv, Frame, Holds, At
<1>2. ASSUME NEW q \in Requests, q # r PROVE RequestInv(q)'
  <2>1. /\ op'[q] = op[q] /\ pipe'[q] = pipe[q] /\ (q \in pending' <=> q \in pending)
        /\ RequestInv(q) /\ q # NoOne /\ q \in Threads
    BY <1>2, ThreadFacts DEF Frame, IInv
  <2>2. \A u \in Threads : thr[u].op = q \/ thr'[u].op = q => u # t /\ thr'[u] = thr[u]
    BY <1>2, <2>1 DEF Frame
  <2>3. Takers(q)' = Takers(q)
    BY <2>2 DEF Takers
  <2>4. Listened(q) => Listened(q)'
    BY <1>2, <2>1 DEF Listened, Frame, At
  <2>5. Open(q)' <=> Open(q)
    BY <2>1 DEF Open
  <2>6. LiveOnly(q)'
    BY <2>1, <2>2, <2>5 DEF RequestInv, LiveOnly
  <2>7. Constructed(q)'
    BY <2>1, <2>2, <2>4, <2>5 DEF RequestInv, Constructed, At
  <2>8. OneTaker(q)'
    BY <2>1, <2>2, <2>3 DEF RequestInv, OneTaker, At
  <2>9. OneCall(q)'
    BY <2>1, <2>2 DEF RequestInv, OneCall, At
  <2>10. Told(q)'
    BY <2>1, <2>2, <2>3 DEF RequestInv, Told, At
  <2>11. LastHolder(q)'
    BY <2>1, <2>2, <2>5 DEF RequestInv, LastHolder, At
  <2>12. Waiting(q)'
    BY <2>1, <2>4, <2>5 DEF RequestInv, Waiting
  <2> QED BY <2>6, <2>7, <2>8, <2>9, <2>10, <2>11, <2>12 DEF RequestInv
<1>3. \A q \in Requests : RequestInv(q)'
  BY <1>2 DEF Frame
<1>4. TypeOK'
  <2>1. \A u \in Threads : thr'[u].pc \in Holding => thr'[u].op # NoOne
    BY <1>1, ThreadFacts DEF Holds
  <2>2. \A q \in Requests : op'[q].life # "live" => pipe'[q].state = "closed" /\ q \notin pending'
    BY <1>3 DEF RequestInv, LiveOnly, Open
  <2> QED BY <2>1, <2>2 DEF Typed, TypeOK
<1> QED BY <1>1, <1>3, <1>4 DEF IInv

-----------------------------------------------------------------------------
(* Steps that serve a pipe *)

\* Thread t serves the pipe of r: it goes on or stops, and nothing but the pipe's wait, what
\* came through it and the history changes.  It does not stop without setting the wait of
\* an open pipe, unless the request is not pending.
Serves(t, r) ==
    /\ Frame(t, r) /\ r = Served(t)
    /\ thr[t].pc \in Listening \/ (t = r /\ thr[t].pc \in {"idle", "fired"})
    /\ thr'[t].pc \in Listening \cup {After(t)} \/ (t = r /\ thr'[t].pc = "fired")
    /\ thr'[t].op = thr[t].op /\ (thr'[t].pc = "answer" => thr'[t].what \in Contents)
    /\ op'[r] = [op[r] EXCEPT !.early = op'[r].early] /\ (op[r].early => op'[r].early)
    /\ pending' = pending
    /\ pipe'[r].state = "closed" <=> pipe[r].state = "closed"
    /\ thr'[t].pc = After(t) =>
          ~Open(r) \/ pipe'[r].armed \/ (r \notin pending /\ (op'[r].early \/ ~UnderConstruction(r)))
    /\ pipe[r].armed => pipe'[r].armed \/ thr'[t].pc = "fired"

LEMMA ServesKeeps ==
    ASSUME IInv, Typed, NEW t, NEW r, Serves(t, r)
    PROVE  IInv'
<1>1. /\ t \in Threads /\ r \in Requests /\ r \in Threads /\ r # NoOne
      /\ t \in Requests <=> t \notin Apps
      /\ Holds(t) /\ RequestInv(r)
  BY ThreadFacts DEF Serves, Frame, IInv
<1>2. /\ op'[r].life = op[r].life /\ op'[r].status = op[r].status
      /\ op'[r].result = op[r].result /\ op'[r].handler = op[r].handler
      /\ op'[r].referenced = op[r].referenced /\ op'[r].told = op[r].told
      /\ op'[r].cancelled = op[r].cancelled /\ (op[r].early => op'[r].early)
  <2>1. op[r] \in OpType
    BY <1>1 DEF IInv, TypeOK
  <2> QED BY <2>1 DEF Serves, OpType
<1>3. /\ t \in Requests => t = r /\ thr[t].op = NoOne
      /\ t \in Apps => thr[t].op = r /\ thr[t].pc \in Listening
  BY <1>1 DEF Serves, Served, Holds, At
<1>4. /\ \A u \in Threads : thr'[u].op = thr[u].op /\ (u # t => thr'[u] = thr[u])
      /\ pending' = pending /\ (Open(r)' <=> Open(r))
  BY DEF Serves, Frame, Open
<1>5. thr[t].pc \notin Holding \cup {"built", "pushed"} /\ thr'[t].pc \notin Holding \cup {"pushed"}
  BY <1>1, <1>3 DEF Serves, Holding, Listening, After
<1>6. Takers(r)' = Takers(r)
  BY <1>4, <1>5 DEF Takers, Holding
<1>7. Holds(t)'
  BY <1>1, <1>3, <1>4, <1>5 DEF Serves, Holds, At, After, Listening, Building, Constructing, Holding
<1>8. PipesDiffer'
  BY DEF Serves, Frame, IInv, PipesDiffer, Open
<1>9. LiveOnly(r)'
  BY <1>1, <1>2, <1>4 DEF RequestInv, LiveOnly
<1>10. Listened(r) => Listened(r)' \/ thr'[t].pc = After(t)
  BY <1>1, <1>2, <1>3, <1>4 DEF Serves, Listened, At, After, Listening
<1>11. Constructed(r)'
  <2> SUFFICES ASSUME NEW u \in Threads, thr'[u].op = r, thr'[u].pc \in Constructing
               PROVE  /\ u \in Apps /\ ~op'[r].referenced /\ ~op'[r].handler
                      /\ \A v \in Threads \ {u} : thr'[v].op = r => thr'[v].pc \notin Constructing
                      /\ thr'[u].pc # "pushed" => /\ r \notin pending' /\ op'[r].status = "Started" /\ Open(r)'
                                                  /\ \A v \in Threads \ {u} : thr'[v].op # r
                      /\ thr'[u].pc = "built" => Listened(r)'
    BY DEF Constructed, At
  <2>1. CASE t \in Apps
    <3>1. thr[t].op = r /\ thr[t].pc \in Constructing \ {"pushed", "built"}
      BY <1>3, <2>1 DEF Constructing, Building, Listening
    <3>2. /\ ~op[r].referenced /\ ~op[r].handler /\ r \notin pending
          /\ op[r].status = "Started" /\ Open(r) /\ \A v \in Threads \ {t} : thr[v].op # r
      BY <1>1, <3>1 DEF RequestInv, Constructed, At
    <3>3. u = t
      BY <1>4, <3>2
    <3>4. UnderConstruction(r)
      BY <1>3, <2>1 DEF UnderConstruction, Building
    <3>5. thr'[t].pc = "built" => Listened(r)'
      BY <1>1, <2>1, <3>2, <3>4 DEF Serves, Listened, After, Listening
    <3> QED BY <1>2, <1>4, <2>1, <3>2, <3>3, <3>5
  <2>2. CASE t \in Requests
    <3>1. u # t /\ thr'[u] = thr[u] /\ \A v \in Threads : thr'[v].op = r => v # t /\ thr'[v] = thr[v]
      BY <1>1, <1>3, <1>4, <2>2
    <3>2. /\ u \in Apps /\ ~op[r].referenced /\ ~op[r].handler
          /\ \A v \in Threads \ {u} : thr[v].op = r => thr[v].pc \notin Constructing
          /\ thr[u].pc # "pushed" => /\ r \notin pending /\ op[r].status = "Started" /\ Open(r)
                                     /\ \A v \in Threads \ {u} : thr[v].op # r
          /\ thr[u].pc = "built" => Listened(r)
      BY <1>1, <3>1 DEF RequestInv, Constructed, At
    <3>3. thr[u].pc = "built" => Open(r) /\ UnderConstruction(r)
      BY <3>1, <3>2 DEF UnderConstruction, Building
    <3>4. thr[u].pc = "built" /\ thr'[t].pc = After(t) => Listened(r)'
      BY <3>3 DEF Serves, Listened
    <3> QED BY <1>2, <1>4, <1>10, <3>1, <3>2, <3>4
  <2> QED BY <1>1, <2>1, <2>2
<1>12. OneTaker(r)'
  BY <1>1, <1>2, <1>4, <1>5, <1>6 DEF RequestInv, OneTaker, At
<1>13. OneCall(r)'
  BY <1>1, <1>2, <1>4, <1>5 DEF RequestInv, OneCall, At, Holding
<1>14. Told(r)'
  BY <1>1, <1>2, <1>4, <1>5, <1>6 DEF RequestInv, Told, At, Holding
<1>15. LastHolder(r)'
  BY <1>1, <1>2, <1>4, <1>5 DEF RequestInv, LastHolder, At, Holding
<1>16. Waiting(r)'
  <2> SUFFICES ASSUME r \in pending PROVE Listened(r)'
    BY <1>1, <1>4 DEF RequestInv, Waiting
  <2>1. t \in Requests /\ Open(r) /\ Listened(r)
    BY <1>1, <1>3 DEF RequestInv, Constructed, Waiting, Constructing, Building, Listening, At
  <2>2. thr'[t].pc = After(t) => Listened(r)'
    BY <2>1 DEF Serves, Listened
  <2> QED BY <1>10, <2>1, <2>2
<1> QED BY <1>7, <1>8, <1>9, <1>11, <1>12, <1>13, <1>14, <1>15, <1>16, FrameKeeps DEF Serves, RequestInv

Locations == Constructing \cup Holding \cup {"idle", "fired"}

\* A thread that goes on keeps what it holds, and no other thread moves.
LEMMA GotoFacts ==
    ASSUME TypeOK, NEW t \in Threads, NEW pc \in Locations, NEW what \in Carried, Goto(t, pc, what)
    PROVE  /\ thr' \in [Threads -> ThreadType]
           /\ \A u \in Threads \ {t} : thr'[u] = thr[u]
           /\ thr'[t].pc = pc /\ thr'[t].op = thr[t].op /\ thr'[t].what = what
<1>1. thr \in [Threads -> ThreadType]
  BY DEF TypeOK
<1> QED BY <1>1 DEF Goto, ThreadType, Locations, Constructing

\* What the code does to a pipe leaves a pipe.
LEMMA PipeFacts ==
    ASSUME NEW p \in PipeType
    PROVE  /\ [p EXCEPT !.client = NoOne, !.data = "none"] \in PipeType
           /\ [p EXCEPT !.client = NoOne, !.data = "none"].state = p.state
           /\ [p EXCEPT !.client = NoOne, !.data = "none"].armed = p.armed
           /\ [p EXCEPT !.data = "none"] \in PipeType
           /\ [p EXCEPT !.data = "none"].state = p.state
           /\ [p EXCEPT !.data = "none"].armed = p.armed
           /\ [p EXCEPT !.state = "connecting"] \in PipeType
           /\ [p EXCEPT !.state = "connecting"].state = "connecting"
           /\ [p EXCEPT !.state = "connecting"].armed = p.armed
           /\ [p EXCEPT !.state = "reading", !.armed = TRUE] \in PipeType
           /\ [p EXCEPT !.state = "reading", !.armed = TRUE].state = "reading"
           /\ [p EXCEPT !.state = "reading", !.armed = TRUE].armed
           /\ [p EXCEPT !.armed = TRUE] \in PipeType /\ [p EXCEPT !.armed = TRUE].state = p.state
           /\ [p EXCEPT !.armed = TRUE].armed
           /\ [p EXCEPT !.armed = FALSE] \in PipeType /\ [p EXCEPT !.armed = FALSE].state = p.state
           /\ ClosedPipe \in PipeType /\ ClosedPipe.state = "closed"
           /\ ClosePipe(p) \in PipeType /\ ClosePipe(p).state = "closed"
BY DEF PipeType, ClosePipe, ClosedPipe

\* A step that serves the pipe of r and leaves p of it and e in the history.
LEMMA ServeStep ==
    ASSUME IInv, NEW t \in Threads, NEW r \in Requests, r = Served(t),
           NEW pc, NEW what \in Carried, Goto(t, pc, what), pc = "answer" => what \in Contents,
           thr[t].pc \in Listening \/ (t = r /\ thr[t].pc \in {"idle", "fired"}),
           pc \in Listening \cup {After(t)} \/ (t = r /\ pc = "fired"),
           NEW p \in PipeType, pipe' = [pipe EXCEPT ![r] = p],
           p.state = "closed" <=> pipe[r].state = "closed",
           pipe[r].armed => p.armed \/ pc = "fired",
           NEW e \in BOOLEAN, op' = [op EXCEPT ![r].early = e], op[r].early => e,
           pc = After(t) => ~Open(r) \/ p.armed \/ (r \notin pending /\ (e \/ ~UnderConstruction(r))),
           UNCHANGED <<key, pending, sender>>
    PROVE  IInv'
<1>0. /\ op \in [Requests -> OpType] /\ pipe \in [Requests -> PipeType] /\ op[r] \in OpType
      /\ pending \subseteq Requests /\ key \in [Requests -> States] /\ TypeOK
      /\ sender \in [Senders -> [pc : {"idle", "connected", "true", "false"}, what : Contents \cup {"none"}]]
  BY DEF IInv, TypeOK
<1>1. pc \in Locations
  BY DEF Locations, Constructing, Building, After, Listening
<1>2. /\ thr' \in [Threads -> ThreadType]
      /\ \A u \in Threads \ {t} : thr'[u] = thr[u]
      /\ thr'[t].pc = pc /\ thr'[t].op = thr[t].op /\ thr'[t].what = what
  BY <1>0, <1>1, GotoFacts
<1>3. /\ pipe' \in [Requests -> PipeType] /\ pipe'[r] = p /\ \A q \in Requests \ {r} : pipe'[q] = pipe[q]
      /\ \A q \in Requests \ {r} : op'[q] = op[q]
      /\ op'[r] = [op[r] EXCEPT !.early = op'[r].early] /\ op'[r].early = e
  BY <1>0 DEF OpType
<1>4. op' \in [Requests -> OpType]
  BY <1>0 DEF OpType
<1>5. Typed
  BY <1>0, <1>2, <1>3, <1>4 DEF Typed
<1>6. Frame(t, r)
  <2>1. thr[t].op \in {r, NoOne} /\ (t \in Requests => t = r)
    BY ThreadFacts DEF Served, IInv, Holds, At
  <2> QED BY <1>2, <1>3, <2>1 DEF Frame
<1>7. Serves(t, r)
  BY <1>2, <1>3, <1>6 DEF Serves
<1> QED BY <1>5, <1>7, ServesKeeps

\* Every step of the code that serves a pipe (AuthRequestAsyncOperation.cpp) is one of these.
LEMMA PipeSteps ==
    ASSUME IInv, NEW t \in Threads,
           \/ ConnectToNewClient(t) \/ Listen(t) \/ ArmConnect(t) \/ InitiateRead(t) \/ ArmRead(t)
    PROVE  IInv'
<1>1. PICK r : r = Served(t)
  OBVIOUS
<1>2. thr[t].pc \in Listening /\ UNCHANGED <<key, op, pending, sender>>
  BY DEF ConnectToNewClient, Listen, ArmConnect, InitiateRead, ArmRead, At, Listening
<1>3. r \in Requests
  BY <1>1, <1>2 DEF Served, IInv, Holds, Constructing, Building, Threads
<1>4. pipe \in [Requests -> PipeType] /\ pipe[r] \in PipeType /\ op \in [Requests -> OpType] /\ op[r] \in OpType
  BY <1>3 DEF IInv, TypeOK
<1>5. After(t) \notin Listening /\ After(t) # "answer"
  BY DEF After, Listening
<1>6. op[r].early \in BOOLEAN /\ op' = [op EXCEPT ![r].early = op[r].early]
  BY <1>2, <1>4 DEF OpType
<1>7. ASSUME NEW pc \in Listening, NEW what \in Carried, Goto(t, pc, what),
             pc = "answer" => what \in Contents, NEW p \in PipeType,
             pipe' = [pipe EXCEPT ![r] = p], p.state = "closed" <=> pipe[r].state = "closed",
             pipe[r].armed => p.armed
      PROVE  IInv'
  BY <1>1, <1>2, <1>3, <1>5, <1>6, <1>7, ServeStep
<1>8. ASSUME NEW pc \in Listening, NEW what \in Carried, Goto(t, pc, what),
             pc # "answer", UNCHANGED pipe
      PROVE  IInv'
  <2>1. pipe' = [pipe EXCEPT ![r] = pipe[r]]
    BY <1>4, <1>8
  <2> QED BY <1>4, <1>7, <1>8, <2>1
<1>9. ASSUME Goto(t, After(t), "none"), NEW p \in PipeType,
             pipe' = [pipe EXCEPT ![r] = p], p.state = "closed" <=> pipe[r].state = "closed",
             pipe[r].armed => p.armed, ~Open(r) \/ p.armed
      PROVE  IInv'
  <2>1. "none" \in Carried /\ After(t) \in Listening \cup {After(t)}
    BY DEF Carried
  <2> QED BY <1>1, <1>2, <1>3, <1>5, <1>6, <1>9, <2>1, ServeStep
<1>10. ASSUME Goto(t, After(t), "none"), UNCHANGED pipe, ~Open(r) PROVE IInv'
  <2>1. pipe' = [pipe EXCEPT ![r] = pipe[r]]
    BY <1>4, <1>10
  <2> QED BY <1>4, <1>9, <1>10, <2>1
<1>11. {"none", "again"} \subseteq Carried /\ {"connect", "listen", "armConnect", "read", "armRead", "answer", "failed"} \subseteq Listening
  BY DEF Carried, Listening
<1>12. CASE ConnectToNewClient(t)
  <2>1. CASE pipe' = [pipe EXCEPT ![r].client = NoOne, ![r].data = "none"] /\ \E pc \in {"listen", "failed"} : Goto(t, pc, "none")
    <3>1. pipe' = [pipe EXCEPT ![r] = [pipe[r] EXCEPT !.client = NoOne, !.data = "none"]]
      BY <2>1
    <3> DEFINE p == [pipe[r] EXCEPT !.client = NoOne, !.data = "none"]
    <3>9. p \in PipeType /\ p.state = pipe[r].state /\ p.armed = pipe[r].armed
      BY <1>4, PipeFacts
    <3> HIDE DEF p
    <3> QED BY <1>7, <1>11, <2>1, <3>1, <3>9 DEF p
  <2> QED BY <1>1, <1>8, <1>10, <1>11, <1>12, <2>1 DEF ConnectToNewClient
<1>13. CASE Listen(t)
  <2>1. CASE Open(r) /\ Goto(t, "armConnect", "none") /\ pipe' = [pipe EXCEPT ![r].state = "connecting"]
    <3>1. pipe' = [pipe EXCEPT ![r] = [pipe[r] EXCEPT !.state = "connecting"]]
      BY <2>1
    <3> DEFINE p == [pipe[r] EXCEPT !.state = "connecting"]
    <3>9. p \in PipeType /\ p.state = "connecting" /\ p.armed = pipe[r].armed
      BY <1>4, PipeFacts
    <3> HIDE DEF p
    <3> QED BY <1>7, <1>11, <2>1, <3>1, <3>9 DEF Open, p
  <2> QED BY <1>1, <1>10, <1>13, <2>1 DEF Listen
<1>14. CASE ArmConnect(t)
  <2>1. pipe' = [pipe EXCEPT ![r] = [pipe[r] EXCEPT !.armed = TRUE]] /\ Goto(t, After(t), "none")
    BY <1>1, <1>14 DEF ArmConnect
  <2> QED BY <1>4, <1>9, <2>1, PipeFacts
<1>15. CASE InitiateRead(t)
  <2>1. CASE /\ pipe[r].data # "none" /\ pipe' = [pipe EXCEPT ![r].data = "none"]
             /\ Goto(t, "answer", pipe[r].data)
    <3>1. pipe' = [pipe EXCEPT ![r] = [pipe[r] EXCEPT !.data = "none"]]
      BY <2>1
    <3>2. pipe[r].data \in Contents /\ pipe[r].data \in Carried
      BY <1>4, <2>1 DEF PipeType, Carried
    <3> DEFINE p == [pipe[r] EXCEPT !.data = "none"]
    <3>9. p \in PipeType /\ p.state = pipe[r].state /\ p.armed = pipe[r].armed
      BY <1>4, PipeFacts
    <3> HIDE DEF p
    <3> QED BY <1>7, <1>11, <2>1, <3>1, <3>2, <3>9 DEF p
  <2> QED BY <1>1, <1>8, <1>10, <1>11, <1>15, <2>1 DEF InitiateRead
<1>16. CASE ArmRead(t)
  <2>1. CASE Open(r) /\ pipe' = [pipe EXCEPT ![r].state = "reading", ![r].armed = TRUE]
    <3>1. pipe' = [pipe EXCEPT ![r] = [pipe[r] EXCEPT !.state = "reading", !.armed = TRUE]]
      BY <2>1
    <3> QED BY <1>4, <1>9, <1>16, <2>1, <3>1, PipeFacts DEF Open, ArmRead
  <2> QED BY <1>1, <1>10, <1>16, <2>1 DEF ArmRead
<1> QED BY <1>12, <1>13, <1>14, <1>15, <1>16

\* The wait ends, and its callback starts.
LEMMA CallbackSteps ==
    ASSUME IInv, NEW r \in Requests, Fire(r) \/ Callback(r)
    PROVE  IInv'
<1>1. r \in Threads /\ r = Served(r) /\ After(r) = "idle"
  BY ThreadFacts DEF Served, After
<1>2. thr[r].pc \in {"idle", "fired"} /\ UNCHANGED <<key, op, pending, sender>>
  BY DEF Fire, Callback, At
<1>3. pipe \in [Requests -> PipeType] /\ pipe[r] \in PipeType /\ op \in [Requests -> OpType] /\ op[r] \in OpType
  BY DEF IInv, TypeOK
<1>4. op[r].early \in BOOLEAN /\ op' = [op EXCEPT ![r].early = op[r].early]
  BY <1>2, <1>3 DEF OpType
<1>5. ASSUME NEW pc \in Listening \cup {"fired"}, NEW what \in Carried, Goto(r, pc, what),
             pc = "answer" => what \in Contents, NEW p \in PipeType,
             pipe' = [pipe EXCEPT ![r] = p], p.state = "closed" <=> pipe[r].state = "closed",
             pipe[r].armed => p.armed \/ pc = "fired"
      PROVE  IInv'
  <2>1. pc # After(r)
    BY <1>1 DEF Listening
  <2> QED BY <1>1, <1>2, <1>4, <1>5, <2>1, ServeStep
<1>6. {"none", "again", "object", "timeout"} \subseteq Carried /\ {"connect", "read", "answer", "failed"} \subseteq Listening
  BY DEF Carried, Listening
<1>7. CASE Fire(r)
  <2>1. pipe' = [pipe EXCEPT ![r] = [pipe[r] EXCEPT !.armed = FALSE]]
    BY <1>7 DEF Fire
  <2> DEFINE p == [pipe[r] EXCEPT !.armed = FALSE]
  <2>9. p \in PipeType /\ p.state = pipe[r].state
    BY <1>3, PipeFacts
  <2> HIDE DEF p
  <2>2. \E what \in {"object", "timeout"} : Goto(r, "fired", what)
    BY <1>7 DEF Fire
  <2> QED BY <1>5, <1>6, <2>1, <2>2, <2>9 DEF p
<1>8. CASE Callback(r)
  <2>1. CASE UNCHANGED pipe
    <3>1. pipe' = [pipe EXCEPT ![r] = pipe[r]]
      BY <1>3, <2>1
    <3>2. CASE ~Open(r) /\ Goto(r, "idle", "none")
      <4>1. "idle" \in Listening \cup {After(r)}
        BY <1>1
      <4> QED BY <1>1, <1>2, <1>3, <1>4, <1>6, <3>1, <3>2, <4>1, ServeStep
    <3>3. CASE \E pc \in {"read", "failed", "connect"}, what \in {"none", "again"} : Goto(r, pc, what)
      BY <1>3, <1>5, <1>6, <3>1, <3>3
    <3>4. ~(thr[r].what = "object" /\ pipe[r].data # "none") \/ ~(Open(r) /\ pipe[r].state = "reading")
      BY <1>3, <1>8, <2>1 DEF Callback, PipeType
    <3> QED BY <1>8, <3>2, <3>3, <3>4 DEF Callback
  <2>2. CASE /\ pipe[r].data # "none" /\ pipe' = [pipe EXCEPT ![r].data = "none"]
             /\ Goto(r, "answer", pipe[r].data)
    <3>1. pipe' = [pipe EXCEPT ![r] = [pipe[r] EXCEPT !.data = "none"]]
      BY <2>2
    <3>2. pipe[r].data \in Contents /\ pipe[r].data \in Carried
      BY <1>3, <2>2 DEF PipeType, Carried
    <3> DEFINE p == [pipe[r] EXCEPT !.data = "none"]
    <3>9. p \in PipeType /\ p.state = pipe[r].state /\ p.armed = pipe[r].armed
      BY <1>3, PipeFacts
    <3> HIDE DEF p
    <3> QED BY <1>5, <1>6, <2>2, <3>1, <3>2, <3>9 DEF p
  <2> QED BY <1>8, <2>1, <2>2 DEF Callback
<1> QED BY <1>7, <1>8

-----------------------------------------------------------------------------
(* Steps that take, complete and tell *)

\* Thread t takes r from the list: a thread of the app, or a callback.
LEMMA TakeStep ==
    ASSUME IInv, NEW t \in Threads, NEW r \in pending, NEW what \in Carried, Take(t, r, what),
           \/ t \in Apps /\ At(t, "idle")
           \/ t \in Requests /\ thr[t].pc \in Listening /\ (what \in Contents \/ (what = "error" /\ t = r)),
           NEW c \in BOOLEAN, op' = [op EXCEPT ![r].cancelled = c], op[r].cancelled => c,
           UNCHANGED <<key, pipe, sender>>
    PROVE  IInv'
<1>0. /\ TypeOK /\ op \in [Requests -> OpType] /\ thr \in [Threads -> ThreadType]
      /\ r \in Requests /\ op[r] \in OpType /\ r # NoOne /\ (t \in Requests <=> t \notin Apps)
      /\ Holds(t) /\ RequestInv(r)
  BY ThreadFacts DEF IInv, TypeOK
<1>1. thr[t].op = NoOne /\ thr[t].pc \notin Holding
  BY <1>0 DEF Holds, At, Holding, Listening
<1>2. /\ thr' \in [Threads -> ThreadType] /\ \A u \in Threads \ {t} : thr'[u] = thr[u]
      /\ thr'[t].pc = "held" /\ thr'[t].op = r /\ thr'[t].what = what /\ pending' = pending \ {r}
  BY <1>0 DEF Take, ThreadType, Holding
<1>3. /\ op' \in [Requests -> OpType] /\ \A q \in Requests \ {r} : op'[q] = op[q]
      /\ op'[r].life = op[r].life /\ op'[r].status = op[r].status
      /\ op'[r].result = op[r].result /\ op'[r].handler = op[r].handler
      /\ op'[r].referenced = op[r].referenced /\ op'[r].told = op[r].told
      /\ op'[r].early = op[r].early
  BY <1>0 DEF OpType
<1>4. Typed
  BY <1>0, <1>2, <1>3 DEF Typed, TypeOK
<1>5. Frame(t, r)
  BY <1>0, <1>1, <1>2, <1>3 DEF Frame
<1>6. Holds(t)'
  BY <1>0, <1>2 DEF Holds, At, Listening, Building, Constructing
<1>7. PipesDiffer'
  BY DEF IInv, PipesDiffer, Open
<1>8. Takers(r) = {} /\ op[r].status = "Started" /\ op[r].life = "live" /\ op[r].told = 0
  BY <1>0 DEF RequestInv, OneTaker, OneCall, LiveOnly
<1>9. Takers(r)' = {t}
  BY <1>0, <1>2, <1>8 DEF Takers
<1>10. Open(r)' <=> Open(r)
  BY DEF Open
<1>11. LiveOnly(r)'
  BY <1>0, <1>2, <1>3, <1>8, <1>10 DEF RequestInv, LiveOnly
<1>12. Constructed(r)'
  BY <1>0, <1>1, <1>2, <1>3, <1>8, <1>10 DEF RequestInv, Constructed, At, Constructing, Building, Listening
<1>13. OneTaker(r)'
  BY <1>2, <1>3, <1>8, <1>9 DEF OneTaker
<1>14. OneCall(r)'
  BY <1>0, <1>2, <1>3, <1>8 DEF RequestInv, OneCall, At
<1>15. Told(r)'
  BY <1>3, <1>8, <1>9 DEF Told
<1>16. LastHolder(r)'
  BY <1>0, <1>1, <1>2, <1>3, <1>8, <1>10 DEF RequestInv, LastHolder, At
<1>17. Waiting(r)'
  BY <1>2 DEF Waiting
<1> QED BY <1>4, <1>5, <1>6, <1>7, <1>11, <1>12, <1>13, <1>14, <1>15, <1>16, <1>17, FrameKeeps DEF RequestInv

\* Who takes a request: CompleteAuthRequest in this process, Cancel (which changes the
\* history only when the request is not there any more), and a callback with a message.
LEMMA TakingSteps ==
    ASSUME IInv, NEW t \in Threads,
           \/ t \in Apps /\ (CompleteLocal(t) \/ \E r \in Requests : r \in pending /\ Cancel(t, r))
           \/ OnReadComplete(t)
    PROVE  IInv'
<1>1. op \in [Requests -> OpType] /\ pending \subseteq Requests
  BY DEF IInv, TypeOK
<1>2. ASSUME NEW r \in pending, NEW what \in Carried, Take(t, r, what), UNCHANGED <<op, key, pipe, sender>>,
             \/ t \in Apps /\ At(t, "idle")
             \/ t \in Requests /\ thr[t].pc \in Listening /\ (what \in Contents \/ (what = "error" /\ t = r))
      PROVE  IInv'
  <2>1. op[r].cancelled \in BOOLEAN /\ op' = [op EXCEPT ![r].cancelled = op[r].cancelled]
    BY <1>1, <1>2 DEF OpType
  <2> QED BY <1>2, <2>1, TakeStep
<1>3. CASE t \in Apps /\ CompleteLocal(t)
  BY <1>2, <1>3 DEF CompleteLocal, Carried
<1>4. CASE t \in Apps /\ \E r \in Requests : r \in pending /\ Cancel(t, r)
  <2>1. PICK r \in Requests : r \in pending /\ Cancel(t, r)
    BY <1>4
  <2>2. /\ At(t, "idle") /\ op' = [op EXCEPT ![r].cancelled = TRUE] /\ Take(t, r, "cancel")
        /\ UNCHANGED <<key, pipe, sender>> /\ "cancel" \in Carried
    BY <2>1 DEF Cancel, Carried
  <2> QED BY <1>4, <2>1, <2>2, TakeStep
<1>5. CASE OnReadComplete(t)
  <2>1. PICK r : r = Served(t)
    OBVIOUS
  <2>2. thr[t].pc = "answer" /\ thr[t].pc \in Listening /\ UNCHANGED <<key, pipe, sender>> /\ thr[t].what \in Carried
    BY <1>5 DEF OnReadComplete, At, Listening, IInv, TypeOK, ThreadType
  <2>3. r \in Requests
    BY <2>1, <2>2 DEF Served, IInv, Holds, Constructing, Building, Threads
  <2>4. pipe \in [Requests -> PipeType] /\ pipe[r] \in PipeType /\ op[r] \in OpType /\ pipe' = [pipe EXCEPT ![r] = pipe[r]]
    BY <2>2, <2>3 DEF IInv, TypeOK
  <2>5. CASE Goto(t, "connect", "again") /\ UNCHANGED <<op, pending>>
    <3>1. op[r].early \in BOOLEAN /\ op' = [op EXCEPT ![r].early = op[r].early]
      BY <2>3, <2>4, <2>5, <1>1 DEF OpType
    <3>2. "connect" \in Listening /\ "connect" # After(t) /\ "again" \in Carried
      BY DEF Listening, After, Carried
    <3> QED BY <2>1, <2>2, <2>3, <2>4, <2>5, <3>1, <3>2, ServeStep
  <2>6. ASSUME thr[t].what # "garbage", NEW q \in pending, key[q] = key[r], Take(t, q, thr[t].what), UNCHANGED op
        PROVE  IInv'
    <3>1. q \in Requests /\ Open(q)
      BY <1>1 DEF IInv, RequestInv, Waiting
    <3>2. t \in Requests
      <4>1. CASE t \in Apps
        <5>1. thr[t].op = r /\ thr[t].pc \in Constructing \ {"pushed"}
          BY <2>1, <2>2, <4>1, ThreadFacts DEF Served, Constructing, Building
        <5>2. r \notin pending /\ Open(r)
          BY <2>3, <5>1 DEF IInv, RequestInv, Constructed, At
        <5> QED BY <2>3, <2>6, <3>1, <5>2 DEF IInv, PipesDiffer
      <4> QED BY <4>1 DEF Threads
    <3>3. thr[t].what \in Contents
      BY <2>2 DEF IInv, Holds, At
    <3> QED BY <1>2, <2>2, <2>6, <3>2, <3>3
  <2>7. CASE /\ \A q \in pending : key[q] # key[r]
             /\ Goto(t, After(t), "none") /\ UNCHANGED pending
             /\ op' = [op EXCEPT ![r].early = @ \/ UnderConstruction(r)]
    <3>1. PICK e \in BOOLEAN : e = (op[r].early \/ UnderConstruction(r))
      OBVIOUS
    <3>2. op' = [op EXCEPT ![r].early = e]
      BY <2>7, <3>1
    <3>3. After(t) \in Listening \cup {After(t)} /\ "none" \in Carried /\ r \notin pending /\ After(t) # "answer"
      BY <2>7 DEF Carried, After
    <3> QED BY <2>1, <2>2, <2>3, <2>4, <2>7, <3>1, <3>2, <3>3, ServeStep
  <2> QED BY <1>5, <2>1, <2>5, <2>6, <2>7 DEF OnReadComplete
<1> QED BY <1>3, <1>4, <1>5

-----------------------------------------------------------------------------
(* The other steps of one thread about one request *)

\* What holds of thread t and request r before a step.
Settled(t, r) ==
    /\ TypeOK /\ op \in [Requests -> OpType] /\ thr \in [Threads -> ThreadType] /\ pipe \in [Requests -> PipeType]
    /\ op[r] \in OpType /\ thr[t] \in ThreadType /\ pipe[r] \in PipeType
    /\ r # NoOne /\ r \in Threads /\ (t \in Requests <=> t \notin Apps)
    /\ Holds(t) /\ RequestInv(r) /\ PipesDiffer /\ pending \subseteq Requests

LEMMA SettledFacts ==
    ASSUME IInv, NEW t \in Threads, NEW r \in Requests
    PROVE  Settled(t, r)
BY ThreadFacts DEF IInv, TypeOK, Settled

\* An operation that is made or destroyed, and a pipe that is closed.
LEMMA FreshFacts ==
    /\ ClosedPipe \in PipeType /\ ClosedPipe.state = "closed"
    /\ \A life \in {"live", "gone"} :
        /\ NewOp(life) \in OpType /\ NewOp(life).life = life
        /\ NewOp(life).status = "Started" /\ NewOp(life).told = 0
        /\ ~NewOp(life).handler /\ ~NewOp(life).referenced /\ ~NewOp(life).cancelled
BY DEF PipeType, ClosedPipe, OpType, NewOp

\* A request that is made enters the list.
LEMMA PushPendingKeeps ==
    ASSUME IInv, NEW t \in Threads, NEW r \in Requests, r = thr[t].op, PushPending(t)
    PROVE  IInv'
<1>0. Settled(t, r)
  BY SettledFacts
<1>1. /\ thr[t].pc = "built" /\ thr[t].op = r /\ t \in Apps /\ r # t
  BY <1>0 DEF Settled, PushPending, At, Holds
<1>2. /\ thr' \in [Threads -> ThreadType] /\ \A u \in Threads \ {t} : thr'[u] = thr[u]
      /\ thr'[t].pc = "pushed" /\ thr'[t].op = r
  BY <1>0, <1>1 DEF Settled, PushPending, Goto, ThreadType, Carried
<1>3. /\ op' \in [Requests -> OpType] /\ \A q \in Requests \ {r} : op'[q] = op[q]
      /\ op'[r].life = op[r].life /\ op'[r].status = op[r].status
      /\ op'[r].result = op[r].result /\ op'[r].handler = op[r].handler
      /\ op'[r].referenced = op[r].referenced /\ op'[r].told = op[r].told
      /\ op'[r].cancelled = op[r].cancelled /\ op'[r].early = op[r].early
  BY <1>0, <1>1 DEF Settled, PushPending
<1>4. /\ pipe' \in [Requests -> PipeType] /\ \A q \in Requests \ {r} : pipe'[q] = pipe[q]
      /\ key' = key /\ sender' = sender
      /\ pipe'[r].state = pipe[r].state /\ pipe'[r].armed = pipe[r].armed
      /\ pending' = pending \cup {r}
  BY <1>0, <1>1 DEF Settled, PushPending
<1>5. Typed /\ Frame(t, r)
  BY <1>0, <1>1, <1>2, <1>3, <1>4 DEF Settled, Frame, Typed, TypeOK
<1>6. /\ Takers(r)' = Takers(r) /\ Takers(r) = {}
      /\ op[r].status = "Started" /\ Open(r) /\ Listened(r) /\ r \notin pending
  BY <1>0, <1>1, <1>2 DEF Settled, RequestInv, Constructed, Takers, At, Constructing, Building
<1>7. Holds(t)'
  BY <1>0, <1>1, <1>2, <1>3, <1>4, <1>6 DEF Settled, Holds, At, Listening, Building, Constructing, Holding
<1>8. PipesDiffer'
  BY <1>0, <1>1, <1>2, <1>3, <1>4, <1>6 DEF Settled, IInv, PipesDiffer, Open
<1>9. LiveOnly(r)'
  BY <1>0, <1>1, <1>2, <1>3, <1>4, <1>6 DEF Settled, RequestInv, LiveOnly, Open
<1>10. Constructed(r)'
  BY <1>0, <1>1, <1>2, <1>3, <1>4, <1>6 DEF Settled, RequestInv, Constructed, At, Constructing, Building, Listening, Holding, Open, Listened
<1>11. OneTaker(r)'
  BY <1>0, <1>1, <1>2, <1>3, <1>4, <1>6 DEF Settled, RequestInv, OneTaker, At
<1>12. OneCall(r)'
  BY <1>0, <1>1, <1>2, <1>3, <1>4, <1>6 DEF Settled, RequestInv, OneCall, At
<1>13. Told(r)'
  BY <1>0, <1>1, <1>2, <1>3, <1>4, <1>6 DEF Settled, RequestInv, Told, At
<1>14. LastHolder(r)'
  BY <1>0, <1>1, <1>2, <1>3, <1>4, <1>6 DEF Settled, RequestInv, LastHolder, At, Holding, Open
<1>15. Waiting(r)'
  BY <1>0, <1>1, <1>2, <1>3, <1>4, <1>6 DEF Settled, RequestInv, Waiting, Listened, At, Open
<1> QED BY <1>5, <1>7, <1>8, <1>9, <1>10, <1>11, <1>12, <1>13, <1>14, <1>15, FrameKeeps DEF RequestInv

\* The app gets the operation.
LEMMA LaunchKeeps ==
    ASSUME IInv, NEW t \in Threads, NEW r \in Requests, r = thr[t].op, Launch(t)
    PROVE  IInv'
<1>0. Settled(t, r)
  BY SettledFacts
<1>1. /\ thr[t].pc = "pushed" /\ thr[t].op = r /\ t \in Apps /\ r # t
  BY <1>0 DEF Settled, Launch, At, Holds
<1>2. /\ thr' \in [Threads -> ThreadType] /\ \A u \in Threads \ {t} : thr'[u] = thr[u]
      /\ thr'[t].pc = "idle" /\ thr'[t].op = NoOne
  BY <1>0, <1>1 DEF Settled, Launch, Idle, ThreadType, Carried
<1>3. /\ op' \in [Requests -> OpType] /\ \A q \in Requests \ {r} : op'[q] = op[q]
      /\ op'[r].life = op[r].life /\ op'[r].status = op[r].status
      /\ op'[r].result = op[r].result /\ op'[r].handler = op[r].handler
      /\ op'[r].told = op[r].told /\ op'[r].cancelled = op[r].cancelled
      /\ op'[r].early = op[r].early
      /\ op'[r].referenced
  BY <1>0, <1>1 DEF Settled, Launch, OpType
<1>4. /\ pipe' \in [Requests -> PipeType] /\ \A q \in Requests \ {r} : pipe'[q] = pipe[q]
      /\ key' = key /\ sender' = sender
      /\ pipe'[r].state = pipe[r].state /\ pipe'[r].armed = pipe[r].armed
      /\ pending' = pending
  BY <1>0, <1>1 DEF Settled, Launch
<1>5. Typed /\ Frame(t, r)
  BY <1>0, <1>1, <1>2, <1>3, <1>4 DEF Settled, Frame, Typed, TypeOK
<1>6. /\ Takers(r)' = Takers(r)
  BY <1>0, <1>1, <1>2 DEF Settled, Takers
<1>7. Holds(t)'
  BY <1>0, <1>1, <1>2, <1>3, <1>4, <1>6 DEF Settled, Holds, At, Listening, Building, Constructing, Holding
<1>8. PipesDiffer'
  BY <1>0, <1>1, <1>2, <1>3, <1>4, <1>6 DEF Settled, IInv, PipesDiffer, Open
<1>9. LiveOnly(r)'
  BY <1>0, <1>1, <1>2, <1>3, <1>4, <1>6 DEF Settled, RequestInv, LiveOnly, Open
<1>10. Constructed(r)'
  BY <1>0, <1>1, <1>2, <1>3, <1>4, <1>6 DEF Settled, RequestInv, Constructed, At, Constructing, Building, Listening, Holding, Open, Listened
<1>11. OneTaker(r)'
  BY <1>0, <1>1, <1>2, <1>3, <1>4, <1>6 DEF Settled, RequestInv, OneTaker, At
<1>12. OneCall(r)'
  BY <1>0, <1>1, <1>2, <1>3, <1>4, <1>6 DEF Settled, RequestInv, OneCall, At
<1>13. Told(r)'
  BY <1>0, <1>1, <1>2, <1>3, <1>4, <1>6 DEF Settled, RequestInv, Told, At
<1>14. LastHolder(r)'
  BY <1>0, <1>1, <1>2, <1>3, <1>4, <1>6 DEF Settled, RequestInv, LastHolder, At, Holding, Open
<1>15. Waiting(r)'
  BY <1>0, <1>1, <1>2, <1>3, <1>4, <1>6 DEF Settled, RequestInv, Waiting, Listened, At, Open
<1> QED BY <1>5, <1>7, <1>8, <1>9, <1>10, <1>11, <1>12, <1>13, <1>14, <1>15, FrameKeeps DEF RequestInv

\* The launch fails: the request leaves the list, and the thread lets go of it.
LEMMA LaunchFailsKeeps ==
    ASSUME IInv, NEW t \in Threads, NEW r \in Requests, r = thr[t].op, LaunchFails(t)
    PROVE  IInv'
<1>0. Settled(t, r)
  BY SettledFacts
<1>1. /\ thr[t].pc = "pushed" /\ thr[t].op = r /\ t \in Apps /\ r # t
  BY <1>0 DEF Settled, LaunchFails, At, Holds
<1>2. /\ thr' \in [Threads -> ThreadType] /\ \A u \in Threads \ {t} : thr'[u] = thr[u]
      /\ thr'[t].pc = "drop" /\ thr'[t].op = r
  BY <1>0, <1>1 DEF Settled, LaunchFails, Goto, ThreadType, Carried, Holding
<1>3. /\ op' \in [Requests -> OpType] /\ \A q \in Requests \ {r} : op'[q] = op[q]
      /\ op'[r].life = op[r].life /\ op'[r].status = op[r].status
      /\ op'[r].result = op[r].result /\ op'[r].handler = op[r].handler
      /\ op'[r].referenced = op[r].referenced /\ op'[r].told = op[r].told
      /\ op'[r].cancelled = op[r].cancelled /\ op'[r].early = op[r].early
  BY <1>0, <1>1 DEF Settled, LaunchFails
<1>4. /\ pipe' \in [Requests -> PipeType] /\ \A q \in Requests \ {r} : pipe'[q] = pipe[q]
      /\ key' = key /\ sender' = sender
      /\ pipe'[r].state = pipe[r].state /\ pipe'[r].armed = pipe[r].armed
      /\ pending' = pending \ {r}
  BY <1>0, <1>1 DEF Settled, LaunchFails
<1>5. Typed /\ Frame(t, r)
  BY <1>0, <1>1, <1>2, <1>3, <1>4 DEF Settled, Frame, Typed, TypeOK
<1>6. /\ Takers(r)' = Takers(r)
      /\ ~op[r].referenced
      /\ \A u \in Threads \ {t} : thr[u].op = r => thr[u].pc \notin Constructing
  BY <1>0, <1>1, <1>2 DEF Settled, Takers, RequestInv, Constructed, Constructing
<1>7. Holds(t)'
  BY <1>0, <1>1, <1>2, <1>3, <1>4, <1>6 DEF Settled, Holds, At, Listening, Building, Constructing, Holding
<1>8. PipesDiffer'
  BY <1>0, <1>1, <1>2, <1>3, <1>4, <1>6 DEF Settled, IInv, PipesDiffer, Open
<1>9. LiveOnly(r)'
  BY <1>0, <1>1, <1>2, <1>3, <1>4, <1>6 DEF Settled, RequestInv, LiveOnly, Open
<1>10. Constructed(r)'
  BY <1>0, <1>1, <1>2, <1>3, <1>4, <1>6 DEF Settled, RequestInv, Constructed, At, Constructing, Building, Listening, Holding, Open, Listened
<1>11. OneTaker(r)'
  BY <1>0, <1>1, <1>2, <1>3, <1>4, <1>6 DEF Settled, RequestInv, OneTaker, At, Constructing
<1>12. OneCall(r)'
  BY <1>0, <1>1, <1>2, <1>3, <1>4, <1>6 DEF Settled, RequestInv, OneCall, At
<1>13. Told(r)'
  BY <1>0, <1>1, <1>2, <1>3, <1>4, <1>6 DEF Settled, RequestInv, Told, At
<1>14. LastHolder(r)'
  BY <1>0, <1>1, <1>2, <1>3, <1>4, <1>6 DEF Settled, RequestInv, LastHolder, At, Holding, Open
<1>15. Waiting(r)'
  BY <1>0, <1>1, <1>2, <1>3, <1>4, <1>6 DEF Settled, RequestInv, Waiting, Listened, At, Open
<1> QED BY <1>5, <1>7, <1>8, <1>9, <1>10, <1>11, <1>12, <1>13, <1>14, <1>15, FrameKeeps DEF RequestInv

\* The thread that took a request ends it.
LEMMA TransitionStateKeeps ==
    ASSUME IInv, NEW t \in Threads, NEW r \in Requests, r = thr[t].op, TransitionState(t)
    PROVE  IInv'
<1>0. Settled(t, r)
  BY SettledFacts
<1>1. /\ thr[t].pc = "held" /\ thr[t].op = r
      /\ StatusOf(thr[t].what) \in {"Completed", "Canceled", "Error"}
      /\ thr[t].what = "bad" => StatusOf(thr[t].what) = "Completed"
  BY <1>0 DEF Settled, TransitionState, At, StatusOf
<1>2. /\ thr' \in [Threads -> ThreadType] /\ \A u \in Threads \ {t} : thr'[u] = thr[u]
      /\ thr'[t].pc = (IF op[r].handler /\ thr[t].what # "bad" THEN "invoke" ELSE "drop")
      /\ thr'[t].op = r /\ thr'[t].what = thr[t].what
  BY <1>0, <1>1 DEF Settled, TransitionState, Goto, ThreadType, Holding
<1>3. /\ op' \in [Requests -> OpType] /\ \A q \in Requests \ {r} : op'[q] = op[q]
      /\ op'[r].life = op[r].life /\ op'[r].handler = op[r].handler
      /\ op'[r].referenced = op[r].referenced /\ op'[r].told = op[r].told
      /\ op'[r].cancelled = op[r].cancelled /\ op'[r].early = op[r].early
      /\ op'[r].status # "Started"
      /\ thr[t].what = "bad" => op'[r].status = "Completed" /\ ~op'[r].result
  BY <1>0, <1>1 DEF Settled, TransitionState, OpType
<1>4. /\ pipe' \in [Requests -> PipeType] /\ \A q \in Requests \ {r} : pipe'[q] = pipe[q]
      /\ key' = key /\ sender' = sender
      /\ pipe'[r].state = "closed" /\ pending' = pending
  BY <1>0, <1>1, PipeFacts DEF Settled, TransitionState
<1>5. Typed /\ Frame(t, r)
  BY <1>0, <1>1, <1>2, <1>3, <1>4 DEF Settled, Frame, Typed, TypeOK
<1>6. /\ Takers(r)' = Takers(r) \ {t} /\ Takers(r) = {t} /\ op[r].status = "Started" /\ r \notin pending
  BY <1>0, <1>1, <1>2 DEF Settled, Takers, RequestInv, OneTaker
<1>7. Holds(t)'
  BY <1>0, <1>1, <1>2, <1>3, <1>4, <1>6 DEF Settled, Holds, At, Listening, Building, Constructing, Holding
<1>8. PipesDiffer'
  BY <1>0, <1>1, <1>2, <1>3, <1>4, <1>6 DEF Settled, IInv, PipesDiffer, Open
<1>9. LiveOnly(r)'
  BY <1>0, <1>1, <1>2, <1>3, <1>4, <1>6 DEF Settled, RequestInv, LiveOnly, Open
<1>10. Constructed(r)'
  BY <1>0, <1>1, <1>2, <1>3, <1>4, <1>6 DEF Settled, RequestInv, Constructed, At, Constructing, Building, Listening, Holding, Open, Listened
<1>11. OneTaker(r)'
  BY <1>0, <1>1, <1>2, <1>3, <1>4, <1>6 DEF Settled, RequestInv, OneTaker, At
<1>12. OneCall(r)'
  BY <1>0, <1>1, <1>2, <1>3, <1>4, <1>6 DEF Settled, RequestInv, OneCall, At
<1>13. Told(r)'
  BY <1>0, <1>1, <1>2, <1>3, <1>4, <1>6 DEF Settled, RequestInv, Told, At
<1>14. LastHolder(r)'
  BY <1>0, <1>1, <1>2, <1>3, <1>4, <1>6 DEF Settled, RequestInv, LastHolder, At, Holding, Open
<1>15. Waiting(r)'
  BY <1>0, <1>1, <1>2, <1>3, <1>4, <1>6 DEF Settled, RequestInv, Waiting, Listened, At, Open
<1> QED BY <1>5, <1>7, <1>8, <1>9, <1>10, <1>11, <1>12, <1>13, <1>14, <1>15, FrameKeeps DEF RequestInv

\* The handler is called.
LEMMA InvokeHandlerKeeps ==
    ASSUME IInv, NEW t \in Threads, NEW r \in Requests, r = thr[t].op, InvokeHandler(t)
    PROVE  IInv'
<1>0. Settled(t, r)
  BY SettledFacts
<1>1. /\ thr[t].pc = "invoke" /\ thr[t].op = r /\ op[r].told = 0 /\ r \notin pending
  BY <1>0 DEF Settled, InvokeHandler, At, RequestInv, OneCall, OneTaker
<1>2. /\ thr' \in [Threads -> ThreadType] /\ \A u \in Threads \ {t} : thr'[u] = thr[u]
      /\ thr'[t].pc = "drop" /\ thr'[t].op = r /\ thr'[t].what = thr[t].what
  BY <1>0, <1>1 DEF Settled, InvokeHandler, Goto, ThreadType, Holding
<1>3. /\ op' \in [Requests -> OpType] /\ \A q \in Requests \ {r} : op'[q] = op[q]
      /\ op'[r].life = op[r].life /\ op'[r].status = op[r].status
      /\ op'[r].result = op[r].result /\ op'[r].handler = op[r].handler
      /\ op'[r].referenced = op[r].referenced /\ op'[r].cancelled = op[r].cancelled
      /\ op'[r].early = op[r].early
      /\ op'[r].told = 1
  BY <1>0, <1>1 DEF Settled, InvokeHandler, OpType
<1>4. /\ pipe' \in [Requests -> PipeType] /\ \A q \in Requests \ {r} : pipe'[q] = pipe[q]
      /\ key' = key /\ sender' = sender
      /\ pipe'[r].state = pipe[r].state /\ pipe'[r].armed = pipe[r].armed
      /\ pending' = pending
  BY <1>0, <1>1 DEF Settled, InvokeHandler
<1>5. Typed /\ Frame(t, r)
  BY <1>0, <1>1, <1>2, <1>3, <1>4 DEF Settled, Frame, Typed, TypeOK
<1>6. /\ Takers(r)' = Takers(r)
  BY <1>0, <1>1, <1>2 DEF Settled, Takers
<1>7. Holds(t)'
  BY <1>0, <1>1, <1>2, <1>3, <1>4, <1>6 DEF Settled, Holds, At, Listening, Building, Constructing, Holding
<1>8. PipesDiffer'
  BY <1>0, <1>1, <1>2, <1>3, <1>4, <1>6 DEF Settled, IInv, PipesDiffer, Open
<1>9. LiveOnly(r)'
  BY <1>0, <1>1, <1>2, <1>3, <1>4, <1>6 DEF Settled, RequestInv, LiveOnly, Open
<1>10. Constructed(r)'
  BY <1>0, <1>1, <1>2, <1>3, <1>4, <1>6 DEF Settled, RequestInv, Constructed, At, Constructing, Building, Listening, Holding, Open, Listened
<1>11. OneTaker(r)'
  BY <1>0, <1>1, <1>2, <1>3, <1>4, <1>6 DEF Settled, RequestInv, OneTaker, At
<1>12. OneCall(r)'
  BY <1>0, <1>1, <1>2, <1>3, <1>4, <1>6 DEF Settled, RequestInv, OneCall, At
<1>13. Told(r)'
  BY <1>0, <1>1, <1>2, <1>3, <1>4, <1>6 DEF Settled, RequestInv, Told, At
<1>14. LastHolder(r)'
  BY <1>0, <1>1, <1>2, <1>3, <1>4, <1>6 DEF Settled, RequestInv, LastHolder, At, Holding, Open
<1>15. Waiting(r)'
  BY <1>0, <1>1, <1>2, <1>3, <1>4, <1>6 DEF Settled, RequestInv, Waiting, Listened, At, Open
<1> QED BY <1>5, <1>7, <1>8, <1>9, <1>10, <1>11, <1>12, <1>13, <1>14, <1>15, FrameKeeps DEF RequestInv

\* Cancel of a request that is taken already: it changes the history only.
LEMMA CancelKeeps ==
    ASSUME IInv, NEW t \in Threads, NEW r \in Requests, t \in Apps, r \notin pending, Cancel(t, r)
    PROVE  IInv'
<1>0. Settled(t, r)
  BY SettledFacts
<1>1. /\ thr[t].pc = "idle" /\ thr[t].op = NoOne /\ op[r].referenced
  BY <1>0 DEF Settled, Cancel, At, Holds
<1>2. /\ thr' \in [Threads -> ThreadType] /\ \A u \in Threads \ {t} : thr'[u] = thr[u]
      /\ thr' = thr
  BY <1>0, <1>1 DEF Settled, Cancel
<1>3. /\ op' \in [Requests -> OpType] /\ \A q \in Requests \ {r} : op'[q] = op[q]
      /\ op'[r].life = op[r].life /\ op'[r].status = op[r].status
      /\ op'[r].result = op[r].result /\ op'[r].handler = op[r].handler
      /\ op'[r].referenced = op[r].referenced /\ op'[r].told = op[r].told
      /\ op'[r].early = op[r].early
  BY <1>0, <1>1 DEF Settled, Cancel, OpType
<1>4. /\ pipe' \in [Requests -> PipeType] /\ \A q \in Requests \ {r} : pipe'[q] = pipe[q]
      /\ key' = key /\ sender' = sender
      /\ pipe'[r].state = pipe[r].state /\ pipe'[r].armed = pipe[r].armed
      /\ pending' = pending
  BY <1>0, <1>1 DEF Settled, Cancel
<1>5. Typed /\ Frame(t, r)
  BY <1>0, <1>1, <1>2, <1>3, <1>4 DEF Settled, Frame, Typed, TypeOK
<1>6. /\ Takers(r)' = Takers(r)
  BY <1>0, <1>1, <1>2 DEF Settled, Takers
<1>7. Holds(t)'
  BY <1>0, <1>1, <1>2, <1>3, <1>4, <1>6 DEF Settled, Holds, At, Listening, Building, Constructing, Holding
<1>8. PipesDiffer'
  BY <1>0, <1>1, <1>2, <1>3, <1>4, <1>6 DEF Settled, IInv, PipesDiffer, Open
<1>9. LiveOnly(r)'
  BY <1>0, <1>1, <1>2, <1>3, <1>4, <1>6 DEF Settled, RequestInv, LiveOnly, Open
<1>10. Constructed(r)'
  BY <1>0, <1>1, <1>2, <1>3, <1>4, <1>6 DEF Settled, RequestInv, Constructed, At, Constructing, Building, Listening, Holding, Open, Listened
<1>11. OneTaker(r)'
  BY <1>0, <1>1, <1>2, <1>3, <1>4, <1>6 DEF Settled, RequestInv, OneTaker, At
<1>12. OneCall(r)'
  BY <1>0, <1>1, <1>2, <1>3, <1>4, <1>6 DEF Settled, RequestInv, OneCall, At
<1>13. Told(r)'
  BY <1>0, <1>1, <1>2, <1>3, <1>4, <1>6 DEF Settled, RequestInv, OneTaker, Told, At
<1>14. LastHolder(r)'
  BY <1>0, <1>1, <1>2, <1>3, <1>4, <1>6 DEF Settled, RequestInv, LastHolder, At, Holding, Open
<1>15. Waiting(r)'
  BY <1>0, <1>1, <1>2, <1>3, <1>4, <1>6 DEF Settled, RequestInv, Waiting, Listened, At, Open
<1> QED BY <1>5, <1>7, <1>8, <1>9, <1>10, <1>11, <1>12, <1>13, <1>14, <1>15, FrameKeeps DEF RequestInv

\* A constructor that throws destroys its operation.
LEMMA FailKeeps ==
    ASSUME IInv, NEW t \in Threads, NEW r \in Requests, r = thr[t].op, t \in Apps, At(t, "failed"), r = Served(t), Throw(t)
    PROVE  IInv'
<1>0. Settled(t, r)
  BY SettledFacts
<1>1. /\ thr[t].pc = "failed" /\ thr[t].op = r /\ r # t
      /\ r \notin pending /\ \A u \in Threads \ {t} : thr[u].op # r
  BY <1>0 DEF Settled, At, RequestInv, Constructed, Constructing, Building, Listening
<1>2. /\ thr' \in [Threads -> ThreadType] /\ \A u \in Threads \ {t} : thr'[u] = thr[u]
      /\ thr'[t].pc = "idle" /\ thr'[t].op = NoOne
  BY <1>0, <1>1, ThreadFacts DEF Settled, Throw, Idle, ThreadType, Carried, At
<1>3. /\ op' \in [Requests -> OpType] /\ \A q \in Requests \ {r} : op'[q] = op[q]
      /\ op'[r].life = "gone" /\ op'[r].status = "Started" /\ op'[r].told = 0
      /\ ~op'[r].handler /\ ~op'[r].referenced /\ ~op'[r].cancelled
  BY <1>0, <1>1, ThreadFacts, FreshFacts DEF Settled, Throw, At
<1>4. /\ pipe' \in [Requests -> PipeType] /\ \A q \in Requests \ {r} : pipe'[q] = pipe[q]
      /\ key' = key /\ sender' = sender
      /\ pipe'[r].state = "closed" /\ pending' = pending
  BY <1>0, <1>1, ThreadFacts, FreshFacts DEF Settled, Throw, At
<1>5. Typed /\ Frame(t, r)
  BY <1>0, <1>1, <1>2, <1>3, <1>4 DEF Settled, Frame, Typed, TypeOK
<1>6. /\ Takers(r)' = {} /\ \A u \in Threads : thr'[u].op # r
  BY <1>0, <1>1, <1>2 DEF Settled, Takers
<1>7. Holds(t)'
  BY <1>0, <1>1, <1>2, <1>3, <1>4, <1>6 DEF Settled, Holds, At, Listening, Building, Constructing, Holding
<1>8. PipesDiffer'
  BY <1>0, <1>1, <1>2, <1>3, <1>4, <1>6 DEF Settled, IInv, PipesDiffer, Open
<1>9. LiveOnly(r)'
  BY <1>0, <1>1, <1>2, <1>3, <1>4, <1>6 DEF Settled, RequestInv, LiveOnly, Open
<1>10. Constructed(r)'
  BY <1>0, <1>1, <1>2, <1>3, <1>4, <1>6 DEF Settled, RequestInv, Constructed, At, Constructing, Building, Listening, Holding, Open, Listened
<1>11. OneTaker(r)'
  BY <1>0, <1>1, <1>2, <1>3, <1>4, <1>6 DEF Settled, RequestInv, OneTaker, At
<1>12. OneCall(r)'
  BY <1>0, <1>1, <1>2, <1>3, <1>4, <1>6 DEF Settled, RequestInv, OneCall, At
<1>13. Told(r)'
  BY <1>0, <1>1, <1>2, <1>3, <1>4, <1>6 DEF Settled, RequestInv, Told, At
<1>14. LastHolder(r)'
  BY <1>0, <1>1, <1>2, <1>3, <1>4, <1>6 DEF Settled, RequestInv, LastHolder, At, Holding, Open
<1>15. Waiting(r)'
  BY <1>0, <1>1, <1>2, <1>3, <1>4, <1>6 DEF Settled, RequestInv, Waiting, Listened, At, Open
<1> QED BY <1>5, <1>7, <1>8, <1>9, <1>10, <1>11, <1>12, <1>13, <1>14, <1>15, FrameKeeps DEF RequestInv

\* A constructor starts.
LEMMA ConstructKeeps ==
    ASSUME IInv, NEW t \in Threads, NEW r \in Requests, t \in Apps, Construct(t, r)
    PROVE  IInv'
<1>0. Settled(t, r)
  BY SettledFacts
<1>1. /\ thr[t].pc = "idle" /\ thr[t].op = NoOne /\ op[r].life = "none" /\ r # t
      /\ \A q \in Requests : Open(q) => key[q] # key[r]
  BY <1>0 DEF Settled, Construct, At, Holds
<1>2. /\ thr' \in [Threads -> ThreadType] /\ \A u \in Threads \ {t} : thr'[u] = thr[u]
      /\ thr'[t].pc = "connect" /\ thr'[t].op = r
  BY <1>0, <1>1 DEF Settled, Construct, ThreadType, Carried, Building, Listening
<1>3. /\ op' \in [Requests -> OpType] /\ \A q \in Requests \ {r} : op'[q] = op[q]
      /\ op'[r].life = "live" /\ op'[r].status = "Started" /\ op'[r].told = 0
      /\ ~op'[r].handler /\ ~op'[r].referenced /\ ~op'[r].cancelled
  BY <1>0, <1>1, FreshFacts DEF Settled, Construct
<1>4. /\ pipe' \in [Requests -> PipeType] /\ \A q \in Requests \ {r} : pipe'[q] = pipe[q]
      /\ key' = key /\ sender' = sender
      /\ pipe'[r].state = "connecting" /\ pending' = pending
  BY <1>0, <1>1 DEF Settled, Construct, PipeType
<1>5. Typed /\ Frame(t, r)
  BY <1>0, <1>1, <1>2, <1>3, <1>4 DEF Settled, Frame, Typed, TypeOK
<1>6. /\ Takers(r)' = {} /\ r \notin pending /\ \A u \in Threads : thr[u].op # r
  BY <1>0, <1>1, <1>2 DEF Settled, Takers, RequestInv, LiveOnly
<1>7. Holds(t)'
  BY <1>0, <1>1, <1>2, <1>3, <1>4, <1>6 DEF Settled, Holds, At, Listening, Building, Constructing, Holding
<1>8. PipesDiffer'
  BY <1>0, <1>1, <1>2, <1>3, <1>4, <1>6 DEF Settled, IInv, PipesDiffer, Open
<1>9. LiveOnly(r)'
  BY <1>0, <1>1, <1>2, <1>3, <1>4, <1>6 DEF Settled, RequestInv, LiveOnly, Open
<1>10. Constructed(r)'
  BY <1>0, <1>1, <1>2, <1>3, <1>4, <1>6 DEF Settled, RequestInv, Constructed, At, Constructing, Building, Listening, Holding, Open, Listened
<1>11. OneTaker(r)'
  BY <1>0, <1>1, <1>2, <1>3, <1>4, <1>6 DEF Settled, RequestInv, OneTaker, At
<1>12. OneCall(r)'
  BY <1>0, <1>1, <1>2, <1>3, <1>4, <1>6 DEF Settled, RequestInv, OneCall, At
<1>13. Told(r)'
  BY <1>0, <1>1, <1>2, <1>3, <1>4, <1>6 DEF Settled, RequestInv, Told, At
<1>14. LastHolder(r)'
  BY <1>0, <1>1, <1>2, <1>3, <1>4, <1>6 DEF Settled, RequestInv, LastHolder, At, Holding, Open
<1>15. Waiting(r)'
  BY <1>0, <1>1, <1>2, <1>3, <1>4, <1>6 DEF Settled, RequestInv, Waiting, Listened, At, Open
<1> QED BY <1>5, <1>7, <1>8, <1>9, <1>10, <1>11, <1>12, <1>13, <1>14, <1>15, FrameKeeps DEF RequestInv

\* The app sets its handler, and calls it when the operation has ended.
LEMMA CompletedKeeps ==
    ASSUME IInv, NEW t \in Threads, NEW r \in Requests, t \in Apps, Completed(t, r)
    PROVE  IInv'
<1>0. Settled(t, r)
  BY SettledFacts
<1>1. /\ thr[t].pc = "idle" /\ thr[t].op = NoOne /\ r # t
      /\ op[r].referenced /\ ~op[r].handler /\ op[r].told = 0
  BY <1>0 DEF Settled, Completed, At, Holds, RequestInv, OneCall
<1>2. /\ thr' \in [Threads -> ThreadType] /\ \A u \in Threads \ {t} : thr'[u] = thr[u]
      /\ \/ op[r].status = "Started" /\ thr'[t] = thr[t]
         \/ op[r].status # "Started" /\ thr'[t].pc = "invoke" /\ thr'[t].op = r
  BY <1>0, <1>1 DEF Settled, Completed, ThreadType, Carried, Holding
<1>3. /\ op' \in [Requests -> OpType] /\ \A q \in Requests \ {r} : op'[q] = op[q]
      /\ op'[r].life = op[r].life /\ op'[r].status = op[r].status
      /\ op'[r].result = op[r].result /\ op'[r].referenced = op[r].referenced
      /\ op'[r].told = op[r].told /\ op'[r].cancelled = op[r].cancelled
      /\ op'[r].early = op[r].early
      /\ op'[r].handler
  BY <1>0, <1>1 DEF Settled, Completed, OpType
<1>4. /\ pipe' \in [Requests -> PipeType] /\ \A q \in Requests \ {r} : pipe'[q] = pipe[q]
      /\ key' = key /\ sender' = sender
      /\ pipe'[r].state = pipe[r].state /\ pipe'[r].armed = pipe[r].armed
      /\ pending' = pending
  BY <1>0, <1>1 DEF Settled, Completed
<1>5. Typed /\ Frame(t, r)
  BY <1>0, <1>1, <1>2, <1>3, <1>4 DEF Settled, Frame, Typed, TypeOK
<1>6. /\ Takers(r)' = Takers(r)
      /\ \A u \in Threads : thr[u].op = r => thr[u].pc \notin Constructing \cup {"invoke", "destroy"}
  BY <1>0, <1>1, <1>2 DEF Settled, Takers, RequestInv, Constructed, OneCall, LastHolder, At
<1>7. Holds(t)'
  BY <1>0, <1>1, <1>2, <1>3, <1>4, <1>6 DEF Settled, Holds, At, Listening, Building, Constructing, Holding
<1>8. PipesDiffer'
  BY <1>0, <1>1, <1>2, <1>3, <1>4, <1>6 DEF Settled, IInv, PipesDiffer, Open
<1>9. LiveOnly(r)'
  BY <1>0, <1>1, <1>2, <1>3, <1>4, <1>6 DEF Settled, RequestInv, LiveOnly, Open
<1>10. Constructed(r)'
  BY <1>0, <1>1, <1>2, <1>3, <1>4, <1>6 DEF Settled, RequestInv, Constructed, At, Constructing, Building, Listening, Holding, Open, Listened
<1>11. OneTaker(r)'
  BY <1>0, <1>1, <1>2, <1>3, <1>4, <1>6 DEF Settled, RequestInv, OneTaker, At
<1>12. OneCall(r)'
  BY <1>0, <1>1, <1>2, <1>3, <1>4, <1>6 DEF Settled, RequestInv, OneCall, At
<1>13. Told(r)'
  BY <1>0, <1>1, <1>2, <1>3, <1>4, <1>6 DEF Settled, RequestInv, Told, At
<1>14. LastHolder(r)'
  BY <1>0, <1>1, <1>2, <1>3, <1>4, <1>6 DEF Settled, RequestInv, LastHolder, At, Holding, Open
<1>15. Waiting(r)'
  BY <1>0, <1>1, <1>2, <1>3, <1>4, <1>6 DEF Settled, RequestInv, Waiting, Listened, At, Open
<1> QED BY <1>5, <1>7, <1>8, <1>9, <1>10, <1>11, <1>12, <1>13, <1>14, <1>15, FrameKeeps DEF RequestInv

\* The last reference goes: the pipe is closed.
LEMMA LastDropKeeps ==
    ASSUME IInv, NEW t \in Threads, NEW r \in Requests, r = thr[t].op, At(t, "drop"), LastReference(t, r), DropReference(t)
    PROVE  IInv'
<1>0. Settled(t, r)
  BY SettledFacts
<1>1. /\ thr[t].pc = "drop" /\ thr[t].op = r
      /\ ~op[r].referenced /\ r \notin pending /\ \A u \in Threads \ {t} : thr[u].op # r
  BY <1>0 DEF Settled, At, LastReference
<1>2. /\ thr' \in [Threads -> ThreadType] /\ \A u \in Threads \ {t} : thr'[u] = thr[u]
      /\ thr'[t].pc = "destroy" /\ thr'[t].op = r /\ thr'[t].what = thr[t].what
  BY <1>0, <1>1 DEF Settled, DropReference, Goto, ThreadType, Holding
<1>3. /\ op' \in [Requests -> OpType] /\ \A q \in Requests \ {r} : op'[q] = op[q]
      /\ op'[r].life = op[r].life /\ op'[r].status = op[r].status
      /\ op'[r].result = op[r].result /\ op'[r].handler = op[r].handler
      /\ op'[r].referenced = op[r].referenced /\ op'[r].told = op[r].told
      /\ op'[r].cancelled = op[r].cancelled /\ op'[r].early = op[r].early
  BY <1>0, <1>1 DEF Settled, DropReference
<1>4. /\ pipe' \in [Requests -> PipeType] /\ \A q \in Requests \ {r} : pipe'[q] = pipe[q]
      /\ key' = key /\ sender' = sender
      /\ pipe'[r].state = "closed" /\ pending' = pending
  BY <1>0, <1>1, FreshFacts DEF Settled, DropReference
<1>5. Typed /\ Frame(t, r)
  BY <1>0, <1>1, <1>2, <1>3, <1>4 DEF Settled, Frame, Typed, TypeOK
<1>6. /\ Takers(r)' = Takers(r)
  BY <1>0, <1>1, <1>2 DEF Settled, Takers
<1>7. Holds(t)'
  BY <1>0, <1>1, <1>2, <1>3, <1>4, <1>6 DEF Settled, Holds, At, Listening, Building, Constructing, Holding
<1>8. PipesDiffer'
  BY <1>0, <1>1, <1>2, <1>3, <1>4, <1>6 DEF Settled, IInv, PipesDiffer, Open
<1>9. LiveOnly(r)'
  BY <1>0, <1>1, <1>2, <1>3, <1>4, <1>6 DEF Settled, RequestInv, LiveOnly, Open
<1>10. Constructed(r)'
  BY <1>0, <1>1, <1>2, <1>3, <1>4, <1>6 DEF Settled, RequestInv, Constructed, At, Constructing, Building, Listening, Holding, Open, Listened
<1>11. OneTaker(r)'
  BY <1>0, <1>1, <1>2, <1>3, <1>4, <1>6 DEF Settled, RequestInv, OneTaker, At
<1>12. OneCall(r)'
  BY <1>0, <1>1, <1>2, <1>3, <1>4, <1>6 DEF Settled, RequestInv, OneCall, At
<1>13. Told(r)'
  BY <1>0, <1>1, <1>2, <1>3, <1>4, <1>6 DEF Settled, RequestInv, Told, At
<1>14. LastHolder(r)'
  BY <1>0, <1>1, <1>2, <1>3, <1>4, <1>6 DEF Settled, RequestInv, LastHolder, At, Holding, Open
<1>15. Waiting(r)'
  BY <1>0, <1>1, <1>2, <1>3, <1>4, <1>6 DEF Settled, RequestInv, Waiting, Listened, At, Open
<1> QED BY <1>5, <1>7, <1>8, <1>9, <1>10, <1>11, <1>12, <1>13, <1>14, <1>15, FrameKeeps DEF RequestInv

\* Another reference is left: a thread of the app is done, a callback serves its pipe again.
LEMMA DropKeeps ==
    ASSUME IInv, NEW t \in Threads, NEW r \in Requests, r = thr[t].op, At(t, "drop"), ~LastReference(t, r), DropReference(t)
    PROVE  IInv'
<1>0. Settled(t, r)
  BY SettledFacts
<1>1. /\ thr[t].pc = "drop" /\ thr[t].op = r
      /\ t \in Requests => op[r].status # "Started" /\ r \notin pending /\ (thr[t].what \in Contents \/ t = r)
  BY <1>0 DEF Settled, At, RequestInv, LastHolder, OneTaker, Holding
<1>2. /\ thr' \in [Threads -> ThreadType] /\ \A u \in Threads \ {t} : thr'[u] = thr[u]
      /\ \/ thr'[t].pc = "idle" /\ (t \in Apps \/ t = r)
         \/ thr'[t].pc = "connect" /\ t \in Requests
      /\ thr'[t].op = NoOne
  BY <1>0, <1>1, ThreadFacts DEF Settled, DropReference, Resume, Idle, ThreadType, Carried, Building, Listening
<1>3. /\ op' \in [Requests -> OpType] /\ \A q \in Requests \ {r} : op'[q] = op[q]
      /\ op'[r].life = op[r].life /\ op'[r].status = op[r].status
      /\ op'[r].result = op[r].result /\ op'[r].handler = op[r].handler
      /\ op'[r].referenced = op[r].referenced /\ op'[r].told = op[r].told
      /\ op'[r].cancelled = op[r].cancelled /\ op'[r].early = op[r].early
  BY <1>0, <1>1 DEF Settled, DropReference
<1>4. /\ pipe' \in [Requests -> PipeType] /\ \A q \in Requests \ {r} : pipe'[q] = pipe[q]
      /\ key' = key /\ sender' = sender
      /\ pipe'[r].state = pipe[r].state /\ pipe'[r].armed = pipe[r].armed
      /\ pending' = pending
  BY <1>0, <1>1 DEF Settled, DropReference
<1>5. Typed /\ Frame(t, r)
  BY <1>0, <1>1, <1>2, <1>3, <1>4 DEF Settled, Frame, Typed, TypeOK
<1>6. /\ Takers(r)' = Takers(r)
  BY <1>0, <1>1, <1>2 DEF Settled, Takers
<1>7. Holds(t)'
  BY <1>0, <1>1, <1>2, <1>3, <1>4, <1>6 DEF Settled, Holds, At, Listening, Building, Constructing, Holding
<1>8. PipesDiffer'
  BY <1>0, <1>1, <1>2, <1>3, <1>4, <1>6 DEF Settled, IInv, PipesDiffer, Open
<1>9. LiveOnly(r)'
  BY <1>0, <1>1, <1>2, <1>3, <1>4, <1>6 DEF Settled, RequestInv, LiveOnly, Open
<1>10. Constructed(r)'
  BY <1>0, <1>1, <1>2, <1>3, <1>4, <1>6 DEF Settled, RequestInv, Constructed, At, Constructing, Building, Listening, Holding, Open, Listened
<1>11. OneTaker(r)'
  BY <1>0, <1>1, <1>2, <1>3, <1>4, <1>6 DEF Settled, RequestInv, OneTaker, At
<1>12. OneCall(r)'
  BY <1>0, <1>1, <1>2, <1>3, <1>4, <1>6 DEF Settled, RequestInv, OneCall, At
<1>13. Told(r)'
  BY <1>0, <1>1, <1>2, <1>3, <1>4, <1>6 DEF Settled, RequestInv, Told, At
<1>14. LastHolder(r)'
  BY <1>0, <1>1, <1>2, <1>3, <1>4, <1>6 DEF Settled, RequestInv, LastHolder, At, Holding, Open
<1>15. Waiting(r)'
  BY <1>0, <1>1, <1>2, <1>3, <1>4, <1>6 DEF Settled, RequestInv, Waiting, Listened, At, Open
<1> QED BY <1>5, <1>7, <1>8, <1>9, <1>10, <1>11, <1>12, <1>13, <1>14, <1>15, FrameKeeps DEF RequestInv

\* The app lets go of an operation.
LEMMA ReleaseKeeps ==
    ASSUME IInv, NEW t \in Threads, NEW r \in Requests, t \in Apps, Release(t, r)
    PROVE  IInv'
<1>0. Settled(t, r)
  BY SettledFacts
<1>1. /\ thr[t].pc = "idle" /\ thr[t].op = NoOne /\ op[r].referenced /\ r # t
  BY <1>0 DEF Settled, Release, At, Holds
<1>2. /\ thr' \in [Threads -> ThreadType] /\ \A u \in Threads \ {t} : thr'[u] = thr[u]
      /\ thr'[t].pc = "drop" /\ thr'[t].op = r
  BY <1>0, <1>1 DEF Settled, Release, ThreadType, Carried, Holding
<1>3. /\ op' \in [Requests -> OpType] /\ \A q \in Requests \ {r} : op'[q] = op[q]
      /\ op'[r].life = op[r].life /\ op'[r].status = op[r].status
      /\ op'[r].result = op[r].result /\ op'[r].handler = op[r].handler
      /\ op'[r].told = op[r].told /\ op'[r].cancelled = op[r].cancelled
      /\ op'[r].early = op[r].early
      /\ ~op'[r].referenced
  BY <1>0, <1>1 DEF Settled, Release, OpType
<1>4. /\ pipe' \in [Requests -> PipeType] /\ \A q \in Requests \ {r} : pipe'[q] = pipe[q]
      /\ key' = key /\ sender' = sender
      /\ pipe'[r].state = pipe[r].state /\ pipe'[r].armed = pipe[r].armed
      /\ pending' = pending
  BY <1>0, <1>1 DEF Settled, Release
<1>5. Typed /\ Frame(t, r)
  BY <1>0, <1>1, <1>2, <1>3, <1>4 DEF Settled, Frame, Typed, TypeOK
<1>6. /\ Takers(r)' = Takers(r)
      /\ \A u \in Threads : thr[u].op = r => thr[u].pc \notin Constructing \cup {"destroy"}
  BY <1>0, <1>1, <1>2 DEF Settled, Takers, RequestInv, Constructed, LastHolder, At
<1>7. Holds(t)'
  BY <1>0, <1>1, <1>2, <1>3, <1>4, <1>6 DEF Settled, Holds, At, Listening, Building, Constructing, Holding
<1>8. PipesDiffer'
  BY <1>0, <1>1, <1>2, <1>3, <1>4, <1>6 DEF Settled, IInv, PipesDiffer, Open
<1>9. LiveOnly(r)'
  BY <1>0, <1>1, <1>2, <1>3, <1>4, <1>6 DEF Settled, RequestInv, LiveOnly, Open
<1>10. Constructed(r)'
  BY <1>0, <1>1, <1>2, <1>3, <1>4, <1>6 DEF Settled, RequestInv, Constructed, At, Constructing, Building, Listening, Holding, Open, Listened
<1>11. OneTaker(r)'
  BY <1>0, <1>1, <1>2, <1>3, <1>4, <1>6 DEF Settled, RequestInv, OneTaker, At
<1>12. OneCall(r)'
  BY <1>0, <1>1, <1>2, <1>3, <1>4, <1>6 DEF Settled, RequestInv, OneCall, At
<1>13. Told(r)'
  BY <1>0, <1>1, <1>2, <1>3, <1>4, <1>6 DEF Settled, RequestInv, Told, At
<1>14. LastHolder(r)'
  BY <1>0, <1>1, <1>2, <1>3, <1>4, <1>6 DEF Settled, RequestInv, LastHolder, At, Holding, Open
<1>15. Waiting(r)'
  BY <1>0, <1>1, <1>2, <1>3, <1>4, <1>6 DEF Settled, RequestInv, Waiting, Listened, At, Open
<1> QED BY <1>5, <1>7, <1>8, <1>9, <1>10, <1>11, <1>12, <1>13, <1>14, <1>15, FrameKeeps DEF RequestInv

\* The object is gone.
LEMMA DestroyKeeps ==
    ASSUME IInv, NEW t \in Threads, NEW r \in Requests, r = thr[t].op, Destroy(t)
    PROVE  IInv'
<1>0. Settled(t, r)
  BY SettledFacts
<1>1. /\ thr[t].pc = "destroy" /\ thr[t].op = r /\ thr[r].pc = "idle" /\ r # t
      /\ r \notin pending /\ ~Open(r) /\ \A u \in Threads \ {t} : thr[u].op # r
      /\ t \in Requests => thr[t].what \in Contents
  BY <1>0 DEF Settled, Destroy, At, RequestInv, LastHolder, Holding
<1>2. /\ thr' \in [Threads -> ThreadType] /\ \A u \in Threads \ {t} : thr'[u] = thr[u]
      /\ \/ thr'[t].pc = "idle" /\ (t \in Apps \/ t = r)
         \/ thr'[t].pc = "connect" /\ t \in Requests
      /\ thr'[t].op = NoOne
  BY <1>0, <1>1, ThreadFacts DEF Settled, Destroy, Resume, Idle, ThreadType, Carried, Building, Listening
<1>3. /\ op' \in [Requests -> OpType] /\ \A q \in Requests \ {r} : op'[q] = op[q]
      /\ op'[r].life = "gone" /\ op'[r].status = "Started" /\ op'[r].told = 0
      /\ ~op'[r].handler /\ ~op'[r].referenced /\ ~op'[r].cancelled
  BY <1>0, <1>1, FreshFacts DEF Settled, Destroy
<1>4. /\ pipe' \in [Requests -> PipeType] /\ \A q \in Requests \ {r} : pipe'[q] = pipe[q]
      /\ key' = key /\ sender' = sender
      /\ pipe'[r].state = "closed" /\ pending' = pending
  BY <1>0, <1>1 DEF Settled, Destroy, Open
<1>5. Typed /\ Frame(t, r)
  BY <1>0, <1>1, <1>2, <1>3, <1>4 DEF Settled, Frame, Typed, TypeOK
<1>6. /\ Takers(r)' = {} /\ \A u \in Threads : thr'[u].op # r
  BY <1>0, <1>1, <1>2 DEF Settled, Takers
<1>7. Holds(t)'
  BY <1>0, <1>1, <1>2, <1>3, <1>4, <1>6 DEF Settled, Holds, At, Listening, Building, Constructing, Holding
<1>8. PipesDiffer'
  BY <1>0, <1>1, <1>2, <1>3, <1>4, <1>6 DEF Settled, IInv, PipesDiffer, Open
<1>9. LiveOnly(r)'
  BY <1>0, <1>1, <1>2, <1>3, <1>4, <1>6 DEF Settled, RequestInv, LiveOnly, Open
<1>10. Constructed(r)'
  BY <1>0, <1>1, <1>2, <1>3, <1>4, <1>6 DEF Settled, RequestInv, Constructed, At, Constructing, Building, Listening, Holding, Open, Listened
<1>11. OneTaker(r)'
  BY <1>0, <1>1, <1>2, <1>3, <1>4, <1>6 DEF Settled, RequestInv, OneTaker, At
<1>12. OneCall(r)'
  BY <1>0, <1>1, <1>2, <1>3, <1>4, <1>6 DEF Settled, RequestInv, OneCall, At
<1>13. Told(r)'
  BY <1>0, <1>1, <1>2, <1>3, <1>4, <1>6 DEF Settled, RequestInv, Told, At
<1>14. LastHolder(r)'
  BY <1>0, <1>1, <1>2, <1>3, <1>4, <1>6 DEF Settled, RequestInv, LastHolder, At, Holding, Open
<1>15. Waiting(r)'
  BY <1>0, <1>1, <1>2, <1>3, <1>4, <1>6 DEF Settled, RequestInv, Waiting, Listened, At, Open
<1> QED BY <1>5, <1>7, <1>8, <1>9, <1>10, <1>11, <1>12, <1>13, <1>14, <1>15, FrameKeeps DEF RequestInv

\* An exception while a pipe is served.
LEMMA ThrowKeeps ==
    ASSUME IInv, NEW t \in Threads, Throw(t)
    PROVE  IInv'
<1>1. PICK r : r = Served(t)
  OBVIOUS
<1>2. At(t, "failed") /\ thr[t].pc \in Listening
  BY DEF Throw, At, Listening
<1>3. r \in Requests /\ (t \in Apps => r = thr[t].op) /\ (t \in Requests => r = t)
  BY <1>1, <1>2, ThreadFacts DEF Served, IInv, Holds, Constructing, Building, Threads
<1>4. /\ op \in [Requests -> OpType] /\ op[r] \in OpType /\ pipe \in [Requests -> PipeType]
      /\ pipe[r] \in PipeType /\ pending \subseteq Requests
      /\ {"error", "none"} \subseteq Carried
  BY <1>3 DEF IInv, TypeOK, Carried
<1>5. CASE t \in pending /\ Take(t, t, "error") /\ UNCHANGED <<op, pipe>>
  <2>1. op[t].cancelled \in BOOLEAN /\ op' = [op EXCEPT ![t].cancelled = op[t].cancelled] /\ UNCHANGED <<key, pipe, sender>>
    BY <1>3, <1>4, <1>5 DEF OpType, Throw
  <2> QED BY <1>2, <1>4, <1>5, <2>1, TakeStep
<1>6. CASE /\ t \in Requests \ pending /\ Goto(t, "idle", "none") /\ UNCHANGED <<pipe, pending>>
           /\ op' = [op EXCEPT ![t].early = @ \/ UnderConstruction(t)]
  <2>1. PICK e \in BOOLEAN : e = (op[r].early \/ UnderConstruction(r))
    OBVIOUS
  <2>2. /\ op' = [op EXCEPT ![r].early = e] /\ pipe' = [pipe EXCEPT ![r] = pipe[r]]
        /\ UNCHANGED <<key, pending, sender>>
    BY <1>3, <1>4, <1>6, <2>1 DEF Throw
  <2>3. "idle" = After(t) /\ After(t) # "answer" /\ r \notin pending
    BY <1>3, <1>6 DEF After
  <2> QED BY <1>1, <1>2, <1>3, <1>4, <1>6, <2>1, <2>2, <2>3, ServeStep
<1>7. CASE t \in Apps
  BY <1>1, <1>2, <1>3, <1>7, FailKeeps
<1> QED BY <1>5, <1>6, <1>7 DEF Throw

\* Another process opens a pipe, writes to it and leaves: no request or thread changes.
LEMMA OutsideKeeps ==
    ASSUME IInv, UNCHANGED <<key, op, pending, thr>>,
           pipe' \in [Requests -> PipeType],
           \A r \in Requests : pipe'[r].state = pipe[r].state /\ pipe'[r].armed = pipe[r].armed,
           sender' \in [Senders -> [pc : {"idle", "connected", "true", "false"}, what : Contents \cup {"none"}]]
    PROVE  IInv'
<1>1. \A r \in Requests : (Open(r)' <=> Open(r)) /\ (Listened(r)' <=> Listened(r)) /\ Takers(r)' = Takers(r)
  BY DEF Open, Listened, Takers, At
<1>2. ASSUME NEW r \in Requests PROVE RequestInv(r)'
  <2>1. LiveOnly(r)' /\ Constructed(r)'
    BY <1>1 DEF IInv, RequestInv, LiveOnly, Constructed, At
  <2>2. OneTaker(r)' /\ OneCall(r)' /\ Told(r)'
    BY <1>1 DEF IInv, RequestInv, OneTaker, OneCall, Told, At
  <2>3. LastHolder(r)' /\ Waiting(r)'
    BY <1>1 DEF IInv, RequestInv, LastHolder, Waiting, At
  <2> QED BY <2>1, <2>2, <2>3 DEF RequestInv
<1>3. \A t \in Threads : Holds(t)'
  BY DEF IInv, Holds, At
<1>4. TypeOK'
  BY DEF IInv, TypeOK
<1>5. PipesDiffer'
  BY <1>1 DEF IInv, PipesDiffer
<1> QED BY <1>2, <1>3, <1>4, <1>5 DEF IInv

LEMMA SenderSteps ==
    ASSUME IInv, NEW s \in Senders,
           \/ \E r \in Requests : SenderConnects(s, r)
           \/ SenderWrites(s) \/ SenderEnds(s)
    PROVE  IInv'
<1> DEFINE SenderType == [pc : {"idle", "connected", "true", "false"}, what : Contents \cup {"none"}]
<1>1. /\ pipe \in [Requests -> PipeType] /\ sender \in [Senders -> SenderType]
      /\ UNCHANGED <<key, op, pending, thr>>
  BY DEF IInv, TypeOK, SenderConnects, SenderWrites, SenderEnds
<1>2. sender' \in [Senders -> SenderType]
  BY <1>1 DEF SenderConnects, SenderWrites, SenderEnds
<1>3. /\ pipe' \in [Requests -> PipeType]
      /\ \A r \in Requests : pipe'[r].state = pipe[r].state /\ pipe'[r].armed = pipe[r].armed
  <2>1. CASE \E r \in Requests : pipe' = [pipe EXCEPT ![r].client = s]
    BY <1>1, <2>1 DEF PipeType
  <2>2. CASE \E r \in Requests : pipe' = [pipe EXCEPT ![r].data = sender[s].what]
    BY <1>1, <2>2 DEF PipeType
  <2>3. CASE UNCHANGED pipe
    BY <1>1, <2>3
  <2> QED BY <2>1, <2>2, <2>3 DEF SenderConnects, SenderWrites, SenderEnds
<1> QED BY <1>1, <1>2, <1>3, OutsideKeeps

-----------------------------------------------------------------------------
(* The invariant *)

LEMMA InitHolds == Init => IInv
<1> SUFFICES ASSUME Init PROVE IInv
  OBVIOUS
<1>1. /\ op = [r \in Requests |-> NewOp("none")] /\ pipe = [r \in Requests |-> ClosedPipe]
      /\ pending = {} /\ thr = [t \in Threads |-> Idle]
      /\ Idle.pc = "idle" /\ Idle.op = NoOne
  BY DEF Init, Idle
<1>2. \A r \in Requests : Takers(r) = {} /\ ~Open(r) /\ \A t \in Threads : thr[t].op # r
  BY <1>1, ThreadFacts DEF Takers, Open, ClosedPipe
<1>3. TypeOK
  BY <1>1 DEF Init, TypeOK, NewOp, OpType, ClosedPipe, PipeType, Idle, ThreadType, Carried, Holding
<1>4. PipesDiffer
  BY <1>2 DEF PipesDiffer
<1>5. \A t \in Threads : Holds(t)
  BY <1>1 DEF Holds, At, Holding, Constructing, Building, Listening
<1>6. ASSUME NEW r \in Requests PROVE RequestInv(r)
  <2>1. op[r].life = "none" /\ op[r].status = "Started" /\ op[r].told = 0
        /\ ~op[r].referenced /\ ~op[r].handler /\ ~op[r].cancelled
    BY <1>1 DEF NewOp
  <2> QED BY <1>1, <1>2, <2>1 DEF RequestInv, LiveOnly, Constructed, OneTaker, OneCall, Told, LastHolder, Waiting
<1> QED BY <1>3, <1>4, <1>5, <1>6 DEF IInv

LEMMA InvariantStep == IInv /\ [Next]_vars => IInv'
<1> SUFFICES ASSUME IInv, [Next]_vars PROVE IInv'
  OBVIOUS
<1>1. Requests \subseteq Threads /\ Apps \subseteq Threads
  BY ThreadFacts
<1>2. ASSUME NEW t \in Threads, thr[t].pc \in {"built", "pushed"} \cup Holding PROVE thr[t].op \in Requests
  BY <1>2 DEF IInv, Holds, Constructing, Building, Threads
<1>3. ASSUME NEW t \in Threads, ThreadStep(t) PROVE IInv'
  <2>1. CASE \/ PushPending(t) \/ Launch(t) \/ LaunchFails(t)
             \/ TransitionState(t) \/ InvokeHandler(t) \/ DropReference(t) \/ Destroy(t)
    <3>1. thr[t].op \in Requests
      BY <1>2, <2>1 DEF PushPending, Launch, LaunchFails, TransitionState, InvokeHandler, DropReference, Destroy, At, Holding
    <3>2. CASE DropReference(t)
      <4>1. PICK r \in Requests : r = thr[t].op
        BY <3>1
      <4>2. At(t, "drop")
        BY <3>2 DEF DropReference
      <4> QED BY <3>2, <4>1, <4>2, LastDropKeeps, DropKeeps
    <3> QED BY <2>1, <3>1, <3>2, PushPendingKeeps, LaunchKeeps, LaunchFailsKeeps, TransitionStateKeeps, InvokeHandlerKeeps, DestroyKeeps
  <2>2. CASE \/ ConnectToNewClient(t) \/ Listen(t) \/ ArmConnect(t) \/ InitiateRead(t) \/ ArmRead(t)
    BY <2>2, PipeSteps
  <2>3. CASE OnReadComplete(t)
    BY <2>3, TakingSteps
  <2>4. CASE Throw(t)
    BY <2>4, ThrowKeeps
  <2> QED BY <1>3, <2>1, <2>2, <2>3, <2>4 DEF ThreadStep
<1>4. ASSUME NEW r \in Requests, Fire(r) \/ Callback(r) PROVE IInv'
  BY <1>4, CallbackSteps
<1>5. ASSUME NEW t \in Apps, NEW r \in Requests, Construct(t, r) \/ Cancel(t, r) \/ Completed(t, r) \/ Release(t, r)
      PROVE  IInv'
  <2>1. CASE Cancel(t, r) /\ r \in pending
    BY <1>1, <2>1, TakingSteps
  <2> QED BY <1>1, <1>5, <2>1, ConstructKeeps, CancelKeeps, CompletedKeeps, ReleaseKeeps
<1>6. ASSUME NEW t \in Apps, CompleteLocal(t) PROVE IInv'
  BY <1>1, <1>6, TakingSteps
<1>7. ASSUME NEW s \in Senders, (\E r \in Requests : SenderConnects(s, r)) \/ SenderWrites(s) \/ SenderEnds(s)
      PROVE  IInv'
  BY <1>7, SenderSteps
<1>8. CASE UNCHANGED vars
  BY <1>8, OutsideKeeps DEF vars, IInv, TypeOK
<1> QED BY <1>3, <1>4, <1>5, <1>6, <1>7, <1>8 DEF Next

\* Every variable has its type; a thread that ends a request knows which, and an operation
\* that is not there has no pipe and is not pending.
THEOREM TypeCorrect == Spec => []TypeOK
<1>1. IInv => TypeOK
  BY DEF IInv
<1> QED BY <1>1, InitHolds, InvariantStep, PTL DEF Spec

\* The invariant the properties follow from: who holds a request, who serves its pipe, and
\* what is known of it at each place of the code (OAuth2Manager.cpp:278-337,
\* AuthRequestAsyncOperation.cpp:143-514).
THEOREM InductiveInvariant == Spec => []IInv
BY InitHolds, InvariantStep, PTL DEF Spec

\* A request is completed by one thread, once, and its handler is called at most once and
\* only after its end, however CompleteAuthRequest, Cancel, the pipe's callback, a failing
\* launch and a failing pipe race (OAuth2Manager.cpp:278-337).
THEOREM CompletedOnce == Spec => []AnsweredOnce
<1>1. IInv => AnsweredOnce
  <2> SUFFICES ASSUME IInv PROVE AnsweredOnce
    OBVIOUS
  <2>1. \A r \in Requests : OneTaker(r) /\ OneCall(r)
    BY DEF IInv, RequestInv
  <2>2. \A r \in Requests : op[r].told \in 0 .. 2
    BY DEF IInv, TypeOK, OpType
  <2> QED BY <2>1, <2>2 DEF IInv, AnsweredOnce, OneTaker, OneCall
<1> QED BY <1>1, InitHolds, InvariantStep, PTL DEF Spec

\* A handler is told of the end unless making the result threw, and a cancelled request ends
\* (AuthRequestAsyncOperation.cpp:143-243).
THEOREM EndIsTold == Spec => []EndTold
<1>1. IInv => EndTold
  BY DEF IInv, RequestInv, Told, EndTold
<1> QED BY <1>1, InitHolds, InvariantStep, PTL DEF Spec

\* The pipe of a pending request is open, the only one open for its state, and served,
\* unless its callback ran before the request was in the list (OAuth2Manager.cpp:37-43).
THEOREM PendingIsServed == Spec => []PendingServed
<1>1. IInv => PendingServed
  <2> SUFFICES ASSUME IInv, NEW r \in pending
               PROVE  /\ Open(r) /\ (op[r].early \/ pipe[r].armed \/ ~At(r, "idle"))
                      /\ \A q \in Requests \ {r} : Open(q) => key[q] # key[r]
    BY DEF PendingServed
  <2>1. r \in Requests /\ Open(r) /\ Listened(r)
    BY DEF IInv, TypeOK, RequestInv, Waiting
  <2> QED BY <2>1 DEF IInv, PipesDiffer, Listened
<1> QED BY <1>1, InitHolds, InvariantStep, PTL DEF Spec
=============================================================================
