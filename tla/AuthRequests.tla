---------------------------- MODULE AuthRequests ----------------------------
(***************************************************************************)
(* Authorization requests of one process (OAuth2Manager.cpp and            *)
(* AuthRequestAsyncOperation.cpp).  A request listens on a named pipe for  *)
(* the redirect that another process receives; threadpool callbacks serve  *)
(* the pipe while app threads start, cancel, complete and release          *)
(* requests.  The manager's list of pending requests decides who may       *)
(* complete one: whoever takes it out of the list.                         *)
(***************************************************************************)
EXTENDS Naturals

CONSTANTS
    Requests,   \* requests; each is also the name of its pipe's callback thread
    Apps,       \* threads of the app
    Senders,    \* processes that open a request's pipe, once each
    States,     \* values of the OAuth "state" parameter
    Contents,   \* what arrives: "response", "bad" (its error_uri is no URI), "garbage"
    NoOne       \* no request, or no sender

ASSUME NameAssumption == Requests \cap Apps = {} /\ NoOne \notin Requests \cup Apps \cup Senders
ASSUME ContentAssumption == Contents \subseteq {"response", "bad", "garbage"}

VARIABLES
    key,        \* request -> its state parameter
    op,         \* request -> the asynchronous operation (OpType)
    pipe,       \* request -> its pipe (PipeType)
    pending,    \* m_pendingAuthRequests
    thr,        \* thread -> where it is, the request it holds, what it carries
    sender      \* sender -> how far its CompleteAuthRequest is

vars == <<key, op, pipe, pending, thr, sender>>

Threads == Requests \cup Apps
Idle == [pc |-> "idle", op |-> NoOne, what |-> "none"]
Listening == {"connect", "listen", "armConnect", "read", "armRead", "answer", "failed"}
Building == Listening \cup {"built"}
Holding == {"held", "invoke", "drop", "destroy"}

OpType == [life : {"none", "live", "gone"},
           status : {"Started", "Completed", "Canceled", "Error"},
           result : BOOLEAN, handler : BOOLEAN,
           referenced : BOOLEAN,    \* does the app hold the operation?
           cancelled : BOOLEAN,     \* history: was Cancel called?
           told : 0 .. 2,           \* history: calls of the handler
           early : BOOLEAN]         \* history: its callback ran before it was pending
PipeType == [state : {"closed", "connecting", "reading"},
             armed : BOOLEAN,       \* is the threadpool wait set?
             client : Senders \cup {NoOne},
             data : Contents \cup {"none"}]
Carried == Contents \cup {"none", "new", "again", "object", "timeout", "cancel", "error"}
ThreadType == [pc : Building \cup Holding \cup {"idle", "fired", "pushed"},
               op : Requests \cup {NoOne},
               what : Carried]

TypeOK ==
    /\ key \in [Requests -> States]
    /\ op \in [Requests -> OpType]
    /\ pipe \in [Requests -> PipeType]
    /\ pending \subseteq Requests
    /\ thr \in [Threads -> ThreadType]
    /\ sender \in [Senders -> [pc : {"idle", "connected", "true", "false"}, what : Contents \cup {"none"}]]
    /\ \A t \in Threads : thr[t].pc \in Holding => thr[t].op # NoOne
    /\ \A r \in Requests : op[r].life # "live" => pipe[r].state = "closed" /\ r \notin pending

NewOp(life) == [life |-> life, status |-> "Started", result |-> FALSE, handler |-> FALSE,
                referenced |-> FALSE, cancelled |-> FALSE, told |-> 0, early |-> FALSE]
ClosedPipe == [state |-> "closed", armed |-> FALSE, client |-> NoOne, data |-> "none"]

Init ==
    /\ key \in [Requests -> States]
    /\ op = [r \in Requests |-> NewOp("none")]
    /\ pipe = [r \in Requests |-> ClosedPipe]
    /\ pending = {}
    /\ thr = [t \in Threads |-> Idle]
    /\ sender = [s \in Senders |-> [pc |-> "idle", what |-> "none"]]

Open(r) == pipe[r].state # "closed"
At(t, pc) == thr[t].pc = pc
Goto(t, pc, what) == thr' = [thr EXCEPT ![t].pc = pc, ![t].what = what]

\* The request whose pipe thread t serves: a callback its own, a constructor the new one.
Served(t) == IF t \in Requests THEN t ELSE thr[t].op

\* Where t goes when the code that serves the pipe returns.
After(t) == IF t \in Requests THEN "idle" ELSE "built"

\* close_pipe closes the handle, which disconnects the client.
ClosePipe(p) == [ClosedPipe EXCEPT !.armed = p.armed]

LastReference(t, r) ==
    ~op[r].referenced /\ r \notin pending /\ \A u \in Threads \ {t} : thr[u].op # r

-----------------------------------------------------------------------------
(* OAuth2Manager: requests come and go *)

\* The constructor.  A second pipe of the name is not created, and ConnectNamedPipe
\* fails with what CreateNamedPipe returned: the constructor throws.
Construct(t, r) ==
    /\ At(t, "idle") /\ op[r].life = "none"
    /\ \A q \in Requests : Open(q) => key[q] # key[r]
    /\ op' = [op EXCEPT ![r] = NewOp("live")]
    /\ pipe' = [pipe EXCEPT ![r].state = "connecting"]
    /\ thr' = [thr EXCEPT ![t] = [pc |-> "connect", op |-> r, what |-> "new"]]
    /\ UNCHANGED <<key, pending, sender>>

PushPending(t) ==
    /\ At(t, "built")
    /\ pending' = pending \cup {thr[t].op}
    /\ Goto(t, "pushed", "none")
    /\ UNCHANGED <<key, op, pipe, sender>>

\* execute_shell succeeds, and the app gets the operation ...
Launch(t) ==
    /\ At(t, "pushed")
    /\ op' = [op EXCEPT ![thr[t].op].referenced = TRUE]
    /\ thr' = [thr EXCEPT ![t] = Idle]
    /\ UNCHANGED <<key, pipe, pending, sender>>

\* ... or it throws: try_remove, its result discarded.
LaunchFails(t) ==
    /\ At(t, "pushed")
    /\ pending' = pending \ {thr[t].op}
    /\ Goto(t, "drop", "error")
    /\ UNCHANGED <<key, op, pipe, sender>>

\* Mutant: the entry stays in the list.
TakeCopies(t, r, what) ==
    /\ thr' = [thr EXCEPT ![t] = [pc |-> "held", op |-> r, what |-> what]]
    /\ UNCHANGED pending

\* try_complete_local and try_remove: the entry moves from the list to the thread.
Take(t, r, what) ==
    /\ pending' = pending \ {r}
    /\ thr' = [thr EXCEPT ![t] = [pc |-> "held", op |-> r, what |-> what]]

\* CompleteAuthRequest in this process.
CompleteLocal(t) ==
    /\ At(t, "idle")
    /\ \E r \in pending, w \in Contents \ {"garbage"} : Take(t, r, w)
    /\ UNCHANGED <<key, op, pipe, sender>>

Cancel(t, r) ==
    /\ At(t, "idle") /\ op[r].referenced
    /\ op' = [op EXCEPT ![r].cancelled = TRUE]
    /\ \/ r \in pending /\ Take(t, r, "cancel")
       \/ r \notin pending /\ UNCHANGED <<pending, thr>>
    /\ UNCHANGED <<key, pipe, sender>>

-----------------------------------------------------------------------------
(* AuthRequestAsyncOperation: the operation *)

\* Completed(handler): called here when the operation has already ended.
Completed(t, r) ==
    /\ At(t, "idle") /\ op[r].referenced /\ ~op[r].handler
    /\ op' = [op EXCEPT ![r].handler = TRUE]
    /\ \/ op[r].status = "Started" /\ UNCHANGED thr
       \/ /\ op[r].status # "Started"
          /\ thr' = [thr EXCEPT ![t] = [pc |-> "invoke", op |-> r, what |-> "none"]]
    /\ UNCHANGED <<key, pipe, pending, sender>>

\* The status after each way to end.  A response with a bad error_uri throws when
\* the result is made, after the status is set and before the handler is copied.
StatusOf(what) == CASE what = "cancel" -> "Canceled" [] what = "error" -> "Error" [] OTHER -> "Completed"

\* Mutant: only a result is told.
TransitionStateSilent(t) ==
    LET r == thr[t].op IN
    /\ At(t, "held")
    /\ pipe' = [pipe EXCEPT ![r] = ClosePipe(@)]
    /\ op' = [op EXCEPT ![r].status = StatusOf(thr[t].what), ![r].result = thr[t].what = "response"]
    /\ Goto(t, IF op[r].handler /\ thr[t].what = "response" THEN "invoke" ELSE "drop", thr[t].what)
    /\ UNCHANGED <<key, pending, sender>>

TransitionState(t) ==
    LET r == thr[t].op IN
    /\ At(t, "held")
    /\ pipe' = [pipe EXCEPT ![r] = ClosePipe(@)]
    /\ op' = [op EXCEPT ![r].status = StatusOf(thr[t].what), ![r].result = thr[t].what = "response"]
    /\ Goto(t, IF op[r].handler /\ thr[t].what # "bad" THEN "invoke" ELSE "drop", thr[t].what)
    /\ UNCHANGED <<key, pending, sender>>

InvokeHandler(t) ==
    /\ At(t, "invoke")
    /\ op' = [op EXCEPT ![thr[t].op].told = IF @ < 2 THEN @ + 1 ELSE @]
    /\ Goto(t, "drop", thr[t].what)
    /\ UNCHANGED <<key, pipe, pending, sender>>

\* A callback that completed a request goes on to connect_to_new_client.
Resume(t) == IF t \in Requests /\ thr[t].what \in Contents
             THEN [pc |-> "connect", op |-> NoOne, what |-> "again"] ELSE Idle

\* The thread lets go of its reference.  The last one destroys: the pipe is closed,
\* the wait is cleared, and callbacks are waited for.
DropReference(t) ==
    LET r == thr[t].op IN
    /\ At(t, "drop")
    /\ \/ /\ LastReference(t, r)
          /\ pipe' = [pipe EXCEPT ![r] = ClosedPipe]
          /\ Goto(t, "destroy", thr[t].what)
       \/ /\ ~LastReference(t, r)
          /\ thr' = [thr EXCEPT ![t] = Resume(t)]
          /\ UNCHANGED pipe
    /\ UNCHANGED <<key, op, pending, sender>>

Release(t, r) ==
    /\ At(t, "idle") /\ op[r].referenced
    /\ op' = [op EXCEPT ![r].referenced = FALSE]
    /\ thr' = [thr EXCEPT ![t] = [pc |-> "drop", op |-> r, what |-> "none"]]
    /\ UNCHANGED <<key, pipe, pending, sender>>

\* WaitForThreadpoolWaitCallbacks, then the object is gone.
Destroy(t) ==
    LET r == thr[t].op IN
    /\ At(t, "destroy") /\ At(r, "idle")
    /\ op' = [op EXCEPT ![r] = NewOp("gone")]
    /\ thr' = [thr EXCEPT ![t] = Resume(t)]
    /\ UNCHANGED <<key, pipe, pending, sender>>

-----------------------------------------------------------------------------
(* AuthRequestAsyncOperation: the pipe *)

\* The first section of connect_to_new_client; "again" disconnects first.
ConnectToNewClient(t) ==
    LET r == Served(t) IN
    /\ At(t, "connect")
    /\ \/ ~Open(r) /\ Goto(t, After(t), "none") /\ UNCHANGED pipe
       \/ /\ Open(r) /\ thr[t].what = "again"
          /\ pipe' = [pipe EXCEPT ![r].client = NoOne, ![r].data = "none"]
          /\ \E next \in {"listen", "failed"} : Goto(t, next, "none")
       \/ /\ Open(r) /\ thr[t].what = "new"
          /\ \E next \in {IF pipe[r].client = NoOne THEN "listen" ELSE "read", "failed"} : Goto(t, next, "none")
          /\ UNCHANGED pipe
    /\ UNCHANGED <<key, op, pending, sender>>

\* Its second section ...
Listen(t) ==
    LET r == Served(t) IN
    /\ At(t, "listen")
    /\ \/ ~Open(r) /\ Goto(t, After(t), "none") /\ UNCHANGED pipe
       \/ Open(r) /\ Goto(t, "armConnect", "none") /\ pipe' = [pipe EXCEPT ![r].state = "connecting"]
    /\ UNCHANGED <<key, op, pending, sender>>

\* ... and SetThreadpoolWait, outside the lock.
ArmConnect(t) ==
    /\ At(t, "armConnect")
    /\ pipe' = [pipe EXCEPT ![Served(t)].armed = TRUE]
    /\ Goto(t, After(t), "none")
    /\ UNCHANGED <<key, op, pending, sender>>

HungUp(r) == pipe[r].client # NoOne /\ sender[pipe[r].client].pc = "false"

\* initiate_read: the message is there, the client is gone, or it is to come.
InitiateRead(t) ==
    LET r == Served(t) IN
    /\ At(t, "read")
    /\ \/ ~Open(r) /\ Goto(t, After(t), "none") /\ UNCHANGED pipe
       \/ /\ Open(r) /\ pipe[r].data # "none"
          /\ pipe' = [pipe EXCEPT ![r].data = "none"]
          /\ Goto(t, "answer", pipe[r].data)
       \/ /\ Open(r) /\ pipe[r].data = "none"
          /\ IF HungUp(r) THEN Goto(t, "connect", "again") ELSE Goto(t, "armRead", "none")
          /\ UNCHANGED pipe
    /\ UNCHANGED <<key, op, pending, sender>>

ArmRead(t) ==
    LET r == Served(t) IN
    /\ At(t, "armRead")
    /\ \/ ~Open(r) /\ UNCHANGED pipe
       \/ Open(r) /\ pipe' = [pipe EXCEPT ![r].state = "reading", ![r].armed = TRUE]
    /\ Goto(t, After(t), "none")
    /\ UNCHANGED <<key, op, pending, sender>>

\* Is the new request still being made by an app thread?
UnderConstruction(r) == \E a \in Apps : thr[a].op = r /\ thr[a].pc \in Building

\* on_read_complete: try_complete_local, whose "false" ends the service of the pipe.
OnReadComplete(t) ==
    LET r == Served(t) IN
    /\ At(t, "answer")
    /\ \/ /\ thr[t].what = "garbage"
          /\ Goto(t, "connect", "again")
          /\ UNCHANGED <<op, pending>>
       \/ /\ thr[t].what # "garbage"
          /\ \E q \in pending : key[q] = key[r] /\ Take(t, q, thr[t].what)
          /\ UNCHANGED op
       \/ /\ thr[t].what # "garbage"
          /\ \A q \in pending : key[q] # key[r]
          /\ Goto(t, After(t), "none")
          /\ op' = [op EXCEPT ![r].early = @ \/ UnderConstruction(r)]
          /\ UNCHANGED pending
    /\ UNCHANGED <<key, pipe, sender>>

\* An exception: the callback reports an error, the constructor destroys and rethrows.
Throw(t) ==
    LET r == Served(t) IN
    /\ At(t, "failed")
    /\ \/ t \in pending /\ Take(t, t, "error") /\ UNCHANGED <<op, pipe>>
       \/ /\ t \in Requests \ pending
          /\ Goto(t, "idle", "none")
          /\ op' = [op EXCEPT ![t].early = @ \/ UnderConstruction(t)]
          /\ UNCHANGED <<pipe, pending>>
       \/ /\ t \in Apps
          /\ op' = [op EXCEPT ![r] = NewOp("gone")]
          /\ pipe' = [pipe EXCEPT ![r] = ClosedPipe]
          /\ thr' = [thr EXCEPT ![t] = Idle]
          /\ UNCHANGED pending
    /\ UNCHANGED <<key, sender>>

\* The wait ends: the pending call did, or 50 ms passed.
Signaled(r) ==
    \/ ~Open(r)
    \/ pipe[r].state = "connecting" /\ pipe[r].client # NoOne
    \/ pipe[r].state = "reading" /\ (pipe[r].data # "none" \/ HungUp(r))

Fire(r) ==
    /\ pipe[r].armed /\ At(r, "idle")
    /\ \/ Signaled(r) /\ Goto(r, "fired", "object")
       \/ pipe[r].state = "reading" /\ Goto(r, "fired", "timeout")
    /\ pipe' = [pipe EXCEPT ![r].armed = FALSE]
    /\ UNCHANGED <<key, op, pending, sender>>

\* Mutant: a read that times out is given up.
CallbackGivesUp(r) ==
    /\ At(r, "fired")
    /\ \/ /\ ~Open(r) \/ thr[r].what = "timeout"
          /\ Goto(r, "idle", "none") /\ UNCHANGED pipe
       \/ /\ Open(r) /\ pipe[r].state = "connecting"
          /\ Goto(r, "read", "none") /\ UNCHANGED pipe
       \/ /\ Open(r) /\ pipe[r].state = "reading" /\ thr[r].what = "object" /\ pipe[r].data # "none"
          /\ pipe' = [pipe EXCEPT ![r].data = "none"] /\ Goto(r, "answer", pipe[r].data)
    /\ UNCHANGED <<key, op, pending, sender>>

Callback(r) ==
    /\ At(r, "fired")
    /\ \/ ~Open(r) /\ Goto(r, "idle", "none") /\ UNCHANGED pipe
       \/ /\ Open(r) /\ pipe[r].state = "connecting"
          /\ \E next \in {"read", "failed"} : Goto(r, next, "none")
          /\ UNCHANGED pipe
       \/ /\ Open(r) /\ pipe[r].state = "reading"
          /\ IF thr[r].what = "object" /\ pipe[r].data # "none"
             THEN pipe' = [pipe EXCEPT ![r].data = "none"] /\ Goto(r, "answer", pipe[r].data)
             ELSE Goto(r, "connect", "again") /\ UNCHANGED pipe
    /\ UNCHANGED <<key, op, pending, sender>>

-----------------------------------------------------------------------------
(* Another process: CompleteAuthRequest, or anyone who opens the pipe *)

SenderConnects(s, r) ==
    /\ sender[s].pc = "idle" /\ Open(r) /\ pipe[r].client = NoOne
    /\ \E w \in Contents : sender' = [sender EXCEPT ![s] = [pc |-> "connected", what |-> w]]
    /\ pipe' = [pipe EXCEPT ![r].client = s]
    /\ UNCHANGED <<key, op, pending, thr>>

SenderWrites(s) ==
    /\ sender[s].pc = "connected"
    /\ \/ \E r \in Requests :
            /\ pipe[r].client = s
            /\ pipe' = [pipe EXCEPT ![r].data = sender[s].what]
            /\ sender' = [sender EXCEPT ![s].pc = "true"]
       \/ /\ \A r \in Requests : pipe[r].client # s
          /\ sender' = [sender EXCEPT ![s].pc = "false"]
          /\ UNCHANGED pipe
    /\ UNCHANGED <<key, op, pending, thr>>

SenderEnds(s) ==
    /\ sender[s].pc = "connected"
    /\ sender' = [sender EXCEPT ![s].pc = "false"]
    /\ UNCHANGED <<key, op, pipe, pending, thr>>

-----------------------------------------------------------------------------

\* Steps of a thread that is running.
ThreadStep(t) ==
    \/ PushPending(t) \/ Launch(t) \/ LaunchFails(t)
    \/ TransitionState(t) \/ InvokeHandler(t) \/ DropReference(t) \/ Destroy(t)
    \/ ConnectToNewClient(t) \/ Listen(t) \/ ArmConnect(t)
    \/ InitiateRead(t) \/ ArmRead(t) \/ OnReadComplete(t) \/ Throw(t)

Next ==
    \/ \E t \in Threads : ThreadStep(t)
    \/ \E r \in Requests : Fire(r) \/ Callback(r)
    \/ \E t \in Apps, r \in Requests : Construct(t, r) \/ Cancel(t, r) \/ Completed(t, r) \/ Release(t, r)
    \/ \E t \in Apps : CompleteLocal(t)
    \/ \E s \in Senders, r \in Requests : SenderConnects(s, r)
    \/ \E s \in Senders : SenderWrites(s) \/ SenderEnds(s)

Spec == Init /\ [][Next]_vars

-----------------------------------------------------------------------------
(* Properties *)

Takers(r) == {t \in Threads : thr[t].op = r /\ thr[t].pc = "held"}

\* A request that was launched is in exactly one place (OAuth2Manager.cpp:278-337): in the
\* list, with the one thread that took it out, or ended; so no two threads end
\* it, and its handler (AuthRequestAsyncOperation.cpp:165, :229) is called at most once, and
\* only after the end.
AnsweredOnce ==
    /\ TypeOK
    /\ \A r \in Requests :
        /\ \A t, u \in Takers(r) : t = u
        /\ r \in pending => Takers(r) = {} /\ op[r].status = "Started"
        /\ Takers(r) # {} => op[r].status = "Started"
        /\ op[r].referenced /\ op[r].status = "Started" => r \in pending \/ Takers(r) # {}
        /\ op[r].told <= 1
        /\ op[r].told = 1 => op[r].status # "Started" /\ op[r].handler

\* The pipe of a pending request is open, the only one open for its state, and its
\* wait is set or a thread is about to serve it, unless its callback ran before the
\* request was in the list (OAuth2Manager.cpp:37-43, AuthRequestAsyncOperation.cpp:502-514).
PendingServed ==
    \A r \in pending :
        /\ Open(r)
        /\ \A q \in Requests \ {r} : Open(q) => key[q] # key[r]
        /\ op[r].early \/ pipe[r].armed \/ ~At(r, "idle")

\* Nobody waits in vain: an ended operation with a handler has told it or a thread
\* is about to, unless making its result threw (AuthRequestAsyncOperation.cpp:243);
\* a cancelled one has ended, or the thread that took it is about to end it.
EndTold ==
    \A r \in Requests :
        /\ op[r].handler /\ op[r].status # "Started" =>
              \/ op[r].told = 1
              \/ \E t \in Threads : At(t, "invoke") /\ thr[t].op = r
              \/ op[r].status = "Completed" /\ ~op[r].result
        /\ op[r].cancelled => op[r].status # "Started" \/ Takers(r) # {}
=============================================================================
