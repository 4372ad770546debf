-------------------------------- MODULE XAPI --------------------------------
(***************************************************************************)
(* The session life cycle of src/net/api.c, as a client of the event       *)
(* engine.  A session owns a socket, one event object and at most one      *)
(* timer object; the objects point back to the session.  Every path ends   *)
(* in XAPI_ClearEvent, the CLEAR callback of the engine, which frees the   *)
(* session and may delete its timer on the way.                            *)
(*                                                                         *)
(* The application callback may call the API again, so the state has the   *)
(* stack of activations: which function is waiting for what to return.     *)
(* The engine is EventLoop, written out over the same variables: a call    *)
(* that breaks the engine's contract is not disabled here but is a step    *)
(* that EventLoop does not allow.                                          *)
(*                                                                         *)
(* What is read, parsed and sent is abstracted to what the handlers return.*)
(* A callback whose result is ignored and after which nothing happens adds *)
(* nothing to the turn the application is already in, and is left out.     *)
(***************************************************************************)
EXTENDS Integers, Sequences

CONSTANTS Session,   \* addresses of xapi_session_t objects
          Object,    \* addresses of xevent_data_t objects
          NULL,
          MaxDepth,  \* bound: activations on top of which the application calls
          Assumed    \* assumptions on the application and the environment:
                     \* "timeout": a TIMEOUT callback that deleted its timer
                     \*   returns XAPI_CONTINUE
                     \* "spread": in a worker no session shares a bucket of the
                     \*   descriptor map with its timer

ASSUME XAPINullAssumption == NULL \notin Session /\ NULL \notin Object
ASSUME DepthAssumption == MaxDepth \in Nat
ASSUME AssumedAssumption == Assumed \subseteq {"timeout", "spread"}

VARIABLES
    sess,     \* allocated sessions
    role,     \* eRole: "SERVER", "PEER" (also CLIENT and CUSTOM) or "INACTIVE"
    evData,   \* pSession->pEvData
    timer,    \* pSession->pTimer
    sock,     \* sessions whose socket is open
    ctx,      \* pEvData->pContext
    isTimer,  \* objects of type XEVENT_TYPE_TIMER
    stack,    \* activations, innermost last
    live, newer, clearing, phase, batch, cur, call, gone, doomed   \* see EventLoop

session == <<sess, role, evData, timer, sock>>
object  == <<ctx, isTimer>>
walk    == <<phase, batch, cur, call, gone>>
engine  == <<live, newer, clearing, walk, doomed>>
vars    == <<session, object, stack, engine>>

NoCall == "none"
Calls == {"CLOSED", "ERROR", "READ", "WRITE", "TIMEOUT", "TIMER_ERROR"}
Roles == {"SERVER", "PEER", "INACTIVE"}

\* XAPI_IsSupportedRole
Supported(r) == r # "INACTIVE"

\* Where an activation stands.  In the points of the first line the application
\* callback is running; object d is set in the CLEAR callbacks.
UserPoints == {"added", "accepted", "read", "status", "timeout", "error",
               "timer_destroy", "closed", "user"}
Points == UserPoints \cup {"refused", "next", "reloop", "free", "close", "done"}

At(p, s, d) == [at |-> p, s |-> s, d |-> d]
Top == stack[Len(stack)]
Below == SubSeq(stack, 1, Len(stack) - 1)
TopAt(p) == stack # << >> /\ Top.at = p
Goto(p) == Append(Below, [Top EXCEPT !.at = p])

InClearing(d) == \E i \in 1..Len(clearing) : clearing[i] = d
Busy(s) == \E i \in 1..Len(stack) : stack[i].s = s /\ stack[i].at # "refused"

EL == INSTANCE EventLoop WITH Call <- Calls

-----------------------------------------------------------------------------
(* The engine's operations.                                                *)

Unused(d) == d \notin live /\ ~InClearing(d)
CanRegister == phase \notin {"destroy", "dead"}

Registered(d, s, t) ==
    /\ live' = live \cup {d}
    /\ newer' = newer \cup {<<d, e>> : e \in live}
    /\ ctx' = [ctx EXCEPT ![d] = s]
    /\ isTimer' = IF t THEN isTimer \cup {d} ELSE isTimer \ {d}

\* XEvents_Delete up to the CLEAR callback.
Removed(d) ==
    /\ live' = live \ {d}
    /\ newer' = {p \in newer : p[1] # d /\ p[2] # d}
    /\ clearing' = Append(clearing, d)
    /\ batch' = batch \ {d}
    /\ gone' = (gone \/ d = cur)

\* XEvents_ClearCb after the CLEAR callback: the object is freed.
Freed ==
    /\ clearing' = SubSeq(clearing, 1, Len(clearing) - 1)
    /\ UNCHANGED <<live, newer, walk, doomed>>

\* XAPI_ClearEvent at its beginning.  An object without a context, such as one
\* that was cleared before, has no callback.
ClearEvent(d) ==
    At(CASE ctx[d] = NULL -> "done"
         [] ctx[d] # NULL /\ d \in isTimer -> "timer_destroy"
         [] ctx[d] # NULL /\ d \notin isTimer /\ Supported(role[ctx[d]]) -> "closed"
         [] OTHER -> "free",
       ctx[d], d)

\* The result of XAPI_EventCallback, with st the stack it leaves: the engine
\* goes on, from the WRITE to the READ callback or to the next entry, ...
ReturnContinue(st) ==
    /\ stack' = st
    /\ \/ call = "WRITE" /\ call' = "READ" /\ UNCHANGED <<phase, cur, gone>>
       \/ phase' = "loop" /\ cur' = NULL /\ call' = NoCall /\ gone' = FALSE
    /\ UNCHANGED <<live, newer, clearing, batch, doomed>>

\* ... abandons the batch, ...
ReturnReloop(st) ==
    /\ stack' = st
    /\ phase' = "stop" /\ batch' = {} /\ call' = NoCall
    /\ UNCHANGED <<live, newer, clearing, cur, gone, doomed>>

\* ... or deletes the object and abandons the batch.
ReturnDisconnect(st) ==
    /\ stack' = Append(st, ClearEvent(cur))
    /\ live' = live \ {cur}
    /\ newer' = {p \in newer : p[1] # cur /\ p[2] # cur}
    /\ clearing' = Append(clearing, cur)
    /\ gone' = TRUE
    /\ phase' = "stop" /\ batch' = {} /\ call' = NoCall
    /\ UNCHANGED <<cur, doomed>>

-----------------------------------------------------------------------------
(* Calls of the application.                                               *)

AppTurn == IF stack = << >> THEN phase \in {"app", "dead"} ELSE Top.at \in UserPoints
Room == Len(stack) < MaxDepth

\* XAPI_NewData, with the role the caller sets.
NewData(s, r) ==
    /\ s \notin sess
    /\ sess' = sess \cup {s}
    /\ role' = [role EXCEPT ![s] = r]
    /\ timer' = [timer EXCEPT ![s] = NULL]

\* XAPI_Listen, XAPI_Connect and XAPI_AddEvent up to the callback LISTENING,
\* CONNECTED or REGISTERED.
XAPI_AddEndpoint(s, r, d) ==
    /\ AppTurn /\ Room /\ CanRegister /\ Unused(d)
    /\ NewData(s, r)
    /\ sock' = sock \cup {s}
    /\ Registered(d, s, FALSE)
    /\ evData' = [evData EXCEPT ![s] = d]
    /\ stack' = Append(stack, At("added", s, NULL))
    /\ UNCHANGED <<clearing, walk, doomed>>

\* The same when the socket or the registration fails: the error is reported
\* with the session, which is freed afterwards.
AddEndpointFails(s, r) ==
    /\ AppTurn /\ Room
    /\ NewData(s, r)
    /\ sock' \in {sock, sock \cup {s}}
    /\ evData' = [evData EXCEPT ![s] = NULL]
    /\ stack' = Append(stack, At("error", s, NULL))
    /\ UNCHANGED <<object, engine>>

\* A session that has a timer has it re-armed; a failure changes nothing.
XAPI_AddTimer(s, d) ==
    /\ AppTurn /\ CanRegister /\ Unused(d)
    /\ s \in sess /\ timer[s] = NULL
    /\ Registered(d, s, TRUE)
    /\ timer' = [timer EXCEPT ![s] = d]
    /\ UNCHANGED <<sess, role, evData, sock, stack, clearing, walk, doomed>>

\* The application does not delete a timer in its own TIMER_DESTROY callback,
\* and during XAPI_Destroy a callback touches its own session only.
XAPI_DeleteTimer(s) ==
    /\ AppTurn /\ Room
    /\ s \in sess /\ timer[s] \in live
    /\ phase = "destroy" => Top.s = s
    /\ Removed(timer[s])
    /\ stack' = Append(stack, ClearEvent(timer[s]))
    /\ UNCHANGED <<session, object, phase, cur, call, doomed>>

\* The application does not disconnect a session for which a callback is running
\* (that callback's result does it), nor any during XAPI_Destroy.
XAPI_Disconnect(s) ==
    /\ AppTurn /\ Room /\ phase # "destroy"
    /\ s \in sess /\ evData[s] # NULL /\ ~Busy(s)
    /\ Removed(evData[s])
    /\ stack' = Append(stack, ClearEvent(evData[s]))
    /\ UNCHANGED <<session, object, phase, cur, call, doomed>>

-----------------------------------------------------------------------------
(* The callbacks return.                                                   *)

AddedReturn ==
    /\ TopAt("added")
    /\ stack' = Below
    /\ UNCHANGED <<session, object, engine>>

\* A negative result: the event is deleted, ...
AddedRefuse ==
    /\ TopAt("added")
    /\ Removed(evData[Top.s])
    /\ stack' = Append(Goto("refused"), ClearEvent(evData[Top.s]))
    /\ UNCHANGED <<session, object, phase, cur, call, doomed>>

\* ... and pSession->pEvData is cleared afterwards.
RefusedEnd ==
    /\ TopAt("refused")
    /\ evData' = [evData EXCEPT ![Top.s] = NULL]
    /\ stack' = Below
    /\ UNCHANGED <<sess, role, timer, sock, object, engine>>

\* ACCEPTED; below it the handler waits to return XEVENTS_ACCEPT or CONTINUE.
AcceptedReturn ==
    /\ TopAt("accepted")
    /\ \/ /\ stack' = Below
          /\ UNCHANGED engine
       \/ /\ Removed(evData[Top.s])
          /\ stack' = Append(Below, ClearEvent(evData[Top.s]))
          /\ UNCHANGED <<phase, cur, call, doomed>>
    /\ UNCHANGED <<session, object>>

NextEnd == TopAt("next") /\ ReturnContinue(Below) /\ UNCHANGED <<session, object>>

\* READ, WRITE or COMPLETE; after a non-negative result the handler goes on.
ReadReturn ==
    /\ TopAt("read")
    /\ \/ stack' = Below /\ UNCHANGED engine
       \/ ReturnReloop(Below)
       \/ ReturnDisconnect(Below)
    /\ UNCHANGED <<session, object>>

\* The result of a STATUS or ERROR callback is ignored: XEVENTS_DISCONNECT.
StatusReturn == TopAt("status") /\ ReturnDisconnect(Below) /\ UNCHANGED <<session, object>>

\* XAPI_TimeoutEvent: XAPI_CONTINUE keeps the timer, a negative result
\* disconnects the session, and anything else deletes the timer.
KeepTimer(s) == ReturnContinue(Below) /\ UNCHANGED <<session, object>>

DisconnectSession(s) ==
    /\ IF evData[s] # NULL
         THEN /\ Removed(evData[s])
              /\ stack' = Below \o << At("reloop", NULL, NULL), ClearEvent(evData[s]) >>
         ELSE /\ stack' = Append(Below, At("reloop", NULL, NULL))
              /\ UNCHANGED <<live, newer, clearing, batch, gone>>
    /\ UNCHANGED <<session, object, phase, cur, call, doomed>>

DropTimer(s) ==
    /\ "timeout" \in Assumed => ~gone
    /\ ReturnDisconnect(Below)
    /\ UNCHANGED <<session, object>>

TimeoutReturn ==
    /\ TopAt("timeout")
    /\ KeepTimer(Top.s) \/ DisconnectSession(Top.s) \/ DropTimer(Top.s)

TimeoutDisconnects == TopAt("reloop") /\ ReturnDisconnect(Below) /\ UNCHANGED <<session, object>>

\* XAPI_TimeoutEvent returns XEVENTS_RELOOP once the session was disconnected.
ReloopEnd == TopAt("reloop") /\ ReturnReloop(Below) /\ UNCHANGED <<session, object>>

-----------------------------------------------------------------------------
(* XAPI_ClearEvent and XAPI_FreeData.                                      *)

TimerStaysKnown ==
    /\ TopAt("timer_destroy")
    /\ ctx' = [ctx EXCEPT ![Top.d] = NULL]
    /\ isTimer' = isTimer \ {Top.d}
    /\ stack' = Below /\ Freed
    /\ UNCHANGED session

\* The timer is gone: the session forgets it, and the object is freed.
TimerDestroyReturn ==
    /\ TopAt("timer_destroy")
    /\ timer' = [timer EXCEPT ![Top.s] = NULL]
    /\ ctx' = [ctx EXCEPT ![Top.d] = NULL]
    /\ isTimer' = isTimer \ {Top.d}
    /\ stack' = Below /\ Freed
    /\ UNCHANGED <<sess, role, evData, sock>>

ClosedReturn ==
    /\ TopAt("closed") \/ TopAt("error")
    /\ stack' = Goto("free")
    /\ UNCHANGED <<session, object, engine>>

KeepTimerAlive ==
    /\ TopAt("free")
    /\ stack' = Goto("close")
    /\ UNCHANGED <<session, object, engine>>

\* XAPI_ClearData: the timer is deleted first, ...
FreeTimer ==
    /\ TopAt("free")
    /\ IF timer[Top.s] # NULL
         THEN /\ Removed(timer[Top.s])
              /\ stack' = Append(Goto("close"), ClearEvent(timer[Top.s]))
         ELSE /\ stack' = Goto("close")
              /\ UNCHANGED <<live, newer, clearing, batch, gone>>
    /\ UNCHANGED <<session, object, phase, cur, call, doomed>>

LeaveOpen(s) == UNCHANGED sock

\* XSock_Close
CloseSocket(s) == sock' = sock \ {s}

\* ... then the socket is closed and the session freed.  In a CLEAR callback the
\* object is freed next; before that a CLOSED callback that returned
\* XAPI_USER_CB has the USER callback made.
FreeData ==
    /\ TopAt("close")
    /\ CloseSocket(Top.s)
    /\ sess' = sess \ {Top.s}
    /\ role' = [role EXCEPT ![Top.s] = "INACTIVE"]
    /\ evData' = [evData EXCEPT ![Top.s] = NULL]
    /\ timer' = [timer EXCEPT ![Top.s] = NULL]
    /\ ctx' = IF Top.d = NULL THEN ctx ELSE [ctx EXCEPT ![Top.d] = NULL]
    /\ \/ Top.d = NULL /\ stack' = Below /\ UNCHANGED engine
       \/ Top.d # NULL /\ stack' = Below /\ Freed
       \/ /\ Top.d # NULL /\ Supported(role[Top.s])
          /\ stack' = Append(Below, At("user", NULL, Top.d))
          /\ UNCHANGED engine
    /\ UNCHANGED isTimer

\* The end of a USER callback, or of clearing an object that has no context.
ClearEnd ==
    /\ TopAt("user") \/ TopAt("done")
    /\ stack' = Below /\ Freed
    /\ UNCHANGED <<session, object>>

-----------------------------------------------------------------------------
(* XAPI_Service: the engine dispatches, XAPI_EventCallback handles.        *)

Poll ==
    /\ phase = "app" /\ stack = << >>
    /\ batch' \in (SUBSET live) \ {{}}
    /\ phase' = "loop"
    /\ UNCHANGED <<session, object, stack, live, newer, clearing, cur, call, gone, doomed>>

Dispatch(d) ==
    /\ phase = "loop" /\ stack = << >> /\ d \in batch
    /\ batch' = batch \ {d}
    /\ phase' = "cb" /\ cur' = d /\ gone' = FALSE
    /\ call' \in IF d \in isTimer THEN {"TIMEOUT", "TIMER_ERROR"}
                                  ELSE {"CLOSED", "ERROR", "READ", "WRITE"}
    /\ UNCHANGED <<session, object, stack, live, newer, clearing, doomed>>

Handling(c) == phase = "cb" /\ stack = << >> /\ call = c

\* XAPI_ClosedEvent and XAPI_HungedEvent
ClosedEvent ==
    /\ Handling("CLOSED")
    /\ IF Supported(role[ctx[cur]])
         THEN stack' = << At("status", ctx[cur], NULL) >> /\ UNCHANGED engine
         ELSE ReturnDisconnect(stack)
    /\ UNCHANGED <<session, object>>

\* The engine's ERROR and EXCEPTION have no case in XAPI_EventCallback.
ErrorEvent == Handling("ERROR") /\ ReturnContinue(stack) /\ UNCHANGED <<session, object>>

\* For a timer the engine deletes the object after its ERROR callback.
TimerError == Handling("TIMER_ERROR") /\ ReturnDisconnect(stack) /\ UNCHANGED <<session, object>>

TimeoutEvent ==
    /\ Handling("TIMEOUT")
    /\ stack' = << At("timeout", ctx[cur], NULL) >>
    /\ UNCHANGED <<session, object, engine>>

InSession == Handling("READ") \/ Handling("WRITE")
Accepting == Handling("READ") /\ role[ctx[cur]] = "SERVER"

\* XAPI_ReadEvent and XAPI_WriteEvent: nothing to do or a partial packet, ...
SessionIdle ==
    /\ InSession /\ Supported(role[ctx[cur]])
    /\ ReturnContinue(stack)
    /\ UNCHANGED <<session, object>>

\* ... a session that is cancelled, has no role, or breaks its protocol, ...
SessionDrop == InSession /\ ReturnDisconnect(stack) /\ UNCHANGED <<session, object>>

\* ... a packet or room to write, ...
SessionData ==
    /\ InSession /\ ~Accepting /\ Supported(role[ctx[cur]])
    /\ stack' = << At("read", ctx[cur], NULL) >>
    /\ UNCHANGED <<session, object, engine>>

\* ... the end of the stream, a socket error, for which XSock_Read and XSock_Write
\* have closed the socket, or another error: it is reported, then the session is
\* disconnected.
SessionFails ==
    /\ InSession /\ ~Accepting /\ Supported(role[ctx[cur]])
    /\ CloseSocket(ctx[cur]) \/ UNCHANGED sock
    /\ stack' = << At("status", ctx[cur], NULL) >>
    /\ UNCHANGED <<sess, role, evData, timer, object, engine>>

\* XAPI_Accept: a peer, registered and announced, ...
XAPI_Accept(s, d) ==
    /\ Accepting /\ Unused(d)
    /\ NewData(s, "PEER")
    /\ sock' = sock \cup {s}
    /\ Registered(d, s, FALSE)
    /\ evData' = [evData EXCEPT ![s] = d]
    /\ stack' = << At("next", NULL, NULL), At("accepted", s, NULL) >>
    /\ UNCHANGED <<clearing, walk, doomed>>

\* ... or an error on the way, after which the peer is freed.
AcceptFails(s) ==
    /\ Accepting
    /\ NewData(s, "PEER")
    /\ sock' \in {sock, sock \cup {s}}
    /\ evData' = [evData EXCEPT ![s] = NULL]
    /\ stack' = << At("next", NULL, NULL), At("error", s, NULL) >>
    /\ UNCHANGED <<object, engine>>

End ==
    /\ stack = << >>
    /\ phase = "stop" \/ (phase = "loop" /\ batch = {})
    /\ phase' = "app" /\ cur' = NULL /\ gone' = FALSE
    /\ UNCHANGED <<session, object, stack, live, newer, clearing, batch, call, doomed>>

-----------------------------------------------------------------------------
(* Workers and destruction.                                                *)

\* XAPI_RebuildWorkerEvents in a forked worker: the objects are collected from
\* the map, newest first within a bucket, and added to a new one in that order.
XAPI_RebuildWorkerEvents ==
    /\ phase = "app" /\ stack = << >>
    /\ newer' = {<<p[2], p[1]>> : p \in newer}
    /\ UNCHANGED <<session, object, stack, live, clearing, walk, doomed>>

XAPI_Destroy ==
    /\ phase = "app" /\ stack = << >>
    /\ phase' = "destroy"
    /\ UNCHANGED <<session, object, stack, live, newer, clearing, batch, cur, call, gone, doomed>>

\* No session of the group would be cleared before its timer.
Spread(G) ==
    \A d \in G \ isTimer, e \in G \cap isTimer : ctx[d] = ctx[e] => <<e, d>> \in newer

\* XHash_Destroy takes the pairs of the next bucket.
Doom ==
    /\ phase = "destroy" /\ stack = << >> /\ doomed = {}
    /\ \E G \in (SUBSET live) \ {{}} :
         /\ "spread" \in Assumed => Spread(G)
         /\ doomed' = G
    /\ UNCHANGED <<session, object, stack, live, newer, clearing, walk>>

\* The newest pair that is left of the bucket is cleared.
ClearNext(d) ==
    /\ phase = "destroy" /\ stack = << >> /\ d \in doomed
    /\ \A e \in doomed : <<e, d>> \notin newer
    /\ Removed(d)
    /\ doomed' = doomed \ {d}
    /\ stack' = << ClearEvent(d) >>
    /\ UNCHANGED <<session, object, phase, cur, call>>

DestroyEnd ==
    /\ phase = "destroy" /\ stack = << >> /\ doomed = {} /\ live = {}
    /\ phase' = "dead"
    /\ UNCHANGED <<session, object, stack, live, newer, clearing, batch, cur, call, gone, doomed>>

\* XAPI_Init, and XAPI_GetOrCreateEvents at the first registration.
XAPI_Init ==
    /\ phase = "dead" /\ stack = << >>
    /\ phase' = "app"
    /\ UNCHANGED <<session, object, stack, live, newer, clearing, batch, cur, call, gone, doomed>>

Init ==
    /\ sess = {} /\ role = [s \in Session |-> "INACTIVE"] /\ sock = {}
    /\ evData = [s \in Session |-> NULL] /\ timer = [s \in Session |-> NULL]
    /\ ctx = [d \in Object |-> NULL] /\ isTimer = {} /\ stack = << >>
    /\ live = {} /\ newer = {} /\ clearing = << >> /\ phase = "app" /\ batch = {}
    /\ cur = NULL /\ call = NoCall /\ gone = FALSE /\ doomed = {}

App ==
    \/ \E s \in Session, r \in Roles, d \in Object : XAPI_AddEndpoint(s, r, d)
    \/ \E s \in Session, r \in Roles : AddEndpointFails(s, r)
    \/ \E s \in Session, d \in Object : XAPI_AddTimer(s, d)
    \/ \E s \in Session : XAPI_DeleteTimer(s) \/ XAPI_Disconnect(s)

Return ==
    \/ AddedReturn \/ AddedRefuse \/ RefusedEnd \/ AcceptedReturn \/ NextEnd
    \/ ReadReturn \/ StatusReturn \/ TimeoutReturn \/ ReloopEnd
    \/ TimerDestroyReturn \/ ClosedReturn \/ FreeTimer \/ FreeData \/ ClearEnd

Service ==
    \/ Poll \/ (\E d \in Object : Dispatch(d))
    \/ ClosedEvent \/ ErrorEvent \/ TimerError \/ TimeoutEvent
    \/ SessionIdle \/ SessionDrop \/ SessionData \/ SessionFails
    \/ (\E s \in Session, d \in Object : XAPI_Accept(s, d))
    \/ (\E s \in Session : AcceptFails(s))
    \/ End

Lifecycle ==
    \/ XAPI_RebuildWorkerEvents \/ XAPI_Destroy \/ Doom
    \/ (\E d \in Object : ClearNext(d)) \/ DestroyEnd \/ XAPI_Init

Next == App \/ Return \/ Service \/ Lifecycle

Spec == Init /\ [][Next]_vars

-----------------------------------------------------------------------------
\* Every variable has its type.
TypeOK ==
    /\ sess \subseteq Session /\ sock \subseteq Session
    /\ role \in [Session -> Roles]
    /\ evData \in [Session -> Object \cup {NULL}]
    /\ timer \in [Session -> Object \cup {NULL}]
    /\ ctx \in [Object -> Session \cup {NULL}] /\ isTimer \subseteq Object
    /\ stack \in Seq([at : Points, s : Session \cup {NULL}, d : Object \cup {NULL}])
    /\ live \subseteq Object /\ newer \subseteq Object \X Object
    /\ clearing \in Seq(Object) /\ batch \subseteq Object
    /\ phase \in {"app", "loop", "cb", "stop", "destroy", "dead"}
    /\ cur \in Object \cup {NULL} /\ call \in Calls \cup {NoCall} /\ gone \in BOOLEAN
    /\ doomed \subseteq Object

\* The points at which an activation has no use for a session any more, and the
\* one that RefusedSessionAlive is about.
Detached == {"user", "next", "reloop", "refused"}

(***************************************************************************)
(* No freed session is used: every registered object leads to an allocated *)
(* session, and so does every activation, however deep the callbacks are   *)
(* nested.  The write at the end of a refused registration has a property  *)
(* of its own.                                                             *)
(***************************************************************************)
SessionsAlive ==
    /\ \A d \in live : ctx[d] \in sess
    /\ \A i \in 1..Len(stack) : stack[i].at \notin Detached => stack[i].s \in sess

(***************************************************************************)
(* Variables have their types, and the pointers of a session and of its    *)
(* objects agree: XAPI_DeleteTimer and XAPI_Disconnect reach objects that  *)
(* still exist and are this session's, and a live timer is the one its     *)
(* session knows.                                                          *)
(***************************************************************************)
LinksAgree ==
    /\ TypeOK
    /\ \A d \in live :
          IF d \in isTimer THEN timer[ctx[d]] = d ELSE evData[ctx[d]] \in {d, NULL}
    /\ \A s \in sess :
          /\ timer[s] # NULL => ~Unused(timer[s]) /\ ctx[timer[s]] = s
          /\ evData[s] # NULL => ~Unused(evData[s]) /\ ctx[evData[s]] = s

\* Nothing is lost: an allocated session is registered or is being worked on, so
\* none is left after XAPI_Destroy, and the socket of a freed session is closed.
NoLeak ==
    /\ \A s \in sess : Busy(s) \/ \E d \in live \ isTimer : ctx[d] = s
    /\ sock \subseteq sess

(***************************************************************************)
(* The API keeps the contract of the event engine: whatever the callbacks  *)
(* return and call, it never deletes an object twice, deletes none of the  *)
(* bucket that is being destroyed, and returns to the engine nothing that  *)
(* makes it use an object that is gone.                                    *)
(***************************************************************************)
KeepsEngineContract == EL!Spec

(***************************************************************************)
(* A registration that its callback refuses ends with "XSTDERR on ...      *)
(* callback failure" (docs/net/api.md); the session it then writes to      *)
(* exists.                                                                 *)
(***************************************************************************)
RefusedSessionAlive == TopAt("refused") => Top.s \in sess
=============================================================================
