------------------------------ MODULE XEvents ------------------------------
(***************************************************************************)
(* The epoll event engine of src/net/event.c together with the part of the *)
(* fd hash map (src/data/hash.c over src/data/list.c) that decides which   *)
(* object a deletion reaches and in which order a destruction clears them. *)
(*                                                                         *)
(* The engine is single threaded but re-entrant: XEvents_Service walks the *)
(* batch returned by epoll_wait and runs the application callback for each *)
(* entry; the callback may register, re-arm and delete events, and each    *)
(* deletion runs a CLEAR callback that may do the same again.  The state   *)
(* therefore holds the position of the walk (pc, idx, cur, reason) and the *)
(* stack of CLEAR callbacks that are still running (frames).               *)
(*                                                                         *)
(* Event masks are left out: a registered socket may be reported with any  *)
(* of the flag sets in Ready.  malloc failures leave every variable as it  *)
(* was and are stuttering steps.                                           *)
(***************************************************************************)
EXTENDS Integers, Sequences

CONSTANTS Data,        \* addresses of xevent_data_t objects
          Fds,         \* descriptor numbers
          NULL,        \* the NULL pointer, and XSOCK_INVALID
          NEventMax,   \* nEventMax: the size of the epoll_wait batch
          NBuckets,    \* XHASH_MODULES
          Bucket(_),   \* XHASH_MIX of a descriptor
          Ready,       \* the flag sets epoll_wait may report for a socket
          UseHash,     \* bUseHash
          CountMod     \* nEventCount wraps at this value (2^32 in the code)

\* The epoll flags, in the order in which XEvents_ServiceCb tests them.
Flags == {"RDHUP", "HUP", "ERR", "PRI", "OUT", "IN"}

ASSUME NullAssumption == NULL \notin Data /\ NULL \notin Fds
ASSUME BatchAssumption == NEventMax \in Nat \ {0}
ASSUME BucketAssumption ==
    NBuckets \in Nat \ {0} /\ \A f \in Fds : Bucket(f) \in 0..(NBuckets - 1)
ASSUME ReadyAssumption == Ready \subseteq (SUBSET Flags) \ {{}}
ASSUME HashAssumption == UseHash \in BOOLEAN
ASSUME CountAssumption == CountMod \in Nat \ {0}

VARIABLES
    open,        \* descriptors that are open in the process
    timer,       \* timerfd state of each descriptor: "none", "armed", "expired"
    interest,    \* the epoll set: descriptor -> data.ptr, NULL when not in the set
    alloc,       \* event data objects that are allocated
    fdOf,        \* pData->nFD
    type,        \* pData->nType, as far as the engine tells types apart
    map,         \* eventsMap: descriptor -> object, NULL when there is no pair
    newer,       \* <<f, g>>: the pair of f was inserted after the pair of g
    count,       \* nEventCount
    array, evs,  \* pEventArray[1..nWaitCount]: data.ptr and events
    waitCount,   \* nWaitCount
    idx,         \* the loop index of XEvents_Service
    pc,          \* where the engine is
    cur, reason, \* the object being serviced and the callback it is in
    user,        \* inside the XEVENT_CB_USER repetition of XEvents_EventCb
    gone,        \* cur was deleted since its callback began (auxiliary)
    frames,      \* objects whose CLEAR callback is running, innermost last
    detached,    \* pairs of the bucket XHash_Destroy is clearing
    bucket       \* the next bucket XHash_Destroy will clear

kernel == <<open, timer, interest>>
heap   == <<alloc, fdOf, type>>
hash   == <<map, newer>>
batch  == <<array, evs, waitCount, idx>>
walk   == <<pc, cur, reason, user>>
dtor   == <<detached, bucket>>
vars   == <<kernel, heap, hash, count, batch, walk, gone, frames, dtor>>

Types   == {"sock", "event", "timer"}
Reasons == {"NONE", "CLOSED", "HUNGED", "ERROR", "EXCEPTION",
            "WRITE", "READ", "TIMEOUT",
            "TIMER_ERROR"} \* XEVENT_CB_ERROR made by XEvents_TimerService
Slots   == 1..NEventMax
NoFrames == << >>

\* Control is with the application: outside XEvents_Service, inside a service
\* callback, or inside a CLEAR callback.
AppTurn == pc \in {"app", "cb"} \/ frames # NoFrames

\* The epoll descriptor is open: XEvents_Destroy closes it first.
EpollOpen == pc \notin {"destroy", "dead"}

InFrames(d) == \E i \in 1..Len(frames) : frames[i] = d
Pop(s) == [i \in 1..(Len(s) - 1) |-> s[i]]
Forget(R, f) == {p \in R : p[1] # f /\ p[2] # f}

(***************************************************************************)
(* XEvents_ClearCb up to the CLEAR callback: the descriptor of a timer or  *)
(* event object is closed, then control goes to the application.           *)
(***************************************************************************)
ClearCb(d) ==
    /\ frames' = Append(frames, d)
    /\ IF type[d] # "sock" /\ fdOf[d] # NULL
         THEN /\ open'  = open \ {fdOf[d]}
              /\ timer' = [timer EXCEPT ![fdOf[d]] = "none"]
              /\ fdOf'  = [fdOf EXCEPT ![d] = NULL]
         ELSE UNCHANGED <<open, timer, fdOf>>
    /\ UNCHANGED <<alloc, type>>

\* The object the hash map hands to XEvents_ClearCb when d is deleted, or d
\* itself when the map has no pair for its descriptor.
Target(d) ==
    IF UseHash /\ fdOf[d] # NULL /\ map[fdOf[d]] # NULL THEN map[fdOf[d]] ELSE d

NoInvalidation(d) == UNCHANGED array

\* The loop of XEvents_Delete over the active batch.
InvalidateBatch(d) ==
    array' = [j \in Slots |-> IF j <= waitCount /\ array[j] = d
                              THEN NULL ELSE array[j]]

DecrementAlways(n) == n - 1

\* "if (nStatus >= 0 && pEvents->nEventCount) pEvents->nEventCount--".
Decrement(n) == IF n > 0 THEN n - 1 ELSE n

KeepPair(f) == UNCHANGED hash

\* XHash_Delete: the pair of descriptor f leaves its bucket.
XHash_Delete(f) ==
    IF UseHash /\ f # NULL /\ map[f] # NULL
      THEN /\ map' = [map EXCEPT ![f] = NULL]
           /\ newer' = Forget(newer, f)
      ELSE UNCHANGED hash

(***************************************************************************)
(* XEvents_Delete: drop the entries of the running batch, leave the epoll  *)
(* set, unlink the pair, and start the CLEAR callback.  EPOLL_CTL_DEL      *)
(* fails when the descriptor is not in the set, for instance because it    *)
(* was closed earlier, and nEventCount is then left alone.                 *)
(***************************************************************************)
XEvents_Delete(d) ==
    LET f == fdOf[d] IN
    /\ InvalidateBatch(d)
    /\ IF f # NULL /\ EpollOpen /\ interest[f] # NULL
         THEN /\ interest' = [interest EXCEPT ![f] = NULL]
              /\ count' = Decrement(count)
         ELSE UNCHANGED <<interest, count>>
    /\ XHash_Delete(f)
    /\ ClearCb(Target(d))
    /\ gone' = (gone \/ d = cur)
    /\ UNCHANGED <<evs, waitCount, idx>>

\* XEvents_ClearCb after the CLEAR callback: the object is freed, and what its
\* memory held is lost.
ClearReturn ==
    /\ frames # NoFrames
    /\ LET d == frames[Len(frames)] IN
         /\ alloc' = alloc \ {d}
         /\ fdOf'  = [fdOf EXCEPT ![d] = NULL]
         /\ type'  = [type EXCEPT ![d] = "sock"]
    /\ frames' = Pop(frames)
    /\ UNCHANGED <<kernel, hash, count, batch, walk, gone, dtor>>

NoRollback(d, f) == interest' = [interest EXCEPT ![f] = d]

\* XHash_Insert refused the pair: EPOLL_CTL_DEL takes back the EPOLL_CTL_ADD.
AddRollback(d, f) == interest' = [[interest EXCEPT ![f] = d] EXCEPT ![f] = NULL]

AlwaysInserted(f) == TRUE

\* XHash_InsertPair refuses a key that is present.
XHash_Insert(f) == ~UseHash \/ map[f] = NULL

(***************************************************************************)
(* XEvents_Add of a new object d for descriptor f, with XEvents_NewData    *)
(* before it.  The descriptor enters the epoll set first; when the map     *)
(* still holds a pair for the same number, XHash_Insert refuses, the       *)
(* descriptor leaves the set again and the caller frees the object.        *)
(***************************************************************************)
XEvents_Add(d, f, t) ==
    IF XHash_Insert(f)
      THEN /\ interest' = [interest EXCEPT ![f] = d]
           /\ alloc' = alloc \cup {d}
           /\ fdOf' = [fdOf EXCEPT ![d] = f]
           /\ type' = [type EXCEPT ![d] = t]
           /\ IF UseHash
                THEN /\ map' = [map EXCEPT ![f] = d]
                     /\ newer' = newer \cup {<<f, g>> : g \in {h \in Fds : map[h] # NULL}}
                ELSE UNCHANGED hash
           /\ count' = (count + 1) % CountMod
      ELSE /\ AddRollback(d, f)
           /\ UNCHANGED <<heap, hash, count>>

(***************************************************************************)
(* XEvents_RegisterEvent: a socket the application opened.  EPOLL_CTL_ADD  *)
(* refuses a descriptor that is in the set, and nothing changes.           *)
(***************************************************************************)
XEvents_RegisterEvent(d, f) ==
    /\ EpollOpen
    /\ d \notin alloc /\ interest[f] = NULL
    /\ XEvents_Add(d, f, "sock")
    /\ UNCHANGED timer

\* XEvents_AddTimer: a new timerfd, armed before it is registered, and closed
\* again when the registration fails.
XEvents_AddTimer(d, f) ==
    /\ EpollOpen
    /\ d \notin alloc /\ f \notin open
    /\ XEvents_Add(d, f, "timer")
    /\ IF XHash_Insert(f) THEN /\ open' = open \cup {f}
                        /\ timer' = [timer EXCEPT ![f] = "armed"]
                   ELSE UNCHANGED <<open, timer>>

\* XEvents_CreateEvent: the same with an eventfd.
XEvents_CreateEvent(d, f) ==
    /\ EpollOpen
    /\ d \notin alloc /\ f \notin open
    /\ XEvents_Add(d, f, "event")
    /\ open' = IF XHash_Insert(f) THEN open \cup {f} ELSE open
    /\ UNCHANGED timer

\* XEvents_ExtendTimer: timerfd_settime arms the descriptor again, and an
\* expiration that was not read yet is discarded.
XEvents_ExtendTimer(d) ==
    /\ type[d] = "timer" /\ fdOf[d] # NULL
    /\ timer' = [timer EXCEPT ![fdOf[d]] = "armed"]
    /\ UNCHANGED <<open, interest>>

(***************************************************************************)
(* What the application does on its own turn.  The guards beside AppTurn   *)
(* are the contract under which the engine is used: an object is deleted   *)
(* or re-armed only while it is allocated and not yet being cleared, and   *)
(* the pairs of the bucket that XHash_Destroy is clearing are left to it.  *)
(***************************************************************************)
Deletable(d) ==
    /\ d \in alloc /\ ~InFrames(d)
    /\ \A f \in Fds : detached[f] # d

EngineOwned(f) == \E d \in alloc : fdOf[d] = f /\ type[d] # "sock"

\* close() of a socket: the kernel drops it from the epoll set by itself.
AppClose(f) ==
    /\ AppTurn /\ f \in open /\ ~EngineOwned(f)
    /\ open' = open \ {f}
    /\ interest' = [interest EXCEPT ![f] = NULL]
    /\ UNCHANGED <<timer, heap, hash, count, batch, walk, gone, frames, dtor>>

\* A socket that is open and owned by the application, or that it opens now and
\* closes again when XEvents_RegisterEvent refuses it.
AppRegister(d, f) ==
    /\ AppTurn /\ ~EngineOwned(f)
    /\ XEvents_RegisterEvent(d, f)
    /\ open' = IF XHash_Insert(f) THEN open \cup {f} ELSE open
    /\ UNCHANGED <<batch, walk, gone, frames, dtor>>

AppAddTimer(d, f) ==
    /\ AppTurn
    /\ XEvents_AddTimer(d, f)
    /\ UNCHANGED <<batch, walk, gone, frames, dtor>>

AppCreateEvent(d, f) ==
    /\ AppTurn
    /\ XEvents_CreateEvent(d, f)
    /\ UNCHANGED <<batch, walk, gone, frames, dtor>>

AppExtendTimer(d) ==
    /\ AppTurn /\ d \in alloc
    /\ XEvents_ExtendTimer(d)
    /\ UNCHANGED <<heap, hash, count, batch, walk, gone, frames, dtor>>

AppDelete(d) ==
    /\ AppTurn /\ Deletable(d)
    /\ XEvents_Delete(d)
    /\ UNCHANGED <<walk, dtor>>

\* A timerfd reaches its time.
Expire(f) ==
    /\ timer[f] = "armed"
    /\ timer' = [timer EXCEPT ![f] = "expired"]
    /\ UNCHANGED <<open, interest, heap, hash, count, batch, walk, gone, frames, dtor>>

(***************************************************************************)
(* epoll_wait: a batch of distinct descriptors of the epoll set, each with *)
(* the flags it is ready for.  A timerfd is ready once it expired.         *)
(***************************************************************************)
ReadyFor(d) ==
    CASE type[d] = "sock"  -> Ready
      [] type[d] = "event" -> {{"IN"}}
      [] type[d] = "timer" -> IF timer[fdOf[d]] = "expired" THEN {{"IN"}} ELSE {}

Reported ==
    UNION {{[fd |-> f, events |-> e] : e \in ReadyFor(interest[f])} :
             f \in {g \in Fds : interest[g] # NULL}}

EpollWait ==
    /\ pc = "app" /\ frames = NoFrames
    /\ \E n \in Slots : \E s \in [1..n -> Reported] :
         /\ \A i, j \in 1..n : i # j => s[i].fd # s[j].fd
         /\ array' = [j \in Slots |-> IF j <= n THEN interest[s[j].fd] ELSE NULL]
         /\ evs'   = [j \in Slots |-> IF j <= n THEN s[j].events ELSE {}]
         /\ waitCount' = n
    /\ idx' = 1
    /\ pc' = "loop"
    /\ UNCHANGED <<kernel, heap, hash, count, cur, reason, user, gone, frames, dtor>>

\* The callback XEvents_ServiceCb makes first for a socket, by priority.
FirstReason(e) ==
    CASE "RDHUP" \in e -> "CLOSED"
      [] "RDHUP" \notin e /\ "HUP" \in e -> "HUNGED"
      [] e \cap {"RDHUP", "HUP"} = {} /\ "ERR" \in e -> "ERROR"
      [] e \cap {"RDHUP", "HUP", "ERR"} = {} /\ "PRI" \in e -> "EXCEPTION"
      [] e \cap {"RDHUP", "HUP", "ERR", "PRI"} = {} /\ "OUT" \in e -> "WRITE"
      [] OTHER -> "READ"

InLoop == pc = "loop" /\ frames = NoFrames /\ idx <= waitCount

ServiceSkip ==
    /\ InLoop /\ array[idx] = NULL
    /\ idx' = idx + 1
    /\ UNCHANGED <<kernel, heap, hash, count, array, evs, waitCount, walk, gone, frames, dtor>>

\* The service callback for reason r of object d begins.
CallbackStart(d, r) ==
    /\ pc' = "cb" /\ cur' = d /\ reason' = r /\ user' = FALSE /\ gone' = FALSE
    /\ UNCHANGED <<open, interest, heap, hash, count, batch, frames, dtor>>

ServiceSock ==
    /\ InLoop /\ array[idx] # NULL /\ type[array[idx]] # "timer"
    /\ CallbackStart(array[idx], FirstReason(evs[idx]))
    /\ UNCHANGED timer

(***************************************************************************)
(* XEvents_TimerService: reading the timerfd consumes the expiration; when *)
(* there is none left to read the timer is reported as an error.           *)
(***************************************************************************)
ServiceTimer ==
    /\ InLoop /\ array[idx] # NULL /\ type[array[idx]] = "timer"
    /\ LET f == fdOf[array[idx]] IN
         IF timer[f] = "expired"
           THEN /\ timer' = [timer EXCEPT ![f] = "none"]
                /\ CallbackStart(array[idx], "TIMEOUT")
           ELSE /\ CallbackStart(array[idx], "TIMER_ERROR")
                /\ UNCHANGED timer

\* The walk ends: nWaitCount is cleared and XEvents_Service returns.
ServiceEnd ==
    /\ pc' = "app" /\ waitCount' = 0
    /\ array' = [j \in Slots |-> NULL] /\ evs' = [j \in Slots |-> {}] /\ idx' = 1
    /\ cur' = NULL /\ reason' = "NONE" /\ user' = FALSE /\ gone' = FALSE
    /\ UNCHANGED <<kernel, heap, hash, count, frames, dtor>>

LoopEnd == pc = "loop" /\ frames = NoFrames /\ idx > waitCount /\ ServiceEnd

\* The batch was broken off by a return value other than XEVENTS_CONTINUE.
LoopBreak == pc = "stop" /\ frames = NoFrames /\ ServiceEnd

(***************************************************************************)
(* The service callback returns (XEvents_EventCb and what XEvents_ServiceCb*)
(* and XEvents_TimerService do with its result).  The contract on an       *)
(* application that deleted the object it was called for: the engine must  *)
(* not need that object again.                                             *)
(***************************************************************************)
InCallback == pc = "cb" /\ frames = NoFrames

\* XEvents_ServiceCb goes on from the WRITE to the READ callback.
ReadNext == reason = "WRITE" /\ "IN" \in evs[idx]

\* XEVENTS_CONTINUE, and XEVENTS_ACCEPT, which epoll builds turn into it.
ReturnContinue ==
    /\ InCallback /\ reason # "TIMER_ERROR"
    /\ ReadNext => ~gone
    /\ IF ReadNext
         THEN reason' = "READ" /\ UNCHANGED <<pc, cur, idx>>
         ELSE pc' = "loop" /\ idx' = idx + 1 /\ cur' = NULL /\ reason' = "NONE"
    /\ user' = FALSE
    /\ gone' = FALSE
    /\ UNCHANGED <<kernel, heap, hash, count, array, evs, waitCount, frames, dtor>>

\* XEVENTS_RELOOP or XEVENTS_BREAK; also XEVENTS_DISCONNECT from a USER
\* callback, which XEvents_EventCb returns without deleting anything.
ReturnStop ==
    /\ InCallback /\ reason # "TIMER_ERROR"
    /\ pc' = "stop"
    /\ UNCHANGED <<kernel, heap, hash, count, batch, cur, reason, user, gone, frames, dtor>>

\* XEVENTS_DISCONNECT: the engine deletes the object and breaks the batch.
ReturnDisconnect ==
    /\ InCallback /\ reason # "TIMER_ERROR" /\ ~user
    /\ ~gone
    /\ XEvents_Delete(cur)
    /\ pc' = "stop"
    /\ UNCHANGED <<cur, reason, user, dtor>>

\* XEVENTS_USERCALL: the callback is repeated with XEVENT_CB_USER.
ReturnUserCall ==
    /\ InCallback /\ reason # "TIMER_ERROR"
    /\ ~gone
    /\ user' = TRUE
    /\ UNCHANGED <<kernel, heap, hash, count, batch, pc, cur, reason, gone, frames, dtor>>

\* After the error callback of a timer XEvents_TimerService deletes the timer
\* whatever was returned, so the callback may neither delete it nor return
\* XEVENTS_DISCONNECT.
ReturnTimerError ==
    /\ InCallback /\ reason = "TIMER_ERROR"
    /\ ~gone
    /\ XEvents_Delete(cur)
    /\ pc' = "stop"
    /\ UNCHANGED <<cur, reason, user, dtor>>

(***************************************************************************)
(* XEvents_Destroy: the epoll descriptor is closed, then XHash_Destroy     *)
(* clears bucket after bucket.  XList_Clear detaches the sentinel of the   *)
(* bucket first, so while a bucket is being cleared XHash_Delete finds     *)
(* none of its pairs; they are visited newest first, since a pair is       *)
(* inserted right behind the sentinel.                                     *)
(***************************************************************************)
XEvents_Destroy ==
    /\ pc = "app" /\ frames = NoFrames
    /\ interest' = [f \in Fds |-> NULL]
    /\ pc' = IF UseHash THEN "destroy" ELSE "dead"
    /\ bucket' = 0
    /\ UNCHANGED <<open, timer, heap, hash, count, batch, cur, reason, user, gone, frames, detached>>

InDestroy == pc = "destroy" /\ frames = NoFrames
Cleared == \A f \in Fds : detached[f] = NULL

SkipLastBucket == bucket < NBuckets - 1

\* The loop condition of XHash_Destroy.
MoreBuckets == bucket < NBuckets

DestroyBucket ==
    /\ InDestroy /\ Cleared /\ MoreBuckets
    /\ detached' = [f \in Fds |-> IF Bucket(f) = bucket THEN map[f] ELSE NULL]
    /\ map' = [f \in Fds |-> IF Bucket(f) = bucket THEN NULL ELSE map[f]]
    /\ bucket' = bucket + 1
    /\ UNCHANGED <<kernel, heap, newer, count, batch, walk, gone, frames>>

\* XList_Unlink of the first node that is left of the detached bucket.
DestroyNode(f) ==
    /\ InDestroy /\ detached[f] # NULL
    /\ \A g \in Fds : detached[g] # NULL => <<g, f>> \notin newer
    /\ detached' = [detached EXCEPT ![f] = NULL]
    /\ newer' = Forget(newer, f)
    /\ ClearCb(detached[f])
    /\ UNCHANGED <<interest, map, count, batch, walk, gone, bucket>>

DestroyEnd ==
    /\ InDestroy /\ Cleared /\ ~MoreBuckets
    /\ pc' = "dead"
    /\ UNCHANGED <<kernel, heap, hash, count, batch, cur, reason, user, gone, frames, dtor>>

\* XEvents_Create on an engine that was destroyed.
XEvents_Create ==
    /\ pc = "dead"
    /\ pc' = "app" /\ count' = 0
    /\ map' = [f \in Fds |-> NULL] /\ newer' = {}
    /\ UNCHANGED <<kernel, heap, batch, cur, reason, user, gone, frames, dtor>>

Init ==
    /\ open = {} /\ timer = [f \in Fds |-> "none"] /\ interest = [f \in Fds |-> NULL]
    /\ alloc = {} /\ fdOf = [d \in Data |-> NULL] /\ type = [d \in Data |-> "sock"]
    /\ map = [f \in Fds |-> NULL] /\ newer = {} /\ count = 0
    /\ array = [j \in Slots |-> NULL] /\ evs = [j \in Slots |-> {}]
    /\ waitCount = 0 /\ idx = 1
    /\ pc = "app" /\ cur = NULL /\ reason = "NONE" /\ user = FALSE /\ gone = FALSE
    /\ frames = NoFrames
    /\ detached = [f \in Fds |-> NULL] /\ bucket = 0

Next ==
    \/ \E f \in Fds : AppClose(f) \/ Expire(f)
    \/ \E d \in Data, f \in Fds : AppRegister(d, f) \/ AppAddTimer(d, f) \/ AppCreateEvent(d, f)
    \/ \E d \in Data : AppExtendTimer(d) \/ AppDelete(d)
    \/ ClearReturn
    \/ EpollWait \/ ServiceSkip \/ ServiceSock \/ ServiceTimer \/ LoopEnd \/ LoopBreak
    \/ ReturnContinue \/ ReturnStop \/ ReturnDisconnect \/ ReturnUserCall \/ ReturnTimerError
    \/ XEvents_Destroy \/ DestroyBucket \/ (\E f \in Fds : DestroyNode(f)) \/ DestroyEnd
    \/ XEvents_Create

Spec == Init /\ [][Next]_vars

-----------------------------------------------------------------------------
Ptr == Data \cup {NULL}

\* Every variable of the engine has its type.
TypeOK ==
    /\ open \subseteq Fds
    /\ timer \in [Fds -> {"none", "armed", "expired"}]
    /\ interest \in [Fds -> Ptr]
    /\ alloc \subseteq Data
    /\ fdOf \in [Data -> Fds \cup {NULL}]
    /\ type \in [Data -> Types]
    /\ map \in [Fds -> Ptr]
    /\ newer \subseteq Fds \X Fds
    /\ count \in Nat
    /\ array \in [Slots -> Ptr]
    /\ evs \in [Slots -> SUBSET Flags]
    /\ waitCount \in 0..NEventMax
    /\ idx \in 1..(NEventMax + 1)
    /\ pc \in {"app", "loop", "cb", "stop", "destroy", "dead"}
    /\ cur \in Ptr /\ reason \in Reasons /\ user \in BOOLEAN /\ gone \in BOOLEAN
    /\ frames \in Seq(Data)
    /\ detached \in [Fds -> Ptr]
    /\ bucket \in 0..NBuckets

(***************************************************************************)
(* No entry of the running batch that the loop will still look at points   *)
(* to freed memory, whatever the callbacks of earlier entries deleted: the *)
(* reason XEvents_Delete gives for nullifying entries ("the loop could     *)
(* later dereference dangling data.ptr pointers").                         *)
(***************************************************************************)
BatchAlive ==
    \A j \in Slots : idx <= j /\ j <= waitCount /\ array[j] # NULL =>
        array[j] \in alloc /\ ~InFrames(array[j])

(***************************************************************************)
(* The kernel never holds a pointer to a freed object: what the next       *)
(* epoll_wait may return is allocated, is not being cleared, and has the   *)
(* descriptor it is reported for, though sockets may be closed before they *)
(* are deleted and their numbers and addresses are used again.             *)
(***************************************************************************)
KernelAlive ==
    \A f \in Fds : interest[f] # NULL =>
        interest[f] \in alloc /\ ~InFrames(interest[f]) /\ fdOf[interest[f]] = f

(***************************************************************************)
(* With the hash map in use, a deletion through the descriptor number      *)
(* reaches the object it was asked to delete and no other one: every       *)
(* allocated object that is not being cleared is the one the map, or the   *)
(* bucket being destroyed, holds for its descriptor.                       *)
(***************************************************************************)
DeleteReachesItsObject ==
    UseHash => \A d \in alloc : ~InFrames(d) =>
        fdOf[d] # NULL /\ (map[fdOf[d]] = d \/ detached[fdOf[d]] = d)

\* An object is cleared at most once: it is on the stack of CLEAR callbacks at
\* most once, and what is left of a bucket being destroyed is still allocated.
ClearedOnce ==
    /\ \A i, j \in 1..Len(frames) : frames[i] = frames[j] => i = j
    /\ \A i \in 1..Len(frames) : frames[i] \in alloc
    /\ \A f \in Fds : detached[f] # NULL =>
          detached[f] \in alloc /\ ~InFrames(detached[f])

(***************************************************************************)
(* When XEvents_Destroy returns, every registered object has been cleared  *)
(* and freed, whatever the CLEAR callbacks deleted on the way ("Frees      *)
(* arrays, timers and registered-event state", docs/net/event.md).  Without*)
(* the hash map the engine knows no object to free.                        *)
(***************************************************************************)
DestroyFreesAll == UseHash /\ pc = "dead" => alloc = {}

(***************************************************************************)
(* A timer that is armed, because XEvents_ExtendTimer "Rearms timer"       *)
(* (docs/net/event.md), is not reported as failed and then destroyed.      *)
(***************************************************************************)
ExtendedTimerSurvives ==
    pc = "cb" /\ reason = "TIMER_ERROR" => timer[fdOf[cur]] # "armed"
=============================================================================
