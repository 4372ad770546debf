----------------------------- MODULE EventLoop -----------------------------
(***************************************************************************)
(* What the event engine promises to its client, and what it expects from  *)
(* it: registered objects, one dispatch loop, and CLEAR callbacks that     *)
(* nest.  Descriptors, the kernel and the hash map are not visible here.   *)
(* XEvents implements this specification; XAPI is written against it.      *)
(*                                                                         *)
(* The engine's side: only a live object is ever dispatched; a deletion    *)
(* starts exactly one CLEAR callback, and the object is freed when that    *)
(* callback returns; destruction clears everything, in groups, the newest  *)
(* object of a group first.                                                *)
(* The client's side: only a live object that is not in the group being    *)
(* destroyed is deleted, and the callback of an object that was deleted    *)
(* meanwhile does not ask the engine to use the object again.              *)
(***************************************************************************)
EXTENDS Integers, Sequences

CONSTANTS Object, NULL,
          Call,     \* the reasons for which a callback is made
          NoCall    \* no callback is running

VARIABLES
    live,      \* registered objects that are not being cleared
    newer,     \* <<d, e>>: d was registered after e
    clearing,  \* objects whose CLEAR callback is running, innermost last
    phase,     \* "app", "loop", "cb", "stop", "destroy" or "dead"
    batch,     \* objects the dispatch loop may still dispatch
    cur,       \* the object whose callback is running
    call,      \* the reason of that callback
    gone,      \* cur was deleted since its callback began
    doomed     \* the group that is being destroyed

vars == <<live, newer, clearing, phase, batch, cur, call, gone, doomed>>

\* Control is with the client.
ClientTurn == phase \in {"app", "cb"} \/ clearing # << >>

\* Control is with the engine: no CLEAR callback is running.
EngineTurn(p) == phase = p /\ clearing = << >>

Without(R, d) == {p \in R : p[1] # d /\ p[2] # d}
InClearing(d) == \E i \in 1..Len(clearing) : clearing[i] = d

\* A registration, or one that the engine refused.
Register(d) ==
    /\ ClientTurn /\ phase \notin {"destroy", "dead"}
    /\ d \notin live /\ ~InClearing(d)
    /\ live' = live \cup {d}
    /\ newer' = newer \cup {<<d, e>> : e \in live}
    /\ UNCHANGED <<clearing, phase, batch, cur, call, gone, doomed>>

\* Object d leaves the engine and its CLEAR callback begins.
Remove(d) ==
    /\ live' = live \ {d}
    /\ newer' = Without(newer, d)
    /\ clearing' = Append(clearing, d)
    /\ batch' = batch \ {d}
    /\ gone' = (gone \/ d = cur)

CanDelete(d) == d \in live /\ d \notin doomed

Delete(d) ==
    /\ ClientTurn /\ CanDelete(d)
    /\ Remove(d)
    /\ UNCHANGED <<phase, cur, call, doomed>>

\* The innermost CLEAR callback returns and its object is freed.
ClearReturn ==
    /\ clearing # << >>
    /\ clearing' = [i \in 1..(Len(clearing) - 1) |-> clearing[i]]
    /\ UNCHANGED <<live, newer, phase, batch, cur, call, gone, doomed>>

\* A batch of objects is ready.
Poll ==
    /\ EngineTurn("app")
    /\ \E B \in (SUBSET live) \ {{}} : batch' = B
    /\ phase' = "loop"
    /\ UNCHANGED <<live, newer, clearing, cur, call, gone, doomed>>

Dispatch(d) ==
    /\ EngineTurn("loop") /\ d \in batch
    /\ batch' = batch \ {d}
    /\ phase' = "cb" /\ cur' = d /\ call' \in Call /\ gone' = FALSE
    /\ UNCHANGED <<live, newer, clearing, doomed>>

\* The callback returns and is made again, for another reason.
Again ==
    /\ EngineTurn("cb") /\ ~gone
    /\ call' \in Call
    /\ UNCHANGED <<live, newer, clearing, phase, batch, cur, gone, doomed>>

\* The callback returns; the next one of the batch follows.
Continue ==
    /\ EngineTurn("cb")
    /\ phase' = "loop" /\ cur' = NULL /\ call' = NoCall /\ gone' = FALSE
    /\ UNCHANGED <<live, newer, clearing, batch, doomed>>

\* The callback returns and the batch is abandoned.
Break ==
    /\ EngineTurn("cb")
    /\ phase' = "stop" /\ call' = NoCall /\ batch' = {}
    /\ UNCHANGED <<live, newer, clearing, cur, gone, doomed>>

\* The callback returns and asks for the deletion of its object.
Disconnect ==
    /\ EngineTurn("cb") /\ ~gone
    /\ live' = live \ {cur}
    /\ newer' = Without(newer, cur)
    /\ clearing' = Append(clearing, cur)
    /\ gone' = TRUE
    /\ phase' = "stop" /\ call' = NoCall /\ batch' = {}
    /\ UNCHANGED <<cur, doomed>>

\* The batch is done.
End ==
    /\ EngineTurn("loop") \/ EngineTurn("stop")
    /\ batch = {}
    /\ phase' = "app" /\ cur' = NULL /\ gone' = FALSE
    /\ UNCHANGED <<live, newer, clearing, batch, call, doomed>>

Destroy ==
    /\ EngineTurn("app")
    /\ phase' = "destroy"
    /\ UNCHANGED <<live, newer, clearing, batch, cur, call, gone, doomed>>

\* Every object is taken out without a CLEAR callback and registered again, the
\* newest first: what a forked worker does with the inherited objects.
Rebuild ==
    /\ EngineTurn("app")
    /\ newer' = {<<p[2], p[1]>> : p \in newer}
    /\ UNCHANGED <<live, clearing, phase, batch, cur, call, gone, doomed>>

\* The next group of objects is taken out of the map.
Doom ==
    /\ EngineTurn("destroy") /\ doomed = {}
    /\ \E G \in (SUBSET live) \ {{}} : doomed' = G
    /\ UNCHANGED <<live, newer, clearing, phase, batch, cur, call, gone>>

ClearNext(d) ==
    /\ EngineTurn("destroy") /\ d \in doomed
    /\ \A e \in doomed : <<e, d>> \notin newer
    /\ Remove(d)
    /\ doomed' = doomed \ {d}
    /\ UNCHANGED <<phase, cur, call>>

DestroyEnd ==
    /\ EngineTurn("destroy") /\ live = {}
    /\ phase' = "dead"
    /\ UNCHANGED <<live, newer, clearing, batch, cur, call, gone, doomed>>

Create ==
    /\ phase = "dead"
    /\ phase' = "app"
    /\ UNCHANGED <<live, newer, clearing, batch, cur, call, gone, doomed>>

Init ==
    /\ live = {} /\ newer = {} /\ clearing = << >> /\ phase = "app"
    /\ batch = {} /\ cur = NULL /\ call = NoCall /\ gone = FALSE /\ doomed = {}

Next ==
    \/ \E d \in Object : Register(d) \/ Delete(d) \/ Dispatch(d) \/ ClearNext(d)
    \/ ClearReturn \/ Poll \/ Again \/ Continue \/ Break \/ Disconnect \/ End
    \/ Rebuild \/ Destroy \/ Doom \/ DestroyEnd \/ Create

Spec == Init /\ [][Next]_vars
=============================================================================
