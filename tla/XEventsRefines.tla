--------------------------- MODULE XEventsRefines ---------------------------
(* The epoll engine with its hash map implements EventLoop.                *)
EXTENDS XEvents

\* The batch entries the loop has still to look at: from idx on, or behind it
\* while the callback of entry idx runs.
Pending ==
    {array[j] : j \in {k \in Slots : /\ k <= waitCount /\ array[k] # NULL
                                     /\ \/ pc = "loop" /\ idx <= k
                                        \/ pc = "cb" /\ idx < k}}

Live == {d \in alloc : ~InFrames(d)}

Newer == {p \in Live \X Live : <<fdOf[p[1]], fdOf[p[2]]>> \in newer}

Doomed == {detached[f] : f \in {g \in Fds : detached[g] # NULL}}

NoCall == <<"NONE", FALSE>>
CallNow == IF pc = "cb" THEN <<reason, user>> ELSE NoCall

EL == INSTANCE EventLoop WITH
        Object <- Data, Call <- Reasons \X BOOLEAN,
        live <- Live, newer <- Newer, clearing <- frames, phase <- pc,
        batch <- Pending, call <- CallNow, doomed <- Doomed

(***************************************************************************)
(* Whatever the kernel reports and the callbacks do, the engine behaves as *)
(* EventLoop allows: it dispatches live objects only, it clears each once, *)
(* and a destruction clears the newest object of a bucket first.           *)
(***************************************************************************)
Implements == EL!Spec
=============================================================================
