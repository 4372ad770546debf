---------------------------- MODULE XAPIWorkers ----------------------------
(***************************************************************************)
(* Worker processes of src/net/api.c: the parent forks NWorkers copies of  *)
(* itself, watches them, forks a copy again for each one that ends, and    *)
(* stops them all when it is interrupted.  The parent, the children while  *)
(* they set themselves up, signals and the ends of processes interleave at *)
(* the granularity of system calls.                                        *)
(*                                                                         *)
(* Process numbers are used again once a process was waited for.  The      *)
(* application may have children of its own.  What a running worker serves *)
(* is modelled in XAPI.                                                    *)
(***************************************************************************)
EXTENDS Integers

CONSTANTS NWorkers,  \* nWorkers of XAPI_InitWorkers
          Pid,       \* process numbers
          NULL       \* an empty slot of pWorkerPIDs

ASSUME WorkersAssumption == NWorkers \in Nat \ {0}
ASSUME PidAssumption == NULL \notin Pid

VARIABLES
    pc,      \* where the parent is; "dead" when it ended
    i,       \* the slot at which a loop over pWorkerPIDs stands
    inited,  \* pWorkerPIDs is allocated
    pids,    \* pWorkerPIDs
    flag,    \* *pInterrupted
    result,  \* what XAPI_WaitWorkerPIDs runs for, and what will be returned
    st,      \* the state of each process
    term,    \* processes with a pending SIGTERM
    worker,  \* workers that were not waited for (auxiliary)
    sib      \* the pWorkerPIDs[0..i-1] that a child copied from XAPI_InitWorkers

parent == <<pc, i, inited, pids, flag, result>>
procs  == <<st, term, worker, sib>>
vars   == <<parent, procs>>

Slots == 1..NWorkers

\* A worker between fork() and the return of XAPI_SpawnWorker: "forked", "read"
\* (it knows its parent), "armed" (it asked for the death signal), "setup" (it
\* found its parent alive), "run".  A "stray" has read the number of the process
\* that adopted it.  An "other" is a child of the application.
Children == {"forked", "read", "armed", "setup", "run", "stray"}
States == Children \cup {"free", "zombie", "other"}

Alive == pc # "dead"
Watching == pc \in {"check", "enter", "wait", "respawn"}
Tracked == {pids[k] : k \in {j \in Slots : pids[j] # NULL}}

-----------------------------------------------------------------------------
(* The parent.                                                             *)

XAPI_InitWorkers ==
    /\ pc = "app" /\ ~inited
    /\ pc' = "spawn" /\ i' = 1 /\ inited' = TRUE
    /\ UNCHANGED <<pids, flag, result, procs>>

\* fork() in XAPI_SpawnWorker: a child for slot k that knows the siblings S.
Fork(p, k, S) ==
    /\ st[p] = "free"
    /\ st' = [st EXCEPT ![p] = "forked"]
    /\ worker' = worker \cup {p}
    /\ sib' = [sib EXCEPT ![p] = S]
    /\ pids' = [pids EXCEPT ![k] = p]
    /\ UNCHANGED term

SpawnWorker(p) ==
    /\ pc = "spawn"
    /\ Fork(p, i, Tracked)
    /\ IF i = NWorkers THEN pc' = "app" /\ i' = 1
                       ELSE i' = i + 1 /\ UNCHANGED pc
    /\ UNCHANGED <<inited, flag, result>>

StopAllButLast == term' = term \cup {pids[k] : k \in {j \in 1..(NWorkers - 1) : pids[j] # NULL}}

\* kill(..., SIGTERM) of every tracked process: XAPI_StopWorkerPIDs.
StopWorkerPIDs == term' = term \cup Tracked

\* fork() fails: the workers forked so far are stopped and waited for.
SpawnFails ==
    /\ pc = "spawn"
    /\ StopWorkerPIDs
    /\ pc' = "reap" /\ i' = 1 /\ result' = "INIT_ERR"
    /\ UNCHANGED <<inited, pids, flag, st, worker, sib>>

\* Process p was waited for: its number is free.
Reaped(p) ==
    /\ st' = [st EXCEPT ![p] = "free"]
    /\ worker' = worker \ {p}
    /\ term' = term \ {p}
    /\ sib' = [sib EXCEPT ![p] = {}]

SlotToError(p) == pids' = [k \in Slots |-> IF pids[k] = p THEN -1 ELSE pids[k]]

\* pWorkerPIDs[nIndex] = XSTDNON for the slot that holds p, if there is one.
ClearSlot(p) == pids' = [k \in Slots |-> IF pids[k] = p THEN NULL ELSE pids[k]]

\* XAPI_WaitWorker
WaitWorker(p) ==
    /\ pc = "app" /\ inited
    /\ st[p] = "zombie"
    /\ Reaped(p) /\ ClearSlot(p)
    /\ UNCHANGED <<pc, i, inited, flag, result>>

\* XAPI_StopWorkers, called by the application.
StopWorkers ==
    /\ pc = "app" /\ inited
    /\ StopWorkerPIDs
    /\ UNCHANGED <<parent, st, worker, sib>>

\* XAPI_WaitWorkers, called by the application.
WaitWorkers ==
    /\ pc = "app" /\ inited
    /\ pc' = "reap" /\ i' = 1 /\ result' = "WAIT"
    /\ UNCHANGED <<inited, pids, flag, procs>>

\* XAPI_WaitWorkerPIDs: an empty slot is passed over, ...
PassSlot ==
    /\ pc = "reap" /\ i <= NWorkers /\ pids[i] = NULL
    /\ i' = i + 1
    /\ UNCHANGED <<pc, inited, pids, flag, result, procs>>

\* ... and for any other waitpid blocks until the process has ended.
ReapSlot ==
    /\ pc = "reap" /\ i <= NWorkers /\ pids[i] # NULL
    /\ st[pids[i]] \in {"zombie", "free"}
    /\ Reaped(pids[i]) /\ ClearSlot(pids[i])
    /\ i' = i + 1
    /\ UNCHANGED <<pc, inited, flag, result>>

LastSlotLeft == i >= NWorkers

\* The loop condition of XAPI_WaitWorkerPIDs.
AllPassed == i > NWorkers

\* After a failed XAPI_InitWorkers the array is freed.
ReapEnd ==
    /\ pc = "reap" /\ AllPassed
    /\ pc' = "app" /\ i' = 1 /\ result' = "NONE"
    /\ inited' = (result # "INIT_ERR")
    /\ UNCHANGED <<pids, flag, procs>>

WatchWorkers ==
    /\ pc = "app" /\ inited
    /\ pc' = "check"
    /\ UNCHANGED <<i, inited, pids, flag, result, procs>>

\* The loop of XAPI_WatchWorkers reads *pInterrupted: not set, so it goes on to
\* waitpid, ...
CheckClear ==
    /\ pc = "check" /\ ~flag
    /\ pc' = "enter"
    /\ UNCHANGED <<i, inited, pids, flag, result, procs>>

\* ... or set, and every tracked worker is stopped and waited for.
CheckInterrupted ==
    /\ pc = "check" /\ flag
    /\ StopWorkerPIDs
    /\ pc' = "reap" /\ i' = 1
    /\ result' = IF Tracked = {} THEN "NON" ELSE "OK"
    /\ UNCHANGED <<inited, pids, flag, st, worker, sib>>

\* waitpid(-1) blocks.
Block ==
    /\ pc = "enter"
    /\ \E p \in Pid : st[p] # "free"
    /\ \A p \in Pid : st[p] # "zombie"
    /\ pc' = "wait"
    /\ UNCHANGED <<i, inited, pids, flag, result, procs>>

NoChild ==
    /\ pc = "enter"
    /\ \A p \in Pid : st[p] = "free"
    /\ pc' = "app"
    /\ UNCHANGED <<i, inited, pids, flag, result, procs>>

FindWorkerButLast(p) == {k \in Slots \ {NWorkers} : pids[k] = p}

\* XAPI_FindWorker
FindWorker(p) == {k \in Slots : pids[k] = p}

\* waitpid returns p.  A worker is forked again, unless the flag is set by now.
WatchReap(p) ==
    /\ pc \in {"enter", "wait"} /\ st[p] = "zombie"
    /\ Reaped(p)
    /\ IF FindWorker(p) # {} THEN ClearSlot(p) ELSE UNCHANGED pids
    /\ IF FindWorker(p) = {} \/ flag
         THEN pc' = "check" /\ UNCHANGED i
         ELSE pc' = "respawn" /\ i' \in FindWorker(p)
    /\ UNCHANGED <<inited, flag, result>>

NoRespawn(p) ==
    /\ pc = "respawn"
    /\ pc' = "check" /\ i' = 1
    /\ UNCHANGED <<inited, pids, flag, result, procs>>

Respawn(p) ==
    /\ pc = "respawn"
    /\ Fork(p, i, {})
    /\ pc' = "check" /\ i' = 1
    /\ UNCHANGED <<inited, flag, result>>

\* fork() fails: XAPI_WatchWorkers returns and leaves the other workers alone.
RespawnFails ==
    /\ pc = "respawn"
    /\ pc' = "app" /\ i' = 1
    /\ UNCHANGED <<inited, pids, flag, result, procs>>

\* The handler of the application sets the flag.  A waitpid that has blocked
\* returns EINTR; one that was not called yet does not notice.
Interrupt ==
    /\ Alive
    /\ flag' = TRUE
    /\ pc' = IF pc = "wait" THEN "check" ELSE pc
    /\ UNCHANGED <<i, inited, pids, result, procs>>

\* The application destroys the API once its workers are gone.
XAPI_Destroy ==
    /\ pc = "app" /\ worker = {}
    /\ inited' = FALSE
    /\ UNCHANGED <<pc, i, pids, flag, result, procs>>

AppFork(p) ==
    /\ pc = "app" /\ st[p] = "free"
    /\ st' = [st EXCEPT ![p] = "other"]
    /\ UNCHANGED <<parent, term, worker, sib>>

\* The parent exits or is killed, and its memory is gone.  The kernel sends SIGTERM
\* to the children that asked for it; process 1 waits for the ones that have ended.
ParentDies ==
    /\ Alive
    /\ pc' = "dead" /\ i' = 1 /\ inited' = FALSE /\ pids' = [k \in Slots |-> NULL]
    /\ flag' = FALSE /\ result' = "NONE"
    /\ st' = [p \in Pid |-> IF st[p] = "zombie" THEN "free" ELSE st[p]]
    /\ term' = {p \in Pid : st[p] \in {"armed", "setup", "run"}}
                 \cup {p \in term : st[p] # "zombie"}
    /\ worker' = {p \in worker : st[p] # "zombie"}
    /\ UNCHANGED sib

-----------------------------------------------------------------------------
(* The processes.                                                          *)

\* Process p ends; without its parent nobody has to wait for it.
Ends(p) ==
    IF Alive
      THEN st' = [st EXCEPT ![p] = "zombie"] /\ UNCHANGED <<term, worker, sib>>
      ELSE Reaped(p)

\* XAPI_InitWorkerDeathSignal: getppid(), ...
ReadParent(p) ==
    /\ st[p] = "forked"
    /\ st' = [st EXCEPT ![p] = IF Alive THEN "read" ELSE "stray"]
    /\ UNCHANGED <<parent, term, worker, sib>>

\* ... prctl(PR_SET_PDEATHSIG), ...
ArmDeathSignal(p) ==
    /\ st[p] = "read"
    /\ st' = [st EXCEPT ![p] = "armed"]
    /\ UNCHANGED <<parent, term, worker, sib>>

TrustDeathSignal(p) ==
    /\ st[p] = "armed"
    /\ st' = [st EXCEPT ![p] = "setup"] /\ UNCHANGED <<term, worker, sib>>
    /\ UNCHANGED parent

\* ... and getppid() again, for a parent that died in between.
CheckParent(p) ==
    /\ st[p] = "armed"
    /\ IF Alive THEN st' = [st EXCEPT ![p] = "setup"] /\ UNCHANGED <<term, worker, sib>>
                ELSE Ends(p)
    /\ UNCHANGED parent

\* The rest of XAPI_SpawnWorker: affinity, and the events are rebuilt.
SetUp(p) ==
    /\ st[p] = "setup"
    /\ st' = [st EXCEPT ![p] = "run"]
    /\ sib' = [sib EXCEPT ![p] = {}]
    /\ UNCHANGED <<parent, term, worker>>

(***************************************************************************)
(* The set-up fails in the child.  XSTDERR sends a child of                *)
(* XAPI_InitWorkers into the roll-back that is meant for the parent: it    *)
(* signals the siblings it knows of, by numbers that may be used again.    *)
(* When the rebuild failed the array it reads was freed before, and any of *)
(* the numbers may be left in it.  waitpid finds none of them its child.   *)
(***************************************************************************)
SetUpFails(p) ==
    /\ st[p] \in {"read", "setup"}
    /\ \E K \in IF st[p] = "read" THEN {sib[p]} ELSE SUBSET sib[p] :
         LET hit == {q \in K : st[q] # "free"} IN
         IF Alive
           THEN /\ st' = [st EXCEPT ![p] = "zombie"]
                /\ term' = term \cup hit
                /\ UNCHANGED <<worker, sib>>
           ELSE /\ st' = [st EXCEPT ![p] = "free"]
                /\ term' = (term \cup hit) \ {p}
                /\ worker' = worker \ {p}
                /\ sib' = [sib EXCEPT ![p] = {}]
    /\ UNCHANGED parent

\* A worker or a child of the application ends by itself, ...
Exit(p) ==
    /\ st[p] \in {"run", "stray", "other"}
    /\ Ends(p)
    /\ UNCHANGED parent

\* ... or because of SIGTERM.
Terminate(p) ==
    /\ p \in term /\ st[p] \notin {"free", "zombie"}
    /\ Ends(p)
    /\ UNCHANGED parent

\* Nothing is left.
Ended == ~Alive /\ (\A p \in Pid : st[p] = "free") /\ UNCHANGED vars

Init ==
    /\ pc = "app" /\ i = 1 /\ inited = FALSE /\ pids = [k \in Slots |-> NULL]
    /\ flag = FALSE /\ result = "NONE"
    /\ st = [p \in Pid |-> "free"] /\ term = {} /\ worker = {}
    /\ sib = [p \in Pid |-> {}]

\* What the parent does inside a call of the API.
ParentStep ==
    \/ (\E p \in Pid : SpawnWorker(p) \/ Respawn(p) \/ WatchReap(p))
    \/ SpawnFails \/ RespawnFails
    \/ PassSlot \/ ReapSlot \/ ReapEnd
    \/ CheckClear \/ CheckInterrupted \/ Block \/ NoChild

\* What the application and its environment do.
AppStep ==
    \/ XAPI_InitWorkers \/ StopWorkers \/ WaitWorkers \/ WatchWorkers \/ XAPI_Destroy
    \/ (\E p \in Pid : WaitWorker(p) \/ AppFork(p))
    \/ Interrupt \/ ParentDies

ChildStep(p) ==
    ReadParent(p) \/ ArmDeathSignal(p) \/ CheckParent(p) \/ SetUp(p) \/ SetUpFails(p)

Next ==
    \/ ParentStep \/ AppStep
    \/ \E p \in Pid : ChildStep(p) \/ Exit(p) \/ Terminate(p)
    \/ Ended

(***************************************************************************)
(* A process that can run does, and one that was sent SIGTERM ends.        *)
(* waitpid(-1) takes the oldest child that has ended, so none is passed    *)
(* over for ever.  Nothing makes the application call, a signal come or a  *)
(* worker end.                                                             *)
(***************************************************************************)
Fairness ==
    /\ WF_vars(ParentStep)
    /\ \A p \in Pid : WF_vars(ChildStep(p)) /\ WF_vars(Terminate(p)) /\ SF_vars(WatchReap(p))

Spec == Init /\ [][Next]_vars
FairSpec == Spec /\ Fairness

-----------------------------------------------------------------------------
\* Every variable has its type.
TypeOK ==
    /\ pc \in {"app", "spawn", "reap", "check", "enter", "wait", "respawn", "dead"}
    /\ i \in 1..(NWorkers + 1)
    /\ inited \in BOOLEAN /\ flag \in BOOLEAN
    /\ pids \in [Slots -> Pid \cup {NULL}]
    /\ result \in {"NONE", "OK", "NON", "INIT_ERR", "WAIT"}
    /\ st \in [Pid -> States]
    /\ term \subseteq Pid /\ worker \subseteq Pid
    /\ sib \in [Pid -> SUBSET Pid]

(***************************************************************************)
(* The parent's table is exact, whatever ends, is waited for and is forked *)
(* again: it holds every worker that was not waited for, each in one slot, *)
(* and no other process.  So XAPI_StopWorkers reaches every worker, and    *)
(* never a process that got the number of an earlier one.                  *)
(***************************************************************************)
TableExact ==
    Alive => /\ Tracked = worker
             /\ \A j, k \in Slots : pids[j] = pids[k] /\ pids[j] # NULL => j = k

\* When the watch returns XSTDOK, or XAPI_InitWorkers an error, no worker is left
\* ("XSTDOK after graceful parent shutdown", docs/net/api.md).
ShutdownLeavesNone ==
    [][pc = "reap" /\ pc' = "app" /\ result \in {"OK", "INIT_ERR"} => worker = {}]_vars

(***************************************************************************)
(* A worker that ends while the parent watches is replaced, also when      *)
(* others keep ending ("respawns any worker that exits", docs/net/api.md), *)
(* unless the watch ends or the flag is set.                               *)
(***************************************************************************)
WorkersRestarted ==
    \A k \in Slots :
        (Watching /\ pids[k] # NULL /\ st[pids[k]] = "zombie")
          ~> (~Watching \/ flag \/ (pids[k] # NULL /\ st[pids[k]] # "zombie"))

\* A shutdown that has begun ends, however far the workers are in their set-up
\* when SIGTERM reaches them.
ShutdownCompletes ==
    (pc = "reap" /\ result \in {"OK", "INIT_ERR"}) ~> (pc \in {"app", "dead"})

(***************************************************************************)
(* A worker that has seen its parent ends when the parent dies, also when  *)
(* it dies before the death signal is asked for.                           *)
(***************************************************************************)
WorkersFollowParent ==
    \A p \in Pid :
        (pc = "dead" /\ st[p] \in {"read", "armed", "setup", "run"}) ~> (st[p] = "free")

(***************************************************************************)
(* "XAPI_WatchWorkers() ... performs graceful shutdown when *pInterrupted  *)
(* becomes non-zero" (docs/net/api.md).                                    *)
(***************************************************************************)
InterruptStopsWatch == (flag /\ Watching) ~> ~Watching

(***************************************************************************)
(* "each child also enables PR_SET_PDEATHSIG(SIGTERM) ..., so worker       *)
(* processes terminate automatically when the parent dies unexpectedly"    *)
(* (docs/net/api.md).                                                      *)
(***************************************************************************)
WorkersDieWithParent == (pc = "dead") ~> (worker = {})
=============================================================================
