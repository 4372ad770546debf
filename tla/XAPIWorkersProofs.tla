------------------------- MODULE XAPIWorkersProofs -------------------------
(***************************************************************************)
(* The table of workers is exact for any number of workers and process     *)
(* numbers, and a shutdown leaves none.                                    *)
(*                                                                         *)
(* TableExact alone is not inductive: a fork writes a slot, and nothing is *)
(* overwritten only because that slot is empty.  IInv adds which slots are *)
(* empty while a loop over the table runs, and that a number that is free  *)
(* is no worker's.                                                         *)
(***************************************************************************)
EXTENDS XAPIWorkers, TLAPS

\* The slots that the loops have not reached, or have emptied.
SlotsEmpty ==
    /\ pc = "spawn" => i <= NWorkers /\ \A k \in Slots : i <= k => pids[k] = NULL
    /\ pc = "respawn" => i <= NWorkers /\ \A k \in Slots : k = i => pids[k] = NULL
    /\ pc = "reap" => \A k \in Slots : k < i => pids[k] = NULL
    /\ ~inited => pc \in {"app", "dead"}
    /\ pc = "app" /\ ~inited => \A k \in Slots : pids[k] = NULL

WorkersBusy == Alive => \A p \in worker : st[p] # "free"

IInv == TypeOK /\ TableExact /\ SlotsEmpty /\ WorkersBusy

-----------------------------------------------------------------------------
\* The initial state satisfies the invariant.
LEMMA InitIInv == Init => IInv
<1> SUFFICES ASSUME Init PROVE IInv OBVIOUS
<1> USE WorkersAssumption, PidAssumption
<1>1. TypeOK
  <2>1. 1 \in 1..(NWorkers + 1) OBVIOUS
  <2>2. pids \in [Slots -> Pid \cup {NULL}] /\ st \in [Pid -> States] /\ sib \in [Pid -> SUBSET Pid]
    BY DEF Init, States
  <2> QED BY <2>1, <2>2 DEF Init, TypeOK
<1>2. TableExact BY DEF Init, TableExact, Tracked, Slots, Alive
<1>3. SlotsEmpty /\ WorkersBusy BY DEF Init, SlotsEmpty, WorkersBusy, Slots, Alive
<1> QED BY <1>1, <1>2, <1>3 DEF IInv

-----------------------------------------------------------------------------
\* A fork puts a new worker into an empty slot of the table.
LEMMA ForkExact ==
    ASSUME IInv, Alive, NEW p \in Pid, NEW k \in Slots, NEW S, pids[k] = NULL,
           Fork(p, k, S)
    PROVE  /\ Tracked' = worker'
           /\ \A a, b \in Slots : pids'[a] = pids'[b] /\ pids'[a] # NULL => a = b
           /\ \A q \in worker' : st'[q] # "free"
<1> USE PidAssumption DEF Fork, IInv, TypeOK
<1>1. p \notin worker BY DEF WorkersBusy
<1>2. p \notin Tracked BY <1>1 DEF TableExact
<1>3. pids' = [pids EXCEPT ![k] = p] OBVIOUS
<1>4. Tracked' = Tracked \cup {p}
  <2>1. \A j \in Slots : pids'[j] = IF j = k THEN p ELSE pids[j] BY <1>3
  <2>2. p # NULL OBVIOUS
  <2> QED BY <2>1, <2>2 DEF Tracked
<1>5. \A a, b \in Slots : pids'[a] = pids'[b] /\ pids'[a] # NULL => a = b
  BY <1>2, <1>3 DEF TableExact, Tracked
<1>6. \A q \in worker' : st'[q] # "free"
  BY DEF WorkersBusy
<1> QED BY <1>4, <1>5, <1>6 DEF TableExact

\* Waiting for a process and clearing its slot keeps the table exact.
LEMMA ReapExact ==
    ASSUME IInv, Alive, NEW p \in Pid, Reaped(p), ClearSlot(p)
    PROVE  /\ Tracked' = worker'
           /\ \A a, b \in Slots : pids'[a] = pids'[b] /\ pids'[a] # NULL => a = b
           /\ \A q \in worker' : st'[q] # "free"
           /\ \A k \in Slots : pids[k] = NULL => pids'[k] = NULL
           /\ \A k \in Slots : pids[k] = p => pids'[k] = NULL
<1> USE PidAssumption DEF Reaped, ClearSlot, IInv, TypeOK
<1>1. \A k \in Slots : pids'[k] = IF pids[k] = p THEN NULL ELSE pids[k] OBVIOUS
<1>2. Tracked' = Tracked \ {p} BY <1>1 DEF Tracked
<1>3. \A a, b \in Slots : pids'[a] = pids'[b] /\ pids'[a] # NULL => a = b
  BY <1>1 DEF TableExact
<1>4. \A q \in worker' : st'[q] # "free" BY DEF WorkersBusy
<1> QED BY <1>1, <1>2, <1>3, <1>4 DEF TableExact

-----------------------------------------------------------------------------
\* A step that leaves the table and the set of workers alone.
LEMMA QuietStep ==
    ASSUME IInv, TypeOK', SlotsEmpty', Alive' => Alive,
           Alive => pids' = pids /\ worker' = worker,
           Alive => \A p \in worker : st[p] # "free" => st'[p] # "free"
    PROVE  IInv'
<1>1. TableExact' BY DEF IInv, TableExact, Tracked
<1>2. WorkersBusy' BY DEF IInv, WorkersBusy
<1> QED BY <1>1, <1>2 DEF IInv

\* Forking keeps the invariant: the slot is empty.
LEMMA ForkStep ==
    ASSUME IInv, NEW p \in Pid, SpawnWorker(p) \/ Respawn(p)
    PROVE  IInv'
<1> USE WorkersAssumption, PidAssumption
<1>1. i \in Slots /\ pids[i] = NULL /\ Alive
  BY DEF SpawnWorker, Respawn, IInv, TypeOK, SlotsEmpty, Slots, Alive
<1>2. PICK S \in SUBSET Pid : Fork(p, i, S)
  <2>1. Tracked \subseteq Pid BY DEF Tracked, IInv, TypeOK
  <2> QED BY <2>1 DEF SpawnWorker, Respawn
<1>3. /\ Tracked' = worker'
      /\ \A a, b \in Slots : pids'[a] = pids'[b] /\ pids'[a] # NULL => a = b
      /\ \A q \in worker' : st'[q] # "free"
  BY <1>1, <1>2, ForkExact
<1>4. pids' = [pids EXCEPT ![i] = p] BY <1>2 DEF Fork
<1>5. TypeOK'
  <2>1. i' \in 1..(NWorkers + 1) /\ pc' \in {"app", "spawn", "check"}
    BY <1>1 DEF SpawnWorker, Respawn, Slots
  <2>2. st' \in [Pid -> States] /\ sib' \in [Pid -> SUBSET Pid] /\ worker' \subseteq Pid /\ term' = term
    BY <1>2 DEF Fork, IInv, TypeOK, States, Children
  <2>3. pids' \in [Slots -> Pid \cup {NULL}] BY <1>4 DEF IInv, TypeOK
  <2> QED BY <2>1, <2>2, <2>3 DEF SpawnWorker, Respawn, IInv, TypeOK
<1>6. SlotsEmpty'
  <2>1. CASE SpawnWorker(p)
    BY <1>1, <1>4, <2>1 DEF SpawnWorker, IInv, TypeOK, SlotsEmpty, Slots
  <2>2. CASE Respawn(p)
    BY <2>2 DEF Respawn, IInv, SlotsEmpty
  <2> QED BY <2>1, <2>2
<1> QED BY <1>3, <1>5, <1>6 DEF IInv, TableExact, WorkersBusy

\* Waiting for a process keeps the invariant.
LEMMA ReapStep ==
    ASSUME IInv, NEW p \in Pid, WaitWorker(p) \/ ReapSlot \/ WatchReap(p)
    PROVE  IInv'
<1> USE WorkersAssumption, PidAssumption
<1>1. Alive BY DEF WaitWorker, ReapSlot, WatchReap, Alive
<1>2. PICK q \in Pid : Reaped(q) /\ ClearSlot(q) /\ (ReapSlot => q = pids[i])
  <2>1. CASE WaitWorker(p) BY <2>1 DEF WaitWorker, ReapSlot
  <2>2. CASE ReapSlot BY <2>2 DEF ReapSlot, IInv, TypeOK, Slots
  <2>3. CASE WatchReap(p)
    <3>1. FindWorker(p) = {} => pids = [k \in Slots |-> IF pids[k] = p THEN NULL ELSE pids[k]]
      BY DEF FindWorker, IInv, TypeOK
    <3>2. ClearSlot(p) BY <2>3, <3>1 DEF WatchReap, ClearSlot
    <3> QED BY <2>3, <3>2 DEF WatchReap, ReapSlot
  <2> QED BY <2>1, <2>2, <2>3
<1>3. /\ Tracked' = worker'
      /\ \A a, b \in Slots : pids'[a] = pids'[b] /\ pids'[a] # NULL => a = b
      /\ \A r \in worker' : st'[r] # "free"
      /\ \A k \in Slots : pids[k] = NULL => pids'[k] = NULL
      /\ \A k \in Slots : pids[k] = q => pids'[k] = NULL
  BY <1>1, <1>2, ReapExact
<1>4. i' \in 1..(NWorkers + 1) /\ pc' \in {"app", "reap", "check", "respawn"}
  BY DEF WaitWorker, ReapSlot, WatchReap, FindWorker, IInv, TypeOK, Slots
<1>5. TypeOK'
  <2>1. /\ st' \in [Pid -> States] /\ sib' \in [Pid -> SUBSET Pid]
        /\ worker' \subseteq Pid /\ term' \subseteq Pid
    BY <1>2 DEF Reaped, IInv, TypeOK, States
  <2>2. pids' \in [Slots -> Pid \cup {NULL}] BY <1>2 DEF ClearSlot, IInv, TypeOK
  <2> QED BY <1>4, <2>1, <2>2 DEF WaitWorker, ReapSlot, WatchReap, IInv, TypeOK
<1>6. SlotsEmpty'
  <2>1. CASE WaitWorker(p) BY <1>3, <2>1 DEF WaitWorker, IInv, SlotsEmpty
  <2>2. CASE ReapSlot
    BY <1>2, <1>3, <2>2 DEF ReapSlot, IInv, TypeOK, SlotsEmpty, Slots
  <2>3. CASE WatchReap(p)
    <3>1. inited' /\ pc' \in {"check", "respawn"}
      BY <2>3 DEF WatchReap, IInv, SlotsEmpty
    <3>2. pc' = "respawn" => i' \in Slots /\ pids[i'] = p /\ pids'[i'] = NULL
      BY <2>3 DEF WatchReap, FindWorker, ClearSlot, IInv, TypeOK
    <3> QED BY <3>1, <3>2 DEF SlotsEmpty, Slots
  <2> QED BY <2>1, <2>2, <2>3
<1> QED BY <1>3, <1>5, <1>6 DEF IInv, TableExact, WorkersBusy

\* The other steps of the parent: no process and no slot changes.
LEMMA ParentStepKeeps ==
    ASSUME IInv,
           \/ XAPI_InitWorkers \/ SpawnFails \/ StopWorkers \/ WaitWorkers
           \/ PassSlot \/ ReapEnd \/ WatchWorkers \/ CheckClear \/ CheckInterrupted
           \/ Block \/ NoChild \/ RespawnFails \/ Interrupt \/ XAPI_Destroy
    PROVE  IInv'
<1> USE WorkersAssumption, PidAssumption
    DEF XAPI_InitWorkers, SpawnFails, StopWorkers, WaitWorkers, PassSlot, ReapEnd,
        WatchWorkers, CheckClear, CheckInterrupted, Block, NoChild, RespawnFails,
        Interrupt, XAPI_Destroy
<1>1. UNCHANGED <<pids, st, worker, sib>> BY DEF procs, parent
<1>2. term' \subseteq Pid BY DEF procs, StopWorkerPIDs, Tracked, IInv, TypeOK
<1>3. i' \in 1..(NWorkers + 1) BY DEF parent, IInv, TypeOK
<1>4. TypeOK'
  <2>1. pc' \in {"app", "spawn", "reap", "check", "enter", "wait"} \cup {pc}
    BY DEF parent
  <2>2. result' \in {"NONE", "OK", "NON", "INIT_ERR", "WAIT"}
    BY DEF parent, IInv, TypeOK
  <2>3. inited' \in BOOLEAN /\ flag' \in BOOLEAN
    BY DEF parent, IInv, TypeOK
  <2> QED BY <1>1, <1>2, <1>3, <2>1, <2>2, <2>3 DEF IInv, TypeOK
<1>5. SlotsEmpty'
  <2>1. CASE XAPI_InitWorkers BY <1>1, <2>1 DEF IInv, SlotsEmpty
  <2>2. CASE ReapEnd
    BY <1>1, <2>2 DEF AllPassed, IInv, TypeOK, SlotsEmpty, Slots
  <2>3. CASE XAPI_Destroy
    BY <1>1, <2>3 DEF IInv, TypeOK, SlotsEmpty, TableExact, Tracked, Alive
  <2>4. CASE PassSlot
    BY <1>1, <2>4 DEF IInv, TypeOK, SlotsEmpty, Slots
  <2>5. CASE SpawnFails \/ WaitWorkers \/ CheckInterrupted
    BY <1>1, <2>5 DEF IInv, SlotsEmpty, Slots
  <2>6. CASE StopWorkers \/ WatchWorkers \/ CheckClear \/ Block \/ NoChild \/ RespawnFails \/ Interrupt
    BY <1>1, <2>6 DEF IInv, SlotsEmpty, parent
  <2> QED BY <2>1, <2>2, <2>3, <2>4, <2>5, <2>6
<1>6. Alive' => Alive BY DEF Alive, parent
<1> QED BY <1>1, <1>4, <1>5, <1>6, QuietStep

\* A step of a process, or a child of the application: while the parent lives no
\* number becomes free.
LEMMA ProcessStep ==
    ASSUME IInv, NEW p \in Pid, ChildStep(p) \/ Exit(p) \/ Terminate(p) \/ AppFork(p)
    PROVE  IInv'
<1> USE DEF ChildStep, ReadParent, ArmDeathSignal, CheckParent, SetUp, SetUpFails,
            Exit, Terminate, AppFork, Ends, Reaped
<1>1. UNCHANGED parent OBVIOUS
<1>2. /\ st' \in [Pid -> States] /\ sib' \in [Pid -> SUBSET Pid]
      /\ worker' \subseteq Pid
  BY DEF IInv, TypeOK, States, Children
<1>3. term' \subseteq Pid
  <2>1. CASE SetUpFails(p)
    <3>1. PICK K \in SUBSET Pid : term' \subseteq term \cup {q \in K : st[q] # "free"}
      BY <2>1 DEF IInv, TypeOK
    <3> QED BY <3>1 DEF IInv, TypeOK
  <2>2. CASE ~SetUpFails(p)
    BY <2>2 DEF IInv, TypeOK
  <2> QED BY <2>1, <2>2
<1>4. TypeOK' BY <1>1, <1>2, <1>3 DEF parent, IInv, TypeOK
<1>5. SlotsEmpty' BY <1>1 DEF parent, IInv, SlotsEmpty
<1>6. Alive => worker' = worker /\ pids' = pids BY <1>1 DEF parent
<1>7. Alive => \A q \in worker : st[q] # "free" => st'[q] # "free"
  BY DEF IInv, TypeOK
<1>8. Alive' => Alive BY <1>1 DEF parent, Alive
<1> QED BY <1>4, <1>5, <1>6, <1>7, <1>8, QuietStep

\* The death of the parent ends every claim about its table.
LEMMA DeathStep == IInv /\ ParentDies => IInv'
<1> SUFFICES ASSUME IInv, ParentDies PROVE IInv' OBVIOUS
<1> USE WorkersAssumption, PidAssumption DEF ParentDies
<1>1. ~Alive' BY DEF Alive
<1>2. TypeOK'
  <2>1. i' \in 1..(NWorkers + 1) /\ pids' \in [Slots -> Pid \cup {NULL}] BY DEF Slots
  <2>2. st' \in [Pid -> States] BY DEF IInv, TypeOK, States
  <2>3. term' \subseteq Pid /\ worker' \subseteq Pid BY DEF IInv, TypeOK
  <2> QED BY <2>1, <2>2, <2>3 DEF IInv, TypeOK
<1>3. SlotsEmpty' BY DEF SlotsEmpty
<1> QED BY <1>1, <1>2, <1>3 DEF IInv, TableExact, WorkersBusy

\* Every step keeps the invariant.
LEMMA NextIInv == IInv /\ [Next]_vars => IInv'
<1> SUFFICES ASSUME IInv, [Next]_vars PROVE IInv' OBVIOUS
<1>1. ASSUME NEW p \in Pid, SpawnWorker(p) \/ Respawn(p) PROVE IInv'
  BY <1>1, ForkStep
<1>2. ASSUME NEW p \in Pid, WaitWorker(p) \/ WatchReap(p) PROVE IInv'
  BY <1>2, ReapStep
<1>3. CASE ReapSlot
  <2>1. pids[i] \in Pid BY <1>3 DEF ReapSlot, IInv, TypeOK, Slots
  <2> QED BY <1>3, <2>1, ReapStep
<1>4. ASSUME NEW p \in Pid, ChildStep(p) \/ Exit(p) \/ Terminate(p) \/ AppFork(p) PROVE IInv'
  BY <1>4, ProcessStep
<1>5. CASE ParentDies BY <1>5, DeathStep
<1>6. CASE UNCHANGED vars \/ Ended
  <2>1. UNCHANGED vars BY <1>6 DEF Ended
  <2> QED BY <2>1 DEF vars, parent, procs, IInv, TypeOK, TableExact, Tracked, SlotsEmpty, WorkersBusy, Alive
<1>7. CASE \/ XAPI_InitWorkers \/ SpawnFails \/ StopWorkers \/ WaitWorkers
           \/ PassSlot \/ ReapEnd \/ WatchWorkers \/ CheckClear \/ CheckInterrupted
           \/ Block \/ NoChild \/ RespawnFails \/ Interrupt \/ XAPI_Destroy
  BY <1>7, ParentStepKeeps
<1> QED BY <1>1, <1>2, <1>3, <1>4, <1>5, <1>6, <1>7 DEF Next, ParentStep, AppStep

-----------------------------------------------------------------------------
\* The invariant holds in every reachable state.
THEOREM Invariance == Spec => []IInv
BY InitIInv, NextIInv, PTL DEF Spec

(***************************************************************************)
(* Types: every reachable state of parent and processes is well typed.     *)
(***************************************************************************)
THEOREM TypeCorrect == Spec => []TypeOK
<1>1. IInv => TypeOK BY DEF IInv
<1> QED BY <1>1, Invariance, PTL

(***************************************************************************)
(* pWorkerPIDs holds exactly the workers that were not waited for, each in *)
(* one slot: no worker is lost and no foreign process is ever signalled.   *)
(***************************************************************************)
THEOREM TableStaysExact == Spec => []TableExact
<1>1. IInv => TableExact BY DEF IInv
<1> QED BY <1>1, Invariance, PTL

(***************************************************************************)
(* XAPI_WatchWorkers returns XSTDOK, and XAPI_InitWorkers an error, only   *)
(* when every worker was waited for.                                       *)
(***************************************************************************)
THEOREM ShutdownIsComplete == Spec => ShutdownLeavesNone
<1>1. ASSUME IInv, [Next]_vars
      PROVE  [pc = "reap" /\ pc' = "app" /\ result \in {"OK", "INIT_ERR"} => worker = {}]_vars
  <2> SUFFICES ASSUME Next, pc = "reap", pc' = "app" PROVE worker = {}
    BY <1>1
  <2>1. AllPassed
    BY DEF Next, ParentStep, AppStep, SpawnWorker, Respawn, WatchReap, SpawnFails,
           RespawnFails, PassSlot, ReapSlot, ReapEnd, CheckClear, CheckInterrupted, Block,
           NoChild, XAPI_InitWorkers, StopWorkers, WaitWorkers, WatchWorkers, XAPI_Destroy,
           WaitWorker, AppFork, Interrupt, ParentDies, ChildStep, ReadParent, ArmDeathSignal,
           CheckParent, SetUp, SetUpFails, Exit, Terminate, Ended, vars, parent, Alive
  <2>2. \A k \in Slots : pids[k] = NULL
    BY <1>1, <2>1, WorkersAssumption DEF AllPassed, IInv, SlotsEmpty, TypeOK, Slots
  <2> QED BY <1>1, <2>2 DEF IInv, TableExact, Tracked, Alive
<1> QED BY <1>1, Invariance, PTL DEF Spec, ShutdownLeavesNone

=============================================================================
