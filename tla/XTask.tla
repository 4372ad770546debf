------------------------------- MODULE XTask -------------------------------
(***************************************************************************)
(* The repeating task of src/sys/thread.c: one controlling thread calls    *)
(* XTask_Start, XTask_Hold, XTask_Release and XTask_Stop, one detached     *)
(* worker runs XTask_WorkerThread.  They share the atomics nAction and     *)
(* nStatus; every atomic read or write is a step of its own.  Sleeping and *)
(* nIntervalU are left out: they only delay.                               *)
(*                                                                         *)
(* The controlling thread keeps to the order start, then hold, release or  *)
(* stop, and starts the task again only once the worker has ended.         *)
(***************************************************************************)

CONSTANT Intervals   \* the kinds of nIntervalU in use: "wait" is nIntervalU >= 0,
                     \* "poll" is nIntervalU < 0, which checks the status once

ASSUME IntervalsAssumption == Intervals \subseteq {"wait", "poll"}

VARIABLES
    action,   \* pTask->nAction
    status,   \* pTask->nStatus
    wpc,      \* where the worker is
    paused,   \* bIsPaused
    mpc,      \* where the controlling thread is
    goal,     \* the status XTask_Wait is waiting for
    held,     \* XTask_Hold returned and nothing was asked for since (auxiliary)
    polled    \* a call since XTask_Start did not wait (auxiliary)

vars == <<action, status, wpc, paused, mpc, goal, held, polled>>
ctrl == <<mpc, goal, held, polled>>

Actions  == {"NONE", "RELEASE", "PAUSE", "STOP"}
Statuses == {"FAIL", "CREATED", "ACTIVE", "PAUSED", "STOPPED"}

\* No thread uses the task: it may be started, and its context may be freed.
Idle == mpc = "idle"

-----------------------------------------------------------------------------
(* XTask_WorkerThread                                                      *)

WorkerStart ==
    /\ wpc = "start"
    /\ status' = "ACTIVE"
    /\ paused' = FALSE
    /\ wpc' = "test"
    /\ UNCHANGED <<action, ctrl>>

IgnoreStopWhenPaused ==
    /\ wpc = "test"
    /\ \/ action = "STOP" /\ ~paused /\ wpc' = "exit"
       \/ action = "PAUSE" /\ ~paused /\ wpc' = "pause"
       \/ action = "RELEASE" /\ wpc' = IF paused THEN "resume" ELSE "callback"
    /\ UNCHANGED <<action, status, paused, ctrl>>

PauseOnce ==
    /\ wpc = "test"
    /\ \/ action = "STOP" /\ wpc' = "exit"
       \/ action = "PAUSE" /\ paused /\ wpc' = "pause"
       \/ action = "RELEASE" /\ wpc' = IF paused THEN "resume" ELSE "callback"
    /\ UNCHANGED <<action, status, paused, ctrl>>

\* The loop reads nAction.  While it is paused and PAUSE is still asked for it
\* only sleeps.
WorkerTest ==
    /\ wpc = "test"
    /\ \/ action = "STOP" /\ wpc' = "exit"
       \/ action = "PAUSE" /\ ~paused /\ wpc' = "pause"
       \/ action = "RELEASE" /\ wpc' = IF paused THEN "resume" ELSE "callback"
    /\ UNCHANGED <<action, status, paused, ctrl>>

PauseFallsThrough ==
    /\ wpc = "pause"
    /\ status' = "PAUSED"
    /\ paused' = TRUE
    /\ wpc' = "callback"
    /\ UNCHANGED <<action, ctrl>>

WorkerPause ==
    /\ wpc = "pause"
    /\ status' = "PAUSED"
    /\ paused' = TRUE
    /\ wpc' = "test"
    /\ UNCHANGED <<action, ctrl>>

WorkerResume ==
    /\ wpc = "resume"
    /\ status' = "ACTIVE"
    /\ paused' = FALSE
    /\ wpc' = "callback"
    /\ UNCHANGED <<action, ctrl>>

\* The callback returns; a negative result ends the loop.
CallbackReturn ==
    /\ wpc = "callback"
    /\ wpc' \in {"test", "exit"}
    /\ UNCHANGED <<action, status, paused, ctrl>>

WorkerExit ==
    /\ wpc = "exit"
    /\ status' = "STOPPED"
    /\ wpc' = "done"
    /\ UNCHANGED <<action, paused, ctrl>>

Worker == \/ WorkerStart \/ WorkerTest \/ WorkerPause \/ WorkerResume
          \/ CallbackReturn \/ WorkerExit

-----------------------------------------------------------------------------
(* The controlling thread                                                  *)

\* XTask_Start up to XThread_Create, which makes the worker or fails.
XTask_Start ==
    /\ Idle /\ wpc \in {"none", "done"}
    /\ action' = "RELEASE"
    /\ \/ wpc' = "start" /\ mpc' = "created"
       \/ wpc' = wpc /\ mpc' = "failed"
    /\ held' = FALSE /\ polled' = FALSE
    /\ UNCHANGED <<status, paused, goal>>

StatusKept ==
    /\ mpc \in {"created", "failed"}
    /\ mpc' = IF mpc = "created" THEN "ready" ELSE "idle"
    /\ status' = IF mpc = "created" THEN status ELSE "FAIL"
    /\ UNCHANGED <<action, wpc, paused, goal, held, polled>>

ResultStored ==
    /\ mpc \in {"created", "failed"}
    /\ mpc' = IF mpc = "created" THEN "ready" ELSE "idle"
    /\ status' = IF mpc = "created" THEN "XSTDOK" ELSE "XSTDERR"
    /\ UNCHANGED <<action, wpc, paused, goal, held, polled>>

\* The end of XTask_Start: the status is stored while the worker may run.
StartReturn ==
    /\ mpc \in {"created", "failed"}
    /\ mpc' = IF mpc = "created" THEN "ready" ELSE "idle"
    /\ status' = IF mpc = "created" THEN "CREATED" ELSE "FAIL"
    /\ UNCHANGED <<action, wpc, paused, goal, held, polled>>

\* The store of nAction in XTask_Hold, XTask_Release and XTask_Stop.  Without
\* waiting the call is over.
Command(a, g) ==
    /\ mpc = "ready"
    /\ action' = a
    /\ goal' = g
    /\ held' = FALSE
    /\ \/ "wait" \in Intervals /\ mpc' = "waiting" /\ polled' = polled
       \/ "poll" \in Intervals /\ mpc' = "ready" /\ polled' = TRUE
    /\ UNCHANGED <<status, wpc, paused>>

XTask_Hold    == Command("PAUSE", "PAUSED")
XTask_Release == Command("RELEASE", "ACTIVE")
XTask_Stop    == Command("STOP", "STOPPED")

\* XTask_Wait reads the status it waits for and the call returns.
WaitReturn ==
    /\ mpc = "waiting" /\ status = goal
    /\ mpc' = IF goal = "STOPPED" THEN "idle" ELSE "ready"
    /\ held' = (goal = "PAUSED")
    /\ UNCHANGED <<action, status, wpc, paused, goal, polled>>

\* XTask_Wait reads another status and goes round.
WaitSpin == mpc = "waiting" /\ status # goal /\ UNCHANGED vars

Controller == \/ XTask_Start \/ StartReturn
              \/ XTask_Hold \/ XTask_Release \/ XTask_Stop
              \/ WaitReturn \/ WaitSpin

Init ==
    /\ action = "NONE" /\ status = "FAIL"
    /\ wpc = "none" /\ paused = FALSE
    /\ mpc = "idle" /\ goal = "STOPPED" /\ held = FALSE /\ polled = FALSE

Next == Worker \/ Controller

\* Both threads are scheduled and the callback returns; nobody is obliged to
\* issue a command.
Spec == Init /\ [][Next]_vars /\ WF_vars(Worker) /\ WF_vars(StartReturn \/ WaitReturn)

-----------------------------------------------------------------------------
\* The variables of the task have their types.
TypeOK ==
    /\ action \in Actions /\ status \in Statuses
    /\ wpc \in {"none", "start", "test", "pause", "resume", "callback", "exit", "done"}
    /\ mpc \in {"idle", "created", "failed", "ready", "waiting"}
    /\ goal \in {"ACTIVE", "PAUSED", "STOPPED"}
    /\ paused \in BOOLEAN /\ held \in BOOLEAN /\ polled \in BOOLEAN

(***************************************************************************)
(* Once XTask_Hold has returned, and until the next command, the callback  *)
(* does not run, nor is the worker on its way into it: the caller may use  *)
(* what the callback works on.  A call that did not wait voids this, since *)
(* a later XTask_Hold can then see the PAUSED of an earlier one.           *)
(***************************************************************************)
HoldQuiets == held /\ ~polled => wpc = "test" /\ paused

(***************************************************************************)
(* Once XTask_Stop has returned the worker does nothing any more, not even *)
(* in a task that is started and stopped again: XMon_DestroyStats frees    *)
(* what the callback works on right after it.                              *)
(***************************************************************************)
StopQuiets == Idle => wpc \in {"none", "done"}

\* A worker that was told to stop ends, also from the paused state.
StopEnds == action = "STOP" ~> (wpc = "done" \/ action # "STOP")

\* XTask_Hold returns, unless the worker ended by itself.
HoldReturns == (mpc = "waiting" /\ goal = "PAUSED") ~> (mpc # "waiting" \/ wpc = "done")

\* XTask_Release of a task whose worker is known to run or to be paused returns,
\* unless the worker ended by itself.
ReleaseReturns ==
    (mpc = "waiting" /\ goal = "ACTIVE" /\ status \in {"ACTIVE", "PAUSED"}) ~>
        (mpc # "waiting" \/ wpc = "done")

\* XTask_Hold and XTask_Release of a worker that goes on return.
CallsReturn == HoldReturns /\ ReleaseReturns

(***************************************************************************)
(* XTask_Stop returns: it "waits until worker status becomes ...           *)
(* XTASK_STAT_STOPPED" (docs/sys/thread.md) and it is "the intended        *)
(* shutdown path".                                                         *)
(***************************************************************************)
StopReturns == (mpc = "waiting" /\ goal = "STOPPED") ~> mpc # "waiting"
=============================================================================
