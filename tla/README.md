# libxutils in TLA+

TLA+ models of libxutils: the event engine and its re-entrant callbacks, the API
layer above it (life cycle of sessions, their byte streams and protocols, and
the pre-forked worker processes), the repeating task and the system monitor that
runs on it, and the building blocks below (containers, JSON, strings, memory
pool, sockets, HTTP client, logger, files, search). TLC checks each model on
small instances; TLAPS proves the most important properties for every value of
the constants.

Paths below are relative to the repository (`net/event.c` is
`src/src/net/event.c`).

## The system

libxutils is a C library whose only global state is that of the logger and of
OpenSSL's initialisation. Its parts, the state each keeps, and what makes each
correct:

| Part | State | Operations | Hard behaviour | Correct when |
|---|---|---|---|---|
| Event engine, `net/event.c` | epoll descriptor, batch returned by `epoll_wait`, map from descriptor to object, object count | register, timer, modify, extend, delete, service, destroy | callbacks that delete other objects of the running batch; CLEAR callbacks that nest; sockets closed before they are deleted, numbers reused; a timer re-armed while its expiration is in the batch | no freed object is dispatched or left in the kernel; a deletion reaches its object; each object is cleared once; destruction frees all |
| Descriptor map, `data/hash.c`, `data/list.c` | buckets of pairs, newest first | insert, delete, destroy, iterate | destruction runs callbacks that delete pairs of the same map | as above |
| API layer, `net/api.c` | sessions, their socket, event object and timer object, buffers, handshake state | listen, connect, add, accept, read, write, timers, disconnect, service, destroy | every callback may call the API again; a session and its timer die in either order; registration refused by the callback | no use of a freed session; pointers agree; nothing leaks; the engine's contract is kept |
| Worker processes, `net/api.c` | table of process numbers, flag `*pInterrupted` | init, spawn, watch, wait, stop | crash of a worker or of the parent at any point, signals between two system calls, numbers reused, fork failure half way | table exact; shutdown complete; workers replaced; workers end with the parent |
| Repeating task, `sys/thread.c` | atomics `nAction`, `nStatus` | start, hold, release, stop | two threads that interleave at each atomic access | after hold or stop the callback is not running; calls return |
| Session data: `net/api.c` with `net/http.c`, `net/ws.c`, `net/mdtp.c`, `data/buf.c` | receive, transmit and fragment buffers, handshake state, event mask | read, parse, upgrade, answer, dispatch, queue, write | input that arrives in arbitrary pieces, several packets in one read, limits, TLS that wants the other direction and borrows the event mask | same packets whatever the pieces; nothing queued is lost; nothing waits for ever |
| System monitor, `sys/mon.c` | statistics: one atomic per figure, list of CPUs without a lock, interfaces under one | init, start, update, snapshots, wait for the first load, stop, destroy | snapshots that interleave with the worker's stores | a snapshot agrees with itself; stop and destroy find no running update |
| Sockets, `net/sock.c` | descriptor, flags, status, TLS objects | create, accept, handshake, read, write, options, close | twenty calls that may fail, each with its roll-back; partial transfers | everything is owned once and closed once; a count is what was moved |
| HTTP client, `net/http.c` | header table, raw data, limits | assemble, connect, send, receive | answers in pieces, cut off or too long; callbacks that end the exchange | the verdict is true; each byte is kept or handed over once |
| Containers, `data/array.c`, `map.c`, `list.c`, `json.c`, `str.c`, `sys/pool.c` | storage, sizes, indices | add, remove, grow, search, sort, parse, write | sizes at their limit, failing allocations, removal and rehash | contents equal those of a reference container; each object has one owner |
| Logger, `sys/log.c` | configuration, file, stdio's buffer, day | write, rotate, configure | crash and restart on another day, failing writes, renames and opens | no rotation loses a line |
| Files and search, `sys/xfs.c`, `sys/srch.c` | none between calls; one search | copy, load, write, make, remove, walk | another process in the same tree, short transfers, interruption | results say what was done |
| Locks and barrier, `sys/sync.c`; cryptography, terminal, time | none worth modelling | wrappers and pure functions | none | — |

How they interact: `XAPI_Service` calls `XEvents_Service`, which calls back
into `XAPI_EventCallback` for each ready object, which calls the application.
The application calls the API again from inside its callback. `XEvents_Delete`
and the destruction of the map call `XAPI_ClearEvent`, which frees the session
and may call `XEvents_Delete` for the session's timer. Workers are copies of a
process that holds such an engine; each rebuilds it (`XAPI_RebuildWorkerEvents`).
The monitor is a client of the repeating task.

`PROJECT.json` lists every part with its status, the hazards with the
properties that cover them, and for each definition the lines it models.

## Modules

```
EventLoop            what the engine promises and expects
  ^ implemented by          ^ used by
XEventsRefines            XAPI  (MCXAPI)
  ^ extends
XEvents  (MCXEvents)      XAPIWorkers (MCXAPIWorkers)     XTask (MCXTask) <- XMon (MCXMon)

XByteBuffer <- XWire <- XAPIStream (MCXAPIStream)

XArray XMap XPool XList XJSON XSock XHTTP XLog
XString, XFile <- XSearch                                 all in MCXLibrary

proofs:  XEventsProofs (XEvents, XEventsRefines)   XAPIProofs   XAPIWorkersProofs
         XMonProofs (XTask, XMon)                  XAPIStreamProofs
         XDataProofs (XPool, XList, XMap)          XNetProofs (XSock, XHTTP)   XLogProofs
```

### XEvents

The epoll build of `net/event.c` with the map it uses. `interest` is the kernel's
epoll set, `array`, `evs`, `waitCount`, `idx` are the batch and the loop over it,
`pc`, `cur`, `reason` say which callback runs, and `frames` is the stack of
CLEAR callbacks that are still running: that stack is what makes re-entrance
visible. `map` and `newer` are the map and the order in which a bucket is
cleared; `detached` is the bucket that `XHash_Destroy` has taken out. An action
`XEvents_...` is the function of that name; `App...` actions are the calls an
application makes on its turn, with the contract it has to keep as guards: it
deletes only objects that exist, and it does not ask the engine to go on with an
object it has deleted. Event masks are left out: a registered socket may be
reported with any set of flags in `Ready`. `Expire` and the choice of the
batch are the kernel's.

### EventLoop and XEventsRefines

`EventLoop` is the same engine as a client sees it: objects, one dispatch loop,
nested CLEAR callbacks, destruction in groups. It knows neither descriptors nor
the map nor the kernel. `XEventsRefines` gives the mapping from the state of
`XEvents` (the batch becomes the set of entries the loop may still dispatch, the
pairs of the bucket being destroyed become `doomed`), and `Implements` says that
every behaviour of the engine is one of `EventLoop`. The contract on the client
is the part of `EventLoop` that a client can violate; `XAPI` is checked against
it.

### XAPI

The session life cycle. `sess`, `role`, `evData`, `timer`, `sock` are the fields
of the sessions, `ctx` and `isTimer` those of the event objects, and `stack` is
the chain of activations: which function of `api.c` waits for which callback to
return; `clearing` says which object the engine's destruction has taken out and is
clearing. `ClearEvent`, `FreeTimer`, `FreeData` follow `XAPI_ClearEvent`,
`XAPI_ClearData`, `XAPI_FreeData`; `...Return` actions are the returns of the
application callbacks, with what the code does with the result. The handlers of
READ and WRITE are reduced to what they lead to: nothing, a callback, an error
that is reported, a disconnection, a new peer. The engine's own steps are written
out over `EventLoop`'s variables without its guards on the client, so a call that
breaks the contract is a step here and a violation of `KeepsEngineContract`.

What the application is taken to do, beside the contract stated in the comments
of the actions: it does not disconnect a session while a callback for that
session runs (the callback's result is there for that). Two further assumptions
are elements of the constant `Assumed`, because the code depends on them and
does not say so:

* `"timeout"`: a TIMEOUT callback that deleted its own timer returns
  `XAPI_CONTINUE`. `XAPI_TimeoutEvent` takes every other non-negative value as
  an order to delete the timer, `XAPI_NO_ACTION` included, and then the timer
  is deleted twice. Without the element TLC finds `SessionsAlive` violated.
* `"spread"`: in a worker, no session shares a bucket of the descriptor map with
  its timer. `XAPI_RebuildWorkerEvents` adds the objects in the reverse order, so
  that on destruction a session comes before its timer when they share a bucket;
  clearing the session then deletes the timer, and the bucket clears it a second
  time. Without the element TLC finds `SessionsAlive` violated.

### XAPIWorkers

Parent and children at the granularity of system calls. `pids` is
`pWorkerPIDs`; `st` gives the state of each process number, from `"forked"` over
the steps of `XAPI_InitWorkerDeathSignal` and the set-up to `"run"` and
`"zombie"`; a number is `"free"` again once it was waited for, so it may go to
another worker or to a child of the application. `pc = "enter"` is the point
between reading `*pInterrupted` and blocking in `waitpid`. `sib` is the copy of
the table that a child of `XAPI_InitWorkers` inherits and, when its set-up fails,
uses in the roll-back meant for its parent; the array may have been freed by
then, so any subset of it may be read.

### XTask

`sys/thread.c`: one controlling thread and the worker thread, one step per access
to the atomics `nAction` and `nStatus`. `held` and `polled` record what a
returned call promised.

### XMon

`sys/mon.c` on `XTask`. `client` says what the task repeats: `"any"` callback, or the
`"monitor"`, whose callback `XMon_UpdateStats` is then taken apart into one step
per group of stores (`Update...`, `Net...`). A second thread takes snapshots
(`Read...`) one load at a time. A figure is the time at which the kernel gave it,
so that an old and a new figure in one snapshot are told apart. `TempInput` to
`XMon_ReadCPUTemperature` are the search for a CPU's temperature among the hwmon
devices, checked against a definition of the right answer (`TemperatureRight`).
Assumed: `nIntervalU` is at least a second (below that the rates divide by zero),
no device has two sensors with one index (their files would have one name), and
allocations succeed while the list of CPUs is filled; with `AllocFails`
TRUE, TLC finds `MonitorConsistent` violated, because the next pass dereferences
the entry that is missing.

### XByteBuffer, XWire and XAPIStream

What the READ and WRITE callbacks do with the bytes of one session. `XByteBuffer`
is `xbyte_buffer_t` as operators on a record: allocation, `nUsed`, `nSize` and the
terminator are separate, and touching a byte outside the allocation sets `bad`.
`XWire` has the packets a peer sends and the parsers: a parser sees a field only
when the bytes that carry it are in the buffer. `XAPIStream` has the event mask,
`XAPI_ReadEvent` and `XAPI_WriteEvent`, one handler per protocol, handshake,
fragments, limits and the two TLS want states; `Arrive`, `Taken` and their like
are the peer and the kernel, which cut the streams anywhere. At the points
`cb_...` the application runs: it queues messages, pauses, asks for a new loop,
reports an error. `Reference` is what the packets of the wire mean, computed
packet by packet without buffers. Changing the mask (`XEvents_Modify`) and
shrinking a buffer always succeed. Two elements of `Assumed`:

* `"mdtp"`: no piece of an MDTP stream ends inside a header or one byte before the
  end of a packet. `XAPI_HandleMDTP` parses up to the capacity of the buffer, one
  byte beyond what was received; the run `session_mdtp` drops the element.
* `"handshake"`: the application queues nothing before the WebSocket handshake is
  complete. What it queues earlier goes on the wire before the handshake.

### The library: XArray, XMap, XPool, XList, XJSON, XString, XSock, XHTTP, XLog, XFile, XSearch

Each module has the operations of one source file as operators on a record (the
structure of the C code), actions that call them in any order with any outcome
of the allocations and system calls in them, and history variables for what the
caller is entitled to. `MCXLibrary` puts them side by side: `subject` names the one
whose operations are called, all others stay in their initial states, so one
run checks them all at the sum and not the product of their sizes.

* `XArray`: `array.c`. Entries are named, so one that is lost, kept twice or freed
  twice is seen; growth and shrinking may fail; both sorts and all four searches.
* `XMap`: `map.c`. The probe, tombstones, doubling and rebuilding; hash values are
  any function, in the instance one with collisions and a wrap-around. `call` is where a
  running `XMap_Put` stands: the loops that move the pairs to another table are one step
  per cell, so their invariant can be stated.
* `XPool`: `pool.c`. Chunks and offsets, rounding with the overflow of `size_t`
  (`SizeLimit`), freeing out of order, resizing in place.
* `XList`: `list.c`, pointer by pointer, with rings. What a loop along `pNext` or `pPrev`
  meets is the least set closed under that pointer (`Forward`, `Backward`), so that the
  model needs no recursion; `XList_Clear` is one step per turn of its loop.
* `XJSON`: `json.c`. The parser's recursion is a stack of frames, a token one step;
  the tree's objects are numbered to follow their ownership; the writer is a
  function of the tree and the size of its buffer. With `ArrayGrowthFails` TRUE,
  TLC finds `JsonFaithful` violated: `XArray_Add` clears the entry it cannot store
  and `json.c` frees it again.
* `XString`: `str.c`. The growing string with its memory, and the functions on C
  strings checked against definitions on sequences for all short texts. The
  calls that go wrong on a borrowed string (see Findings) are not made on one.
* `XSock`: `sock.c` (POSIX, OpenSSL). A function maps a work record (the structure,
  the open descriptors, the live TLS objects) to its result; `fail` names the call
  that fails. The loops of a TLS transfer are given by what they end with.
* `XHTTP`: `http.c`. Header table, assembly, and the exchange one read at a time.
  `HttpExchanged` excludes a callback that mixes keeping and taking content and
  one that keeps it on a non-blocking socket (see Findings).
* `XLog`: `log.c` in one process. A line is its number and its day. The calls that one
  message makes fail or not each by itself: the rename of `XLog_DisplayMessage`
  (`"archive"`), that of `XLog_OpenFile` (`"rename"`), `fopen` (`"open"`), `fflush`
  (`"flush"`), and every write, which loses any of the buffered lines (`lost`), since
  `fclose` and `fflush` are not looked at. stdio's buffer may be full at any line (`spill`),
  midnight may pass inside a call. Two failures together misdate a file (see Findings);
  the history `misdated` is set then, and `LogKept` says nothing of what follows.
* `XFile`: `xfs.c`, one system call per step, each of which may fail or be short, also
  those the code does not look at (`chmod`, `unlink`, `stat`). `in` and `out` are the open
  files: a file whose path another process removes goes on without one, and what is at the
  path then is another file. Between any two steps another process makes, removes or
  rewrites something (`OtherChange`); what it did stands in `job.other`, so that the
  properties can say what holds in spite of it. It makes no links, and nothing is copied,
  loaded or written through one.
* `XSearch`: `srch.c`, the walk as a stack of open directories.

## Runs

| Run | Instance | Distinct states | Shows |
|---|---|---|---|
| `engine` | 2 objects, 3 descriptors, 2 buckets, batch of 2, counter modulo 2 | 1 086 373 | the six invariants of `XEvents` and `Implements` |
| `engine_extend` | the same | violation | `ExtendedTimerSurvives`: re-arming a timer whose expiration is in the running batch ends in its deletion |
| `api` | 2 sessions, 4 objects, 4 nested activations | 315 318 | `SessionsAlive`, `LinksAgree`, `NoLeak`, `KeepsEngineContract` |
| `api_refuse` | the same | violation | `RefusedSessionAlive`: a refused registration writes to the freed session |
| `workers` | 2 workers, 3 process numbers | 91 935 | `TableExact`, `ShutdownLeavesNone`, and three liveness properties |
| `workers_interrupt` | the same | violation | `InterruptStopsWatch`: a signal before `waitpid` blocks is not noticed |
| `workers_orphan` | the same | violation | `WorkersDieWithParent`: a worker that has not read its parent's number yet outlives it |
| `task` | waiting and polling calls; any callback, and the monitor of a machine with 2 CPUs and 1 interface | 285 216 | `HoldQuiets`, `StopQuiets`, `StopEnds`, `CallsReturn`; `MonitorConsistent`, `MonitorEnds` |
| `task_stop` | the same calls, any callback | violation | `StopReturns`: `CREATED` stored over `STOPPED` |
| `session` | 19 sessions of four protocols, wires of up to 5 packets | 124 808 | `DeliveredAsSent`, `NoFalseError`, `SentInOrder`, `Drained`, `Flushed` |
| `session_mdtp` | two MDTP packets, any pieces | violation | `DeliveredAsSent`: a packet without its last byte is delivered |
| `library` | see below | 552 115 | one invariant for each of the eleven modules |

Why the bounds are enough. The hazards of the engine need one object that
deletes another one of the same batch (two objects, a batch of two), two
descriptors of one bucket and one of another (three descriptors, two buckets),
and a number that is used again. A session has at most two objects, so four
objects let both sessions have a timer; `MaxDepth` bounds only the calls the
application makes from inside callbacks, and a chain of a callback, a
disconnection in it, the CLOSED callback of that and a timer deletion in it is
four deep (with five TLC finds no violation either). Two workers and three
numbers let a number change hands while another worker still runs. The counter
of the engine wraps at 2 so that it both wraps and drifts in the run.

The monitor needs two CPUs (one published before the other), one interface that
appears or disappears, one change of what the kernel says while the worker or a
snapshot is half way, and one file that cannot be read; temperatures are looked
up in every list of up to two devices with up to two sensors.

The sessions of `session` are chosen by what the handlers tell apart: pipelined
HTTP requests with and without a body, MDTP packets, raw bytes kept or consumed,
WebSocket messages whole, in fragments and with a control frame in between, and
streams that have to be refused; each as server and as client, with and without
TLS where the direction matters. One read takes 4 bytes and the limit is 6, so
every packet is cut, two meet in one read, and the limit is reached; the kernel
buffers 2 bytes of what is sent, one message, so sends are partial.

In `library`: two sizes for an array (2 and the doubled one), keys that collide and
wrap around, pools of three chunks and blocks whose rounding overflows, lists of
four nodes, JSON texts of 8 tokens, texts of 3 characters, five kinds of sockets,
seven answers of an HTTP server over reads of 2 bytes.

The logger has one file name, four days, three lines and one change of the configuration
after the first line; after the last one nothing but the end of the process is left. An archive is overwritten by two rotations under one day; a wrong
date takes one day to come about and two more to do harm: with these bounds TLC finds such
a loss when the condition `~past.misdated` is left out of `LogKept`, and with three days it
does not. Changes of the name are bounded away here (two names need as many days again);
`XLogProofs` is about any number of them.

The files are trees of four paths, with a destination that exists or not, in the same or
another directory than the source, below a directory that may itself go. The files differ in
text and permissions, so that mixing two up shows; their five bytes take three transfers of
up to two, and a file that another process made is empty. One change by the other process,
at any point, is what each look-then-use needs to go wrong: the destination appears or goes
between `stat` and `open`, the source goes, a directory fills again (with two changes and
every tree of three texts, in this module alone, TLC finds no violation either).

Some invariants stand for several: `LinksAgree` of `XAPI` and `SentInOrder` of
`XAPIStream` include the types, `CallsReturn` is the return of a hold and of a release,
`JsonFaithful` includes ownership, `FilesFaithful` has one part per function and one for
everything a function is not asked to touch (`NothingElse`).

Symmetry is used for `Data`, `Session` and `Object`, none of which occurs in a
liveness property. Deadlock is checked in every run but the sessions', which end
when the session is closed or the wire is used up, and `library`, where an operation
that is over leaves nothing to do; `XAPIWorkers` has the step `Ended` for the state
in which no process is left.

### Fairness

Safety runs have none. In `XTask` each thread is weakly fair: both are runnable
threads, and the waits are polling loops. In `XAPIWorkers`: the parent inside a
call of the API (`ParentStep`) and each child during its set-up are weakly fair,
since they are runnable processes; a process with a pending SIGTERM ends (its
default action, or the handlers of the examples, which end the loop); and
`waitpid(-1)` is strongly fair for each child, because the kernel looks at the
children in the order of their creation. Nothing makes the application call, a
signal arrive, or a worker crash.

In `XMon` the worker and a started snapshot are weakly fair. In `XAPIStream` the
handlers are, since they run in the thread of the event loop; the peer takes
what is sent and answers what its TLS is asked; and a paused application goes on.
Weak fairness of these handlers is written as "infinitely often it is not its turn,
or infinitely often it moves", which says the same, because each of their steps
changes a variable that nobody else changes on their turn, and spares TLC the
evaluation of ENABLED. Nothing makes the peer send.

The violated liveness properties are checked under the same fairness.

## Proofs

All proofs hold for every value of the constants allowed by the named
assumptions: the NULL pointer is no object, batch size, bucket count and worker
count are positive, buckets of descriptors are in range, a machine has a CPU,
sizes of messages and buffers are natural numbers, the pool's sizes stay below
SIZE_MAX, there are log names and days, and HTTP's limit of the content is no
less than that of the header and one read (in `http.h` it is by far larger). None of the properties is
inductive as it stands; every inductive invariant was checked with TLC on the
instance of the run before it was proved.

**XEventsProofs** (`TypeCorrect`, `BatchSafety`, `KernelSafety`,
`DeletionReaches`, `ClearOnce`, `DestroyComplete`). The invariant `IInv` adds that
the stack of CLEAR callbacks holds distinct allocated objects (`FramesInv`), that
map, kernel set and objects agree about descriptors, which buckets are already
empty during a destruction, and what `cur` may be in each phase. One lemma shows
that `XEvents_Delete` preserves it from any point at which it may be called, and is
used for the deletions by the application, by a returned DISCONNECT and by a timer
error; one lemma per remaining group of actions does the rest.

Also in **XEventsProofs** is the refinement (`EngineRefines`: `Spec => Implements`). Every step of the
engine maps to a step of `EventLoop` or to none. `RInv` adds to `IInv` what only the
mapping needs: the order in which a bucket is cleared is known for exactly the
descriptors that have a pair (`OrderInv`), no object is twice in a batch
(`DistinctInv`), and none is being serviced outside the loop (`CurInv`). `UseHash` is
assumed: without the map `XEvents_Destroy` clears no object, which `EventLoop` does
not allow, and `XAPI` is written against the engine with the map.

**XAPIProofs** (`SessionsStayAlive`, `LinksStayConsistent`, `NothingLeaks`,
`ContractKept`), for any number of sessions, objects and nested callbacks, under
both elements of `Assumed` (`"timeout"` and `"spread"`; TLC finds `SessionsAlive` violated
without either). That an object leads to an allocated session depends on which
activation will free the session, and that a deletion reaches a live object on
which activations stand above which. So `IInv` says for each session who holds it
(`HoldInv`), where on the stack each kind of activation can be (`PlaceInv`), and what
is left of a session whose end has begun (`FreeInv`). `ContractKept` and
`EngineRefines` belong together: the client keeps the contract under which the
engine keeps its promises.

**XAPIWorkersProofs** (`TypeCorrect`, `TableStaysExact`, `ShutdownIsComplete`).
`TableExact` needs that a fork writes into an empty slot. `SlotsEmpty` says which
slots are empty while each loop over the table runs, `WorkersBusy` that a free
number is no worker's.

**XMonProofs**, the task (`TypeCorrect`, `HoldSafety`, `StopSafety`). `HoldQuiets` needs
that a PAUSED the controller sees is never a stale one: `XTask_Release` waited for the
ACTIVE that overwrites it.

The monitor (`MonitorTask`, `MonInvariant`, `MonitorStaysConsistent`), for any number of CPUs,
interfaces and sensors and any files that cannot be read. `MonitorTask`
carries the promises of the task over to the monitor. `MonitorConsistent` is about
values that a snapshot copied while the worker went on; `MonInv` therefore follows
the update line by line and the snapshot value by value. The step that makes both
fit is `Grows`: once the number of CPUs is published, an update leaves the list as it
is and only makes counters newer, so a counter copied before is no newer than the
percentages copied after it. That a removed interface leaves the list right needs
the deletions one by one, which is how `NetPurge` has them. `AllocFails` is assumed to
be FALSE, as in the run.

**XDataProofs**, the pool (`PoolInvariant`, `BlocksStayDisjoint`), for every alignment, width
of `size_t` and chunk size. `BlocksDisjoint` speaks of the sizes that callers asked for,
the pool of rounded ones. `PoolInv` says the same of the rounded blocks, and that
sizes and fill levels of all chunks are multiples of the alignment below SIZE_MAX:
without that the size of a new chunk could be rounded to 0. It is a predicate of a
chain and a set of blocks, so that it can be used between the two halves of
`XPool_Realloc`.

The list (`ListInvariant`, `ListStaysLinked`), for any set of nodes. `ListLinked` alone is not
inductive: it does not say that the nodes of the chain are distinct, nor where a
running `XList_Clear` stands; `ListInv` adds both. All insertions put a node between two
neighbours (`Put`) and all removals take one out from between them (`Taken`); one lemma
each (`InsertChained`, `RemoveChained`) shows for every place, also across the seam of a
ring, that the pointers are then those of the longer or shorter chain. What the loops
for head, tail and search find follows without induction: a set closed under
`pNext` that holds one node holds every later one, since otherwise there were a first
that it lacks (`ClosedForward`).

The string map (`MapInvariant`, `MapStaysDictionary`), for any keys, values, hash function and
sizes. Two facts about the table carry the proof: no key is in two cells (`Once`), and the
probes for a key meet no cell never used before they come to it (`Reached`), which a removal
keeps because it leaves a tombstone. `HashIs` says that the probes for a key visit every cell
once; from it follow that a search finds a key that is there (`IndexFound`), that it finds
no other (`IndexMissing`), and that `XMap_GetHash` fails only for a table in which every cell is
in use (`GetHashIs`). While a table is replaced, `Copied` says that the new one has exactly the pairs
of the cells passed so far and fewer pairs than cells, so that every pair finds room:
the error paths that put the old table back are never taken, and the model has none.

**XNetProofs**, the sockets (`SocketInvariant`, `SocketsStayOwned`), for any number of sockets,
any flags and any failing call. The functions of `sock.c` work on one structure and on
the process; the invariant is therefore a predicate `Owns` of such a work record, of
the descriptors and of the objects that the other sockets own, and each function is
shown to keep it. Composed functions (creation with its roll-back, accept, the TLS set-up) then
follow from their parts.

The HTTP exchange (`HttpInvariant`, `HttpStaysExchanged`), for any answer, any sizes of the reads
and any limits. `HttpExchanged` says when a verdict is true; `HttpInv` what is
known between two reads so that it will be: buffered, taken and dropped bytes are all
that arrived (`Counted`), while the header is read nothing is parsed (`InHeader`), and
afterwards the parsed lengths are the answer's and `nBodySize` is what arrived of the body
(`InContent`, `Sized`), with `<=` for a callback that keeps content on a
non-blocking socket. One lemma per way in which a step can end does the rest.

**XLogProofs** (`LogInvariant`, `LogStaysKept`), for any number of names, days and lines,
with every rename, open and write failing independently. A line is lost when a rotation
renames over an archive. `LogInv` says why that does not happen as long as nothing is
misdated: every archive is older than today, than the date of the file with its name and,
while `nCurrDay` speaks of that file (`Ours`), than `nCurrDay` (`Dated`). It also says that no
line is in two places (`Apart`) and of which days the lines of a place can be (`Fresh`). All are
predicates of the logger's structure and the disk, kept by each function of `log.c`; that a
failing write takes lines out of the buffer and puts them nowhere is `WrittenBy`. The delicate
point is between the two renames of one message: the buffer flushed after midnight dates
the file tomorrow while `nCurrDay` is still yesterday. When the first rename succeeds the
file goes under yesterday, and when both fail `XLog_OpenFile` goes on with it; only when the
first fails and the second succeeds is it archived ahead of its day, and that is
`ArchivedAhead` (`Ready` is what an open needs). `misdated` never becomes false again, so
the theorem speaks of all behaviours up to that point and of none after it.

**XAPIStreamProofs** (`StreamInvariant`, `SendsInOrder`), for every session, wire, cut of
the stream and size. What a handler removes from the receive buffer is what a
parser read from the header in it, so `StreamInv` says that the bytes of that buffer
are the peer's, that handlers run only on a buffer that holds something, and that
every buffer has a cell more than it has data, where `XByteBuffer_Add` puts the
terminator. No element of `Assumed` is needed: `SentInOrder` holds whatever the
application does before the handshake.

Some of these need facts about data of any length: `FlattenSeq` of one more message,
the first positive temperature of a list, what a loop along the pointers of a list
meets. The provers cannot instantiate the
induction theorems of the library, which have an operator as a parameter; the
lemmas `Least` and `MinLeast` (a nonempty set of naturals has a least element, from
the well-foundedness of `<`) take their place: a proof looks at the smallest
counterexample.

Only model-checked:

* all liveness properties (`StopEnds`, `CallsReturn`, `MonitorEnds`, `Drained`, `Flushed`, those
  of `XAPIWorkers`), and what is stated with ENABLED: outside this prover's reach;
* `DeliveredAsSent` and `NoFalseError` of `XAPIStream`: they compare all that the handlers
  of four protocols did with `Reference`, which reads the packets by recursion; the
  invariant would have to give the parsers' meaning for every cut;
* `XJSON`, `XString`, `XFile` and `XSearch`, whose functions on texts and trees are RECURSIVE
  operators, with which the prover loses its arithmetic, checked against definitions
  that would need induction;
* `XArray`: its sorts and searches are recursive functions, and that a sort orders and
  permutes is an induction over the array.

## Findings

Each of these is a run that TLC refutes:

* `XTask_Start` stores CREATED after the worker may have stored STOPPED; a
  later `XTask_Stop` waits forever (`sys/thread.c:181`).
* A timer that expired into the running batch and is re-armed by an earlier
  callback is reported as failed and deleted (`net/event.c:354`).
* `XAPI_Listen`, `XAPI_Connect`, `XAPI_AddEvent` write to a session that the
  deletion of its event has freed (`net/api.c:2320`, 2400, 2460).
* `XAPI_WatchWorkers` misses an interrupt between the test and `waitpid`
  (`net/api.c:231`).
* A worker whose parent dies before its first `getppid` runs on
  (`net/api.c:554`).
* An MDTP packet that lacks its last byte is delivered as complete
  (`net/api.c:1015`).

The assumptions `"timeout"`, `"spread"` and `"handshake"`, `AllocFails` and
`ArrayGrowthFails` are findings of the same kind that no document contradicts
outright. While translating, these came up too; the models follow the code or
leave the case out, as said:

* `net/api.c`: a RELOOP returned by a READ or handshake callback leaves complete
  packets in the buffer until the next read (`Drained` excludes it);
  `XAPI_PutTxBuff` reports success when the allocation failed and data was queued
  before; a hang-up drops unread bytes; frames that arrive together with the
  upgrade request wait for the next read. HTTP: a length without a Content-Type
  leaves the body to be parsed as a request, a Content-Type without a length is
  never complete, and the receive limit does not apply to a parsed header.
* `net/mdtp.c`: the packet is not initialised when a header is incomplete; a header
  of length 0 recurses; `XPacket_New` has an inverted check.
* `sys/mon.c`: a CPU that comes on line after the first pass is a NULL entry;
  unchanged counters divide zero by zero; `fGuestNi` uses percentages where raw
  values are meant; `nLoadDone` survives a restart; `XMon_WaitLoad` does not
  return when the monitor stops before its first pass.
* `net/sock.c`: some failures leave `pPrivate` until `XSock_Close`; an error in a
  blocking TLS transfer hides the bytes moved before it; a failed forced bind of
  a UNIX socket keeps the temporary path; plain reads take EAGAIN for an error.
* `net/http.c`: `XHTTP_Copy` shares the strings of the table (not modelled);
  `XHTTP_AddHeader` keeps the user's spelling and `XHTTP_GetHeader` looks for lower
  case, so a user's `Connection` is overwritten; `XHTTP_LinkExchange` adds the
  credentials after the request was assembled; content that a callback keeps on a
  non-blocking socket is never counted.
* `data/str.c`: `XString_Color` and a failed growth on a borrowed string;
  `XString_Replace` with several occurrences; `xstrcase` tests the wrong way
  round, so a search that ignores case never lowers anything; a delimiter at
  position 0 ends the tokens.
* `sys/log.c`: two processes that share a file overwrite each other's archive; a
  clock that goes back does too. Two losing orders within one process, which `misdated`
  marks: (1) a line buffered on day 1 is flushed by the first message of day 2 while
  midnight passes, which dates the file day 3, the rename to `-day1` fails
  (`log.c:272`), and that of `XLog_OpenFile` (`log.c:173`) archives it as `-day3`; the file
  of day 3 is later renamed over it. (2) `fopen` fails in the first message after a
  change of name, so `nCurrDay` stays that of the old file and the next rotation archives
  the new one under it. A line that a failing `fclose` or `fflush` does not write is lost
  without notice. `log.md` promises no more than that the file is rotated daily.
* `sys/xfs.c`: three places disagree with what is written about them, and the parts of
  `FilesFaithful` name each as an exception. A file that another process creates between
  `XPath_CopyFile`'s look at the destination and its `open` is removed when the copy fails
  (lines 850, 872; the comment at 870 and `xfs.md:328` say that only a destination it
  created is). `XPath_CopyFile` reports success when `chmod` failed (887; 877 and
  `xfs.md:326` say that a new destination carries the source's permissions). `XDir_Create`
  returns 1 for a plain file at the path (1125, 1134; `xfs.md:411` says that the directory
  exists). Besides, `XPath_Write` writes `nSize` and not what is left after a short write
  (976; in the model what it reads beyond its buffer is junk, and the call then returns more
  than it was given), and leaves what it wrote when it fails; `XPath_CopyFile` onto itself
  truncates (not modelled); a failing `stat` of an existing destination makes it one that a
  failed copy removes; a file of another process that takes the place of the copy gets the
  permissions of the source.
* `sys/srch.c`: a directory stays open when an entry cannot be looked at and the
  search ends; a search by buffer misses the first character of the first line and
  a last line without a newline (`BufferRight` says exactly what is found).
* `data/array.c`, `map.c`, `list.c`, `buf.c`: `XMap_Put` reports a failure after it stored
  the pair; unlinking the only node of a ring; `XRingBuffer_Update` after the last
  pop (the ring has no user and no model).

## Plan

Done: the models of all parts below; proofs of the safety properties of `XEvents`,
its refinement of `EventLoop`, `XAPI`, `XAPIWorkers`, `XTask`, `XMon`, `XPool`, `XList`, `XMap`, `XSock`, `XHTTP`, `XLog`
and the sending side of `XAPIStream`. What is left are theorems, in this order:

1. `ArrayIsSequence` of `XArray` without its sorts.
2. The parts of `NoFalseError` that concern the limits of the receive buffer.

Not modelled, and why:

* the poll and WSAPoll build of the engine and everything for Windows: other code
  for the same promises; `EventLoop` would be their specification;
* timers whose descriptors are shared by forked workers: this needs the engine
  and the workers in one model;
* `XSyncBar`, the ring buffer and the data buffer, which nothing in the repository
  uses, and `sys/sync.c`'s wrappers of pthreads;
* cryptography (`crypt/`), which computes bit patterns that a model checker cannot
  enumerate, and `data/jwt.c`, which puts it together with JSON;
* `sys/cli.c`, `sys/cpu.c`, `sys/sig.c`, `sys/xtime.c`, `sys/type.c`, `net/addr.c`,
  `net/ntp.c`, `net/rtp.c`: single system calls, fixed layouts, the calendar;
* the tools and examples, which are programs on top of the library.
