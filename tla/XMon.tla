-------------------------------- MODULE XMon --------------------------------
(***************************************************************************)
(* The system monitor of src/sys/mon.c on the repeating task: the worker   *)
(* runs XMon_UpdateStats again and again, another thread takes snapshots   *)
(* of what it stores.  CPU and memory figures are single atomics without a *)
(* lock, so every store and every read is a step; the interfaces are under *)
(* netLock.  What a CPU's figure says is the time at which the kernel gave *)
(* it, a size of memory is 0 until it is known.  One field stands for each *)
(* group of fields that are stored together, the raw counters of a CPU and *)
(* its percentages being two groups.  Times of waited-for children, names  *)
(* and addresses are left out.                                             *)
(***************************************************************************)
EXTENDS XTask, Integers, Sequences, FiniteSets, FiniteSetsExt, SequencesExt

CONSTANTS Clients,        \* what the task repeats: "any" callback, or the "monitor"
          Ifaces,         \* names of network interfaces
          CpuLines,       \* CPUs that /proc/stat lists
          CoreOf,         \* CoreOf[c]: core_id of CPU c
          IntervalSecs,   \* nIntervalU in seconds
          Devices,        \* lists of hwmon devices that the temperatures are looked up in
          Unreadable,     \* bound: sets of files of which each read may fail
          MaxChanges,     \* bound: changes of what the kernel tells, and files that may fail
          AllocFails      \* whether the memory for a CPU may be missing

ASSUME MonAssumption ==
    /\ Clients \subseteq {"any", "monitor"} /\ CpuLines \in Nat \ {0} /\ CoreOf \in [0..(CpuLines - 1) -> Nat]
    /\ IntervalSecs \in Nat \ {0} /\ MaxChanges \in Nat /\ AllocFails \in BOOLEAN

\* The files of a sensor are named after its index, so that a device has one for each index.
ASSUME DevicesAssumption ==
    \A hw \in Devices :
        /\ hw \in Seq([isCPU : BOOLEAN, sensors : Seq([index : Nat, words : SUBSET STRING, core : Int, value : Int])])
        /\ \A d \in 1..Len(hw) : \A i, j \in 1..Len(hw[d].sensors) :
              hw[d].sensors[i].index = hw[d].sensors[j].index => i = j

VARIABLES
    client,   \* which of Clients this is
    sys,      \* external: tick, the time that the kernel's figures tell; net, for every
              \* interface its bytes (-1: there is none); changes of both; broken: one of Unreadable
    st,       \* xmon_stats_t; and life ("none", "ready", "gone"), crashed (a CPU that is not
              \* in the list was used)
    upd,      \* the worker inside XMon_UpdateStats
    rd,       \* the thread that takes snapshots
    waited    \* XMon_WaitLoad has returned

monVars == <<client, sys, st, upd, rd, waited>>

NoInfo == [raw |-> 0, pct |-> 0, temp |-> 0]
NoStats == [life |-> "none", count |-> 0, cores |-> << >>, sum |-> NoInfo, usage |-> 0,
            memTotal |-> 0, resident |-> 0, ifaces |-> << >>, lock |-> "free",
            loaded |-> FALSE, crashed |-> FALSE]
\* at: when the file in the buffer was read; id: the line of /proc/stat; left: names of readdir.
NoUpdate == [pc |-> "stat", at |-> 0, id |-> -1, count |-> 0, left |-> {}]
\* got: what was copied so far.
NoReader == [pc |-> "idle", call |-> "none", got |-> << >>, usage |-> 0, count |-> 0, ret |-> 0]

-----------------------------------------------------------------------------
(* Temperatures.  A device has a name that is that of a CPU's or not, and  *)
(* its sensors in the order of readdir: index, words of the label, the     *)
(* number of "Core n" (-1 without one) and the value.                      *)

\* XMon_ReadHWMONTempInput
TempInput(dev, index) ==
    LET hits == {i \in 1..Len(dev.sensors) : dev.sensors[i].index = index} IN
    IF hits = {} THEN 0 ELSE Max({0, dev.sensors[Min(hits)].value})

\* The first temperature above 0 among those of a list.
FirstOf(temps) ==
    LET hot == {i \in 1..Len(temps) : temps[i] > 0} IN IF hot = {} THEN 0 ELSE temps[Min(hot)]

XMon_ReadFirstHWMONTemp(dev) ==
    FirstOf(<<TempInput(dev, 1)>> \o
            [i \in 1..Len(dev.sensors) |-> IF dev.sensors[i].index > 1 THEN TempInput(dev, dev.sensors[i].index) ELSE 0])

XMon_ReadHWMONTempLabel(dev, label) ==
    FirstOf([i \in 1..Len(dev.sensors) |->
        IF label \in dev.sensors[i].words THEN TempInput(dev, dev.sensors[i].index) ELSE 0])

XMon_ReadHWMONCoreTemp(dev, core) ==
    FirstOf([i \in 1..Len(dev.sensors) |->
        IF dev.sensors[i].core = core THEN TempInput(dev, dev.sensors[i].index) ELSE 0])

XMon_ReadCPUTempByLabel(hw, label) == FirstOf([d \in 1..Len(hw) |-> XMon_ReadHWMONTempLabel(hw[d], label)])
XMon_ReadCPUCoreTemp(hw, core) == FirstOf([d \in 1..Len(hw) |-> XMon_ReadHWMONCoreTemp(hw[d], core)])
XMon_ReadCPUTempByName(hw) ==
    FirstOf([d \in 1..Len(hw) |-> IF hw[d].isCPU THEN XMon_ReadFirstHWMONTemp(hw[d]) ELSE 0])

PackageLabels == <<"Package", "Tctl", "Tdie", "CPU">>
XMon_ReadCPUPackageTemp(hw) ==
    FirstOf([l \in 1..Len(PackageLabels) |-> XMon_ReadCPUTempByLabel(hw, PackageLabels[l])]
            \o <<XMon_ReadCPUTempByName(hw)>>)

XMon_ReadCPUTemperature(hw, id) ==
    IF id < 0 THEN XMon_ReadCPUPackageTemp(hw) ELSE XMon_ReadCPUCoreTemp(hw, CoreOf[id])

\* The devices of this machine.
Hwmon == CHOOSE hw \in Devices : \A h \in Devices : Len(h) <= Len(hw)
-----------------------------------------------------------------------------
(* XMon_UpdateStats in the worker thread                                   *)

Updating(pc) == client = "monitor" /\ wpc = "callback" /\ upd.pc = pc
Stores(s, pc) == st' = s /\ upd' = [upd EXCEPT !.pc = pc]
\* Whether an allocation succeeds.
Allocated == IF AllocFails THEN BOOLEAN ELSE {TRUE}
\* A file cannot be read: the function returns.
GivesUp(file, pc) == file \in sys.broken /\ Stores(st, pc)

\* XMon_UpdateCPUStats: /proc/stat is read at once.
UpdateStat ==
    /\ Updating("stat")
    /\ \/ upd' = [upd EXCEPT !.pc = "line", !.at = sys.tick, !.id = -1, !.count = st.count] /\ UNCHANGED st
       \/ GivesUp("stat", "mem")

\* A line: the first time a CPU is added to the list, later its percentages are stored, which
\* are those of the time from its last counters to the new ones.
UpdateLine ==
    LET id == upd.id
        new == [raw |-> upd.at, pct |-> 0, temp |-> XMon_ReadCPUTemperature(Hwmon, id)]
        Percent(info) == [info EXCEPT !.pct = upd.at] IN
    /\ Updating("line")
    /\ \/ id = CpuLines /\ upd' = [upd EXCEPT !.pc = "count"] /\ UNCHANGED st
       \/ /\ id \in 0..(CpuLines - 1) /\ upd.count = 0
          /\ upd' = [upd EXCEPT !.id = @ + 1]
          /\ \E ok \in Allocated : st' = [st EXCEPT !.cores = IF ok THEN Append(@, new) ELSE @]
       \/ id = -1 /\ Stores([st EXCEPT !.sum = Percent(@)], "raw")
       \/ /\ id \in 0..(CpuLines - 1) /\ upd.count # 0
          /\ IF id < Len(st.cores) THEN Stores([st EXCEPT !.cores[id + 1] = Percent(@)], "raw")
                                   ELSE Stores([st EXCEPT !.crashed = TRUE], "crash")

\* Then the counters and the temperature of the line.
UpdateRaw ==
    LET id == upd.id
        Stored(info) == [raw |-> upd.at, pct |-> info.pct, temp |-> XMon_ReadCPUTemperature(Hwmon, id)] IN
    /\ Updating("raw")
    /\ st' = IF id < 0 THEN [st EXCEPT !.sum = Stored(@)] ELSE [st EXCEPT !.cores[id + 1] = Stored(@)]
    /\ upd' = [upd EXCEPT !.pc = "line", !.id = @ + 1]

UpdateCount ==
    Updating("count") /\ st' = [st EXCEPT !.count = Len(st.cores)] /\ upd' = [NoUpdate EXCEPT !.pc = "proc"]

\* /proc/<pid>/stat: the usage up to the sum's new total.  The load averages follow, which
\* nothing depends on.
UpdateUsage ==
    /\ Updating("proc")
    /\ \/ Stores([st EXCEPT !.usage = st.sum.raw], "mem")
       \/ GivesUp("proc", "mem")

\* XMon_UpdateMemoryInfo: /proc/meminfo, then /proc/<pid>/status.
UpdateMemory ==
    \/ Updating("mem") /\ (Stores([st EXCEPT !.memTotal = 1], "status") \/ GivesUp("meminfo", "net"))
    \/ Updating("status") /\ (Stores([st EXCEPT !.resident = 1], "net") \/ GivesUp("status", "net"))

\* Mutant: the update ends when the directory is missing.
NetOpenOrLeave ==
    /\ Updating("net")
    /\ \/ upd' = [upd EXCEPT !.pc = "lock", !.left = {n \in Ifaces : sys.net[n] >= 0}] /\ UNCHANGED st
       \/ GivesUp("net", "end")

\* XMon_UpdateNetworkStats: the directory is opened before the lock is taken.
NetOpen ==
    /\ Updating("net")
    /\ \/ upd' = [upd EXCEPT !.pc = "lock", !.left = {n \in Ifaces : sys.net[n] >= 0}] /\ UNCHANGED st
       \/ GivesUp("net", "done")
NetLock ==
    /\ Updating("lock") /\ st.lock = "free"
    /\ Stores([st EXCEPT !.lock = "worker", !.ifaces = [i \in 1..Len(@) |-> [@[i] EXCEPT !.active = FALSE]]], "scan")

Rate(new, old) == IF new > old /\ old > 0 THEN (new - old) \div IntervalSecs ELSE 0

\* An interface whose files have gone by now has counters of 0.
NetScan ==
    /\ Updating("scan")
    /\ \E n \in upd.left :
          LET bytes == Max({0, sys.net[n]})
              New(old) == [name |-> n, bytes |-> bytes, rate |-> Rate(bytes, old), active |-> TRUE]
              known == {i \in 1..Len(st.ifaces) : st.ifaces[i].name = n} IN
          /\ upd' = [upd EXCEPT !.left = @ \ {n}]
          /\ \/ /\ known # {}
                /\ st' = [st EXCEPT !.ifaces = [i \in 1..Len(@) |-> IF i \in known THEN New(@[i].bytes) ELSE @[i]]]
             \/ known = {} /\ \E ok \in Allocated : st' = [st EXCEPT !.ifaces = IF ok THEN Append(@, New(0)) ELSE @]

\* Interfaces that have gone are deleted one after the other, then the lock is released.
NetPurge ==
    LET gone == {i \in 1..Len(st.ifaces) : ~st.ifaces[i].active} IN
    /\ Updating("scan") /\ upd.left = {}
    /\ \/ \E i \in gone :
             (\A j \in gone : i <= j) /\ st' = [st EXCEPT !.ifaces = RemoveAt(@, i)] /\ UNCHANGED upd
       \/ gone = {} /\ Stores([st EXCEPT !.lock = "free"], "done")

UpdateDone == Updating("done") /\ Stores([st EXCEPT !.loaded = TRUE], "end")

UpdateStep ==
    /\ \/ UpdateStat \/ UpdateLine \/ UpdateRaw \/ UpdateCount \/ UpdateUsage
       \/ UpdateMemory \/ NetOpen \/ NetLock \/ NetScan \/ NetPurge \/ UpdateDone
    /\ UNCHANGED <<vars, client, sys, rd, waited>>

\* XMon_UpdateStats returns 0: the task goes on.
UpdateReturn ==
    /\ Updating("end") /\ CallbackReturn /\ wpc' = "test"
    /\ upd' = NoUpdate /\ UNCHANGED <<client, sys, st, rd, waited>>
-----------------------------------------------------------------------------
(* The thread that takes snapshots.  That the memory for one of the copies *)
(* is missing only makes the result shorter and is left out.               *)

Reading(pc) == rd.pc = pc
Read(v, pc) == rd' = [rd EXCEPT !.got = Append(@, v), !.pc = pc]
Result(v) == rd' = [rd EXCEPT !.pc = "result", !.ret = v]

ReadBegin ==
    /\ client = "monitor" /\ st.life = "ready" /\ Reading("idle")
    /\ \/ \E c \in {"resident", "count", "ifaces"} : rd' = [NoReader EXCEPT !.pc = c, !.call = c]
       \/ mpc = "ready" /\ action # "STOP" /\ rd' = [NoReader EXCEPT !.pc = "wait", !.call = "wait"]

\* XMon_GetMemoryInfo
ReadMemory ==
    \/ Reading("resident") /\ Read(st.resident, "total")
    \/ Reading("total") /\ Result(st.memTotal)

\* XMon_GetCPUStats: the number of CPUs is read once, and the list without a lock.
ReadCount ==
    /\ Reading("count")
    /\ \/ st.count = 0 /\ Result(0)
       \/ st.count > 0 /\ rd' = [rd EXCEPT !.count = st.count, !.pc = "usage"]
       \/ st.count > 0 /\ Result(-1)
ReadUsage == Reading("usage") /\ rd' = [rd EXCEPT !.usage = st.usage, !.pc = "raw"]

\* XMon_CopyCPUInfo, first for the sum and then for each CPU: the counters, then the percentages.
Info(i) == IF i = 0 THEN st.sum ELSE st.cores[i]

\* Mutant: the percentages are copied before the counters.
PercentCopiedFirst ==
    LET i == Len(rd.got) IN
    \/ Reading("raw") /\ i <= rd.count /\ Read([raw |-> 0, pct |-> Info(i).pct, temp |-> 0], "pct")
    \/ /\ Reading("pct")
       /\ rd' = [rd EXCEPT !.got[i].raw = Info(i - 1).raw, !.got[i].temp = Info(i - 1).temp, !.pc = "raw"]
    \/ Reading("raw") /\ i > rd.count /\ Result(rd.count)

ReadCPU ==
    LET i == Len(rd.got) IN
    \/ Reading("raw") /\ i <= rd.count /\ Read([raw |-> Info(i).raw, pct |-> 0, temp |-> 0], "pct")
    \/ /\ Reading("pct")
       /\ rd' = [rd EXCEPT !.got[i] = [raw |-> @.raw, pct |-> Info(i - 1).pct, temp |-> Info(i - 1).temp], !.pc = "raw"]
    \/ Reading("raw") /\ i > rd.count /\ Result(rd.count)

\* XMon_GetNetworkStats
ReadIfaces ==
    /\ Reading("ifaces") /\ st.lock = "free"
    /\ rd' = [rd EXCEPT !.got = SelectSeq(st.ifaces, LAMBDA e : e.active), !.pc = "result",
                         !.ret = Len(SelectSeq(st.ifaces, LAMBDA e : e.active))]

\* XMon_WaitLoad
ReadLoaded == Reading("wait") /\ st.loaded /\ rd' = NoReader /\ waited' = TRUE

ReadStep ==
    /\ UNCHANGED <<vars, client, sys, st, upd>>
    /\ \/ (ReadMemory \/ ReadCount \/ ReadUsage \/ ReadCPU \/ ReadIfaces) /\ UNCHANGED waited
       \/ ReadLoaded
       \/ Reading("result") /\ rd' = NoReader /\ UNCHANGED waited

-----------------------------------------------------------------------------
(* The controlling thread.  It stops the monitor before it destroys it,    *)
(* destroys it when nobody takes a snapshot, and is itself the one that    *)
(* waits for the first load.                                               *)

XMon_InitStats ==
    /\ client = "monitor" /\ Idle /\ st.life # "ready"
    /\ st' = [NoStats EXCEPT !.life = "ready"] /\ status' = "FAIL" /\ waited' = FALSE
    /\ UNCHANGED <<action, wpc, paused, ctrl, client, sys, upd, rd>>

\* A process that does not exist is refused before anything is changed.
XMon_StartMonitoring == st.life = "ready" /\ XTask_Start

XMon_StopMonitoring == XTask_Stop /\ mpc' = "waiting" /\ ~Reading("wait")

XMon_DestroyStats ==
    /\ client = "monitor" /\ Idle /\ st.life = "ready" /\ Reading("idle")
    /\ st' = [NoStats EXCEPT !.life = "gone"]
    /\ UNCHANGED <<vars, client, sys, upd, rd, waited>>

\* External: the figures of the kernel change, or an interface transfers, comes or goes.
SysChange ==
    /\ client = "monitor" /\ sys.changes < MaxChanges
    /\ \/ sys' = [sys EXCEPT !.changes = @ + 1, !.tick = @ + 1]
       \/ \E n \in Ifaces : \E b \in {-1, 0, sys.net[n] + 2} : sys' = [sys EXCEPT !.changes = @ + 1, !.net[n] = b]
    /\ UNCHANGED <<vars, client, st, upd, rd, waited>>

-----------------------------------------------------------------------------
allVars == <<vars, monVars>>

MonInit ==
    /\ Init /\ client \in Clients
    /\ \E f \in Unreadable : sys = [tick |-> 1, changes |-> Cardinality(f), net |-> [n \in Ifaces |-> 1], broken |-> f]
    /\ st = NoStats /\ upd = NoUpdate /\ rd = NoReader /\ waited = FALSE

\* A task that does something else.
AnyWorker == client = "any" /\ Worker /\ UNCHANGED monVars
AnyController == client = "any" /\ Controller /\ UNCHANGED monVars

\* The worker of the monitor, which is never held; inside the callback and outside of it.
TaskStep == client = "monitor" /\ (WorkerStart \/ WorkerTest \/ WorkerExit) /\ UNCHANGED monVars
MonWorker == TaskStep \/ UpdateStep \/ UpdateReturn

MonController ==
    \/ client = "monitor" /\ (XMon_StartMonitoring \/ StartReturn \/ XMon_StopMonitoring \/ WaitReturn) /\ UNCHANGED monVars
    \/ XMon_InitStats \/ XMon_DestroyStats

MonNext ==
    \/ AnyWorker \/ AnyController
    \/ MonWorker \/ MonController
    \/ ReadBegin /\ UNCHANGED <<vars, client, sys, st, upd, waited>>
    \/ ReadStep \/ SysChange

\* A thread that can go on does.  Inside the callback and in a snapshot this is weak fairness
\* written without ENABLED, which TLC is slow to evaluate here: a thread that goes on changes upd or
\* rd sooner or later, and nobody else does while it has a turn.
UpdateTurn == client = "monitor" /\ wpc = "callback" /\ upd.pc # "crash"
ReaderTurn ==
    CASE Reading("wait") -> st.loaded [] Reading("ifaces") -> st.lock = "free" [] OTHER -> ~Reading("idle")

\* Nobody is obliged to make a call.
MonSpec ==
    /\ MonInit /\ [][MonNext]_allVars
    /\ WF_allVars(AnyWorker) /\ WF_allVars(TaskStep)
    /\ WF_allVars((StartReturn \/ WaitReturn) /\ UNCHANGED monVars)
    /\ []<>~UpdateTurn \/ []<><<TRUE>>_upd
    /\ []<>~ReaderTurn \/ []<><<TRUE>>_rd

-----------------------------------------------------------------------------
\* A snapshot of the CPUs agrees with itself although the worker goes on while it is taken: the
\* usage of the process is no newer than the sum, and percentages, where there are any yet, are no
\* older than the counters beside them.
CpuSnapshot ==
    rd.call = "count" /\ Reading("result") /\ rd.ret > 0 =>
        /\ Len(rd.got) = rd.count + 1 /\ rd.usage <= rd.got[1].raw
        /\ \A i \in 1..Len(rd.got) : rd.got[i].pct # 0 => rd.got[i].raw <= rd.got[i].pct

\* The list of CPUs does not change while it is read without a lock.
CoresPublished ==
    Reading("raw") \/ Reading("pct") =>
        rd.count = Len(st.cores) /\ ~(Updating("line") /\ upd.count = 0 /\ upd.id \in 0..(CpuLines - 1))

\* Once XMon_WaitLoad has returned there is something to see, if the kernel gave it.
LoadedIsSeen ==
    waited /\ sys.broken = {} /\ Reading("result") =>
        /\ rd.call = "count" => rd.ret # 0
        /\ rd.call = "resident" => rd.ret > 0 /\ rd.got[1] > 0

\* Interfaces are listed once, only while they are there, and no counter that began again at 0
\* makes a rate larger than what was transferred.
IfacesRight ==
    /\ \A i, j \in 1..Len(st.ifaces) : st.ifaces[i].name = st.ifaces[j].name => i = j
    /\ \A i \in 1..Len(st.ifaces) :
          /\ st.lock = "free" => st.ifaces[i].active
          /\ st.ifaces[i].rate >= 0 /\ st.ifaces[i].rate * IntervalSecs <= st.ifaces[i].bytes

\* The statistics are there as long as a thread uses them.
StatsAlive == (client = "monitor" /\ wpc = "callback") \/ ~Reading("idle") => st.life = "ready"

\* A core has the temperature of a sensor of that core if one works, the package that of the first
\* kind of label that has one.
TemperatureRight ==
    \A hw \in Devices :
        LET all == UNION {ToSet(hw[d].sensors) : d \in 1..Len(hw)}
            working == {s \in all : s.value > 0}
            OfCore(c) == {s.value : s \in {s \in working : s.core = c}}
            Labelled(l) == {s.value : s \in {s \in working : PackageLabels[l] \in s.words}} IN
        /\ \A id \in DOMAIN CoreOf :
              LET own == OfCore(CoreOf[id]) IN XMon_ReadCPUTemperature(hw, id) \in IF own = {} THEN {0} ELSE own
        /\ \A l \in 1..Len(PackageLabels) :
              Labelled(l) # {} /\ (\A k \in 1..(l - 1) : Labelled(k) = {}) => XMon_ReadCPUTemperature(hw, -1) \in Labelled(l)

\* The monitor's figures are consistent wherever worker and reader interleave.
MonitorConsistent ==
    ~st.crashed /\ StatsAlive /\ CpuSnapshot /\ CoresPublished /\ LoadedIsSeen /\ IfacesRight /\ TemperatureRight

\* XMon_WaitLoad returns, even if no file can be read, and so does XMon_StopMonitoring, unlike
\* the XTask_Stop of a task that ends by itself.
MonitorEnds ==
    /\ Reading("wait") ~> ~Reading("wait")
    /\ (client = "monitor" /\ mpc = "waiting") ~> mpc # "waiting"
=============================================================================
