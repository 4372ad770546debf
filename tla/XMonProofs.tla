----------------------------- MODULE XMonProofs -----------------------------
(***************************************************************************)
(* The task under the monitor: the promises of XTask_Hold and XTask_Stop.  *)
(* HoldQuiets is not inductive: it needs that a PAUSED status is never a   *)
(* stale one when XTask_Wait looks for it, which holds because             *)
(* XTask_Release waited for the ACTIVE that overwrites it.                 *)
(*                                                                         *)
(* The system monitor on any machine: any number of CPUs, interfaces and   *)
(* sensors, any files that cannot be read.  MonitorConsistent speaks of    *)
(* snapshots that are complete and of values they copied long ago, so it   *)
(* is not inductive: MonInv follows the update line by line (CoreInv,      *)
(* TimeInv, LoadInv) and the snapshot value by value (CopyInv, SnapInv).   *)
(* Why both can go on at once is in Grows: once the number of CPUs is      *)
(* published an update only ever makes the counters newer.                 *)
(***************************************************************************)
EXTENDS XMon, TLAPS, NaturalsInduction, WellFoundedInduction

-----------------------------------------------------------------------------
(* The task                                                                *)

\* Where a task that nobody polls can be while its status says PAUSED.
PausedInv ==
    status = "PAUSED" =>
        /\ paused /\ wpc \in {"test", "resume", "exit"}
        /\ mpc \in {"ready", "waiting"}
        /\ ~polled /\ wpc = "resume" => mpc = "waiting" /\ goal = "ACTIVE"
        /\ ~polled /\ wpc = "exit" => mpc = "waiting" /\ goal = "STOPPED"
        /\ ~polled /\ mpc = "ready" => held

HeldInv == held => mpc = "ready" /\ action = "PAUSE" /\ (~polled => status = "PAUSED")

GoalInv ==
    /\ mpc = "waiting" /\ goal = "PAUSED" => action = "PAUSE"
    /\ mpc = "waiting" /\ goal = "ACTIVE" => action = "RELEASE"
    /\ mpc = "waiting" /\ goal = "STOPPED" => action = "STOP"
    /\ mpc = "created" => action = "RELEASE"
    /\ mpc = "ready" /\ ~polled => action = "RELEASE" \/ held

StopInv ==
    /\ status = "STOPPED" /\ mpc # "created" => wpc \in {"none", "done"}
    /\ mpc \in {"idle", "failed"} => wpc \in {"none", "done"}

PauseInv ==
    /\ wpc = "pause" => /\ ~paused /\ mpc \in {"ready", "waiting"}
                        /\ ~polled => mpc = "waiting" /\ goal = "PAUSED"
    /\ wpc = "callback" => ~paused
    /\ wpc \in {"test", "resume"} /\ paused => status = "PAUSED"
    /\ wpc = "resume" => paused

IInv == TypeOK /\ PausedInv /\ HeldInv /\ GoalInv /\ StopInv /\ PauseInv

\* A fresh task is in the invariant.
LEMMA InitIInv == Init => IInv
BY DEF Init, IInv, TypeOK, Actions, Statuses, PausedInv, HeldInv, GoalInv, StopInv, PauseInv

\* The worker keeps the invariant.
LEMMA WorkerIInv == IInv /\ Worker => IInv'
<1> SUFFICES ASSUME IInv, Worker PROVE IInv'
  OBVIOUS
<1> USE DEF IInv, TypeOK, Actions, Statuses, PausedInv, HeldInv, GoalInv, StopInv, PauseInv, ctrl
<1>1. CASE WorkerStart
  BY <1>1 DEF WorkerStart
<1>2. CASE WorkerTest
  BY <1>2 DEF WorkerTest
<1>3. CASE WorkerPause
  BY <1>3 DEF WorkerPause
<1>4. CASE WorkerResume
  BY <1>4 DEF WorkerResume
<1>5. CASE CallbackReturn
  BY <1>5 DEF CallbackReturn
<1>6. CASE WorkerExit
  BY <1>6 DEF WorkerExit
<1> QED BY <1>1, <1>2, <1>3, <1>4, <1>5, <1>6 DEF Worker

\* So does the controlling thread.
LEMMA ControllerIInv == IInv /\ Controller => IInv'
<1> SUFFICES ASSUME IInv, Controller PROVE IInv'
  OBVIOUS
<1> USE DEF IInv, TypeOK, Actions, Statuses, PausedInv, HeldInv, GoalInv, StopInv, PauseInv
<1>1. CASE XTask_Start
  BY <1>1 DEF XTask_Start, Idle
<1>2. CASE StartReturn
  BY <1>2 DEF StartReturn
<1>3. CASE XTask_Hold
  BY <1>3 DEF XTask_Hold, Command
<1>4. CASE XTask_Release
  BY <1>4 DEF XTask_Release, Command
<1>5. CASE XTask_Stop
  BY <1>5 DEF XTask_Stop, Command
<1>6. CASE WaitReturn
  BY <1>6 DEF WaitReturn
<1>7. CASE WaitSpin
  BY <1>7 DEF WaitSpin, vars
<1> QED BY <1>1, <1>2, <1>3, <1>4, <1>5, <1>6, <1>7 DEF Controller

\* IInv is an invariant of the task.
THEOREM Invariance == Spec => []IInv
<1>1. IInv /\ UNCHANGED vars => IInv'
  BY DEF vars, IInv, TypeOK, PausedInv, HeldInv, GoalInv, StopInv, PauseInv
<1>2. IInv /\ [Next]_vars => IInv'
  BY <1>1, WorkerIInv, ControllerIInv DEF Next
<1> QED BY InitIInv, <1>2, PTL DEF Spec

\* The atomics and the threads' positions keep their types.
THEOREM TypeCorrect == Spec => []TypeOK
<1>1. IInv => TypeOK
  BY DEF IInv
<1> QED BY Invariance, <1>1, PTL

\* After XTask_Hold the callback rests, if every call of the run waited.
THEOREM HoldSafety == Spec => []HoldQuiets
<1>1. IInv => HoldQuiets
  BY DEF IInv, TypeOK, HeldInv, PausedInv, HoldQuiets
<1> QED BY Invariance, <1>1, PTL

\* After XTask_Stop the worker is gone.
THEOREM StopSafety == Spec => []StopQuiets
<1>1. IInv => StopQuiets
  BY DEF IInv, StopInv, StopQuiets, Idle
<1> QED BY Invariance, <1>1, PTL

-----------------------------------------------------------------------------
(* Temperatures                                                            *)

\* A nonempty set of naturals has a least element, which Min chooses.
LEMMA MinLeast ==
    ASSUME NEW T \in SUBSET Nat, T # {}
    PROVE  Min(T) \in T /\ \A y \in T : Min(T) <= y
<1> DEFINE L == OpToRel(<, Nat)
<1>1. IsWellFoundedOn(L, Nat) BY NatLessThanWellFounded
<1>2. \A x, y \in Nat : y < x => <<y, x>> \in L BY DEF OpToRel
<1> HIDE DEF L
<1>3. PICK x \in T : \A y \in T : ~(<<y, x>> \in L) BY <1>1, WFMin
<1>4. \A y \in T : x <= y
  <2> TAKE y \in T
  <2>1. x \in Nat /\ y \in Nat OBVIOUS
  <2>2. ~(y < x) BY <1>2, <1>3, <2>1
  <2> QED BY <2>1, <2>2
<1> QED BY <1>4 DEF Min

\* t is a temperature out of V, or 0 if V has none.
Picks(t, V) == V \subseteq Nat \ {0} /\ (IF V = {} THEN t = 0 ELSE t \in V)

\* The first temperature above 0 of a list whose entries are such picks.
LEMMA FirstPicks ==
    ASSUME NEW n \in Nat, NEW temps, DOMAIN temps = 1..n, Len(temps) = n, NEW V,
           \A i \in 1..n : Picks(temps[i], V[i])
    PROVE  Picks(FirstOf(temps), UNION {V[i] : i \in 1..n})
<1> DEFINE hot == {i \in 1..n : temps[i] > 0}
<1>0. \A i \in 1..n : temps[i] \in Nat /\ (temps[i] = 0 => V[i] = {}) /\ (temps[i] > 0 => temps[i] \in V[i])
  BY DEF Picks
<1>1. UNION {V[i] : i \in 1..n} \subseteq Nat \ {0}
  BY DEF Picks
<1>2. CASE hot = {}
  <2>1. \A i \in 1..n : V[i] = {} BY <1>2, <1>0
  <2>2. UNION {V[i] : i \in 1..n} = {} BY <2>1
  <2>3. FirstOf(temps) = 0 BY <1>2 DEF FirstOf
  <2> QED BY <2>2, <2>3 DEF Picks
<1>3. CASE hot # {}
  <2>1. hot \in SUBSET Nat OBVIOUS
  <2>2. Min(hot) \in hot BY <2>1, <1>3, MinLeast
  <2>3. FirstOf(temps) = temps[Min(hot)] BY <1>3 DEF FirstOf
  <2>4. Min(hot) \in 1..n /\ temps[Min(hot)] > 0 BY <2>2
  <2> HIDE DEF hot
  <2>5. temps[Min(hot)] \in UNION {V[i] : i \in 1..n} BY <2>4, <1>0
  <2> QED BY <2>3, <2>5, <1>1 DEF Picks
<1> QED BY <1>2, <1>3

\* What DevicesAssumption says of one device.
Sensors == [index : Nat, words : SUBSET STRING, core : Int, value : Int]
IsDevice(dev) ==
    /\ dev.sensors \in Seq(Sensors)
    /\ \A i, j \in 1..Len(dev.sensors) : dev.sensors[i].index = dev.sensors[j].index => i = j

\* Every device of a list is one.
LEMMA DeviceTypes ==
    ASSUME NEW hw \in Devices
    PROVE  DOMAIN hw = 1..Len(hw) /\ Len(hw) \in Nat /\ \A d \in 1..Len(hw) : IsDevice(hw[d])
<1> DEFINE T == [isCPU : BOOLEAN, sensors : Seq(Sensors)]
<1>1. hw \in Seq(T) BY DevicesAssumption, Zenon DEF Sensors
<1>2. \A x \in T : x.sensors \in Seq(Sensors) BY Zenon
<1>3. \A d \in 1..Len(hw) : \A i, j \in 1..Len(hw[d].sensors) :
          hw[d].sensors[i].index = hw[d].sensors[j].index => i = j
  BY DevicesAssumption, Zenon
<1> HIDE DEF T
<1>4. DOMAIN hw = 1..Len(hw) /\ Len(hw) \in Nat /\ \A d \in 1..Len(hw) : hw[d] \in T BY <1>1
<1>5. \A d \in 1..Len(hw) : hw[d].sensors \in Seq(Sensors) BY <1>2, <1>4
<1> QED BY <1>3, <1>4, <1>5, Zenon DEF IsDevice

\* The temperature of a sensor, if it works.
Value(sensor) == IF sensor.value > 0 THEN {sensor.value} ELSE {}

\* A sensor's own file is the one that is read.
LEMMA InputPicks ==
    ASSUME NEW dev, IsDevice(dev), NEW i \in 1..Len(dev.sensors)
    PROVE  Picks(TempInput(dev, dev.sensors[i].index), Value(dev.sensors[i]))
<1> DEFINE hits == {j \in 1..Len(dev.sensors) : dev.sensors[j].index = dev.sensors[i].index}
           v == dev.sensors[i].value
<1>0. dev.sensors[i] \in Sensors BY DEF IsDevice
<1>1. v \in Int BY <1>0 DEF Sensors
<1>2. hits = {i} BY DEF IsDevice
<1>3. Min(hits) = i BY <1>2 DEF Min
<1>4. TempInput(dev, dev.sensors[i].index) = Max({0, v}) BY <1>2, <1>3 DEF TempInput
<1> HIDE DEF v, hits
<1>5. Max({0, v}) = IF v > 0 THEN v ELSE 0 BY <1>1 DEF Max
<1>6. Value(dev.sensors[i]) = IF v > 0 THEN {v} ELSE {} BY DEF Value, v
<1> QED BY <1>1, <1>4, <1>5, <1>6 DEF Picks

\* The temperatures of a device for a core, and for a label.
OfCoreIn(dev, core) == {s.value : s \in {s \in ToSet(dev.sensors) : s.value > 0 /\ s.core = core}}
WithLabelIn(dev, label) == {s.value : s \in {s \in ToSet(dev.sensors) : s.value > 0 /\ label \in s.words}}

\* The core's temperature of a device is that of one of its sensors for the core.
LEMMA CorePicks ==
    ASSUME NEW dev, IsDevice(dev), NEW core
    PROVE  Picks(XMon_ReadHWMONCoreTemp(dev, core), OfCoreIn(dev, core))
<1> DEFINE n == Len(dev.sensors)
           temps == [i \in 1..n |-> IF dev.sensors[i].core = core THEN TempInput(dev, dev.sensors[i].index) ELSE 0]
           V == [i \in 1..n |-> IF dev.sensors[i].core = core THEN Value(dev.sensors[i]) ELSE {}]
<1>1. n \in Nat /\ DOMAIN dev.sensors = 1..n BY DEF IsDevice
<1>2. \A i \in 1..n : Picks(temps[i], V[i])
  <2> TAKE i \in 1..n
  <2>1. Picks(TempInput(dev, dev.sensors[i].index), Value(dev.sensors[i])) BY InputPicks
  <2>2. Picks(0, {}) BY DEF Picks
  <2> QED BY <2>1, <2>2
<1>3. DOMAIN temps = 1..n /\ Len(temps) = n BY <1>1
<1>4. XMon_ReadHWMONCoreTemp(dev, core) = FirstOf(temps) BY DEF XMon_ReadHWMONCoreTemp
<1>5. UNION {V[i] : i \in 1..n} = OfCoreIn(dev, core) BY <1>1 DEF OfCoreIn, Value, ToSet
<1> HIDE DEF temps, V, n
<1> QED BY <1>1, <1>2, <1>3, <1>4, <1>5, FirstPicks

\* The same for a label.
LEMMA LabelPicks ==
    ASSUME NEW dev, IsDevice(dev), NEW label
    PROVE  Picks(XMon_ReadHWMONTempLabel(dev, label), WithLabelIn(dev, label))
<1> DEFINE n == Len(dev.sensors)
           temps == [i \in 1..n |-> IF label \in dev.sensors[i].words THEN TempInput(dev, dev.sensors[i].index) ELSE 0]
           V == [i \in 1..n |-> IF label \in dev.sensors[i].words THEN Value(dev.sensors[i]) ELSE {}]
<1>1. n \in Nat /\ DOMAIN dev.sensors = 1..n BY DEF IsDevice
<1>2. \A i \in 1..n : Picks(temps[i], V[i])
  <2> TAKE i \in 1..n
  <2>1. Picks(TempInput(dev, dev.sensors[i].index), Value(dev.sensors[i])) BY InputPicks
  <2>2. Picks(0, {}) BY DEF Picks
  <2> QED BY <2>1, <2>2
<1>3. DOMAIN temps = 1..n /\ Len(temps) = n BY <1>1
<1>4. XMon_ReadHWMONTempLabel(dev, label) = FirstOf(temps) BY DEF XMon_ReadHWMONTempLabel
<1>5. UNION {V[i] : i \in 1..n} = WithLabelIn(dev, label) BY <1>1 DEF WithLabelIn, Value, ToSet
<1> HIDE DEF temps, V, n
<1> QED BY <1>1, <1>2, <1>3, <1>4, <1>5, FirstPicks

\* The same over all devices.
OfCoreAll(hw, core) == UNION {OfCoreIn(hw[d], core) : d \in 1..Len(hw)}
WithLabelAll(hw, label) == UNION {WithLabelIn(hw[d], label) : d \in 1..Len(hw)}

\* The first device that knows a core's temperature gives one of all its sensors'.
LEMMA CoreTempPicks ==
    ASSUME NEW hw \in Devices, NEW core
    PROVE  Picks(XMon_ReadCPUCoreTemp(hw, core), OfCoreAll(hw, core))
<1> DEFINE n == Len(hw)
           temps == [d \in 1..n |-> XMon_ReadHWMONCoreTemp(hw[d], core)]
           V == [d \in 1..n |-> OfCoreIn(hw[d], core)]
<1>1. n \in Nat /\ \A d \in 1..n : IsDevice(hw[d]) BY DeviceTypes
<1>2. \A d \in 1..n : Picks(temps[d], V[d]) BY <1>1, CorePicks
<1>3. DOMAIN temps = 1..n /\ Len(temps) = n BY <1>1
<1>4. XMon_ReadCPUCoreTemp(hw, core) = FirstOf(temps) BY DEF XMon_ReadCPUCoreTemp
<1>5. UNION {V[d] : d \in 1..n} = OfCoreAll(hw, core) BY DEF OfCoreAll
<1> HIDE DEF temps, V, n
<1> QED BY <1>1, <1>2, <1>3, <1>4, <1>5, FirstPicks

\* The same for a label.
LEMMA LabelTempPicks ==
    ASSUME NEW hw \in Devices, NEW label
    PROVE  Picks(XMon_ReadCPUTempByLabel(hw, label), WithLabelAll(hw, label))
<1> DEFINE n == Len(hw)
           temps == [d \in 1..n |-> XMon_ReadHWMONTempLabel(hw[d], label)]
           V == [d \in 1..n |-> WithLabelIn(hw[d], label)]
<1>1. n \in Nat /\ \A d \in 1..n : IsDevice(hw[d]) BY DeviceTypes
<1>2. \A d \in 1..n : Picks(temps[d], V[d]) BY <1>1, LabelPicks
<1>3. DOMAIN temps = 1..n /\ Len(temps) = n BY <1>1
<1>4. XMon_ReadCPUTempByLabel(hw, label) = FirstOf(temps) BY DEF XMon_ReadCPUTempByLabel
<1>5. UNION {V[d] : d \in 1..n} = WithLabelAll(hw, label) BY DEF WithLabelAll
<1> HIDE DEF temps, V, n
<1> QED BY <1>1, <1>2, <1>3, <1>4, <1>5, FirstPicks

\* The package has the temperature of the first label that a working sensor has.
LEMMA PackagePicks ==
    ASSUME NEW hw \in Devices, NEW l \in 1..4, WithLabelAll(hw, PackageLabels[l]) # {},
           \A k \in 1..(l - 1) : WithLabelAll(hw, PackageLabels[k]) = {}
    PROVE  XMon_ReadCPUPackageTemp(hw) \in WithLabelAll(hw, PackageLabels[l])
<1> DEFINE temps == [k \in 1..Len(PackageLabels) |-> XMon_ReadCPUTempByLabel(hw, PackageLabels[k])]
                        \o <<XMon_ReadCPUTempByName(hw)>>
           hot == {k \in 1..Len(temps) : temps[k] > 0}
<1>0. Len(PackageLabels) = 4 BY DEF PackageLabels
<1>1. Len(temps) = 5 /\ \A k \in 1..4 : temps[k] = XMon_ReadCPUTempByLabel(hw, PackageLabels[k])
  BY <1>0
<1>2. XMon_ReadCPUPackageTemp(hw) = FirstOf(temps) BY DEF XMon_ReadCPUPackageTemp
<1> HIDE DEF temps
<1>3. \A k \in 1..4 : Picks(temps[k], WithLabelAll(hw, PackageLabels[k])) BY <1>1, LabelTempPicks
<1>4. temps[l] \in WithLabelAll(hw, PackageLabels[l]) /\ temps[l] \in Nat \ {0} BY <1>3 DEF Picks
<1>5. \A k \in 1..(l - 1) : temps[k] = 0 BY <1>3 DEF Picks
<1>6. l \in hot /\ hot \in SUBSET Nat BY <1>1, <1>4
<1>7. Min(hot) \in hot /\ Min(hot) <= l BY <1>6, MinLeast
<1>8. Min(hot) = l
  <2>1. Min(hot) \in 1..5 /\ temps[Min(hot)] > 0 BY <1>1, <1>7
  <2> HIDE DEF hot
  <2> QED BY <2>1, <1>7, <1>5
<1>9. FirstOf(temps) = temps[Min(hot)] BY <1>6 DEF FirstOf
<1> HIDE DEF hot
<1> QED BY <1>2, <1>4, <1>8, <1>9

\* These are the sets that TemperatureRight is about.
LEMMA SensorSets ==
    ASSUME NEW hw \in Devices
    PROVE  LET all == UNION {ToSet(hw[d].sensors) : d \in 1..Len(hw)}
               working == {s \in all : s.value > 0}
               OfCore(c) == {s.value : s \in {s \in working : s.core = c}}
               Labelled(l) == {s.value : s \in {s \in working : PackageLabels[l] \in s.words}} IN
           /\ \A c \in Int : OfCore(c) = OfCoreAll(hw, c)
           /\ \A l \in 1..4 : Labelled(l) = WithLabelAll(hw, PackageLabels[l])
<1>1. \A c \in Int : {s.value : s \in {s \in {s \in UNION {ToSet(hw[d].sensors) : d \in 1..Len(hw)} : s.value > 0} : s.core = c}}
                       = OfCoreAll(hw, c)
  BY DEF OfCoreAll, OfCoreIn
<1>2. \A l \in 1..4 : {s.value : s \in {s \in {s \in UNION {ToSet(hw[d].sensors) : d \in 1..Len(hw)} : s.value > 0} :
                                        PackageLabels[l] \in s.words}} = WithLabelAll(hw, PackageLabels[l])
  BY DEF WithLabelAll, WithLabelIn
<1> QED BY <1>1, <1>2

\* The look-up of temperatures is right for any list of devices.
LEMMA TemperaturesRight == TemperatureRight
<1> SUFFICES ASSUME NEW hw \in Devices
             PROVE  LET all == UNION {ToSet(hw[d].sensors) : d \in 1..Len(hw)}
                        working == {s \in all : s.value > 0}
                        OfCore(c) == {s.value : s \in {s \in working : s.core = c}}
                        Labelled(l) == {s.value : s \in {s \in working : PackageLabels[l] \in s.words}} IN
                    /\ \A id \in DOMAIN CoreOf :
                          LET own == OfCore(CoreOf[id])
                          IN  XMon_ReadCPUTemperature(hw, id) \in IF own = {} THEN {0} ELSE own
                    /\ \A l \in 1..Len(PackageLabels) :
                          Labelled(l) # {} /\ (\A k \in 1..(l - 1) : Labelled(k) = {})
                              => XMon_ReadCPUTemperature(hw, -1) \in Labelled(l)
  BY Zenon DEF TemperatureRight
<1> DEFINE all == UNION {ToSet(hw[d].sensors) : d \in 1..Len(hw)}
           working == {s \in all : s.value > 0}
           OfCore(c) == {s.value : s \in {s \in working : s.core = c}}
           Labelled(l) == {s.value : s \in {s \in working : PackageLabels[l] \in s.words}}
<1>1. (\A c \in Int : OfCore(c) = OfCoreAll(hw, c)) /\ (\A l \in 1..4 : Labelled(l) = WithLabelAll(hw, PackageLabels[l]))
  BY SensorSets
<1> HIDE DEF all, working, OfCore, Labelled
<1>2. ASSUME NEW id \in DOMAIN CoreOf
      PROVE  XMon_ReadCPUTemperature(hw, id) \in IF OfCore(CoreOf[id]) = {} THEN {0} ELSE OfCore(CoreOf[id])
  <2>1. id \in Nat /\ CoreOf[id] \in Int BY MonAssumption
  <2>2. XMon_ReadCPUTemperature(hw, id) = XMon_ReadCPUCoreTemp(hw, CoreOf[id])
    BY <2>1 DEF XMon_ReadCPUTemperature
  <2> QED BY <2>1, <2>2, <1>1, CoreTempPicks DEF Picks
<1>3. Len(PackageLabels) = 4 BY DEF PackageLabels
<1>4. ASSUME NEW l \in 1..4, Labelled(l) # {}, \A k \in 1..(l - 1) : Labelled(k) = {}
      PROVE  XMon_ReadCPUTemperature(hw, -1) \in Labelled(l)
  <2>1. \A k \in 1..(l - 1) : WithLabelAll(hw, PackageLabels[k]) = {} BY <1>1, <1>4
  <2>2. XMon_ReadCPUTemperature(hw, -1) = XMon_ReadCPUPackageTemp(hw) BY DEF XMon_ReadCPUTemperature
  <2> QED BY <2>1, <2>2, <1>1, <1>4, PackagePicks
<1> USE DEF all, working, OfCore, Labelled
<1> QED BY <1>2, <1>3, <1>4, Zenon

-----------------------------------------------------------------------------
(* The invariant                                                           *)

\* What a CPU's figures can be.
Temps == {0} \cup {XMon_ReadCPUTemperature(Hwmon, id) : id \in -1..(CpuLines - 1)}
Infos == [raw : Nat, pct : Nat, temp : Temps]
\* An interface in the list.
IfaceSet == [name : Ifaces, bytes : Nat, rate : Nat, active : BOOLEAN]
\* Where the update is after the CPUs, after the first file of memory and after the second.
AfterCount == {"proc", "mem", "status", "net", "lock", "scan", "done", "end"}
AfterMem == {"status", "net", "lock", "scan", "done", "end"}
AfterStatus == {"net", "lock", "scan", "done", "end"}
\* The positions of worker and reader.
UpdPcs == {"stat", "line", "raw", "count"} \cup AfterCount
ReadPcs == {"idle", "resident", "total", "count", "usage", "raw", "pct", "ifaces", "wait", "result"}

\* The types of what the kernel tells, the update, the statistics and the reader.
SysType ==
    /\ sys = [tick |-> sys.tick, changes |-> sys.changes, net |-> sys.net, broken |-> sys.broken]
    /\ sys.tick \in Nat /\ sys.net \in [Ifaces -> Int]
UpdType == upd \in [pc : UpdPcs, at : Nat, id : Int, count : Nat, left : SUBSET Ifaces]
StType ==
    /\ st = [life |-> st.life, count |-> st.count, cores |-> st.cores, sum |-> st.sum, usage |-> st.usage,
             memTotal |-> st.memTotal, resident |-> st.resident, ifaces |-> st.ifaces, lock |-> st.lock,
             loaded |-> st.loaded, crashed |-> st.crashed]
    /\ st.count \in Nat /\ st.cores \in Seq(Infos) /\ st.sum \in Infos /\ st.usage \in Nat
    /\ st.memTotal \in Nat /\ st.resident \in Nat /\ st.ifaces \in Seq(IfaceSet)
RdType ==
    /\ rd = [pc |-> rd.pc, call |-> rd.call, got |-> rd.got, usage |-> rd.usage, count |-> rd.count, ret |-> rd.ret]
    /\ rd.pc \in ReadPcs /\ rd.usage \in Nat /\ rd.count \in Nat

\* The update rests outside of the callback; who uses the statistics finds them.
LifeInv ==
    /\ client = "monitor" /\ wpc # "callback" => upd = NoUpdate
    /\ client = "monitor" /\ ~Idle => st.life = "ready"
    /\ rd.pc # "idle" => st.life = "ready"
    /\ waited /\ st.life = "ready" => st.loaded

\* The list of CPUs is complete when its number is published, and grows by a line before.
CoreInv ==
    /\ ~st.crashed
    /\ st.count \in {0, CpuLines}
    /\ st.count # 0 => Len(st.cores) = st.count
    /\ st.count = 0 => Len(st.cores) = CASE upd.pc = "count" -> CpuLines
                                         [] upd.pc = "line" /\ upd.id >= 0 -> upd.id
                                         [] OTHER -> 0
    /\ upd.pc \in {"line", "raw", "count"} => upd.count = st.count /\ upd.id \in -1..CpuLines
    /\ upd.pc = "raw" => upd.id < CpuLines /\ (upd.id = -1 \/ st.count # 0)

\* Figures of a CPU at a time: percentages, where there are any, are no older than the counters.
InfoOK(info, now) == info.raw <= now /\ (info.pct # 0 => info.raw <= info.pct)
\* No figure is newer than what was read last, and the percentages of the line being stored are from there.
TimeInv ==
    /\ st.usage <= st.sum.raw /\ upd.at <= sys.tick
    /\ InfoOK(st.sum, sys.tick)
    /\ \A i \in 1..Len(st.cores) : InfoOK(st.cores[i], sys.tick)
    /\ upd.pc \in {"line", "raw"} => /\ st.sum.raw <= upd.at
                                     /\ \A i \in 1..Len(st.cores) : st.cores[i].raw <= upd.at
    /\ upd.pc = "raw" => IF upd.id < 0 THEN st.sum.pct = upd.at ELSE st.cores[upd.id + 1].pct = upd.at

\* What has been stored by now if every file can be read.
LoadInv ==
    sys.broken = {} =>
        /\ upd.pc \in AfterCount \/ st.loaded => st.count > 0
        /\ upd.pc \in AfterMem \/ st.loaded => st.memTotal > 0
        /\ upd.pc \in AfterStatus \/ st.loaded => st.resident > 0

\* The interfaces, which the worker changes under the lock only.
IfaceInv == IfacesRight /\ (upd.pc = "scan" => st.lock = "worker")

\* Which call the reader is in.
CallInv ==
    /\ rd.pc \in {"resident", "total"} => rd.call = "resident"
    /\ rd.pc \in {"count", "usage", "raw", "pct"} => rd.call = "count"
    /\ rd.pc = "ifaces" => rd.call = "ifaces"
    /\ rd.pc = "wait" => rd.call = "wait"

\* What a snapshot of the CPUs has copied, at most n of them.
Copied(n) ==
    /\ rd.got \in Seq(Infos) /\ Len(rd.got) <= n
    /\ \A i \in 1..Len(rd.got) : rd.got[i].pct # 0 => rd.got[i].raw <= rd.got[i].pct
    /\ rd.got # << >> => rd.usage <= rd.got[1].raw
\* The list stands still while it is copied, and the sum that is copied is no older than the usage.
CopyInv ==
    /\ rd.pc \in {"usage", "raw", "pct"} => rd.count = st.count /\ st.count > 0
    /\ rd.pc \in {"count", "usage"} => rd.got = << >>
    /\ rd.pc \in {"raw", "pct"} => Copied(rd.count + 1) /\ rd.usage <= st.sum.raw
    /\ rd.pc = "pct" => /\ rd.got # << >>
                        /\ rd.got[Len(rd.got)].raw <= Info(Len(rd.got) - 1).raw
\* What a call returns.
SnapInv ==
    /\ rd.pc = "result" /\ rd.call = "count" /\ rd.ret > 0 => Copied(rd.count + 1) /\ Len(rd.got) = rd.count + 1
    /\ rd.pc = "resident" => rd.got = << >>
    /\ waited /\ sys.broken = {} =>
          /\ rd.pc = "total" => rd.got[1] > 0
          /\ rd.pc = "result" /\ rd.call = "resident" => rd.got[1] > 0 /\ rd.ret > 0
          /\ rd.pc = "result" /\ rd.call = "count" => rd.ret # 0

\* Task, statistics and reader.
TaskInv == IInv
StInv == StType /\ CoreInv /\ TimeInv /\ LoadInv /\ IfaceInv
RdInv == RdType /\ CallInv /\ CopyInv /\ SnapInv
MonInv == TaskInv /\ SysType /\ UpdType /\ StInv /\ LifeInv /\ RdInv

-----------------------------------------------------------------------------
(* The reader, while the worker goes on                                    *)

\* What the worker's steps and the kernel's do to what a snapshot depends on.
Grows ==
    /\ UNCHANGED <<rd, waited>> /\ sys'.broken = sys.broken
    /\ st.count > 0 => st'.count = st.count
    /\ st.sum.raw <= st'.sum.raw
    /\ st.count > 0 => /\ Len(st'.cores) = Len(st.cores)
                       /\ \A i \in 1..Len(st.cores) : st.cores[i].raw <= st'.cores[i].raw

\* So what a snapshot has copied so far stays right.
LEMMA ReaderKept ==
    ASSUME MonInv, Grows, StType'
    PROVE  RdInv'
<1> USE DEF Grows
<1>1. RdType' BY DEF MonInv, RdInv, RdType
<1>2. CallInv' BY DEF MonInv, RdInv, CallInv
<1>3. \A n : Copied(n)' <=> Copied(n) BY DEF Copied
<1>4. CopyInv'
  <2>1. rd.pc \in {"usage", "raw", "pct"} => rd.count = st'.count /\ st'.count > 0
    BY DEF MonInv, RdInv, CopyInv
  <2>2. rd.pc \in {"raw", "pct"} => Copied(rd.count + 1) /\ rd.usage <= st'.sum.raw
    <3>1. st.sum.raw \in Int /\ st'.sum.raw \in Int /\ rd.usage \in Int
      BY DEF MonInv, StInv, StType, RdInv, RdType, Infos
    <3>2. rd.pc \in {"raw", "pct"} => Copied(rd.count + 1) /\ rd.usage <= st.sum.raw
      BY DEF MonInv, RdInv, CopyInv
    <3> QED BY <3>1, <3>2
  <2>3. ASSUME rd.pc = "pct"
        PROVE  rd.got # << >> /\ rd.got[Len(rd.got)].raw <= Info(Len(rd.got) - 1)'.raw
    <3> DEFINE n == Len(rd.got)
    <3>1. rd.got # << >> /\ rd.got \in Seq(Infos) /\ n <= st.count + 1 /\ st.count > 0
      BY <2>3 DEF MonInv, RdInv, CopyInv, Copied
    <3>2. n \in Nat /\ n >= 1 /\ rd.got[n] \in Infos BY <3>1
    <3>3. rd.got[n].raw <= Info(n - 1).raw BY <2>3 DEF MonInv, RdInv, CopyInv
    <3>4. Len(st.cores) = st.count BY <3>1 DEF MonInv, StInv, CoreInv
    <3> HIDE DEF n
    <3>5. CASE n = 1
      <4>1. rd.got[n].raw <= st.sum.raw BY <3>3, <3>5 DEF Info
      <4>2. rd.got[n].raw \in Nat /\ st.sum.raw \in Nat /\ st'.sum.raw \in Nat
        BY <3>2 DEF MonInv, StInv, StType, Infos
      <4>3. rd.got[n].raw <= st'.sum.raw BY <4>1, <4>2
      <4>4. Info(n - 1)' = st'.sum BY <3>5 DEF Info, n
      <4> QED BY <3>1, <4>3, <4>4 DEF n
    <3>6. CASE n > 1
      <4>1. n - 1 \in 1..Len(st.cores) BY <3>1, <3>2, <3>4, <3>6 DEF n, MonInv, StInv, StType
      <4>2. st.cores[n - 1] \in Infos BY <4>1 DEF MonInv, StInv, StType
      <4>3. n - 1 # 0 BY <3>2, <3>6
      <4>4. rd.got[n].raw <= st.cores[n - 1].raw BY <3>3, <4>3 DEF Info
      <4>5. st.cores[n - 1].raw <= st'.cores[n - 1].raw BY <4>1, <3>1
      <4>6. st'.cores[n - 1] \in Infos BY <4>1, <3>1 DEF StType
      <4> DEFINE a == rd.got[n].raw
                 b == st.cores[n - 1].raw
                 c == st'.cores[n - 1].raw
      <4>7. a <= c
        <5>1. a \in Nat /\ b \in Nat /\ c \in Nat BY <3>2, <4>2, <4>6 DEF Infos
        <5>2. a <= b /\ b <= c BY <4>4, <4>5
        <5> HIDE DEF a, b, c
        <5> QED BY <5>1, <5>2
      <4>8. Info(n - 1)' = st'.cores[n - 1] BY <4>3 DEF Info, n
      <4> QED BY <3>1, <4>7, <4>8 DEF n
    <3> QED BY <3>2, <3>5, <3>6
  <2> QED BY <2>1, <2>2, <2>3, <1>3 DEF CopyInv, MonInv, RdInv
<1>5. SnapInv' BY <1>3 DEF MonInv, RdInv, SnapInv
<1> QED BY <1>1, <1>2, <1>4, <1>5 DEF RdInv

-----------------------------------------------------------------------------
(* The worker in XMon_UpdateStats                                          *)

\* What each of its steps keeps.
Kept == UpdType' /\ StInv' /\ Grows /\ st'.life = st.life /\ (st.loaded => st'.loaded)

InUpdate == client = "monitor" /\ wpc = "callback" /\ UNCHANGED <<vars, client, sys, rd, waited>>

\* With these facts a step of the update keeps the invariant.
LEMMA UpdateKept ==
    ASSUME MonInv, InUpdate, Kept
    PROVE  MonInv'
<1>1. TaskInv' BY DEF InUpdate, vars, MonInv, TaskInv, IInv, TypeOK, PausedInv, HeldInv, GoalInv, StopInv, PauseInv
<1>2. SysType' BY DEF InUpdate, MonInv, SysType
<1>3. LifeInv' BY DEF InUpdate, vars, Kept, MonInv, LifeInv, Idle
<1>4. RdInv' BY ReaderKept DEF Kept, StInv
<1> QED BY <1>1, <1>2, <1>3, <1>4 DEF Kept, MonInv

\* The interfaces are left alone.
LEMMA IfacesKept ==
    ASSUME IfaceInv, st'.ifaces = st.ifaces, st'.lock = st.lock, upd'.pc # "scan"
    PROVE  IfaceInv'
BY DEF IfaceInv, IfacesRight

\* A step that leaves the CPUs alone.
LEMMA CpusKept ==
    ASSUME MonInv, InUpdate, st'.count = st.count, st'.cores = st.cores, st'.sum = st.sum
    PROVE  Grows
<1>1. \A i \in 1..Len(st.cores) : st.cores[i].raw \in Nat
  <2> TAKE i \in 1..Len(st.cores)
  <2>1. st.cores[i] \in Infos BY DEF MonInv, StInv, StType
  <2> QED BY <2>1 DEF Infos
<1>2. st.sum.raw \in Nat BY DEF MonInv, StInv, StType, Infos
<1> QED BY <1>1, <1>2 DEF Grows, InUpdate

\* /proc/stat is read, or cannot be.
LEMMA StatKept == ASSUME MonInv, InUpdate, UpdateStat PROVE Kept
<1> USE DEF MonInv, StInv, InUpdate
<1>1. upd.pc = "stat" BY DEF UpdateStat, Updating
<1>2. CASE upd' = [upd EXCEPT !.pc = "line", !.at = sys.tick, !.id = -1, !.count = st.count] /\ UNCHANGED st
  <2>1. upd'.pc = "line" /\ upd'.at = sys.tick /\ upd'.id = -1 /\ upd'.count = st.count
    BY <1>2 DEF UpdType
  <2>0. sys.tick \in Nat /\ st.count \in Nat BY DEF SysType, StType
  <2>2. UpdType'
    <3>1. upd' = [pc |-> "line", at |-> sys.tick, id |-> -1, count |-> st.count, left |-> upd.left]
      BY <1>2 DEF UpdType
    <3>2. upd.left \in SUBSET Ifaces /\ "line" \in UpdPcs BY DEF UpdType, UpdPcs
    <3> QED BY <3>1, <3>2, <2>0 DEF UpdType
  <2>3. StType' BY <1>2 DEF StType
  <2>4. CoreInv' BY <1>1, <1>2, <2>1, MonAssumption DEF CoreInv
  <2>5. TimeInv' BY <1>2, <2>1 DEF TimeInv, InfoOK, SysType
  <2>6. LoadInv' BY <1>1, <1>2, <2>1 DEF LoadInv, AfterCount, AfterMem, AfterStatus
  <2>7. IfaceInv' BY <1>2, <2>1, IfacesKept
  <2>8. Grows BY <1>2, CpusKept
  <2> QED BY <1>2, <2>2, <2>3, <2>4, <2>5, <2>6, <2>7, <2>8 DEF Kept
<1>3. CASE GivesUp("stat", "mem")
  <2>1. upd' = [upd EXCEPT !.pc = "mem"] /\ st' = st /\ sys.broken # {} BY <1>3 DEF GivesUp, Stores
  <2>2. upd'.pc = "mem" /\ upd'.at = upd.at BY <2>1 DEF UpdType
  <2>3. UpdType' BY <2>1 DEF UpdType, UpdPcs, AfterCount
  <2>4. StType' BY <2>1 DEF StType
  <2>5. CoreInv' BY <1>1, <2>1, <2>2 DEF CoreInv
  <2>6. TimeInv' BY <2>1, <2>2 DEF TimeInv
  <2>7. LoadInv' BY <2>1 DEF LoadInv
  <2>8. IfaceInv' BY <2>1, <2>2, IfacesKept
  <2>9. Grows BY <2>1, CpusKept
  <2> QED BY <2>1, <2>3, <2>4, <2>5, <2>6, <2>7, <2>8, <2>9 DEF Kept
<1> QED BY <1>2, <1>3 DEF UpdateStat

\* A step of upd that only goes on.
LEMMA GoesOn ==
    ASSUME UpdType, NEW p \in UpdPcs, upd' = [upd EXCEPT !.pc = p]
    PROVE  UpdType' /\ upd'.pc = p /\ upd'.at = upd.at /\ upd'.id = upd.id /\ upd'.count = upd.count /\ upd'.left = upd.left
BY DEF UpdType

\* The same for the next line of /proc/stat.
LEMMA NextLine ==
    ASSUME UpdType, upd' = [upd EXCEPT !.pc = "line", !.id = @ + 1]
    PROVE  UpdType' /\ upd'.pc = "line" /\ upd'.at = upd.at /\ upd'.id = upd.id + 1 /\ upd'.count = upd.count
<1>1. upd' = [pc |-> "line", at |-> upd.at, id |-> upd.id + 1, count |-> upd.count, left |-> upd.left]
  BY DEF UpdType
<1>2. upd.at \in Nat /\ upd.id + 1 \in Int /\ upd.count \in Nat /\ upd.left \in SUBSET Ifaces /\ "line" \in UpdPcs
  BY DEF UpdType, UpdPcs
<1> QED BY <1>1, <1>2 DEF UpdType

\* The figures that a line can store.
LEMMA StoredInfos ==
    ASSUME NEW info \in Infos, NEW at \in Nat, NEW id \in -1..(CpuLines - 1)
    PROVE  /\ [raw |-> at, pct |-> 0, temp |-> XMon_ReadCPUTemperature(Hwmon, id)] \in Infos
           /\ [info EXCEPT !.pct = at] = [raw |-> info.raw, pct |-> at, temp |-> info.temp]
           /\ [info EXCEPT !.pct = at] \in Infos
           /\ [raw |-> at, pct |-> info.pct, temp |-> XMon_ReadCPUTemperature(Hwmon, id)] \in Infos
<1> DEFINE t == XMon_ReadCPUTemperature(Hwmon, id)
<1>1. t \in Temps BY DEF Temps
<1> HIDE DEF t
<1>2. [raw |-> at, pct |-> 0, temp |-> t] \in Infos BY <1>1 DEF Infos
<1>3. [info EXCEPT !.pct = at] = [raw |-> info.raw, pct |-> at, temp |-> info.temp] /\ [info EXCEPT !.pct = at] \in Infos
  BY DEF Infos
<1>4. [raw |-> at, pct |-> info.pct, temp |-> t] \in Infos BY <1>1 DEF Infos
<1> USE DEF t
<1> QED BY <1>2, <1>3, <1>4

\* The fields of st but those of the CPUs.
SameRest ==
    /\ st' = [life |-> st.life, count |-> st.count, cores |-> st'.cores, sum |-> st'.sum, usage |-> st.usage,
              memTotal |-> st.memTotal, resident |-> st.resident, ifaces |-> st.ifaces, lock |-> st.lock,
              loaded |-> st.loaded, crashed |-> st.crashed]
    /\ st'.cores \in Seq(Infos) /\ st'.sum \in Infos

\* The parts of Kept that a step keeps which only writes figures of CPUs.
LEMMA FiguresKept ==
    ASSUME MonInv, InUpdate, SameRest, UpdType', CoreInv', TimeInv',
           upd.pc \notin AfterCount, upd'.pc \in {"line", "raw"},
           st.sum.raw <= st'.sum.raw,
           st.count > 0 => /\ Len(st'.cores) = Len(st.cores)
                           /\ \A i \in 1..Len(st.cores) : st.cores[i].raw <= st'.cores[i].raw
    PROVE  Kept
<1> USE DEF MonInv, StInv, InUpdate
<1>1. /\ st'.life = st.life /\ st'.count = st.count /\ st'.usage = st.usage /\ st'.memTotal = st.memTotal
      /\ st'.resident = st.resident /\ st'.ifaces = st.ifaces /\ st'.lock = st.lock /\ (st'.loaded <=> st.loaded)
      /\ (st'.crashed <=> st.crashed)
  BY DEF SameRest
<1>2. StType'
  <2>1. st' = [life |-> st'.life, count |-> st'.count, cores |-> st'.cores, sum |-> st'.sum, usage |-> st'.usage,
             memTotal |-> st'.memTotal, resident |-> st'.resident, ifaces |-> st'.ifaces, lock |-> st'.lock,
             loaded |-> st'.loaded, crashed |-> st'.crashed]
    BY DEF SameRest
  <2> QED BY <1>1, <2>1 DEF StType, SameRest
<1>3. LoadInv' BY <1>1 DEF LoadInv, AfterCount, AfterMem, AfterStatus
<1>4. IfaceInv' BY <1>1, IfacesKept
<1>5. Grows BY <1>1 DEF Grows
<1> QED BY <1>1, <1>2, <1>3, <1>4, <1>5 DEF Kept

\* A line adds a CPU or stores its percentages; with memory for every CPU none is missing from the list.
LEMMA LineKept == ASSUME MonInv, InUpdate, ~AllocFails, UpdateLine PROVE Kept
<1> DEFINE id == upd.id
           new == [raw |-> upd.at, pct |-> 0, temp |-> XMon_ReadCPUTemperature(Hwmon, id)]
<1>1. upd.pc = "line" /\ upd.pc \notin AfterCount BY DEF UpdateLine, Updating, AfterCount
<1>2. id \in -1..CpuLines /\ upd.count = st.count /\ upd.at \in Nat /\ sys.tick \in Nat
  BY <1>1 DEF MonInv, StInv, CoreInv, UpdType, SysType
<1>3. st.cores \in Seq(Infos) /\ st.sum \in Infos /\ st.count \in Nat /\ st.sum.raw \in Nat BY DEF MonInv, StInv, StType, Infos
<1>4. \A i \in 1..Len(st.cores) : st.cores[i] \in Infos /\ st.cores[i].raw \in Nat /\ st.cores[i].pct \in Nat
  <2> TAKE i \in 1..Len(st.cores)
  <2>1. st.cores[i] \in Infos BY <1>3
  <2> QED BY <2>1 DEF Infos
<1>5. UpdType BY DEF MonInv
<1>6. ASSUME id = CpuLines, upd' = [upd EXCEPT !.pc = "count"], UNCHANGED st PROVE Kept
  <2>1. "count" \in UpdPcs BY DEF UpdPcs
  <2>2. UpdType' /\ upd'.pc = "count" /\ upd'.at = upd.at /\ upd'.id = upd.id /\ upd'.count = upd.count
    BY <1>5, <1>6, <2>1, GoesOn
  <2>3. StType' BY <1>6 DEF MonInv, StInv, StType
  <2>4. CoreInv' BY <1>1, <1>6, <2>2, MonAssumption DEF MonInv, StInv, CoreInv
  <2>5. TimeInv' BY <1>6, <2>2 DEF MonInv, StInv, TimeInv, InUpdate
  <2>6. LoadInv' BY <1>1, <1>6, <2>2 DEF MonInv, StInv, LoadInv, InUpdate, AfterCount, AfterMem, AfterStatus
  <2>7. IfaceInv' BY <1>6, <2>2, IfacesKept DEF MonInv, StInv
  <2>8. Grows BY <1>6, CpusKept
  <2> QED BY <1>6, <2>2, <2>3, <2>4, <2>5, <2>6, <2>7, <2>8 DEF Kept, StInv
<1>7. ASSUME id \in 0..(CpuLines - 1), upd.count = 0, upd' = [upd EXCEPT !.id = @ + 1],
             st' = [st EXCEPT !.cores = Append(@, new)]
      PROVE  Kept
  <2>1. upd' = [upd EXCEPT !.pc = "line", !.id = @ + 1] BY <1>1, <1>5, <1>7 DEF UpdType
  <2>2. UpdType' /\ upd'.pc = "line" /\ upd'.at = upd.at /\ upd'.id = id + 1 /\ upd'.count = upd.count
    BY <1>5, <2>1, NextLine
  <2>a. id \in -1..(CpuLines - 1) BY <1>7, MonAssumption
  <2>3. new \in Infos BY <1>2, <1>3, <2>a, StoredInfos
  <2>4. st'.cores = Append(st.cores, new) /\ st'.sum = st.sum /\ st'.count = st.count /\ st'.usage = st.usage
        /\ (st'.crashed <=> st.crashed)
    BY <1>7 DEF MonInv, StInv, StType
  <2>5. SameRest
    <3> HIDE DEF new
    <3>1. st' = [life |-> st.life, count |-> st.count, cores |-> Append(st.cores, new), sum |-> st.sum, usage |-> st.usage,
              memTotal |-> st.memTotal, resident |-> st.resident, ifaces |-> st.ifaces, lock |-> st.lock,
              loaded |-> st.loaded, crashed |-> st.crashed]
      BY <1>7 DEF MonInv, StInv, StType
    <3>2. Append(st.cores, new) \in Seq(Infos) BY <1>3, <2>3
    <3> QED BY <1>3, <2>4, <3>1, <3>2 DEF SameRest
  <2>6. Len(st.cores) = id BY <1>1, <1>2, <1>7 DEF MonInv, StInv, CoreInv
  <2>7. Len(st'.cores) = id + 1 /\ st'.cores[id + 1] = new /\ \A i \in 1..id : st'.cores[i] = st.cores[i]
    BY <1>3, <2>3, <2>4, <2>6
  <2>8. CoreInv'
    <3>1. st.count = 0 /\ ~st'.crashed /\ id + 1 >= 0 /\ id + 1 \in -1..CpuLines
      BY <1>2, <1>7, <2>4, MonAssumption, SMTT(30) DEF MonInv, StInv, CoreInv
    <3> QED BY <3>1, <1>2, <2>2, <2>4, <2>7 DEF CoreInv
  <2>9. TimeInv'
    <3>1. upd.at <= sys.tick BY DEF MonInv, StInv, TimeInv
    <3>2. ASSUME NEW i \in 1..(id + 1)
          PROVE  InfoOK(st'.cores[i], sys.tick) /\ st'.cores[i].raw <= upd.at
      <4>1. CASE i = id + 1
        BY <1>2, <2>7, <3>1, <4>1 DEF InfoOK
      <4>2. CASE i \in 1..id
        <5>1. st'.cores[i] = st.cores[i] BY <2>7, <4>2
        <5>2. i \in 1..Len(st.cores) BY <2>6, <4>2
        <5> HIDE DEF new
        <5> QED BY <1>1, <5>1, <5>2 DEF MonInv, StInv, TimeInv
      <4>3. i = id + 1 \/ i \in 1..id BY <1>7
      <4> QED BY <4>1, <4>2, <4>3
    <3> HIDE DEF new
    <3>3. \A i \in 1..Len(st'.cores) : InfoOK(st'.cores[i], sys.tick) /\ st'.cores[i].raw <= upd.at
      BY <2>7, <3>2
    <3> QED BY <1>1, <2>2, <2>4, <3>1, <3>3 DEF MonInv, StInv, TimeInv, InUpdate
  <2>10. st.sum.raw <= st'.sum.raw BY <1>3, <2>4
  <2> HIDE DEF new
  <2> QED BY <1>1, <1>2, <1>7, <2>2, <2>5, <2>8, <2>9, <2>10, FiguresKept
<1>8. ASSUME id = -1, Stores([st EXCEPT !.sum = [@ EXCEPT !.pct = upd.at]], "raw") PROVE Kept
  <2>1. upd' = [upd EXCEPT !.pc = "raw"] /\ st' = [st EXCEPT !.sum = [st.sum EXCEPT !.pct = upd.at]]
    BY <1>8 DEF Stores
  <2>2. "raw" \in UpdPcs BY DEF UpdPcs
  <2>3. UpdType' /\ upd'.pc = "raw" /\ upd'.at = upd.at /\ upd'.id = upd.id /\ upd'.count = upd.count
    BY <1>5, <2>1, <2>2, GoesOn
  <2>4. st'.sum = [raw |-> st.sum.raw, pct |-> upd.at, temp |-> st.sum.temp] /\ st'.sum \in Infos
    BY <1>2, <1>3, <2>1, StoredInfos, MonAssumption DEF MonInv, StInv, StType, Infos
  <2>5. st'.cores = st.cores /\ st'.count = st.count /\ st'.usage = st.usage /\ (st'.crashed <=> st.crashed)
    BY <2>1 DEF MonInv, StInv, StType
  <2>6. SameRest BY <1>3, <2>1, <2>4, <2>5 DEF SameRest, MonInv, StInv, StType
  <2>7. CoreInv' BY <1>1, <1>8, <2>3, <2>5, MonAssumption DEF MonInv, StInv, CoreInv
  <2>8. TimeInv'
    <3>1. st'.sum.raw = st.sum.raw /\ st'.sum.pct = upd.at BY <2>4
    <3>2. InfoOK(st'.sum, sys.tick) BY <1>1, <3>1 DEF MonInv, StInv, TimeInv, InfoOK
    <3> QED BY <1>1, <1>8, <2>3, <2>5, <3>1, <3>2 DEF MonInv, StInv, TimeInv, InUpdate
  <2>9. st.sum.raw <= st'.sum.raw BY <1>3, <2>4
  <2> QED BY <1>1, <1>4, <2>3, <2>5, <2>6, <2>7, <2>8, <2>9, FiguresKept
<1>9. ASSUME id \in 0..(CpuLines - 1), upd.count # 0, id < Len(st.cores),
             Stores([st EXCEPT !.cores[id + 1] = [@ EXCEPT !.pct = upd.at]], "raw")
      PROVE  Kept
  <2> DEFINE k == id + 1
             info == [st.cores[k] EXCEPT !.pct = upd.at]
  <2>1. upd' = [upd EXCEPT !.pc = "raw"] /\ st' = [st EXCEPT !.cores = [@ EXCEPT ![k] = info]]
    BY <1>9 DEF Stores
  <2>2. "raw" \in UpdPcs BY DEF UpdPcs
  <2>3. UpdType' /\ upd'.pc = "raw" /\ upd'.at = upd.at /\ upd'.id = upd.id /\ upd'.count = upd.count
    BY <1>5, <2>1, <2>2, GoesOn
  <2>4. k \in 1..Len(st.cores) BY <1>3, <1>9
  <2>5. info = [raw |-> st.cores[k].raw, pct |-> upd.at, temp |-> st.cores[k].temp] /\ info \in Infos
    <3>1. id \in -1..(CpuLines - 1) /\ st.cores[k] \in Infos BY <1>4, <1>9, <2>4, MonAssumption
    <3> QED BY <1>2, <3>1, StoredInfos
  <2> HIDE DEF info, k
  <2>6. st'.cores = [st.cores EXCEPT ![k] = info] /\ st'.sum = st.sum /\ st'.count = st.count /\ st'.usage = st.usage
        /\ (st'.crashed <=> st.crashed)
    BY <2>1 DEF MonInv, StInv, StType
  <2>7. st'.cores \in Seq(Infos) /\ Len(st'.cores) = Len(st.cores) /\ st'.cores[k] = info
        /\ \A i \in 1..Len(st.cores) : i # k => st'.cores[i] = st.cores[i]
    BY <1>3, <2>4, <2>5, <2>6
  <2>8. SameRest BY <1>3, <2>1, <2>6, <2>7 DEF SameRest, MonInv, StInv, StType
  <2>9. CoreInv' BY <1>1, <1>2, <1>9, <2>3, <2>6, <2>7, MonAssumption DEF MonInv, StInv, CoreInv
  <2>10. st'.cores[k].raw = st.cores[k].raw /\ st'.cores[k].pct = upd.at BY <2>5, <2>7
  <2>11. \A i \in 1..Len(st.cores) : st'.cores[i].raw = st.cores[i].raw BY <2>7, <2>10
  <2>12. TimeInv'
    <3>1. \A i \in 1..Len(st.cores) : InfoOK(st.cores[i], sys.tick) /\ st.cores[i].raw <= upd.at
      BY <1>1 DEF MonInv, StInv, TimeInv
    <3>2. \A i \in 1..Len(st.cores) : InfoOK(st'.cores[i], sys.tick) /\ st'.cores[i].raw <= upd.at
      BY <2>7, <2>10, <3>1 DEF InfoOK
    <3>3. st'.cores[upd'.id + 1].pct = upd'.at /\ ~(upd'.id < 0) BY <1>9, <2>3, <2>10 DEF k
    <3> QED BY <1>1, <2>3, <2>6, <2>7, <3>2, <3>3 DEF MonInv, StInv, TimeInv, InUpdate
  <2>13. st.sum.raw <= st'.sum.raw BY <1>3, <2>6
  <2>14. \A i \in 1..Len(st.cores) : st.cores[i].raw <= st'.cores[i].raw BY <1>4, <2>11
  <2> QED BY <1>1, <2>3, <2>7, <2>8, <2>9, <2>12, <2>13, <2>14, FiguresKept
<1>10. id \in 0..(CpuLines - 1) /\ upd.count # 0 => id < Len(st.cores)
  BY <1>2, MonAssumption DEF MonInv, StInv, CoreInv
<1>11. Allocated = {TRUE} BY DEF Allocated
<1> HIDE DEF new
<1>12. \/ id = CpuLines /\ upd' = [upd EXCEPT !.pc = "count"] /\ UNCHANGED st
       \/ /\ id \in 0..(CpuLines - 1) /\ upd.count = 0 /\ upd' = [upd EXCEPT !.id = @ + 1]
          /\ \E ok \in Allocated : st' = [st EXCEPT !.cores = IF ok THEN Append(@, new) ELSE @]
       \/ id = -1 /\ Stores([st EXCEPT !.sum = [@ EXCEPT !.pct = upd.at]], "raw")
       \/ /\ id \in 0..(CpuLines - 1) /\ upd.count # 0
          /\ IF id < Len(st.cores) THEN Stores([st EXCEPT !.cores[id + 1] = [@ EXCEPT !.pct = upd.at]], "raw")
                                   ELSE Stores([st EXCEPT !.crashed = TRUE], "crash")
  BY Zenon DEF UpdateLine, new
<1>13. (\E ok \in Allocated : st' = [st EXCEPT !.cores = IF ok THEN Append(@, new) ELSE @])
         => st' = [st EXCEPT !.cores = Append(@, new)]
  BY <1>11, Zenon
<1> QED BY <1>6, <1>7, <1>8, <1>9, <1>10, <1>12, <1>13, Zenon

\* Then the counters of the line, which are no newer than the percentages stored before them.
LEMMA RawKept == ASSUME MonInv, InUpdate, UpdateRaw PROVE Kept
<1> DEFINE id == upd.id
           Stored(info) == [raw |-> upd.at, pct |-> info.pct, temp |-> XMon_ReadCPUTemperature(Hwmon, id)]
<1>1. upd.pc = "raw" /\ upd.pc \notin AfterCount BY DEF UpdateRaw, Updating, AfterCount
<1>2. id \in -1..(CpuLines - 1) /\ upd.count = st.count /\ upd.at \in Nat /\ sys.tick \in Nat /\ upd.at <= sys.tick
  BY <1>1, MonAssumption DEF MonInv, StInv, CoreInv, TimeInv, UpdType, SysType
<1>3. st.cores \in Seq(Infos) /\ st.sum \in Infos /\ st.count \in Nat /\ st.sum.raw \in Nat BY DEF MonInv, StInv, StType, Infos
<1>4. \A i \in 1..Len(st.cores) : st.cores[i] \in Infos /\ st.cores[i].raw \in Nat /\ st.cores[i].pct \in Nat
  <2> TAKE i \in 1..Len(st.cores)
  <2>1. st.cores[i] \in Infos BY <1>3
  <2> QED BY <2>1 DEF Infos
<1>5. upd' = [upd EXCEPT !.pc = "line", !.id = @ + 1] BY DEF UpdateRaw
<1>6. UpdType' /\ upd'.pc = "line" /\ upd'.at = upd.at /\ upd'.id = id + 1 /\ upd'.count = upd.count
  BY <1>5, NextLine DEF MonInv
<1>7. ASSUME id < 0, st' = [st EXCEPT !.sum = Stored(@)] PROVE Kept
  <2>1. Stored(st.sum) \in Infos BY <1>2, <1>3, StoredInfos
  <2>2. Stored(st.sum).raw = upd.at /\ Stored(st.sum).pct = st.sum.pct OBVIOUS
  <2> HIDE DEF Stored
  <2>3. st'.sum = Stored(st.sum) /\ st'.cores = st.cores /\ st'.count = st.count /\ st'.usage = st.usage
        /\ (st'.crashed <=> st.crashed)
    BY <1>7 DEF MonInv, StInv, StType
  <2>4. SameRest BY <1>3, <1>7, <2>1, <2>3 DEF SameRest, MonInv, StInv, StType
  <2>5. id = -1 BY <1>2, <1>7
  <2>6. CoreInv'
    <3>1. st.count = 0 => Len(st.cores) = 0 BY <1>1 DEF MonInv, StInv, CoreInv
    <3> QED BY <1>1, <1>2, <1>6, <2>3, <2>5, <3>1, MonAssumption DEF MonInv, StInv, CoreInv
  <2>7. st.sum.raw <= upd.at /\ st.usage <= st.sum.raw /\ st.sum.pct = upd.at /\ st.usage \in Nat
    BY <1>1, <1>7 DEF MonInv, StInv, TimeInv, StType
  <2>8. TimeInv'
    <3>1. InfoOK(st'.sum, sys.tick) BY <1>2, <2>2, <2>3, <2>7 DEF InfoOK
    <3>2. st'.usage <= st'.sum.raw BY <1>2, <1>3, <2>2, <2>3, <2>7
    <3>3. st'.sum.raw <= upd'.at BY <1>2, <1>6, <2>2, <2>3
    <3>4. \A i \in 1..Len(st.cores) : InfoOK(st.cores[i], sys.tick) /\ st.cores[i].raw <= upd.at
      BY <1>1 DEF MonInv, StInv, TimeInv
    <3> QED BY <1>1, <1>2, <1>6, <2>3, <3>1, <3>2, <3>3, <3>4 DEF TimeInv, InUpdate
  <2>9. st.sum.raw <= st'.sum.raw BY <2>2, <2>3, <2>7
  <2> QED BY <1>1, <1>4, <1>6, <2>3, <2>4, <2>6, <2>8, <2>9, FiguresKept
<1>8. ASSUME ~(id < 0), st' = [st EXCEPT !.cores[id + 1] = Stored(@)] PROVE Kept
  <2> DEFINE k == id + 1
             info == Stored(st.cores[k])
  <2>1. st' = [st EXCEPT !.cores = [@ EXCEPT ![k] = info]] BY <1>8
  <2>2. id \in 0..(CpuLines - 1) /\ st.count # 0 /\ Len(st.cores) = st.count /\ st.count = CpuLines
    BY <1>1, <1>2, <1>8 DEF MonInv, StInv, CoreInv
  <2>3. k \in 1..Len(st.cores) BY <2>2, MonAssumption
  <2>4. info.raw = upd.at /\ info.pct = st.cores[k].pct OBVIOUS
  <2>5. info \in Infos
    <3>1. st.cores[k] \in Infos BY <1>4, <2>3
    <3> QED BY <1>2, <3>1, StoredInfos
  <2> HIDE DEF info, k, Stored
  <2>6. st'.cores = [st.cores EXCEPT ![k] = info] /\ st'.sum = st.sum /\ st'.count = st.count /\ st'.usage = st.usage
        /\ (st'.crashed <=> st.crashed)
    BY <2>1 DEF MonInv, StInv, StType
  <2>7. st'.cores \in Seq(Infos) /\ Len(st'.cores) = Len(st.cores) /\ st'.cores[k] = info
        /\ \A i \in 1..Len(st.cores) : i # k => st'.cores[i] = st.cores[i]
    BY <1>3, <2>3, <2>5, <2>6
  <2>8. SameRest BY <1>3, <2>1, <2>6, <2>7 DEF SameRest, MonInv, StInv, StType
  <2>9. CoreInv' BY <1>1, <1>2, <2>2, <1>6, <2>6, <2>7, MonAssumption, SMTT(30) DEF MonInv, StInv, CoreInv
  <2>10. \A i \in 1..Len(st.cores) : InfoOK(st.cores[i], sys.tick) /\ st.cores[i].raw <= upd.at
    BY <1>1 DEF MonInv, StInv, TimeInv
  <2>11. st.cores[k].pct = upd.at BY <1>1, <1>8 DEF MonInv, StInv, TimeInv, k
  <2>12. \A i \in 1..Len(st.cores) : InfoOK(st'.cores[i], sys.tick) /\ st'.cores[i].raw <= upd.at
                                     /\ st.cores[i].raw <= st'.cores[i].raw
    <3> TAKE i \in 1..Len(st.cores)
    <3>1. CASE i = k BY <1>2, <2>3, <2>4, <2>7, <2>10, <2>11, <3>1 DEF InfoOK
    <3>2. CASE i # k BY <1>4, <2>7, <2>10, <3>2
    <3> QED BY <3>1, <3>2
  <2>13. TimeInv'
    <3>1. \A i \in 1..Len(st'.cores) : InfoOK(st'.cores[i], sys.tick) /\ st'.cores[i].raw <= upd.at BY <2>7, <2>12
    <3> QED BY <1>1, <1>6, <2>6, <3>1 DEF MonInv, StInv, TimeInv, InUpdate
  <2>14. st.sum.raw <= st'.sum.raw BY <1>3, <2>6
  <2> QED BY <1>1, <1>6, <2>7, <2>8, <2>9, <2>12, <2>13, <2>14, FiguresKept
<1>9. st' = IF id < 0 THEN [st EXCEPT !.sum = Stored(@)] ELSE [st EXCEPT !.cores[id + 1] = Stored(@)]
  BY Zenon DEF UpdateRaw
<1> HIDE DEF Stored
<1> QED BY <1>7, <1>8, <1>9, Zenon

\* The number of CPUs is published once the list is complete.
LEMMA CountKept == ASSUME MonInv, InUpdate, UpdateCount PROVE Kept
<1>1. upd.pc = "count" BY DEF UpdateCount, Updating
<1>2. upd' = [pc |-> "proc", at |-> 0, id |-> -1, count |-> 0, left |-> {}] BY DEF UpdateCount, NoUpdate
<1>3. UpdType' BY <1>2 DEF UpdType, UpdPcs, AfterCount
<1>4. upd'.pc = "proc" /\ upd'.at = 0 BY <1>2
<1>5. st' = [st EXCEPT !.count = Len(st.cores)] BY DEF UpdateCount
<1>6. /\ st'.count = Len(st.cores) /\ st'.cores = st.cores /\ st'.sum = st.sum /\ st'.usage = st.usage
      /\ st'.memTotal = st.memTotal /\ st'.resident = st.resident /\ st'.ifaces = st.ifaces /\ st'.lock = st.lock
      /\ (st'.loaded <=> st.loaded) /\ (st'.crashed <=> st.crashed) /\ st'.life = st.life
  BY <1>5 DEF MonInv, StInv, StType
<1>7. Len(st.cores) = CpuLines /\ CpuLines > 0 /\ CpuLines \in Nat
  BY <1>1, MonAssumption DEF MonInv, StInv, CoreInv
<1>8. StType' BY <1>5, <1>6, <1>7 DEF MonInv, StInv, StType
<1>9. CoreInv' BY <1>4, <1>6, <1>7 DEF MonInv, StInv, CoreInv
<1>10. TimeInv' BY <1>4, <1>6 DEF MonInv, StInv, TimeInv, InUpdate, SysType
<1>11. LoadInv' BY <1>1, <1>4, <1>6, <1>7 DEF MonInv, StInv, LoadInv, InUpdate, AfterCount, AfterMem, AfterStatus
<1>12. IfaceInv' BY <1>4, <1>6, IfacesKept DEF MonInv, StInv
<1>13. st.count > 0 => st'.count = st.count BY <1>6 DEF MonInv, StInv, CoreInv, StType
<1>14. \A i \in 1..Len(st.cores) : st.cores[i].raw \in Nat
  <2> TAKE i \in 1..Len(st.cores)
  <2>1. st.cores[i] \in Infos BY DEF MonInv, StInv, StType
  <2> QED BY <2>1 DEF Infos
<1>15. st.sum.raw \in Nat BY DEF MonInv, StInv, StType, Infos
<1>16. Grows BY <1>6, <1>13, <1>14, <1>15 DEF Grows, InUpdate
<1> QED BY <1>3, <1>6, <1>8, <1>9, <1>10, <1>11, <1>12, <1>16 DEF Kept, StInv

\* The steps after it leave the figures of the CPUs alone.
SameCpus ==
    /\ st'.count = st.count /\ st'.cores = st.cores /\ st'.sum = st.sum
    /\ st'.life = st.life /\ (st'.crashed <=> st.crashed)
    /\ st' = [life |-> st'.life, count |-> st'.count, cores |-> st'.cores, sum |-> st'.sum, usage |-> st'.usage,
             memTotal |-> st'.memTotal, resident |-> st'.resident, ifaces |-> st'.ifaces, lock |-> st'.lock,
             loaded |-> st'.loaded, crashed |-> st'.crashed]

LEMMA OthersKept ==
    ASSUME MonInv, InUpdate, SameCpus, upd.pc \in AfterCount, upd'.pc \in AfterCount, upd'.at = upd.at, UpdType',
           st'.usage \in Nat, st'.usage <= st.sum.raw, st'.memTotal \in Nat, st'.resident \in Nat, st'.ifaces \in Seq(IfaceSet),
           LoadInv', IfaceInv', st.loaded => st'.loaded
    PROVE  Kept
<1>1. Grows BY CpusKept DEF SameCpus
<1>2. StType' BY DEF SameCpus, MonInv, StInv, StType
<1>3. upd.pc \notin {"line", "raw", "count"} /\ upd'.pc \notin {"line", "raw", "count"} BY DEF AfterCount
<1>4. CoreInv' BY <1>3 DEF SameCpus, MonInv, StInv, CoreInv
<1>5. TimeInv' BY <1>3 DEF SameCpus, MonInv, StInv, TimeInv, InUpdate
<1> QED BY <1>1, <1>2, <1>4, <1>5 DEF Kept, StInv, SameCpus

\* What the invariant says before such a step.
LEMMA OthersFacts ==
    ASSUME MonInv
    PROVE  /\ st.usage \in Nat /\ st.usage <= st.sum.raw /\ st.sum.raw \in Nat /\ st.memTotal \in Nat /\ st.resident \in Nat
           /\ st.ifaces \in Seq(IfaceSet) /\ LoadInv /\ IfaceInv /\ UpdType /\ StType
BY DEF MonInv, StInv, StType, TimeInv, Infos

\* The usage of the process is taken from a total that is stored already.
LEMMA UsageKept == ASSUME MonInv, InUpdate, UpdateUsage PROVE Kept
<1> USE OthersFacts
<1>1. upd.pc = "proc" /\ upd' = [upd EXCEPT !.pc = "mem"] BY DEF UpdateUsage, Updating, Stores, GivesUp
<1>2. "mem" \in UpdPcs /\ "mem" \in AfterCount /\ "proc" \in AfterCount BY DEF UpdPcs, AfterCount
<1>3. UpdType' /\ upd'.pc = "mem" /\ upd'.at = upd.at BY <1>1, <1>2, GoesOn
<1>4. st' = [st EXCEPT !.usage = st.sum.raw] \/ st' = st BY DEF UpdateUsage, Stores, GivesUp
<1>5. /\ SameCpus /\ st'.usage \in {st.usage, st.sum.raw} /\ st'.memTotal = st.memTotal /\ st'.resident = st.resident
      /\ st'.ifaces = st.ifaces /\ st'.lock = st.lock /\ (st'.loaded <=> st.loaded)
  BY <1>4 DEF SameCpus, StType
<1>6. LoadInv' BY <1>1, <1>3, <1>5 DEF LoadInv, InUpdate, SameCpus, AfterCount, AfterMem, AfterStatus
<1>7. IfaceInv' BY <1>3, <1>5, IfacesKept
<1> QED BY <1>1, <1>2, <1>3, <1>5, <1>6, <1>7, OthersKept

\* The two sizes of memory, in this order.
LEMMA MemoryKept == ASSUME MonInv, InUpdate, UpdateMemory PROVE Kept
<1> USE OthersFacts
<1>1. ASSUME upd.pc = "mem", Stores([st EXCEPT !.memTotal = 1], "status") \/ GivesUp("meminfo", "net") PROVE Kept
  <2>1. \/ upd' = [upd EXCEPT !.pc = "status"] /\ st' = [st EXCEPT !.memTotal = 1]
        \/ upd' = [upd EXCEPT !.pc = "net"] /\ st' = st /\ sys.broken # {}
    BY <1>1 DEF Stores, GivesUp
  <2>2. {"status", "net"} \subseteq UpdPcs /\ {"status", "net", "mem"} \subseteq AfterCount BY DEF UpdPcs, AfterCount
  <2>3. UpdType' /\ upd'.pc \in {"status", "net"} /\ upd'.at = upd.at /\ (upd'.pc = "net" => sys.broken # {})
    BY <2>1, <2>2, GoesOn
  <2>4. /\ SameCpus /\ st'.usage = st.usage /\ st'.memTotal \in {st.memTotal, 1} /\ st'.resident = st.resident
        /\ st'.ifaces = st.ifaces /\ st'.lock = st.lock /\ (st'.loaded <=> st.loaded)
        /\ (sys.broken = {} => st'.memTotal = 1)
    BY <2>1 DEF SameCpus, StType
  <2>5. LoadInv'
    BY <1>1, <2>3, <2>4 DEF LoadInv, InUpdate, SameCpus, AfterCount, AfterMem, AfterStatus
  <2>6. IfaceInv' BY <2>3, <2>4, IfacesKept
  <2> QED BY <1>1, <2>2, <2>3, <2>4, <2>5, <2>6, OthersKept
<1>2. ASSUME upd.pc = "status", Stores([st EXCEPT !.resident = 1], "net") \/ GivesUp("status", "net") PROVE Kept
  <2>1. upd' = [upd EXCEPT !.pc = "net"] /\ (st' = [st EXCEPT !.resident = 1] \/ (st' = st /\ sys.broken # {}))
    BY <1>2 DEF Stores, GivesUp
  <2>2. "net" \in UpdPcs /\ {"status", "net"} \subseteq AfterCount BY DEF UpdPcs, AfterCount
  <2>3. UpdType' /\ upd'.pc = "net" /\ upd'.at = upd.at BY <2>1, <2>2, GoesOn
  <2>4. /\ SameCpus /\ st'.usage = st.usage /\ st'.memTotal = st.memTotal /\ st'.resident \in {st.resident, 1}
        /\ st'.ifaces = st.ifaces /\ st'.lock = st.lock /\ (st'.loaded <=> st.loaded)
        /\ (sys.broken = {} => st'.resident = 1)
    BY <2>1 DEF SameCpus, StType
  <2>5. LoadInv'
    BY <1>2, <2>3, <2>4 DEF LoadInv, InUpdate, SameCpus, AfterCount, AfterMem, AfterStatus
  <2>6. IfaceInv' BY <2>3, <2>4, IfacesKept
  <2> QED BY <1>2, <2>2, <2>3, <2>4, <2>5, <2>6, OthersKept
<1> QED BY <1>1, <1>2 DEF UpdateMemory, Updating

\* The directory of interfaces is opened, or cannot be.
LEMMA OpenKept == ASSUME MonInv, InUpdate, NetOpen PROVE Kept
<1> USE OthersFacts
<1>1. upd.pc = "net" BY DEF NetOpen, Updating
<1>2. \/ upd' = [upd EXCEPT !.pc = "lock", !.left = {n \in Ifaces : sys.net[n] >= 0}] /\ st' = st
      \/ upd' = [upd EXCEPT !.pc = "done"] /\ st' = st
  BY DEF NetOpen, Stores, GivesUp
<1>3. {"lock", "done"} \subseteq UpdPcs /\ {"lock", "done", "net"} \subseteq AfterCount BY DEF UpdPcs, AfterCount
<1>4. UpdType' /\ upd'.pc \in {"lock", "done"} /\ upd'.at = upd.at
  BY <1>2, <1>3 DEF UpdType
<1>5. /\ SameCpus /\ st'.usage = st.usage /\ st'.memTotal = st.memTotal /\ st'.resident = st.resident
      /\ st'.ifaces = st.ifaces /\ st'.lock = st.lock /\ (st'.loaded <=> st.loaded)
  BY <1>2 DEF SameCpus, StType
<1>6. LoadInv' BY <1>1, <1>4, <1>5 DEF LoadInv, InUpdate, SameCpus, AfterCount, AfterMem, AfterStatus
<1>7. IfaceInv' BY <1>4, <1>5, IfacesKept
<1> QED BY <1>1, <1>3, <1>4, <1>5, <1>6, <1>7, OthersKept

\* The figures are loaded only after all of them were stored.
LEMMA DoneKept == ASSUME MonInv, InUpdate, UpdateDone PROVE Kept
<1> USE OthersFacts
<1>1. upd.pc = "done" /\ upd' = [upd EXCEPT !.pc = "end"] /\ st' = [st EXCEPT !.loaded = TRUE]
  BY DEF UpdateDone, Updating, Stores
<1>2. "end" \in UpdPcs /\ {"done", "end"} \subseteq AfterCount BY DEF UpdPcs, AfterCount
<1>3. UpdType' /\ upd'.pc = "end" /\ upd'.at = upd.at BY <1>1, <1>2, GoesOn
<1>4. /\ SameCpus /\ st'.usage = st.usage /\ st'.memTotal = st.memTotal /\ st'.resident = st.resident
      /\ st'.ifaces = st.ifaces /\ st'.lock = st.lock /\ st'.loaded
  BY <1>1 DEF SameCpus, StType
<1>5. LoadInv' BY <1>1, <1>3, <1>4 DEF LoadInv, InUpdate, SameCpus, AfterCount, AfterMem, AfterStatus
<1>6. IfaceInv' BY <1>3, <1>4, IfacesKept
<1> QED BY <1>1, <1>2, <1>3, <1>4, <1>5, <1>6, OthersKept

-----------------------------------------------------------------------------
(* The interfaces                                                          *)

\* Marking an interface as gone changes nothing else of it.
LEMMA IfaceFields ==
    ASSUME NEW e \in IfaceSet
    PROVE  /\ e.name \in Ifaces /\ e.bytes \in Nat /\ e.rate \in Nat
           /\ [e EXCEPT !.active = FALSE] \in IfaceSet
           /\ [e EXCEPT !.active = FALSE].name = e.name
           /\ [e EXCEPT !.active = FALSE].bytes = e.bytes
           /\ [e EXCEPT !.active = FALSE].rate = e.rate
BY DEF IfaceSet

\* A rate is never more than what was counted.
LEMMA RateBound ==
    ASSUME NEW new \in Nat, NEW old \in Nat
    PROVE  Rate(new, old) \in Nat /\ Rate(new, old) * IntervalSecs <= new
<1>1. ASSUME new > old, old > 0
      PROVE  (new - old) \div IntervalSecs \in Nat /\ ((new - old) \div IntervalSecs) * IntervalSecs <= new
  <2>1. IntervalSecs \in Nat \ {0} BY MonAssumption
  <2> DEFINE d == new - old
             q == d \div IntervalSecs
  <2>2. d \in Nat /\ d <= new BY <1>1
  <2> HIDE DEF d
  <2>3. q \in Nat /\ q * IntervalSecs <= d BY <2>1, <2>2
  <2> HIDE DEF q
  <2>4. q * IntervalSecs \in Int BY <2>1, <2>3
  <2>5. q * IntervalSecs <= new BY <2>2, <2>3, <2>4
  <2> QED BY <2>3, <2>5 DEF q, d
<1>2. 0 * IntervalSecs = 0 BY MonAssumption
<1> QED BY <1>1, <1>2 DEF Rate

\* An interface as it is stored.
LEMMA NewIface ==
    ASSUME NEW n \in Ifaces, NEW bytes \in Nat, NEW old \in Nat, NEW e,
           e = [name |-> n, bytes |-> bytes, rate |-> Rate(bytes, old), active |-> TRUE]
    PROVE  e \in IfaceSet /\ e.name = n /\ e.active /\ e.rate >= 0 /\ e.rate * IntervalSecs <= e.bytes
<1>1. Rate(bytes, old) \in Nat /\ Rate(bytes, old) * IntervalSecs <= bytes BY RateBound
<1>2. e.name = n /\ e.bytes = bytes /\ e.rate = Rate(bytes, old) /\ e.active OBVIOUS
<1>3. e \in IfaceSet BY <1>1 DEF IfaceSet
<1> QED BY <1>1, <1>2, <1>3

\* What IfacesRight says of a list, but for the ones that are still marked as gone.
Listed(list) ==
    /\ list \in Seq(IfaceSet)
    /\ \A i, j \in 1..Len(list) : list[i].name = list[j].name => i = j
    /\ \A i \in 1..Len(list) : list[i].rate >= 0 /\ list[i].rate * IntervalSecs <= list[i].bytes

\* The invariant says this of the interfaces.
LEMMA ListedNow == ASSUME MonInv PROVE Listed(st.ifaces)
BY DEF MonInv, StInv, StType, IfaceInv, IfacesRight, Listed

\* While the lock is held this is all that IfacesRight asks for.
LEMMA ListedScan ==
    ASSUME Listed(st.ifaces)', st'.lock = "worker" PROVE IfaceInv'
BY DEF Listed, IfaceInv, IfacesRight

\* Under the lock every interface is marked as gone.
LEMMA LockKept == ASSUME MonInv, InUpdate, NetLock PROVE Kept
<1> USE OthersFacts
<1> DEFINE list == [i \in 1..Len(st.ifaces) |-> [st.ifaces[i] EXCEPT !.active = FALSE]]
<1>1. upd.pc = "lock" /\ upd' = [upd EXCEPT !.pc = "scan"] /\ st' = [st EXCEPT !.lock = "worker", !.ifaces = list]
  BY DEF NetLock, Updating, Stores
<1>2. "scan" \in UpdPcs /\ {"lock", "scan"} \subseteq AfterCount BY DEF UpdPcs, AfterCount
<1>3. UpdType' /\ upd'.pc = "scan" /\ upd'.at = upd.at BY <1>1, <1>2, GoesOn
<1>4. Listed(list)
  <2>1. Listed(st.ifaces) BY ListedNow
  <2>2. Len(st.ifaces) \in Nat /\ \A i \in 1..Len(st.ifaces) : st.ifaces[i] \in IfaceSet OBVIOUS
  <2>3. \A i \in 1..Len(st.ifaces) : /\ list[i] \in IfaceSet /\ list[i].name = st.ifaces[i].name
                                     /\ list[i].bytes = st.ifaces[i].bytes /\ list[i].rate = st.ifaces[i].rate
    BY <2>2, IfaceFields
  <2>4. Len(list) = Len(st.ifaces) BY <2>2
  <2>5. list \in Seq(IfaceSet)
    <3>1. list \in [1..Len(st.ifaces) -> IfaceSet] BY <2>3
    <3> HIDE DEF list
    <3> QED BY <2>2, <3>1
  <2> HIDE DEF list
  <2> QED BY <2>1, <2>3, <2>4, <2>5 DEF Listed
<1> HIDE DEF list
<1>5. /\ SameCpus /\ st'.usage = st.usage /\ st'.memTotal = st.memTotal /\ st'.resident = st.resident
      /\ st'.ifaces = list /\ st'.lock = "worker" /\ (st'.loaded <=> st.loaded)
  BY <1>1 DEF SameCpus, StType
<1>6. LoadInv' BY <1>1, <1>3, <1>5 DEF LoadInv, InUpdate, SameCpus, AfterCount, AfterMem, AfterStatus
<1>7. IfaceInv' BY <1>4, <1>5, ListedScan
<1>8. st'.ifaces \in Seq(IfaceSet) BY <1>4, <1>5 DEF Listed
<1> QED BY <1>1, <1>2, <1>3, <1>5, <1>6, <1>7, <1>8, OthersKept

\* One that is found is updated in place, or added if no entry has its name.
LEMMA ScanKept == ASSUME MonInv, InUpdate, ~AllocFails, NetScan PROVE Kept
<1> USE OthersFacts
<1>1. upd.pc = "scan" BY DEF NetScan, Updating
<1> DEFINE list == st.ifaces
           New(n, old) == [name |-> n, bytes |-> Max({0, sys.net[n]}), rate |-> Rate(Max({0, sys.net[n]}), old), active |-> TRUE]
           known(n) == {i \in 1..Len(list) : list[i].name = n}
<1>2. PICK n \in upd.left :
          /\ upd' = [upd EXCEPT !.left = @ \ {n}]
          /\ \/ /\ known(n) # {}
                /\ st' = [st EXCEPT !.ifaces = [i \in 1..Len(@) |-> IF i \in known(n) THEN New(n, @[i].bytes) ELSE @[i]]]
             \/ known(n) = {} /\ \E ok \in Allocated : st' = [st EXCEPT !.ifaces = IF ok THEN Append(@, New(n, 0)) ELSE @]
  BY Zenon DEF NetScan
<1>3. n \in Ifaces BY <1>2 DEF UpdType
<1>4. Max({0, sys.net[n]}) \in Nat
  <2> DEFINE v == sys.net[n]
  <2>1. v \in Int BY <1>3 DEF MonInv, SysType
  <2> HIDE DEF v
  <2>2. Max({0, v}) = IF v > 0 THEN v ELSE 0 BY <2>1 DEF Max
  <2> QED BY <2>1, <2>2 DEF v
<1>5. \A old \in Nat : /\ New(n, old) \in IfaceSet /\ New(n, old).name = n /\ New(n, old).rate >= 0
                       /\ New(n, old).rate * IntervalSecs <= New(n, old).bytes
  BY <1>3, <1>4, NewIface
<1>6. Listed(list) /\ Len(list) \in Nat /\ (\A i \in 1..Len(list) : list[i] \in IfaceSet /\ list[i].bytes \in Nat)
  <2>1. Len(list) \in Nat /\ \A i \in 1..Len(list) : list[i] \in IfaceSet OBVIOUS
  <2>2. \A e \in IfaceSet : e.bytes \in Nat BY IfaceFields, Zenon
  <2>3. Listed(list) BY ListedNow
  <2> QED BY <2>1, <2>2, <2>3, Zenon
<1> HIDE DEF New
<1>7. UpdType' /\ upd'.pc = "scan" /\ upd'.at = upd.at BY <1>1, <1>2 DEF UpdType
<1>8. Allocated = {TRUE} BY DEF Allocated
<1> DEFINE updated == [i \in 1..Len(list) |-> IF i \in known(n) THEN New(n, list[i].bytes) ELSE list[i]]
           added == Append(list, New(n, 0))
<1>9. \/ st' = [st EXCEPT !.ifaces = updated]
      \/ known(n) = {} /\ st' = [st EXCEPT !.ifaces = added]
  <2>1. (\E ok \in Allocated : st' = [st EXCEPT !.ifaces = IF ok THEN Append(@, New(n, 0)) ELSE @])
           => st' = [st EXCEPT !.ifaces = added]
    BY <1>8, Zenon
  <2> QED BY <1>2, <2>1, Zenon
<1>10. Listed(updated)
  <2>1. Len(updated) = Len(list) /\ updated \in Seq(IfaceSet) BY <1>5, <1>6
  <2>2. ASSUME NEW i \in 1..Len(list)
        PROVE  updated[i].name = list[i].name /\ updated[i].rate >= 0 /\ updated[i].rate * IntervalSecs <= updated[i].bytes
    <3>1. CASE i \in known(n) BY <1>5, <1>6, <3>1
    <3>2. CASE i \notin known(n) BY <1>6, <3>2 DEF Listed
    <3> QED BY <3>1, <3>2
  <2> HIDE DEF updated, known
  <2> QED BY <1>6, <2>1, <2>2 DEF Listed
<1>11. known(n) = {} => Listed(added)
  <2> SUFFICES ASSUME known(n) = {} PROVE Listed(added) OBVIOUS
  <2>1. \A i \in 1..Len(list) : list[i].name # n OBVIOUS
  <2>2. New(n, 0) \in IfaceSet /\ New(n, 0).name = n /\ New(n, 0).rate >= 0 /\ New(n, 0).rate * IntervalSecs <= New(n, 0).bytes
    BY <1>5
  <2>3. /\ added \in Seq(IfaceSet) /\ Len(added) = Len(list) + 1 /\ added[Len(list) + 1] = New(n, 0)
        /\ \A i \in 1..Len(list) : added[i] = list[i]
    BY <1>6, <2>2
  <2> HIDE DEF added, known
  <2>4. \A i \in 1..Len(added) : i = Len(list) + 1 \/ i \in 1..Len(list) BY <1>6, <2>3
  <2> QED BY <1>6, <2>1, <2>2, <2>3, <2>4 DEF Listed
<1> HIDE DEF updated, added, known
<1>12. /\ SameCpus /\ st'.usage = st.usage /\ st'.memTotal = st.memTotal /\ st'.resident = st.resident
       /\ Listed(st'.ifaces) /\ st'.lock = st.lock /\ (st'.loaded <=> st.loaded)
  BY <1>9, <1>10, <1>11 DEF SameCpus, StType
<1>13. LoadInv' BY <1>1, <1>7, <1>12 DEF LoadInv, InUpdate, SameCpus, AfterCount, AfterMem, AfterStatus
<1>14. IfaceInv'
  <2>1. st.lock = "worker" BY <1>1 DEF IfaceInv
  <2> QED BY <1>12, <2>1, ListedScan
<1>15. st'.ifaces \in Seq(IfaceSet) BY <1>12 DEF Listed
<1>16. "scan" \in AfterCount BY DEF AfterCount
<1> QED BY <1>1, <1>7, <1>12, <1>13, <1>14, <1>15, <1>16, OthersKept

\* Deleting an entry leaves a list as right as it was.
LEMMA ListedRemove ==
    ASSUME NEW list, Listed(list), NEW k \in 1..Len(list)
    PROVE  Listed(RemoveAt(list, k))
<1> DEFINE r == RemoveAt(list, k)
<1>1. list \in Seq(IfaceSet) /\ Len(list) \in Nat BY DEF Listed
<1> DEFINE a == SubSeq(list, 1, k - 1)
           b == SubSeq(list, k + 1, Len(list))
<1>2. a \in Seq(IfaceSet) /\ b \in Seq(IfaceSet) BY <1>1
<1>a. Len(a) = k - 1 /\ Len(b) = Len(list) - k BY <1>1
<1>b. (\A i \in 1..(k - 1) : a[i] = list[i]) /\ (\A i \in 1..(Len(list) - k) : b[i] = list[i + k]) BY <1>1
<1>c. r = a \o b BY DEF RemoveAt
<1> HIDE DEF r, a, b
<1>3. r \in Seq(IfaceSet) /\ Len(r) = Len(list) - 1
  <2>1. a \o b \in Seq(IfaceSet) /\ Len(a \o b) = Len(a) + Len(b) BY <1>2
  <2>2. (k - 1) + (Len(list) - k) = Len(list) - 1 BY <1>1
  <2> QED BY <1>a, <1>c, <2>1, <2>2
<1>d. \A i \in 1..Len(r) : r[i] = IF i <= Len(a) THEN a[i] ELSE b[i - Len(a)] BY <1>1, <1>2, <1>3, <1>a, <1>c
<1>4. \A i \in 1..Len(r) : r[i] = list[IF i < k THEN i ELSE i + 1]
  <2> TAKE i \in 1..Len(r)
  <2>1. CASE i < k BY <1>a, <1>b, <1>d, <2>1
  <2>2. CASE ~(i < k)
    <3>1. i - (k - 1) \in 1..(Len(list) - k) /\ (i - (k - 1)) + k = i + 1 BY <1>1, <1>3, <2>2
    <3>2. r[i] = b[i - (k - 1)] BY <1>a, <1>d, <2>2
    <3> QED BY <1>b, <2>2, <3>1, <3>2
  <2> QED BY <2>1, <2>2
<1>5. \A i \in 1..Len(r) : (IF i < k THEN i ELSE i + 1) \in 1..Len(list) BY <1>1, <1>3
<1>6. \A i \in 1..Len(r) : r[i].rate >= 0 /\ r[i].rate * IntervalSecs <= r[i].bytes BY <1>4, <1>5 DEF Listed
<1>7. ASSUME NEW i \in 1..Len(r), NEW j \in 1..Len(r), r[i].name = r[j].name PROVE i = j
  <2>1. (IF i < k THEN i ELSE i + 1) = (IF j < k THEN j ELSE j + 1) BY <1>4, <1>5, <1>7 DEF Listed
  <2> QED BY <2>1, <1>3, <1>1
<1> QED BY <1>3, <1>6, <1>7 DEF Listed, r

\* The lock is released only when no entry is marked any more.
LEMMA PurgeKept == ASSUME MonInv, InUpdate, NetPurge PROVE Kept
<1> USE OthersFacts
<1> DEFINE gone == {i \in 1..Len(st.ifaces) : ~st.ifaces[i].active}
<1>1. upd.pc = "scan" /\ st.lock = "worker" BY DEF NetPurge, Updating, IfaceInv
<1>2. {"scan", "done"} \subseteq AfterCount /\ "done" \in UpdPcs BY DEF AfterCount, UpdPcs
<1>3. ASSUME NEW k \in gone, st' = [st EXCEPT !.ifaces = RemoveAt(@, k)], UNCHANGED upd PROVE Kept
  <2>1. Listed(RemoveAt(st.ifaces, k)) BY <1>3, ListedNow, ListedRemove
  <2>2. /\ SameCpus /\ st'.usage = st.usage /\ st'.memTotal = st.memTotal /\ st'.resident = st.resident
        /\ st'.ifaces = RemoveAt(st.ifaces, k) /\ st'.lock = st.lock /\ (st'.loaded <=> st.loaded)
    BY <1>3 DEF SameCpus, StType
  <2>3. LoadInv' BY <1>3, <2>2 DEF LoadInv, InUpdate, SameCpus
  <2>4. IfaceInv' BY <1>1, <2>1, <2>2, ListedScan
  <2>5. st'.ifaces \in Seq(IfaceSet) BY <2>1, <2>2 DEF Listed
  <2>6. UpdType' BY <1>3 DEF UpdType
  <2> QED BY <1>1, <1>2, <1>3, <2>2, <2>3, <2>4, <2>5, <2>6, OthersKept
<1>4. ASSUME gone = {}, Stores([st EXCEPT !.lock = "free"], "done") PROVE Kept
  <2>1. upd' = [upd EXCEPT !.pc = "done"] /\ st' = [st EXCEPT !.lock = "free"] BY <1>4 DEF Stores
  <2>2. UpdType' /\ upd'.pc = "done" /\ upd'.at = upd.at BY <1>2, <2>1, GoesOn
  <2>3. /\ SameCpus /\ st'.usage = st.usage /\ st'.memTotal = st.memTotal /\ st'.resident = st.resident
        /\ st'.ifaces = st.ifaces /\ (st'.loaded <=> st.loaded)
    BY <2>1 DEF SameCpus, StType
  <2>4. LoadInv' BY <1>1, <2>2, <2>3 DEF LoadInv, InUpdate, SameCpus, AfterCount, AfterMem, AfterStatus
  <2>5. \A i \in 1..Len(st.ifaces) : st.ifaces[i].active BY <1>4
  <2>6. IfaceInv' BY <2>2, <2>3, <2>5 DEF IfaceInv, IfacesRight
  <2> QED BY <1>1, <1>2, <2>2, <2>3, <2>4, <2>6, OthersKept
<1> QED BY <1>3, <1>4, Zenon DEF NetPurge

\* The worker keeps the invariant in every step of an update.
LEMMA UpdateStepKept == ASSUME MonInv, ~AllocFails, UpdateStep PROVE MonInv'
<1>1. client = "monitor" /\ wpc = "callback"
  BY DEF UpdateStep, UpdateStat, UpdateLine, UpdateRaw, UpdateCount, UpdateUsage, UpdateMemory, NetOpen, NetLock, NetScan,
         NetPurge, UpdateDone, Updating
<1>2. InUpdate BY <1>1 DEF InUpdate, UpdateStep
<1>3. Kept
  BY <1>2, StatKept, LineKept, RawKept, CountKept, UsageKept, MemoryKept, OpenKept, LockKept, ScanKept, PurgeKept, DoneKept
     DEF UpdateStep
<1> QED BY <1>2, <1>3, UpdateKept

-----------------------------------------------------------------------------
(* The reader's own steps                                                  *)

\* A step of the reader can disturb no other part.
LEMMA ReaderFrame ==
    ASSUME MonInv, UNCHANGED <<vars, client, sys, st, upd>>, RdInv',
           st.life = "ready" \/ rd.pc # "idle", waited' => waited \/ st.loaded
    PROVE  MonInv'
<1>1. TaskInv' BY DEF vars, MonInv, TaskInv, IInv, TypeOK, PausedInv, HeldInv, GoalInv, StopInv, PauseInv
<1>2. SysType' /\ UpdType' BY DEF MonInv, SysType, UpdType
<1>3. StInv' BY DEF MonInv, StInv, StType, CoreInv, TimeInv, LoadInv, IfaceInv, IfacesRight
<1>4. LifeInv' BY DEF vars, MonInv, LifeInv, Idle
<1> QED BY <1>1, <1>2, <1>3, <1>4 DEF MonInv

\* A reader that is at rest, or has just begun.
LEMMA FreshReader ==
    ASSUME NEW c \in {"idle", "resident", "count", "ifaces", "wait"}, NEW d, c = "idle" \/ d = c,
           rd' = [pc |-> c, call |-> d, got |-> << >>, usage |-> 0, count |-> 0, ret |-> 0]
    PROVE  RdInv'
<1>1. rd'.pc = c /\ rd'.call = d /\ rd'.got = << >> /\ rd'.usage = 0 /\ rd'.count = 0 OBVIOUS
<1>2. RdType' BY <1>1 DEF RdType, ReadPcs
<1>3. CallInv' BY <1>1 DEF CallInv
<1>4. CopyInv' BY <1>1 DEF CopyInv
<1>5. SnapInv' BY <1>1 DEF SnapInv
<1> QED BY <1>2, <1>3, <1>4, <1>5 DEF RdInv

\* A snapshot begins on statistics that are there.
LEMMA BeginKept ==
    ASSUME MonInv, ReadBegin, UNCHANGED <<vars, client, sys, st, upd, waited>> PROVE MonInv'
<1>1. st.life = "ready" BY DEF ReadBegin
<1>2. \E c \in {"resident", "count", "ifaces", "wait"} : rd' = [NoReader EXCEPT !.pc = c, !.call = c] BY DEF ReadBegin
<1>3. PICK c \in {"resident", "count", "ifaces", "wait"} :
          rd' = [pc |-> c, call |-> c, got |-> << >>, usage |-> 0, count |-> 0, ret |-> 0]
  BY <1>2 DEF NoReader
<1>4. RdInv' BY <1>3, FreshReader
<1> QED BY <1>1, <1>4, ReaderFrame

\* The step leaves everything but the reader alone.
InRead == UNCHANGED <<vars, client, sys, st, upd, waited>>

\* The result of a snapshot.
LEMMA ResultKept ==
    ASSUME MonInv, InRead, NEW v, Result(v), rd.pc \in {"total", "count", "raw"},
           rd.pc = "total" => v = st.memTotal,
           rd.pc = "count" => v \in Int /\ ~(v > 0) /\ (v = 0 => st.count = 0),
           rd.pc = "raw" => v = rd.count /\ Len(rd.got) > rd.count
    PROVE  RdInv'
<1>1. rd' = [rd EXCEPT !.pc = "result", !.ret = v] BY DEF Result
<1>2. /\ rd'.pc = "result" /\ rd'.call = rd.call /\ rd'.got = rd.got /\ rd'.usage = rd.usage /\ rd'.count = rd.count
      /\ rd'.ret = v
  BY <1>1 DEF MonInv, RdInv, RdType
<1>3. RdType' BY <1>1, <1>2 DEF MonInv, RdInv, RdType, ReadPcs
<1>4. CallInv' /\ CopyInv' BY <1>2 DEF CallInv, CopyInv
<1>5. waited /\ sys.broken = {} => st.count > 0 /\ st.memTotal > 0
  BY DEF MonInv, LifeInv, StInv, LoadInv
<1>6. rd.pc = "raw" => Copied(rd.count + 1) /\ rd.count > 0 /\ rd.count \in Nat BY DEF MonInv, RdInv, CopyInv, RdType
<1>7. \A n : Copied(n)' <=> Copied(n) BY <1>2 DEF Copied
<1>8. rd.pc = "total" => rd.call = "resident" BY DEF MonInv, RdInv, CallInv
<1>9. rd.pc \in {"count", "raw"} => rd.call = "count" BY DEF MonInv, RdInv, CallInv
<1>10. rd.pc = "raw" => Len(rd.got) = rd.count + 1 BY <1>6 DEF Copied
<1>11. CASE rd.pc = "total"
  <2>1. SnapInv' BY <1>2, <1>5, <1>8, <1>11 DEF SnapInv, InRead, MonInv, RdInv
  <2> QED BY <1>3, <1>4, <2>1 DEF RdInv
<1>12. CASE rd.pc = "count"
  <2>1. SnapInv' BY <1>2, <1>5, <1>9, <1>12 DEF SnapInv, InRead
  <2> QED BY <1>3, <1>4, <2>1 DEF RdInv
<1>13. CASE rd.pc = "raw"
  <2>1. SnapInv' BY <1>2, <1>6, <1>7, <1>9, <1>10, <1>13 DEF SnapInv, InRead
  <2> QED BY <1>3, <1>4, <2>1 DEF RdInv
<1> QED BY <1>11, <1>12, <1>13

\* The sizes of memory are there after the first load.
LEMMA ReadMemoryKept == ASSUME MonInv, InRead, ReadMemory PROVE RdInv'
<1>1. ASSUME rd.pc = "resident", Read(st.resident, "total") PROVE RdInv'
  <2>1. rd' = [rd EXCEPT !.got = Append(@, st.resident), !.pc = "total"] BY <1>1 DEF Read
  <2>2. rd.got = << >> /\ rd.call = "resident" BY <1>1 DEF MonInv, RdInv, SnapInv, CallInv
  <2>3. /\ rd'.pc = "total" /\ rd'.call = "resident" /\ rd'.got = Append(<< >>, st.resident) /\ rd'.usage = rd.usage
        /\ rd'.count = rd.count
    BY <2>1, <2>2 DEF MonInv, RdInv, RdType
  <2>4. rd'.got[1] = st.resident BY <2>3
  <2>5. RdType' BY <2>1, <2>3 DEF MonInv, RdInv, RdType, ReadPcs
  <2>6. CallInv' /\ CopyInv' BY <2>3 DEF CallInv, CopyInv
  <2>7. waited /\ sys.broken = {} => st.resident > 0
    BY <1>1 DEF MonInv, LifeInv, StInv, LoadInv
  <2>8. SnapInv' BY <2>3, <2>4, <2>7 DEF SnapInv, InRead
  <2> QED BY <2>5, <2>6, <2>8 DEF RdInv
<1>2. ASSUME rd.pc = "total", Result(st.memTotal) PROVE RdInv' BY <1>2, ResultKept
<1> QED BY <1>1, <1>2 DEF ReadMemory, Reading

\* The number of CPUs is that of the list, which does not change any more.
LEMMA ReadCountKept == ASSUME MonInv, InRead, ReadCount PROVE RdInv'
<1>1. rd.pc = "count" /\ rd.got = << >> /\ rd.call = "count" /\ st.count \in Nat
  BY DEF ReadCount, Reading, MonInv, RdInv, CopyInv, CallInv, StInv, StType
<1>2. CASE st.count = 0 /\ Result(0)
  <2>1. Result(0) /\ st.count = 0 BY <1>2
  <2> QED BY <1>1, <2>1, ResultKept
<1>3. CASE st.count > 0 /\ Result(-1)
  <2>1. Result(-1) BY <1>3
  <2>2. -1 \in Int /\ ~(-1 > 0) /\ -1 # 0 OBVIOUS
  <2> QED BY <1>1, <2>1, <2>2, ResultKept
<1>4. CASE st.count > 0 /\ rd' = [rd EXCEPT !.count = st.count, !.pc = "usage"]
  <2>1. rd'.pc = "usage" /\ rd'.call = "count" /\ rd'.got = << >> /\ rd'.usage = rd.usage /\ rd'.count = st.count
    BY <1>1, <1>4 DEF MonInv, RdInv, RdType
  <2>2. RdType' BY <1>1, <1>4, <2>1 DEF MonInv, RdInv, RdType, ReadPcs
  <2>3. CallInv' /\ CopyInv' /\ SnapInv' BY <1>4, <2>1 DEF CallInv, CopyInv, SnapInv, InRead
  <2> QED BY <2>2, <2>3 DEF RdInv
<1> QED BY <1>2, <1>3, <1>4 DEF ReadCount

\* The usage that is read is no newer than the sum read after it.
LEMMA ReadUsageKept == ASSUME MonInv, InRead, ReadUsage PROVE RdInv'
<1>1. /\ rd.pc = "usage" /\ rd.got = << >> /\ rd.call = "count" /\ st.usage \in Nat /\ st.usage <= st.sum.raw
      /\ rd.count = st.count /\ st.count > 0 /\ rd.count \in Nat
  BY DEF ReadUsage, Reading, MonInv, RdInv, CopyInv, CallInv, StInv, StType, TimeInv, RdType
<1>2. rd' = [rd EXCEPT !.usage = st.usage, !.pc = "raw"] BY DEF ReadUsage
<1>3. rd'.pc = "raw" /\ rd'.call = "count" /\ rd'.got = << >> /\ rd'.usage = st.usage /\ rd'.count = rd.count
  BY <1>1, <1>2 DEF MonInv, RdInv, RdType
<1>4. RdType' BY <1>1, <1>2, <1>3 DEF MonInv, RdInv, RdType, ReadPcs
<1>5. Copied(rd.count + 1)' BY <1>1, <1>3 DEF Copied
<1>6. CallInv' /\ CopyInv' /\ SnapInv' BY <1>1, <1>3, <1>5 DEF CallInv, CopyInv, SnapInv, InRead
<1> QED BY <1>4, <1>6 DEF RdInv

\* The CPU that is copied next is in the list.
LEMMA InfoTypes ==
    ASSUME MonInv, rd.pc \in {"raw", "pct"}, NEW i \in 0..rd.count
    PROVE  Info(i) \in Infos /\ InfoOK(Info(i), sys.tick)
<1>1. rd.count = st.count /\ st.count > 0 /\ rd.count \in Nat BY DEF MonInv, RdInv, CopyInv, RdType
<1>2. Len(st.cores) = rd.count /\ st.cores \in Seq(Infos) /\ st.sum \in Infos
  BY <1>1 DEF MonInv, StInv, CoreInv, StType
<1>3. CASE i = 0
  BY <1>2, <1>3 DEF Info, MonInv, StInv, TimeInv
<1>4. CASE i # 0
  <2>1. i \in 1..Len(st.cores) BY <1>1, <1>2, <1>4
  <2>2. Info(i) = st.cores[i] BY <1>4 DEF Info
  <2> QED BY <1>2, <2>1, <2>2 DEF MonInv, StInv, TimeInv
<1> QED BY <1>3, <1>4

\* The counters that are copied are no newer than the percentages copied after them.
LEMMA ReadCPUKept == ASSUME MonInv, InRead, ReadCPU PROVE RdInv'
<1> DEFINE i == Len(rd.got)
<1>1. rd.pc \in {"raw", "pct"} BY DEF ReadCPU, Reading
<1>2. /\ rd.count = st.count /\ st.count > 0 /\ rd.count \in Nat /\ rd.got \in Seq(Infos) /\ i \in 0..(rd.count + 1)
      /\ rd.usage <= st.sum.raw /\ rd.call = "count" /\ Copied(rd.count + 1)
  <2>1. rd.count = st.count /\ st.count > 0 /\ rd.count \in Nat /\ rd.usage <= st.sum.raw /\ rd.call = "count"
        /\ Copied(rd.count + 1)
    BY <1>1 DEF MonInv, RdInv, CopyInv, RdType, CallInv
  <2> QED BY <2>1 DEF Copied
<1>3. \A j \in 1..i : rd.got[j] \in Infos BY <1>2
<1>4. UNCHANGED <<st, sys, waited>> BY DEF InRead
<1>5. ASSUME rd.pc = "raw", i <= rd.count, Read([raw |-> Info(i).raw, pct |-> 0, temp |-> 0], "pct") PROVE RdInv'
  <2> DEFINE e == [raw |-> Info(i).raw, pct |-> 0, temp |-> 0]
  <2>1. Info(i) \in Infos BY <1>1, <1>2, <1>5, InfoTypes
  <2>2. Info(i).raw \in Nat BY <2>1 DEF Infos
  <2>3. e \in Infos BY <2>2 DEF Infos, Temps
  <2>4. e.raw = Info(i).raw /\ e.pct = 0 OBVIOUS
  <2>5. rd' = [rd EXCEPT !.got = Append(@, e), !.pc = "pct"] BY <1>5 DEF Read
  <2> HIDE DEF e, i
  <2>6. rd'.pc = "pct" /\ rd'.call = "count" /\ rd'.got = Append(rd.got, e) /\ rd'.usage = rd.usage /\ rd'.count = rd.count
    BY <1>2, <2>5 DEF MonInv, RdInv, RdType
  <2>7. /\ rd'.got \in Seq(Infos) /\ Len(rd'.got) = i + 1 /\ rd'.got[i + 1] = e
        /\ \A j \in 1..i : rd'.got[j] = rd.got[j]
    BY <1>2, <2>3, <2>6 DEF i
  <2>8. RdType' BY <2>5, <2>6 DEF MonInv, RdInv, RdType, ReadPcs
  <2>9. Copied(rd.count + 1)'
    <3>1. Len(rd'.got) <= rd'.count + 1 BY <1>2, <1>5, <2>6, <2>7
    <3>2. \A j \in 1..Len(rd'.got) : rd'.got[j].pct # 0 => rd'.got[j].raw <= rd'.got[j].pct
      <4>1. \A j \in 1..(i + 1) : j = i + 1 \/ j \in 1..i BY <1>2
      <4>2. \A j \in 1..i : rd.got[j].pct # 0 => rd.got[j].raw <= rd.got[j].pct BY <1>2 DEF Copied, i
      <4> QED BY <2>4, <2>7, <4>1, <4>2
    <3>3. rd'.usage <= rd'.got[1].raw
      <4>1. CASE i = 0
        <5>1. rd'.got[1] = e /\ Info(i) = st.sum BY <2>7, <4>1 DEF Info
        <5> QED BY <1>2, <2>4, <2>6, <5>1
      <4>2. CASE i # 0
        <5>1. 1 \in 1..i /\ rd.got # << >> BY <1>2, <4>2 DEF i
        <5> QED BY <1>2, <2>6, <2>7, <5>1 DEF Copied
      <4> QED BY <4>1, <4>2
    <3> QED BY <2>7, <3>1, <3>2, <3>3 DEF Copied
  <2>11. rd'.got # << >> /\ rd'.got[Len(rd'.got)].raw <= Info(Len(rd.got) - 1)'.raw
    <3>1. (i + 1) - 1 = i BY <1>2
    <3>2. Len(rd'.got) # 0 BY <1>2, <2>7
    <3>3. Info(Len(rd.got) - 1)' = Info(i) BY <1>4, <2>7, <3>1 DEF Info
    <3>4. Info(i).raw <= Info(i).raw BY <2>2
    <3> QED BY <2>4, <2>7, <3>2, <3>3, <3>4
  <2>12. CallInv' BY <2>6 DEF CallInv
  <2>13. CopyInv' BY <1>2, <1>4, <2>6, <2>9, <2>11 DEF CopyInv
  <2>14. SnapInv' BY <2>6 DEF SnapInv
  <2> QED BY <2>8, <2>12, <2>13, <2>14 DEF RdInv
<1>6. ASSUME rd.pc = "pct",
             rd' = [rd EXCEPT !.got[i] = [raw |-> @.raw, pct |-> Info(i - 1).pct, temp |-> Info(i - 1).temp], !.pc = "raw"]
      PROVE  RdInv'
  <2> DEFINE e == [raw |-> rd.got[i].raw, pct |-> Info(i - 1).pct, temp |-> Info(i - 1).temp]
  <2>1. i \in 1..(rd.count + 1) /\ rd.got[i].raw <= Info(i - 1).raw
    BY <1>2, <1>6 DEF MonInv, RdInv, CopyInv
  <2>2. i - 1 \in 0..rd.count BY <1>2, <2>1
  <2>3. Info(i - 1) \in Infos /\ InfoOK(Info(i - 1), sys.tick) BY <1>1, <2>2, InfoTypes
  <2>4. rd.got[i] \in Infos BY <1>3, <2>1
  <2> DEFINE a == rd.got[i].raw
             b == Info(i - 1).raw
             p == Info(i - 1).pct
  <2>5. a \in Nat /\ b \in Nat /\ p \in Nat /\ a <= b /\ (p # 0 => b <= p)
    BY <2>1, <2>3, <2>4 DEF Infos, InfoOK
  <2>6. e \in Infos BY <2>3, <2>4 DEF Infos
  <2>7. e.raw = a /\ e.pct = p OBVIOUS
  <2>8. e.pct # 0 => e.raw <= e.pct
    <3> HIDE DEF a, b, p, e
    <3> QED BY <2>5, <2>7
  <2>9. rd' = [rd EXCEPT !.got = [@ EXCEPT ![i] = e], !.pc = "raw"] BY <1>6
  <2> HIDE DEF e, a, b, p
  <2>10. rd'.pc = "raw" /\ rd'.call = "count" /\ rd'.got = [rd.got EXCEPT ![i] = e] /\ rd'.usage = rd.usage /\ rd'.count = rd.count
    BY <1>2, <2>9 DEF MonInv, RdInv, RdType
  <2> HIDE DEF i
  <2>11. /\ rd'.got \in Seq(Infos) /\ Len(rd'.got) = i /\ rd'.got[i] = e
         /\ \A j \in 1..i : j # i => rd'.got[j] = rd.got[j]
    BY <1>2, <2>1, <2>6, <2>10 DEF i
  <2>12. RdType' BY <2>9, <2>10 DEF MonInv, RdInv, RdType, ReadPcs
  <2>13. Copied(rd.count + 1)'
    <3>1. Len(rd'.got) <= rd'.count + 1 BY <2>1, <2>10, <2>11
    <3>2. \A j \in 1..i : rd.got[j].pct # 0 => rd.got[j].raw <= rd.got[j].pct BY <1>2 DEF Copied, i
    <3>3. \A j \in 1..Len(rd'.got) : rd'.got[j].pct # 0 => rd'.got[j].raw <= rd'.got[j].pct
      BY <2>8, <2>11, <3>2
    <3>4. rd.usage <= rd.got[1].raw /\ rd'.got[1].raw = rd.got[1].raw
      <4>1. rd.got # << >> /\ 1 \in 1..i BY <1>6, <2>1 DEF MonInv, RdInv, CopyInv
      <4> QED BY <1>2, <2>7, <2>11, <4>1 DEF Copied, a
    <3> QED BY <2>10, <2>11, <3>1, <3>3, <3>4 DEF Copied
  <2>14. CallInv' BY <2>10 DEF CallInv
  <2>15. CopyInv' BY <1>2, <1>4, <2>10, <2>13 DEF CopyInv
  <2>16. SnapInv' BY <2>10 DEF SnapInv
  <2> QED BY <2>12, <2>14, <2>15, <2>16 DEF RdInv
<1>7. ASSUME rd.pc = "raw", i > rd.count, Result(rd.count) PROVE RdInv' BY <1>7, ResultKept
<1> QED BY <1>5, <1>6, <1>7, Zenon DEF ReadCPU, Reading

\* A snapshot of the interfaces is taken at once.
LEMMA ReadIfacesKept == ASSUME MonInv, InRead, ReadIfaces PROVE RdInv'
<1> DEFINE list == SelectSeq(st.ifaces, LAMBDA e : e.active)
           len == Len(list)
<1>1. rd.pc = "ifaces" /\ rd' = [rd EXCEPT !.got = list, !.pc = "result", !.ret = len] BY DEF ReadIfaces, Reading
<1> HIDE DEF len, list
<1>2. rd.call = "ifaces" BY <1>1 DEF MonInv, RdInv, CallInv
<1>3. rd'.pc = "result" /\ rd'.call = "ifaces" /\ rd'.usage = rd.usage /\ rd'.count = rd.count
  BY <1>1, <1>2 DEF MonInv, RdInv, RdType
<1>4. RdType' BY <1>1, <1>3 DEF MonInv, RdInv, RdType, ReadPcs
<1>5. CallInv' /\ CopyInv' /\ SnapInv' BY <1>3 DEF CallInv, CopyInv, SnapInv
<1> QED BY <1>4, <1>5 DEF RdInv

\* The reader keeps the invariant.
LEMMA ReadStepKept == ASSUME MonInv, ReadStep PROVE MonInv'
<1>1. UNCHANGED <<vars, client, sys, st, upd>> BY DEF ReadStep
<1>2. ASSUME ReadMemory \/ ReadCount \/ ReadUsage \/ ReadCPU \/ ReadIfaces, UNCHANGED waited PROVE MonInv'
  <2>1. InRead BY <1>1, <1>2 DEF InRead
  <2>2. RdInv' BY <1>2, <2>1, ReadMemoryKept, ReadCountKept, ReadUsageKept, ReadCPUKept, ReadIfacesKept
  <2>3. rd.pc # "idle"
    BY <1>2 DEF ReadMemory, ReadCount, ReadUsage, ReadCPU, ReadIfaces, Reading
  <2> QED BY <1>1, <1>2, <2>2, <2>3, ReaderFrame
<1>3. ASSUME rd.pc # "idle", rd' = NoReader, waited' => waited \/ st.loaded PROVE MonInv'
  <2>1. rd' = [pc |-> "idle", call |-> "none", got |-> << >>, usage |-> 0, count |-> 0, ret |-> 0] BY <1>3 DEF NoReader
  <2>2. RdInv' BY <2>1, FreshReader
  <2> QED BY <1>1, <1>3, <2>2, ReaderFrame
<1>4. CASE ReadLoaded BY <1>3, <1>4 DEF ReadLoaded, Reading
<1>5. CASE Reading("result") /\ rd' = NoReader /\ UNCHANGED waited BY <1>3, <1>5 DEF Reading
<1> QED BY <1>2, <1>4, <1>5 DEF ReadStep

-----------------------------------------------------------------------------
(* The task around the update, the controlling thread and the kernel       *)

\* A step of the task leaves the monitor's state alone, and no update begins or ends in its middle.
LEMMA TaskFrame ==
    ASSUME MonInv, UNCHANGED monVars, TaskInv',
           client = "monitor" => /\ wpc = "callback" => wpc' = "callback"
                                 /\ ~Idle' => ~Idle \/ st.life = "ready"
    PROVE  MonInv'
<1> USE DEF monVars
<1>1. SysType' /\ UpdType' BY DEF MonInv, SysType, UpdType
<1>2. StInv' BY DEF MonInv, StInv, StType, CoreInv, TimeInv, LoadInv, IfaceInv, IfacesRight
<1>3. RdInv' BY DEF MonInv, RdInv, RdType, CallInv, CopyInv, SnapInv, Copied, Info
<1>4. LifeInv' BY DEF MonInv, LifeInv
<1> QED BY <1>1, <1>2, <1>3, <1>4 DEF MonInv

\* A task that does something else.
LEMMA AnyKept == ASSUME MonInv, AnyWorker \/ AnyController PROVE MonInv'
<1>1. TaskInv' BY WorkerIInv, ControllerIInv DEF AnyWorker, AnyController, MonInv, TaskInv
<1>2. client # "monitor" /\ UNCHANGED monVars BY DEF AnyWorker, AnyController
<1> QED BY <1>1, <1>2, TaskFrame

\* The worker outside of the callback.
LEMMA TaskStepKept == ASSUME MonInv, TaskStep PROVE MonInv'
<1>1. TaskInv' BY WorkerIInv DEF TaskStep, Worker, MonInv, TaskInv
<1>2. wpc # "callback" /\ mpc' = mpc BY DEF TaskStep, WorkerStart, WorkerTest, WorkerExit, ctrl
<1>3. UNCHANGED monVars BY DEF TaskStep
<1> QED BY <1>1, <1>2, <1>3, TaskFrame DEF Idle

\* XMon_StartMonitoring and XMon_StopMonitoring.
LEMMA CallsKept ==
    ASSUME MonInv, UNCHANGED monVars, XMon_StartMonitoring \/ StartReturn \/ XMon_StopMonitoring \/ WaitReturn
    PROVE  MonInv'
<1>1. TaskInv' BY ControllerIInv DEF Controller, XMon_StartMonitoring, XMon_StopMonitoring, MonInv, TaskInv
<1>2. CASE XMon_StartMonitoring
  <2>1. wpc # "callback" /\ st.life = "ready" BY <1>2 DEF XMon_StartMonitoring, XTask_Start
  <2> QED BY <1>1, <2>1, TaskFrame
<1>3. CASE StartReturn \/ XMon_StopMonitoring \/ WaitReturn
  <2>1. wpc' = wpc /\ mpc # "idle" BY <1>3 DEF StartReturn, XMon_StopMonitoring, XTask_Stop, Command, WaitReturn
  <2> QED BY <1>1, <2>1, TaskFrame DEF Idle
<1> QED BY <1>2, <1>3

\* XMon_UpdateStats returns.
LEMMA ReturnKept == ASSUME MonInv, UpdateReturn PROVE MonInv'
<1>1. upd.pc = "end" /\ wpc = "callback" /\ wpc' = "test" /\ UNCHANGED <<client, sys, st, rd, waited>> /\ mpc' = mpc
  BY DEF UpdateReturn, Updating, CallbackReturn, ctrl
<1>2. TaskInv' BY WorkerIInv DEF UpdateReturn, Worker, MonInv, TaskInv
<1>3. upd' = [pc |-> "stat", at |-> 0, id |-> -1, count |-> 0, left |-> {}] BY DEF UpdateReturn, NoUpdate
<1>4. UpdType' BY <1>3 DEF UpdType, UpdPcs
<1>5. upd'.pc = "stat" /\ upd'.at = 0 /\ upd' = NoUpdate BY <1>3 DEF NoUpdate
<1>6. StType' BY <1>1 DEF MonInv, StInv, StType
<1>7. CoreInv' BY <1>1, <1>5 DEF MonInv, StInv, CoreInv
<1>8. TimeInv' BY <1>1, <1>5 DEF MonInv, StInv, TimeInv, SysType
<1>9. LoadInv' BY <1>1, <1>5 DEF MonInv, StInv, LoadInv, AfterCount, AfterMem, AfterStatus
<1>10. IfaceInv' BY <1>1, <1>5, IfacesKept DEF MonInv, StInv
<1>11. RdInv' BY <1>1 DEF MonInv, RdInv, RdType, CallInv, CopyInv, SnapInv, Copied, Info
<1>12. LifeInv' BY <1>1, <1>5 DEF MonInv, LifeInv, Idle
<1>13. SysType' BY <1>1 DEF MonInv, SysType
<1> QED BY <1>2, <1>4, <1>6, <1>7, <1>8, <1>9, <1>10, <1>11, <1>12, <1>13 DEF MonInv, StInv

\* Statistics that hold nothing.
LEMMA FreshStats ==
    ASSUME SysType, UpdType, upd = NoUpdate, rd.pc = "idle", RdType, UNCHANGED <<sys, upd, rd>>, NEW l,
           st' = [NoStats EXCEPT !.life = l]
    PROVE  StInv' /\ RdInv' /\ st'.life = l
<1>1. /\ st' = [life |-> l, count |-> 0, cores |-> << >>, sum |-> [raw |-> 0, pct |-> 0, temp |-> 0], usage |-> 0,
               memTotal |-> 0, resident |-> 0, ifaces |-> << >>, lock |-> "free", loaded |-> FALSE, crashed |-> FALSE]
  BY DEF NoStats, NoInfo
<1>2. /\ st'.life = l /\ st'.count = 0 /\ st'.cores = << >> /\ st'.sum = [raw |-> 0, pct |-> 0, temp |-> 0] /\ st'.usage = 0
      /\ st'.memTotal = 0 /\ st'.resident = 0 /\ st'.ifaces = << >> /\ st'.lock = "free" /\ ~st'.loaded /\ ~st'.crashed
  BY <1>1
<1>3. upd'.pc = "stat" /\ upd'.at = 0 BY DEF NoUpdate
<1>4. [raw |-> 0, pct |-> 0, temp |-> 0] \in Infos BY DEF Infos, Temps
<1>5. StType'
  <2>1. st' = [life |-> st'.life, count |-> st'.count, cores |-> st'.cores, sum |-> st'.sum, usage |-> st'.usage,
             memTotal |-> st'.memTotal, resident |-> st'.resident, ifaces |-> st'.ifaces, lock |-> st'.lock,
             loaded |-> st'.loaded, crashed |-> st'.crashed]
    BY <1>1
  <2>2. st'.cores \in Seq(Infos) /\ st'.sum \in Infos /\ st'.ifaces \in Seq(IfaceSet)
    <3>1. << >> \in Seq(Infos) /\ << >> \in Seq(IfaceSet) OBVIOUS
    <3> QED BY <1>2, <1>4, <3>1, Zenon
  <2>3. st'.count \in Nat /\ st'.usage \in Nat /\ st'.memTotal \in Nat /\ st'.resident \in Nat BY <1>2
  <2> QED BY <2>1, <2>2, <2>3 DEF StType
<1>6. CoreInv' BY <1>2, <1>3 DEF CoreInv
<1>7. TimeInv' BY <1>2, <1>3 DEF TimeInv, InfoOK, SysType
<1>8. LoadInv' BY <1>2, <1>3 DEF LoadInv, AfterCount, AfterMem, AfterStatus
<1>9. IfaceInv' BY <1>2, <1>3 DEF IfaceInv, IfacesRight
<1>10. RdInv' BY DEF RdInv, RdType, CallInv, CopyInv, SnapInv
<1> QED BY <1>2, <1>5, <1>6, <1>7, <1>8, <1>9, <1>10 DEF StInv

\* XMon_InitStats, when no thread is left that uses the statistics.
LEMMA InitStatsKept == ASSUME MonInv, XMon_InitStats PROVE MonInv'
<1>1. /\ client = "monitor" /\ Idle /\ st.life # "ready" /\ st' = [NoStats EXCEPT !.life = "ready"] /\ status' = "FAIL"
      /\ ~waited' /\ UNCHANGED <<action, wpc, paused, ctrl, client, sys, upd, rd>>
  BY DEF XMon_InitStats
<1>2. wpc \in {"none", "done"} BY <1>1 DEF MonInv, TaskInv, IInv, StopInv, Idle
<1>3. TaskInv'
  BY <1>1, <1>2 DEF MonInv, TaskInv, IInv, TypeOK, Actions, Statuses, PausedInv, HeldInv, GoalInv, StopInv, PauseInv, ctrl, Idle
<1>4. upd = NoUpdate /\ rd.pc = "idle" BY <1>1, <1>2 DEF MonInv, LifeInv
<1>5. SysType /\ UpdType /\ RdType BY DEF MonInv, RdInv
<1>6. StInv' /\ RdInv' /\ st'.life = "ready" BY <1>1, <1>4, <1>5, FreshStats
<1>7. LifeInv' BY <1>1, <1>4, <1>6 DEF LifeInv
<1>8. SysType' /\ UpdType' BY <1>1, <1>5 DEF SysType, UpdType
<1> QED BY <1>3, <1>6, <1>7, <1>8 DEF MonInv

\* XMon_DestroyStats, after the worker and the reader.
LEMMA DestroyKept == ASSUME MonInv, XMon_DestroyStats PROVE MonInv'
<1>1. /\ client = "monitor" /\ Idle /\ rd.pc = "idle" /\ st' = [NoStats EXCEPT !.life = "gone"]
      /\ UNCHANGED <<vars, client, sys, upd, rd, waited>>
  BY DEF XMon_DestroyStats, Reading
<1>2. wpc \in {"none", "done"} BY <1>1 DEF MonInv, TaskInv, IInv, StopInv, Idle
<1>3. TaskInv' BY <1>1 DEF vars, MonInv, TaskInv, IInv, TypeOK, PausedInv, HeldInv, GoalInv, StopInv, PauseInv
<1>4. upd = NoUpdate BY <1>1, <1>2 DEF MonInv, LifeInv
<1>5. SysType /\ UpdType /\ RdType BY DEF MonInv, RdInv
<1>6. StInv' /\ RdInv' /\ st'.life = "gone" BY <1>1, <1>4, <1>5, FreshStats
<1>7. LifeInv' BY <1>1, <1>4, <1>6 DEF LifeInv, vars, Idle
<1>8. SysType' /\ UpdType' BY <1>1, <1>5 DEF SysType, UpdType
<1> QED BY <1>3, <1>6, <1>7, <1>8 DEF MonInv

\* What the kernel tells changes; its time does not go back.
LEMMA SysKept == ASSUME MonInv, SysChange PROVE MonInv'
<1>1. UNCHANGED <<vars, client, st, upd, rd, waited>> BY DEF SysChange
<1>2. SysType /\ sys.tick \in Nat BY DEF MonInv, SysType
<1> DEFINE c == sys.changes + 1
<1>3. SysType' /\ sys'.tick \in Nat /\ sys'.tick >= sys.tick /\ sys'.broken = sys.broken
  <2>1. CASE sys' = [sys EXCEPT !.changes = @ + 1, !.tick = @ + 1]
    <3> DEFINE t == sys.tick + 1
    <3>1. sys' = [sys EXCEPT !.changes = c, !.tick = t] BY <2>1, Zenon
    <3>2. t \in Nat /\ t >= sys.tick BY <1>2
    <3> HIDE DEF c, t
    <3>3. sys' = [tick |-> t, changes |-> c, net |-> sys.net, broken |-> sys.broken] BY <1>2, <3>1 DEF SysType
    <3>4. sys'.tick = t /\ sys'.changes = c /\ sys'.net = sys.net /\ sys'.broken = sys.broken BY <3>3
    <3> QED BY <1>2, <3>2, <3>3, <3>4 DEF SysType
  <2>2. CASE \E n \in Ifaces : \E b \in {-1, 0, sys.net[n] + 2} : sys' = [sys EXCEPT !.changes = @ + 1, !.net[n] = b]
    <3>0. PICK n \in Ifaces : \E b \in {-1, 0, sys.net[n] + 2} : sys' = [sys EXCEPT !.changes = @ + 1, !.net[n] = b] BY <2>2
    <3>1. PICK b \in {-1, 0, sys.net[n] + 2} : sys' = [sys EXCEPT !.changes = @ + 1, !.net[n] = b] BY <3>0
    <3>2. b \in Int /\ sys.net \in [Ifaces -> Int] BY <1>2, <3>1 DEF SysType
    <3> DEFINE m == [sys.net EXCEPT ![n] = b]
    <3>3. m \in [Ifaces -> Int] BY <3>2
    <3>4. sys' = [sys EXCEPT !.changes = c, !.net = m] BY <3>1, Zenon
    <3> HIDE DEF c, m
    <3>5. sys' = [tick |-> sys.tick, changes |-> c, net |-> m, broken |-> sys.broken] BY <1>2, <3>4 DEF SysType
    <3>6. sys'.tick = sys.tick /\ sys'.changes = c /\ sys'.net = m /\ sys'.broken = sys.broken BY <3>5
    <3> QED BY <1>2, <3>3, <3>5, <3>6 DEF SysType
  <2> QED BY <2>1, <2>2 DEF SysChange
<1>4. TaskInv' BY <1>1 DEF vars, MonInv, TaskInv, IInv, TypeOK, PausedInv, HeldInv, GoalInv, StopInv, PauseInv
<1>5. UpdType' /\ StType' BY <1>1 DEF MonInv, StInv, UpdType, StType
<1>6. \A i \in 1..Len(st.cores) : st.cores[i].raw \in Nat
  <2> TAKE i \in 1..Len(st.cores)
  <2>1. st.cores[i] \in Infos BY DEF MonInv, StInv, StType
  <2> QED BY <2>1 DEF Infos
<1>7. st.sum.raw \in Nat /\ upd.at \in Nat BY DEF MonInv, StInv, StType, Infos, UpdType
<1>8. TimeInv'
  <2>1. InfoOK(st.sum, sys'.tick) /\ upd.at <= sys'.tick
    BY <1>2, <1>3, <1>7 DEF MonInv, StInv, TimeInv, InfoOK
  <2>2. \A i \in 1..Len(st.cores) : InfoOK(st.cores[i], sys'.tick)
    BY <1>2, <1>3, <1>6 DEF MonInv, StInv, TimeInv, InfoOK
  <2> QED BY <1>1, <2>1, <2>2 DEF MonInv, StInv, TimeInv
<1>9. CoreInv' /\ IfaceInv' BY <1>1 DEF MonInv, StInv, CoreInv, IfaceInv, IfacesRight
<1>10. LoadInv' BY <1>1, <1>3 DEF MonInv, StInv, LoadInv
<1>11. Grows BY <1>1, <1>3, <1>6, <1>7 DEF Grows
<1>12. RdInv' BY <1>5, <1>11, ReaderKept
<1>13. LifeInv' BY <1>1 DEF MonInv, LifeInv, vars, Idle
<1> QED BY <1>3, <1>4, <1>5, <1>8, <1>9, <1>10, <1>12, <1>13 DEF MonInv, StInv

-----------------------------------------------------------------------------
\* Nothing is known at first.
LEMMA MonInitInv == MonInit => MonInv
<1> SUFFICES ASSUME MonInit PROVE MonInv OBVIOUS
<1>1. TaskInv BY InitIInv DEF MonInit, TaskInv
<1>2. PICK f \in Unreadable : sys = [tick |-> 1, changes |-> Cardinality(f), net |-> [n \in Ifaces |-> 1], broken |-> f]
  BY DEF MonInit
<1>3. SysType BY <1>2 DEF SysType
<1>4. upd = [pc |-> "stat", at |-> 0, id |-> -1, count |-> 0, left |-> {}] BY DEF MonInit, NoUpdate
<1>5. UpdType /\ upd.pc = "stat" /\ upd.at = 0 BY <1>4 DEF UpdType, UpdPcs
<1>6. rd = [pc |-> "idle", call |-> "none", got |-> << >>, usage |-> 0, count |-> 0, ret |-> 0] BY DEF MonInit, NoReader
<1>7. rd.pc = "idle" /\ rd.call = "none" /\ rd.usage = 0 /\ rd.count = 0 BY <1>6
<1>8. RdInv BY <1>6, <1>7 DEF RdInv, RdType, ReadPcs, CallInv, CopyInv, SnapInv
<1>9. /\ st = [life |-> "none", count |-> 0, cores |-> << >>, sum |-> [raw |-> 0, pct |-> 0, temp |-> 0], usage |-> 0,
               memTotal |-> 0, resident |-> 0, ifaces |-> << >>, lock |-> "free", loaded |-> FALSE, crashed |-> FALSE]
  BY DEF MonInit, NoStats, NoInfo
<1>10. /\ st.life = "none" /\ st.count = 0 /\ st.cores = << >> /\ st.sum = [raw |-> 0, pct |-> 0, temp |-> 0] /\ st.usage = 0
       /\ st.memTotal = 0 /\ st.resident = 0 /\ st.ifaces = << >> /\ st.lock = "free" /\ ~st.loaded /\ ~st.crashed
  BY <1>9
<1>11. [raw |-> 0, pct |-> 0, temp |-> 0] \in Infos BY DEF Infos, Temps
<1>12. StType
  <2>1. st = [life |-> st.life, count |-> st.count, cores |-> st.cores, sum |-> st.sum, usage |-> st.usage,
             memTotal |-> st.memTotal, resident |-> st.resident, ifaces |-> st.ifaces, lock |-> st.lock,
             loaded |-> st.loaded, crashed |-> st.crashed]
    BY <1>9
  <2> QED BY <1>10, <1>11, <2>1 DEF StType
<1>13. CoreInv BY <1>5, <1>10 DEF CoreInv
<1>14. TimeInv BY <1>2, <1>5, <1>10 DEF TimeInv, InfoOK
<1>15. LoadInv BY <1>5, <1>10 DEF LoadInv, AfterCount, AfterMem, AfterStatus
<1>16. IfaceInv BY <1>5, <1>10 DEF IfaceInv, IfacesRight
<1>17. LifeInv BY <1>7 DEF LifeInv, MonInit, Init, Idle
<1> QED BY <1>1, <1>3, <1>5, <1>8, <1>12, <1>13, <1>14, <1>15, <1>16, <1>17 DEF MonInv, StInv

\* Every step keeps the invariant.
LEMMA MonNextInv == ASSUME ~AllocFails, MonInv, [MonNext]_allVars PROVE MonInv'
<1>1. CASE MonNext
  <2>1. CASE AnyWorker \/ AnyController BY <2>1, AnyKept
  <2>2. CASE MonWorker BY <2>2, TaskStepKept, UpdateStepKept, ReturnKept DEF MonWorker
  <2>3. CASE MonController BY <2>3, CallsKept, InitStatsKept, DestroyKept DEF MonController
  <2>4. CASE ReadBegin /\ UNCHANGED <<vars, client, sys, st, upd, waited>> BY <2>4, BeginKept
  <2>5. CASE ReadStep BY <2>5, ReadStepKept
  <2>6. CASE SysChange BY <2>6, SysKept
  <2> QED BY <1>1, <2>1, <2>2, <2>3, <2>4, <2>5, <2>6 DEF MonNext
<1>2. CASE UNCHANGED allVars
  <2>1. UNCHANGED vars /\ UNCHANGED monVars BY <1>2 DEF allVars
  <2>2. TaskInv' BY <2>1 DEF vars, MonInv, TaskInv, IInv, TypeOK, PausedInv, HeldInv, GoalInv, StopInv, PauseInv
  <2>3. wpc' = wpc /\ mpc' = mpc BY <2>1 DEF vars
  <2> QED BY <2>1, <2>2, <2>3, TaskFrame DEF Idle
<1> QED BY <1>1, <1>2

\* The invariant implies what the run checks.
LEMMA MonInvConsistent == MonInv => MonitorConsistent
<1> SUFFICES ASSUME MonInv PROVE MonitorConsistent OBVIOUS
<1>1. ~st.crashed /\ IfacesRight BY DEF MonInv, StInv, CoreInv, IfaceInv
<1>2. StatsAlive
  BY DEF StatsAlive, Reading, MonInv, LifeInv, TaskInv, IInv, StopInv, Idle
<1>3. CpuSnapshot
  <2>1. ASSUME rd.call = "count", rd.pc = "result", rd.ret > 0
        PROVE  /\ Len(rd.got) = rd.count + 1 /\ rd.usage <= rd.got[1].raw
               /\ \A i \in 1..Len(rd.got) : rd.got[i].pct # 0 => rd.got[i].raw <= rd.got[i].pct
    <3>1. Copied(rd.count + 1) /\ Len(rd.got) = rd.count + 1 /\ rd.count \in Nat BY <2>1 DEF MonInv, RdInv, SnapInv, RdType
    <3>2. rd.got # << >> BY <3>1
    <3> QED BY <3>1, <3>2 DEF Copied
  <2> QED BY <2>1 DEF CpuSnapshot, Reading
<1>4. CoresPublished
  <2>1. ASSUME rd.pc \in {"raw", "pct"}
        PROVE  rd.count = Len(st.cores) /\ ~(upd.pc = "line" /\ upd.count = 0)
    <3>1. rd.count = st.count /\ st.count > 0 BY <2>1 DEF MonInv, RdInv, CopyInv
    <3>2. st.count # 0 BY <3>1
    <3> QED BY <3>1, <3>2 DEF MonInv, StInv, CoreInv
  <2> QED BY <2>1 DEF CoresPublished, Reading, Updating
<1>5. LoadedIsSeen BY DEF LoadedIsSeen, Reading, MonInv, RdInv, SnapInv
<1> QED BY <1>1, <1>2, <1>3, <1>4, <1>5, TemperaturesRight DEF MonitorConsistent

\* The task's own promises do not depend on what it repeats: a step of the monitor is one of the task
\* or leaves it alone, but for XMon_InitStats, which resets the status of a task that is idle.
THEOREM MonitorTask == MonSpec => [](TypeOK /\ HoldQuiets /\ StopQuiets)
<1>1. ASSUME IInv, UNCHANGED vars PROVE IInv'
  BY <1>1 DEF vars, IInv, TypeOK, PausedInv, HeldInv, GoalInv, StopInv, PauseInv
<1>2. ASSUME IInv, XMon_InitStats PROVE IInv'
  <2>1. Idle /\ status' = "FAIL" /\ UNCHANGED <<action, wpc, paused, ctrl>> BY <1>2 DEF XMon_InitStats
  <2>2. wpc \in {"none", "done"} BY <1>2, <2>1 DEF IInv, StopInv, Idle
  <2> QED
    BY <1>2, <2>1, <2>2 DEF IInv, TypeOK, Actions, Statuses, PausedInv, HeldInv, GoalInv, StopInv, PauseInv, ctrl, Idle
<1>3. MonNext => Worker \/ Controller \/ XMon_InitStats \/ UNCHANGED vars
  BY DEF MonNext, AnyWorker, AnyController, MonWorker, TaskStep, UpdateStep, UpdateReturn, MonController, XMon_StartMonitoring,
         XMon_StopMonitoring, XMon_DestroyStats, ReadStep, SysChange, Worker, Controller
<1>4. UNCHANGED allVars => UNCHANGED vars BY DEF allVars
<1>5. IInv /\ [MonNext]_allVars => IInv' BY <1>1, <1>2, <1>3, <1>4, WorkerIInv, ControllerIInv
<1>6. MonInit => IInv BY InitIInv DEF MonInit
<1>7. IInv => TypeOK /\ HoldQuiets /\ StopQuiets
  BY DEF IInv, TypeOK, HeldInv, PausedInv, HoldQuiets, StopInv, StopQuiets, Idle
<1> QED BY <1>5, <1>6, <1>7, PTL DEF MonSpec

\* MonInv is an invariant of worker, reader and controlling thread, if there is memory for every CPU.
THEOREM MonInvariant == ASSUME ~AllocFails PROVE MonSpec => []MonInv
<1>1. MonInv /\ [MonNext]_allVars => MonInv' BY MonNextInv
<1> QED BY MonInitInv, <1>1, PTL DEF MonSpec

\* Then snapshots that XMon_GetCPUStats and XMon_GetMemoryInfo take without a lock agree with
\* themselves, the list of CPUs stands still while it is read, interfaces and temperatures are right,
\* and no thread uses statistics that are gone, whatever the machine.
THEOREM MonitorStaysConsistent == ASSUME ~AllocFails PROVE MonSpec => []MonitorConsistent
BY MonInvariant, MonInvConsistent, PTL
=============================================================================
