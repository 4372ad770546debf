------------------------------- MODULE MCXMon -------------------------------
(* The repeating task with any callback, and as the worker of the monitor  *)
(* of a machine with two CPUs and an interface.                            *)
EXTENDS XMon

MCIntervals == {"wait", "poll"}
MCUnreadable == {{}, {"stat"}, {"proc"}, {"meminfo"}, {"status"}, {"net"}}
MCCoreOf == [c \in {0, 1} |-> c + 1]

Sensor(index, words, core, value) == [index |-> index, words |-> words, core |-> core, value |-> value]
Device(isCPU, sensors) == [isCPU |-> isCPU, sensors |-> sensors]

\* Up to two devices whose sensors work or not, in every order.
Kinds == {Sensor(1, {"Package"}, -1, 0), Sensor(1, {"Tctl"}, -1, 50), Sensor(2, {}, 1, 40), Sensor(3, {}, 1, 0),
          Sensor(2, {"CPU"}, -1, 60), Sensor(4, {}, 2, 45)}
MCSensors == {<<s>> : s \in Kinds} \cup {r \in Kinds \X Kinds : r[1].index # r[2].index}
MCDevices ==
    {<< >>} \cup {<<Device(b, s)>> : b \in BOOLEAN, s \in MCSensors}
            \cup {<<Device(FALSE, <<s>>), Device(TRUE, <<t>>)>> : s \in Kinds, t \in Kinds}
=============================================================================
