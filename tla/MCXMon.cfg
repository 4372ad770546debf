SPECIFICATION MonSpec
CONSTANTS
    Intervals <- MCIntervals
    Clients = {"any", "monitor"}
    Ifaces = {"eth"}
    CpuLines = 2
    CoreOf <- MCCoreOf
    IntervalSecs = 2
    Devices <- MCDevices
    Unreadable <- MCUnreadable
    MaxChanges = 1
    AllocFails = FALSE
INVARIANTS TypeOK HoldQuiets StopQuiets MonitorConsistent
PROPERTIES StopEnds CallsReturn MonitorEnds
