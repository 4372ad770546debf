SPECIFICATION FairSpec
CONSTANTS
    NWorkers = 2
    p1 = p1
    p2 = p2
    p3 = p3
    Pid = {p1, p2, p3}
    NULL = NULL
PROPERTY InterruptStopsWatch
