SPECIFICATION StreamSpec
CONSTANTS
    Scenario <- OneMdtp
    NUL = NUL
    JUNK = JUNK
    InfoBytes = 1
    Len7 = 3
    Len16 = 5
    RxSize = 4
    RxMax = 6
    DrainMax = 3
    RecordMax = 6
    SendRoom = 2
    OutLen = 2
    AllowMissingKey = FALSE
    Assumed = {"handshake"}
INVARIANT DeliveredAsSent
CHECK_DEADLOCK FALSE
