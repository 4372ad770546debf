SPECIFICATION StreamSpec
CONSTANTS
    Scenario <- AllSessions
    NUL = NUL
    JUNK = JUNK
    InfoBytes = 1
    Len7 = 3
    Len16 = 5
    RxSize = 4
    RxMax = 6
    DrainMax = 3
    RecordMax = 6
    SendRoom = 2
    OutLen = 2
    AllowMissingKey = FALSE
    Assumed = {"mdtp", "handshake"}
INVARIANTS DeliveredAsSent NoFalseError SentInOrder
PROPERTIES Drained Flushed
CHECK_DEADLOCK FALSE
