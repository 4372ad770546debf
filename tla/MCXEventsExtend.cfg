SPECIFICATION Spec
CONSTANTS
    d1 = d1
    d2 = d2
    Data = {d1, d2}
    Fds = {3, 4, 5}
    NULL = NULL
    NEventMax = 2
    NBuckets = 2
    Bucket <- MCBucket
    Ready <- MCReady
    UseHash = TRUE
    CountMod = 8
INVARIANT ExtendedTimerSurvives
