SPECIFICATION Spec
CONSTANTS
    Threads = {t1, t2}
    Payloads = {"a"}
    Levels = {1, 2}
    FlushLevel = 2
    TraceSize = 1
    MaxMsgs = 3
    MaxTime = 1
    MaxErrors = 1
    MaxChanges = 2
    RingSize = 1
    MaxSkip = 0
    CallbackLevel = 2
    MsgSize = 2
    Addresses = 2
    Timed = TRUE
    LazyConnect = TRUE
SYMMETRY ThreadSymmetry
INVARIANTS
    BacktraceKept
    SkippedAccounted
    StreamsWhole
CHECK_DEADLOCK FALSE
