SPECIFICATION MCFairSpec
CONSTANTS
    Clients = {a, b}
    Busy = a
    Main = main
    Workers = {w1, w2}
    lblock = lblock
    loverrun = loverrun
    ldiscard = ldiscard
    Loggers = {lblock, loverrun, ldiscard}
    overflow_policy <- MCPolicy
    NumSinks = 2
    sink_level <- MCSinkLevel
    Levels = {1, 2}
    flush_level = 2
    Capacity = 2
    MaxCalls = 4
    MaxThrows = 1
INVARIANTS
    OrderPerClient
    NoTerminateLost
    DrainedOnDestruction
    FlushCoversEarlierCalls
PROPERTIES
    CallsReturn
    PoolEventuallyGone
