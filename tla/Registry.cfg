SPECIFICATION FairSpec
CONSTANTS
    Threads = {t1, t2}
    Names = {"n"}
    Attrs = {"formatter"}
    Levels = {2, 3}
    LevelSpecs <- MCLevelSpecs
    MaxCalls = 4
    MaxFlushers = 2
INVARIANTS
    RegisteredFollowGlobals
    OnePool
    NoStrayFlusher
PROPERTIES
    CallsReturn
