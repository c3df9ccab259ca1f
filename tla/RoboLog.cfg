SPECIFICATION Spec
CONSTANTS
    Threads = {t1, t2}
    MaxInits = 1
    MaxCalls = 3
CONSTRAINT OrdinaryUse
INVARIANT
    MethodsThreadSafe
CHECK_DEADLOCK FALSE
