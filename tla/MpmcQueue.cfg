SPECIFICATION FairSpec
CONSTANTS
    Producers = {p1, p2}
    Consumers = {c1, c2}
    Capacity = 2
    MaxCalls = 4
INVARIANTS
    TypeOK
    NoMissedPush
    NoMissedPop
    OneFatePerMessage
    CountersExact
PROPERTIES
    EnqueueReturns
    EveryMessageSettled
