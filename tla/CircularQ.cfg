SPECIFICATION RingSpec
CONSTANTS
    Objects = {qa, qb}
    Items = {x, y}
    NoItem = none
    Capacities = {0, 1, 2}
    MaxOverrun = 1
INVARIANTS
    NoUnwrittenSlotVisible
    SizeEmptyFullAgree
PROPERTY ImplementsFifo
