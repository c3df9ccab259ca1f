SPECIFICATION Spec
CONSTANTS
    MaxFaults = 0
    TicksPerPeriod = 2
    MaxTime = 3
    Configs <- OneFile
    MaxMsgs = 2
INVARIANT CurrentFileKept
