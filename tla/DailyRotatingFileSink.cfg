SPECIFICATION Spec
CONSTANTS
    MaxFaults = 1
    TicksPerPeriod = 2
    MaxTime = 3
    Configs <- MCConfigs
    MsgSizes = {1, 2}
    MaxMsgs = 4
PROPERTIES
    WriteWithinLimit
    DeletesOldestOrStale
