SPECIFICATION Spec
CONSTANTS
    MaxFaults = 1
    TicksPerPeriod = 2
    MaxTime = 5
    Configs <- MCConfigs
    MaxMsgs = 3
INVARIANTS
    RetentionBound
    NeverBackInTime
PROPERTIES
    OnlyOldFilesDeleted
