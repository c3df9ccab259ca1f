CONSTANTS
    MaxFaults = 1
    MaxSizes = {2, 3}
    MaxFilesSet = {0, 1, 2}
    MsgSizes = {1, 2}
    MaxMsgs = 4
SPECIFICATION Spec
INVARIANTS Chronological
PROPERTIES WriteWithinLimit OnlyOldestDeleted
