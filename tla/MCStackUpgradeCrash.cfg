SPECIFICATION Spec
CONSTANTS
    Starts <- UpgradeStarts
    MaxFaults = 1
    MaxEdits = 0
    MayDelete = TRUE
INVARIANTS OldCsvsRetired
CHECK_DEADLOCK FALSE
