SPECIFICATION Spec
CONSTANTS
    Starts <- ScopedStarts
    MaxFaults = 1
    MaxEdits = 0
    MayDelete = TRUE
INVARIANTS TypeOK AccessOutlivesStatefulSet MigratedMeansGone OldCsvsRetired CleanupComplete SyncedMeansInstalled
CHECK_DEADLOCK FALSE
