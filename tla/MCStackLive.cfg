SPECIFICATION FairSpec
CONSTANTS
    Starts <- LiveStarts
    MaxFaults = 1
    MaxEdits = 0
    MayDelete = TRUE
PROPERTIES DeletionCompletes
CHECK_DEADLOCK FALSE
