SPECIFICATION FairSpec
CONSTANTS
    Starts <- EditStarts
    MaxFaults = 0
    MaxEdits = 1
    MayDelete = FALSE
PROPERTIES StackSettles
CHECK_DEADLOCK FALSE
