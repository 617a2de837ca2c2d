SPECIFICATION LiveSpec
CONSTANTS
    Worlds <- SyncWorlds
    Jsonnet <- JsonnetDashboards
    Lifetime = 3
    Margin = 3
    Period = 3
    MaxEdits = 1
    MaxFaults = 1
INVARIANTS
    TypeOK
    SyncedMeansApplied
    NoTokenExpires
PROPERTIES
    ResyncIsInvisible
    TokenKept
    EventuallyApplied
