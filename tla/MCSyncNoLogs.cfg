SPECIFICATION Spec
CONSTANTS
    Worlds <- NoLogsWorlds
    Jsonnet <- JsonnetDashboards
    Lifetime = 1
    Margin = 1
    Period = 1
    MaxEdits = 1
    MaxFaults = 0
INVARIANTS
    NeverPanics
