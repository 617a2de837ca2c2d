SPECIFICATION Spec
CONSTANTS
    Worlds <- SharedRuleWorlds
    Jsonnet <- JsonnetDashboards
    Lifetime = 1
    Margin = 1
    Period = 1
    MaxEdits = 0
    MaxFaults = 0
PROPERTIES
    OnlyUnrequestedRulesDeleted
