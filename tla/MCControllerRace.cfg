SPECIFICATION NoInitSpec
CONSTANTS
    InstallStages <- ShortInstall
    CleanupStages <- ShortCleanup
    Specs <- DefaultSpecs
    CloudSpec = "cloud"
    LocalSpec = "local"
    Unstored = {"local"}
    NameOf <- DefaultNames
    MaxUserOps = 2
    MaxFaults = 1
PROPERTIES
    ReleasedOnlyWhenClean
CHECK_DEADLOCK FALSE
