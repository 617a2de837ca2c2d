SPECIFICATION FairSpec
CONSTANTS
    InstallStages <- OneInstall
    CleanupStages <- TwoCleanup
    Specs <- DefaultSpecs
    CloudSpec = "cloud"
    LocalSpec = "local"
    Unstored = {"local"}
    NameOf <- DefaultNames
    MaxUserOps = 2
    MaxFaults = 1
PROPERTIES
    KeepsPromise
    FinalizerFollowsMode
    DeletionCompletes
CHECK_DEADLOCK FALSE
