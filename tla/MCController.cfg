SPECIFICATION Spec
CONSTANTS
    InstallStages <- ShortInstall
    CleanupStages <- ShortCleanup
    Specs <- DefaultSpecs
    CloudSpec = "cloud"
    LocalSpec = "local"
    Unstored = {"local"}
    NameOf <- DefaultNames
    MaxUserOps = 3
    MaxFaults = 1
INVARIANTS
    TypeOK
    NoOrphans
    StatusIsHonest
    Inductive
PROPERTIES
    LabelLostOnlyWithFinalizer
CHECK_DEADLOCK FALSE
