SPECIFICATION FairSpec
CONSTANTS
    OwnClaims <- AnyClaim
    OtherClaims <- NoOther
    VolumeOf <- NoVolumes
    MaxFaults = 3
INVARIANTS
    TypeOK
    MetricsKept
    Inductive
PROPERTIES
    HandedOverOrLost
