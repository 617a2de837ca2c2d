SPECIFICATION Spec
CONSTANTS
    OwnClaims <- DefaultClaim
    OtherClaims <- AlertmanagerClaim
    VolumeOf <- AlertmanagerVolume
    MaxFaults = 0
INVARIANTS
    MetricsKept
