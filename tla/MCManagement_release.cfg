SPECIFICATION FairSpec
CONSTANTS
    Mgmt = "kcm"
    Region = {"eu"}
    Provider = {"sveltos"}
    Sveltos = "sveltos"
    Backup = {"daily"}
    MaxRelease = 2
    MaxChanges = 2
    MaxFaults = 1
CHECK_DEADLOCK FALSE
INVARIANTS
    ReleaseInv
PROPERTIES
    InOrder
    BackupFirst
    Converges
    RegionFollowsRelease
