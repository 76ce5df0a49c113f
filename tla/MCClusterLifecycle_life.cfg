SPECIFICATION FairSpec
CONSTANTS
    Configs <- MCConfigs
    MaxEdits = 1
    MaxFaults = 1
CHECK_DEADLOCK FALSE
INVARIANTS
    LifecycleInv
    VersionWasAccepted
PROPERTIES
    ClusterGoesAfterServices
    DeletionEnds
    StatusFollowsCluster
    SecretGetsItsOwner
