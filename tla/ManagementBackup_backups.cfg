SPECIFICATION FairSpec
CONSTANTS
    Mgmt = "mgmt"
    Region = {"eu"}
    Period = 3
    MaxTime = 5
    MaxEdits = 1
    MaxFaults = 2
CHECK_DEADLOCK FALSE
INVARIANTS
    BackupInv
    OncePerSlot
PROPERTIES
    DueIsServed
    SingleCompletes
