CONSTANTS
    Cred = {"c1", "c2"}
    Identity = {"i1", "i2"}
    Secret = {"s"}
    RefsOf <- MCRefsOf
    StartRefs <- MCStartRefs
    Preset = {"i1"}
    MaxVer = 2
    MaxEdits = 1
    MaxFaults = 1
SPECIFICATION Spec
CHECK_DEADLOCK FALSE
INVARIANTS
    InUseStays
    
PROPERTIES
    CopiesFollow
    DeletionEnds
