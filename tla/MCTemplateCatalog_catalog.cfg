CONSTANTS
    Template = {"t1", "t2"}
    Chain = {"k1", "k2"}
    Supports <- MCSupports
    Cluster = {"c"}
    Own = {"t2"}
    None = "none"
    MaxEdits = 2
SPECIFICATION Spec
CHECK_DEADLOCK FALSE

    
    
PROPERTIES
    CopiesFollowChains
