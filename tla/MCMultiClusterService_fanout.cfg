SPECIFICATION FairSpec
CONSTANTS
    MCS = {"base", "app"}
    Cluster = {"c1"}
    Label = {"x", "y"}
    Mgmt = "mgmt"
    MaxVersion = 2
    MaxChanges = 2
    MaxFaults = 1
    Labels <- MCLabels
    Shapes <- MCShapes
CHECK_DEADLOCK FALSE
INVARIANTS
    FanoutInv
PROPERTIES
    InOrder
    Converges
