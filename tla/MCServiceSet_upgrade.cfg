SPECIFICATION UpgradeSpec
CONSTANTS
    a = a
    b = b
    c = c
    Services = {a, b, c}
    Versions = {1, 2, 3}
    Values = {1}
    Supported = {1, 2, 3}
    Hop <- ChainHop
    Chart <- OwnChart
    DesiredSpecs <- Upgrade
    MaxEdits = 1
    MaxFaults = 1
INVARIANTS
    DependentsNeverAhead
PROPERTIES
    DependenciesFirst
    InFlightHeld
    
    ClusterTakesEveryHop
