SPECIFICATION FairEditsSpec
CONSTANTS
    a = a
    b = b
    c = c
    Services = {a, b}
    Versions = {1, 2}
    Values = {1, 2}
    Supported = {1, 2}
    Hop <- ChainHop
    Chart <- OwnChart
    DesiredSpecs <- Edits
    MaxEdits = 1
    MaxFaults = 1
PROPERTIES
    Converges
