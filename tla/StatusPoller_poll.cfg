SPECIFICATION PollerFairSpec
CONSTANTS
    Sets = {s1, s2}
    Buffer = 2
    MaxBackoff = 2
    MaxChanges = 2
    MaxPollerFaults = 1

    
PROPERTIES
    StatusCatchesUp
