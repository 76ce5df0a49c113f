SPECIFICATION ChildFairSpec
CONSTANTS
    Objects = {role, binding}
    StaleReads = FALSE
    MaxPolicyEdits = 3
    MaxChildFaults = 2

    
PROPERTIES
    AccessFollowsPolicy
