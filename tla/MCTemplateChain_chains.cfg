SPECIFICATION WalkSpec
CONSTANTS
    Templates = {1, 2, 3, 4}
    Chains <- SmallAndUpward
CHECK_DEADLOCK FALSE
INVARIANTS
    WalkInv
    PathsAreTheRoutes
PROPERTIES
    WalkArrives
