SPECIFICATION FairSpec
CONSTANTS
    ConfigMaxLanes = 2
    LaneMin = 1
    Parallel = FALSE
PROPERTIES LaneCapRestored
