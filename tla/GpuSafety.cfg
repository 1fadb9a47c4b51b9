SPECIFICATION FairSpec
CONSTANTS
    ConfigMaxLanes = 3
    LaneMin = 1
    Parallel = TRUE
INVARIANTS TypeOK LanesWithinCap CapOnRecord HotIsLeftAlone
PROPERTIES CapSteps MiningResumes
