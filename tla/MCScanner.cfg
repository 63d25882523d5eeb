CONSTANTS
    MaxCol = 2
    MaxFlowDepth = 1
    MaxQueue = 3
SPECIFICATION Spec
INVARIANTS TypeOK IndentsIncreasing KeyPointsAtNode NestingMatches
PROPERTIES FlowFreezesLevels TokenStreamSpec
CHECK_DEADLOCK FALSE
