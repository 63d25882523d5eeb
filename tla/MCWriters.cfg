CONSTANTS
    None = None
    Texts <- TheTexts
    MaxDepth = 12
    MaxCol = 99
    MaxFlowDepth = 12
    MaxQueue = 99
    Depth = 2
    Steps = {2, 4}
SPECIFICATION Spec
INVARIANTS DumpsReadBack RepresentWritesLikeDumps DocumentReadsBack
CHECK_DEADLOCK FALSE
