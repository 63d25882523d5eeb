CONSTANTS
    None = None
    Texts <- TheTexts
    MaxDepth = 12
    MaxCol = 99
    MaxFlowDepth = 12
    MaxQueue = 99
    Depth = 0
    Steps = {1}
SPECIFICATION Spec
INVARIANT DocumentReadsBack
CHECK_DEADLOCK FALSE
