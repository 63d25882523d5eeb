SPECIFICATION Spec
CONSTANTS
    Keys = {"a", "b"}
    Values <- MCValues
    TagsKept = TRUE
    MaxPairs = 3
INVARIANTS MergeMeaning SamePython ValidatorSeesEveryKey
CHECK_DEADLOCK FALSE
