CONSTANTS
    a = a
    b = b
    k1 = k1
    k2 = k2
    x = x
    y = y
    Names = {a, b}
    Keys = {k1, k2}
    Docs <- TheDocs
    Assigned <- TheValues
    NoName = NoName
    Null = Null
    MaxEdits = 3
SPECIFICATION Spec
INVARIANTS AnchorsStayUnique UnmarkedIsUnchanged
PROPERTIES AliasesKeepPointingBack DeletesKeepComposing DetachKeepsValue
CHECK_DEADLOCK FALSE
