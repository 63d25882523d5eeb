CONSTANTS
    None = None
    MaxRefDepth = 2
    MaxRefFollows = 4
    MaxAliasDepth = 2
    MaxAliasNodes = 12
    SameValue <- TheSameValue
    Subjects <- TheSubjects
    Schemas <- TheSchemas
SPECIFICATION MCSpec
INVARIANTS VerdictIsMeaning HopsBounded
PROPERTY ValidationEnds
CHECK_DEADLOCK FALSE
