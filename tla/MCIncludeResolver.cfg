CONSTANTS
    base = base
    sub = sub
    root = root
    b = b
    c = c
    d = d
    s = s
    t = t
    v = v
    v1 = v1
    v2 = v2
    v3 = v3
    Dirs = {base, sub}
    Base = base
    Parent <- TheParent
    Listed <- TheListed
    DirOf <- TheDirOf
    Root = root
    Join <- TheJoin
    Scalars <- TheScalars
    Worlds <- TheWorlds
    Options <- TheOptions
    Absent = Absent
    Unreadable = Unreadable
    Outside = Outside
    None = None
    Null = Null
    Logger = Logger
    Debug = Debug
    MaxDepth = 3
    MaxExpansions = 5
    MaxChanges = 2
SPECIFICATION FairSpec
INVARIANTS OriginsAreSources SecretsAgree MissesAreTheHoles LoadMeansItsDirectives
PROPERTIES LoadEnds
CHECK_DEADLOCK FALSE
