CONSTANTS
    root = root
    a = a
    b = b
    dir = dir
    k1 = k1
    k2 = k2
    x = x
    y = y
    Files = {root, a, b}
    Dirs = {dir}
    Root = root
    Keys = {k1, k2}
    Values = {x, y}
    Members <- TheMembers
    Rank <- TheRank
    Disks <- Chain
    MaxEdits = 2
    MaxSaves = 2
    MaxOthers = 1
SPECIFICATION Spec
PROPERTIES SaveKeepsOthers
CHECK_DEADLOCK FALSE
