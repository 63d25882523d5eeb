SPECIFICATION Spec
CONSTANTS
    None = None
    Names = {a}
    Directives = {"TAG"}
    KeepEmpty = {TRUE, FALSE}
    MaxOpen = 2
    MaxOwned = 0
    MaxDepth = 3
INVARIANTS ReadAlike ReadAsOpened AliasesStayInDocument ReadersMoveOn
CHECK_DEADLOCK FALSE
