SPECIFICATION FairSpec
CONSTANTS
    caller1 = caller1
    item1 = item1
    Rules = {1}
    Dirs = {"d"}
    Removed = {}
    Items = {item1}
    MaxVersion = 2
    Kinds <- OneThenTwo
    Broken = {}
    Modes = {"auto"}
    Callers = {caller1}
    Debounce = 1
    HasWatcher = TRUE
    NoticeCap = 1
    MaxUpsets = 1
    NoRow = NoRow
    Unused = Unused
    Deleted = Deleted
INVARIANTS
    OneJobPerSource
    NothingForgotten
    KindFitsVersion
PROPERTY
    StableIsHandled
CHECK_DEADLOCK FALSE
