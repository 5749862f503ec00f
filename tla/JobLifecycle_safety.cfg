SPECIFICATION Spec
CONSTANTS
    c1 = c1
    c2 = c2
    Jobs = {1}
    Kinds = {"manual", "automatic", "preview"}
    Clients = {c1, c2}
    Worker = Worker
    Decisions = {d1}
    Contents = {p1, p2}
    Keys = {k1, auto}
    AutoKey = auto
    None = None
    MaxRestarts = 2
    MaxFaults = 1
SYMMETRY Symmetry
INVARIANTS
    AtMostOnce
    WritesAreApproved
    FailClosed
    CancelledIsUntouched
    CompletedIsTruthful
    ShutdownDrains
    Safe
PROPERTY
    PromiseKept
CHECK_DEADLOCK FALSE
