SPECIFICATION Spec
CONSTANTS
    c1 = c1
    c2 = c2
    Jobs = {1}
    Kinds = {"automatic"}
    Clients = {c1}
    Worker = Worker
    Decisions = {d1}
    Contents = {p1, p2}
    Keys = {k1, auto}
    AutoKey = auto
    None = None
    MaxRestarts = 0
    MaxFaults = 0
INVARIANT
    FailureIsFinal
CHECK_DEADLOCK FALSE
