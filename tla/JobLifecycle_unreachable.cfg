SPECIFICATION Spec
CONSTANTS
    c1 = c1
    c2 = c2
    Jobs = {1}
    Kinds = {"manual"}
    Clients = {c1, c2}
    Worker = Worker
    Decisions = {d1}
    Contents = {p1, p2}
    Keys = {k1, auto}
    AutoKey = auto
    None = None
    MaxRestarts = 1
    MaxFaults = 0
PROPERTY
    NonPlanningNeverReserves
CHECK_DEADLOCK FALSE
