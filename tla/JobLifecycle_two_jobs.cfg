SPECIFICATION FairSpec
CONSTANTS
    c1 = c1
    c2 = c2
    Jobs = {1, 2}
    Kinds = {"automatic"}
    Clients = {c1}
    Worker = Worker
    Decisions = {d1}
    Contents = {p1}
    Keys = {auto}
    AutoKey = auto
    None = None
    MaxRestarts = 0
    MaxFaults = 1
INVARIANTS
    WorkerOwnsWork
    WritingIsSupervised
PROPERTIES
    StagesEnd
    WritesEnd
    ShutdownEnds
CHECK_DEADLOCK FALSE
