SPECIFICATION FairSpec
CONSTANTS
    r1 = r1
    r2 = r2
    r3 = r3
    Jobs = {1, 2}
    Requests = {r1, r2}
    Capacity = 1
    MaxRestarts = 1
    MaxStranded = 1
INVARIANTS
    QueuedAreCovered
PROPERTIES
    QueuedRuns
    RequestsReturn
CHECK_DEADLOCK FALSE
