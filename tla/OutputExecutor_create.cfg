SPECIFICATION Spec
CONSTANTS
    e1 = e1
    e2 = e2
    s1 = s1
    s2 = s2
    t1 = t1
    t2 = t2
    p1 = p1
    p2 = p2
    Executors = {e1, e2}
    Sources = {s1, s2}
    Targets = {t1, t2}
    Plans <- Meeting
    Policies = {"create"}
    Remote = {s2}
    Unauditable = {}
    Prior = {}
    Linked <- NotLinked
    PathTo <- PathsTo
    Missing = Missing
    Meddling = FALSE
    MaxEdits = 1
    MaxFaults = 1
    MaxCrashes = 1
INVARIANTS
    MediaSurvives
PROPERTY
    NeverClobbers
CHECK_DEADLOCK FALSE
