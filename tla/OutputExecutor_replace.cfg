SPECIFICATION Spec
CONSTANTS
    e1 = e1
    e2 = e2
    s1 = s1
    s2 = s2
    t1 = t1
    t2 = t2
    p1 = p1
    p2 = p2
    Executors = {e1, e2}
    Sources = {s1, s2}
    Targets = {t1, t2}
    Plans <- Placements
    Policies = {"create", "replace"}
    Remote = {s2}
    Unauditable = {t2}
    Prior = {t1}
    Linked <- FirstLinked
    PathTo <- PathsTo
    Missing = Missing
    Meddling = TRUE
    MaxEdits = 1
    MaxFaults = 1
    MaxCrashes = 0
INVARIANTS
    WritesAppearWhole
    PublishedIsReported
PROPERTY
    ReplacesOnlyChecked
CHECK_DEADLOCK FALSE
