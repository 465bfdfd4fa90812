SPECIFICATION Spec
CONSTANTS
    Tids = {t1}
    NoTask = NoTask
    Open = Open
    Unresolved = Unresolved
    MaxTime = 3
    MaxScans = 3
    MaxEvents = 1
INVARIANTS
    TypeOK
    RunsOrdered
    NoFutureAttribution
    StaleWindow
    HoleEndsNextFeed
PROPERTY
    HistoryStable
CHECK_DEADLOCK FALSE
