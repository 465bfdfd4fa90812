SPECIFICATION Spec
CONSTANTS
    Tids = {1}
    Starts = {0, 3}
    Tgids = {1, 2}
    MaxTime = 3
    MaxRows = 3
    Window = 2
    Step = 2
INVARIANTS
    SystemRowIsCurrent
    NoEventBetweenWindows
    ReplayRegenerates
    LabelEndsWithWorkload
CHECK_DEADLOCK FALSE
