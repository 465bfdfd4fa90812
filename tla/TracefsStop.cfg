SPECIFICATION FairSpec
CONSTANTS
    Tracepoints = 2
    PipeSize = 2
    MaxLines = 4
PROPERTY
    StopReturns
CHECK_DEADLOCK FALSE
