SPECIFICATION FairSpec
CONSTANTS
    Tracepoints = 2
    PipeSize = 3
    MaxLines = 4
INVARIANTS
    NoLossNoDuplicate
    
PROPERTY
    StopReturnsWithLine
CHECK_DEADLOCK FALSE
