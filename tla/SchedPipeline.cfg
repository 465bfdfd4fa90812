SPECIFICATION FairSpec
CONSTANTS
    Programs = {p1, p2}
    Cpus = {c1, c2}
    RingSize = 2
    MaxFired = 4
INVARIANTS
    TypeOK
    StartedIsComplete
    Accounting
    DropsNotOvercounted
    NoHalfWrittenRow
    PerCpuOrder
PROPERTIES
    ImplementsChannel
    EventuallyConsumed
CHECK_DEADLOCK FALSE
