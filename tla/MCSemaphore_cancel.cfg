SPECIFICATION CasFairSpec
CONSTANTS
    t1 = t1
    t2 = t2
    t3 = t3
    Tasks = {t1, t2, t3}
    NoTask = NoTask
    Cancellable = {t1}
    Pagers = {t1}
    DATA_MASK = 2
    max_shared_owners = 2
    Counts = {1, 2}
    Permits = 1
    Nested = {}
CHECK_DEADLOCK FALSE
INVARIANTS
    PermitBound
    ReleaseNeverRefused
PROPERTIES
    FairAllocator
    StarvationFree
    DropTerminates
