SPECIFICATION Spec
CONSTANTS
    t1 = t1
    t2 = t2
    t3 = t3
    Tasks = {t1, t2, t3}
    NoTask = NoTask
    Cancellable = {t1}
    Pagers = {}
    Count = 2
    DATA_MASK = 4
    max_shared_owners = 4
    Regulars = {}
    Rounds = 1
CHECK_DEADLOCK FALSE
INVARIANTS
    ProcessorHoldsFlag
