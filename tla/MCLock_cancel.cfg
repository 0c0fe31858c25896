SPECIFICATION Spec
CONSTANTS
    t1 = t1
    t2 = t2
    t3 = t3
    t4 = t4
    Tasks = {t1, t2, t3, t4}
    NoTask = NoTask
    DATA_MASK = 3
    max_shared_owners = 2
    Calls <- OwnerCalls
    Cancellable = {t1}
    Pagers = {t1}
    Poisoners = {}
    Clearers = {}
SYMMETRY Symmetry
INVARIANTS
    TypeOK
    MutualExclusion
    Accounting
    LockedFlag
    NoStuckHead
    NoLostWaiter
    DebugAsserts
