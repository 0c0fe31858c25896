SPECIFICATION FairSpec
CONSTANTS
    t1 = t1
    t2 = t2
    t3 = t3
    Tasks = {t1, t2, t3}
    NoTask = NoTask
    DATA_MASK = 3
    max_shared_owners = 2
    Calls <- AllCalls
    Cancellable = {}
    Pagers = {t1}
    Poisoners = {t1, t2, t3}
    Clearers = {t1, t2, t3}
INVARIANTS
    GrantsReal
PROPERTIES
    PoisonSticks
    FairAllocator
    StarvationFree
