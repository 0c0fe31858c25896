SPECIFICATION FairSpec
CONSTANTS
    t1 = t1
    t2 = t2
    t3 = t3
    t4 = t4
    Tasks = {t1, t2, t3, t4}
    NoTask = NoTask
    Cancellable = {}
    Pagers = {}
    Count = 3
    DATA_MASK = 4
    max_shared_owners = 4
    Regulars = {t1, t2, t3, t4}
    Rounds = 0
INVARIANTS
    NobodyPassesEarly
    OneLeaderEach
    CountConserved
PROPERTIES
    EveryWaitEnds
