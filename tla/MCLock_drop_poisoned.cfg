SPECIFICATION Spec
CONSTANTS
    t1 = t1
    t2 = t2
    t3 = t3
    Tasks = {t1, t2, t3}
    NoTask = NoTask
    DATA_MASK = 3
    max_shared_owners = 2
    Calls <- ExclusiveCalls
    Cancellable = {t1}
    Pagers = {}
    Poisoners = {t2}
    Clearers = {t2}
INVARIANT MutualExclusion
