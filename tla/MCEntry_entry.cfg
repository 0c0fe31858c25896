SPECIFICATION FairSpec
CONSTANTS
    s1 = s1
    s2 = s2
    w1 = w1
    w2 = w2
    b0 = b0
    b1 = b1
    Setters = {s1, s2}
    Wakers = {w1, w2}
    NoWaker = NoWaker
    NoSetter = NoSetter
    NoResult = NoResult
    Bits = {b0, b1}
    Results <- MCResults
INVARIANTS
    TypeOK
    NoUseAfterFree
    MonitorExclusive
    StoredOnce
    NoLostWakeup
PROPERTIES
    CellSpec
    PollReturns
