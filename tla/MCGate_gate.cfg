SPECIFICATION FairSpec
CONSTANTS
    t1 = t1
    t2 = t2
    t3 = t3
    c1 = c1
    Tasks = {t1, t2, t3}
    Controllers = {c1}
    NoTask = NoTask
    Cancellable = {t1, t2}
INVARIANTS
    TypeOK
    NobodyWaitsAtSettledGate
    ReachableOnce
    AnswersMatch
PROPERTIES
    SettledGateEmpties
    DropTerminates
