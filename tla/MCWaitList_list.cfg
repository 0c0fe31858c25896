SPECIFICATION Spec
CONSTANTS
    e1 = e1
    e2 = e2
    e3 = e3
    p1 = p1
    p2 = p2
    Entries = {e1, e2, e3}
    Workers = {p1, p2}
    Droppers = {e1, e2}
    Null = Null
    Start <- MCStart
    ENTRY_SIZE = 64
    U64_MAX = 65535
SYMMETRY Symmetry
INVARIANTS
    NoDangling
    PrevRight
    TailFound
PROPERTIES
    FifoSpec
