SPECIFICATION Spec
CONSTANTS
    Publishers = {p1, p2}
    Streams = {s1, s2}
    Closers = {c1}
    None = None
    Lines = 2
    Buffer = 2
SYMMETRY Symmetry
CHECK_DEADLOCK FALSE
INVARIANTS
    NoPanic
    OrderedPerPublisher
    NoLossBelowCapacity
