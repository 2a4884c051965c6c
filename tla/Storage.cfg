CONSTANTS
    p1 = p1
    p2 = p2
    p3 = p3
    x = x
    y = y
    Procs = {p1, p2, p3}
    Data = {x, y}
    None = None
    Link = Link
SPECIFICATION FairSpec
INVARIANTS
    DirectoryStays
    SuccessHolds
PROPERTIES
    NeverReplaced
    ImplementsWriteOnce
    EveryCallReturns
CHECK_DEADLOCK FALSE
