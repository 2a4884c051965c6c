CONSTANTS
    p1 = p1
    p2 = p2
    good = good
    foreign = foreign
    absent = absent
    Procs = {p1, p2}
    MatrixSize = 2
    Contents = {good, foreign, absent}
    Absent = absent
    Indexes = {good, foreign}
    Portable = {good}
    KnownAbsent = {2}
    Tagged = {1}
    None = None
    MaxChanges = 2
    MaxFailures = 1
SPECIFICATION FairSpec
INVARIANTS
    EvidenceIsOneMoment
    VerifiedIsCurrent
    BootstrapIsOneMoment
PROPERTIES
    EventuallyCaptured
CHECK_DEADLOCK FALSE
