CONSTANTS
    r1 = r1
    r2 = r2
    r3 = r3
    o1 = o1
    o2 = o2
    o3 = o3
    o4 = o4
    Releases = {r1, r2}
    Contested <- NoContest
    Oids = {o1, o2, o3, o4}
    NoOid = NoOid
    MaxCommits = 1
    MaxEvents = 2
    MaxFailures = 0
SYMMETRY Sym
SPECIFICATION Spec
PROPERTIES
    ClosesOnlyDeletedBranches
