CONSTANTS
    r1 = r1
    r2 = r2
    r3 = r3
    o1 = o1
    o2 = o2
    o3 = o3
    o4 = o4
    Releases = {r1, r2, r3}
    Contested <- TwoContest
    Oids = {o1, o2, o3, o4}
    NoOid = NoOid
    MaxCommits = 2
    MaxEvents = 1
    MaxFailures = 1
SPECIFICATION MCSpec
INVARIANTS
    MainServesItsRecords
PROPERTIES
    OnlyCheckedWorkIsReplaced
    NoReleaseIsDropped
    EventuallyCaughtUp
