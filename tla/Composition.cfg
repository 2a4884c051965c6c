CONSTANTS
    r1 = r1
    r2 = r2
    r3 = r3
    r4 = r4
    p1 = p1
    p2 = p2
    i1 = i1
    i2 = i2
    d1 = d1
    d2 = d2
    k1 = k1
    k2 = k2
    e1 = e1
    e2 = e2
    u = u
    v = v
    Records = {r1, r2, r3, r4}
    Indexes = {i1, i2}
    Digests = {d1, d2}
    NoDigest = NoDigest
    Origin = Origin
    Names = {u, v}
    Keys = {k1, k2}
    Extensions = {e1, e2}
    Plain = Plain
    Inputs <- MCInputs
    Families <- MCFamilies
    Platforms = {p1, p2}
    Revisions = {1, 2}
    Archives <- MCArchives
    Bulk = Bulk
    Requests = {Bulk, r2, r4}
SPECIFICATION RecordsSpec
INVARIANTS
    FailsOnlyOnConflict
    OutputIsDeclared
    PlanHasTheNewest
    PlansCompose
CHECK_DEADLOCK FALSE
