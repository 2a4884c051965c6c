CONSTANTS
    s1 = s1
    s2 = s2
    s3 = s3
    b1 = b1
    b2 = b2
    b3 = b3
    None = None
    Snapshots = {s1, s2, s3}
    Blobs = {b1, b2, b3}
    Migrated = {m1}
    BlobsOf <- MCBlobsOf
    Faults = {"io", "rollback", "crash"}
SYMMETRY Rotations
SPECIFICATION Spec
INVARIANTS
    PinsComplete
    ReferencesResolve
    PublishedStaysServed
    FailureRestores
    SuccessValidates
    FailuresNeverWedge
    OnlySnapshotDebrisWedges
PROPERTIES
    PointerSwitchesLast
