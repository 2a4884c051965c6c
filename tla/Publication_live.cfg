CONSTANTS
    s1 = s1
    s2 = s2
    s3 = s3
    b1 = b1
    b2 = b2
    b3 = b3
    None = None
    Snapshots = {s1, s2}
    Blobs = {b1, b2, b3}
    Migrated = {m1}
    BlobsOf <- TwoBlobsOf
    Faults = {"io", "crash"}
SPECIFICATION FairSpec
PROPERTIES
    EventuallyPublished
    ImplementsRegistry
