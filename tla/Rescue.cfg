CONSTANTS
    r1 = r1
    r2 = r2
    b1 = b1
    b2 = b2
    b3 = b3
    Releases = {r1, r2}
    Binaries = {b1, b2, b3}
    Home <- MCHome
    None = None
    MaxFailures = 2
SPECIFICATION FairSpec
INVARIANTS
    ManifestTruthful
    DoneMeansComplete
PROPERTIES
    LiveStaysAsIs
    WritesOnlyToCleanPlans
    EventuallyRescued
