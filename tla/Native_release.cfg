CONSTANTS
    b1 = b1
    b2 = b2
    package = package
    manifest = manifest
    Files = {package, manifest}
    Builds = {b1, b2}
    MaxRevision = 3
    None = None
    Broken = Broken
SPECIFICATION FairSpec
PROPERTIES
    ReleasesAreImmutable
    EventuallyPackaged
