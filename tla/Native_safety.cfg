CONSTANTS
    a1 = a1
    a2 = a2
    f = f
    d = d
    k1 = k1
    k2 = k2
    Packages = {a1, a2, f}
    Identity <- MCIdentity
    Subkeys = {k1, k2}
    Issuer <- MCIssuer
    Forged = {f}
    FirstKey = k1
    None = None
    Stale = Stale
SPECIFICATION FairSpec
INVARIANTS
    ForgeriesAreNeverServed
    IdentitiesArePermanent
    LiveIssuersAreCurrent
PROPERTIES
    WithdrawnStaysOut
    RepairComesNext
    EventuallySettled
