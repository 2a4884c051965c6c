CONSTANTS
    a1 = a1
    a2 = a2
    f = f
    d = d
    k1 = k1
    k2 = k2
    Packages = {a1, d}
    Identity <- MCIdentity
    Subkeys = {k1, k2}
    Issuer <- MCIssuer
    Forged = {}
    FirstKey = k1
    None = None
    Stale = Stale
SPECIFICATION RunbookSpec
PROPERTIES
    RevokedSignaturesAreReplaced
