SPECIFICATION Spec
CONSTANTS
    u1 = u1
    u2 = u2
    a1 = a1
    a2 = a2
    r1 = r1
    r2 = r2
    None = None
    Users = {u1, u2}
    Addresses = {a1, a2}
    Requests = {r1, r2}
    Provisioned = {}
    VerifyTTL = 1
    ResetTTL = 1
    MaxLinks = 2
    MaxTime = 1
SYMMETRY Symmetry
INVARIANTS
    UniquePrimary
    OneLinkPerScope
    ResetOnlyToProven
PROPERTY
    ValidLinkStays
