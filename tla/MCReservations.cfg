SPECIFICATION Spec
CONSTANTS
    u1 = u1
    u2 = u2
    r1 = r1
    r2 = r2
    None = None
    Everyone = Everyone
    Users = {u1, u2}
    Admins = {u2}
    Topics = {1, 2}
    AdminTopics = {1}
    Limits = {1}
    InitialTiers = {1}
    AdminTiers = {None}
    Requests = {r1, r2}
    MaxFaults = 1
INVARIANTS
    NoOrphanEveryone
    WithinLargestLimit
PROPERTY
    OnlyOwnerReleases
SYMMETRY
    Symmetry
