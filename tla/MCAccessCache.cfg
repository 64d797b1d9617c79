SPECIFICATION FairCacheSpec
CONSTANTS
    Users = {u1, u2}
    Everyone = everyone
    Mutators = {w1, w2}
    Poller = poller
    Mutations = {"AllowAccess", "ResetAccess", "ChangeRole", "External"}
    MaxWrites = 1
PROPERTIES FullReloadNeverGoesBack EventuallyFresh
CHECK_DEADLOCK FALSE
