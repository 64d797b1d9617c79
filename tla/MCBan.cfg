SPECIFICATION FairSpec
CONSTANTS
    Prefixes = {p1}
    Strikes = {0, 1, 3}
    Threshold = 2
    Window = 3
    MaxDelay = 1
    MaxTime = 5
    MaxFaults = 1
INVARIANTS NothingLost ClosedMeansFlushed OnePerWindow
PROPERTIES PruneForgetsLittle EventuallyWritten
CHECK_DEADLOCK FALSE
