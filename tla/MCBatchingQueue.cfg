SPECIFICATION FairSpec
CONSTANTS
    Elements = {e1, e2, e3, e4}
    BatchSize = 2
    HasTimeout = TRUE
INVARIANTS ExactlyOnce NeverFull BatchesAreRuns
PROPERTIES RefinesAsyncStore EventuallyStored
CHECK_DEADLOCK FALSE
