SPECIFICATION FitSpec
CONSTANTS
    None = None
    Invalid = Invalid
    TaskBench <- MCTaskBench
    Releases <- MCReleases
    Customs <- MCCustoms
    Listings <- MCListings
    Systems <- MCSystems
    Requests <- MCRequests
    Benchmarks = {120, 700}
    Community <- MCCommunity
    Now = 24
    MaxChanges = 4
INVARIANTS
    ReportedQuantMatches
    CalibrationDoesNotCompound
    UsableContextCovers
PROPERTIES
    CustomWins
    LoadsWithMoreMemory
CHECK_DEADLOCK FALSE
