CONSTANTS
    None = None
    m1 = m1
    m2 = m2
    m3 = m3
    Models <- MCModels
    Catalog <- MCCatalog
    Specs = {"real", "small"}
    RealSpecs = "real"
    Configs = {"base", "tuned"}
    Baseline = "base"
    Apple = {}
    Rankable <- MCRankable
    Analysis <- MCAnalysis
    Capabilities <- MCCapabilities
    Queries = {"", "x"}
    Ranges = {50}
    Cached = {m3}
    Installs <- MCInstalls
    Habits = {{"s", "esc"}}
    MaxKeys = 8
    MaxMsgs = 0
    MaxStarts = 1
SPECIFICATION Spec
PROPERTIES RestartKeepsSort
CHECK_DEADLOCK FALSE
