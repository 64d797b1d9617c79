SPECIFICATION Spec
CONSTANTS
    None = None
    TaskBench = {}
    Error = Error
    Unparsable = Unparsable
    CpuK = 70
    NumberWords <- MCNumberWords
    ArcWords <- MCArcWords
    MobileWords <- MCMobileWords
    Machines <- MCMachines
    Tools <- MCTools
    Overrides <- MCOverrides
    CatalogOf <- MCCatalog
    Typed <- MCTyped
    Asked <- MCAsked
    Selectors <- MCSelectors
    ApiChoices <- MCApiChoices
    ShownLen = 2
    MaxLen = 3
    MaxSteps = 5
INVARIANTS
    PlanMatchesInputs
    UpgradeReachesPerfect
    MemoryCountedOnce
    CursorsInside
CHECK_DEADLOCK FALSE
