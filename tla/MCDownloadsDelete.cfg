CONSTANTS
    None = None
    SizeOf <- MCSizeOf
    OLLAMA_MAPPINGS <- MCOllamaMappings
    GGUF_MAPPINGS <- MCGgufMappings
    MLX_MAPPINGS <- MCMlxMappings
    DockerCatalog <- MCDockerCatalog
    Repos <- MCRepos
    MaxPulls = 2
    Locals <- MCLocals
    SizeOfFile <- MCSizeOfFile
    Unsized <- MCUnsized
    PollBudget = 3
    RamBudget = 100
    Clients = {"tui", "api", "cli"}
    SlowProbes = {"ollama"}
    Visible <- MCVisible
    MaxInflight = 1
    MAX_RECORDS = 2
    Requests = {1, 2}
    CliBudget = 10
    Machines <- MCMachines
SPECIFICATION Spec
INVARIANTS DeleteRemoves
CHECK_DEADLOCK FALSE
