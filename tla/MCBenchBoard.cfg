CONSTANTS
    None = None
    SizeOf <- MCSizeOf
    OLLAMA_MAPPINGS <- MCOllamaMappings
    GGUF_MAPPINGS <- MCGgufMappings
    MLX_MAPPINGS <- MCMlxMappings
    DockerCatalog <- MCDockerCatalog
    Repos <- MCRepos
    Presets <- MCPresets
    PartOf <- MCPartOf
    Cached <- MCCached
    Submissions <- MCSubmissions
    Workers = {w1, w2}
    Nets <- MCNets
    Answers <- MCAnswers
    Env <- MCEnv
    Here <- MCHere
    Names <- MCNames
    FORK_POLLS = 1
    CODE_POLLS = 1
    Machines <- MCMachines
    Board <- MCBoard
    Offers <- MCOffers
    SearchKeys = {"qwen3"}
    MaxQuery = 1
SPECIFICATION Spec
INVARIANTS SharedIsOffered LocalNewest RowsMatchHardware
CHECK_DEADLOCK FALSE
