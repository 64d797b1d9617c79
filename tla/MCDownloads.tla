---------------------------- MODULE MCDownloads ----------------------------
(* Three models, one with a single file, one of two shards and one of      *)
(* which the repository has another name, and machines on which different  *)
(* runtimes answer.                                                        *)
EXTENDS Downloads

Llama == <<"llama", "3.1", "8b", "instruct">>
Large == <<"qwen", "70b">>
Gemma == <<"gemma", "4", "e2b", "it">>
GoogleGemma == <<"google_gemma", "4", "e2b", "it">>

MCSizeOf == [s \in {"8b", "70b"} |-> IF s = "8b" THEN 80 ELSE 700]
MCOllamaMappings == [s \in {Llama} |-> Name("", <<"llama3.1">>, <<"8b">>)]
MCMlxMappings == {}
LlamaName == Name("meta-llama", Llama, <<>>)
LargeName == Name("qwen", Large, <<>>)
MCDockerCatalog == [n \in {LlamaName} |-> Name("ai", <<"llama3.1">>, <<"8b">>)]

GemmaName == Name("google", Gemma, <<>>)

LlamaRepo == Name("bartowski", Append(Llama, "gguf"), <<>>)
GemmaRepo == Name("bartowski", Append(GoogleGemma, "gguf"), <<>>)
MCGgufMappings == [s \in {Llama, Gemma} |-> IF s = Llama THEN LlamaRepo ELSE GemmaRepo]
LargeRepo == Name("unsloth", Append(Large, "gguf"), <<>>)
MlxRepo == Name("mlx-community", Append(Llama, "4bit"), <<>>)

File(stem, shard, size) == [dir |-> "", stem |-> stem, shard |-> shard, size |-> size, safe |-> TRUE]

LlamaFile == File(Append(Llama, "q4_k_m"), None, 4)
GemmaFile == File(Append(GoogleGemma, "q4_k_m"), None, 4)
LargeFiles == <<File(Append(Large, "q4_k_m"), <<1, 2>>, 8), File(Append(Large, "q4_k_m"), <<2, 2>>, 8)>>

MCRepos == [r \in {LlamaRepo, LargeRepo, GemmaRepo, MlxRepo} |->
               CASE r = LlamaRepo -> <<LlamaFile>> [] r = LargeRepo -> LargeFiles
                 [] r = GemmaRepo -> <<GemmaFile>> [] OTHER -> <<>>]

MCLocals == {LocalName(LlamaFile), LocalName(GemmaFile)} \cup {LocalName(LargeFiles[i]) : i \in {1, 2}}
MCUnsized == {LocalName(LlamaFile)}
MCSizeOfFile == [l \in MCLocals |-> 1]

Row(name, params, sources) ==
    [name |-> name, params |-> params, mlx |-> FALSE, prequantized |-> FALSE, sources |-> sources]

LlamaRow == Row(LlamaName, 80, <<>>)
LargeRow == Row(LargeName, 700, <<LargeRepo>>)
GemmaRow == Row(GemmaName, 20, <<>>)

Server(models, tags, native, banner, omlx) ==
    [models |-> models, garbled |-> FALSE, header |-> None, tags |-> tags, omlx |-> omlx,
     native |-> native, banner |-> banner, health |-> FALSE]

OllamaServer == Server(None, {}, FALSE, FALSE, FALSE)
LmStudioServer == Server({}, None, TRUE, FALSE, FALSE)
DockerServer == Server({}, None, FALSE, TRUE, FALSE)
Serving(owner, omlx) == Server({[id |-> LlamaName, owner |-> owner]}, None, FALSE, FALSE, omlx)

Endpoints == {"localhost:11434", "127.0.0.1:11434", "localhost:12434", "127.0.0.1:1234",
              "localhost:8000", "127.0.0.1:8000", "localhost:8080"}

Vars == {"OLLAMA_HOST", "MLX_LM_HOST", "DOCKER_MODEL_RUNNER_HOST", "LMSTUDIO_HOST",
         "VLLM_HOST", "RAMALAMA_HOST"}

World(os, net, binaries, docker) ==
    [os |-> os, vars |-> [v \in Vars |-> None],
     net |-> [e \in Endpoints |-> IF e \in DOMAIN net THEN net[e] ELSE None],
     store |-> [hf_cache |-> {}, mlx_python |-> os = "macos", docker_socket |-> docker,
                docker_app |-> docker, lms_command |-> FALSE, lmstudio_app |-> FALSE,
                lmstudio_files |-> {}, ramalama |-> None, binaries |-> binaries]]

Tui == [rows |-> {LlamaRow, LargeRow}, requests |-> {}, jobs |-> {}, asks |-> {}]

Job(n, runtime) == [name |-> n, runtime |-> runtime]
Ask(n, quant) == [name |-> n, quant |-> quant]

Machine(w, use, most, stops, downs) ==
    [world |-> w, used |-> use, pulls |-> most, restarts |-> stops, outages |-> downs]

(* Ollama under its first or second address; the runtimes of a desktop;    *)
(* the TUI or the API next to the command, in one directory; two requests; *)
(* and one server on port 8000, whoever it is.                             *)
OllamaMachines ==
    {Machine(World("linux", e :> OllamaServer, {"ollama"}, FALSE), Tui, 2, 1, 1) :
        e \in {"localhost:11434", "127.0.0.1:11434"}}
Desktop ==
    Machine(World("macos", "localhost:12434" :> DockerServer @@ "127.0.0.1:1234" :> LmStudioServer,
                  {"hf"}, TRUE), [Tui EXCEPT !.rows = @ \cup {GemmaRow}], 1, 0, 1)
Local == Machine(World("linux", <<>>, {"llama-cli"}, FALSE),
                 [Tui EXCEPT !.rows = @ \cup {GemmaRow},
                             !.asks = {Ask(LlamaRepo, "q4_k_m")}], 1, 1, 0)
Shared == Machine(World("linux", <<>>, {}, FALSE),
                  [rows |-> {}, requests |-> {1}, jobs |-> {Job(LargeRepo, "llamacpp")},
                   asks |-> {Ask(LargeRepo, None)}], 2, 1, 0)
Serves == Machine(World("linux", "127.0.0.1:1234" :> LmStudioServer, {}, FALSE),
                  [rows |-> {}, requests |-> Requests, asks |-> {},
                   jobs |-> {Job(LlamaName, "lmstudio"), Job(LlamaName, "vllm")}], 2, 1, 0)
PortMachines ==
    {Machine(World("macos", [e \in {"localhost:8000", "127.0.0.1:8000"} |-> Serving(owner, omlx)],
                   {}, FALSE), Tui, 1, 0, 1) :
        owner \in {None, "vllm", "omlx", "llama-swap"}, omlx \in BOOLEAN}

MCMachines == OllamaMachines \cup {Desktop, Local, Shared, Serves} \cup PortMachines

MCVisible == {LlamaRow}
=============================================================================
