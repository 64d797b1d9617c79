---------------------------- MODULE MCBenchBoard ----------------------------
(* One machine with a known accelerator, whose results may also carry a    *)
(* placeholder for it; two models; one preset for the accelerator and one  *)
(* for another.                                                            *)
EXTENDS BenchBoard

Llama == <<"llama", "3.1", "8b", "instruct">>
Qwen == <<"qwen3", "8b">>

MCSizeOf == [s \in {"8b"} |-> 80]
MCOllamaMappings == [s \in {Llama} |-> Name("", <<"llama3.1">>, <<"8b">>)]
MCGgufMappings == [s \in {} |-> None]
MCMlxMappings == {}
MCDockerCatalog == [n \in {} |-> None]
MCRepos == [r \in {} |-> None]

LlamaName == Name("meta-llama", Llama, <<>>)
QwenName == Name("qwen", Qwen, <<>>)
MCNames == {LlamaName, QwenName}

LlamaTag == Name("", <<"llama3.1">>, <<"8b">>)
QwenPath == Name("/gguf", Append(Qwen, "q4_k_m"), <<>>)

MCHere == [unified |-> FALSE, gpu |-> TRUE, name |-> "nvidia rtx 4090", vram |-> 24, ram |-> 64,
           cpu |-> "ryzen", os |-> "linux"]
Unnamed == [MCHere EXCEPT !.name = "n/a"]

MCPresets == <<[label |-> "RTX 4090 (24 GB)", class |-> "DISCRETE_GPU", name |-> "rtx 4090", tier |-> 24],
               [label |-> "T4 (16 GB)", class |-> "DISCRETE_GPU", name |-> "t4", tier |-> 16]>>
Labels == {MCPresets[i].label : i \in {1, 2}}
MCPartOf == [parts \in {"rtx 4090", "t4"} \X {MCHere.name, Unnamed.name} |->
                parts = <<"rtx 4090", MCHere.name>>]

Run(model, tps) == [model |-> model, tps |-> tps, batch |-> 1, speculative |-> FALSE, quant |-> "q4_k_m"]
MCCached == [l \in Labels |-> IF l = "T4 (16 GB)" THEN None ELSE <<Run(LlamaName, 9000)>>]
MCBoard ==
    [q \in {hw_leaderboard_params(MCHere)} \cup {PresetParams(MCPresets[i]) : i \in {1, 2}} |->
        IF q = hw_leaderboard_params(MCHere) THEN <<Run(LlamaName, 9100), Run(QwenName, 9200)>>
        ELSE <<Run(QwenName, 3000)>>]
MCSubmissions == <<[hw |-> [class |-> "DISCRETE_GPU", name |-> MCHere.name, tier |-> 24, cpu |-> "ryzen"],
                    results |-> <<[model |-> LlamaTag, provider |-> "ollama", tps |-> 8000]>>]>>

MCEnv == [v \in {"VLLM_PORT", "OLLAMA_HOST", "LLAMA_SERVER_HOST", "MLX_LM_HOST"} |-> None]
Addresses == {"localhost:8000", "localhost:11434", "localhost:8080"}
Net(servers) == [a \in Addresses |-> IF a \in DOMAIN servers THEN servers[a] ELSE None]
Server(kind, models) == [kind |-> kind, models |-> models]
MCNets == {Net("localhost:11434" :> Server("ollama", <<LlamaTag>>)
               @@ "localhost:8080" :> Server("llamacpp", <<QwenPath>>)),
           Net(<<>>)}

Answer(n, evaluated) == [tokens |-> n, evaluated |-> evaluated, wall |-> 2, prompt |-> 100]
MCAnswers == {<<Answer(30, 1), Answer(60, 1)>>, <<Answer(30, 1), None>>}

Job(ui, share, all, provider, model, specs) ==
    [ui |-> ui, share |-> share, all |-> all, provider |-> provider, model |-> model,
     url |-> None, specs |-> specs]

Stored(specs, model, tps) ==
    [where |-> "pending",
     payload |-> build_submission(<<[model |-> model, provider |-> "ollama", summary |-> [tps |-> tps]]>>,
                                  specs)]

MCOffers == {Job(TRUE, "no", FALSE, "ollama", LlamaName, MCHere)}

Tokens(env, cache, client) == [env |-> env, cache |-> cache, client |-> client]
Left(jobs, faults, crashes, reviews) ==
    [jobs |-> jobs, faults |-> faults, crashes |-> crashes, reviews |-> reviews]
Machine(fs, ts, fork, most, ks) ==
    [files |-> fs, tokens |-> ts, fork |-> fork, opened |-> FALSE, left |-> most, keys |-> ks]

ShareOnly(share) == Job(FALSE, share, FALSE, None, None, MCHere)
BenchAll(share) == Job(FALSE, share, TRUE, "auto", None, MCHere)
BenchOne(share, provider) == Job(FALSE, share, FALSE, provider, LlamaTag, MCHere)

Two == <<Stored(MCHere, LlamaTag, 4000), Stored(MCHere, LlamaTag, 5000)>>

(* Two commands share one store, one of them with a run of its own.        *)
Rivals == Machine(Two, Tokens("good", None, FALSE), "ready",
                  Left({ShareOnly("yes"), BenchOne("yes", "ollama")}, 1, 1, 1), 0)
(* Every kind of credential, a fork still to be made, unnamed hardware.    *)
Newcomers ==
    {Machine(<<Stored(Unnamed, LlamaTag, 4000), Stored(MCHere, QwenPath, 5000)>>, t, fork,
             Left({ShareOnly("ask")}, 1, 0, 0), 0) :
        t \in {Tokens(None, "expired", TRUE), Tokens("weak", None, FALSE), Tokens("expired", None, TRUE),
               Tokens(None, None, FALSE)}, fork \in {"none", "ready"}}
Nameless == Machine(<<Stored(Unnamed, LlamaTag, 4000)>>, Tokens("good", None, FALSE), "ready",
                    Left({ShareOnly("yes")}, 0, 0, 0), 0)
(* Every way to name what is measured. *)
Measurers ==
    {Machine(<<>>, Tokens("good", None, FALSE), "ready", Left({job}, 1, 0, 0), 0) :
        job \in {BenchAll("no"), BenchAll("dry")}
                \cup {BenchOne("no", p) : p \in {"auto", "ollama", "vllm", "mlx", "llamacpp"}}}
(* The TUI offers a benchmark, alone or next to a command that shares.     *)
Offering ==
    {Machine(<<>>, Tokens(None, "expired", TRUE), "ready", Left(MCOffers, 1, 1, 0), 5),
     Machine(<<Stored(MCHere, LlamaTag, 4000)>>, Tokens("good", None, FALSE), "ready",
             Left(MCOffers \cup {ShareOnly("yes")}, 0, 0, 0), 4)}
(* The leaderboard alone, with and without a stored result.                *)
Browsing ==
    {Machine(fs, Tokens(None, None, FALSE), "none", Left({}, 0, 0, 0), 8) :
        fs \in {<<>>, <<Stored(MCHere, LlamaTag, 4000)>>}}

(* A command reads the store while another shares it. *)
Starting == Machine(Two, Tokens("good", None, FALSE), "ready", Left({ShareOnly("yes")}, 1, 1, 0), 2)

(* A token that may not write, and an open pull request to add to.         *)
Scoped == [Machine(<<Stored(MCHere, LlamaTag, 4000)>>, Tokens("weak", None, FALSE), "ready",
                   Left({ShareOnly("yes")}, 0, 0, 1), 0) EXCEPT !.opened = TRUE]

MCMachines == {Rivals, Nameless, Scoped, Starting} \cup Offering \cup Newcomers \cup Measurers \cup Browsing
=============================================================================
