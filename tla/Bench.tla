------------------------------- MODULE Bench -------------------------------
(***************************************************************************)
(* Benchmarks of llmfit: which server is measured (bench.rs), what a       *)
(* measurement becomes as a submission (share.rs), which measurements are  *)
(* comparable with this machine and what they say of a model               *)
(* (benchmarks.rs).                                                        *)
(*                                                                         *)
(* Speeds are in hundredths of a token per second, which is what a         *)
(* submission keeps.  net[address] is what listens there: None or          *)
(* [kind, models].  An operation that fails returns None.                  *)
(***************************************************************************)
EXTENDS ModelNames, FiniteSetsExt, Functions

CONSTANTS
    Presets,     \* HARDWARE_PRESETS: a sequence of [label, class, name, tier]
    PartOf,      \* PartOf[part, name]: the accelerator's name contains the part
    Cached,      \* Cached[label]: rows of the embedded leaderboard, or None
    Submissions  \* the embedded submissions of the community

-----------------------------------------------------------------------------
(* The servers.                                                            *)
EnvOr(var, default) == IF var # None THEN var ELSE default

llamacpp_url(env) == EnvOr(env.LLAMA_SERVER_HOST, "localhost:8080")

(* Only llama-server answers /props. *)
probe_llamacpp(net, url) == net[url] # None /\ net[url].kind = "llamacpp"

(* Every one of the servers answers /v1/models, only Ollama /api/tags. *)
list_openai_models(net, url) ==
    IF net[url] = None THEN None ELSE net[url].models

list_ollama_models(net, url) ==
    IF net[url] = None THEN None
    ELSE IF net[url].kind = "ollama" THEN net[url].models ELSE None

(* A path to a file becomes the file's name.  The namespace of such a name *)
(* is "/gguf" for an absolute path and "gguf" for one relative to a hub.   *)
normalize_llamacpp_model_id(n) == IF n.ns \in {"/gguf", "gguf"} THEN LastPart(n) ELSE n

strip_gguf_path(n) == IF n.ns = "/gguf" THEN LastPart(n) ELSE n

list_llamacpp_models(net, url) ==
    LET ms == list_openai_models(net, url)
    IN  IF ms = None THEN None
        ELSE [i \in DOMAIN ms |-> normalize_llamacpp_model_id(ms[i])]

(* The first model the hint is part of, or the first model. *)
HintedModel(ms, hint) ==
    IF ms = None THEN None
    ELSE IF ms = <<>> THEN None
    ELSE LET hits == {i \in DOMAIN ms : hint # None /\ Contains(ms[i], hint)}
         IN  IF hits = {} THEN ms[1] ELSE ms[CHOOSE i \in hits : \A j \in hits : i <= j]

detect_openai_model(net, url, hint) == HintedModel(list_openai_models(net, url), hint)

detect_ollama_model(net, url, hint) == HintedModel(list_ollama_models(net, url), hint)

detect_llamacpp_model(net, url, hint) ==
    LET m == detect_openai_model(net, url, hint)
    IN  IF m = None THEN None ELSE normalize_llamacpp_model_id(m)

Target(provider, url, model) == [provider |-> provider, url |-> url, model |-> model]

(* vLLM, Ollama, llama-server, MLX: the first that has a model. *)
auto_detect_target(net, env, hint) ==
    LET vllm   == detect_openai_model(net, EnvOr(env.VLLM_PORT, "localhost:8000"), hint)
        ollama == detect_ollama_model(net, EnvOr(env.OLLAMA_HOST, "localhost:11434"), hint)
        llama  == IF probe_llamacpp(net, llamacpp_url(env))
                  THEN detect_llamacpp_model(net, llamacpp_url(env), hint) ELSE None
        mlx    == detect_openai_model(net, EnvOr(env.MLX_LM_HOST, "localhost:8080"), hint)
    IN  CASE vllm # None -> Target("vllm", EnvOr(env.VLLM_PORT, "localhost:8000"), vllm)
          [] vllm = None /\ ollama # None ->
                 Target("ollama", EnvOr(env.OLLAMA_HOST, "localhost:11434"), ollama)
          [] vllm = None /\ ollama = None /\ llama # None ->
                 Target("llamacpp", llamacpp_url(env), llama)
          [] vllm = None /\ ollama = None /\ llama = None /\ mlx # None ->
                 Target("mlx", EnvOr(env.MLX_LM_HOST, "localhost:8080"), mlx)
          [] OTHER -> None

(* Every model of every server; llama-server and MLX share a default port. *)
discover_all_targets(net, env) ==
    LET all(provider, url, ms) ==
            IF ms = None THEN <<>> ELSE [i \in DOMAIN ms |-> Target(provider, url, ms[i])]
        vllm  == EnvOr(env.VLLM_PORT, "localhost:8000")
        ollama == EnvOr(env.OLLAMA_HOST, "localhost:11434")
        llama == llamacpp_url(env)
        mlx   == EnvOr(env.MLX_LM_HOST, "localhost:8080")
        found == probe_llamacpp(net, llama)
    IN  all("vllm", vllm, list_openai_models(net, vllm))
        \o all("ollama", ollama, list_ollama_models(net, ollama))
        \o (IF found THEN all("llamacpp", llama, list_llamacpp_models(net, llama)) ELSE <<>>)
        \o (IF found /\ mlx = llama THEN <<>> ELSE all("mlx", mlx, list_openai_models(net, mlx)))

(* The target of the bench-offer worker: the first that is the model. *)
OfferTarget(net, env, name) ==
    LET ts == discover_all_targets(net, env)
        hits == {i \in DOMAIN ts : tag_matches_model(ts[i].model, name)}
    IN  IF hits = {} THEN None ELSE ts[CHOOSE i \in hits : \A j \in hits : i <= j]

(* What `llmfit bench MODEL --provider P --url U` measures. *)
cli_target(net, env, provider, url, model) ==
    LET detected(u) ==
            LET m == detect_openai_model(net, u, model) IN IF m # None THEN m ELSE model
        at(u, m) == IF m = None THEN None ELSE Target(provider, u, m)
        here(var, default) == EnvOr(url, EnvOr(var, default))
    IN  CASE provider = "ollama" -> at(here(env.OLLAMA_HOST, "localhost:11434"), model)
          [] provider = "vllm"   -> LET u == here(env.VLLM_PORT, "localhost:8000")
                                    IN  at(u, detected(u))
          [] provider = "mlx"    -> at(here(env.MLX_LM_HOST, "localhost:8080"), model)
          [] provider = "llamacpp" -> LET u == EnvOr(url, llamacpp_url(env))
                                      IN  at(u, detected(u))
          [] OTHER -> auto_detect_target(net, env, model)

-----------------------------------------------------------------------------
(* A measurement.  An answer is None (the request failed) or [tokens,      *)
(* evaluated, wall, prompt]: tokens generated, the seconds the server and  *)
(* the clock give, and the milliseconds to the first token.                *)
ollama_generate(a) ==
    IF a = None THEN None
    ELSE [ttft |-> a.prompt,
          tps  |-> CASE a.tokens # None /\ a.evaluated # None ->
                          IF a.evaluated > 0 THEN (100 * a.tokens) \div a.evaluated ELSE 0
                     [] a.tokens # None /\ a.evaluated = None ->
                          IF a.tokens > 0 THEN (100 * a.tokens) \div a.wall ELSE 0
                     [] OTHER -> 0]

openai_chat(a) ==
    IF a = None THEN None
    ELSE [ttft |-> None,
          tps  |-> IF a.tokens = None THEN 0 ELSE (100 * a.tokens) \div a.wall]

Mean(s) == LET n == Len(s) IN (2 * FoldFunction(LAMBDA x, y : x + y, 0, s) + n) \div (2 * n)

BenchSummary(rs) ==
    LET tps  == [i \in DOMAIN rs |-> rs[i].tps]
        ttft == SelectSeq([i \in DOMAIN rs |-> rs[i].ttft], LAMBDA t : t # None)
    IN  IF rs = <<>> THEN [runs |-> 0, ttft |-> None, tps |-> 0, least |-> 0, most |-> 0]
        ELSE [runs |-> Len(rs), ttft |-> IF ttft = <<>> THEN None ELSE Mean(ttft),
              tps |-> Mean(tps), least |-> Min(Range(tps)), most |-> Max(Range(tps))]

(* A warm-up that is not counted, then the runs; one failure fails all. *)
Measure(t, answers, one(_)) ==
    LET rs == [i \in DOMAIN answers |-> one(answers[i])]
    IN  IF None \in Range(rs) THEN None
        ELSE [model |-> t.model, provider |-> t.provider, summary |-> BenchSummary(Tail(rs))]

bench_ollama(t, answers) == Measure(t, answers, ollama_generate)

bench_openai_compat(t, answers) == Measure(t, answers, openai_chat)

BenchTarget(t, answers) ==
    IF t.provider = "ollama" THEN bench_ollama(t, answers) ELSE bench_openai_compat(t, answers)

-----------------------------------------------------------------------------
(* The submission.  s is [unified, gpu, name, vram, ram, cpu, metal].      *)
Nearest(tiers, gb) ==
    LET dist(t) == IF t > gb THEN t - gb ELSE gb - t
    IN  CHOOSE t \in tiers : \A u \in tiers : dist(t) < dist(u) \/ (dist(t) = dist(u) /\ t <= u)

declared_mem_tier(gb) == Nearest({2, 3, 4, 6, 8, 12, 16, 24, 32, 48, 64, 80, 96, 128, 192, 256}, gb)

lookup_mem_tier(gb) == Nearest({8, 12, 16, 24, 32, 48, 80, 96, 128}, gb)

HwClass(s) == IF s.unified THEN "UNIFIED" ELSE IF s.gpu THEN "DISCRETE_GPU" ELSE "CPU_ONLY"

TierOf(s, tier(_)) ==
    IF s.vram # None THEN tier(s.vram) ELSE IF s.unified THEN tier(s.ram) ELSE None

build_submission(results, s) ==
    [hw |-> [class |-> HwClass(s), name |-> s.name, tier |-> TierOf(s, declared_mem_tier),
             cpu |-> s.cpu],
     results |-> [i \in DOMAIN results |->
                    [model |-> strip_gguf_path(results[i].model), provider |-> results[i].provider,
                     tps |-> results[i].summary.tps]]]

(* Files written by older versions still hold paths. *)
sanitize_stored_payload(p) ==
    [p EXCEPT !.results = [i \in DOMAIN p.results |->
        [p.results[i] EXCEPT !.model = strip_gguf_path(@)]]]

is_placeholder_identity(name) == name \in {None, "", "n/a", "unknown", "none"}

hardware_is_identifiable(p) ==
    IF p.hw.class \in {"DISCRETE_GPU", "UNIFIED"} THEN ~is_placeholder_identity(p.hw.name)
    ELSE ~is_placeholder_identity(p.hw.cpu)

payload_slug(p) == IF p.hw.name # None THEN p.hw.name ELSE p.hw.cpu

(* Same processor and same accelerator, or none in both. *)
hardware_payload_matches(hw, s) == hw.cpu = s.cpu /\ hw.name = s.name

-----------------------------------------------------------------------------
(* What measurements say of a model.                                       *)
Sorted(bag) == \* the values of a sequence in increasing order
    LET before(i, j) == bag[i] < bag[j] \/ (bag[i] = bag[j] /\ i <= j)
        at(k) == CHOOSE i \in DOMAIN bag : Cardinality({j \in DOMAIN bag : before(j, i)}) = k
    IN  [k \in DOMAIN bag |-> bag[at(k)]]

MedianOf(bag) ==
    LET s == Sorted(bag)
        n == Len(s)
    IN  IF n % 2 = 1 THEN s[n \div 2 + 1] ELSE (s[n \div 2] + s[n \div 2 + 1]) \div 2

MeasuredTps(tps, n, source) == [tps |-> tps, samples |-> n, source |-> source]

(* Results of the community on this hardware, newest submission first.     *)
(* Submissions is in the order of their times.                             *)
community_results_for_specs(s) ==
    LET newest(n) == Submissions[Len(Submissions) + 1 - n]
        mine(n) == IF hardware_payload_matches(newest(n).hw, s)
                   THEN SelectSeq(newest(n).results, LAMBDA r : r.tps > 0) ELSE <<>>
        from[n \in 1..Len(Submissions) + 1] ==
            IF n > Len(Submissions) THEN <<>> ELSE mine(n) \o from[n + 1]
    IN  from[1]

CommunityBenchIndex_lookup(s, name) ==
    LET hits == SelectSeq(community_results_for_specs(s),
                          LAMBDA r : tag_matches_model(r.model, name))
    IN  IF hits = <<>> THEN None
        ELSE MeasuredTps(MedianOf([i \in DOMAIN hits |-> hits[i].tps]), Len(hits), "CommunityLlmfit")

(* The preset of the detected accelerator: the first whose name is part of *)
(* the accelerator's name.                                                 *)
cached_preset_for_specs(s) ==
    LET hits == {i \in DOMAIN Presets : s.name # None /\ Presets[i].name # None /\ PartOf[Presets[i].name, s.name]}
    IN  IF hits = {} THEN None ELSE Presets[CHOOSE i \in hits : \A j \in hits : i <= j]

cached_leaderboard_for_preset(label) == Cached[label]

(* Single requests without speculative decoding, above half a token. *)
Comparable(r) == r.batch <= 1 /\ ~r.speculative /\ r.tps > 50 /\ r.quant # ""

MeasuredTpsIndex_lookup(s, name, quant) ==
    LET preset == cached_preset_for_specs(s)
        rows == IF preset = None THEN <<>>
                ELSE IF cached_leaderboard_for_preset(preset.label) = None THEN <<>>
                ELSE cached_leaderboard_for_preset(preset.label)
        hits == SelectSeq(rows, LAMBDA r : Comparable(r) /\ r.model = name /\ r.quant = quant)
    IN  IF hits = <<>> THEN None
        ELSE MeasuredTps(MedianOf([i \in DOMAIN hits |-> hits[i].tps]), Len(hits), "Community")

(* What the leaderboard is asked for. *)
hw_leaderboard_params(s) ==
    [class |-> HwClass(s), name |-> s.name, tier |-> TierOf(s, lookup_mem_tier), os |-> s.os]

PresetParams(p) == [class |-> p.class, name |-> p.name, tier |-> p.tier, os |-> None]

=============================================================================
