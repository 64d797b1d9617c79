------------------------------ MODULE Runtimes ------------------------------
(***************************************************************************)
(* How llmfit finds the runtimes of a machine and what they have installed *)
(* (providers.rs, InstalledIndex of analysis.rs), and which files of a     *)
(* repository it downloads.                                                *)
(*                                                                         *)
(* A world is a machine as the probes see it:                              *)
(*   os, vars[v] (a host variable: [form, at], or None), net[endpoint]     *)
(*   (what answers there, or None), store (files and command line tools).  *)
(* What answers at an endpoint is a record                                 *)
(*   [models, garbled, header, tags, omlx, native, banner, health]:        *)
(* the OpenAI list (None: it has none, or a set of [id, owner]), whether   *)
(* its bodies are no JSON, the Server header, Ollama's tags (None, or a    *)
(* set of [name, size, cloud, params]), and what the other probes say.     *)
(***************************************************************************)
EXTENDS ModelNames, TLC

Detection(available, installed, count) ==
    [available |-> available, installed |-> installed, count |-> count]

NotDetected == Detection(FALSE, {}, 0)

Answers(w, url) == w.net[url] # None

-----------------------------------------------------------------------------
(* Hosts.  A variable is a URL, host:port, another scheme or blank.        *)
NormalizedHost(raw) == IF raw.form \in {"url", "bare"} THEN raw.at ELSE None

normalize_ollama_host(raw) == NormalizedHost(raw)
normalize_docker_mr_host(raw) == NormalizedHost(raw)
normalize_lmstudio_host(raw) == NormalizedHost(raw)
normalize_vllm_host(raw) == NormalizedHost(raw)
normalize_ramalama_host(raw) == NormalizedHost(raw)

is_wildcard_bind_address(url) == url = "0.0.0.0"

FromVar(w, v) == IF w.vars[v] = None THEN None ELSE NormalizedHost(w.vars[v])

(* <<base_url, fallback_url>> *)
OllamaProvider(w) ==
    LET explicit == FromVar(w, "OLLAMA_HOST")
    IN  IF explicit # None /\ ~is_wildcard_bind_address(explicit) THEN <<explicit, None>>
        ELSE <<"localhost:11434", "127.0.0.1:11434">>

DockerModelRunnerProvider(w) == OrElse(FromVar(w, "DOCKER_MODEL_RUNNER_HOST"), "localhost:12434")
LmStudioProvider(w) == OrElse(FromVar(w, "LMSTUDIO_HOST"), "127.0.0.1:1234")
VllmProvider(w) == OrElse(FromVar(w, "VLLM_HOST"), "localhost:8000")
RamaLamaProvider(w) == OrElse(FromVar(w, "RAMALAMA_HOST"), "localhost:8080")

(* MLX wants a full URL. *)
MlxProvider(w) ==
    LET raw == w.vars["MLX_LM_HOST"]
        explicit == raw # None /\ raw.form = "url"
    IN  [url |-> IF explicit THEN raw.at ELSE "localhost:8080", explicit |-> explicit]

-----------------------------------------------------------------------------
(* Ollama.                                                                 *)
is_cloud(m) == m.cloud \/ m.size = 0

(* The size tags a parameter count stands for: "8b" and "8.2b". *)
size_tokens_from_parameter_size(m) == m.params

OLLAMA_DEFAULT_TAG == <<"latest">>

InstalledNames(m) ==
    LET family == BeforeColon(m.name)
    IN  {m.name} \cup (IF m.name.tag \in {<<>>, OLLAMA_DEFAULT_TAG}
                          THEN {family} \cup {[family EXCEPT !.tag = <<t>>] :
                                                 t \in size_tokens_from_parameter_size(m)}
                          ELSE {})

(* <<installed names, how many models>> *)
build_installed_set(models) ==
    LET own == {m \in models : ~is_cloud(m)}
    IN  <<UNION {InstalledNames(m) : m \in own}, Cardinality(own)>>

FromTags(answer) ==
    IF answer.garbled THEN Detection(TRUE, {}, 0)
    ELSE LET built == build_installed_set(answer.tags) IN Detection(TRUE, built[1], built[2])

HasTags(w, url) == Answers(w, url) /\ w.net[url].tags # None

(* The provider, with the address that answered, and the detection. *)
detect_ollama(w) ==
    LET p == OllamaProvider(w)
    IN  CASE HasTags(w, p[1]) -> [provider |-> p, found |-> FromTags(w.net[p[1]])]
          [] ~HasTags(w, p[1]) /\ p[2] # None /\ HasTags(w, p[2]) ->
                [provider |-> <<p[2], None>>, found |-> FromTags(w.net[p[2]])]
          [] OTHER -> [provider |-> p, found |-> NotDetected]

ollama_installed_models_counted(w, p) ==
    IF HasTags(w, p[1]) THEN FromTags(w.net[p[1]]) ELSE Detection(FALSE, {}, 0)

-----------------------------------------------------------------------------
(* Who serves an OpenAI list.                                              *)
HasList(w, url) == Answers(w, url) /\ w.net[url].models # None /\ ~w.net[url].garbled

Garbled(w, url) == Answers(w, url) /\ w.net[url].models # None /\ w.net[url].garbled

owned_by(answer, name) == \E m \in answer.models : m.owner = name

classify_openai_endpoint(answer) ==
    CASE owned_by(answer, "vllm") -> "Vllm"
      [] ~owned_by(answer, "vllm") /\ owned_by(answer, "docker") -> "DockerModelRunner"
      [] ~owned_by(answer, "vllm") /\ ~owned_by(answer, "docker")
            /\ owned_by(answer, "llama-swap") -> "LlamaSwap"
      [] OTHER -> IF owned_by(answer, "llamacpp") \/ answer.header = "llama.cpp"
                      THEN "LlamaCpp" ELSE "Unrecognized"

(* The list and its owner, or None. *)
fetch_openai_model_list(w, url) ==
    IF HasList(w, url)
        THEN [models |-> w.net[url].models, identity |-> classify_openai_endpoint(w.net[url])]
        ELSE None

openai_model_list_is_omlx(answer) == owned_by(answer, "omlx")

endpoint_has_omlx_status(w, url) == Answers(w, url) /\ w.net[url].omlx

endpoint_is_lmstudio(w, url) == Answers(w, url) /\ w.net[url].native

endpoint_is_docker_model_runner_root(w, url) == Answers(w, url) /\ w.net[url].banner

Ids(models) == {m.id : m \in models}

(* A name, and what follows its slash. *)
WithLastParts(names) == names \cup {LastPart(n) : n \in names}

-----------------------------------------------------------------------------
(* MLX: the server, on macOS; the cache of Hugging Face everywhere.        *)
server_candidates(p) ==
    {[url |-> p.url, require_omlx_identity |-> FALSE]}
        \cup (IF p.explicit \/ p.url = "127.0.0.1:8000" THEN {}
              ELSE {[url |-> "127.0.0.1:8000", require_omlx_identity |-> TRUE]})

(* Mutant: oMLX need not say that it is oMLX. *)
FetchAnyone(w, c) == IF HasList(w, c.url) THEN w.net[c.url].models ELSE None

AcceptedModels(w, c, fetched) ==
    IF /\ fetched # None
       /\ fetched.identity = "Unrecognized"
       /\ c.require_omlx_identity =>
             endpoint_has_omlx_status(w, c.url) \/ openai_model_list_is_omlx(w.net[c.url])
    THEN fetched.models ELSE None

fetch_candidate_models(w, c) == AcceptedModels(w, c, fetch_openai_model_list(w, c.url))

scan_hf_cache_for_mlx(w) ==
    WithLastParts({n \in w.store.hf_cache : is_likely_mlx_repo(n)})

scan_hf_cache_for_gguf(w) ==
    WithLastParts({n \in w.store.hf_cache : is_likely_gguf_repo(n)})

(* The configured server first, then oMLX's. *)
FirstServed(url, served) ==
    IF served = {} THEN None
    ELSE (CHOOSE s \in served : s[1] = url \/ \A t \in served : t[1] # url)[2]

MlxServed(w, p) ==
    FirstServed(p.url, {s \in {<<c.url, fetch_candidate_models(w, c)>> : c \in server_candidates(p)} :
                           s[2] # None})

MlxDetection(w, cached, served) ==
    CASE w.os # "macos" -> Detection(FALSE, cached, 0)
      [] w.os = "macos" /\ served # None -> Detection(TRUE, cached \cup Ids(served), 0)
      [] OTHER -> Detection(w.store.mlx_python, cached, 0)

detect_mlx(w) == MlxDetection(w, scan_hf_cache_for_mlx(w), MlxServed(w, MlxProvider(w)))

-----------------------------------------------------------------------------
(* Docker Model Runner, LM Studio, vLLM, RamaLama.                         *)
docker_mr_identified(w, url) ==
    LET identity == classify_openai_endpoint(w.net[url])
    IN  \/ identity = "DockerModelRunner"
        \/ /\ w.net[url].models = {} /\ identity = "Unrecognized"
           /\ endpoint_is_docker_model_runner_root(w, url)

is_docker_desktop_running(w) ==
    \/ w.store.docker_socket
    \/ w.vars["DOCKER_MODEL_RUNNER_HOST"] # None
          /\ w.vars["DOCKER_MODEL_RUNNER_HOST"].form # "blank"

detect_docker_mr(w) ==
    LET url == DockerModelRunnerProvider(w)
    IN  CASE w.os = "linux" /\ ~is_docker_desktop_running(w) -> NotDetected
          [] ~(w.os = "linux" /\ ~is_docker_desktop_running(w)) /\ Garbled(w, url) ->
                Detection(TRUE, {}, 0)
          [] OTHER ->
                IF HasList(w, url) /\ docker_mr_identified(w, url)
                    THEN LET ids == Ids(w.net[url].models)
                         IN  Detection(TRUE, WithLastParts(ids) \cup {BeforeColon(n) : n \in ids},
                                       Cardinality(ids))
                    ELSE NotDetected

docker_desktop_installed(w) == w.store.docker_app

detect_lmstudio(w) ==
    LET url == LmStudioProvider(w)
    IN  CASE Garbled(w, url) -> Detection(TRUE, {}, 0)
          [] HasList(w, url) /\ endpoint_is_lmstudio(w, url) ->
                Detection(TRUE, WithLastParts(Ids(w.net[url].models)), Cardinality(w.net[url].models))
          [] OTHER -> NotDetected

lmstudio_app_installed(w) == w.store.lms_command \/ w.store.lmstudio_app

(* Files of a directory tree: at most three levels down, none through a    *)
(* linked directory, and one of those that are the same file: the real     *)
(* one before a link to it.                                                *)
GGUF_SCAN_MAX_DEPTH == 3

dedupe_by_target(files) ==
    {f \in files : \A g \in files :
        g.target = f.target /\ g # f => f.alias = g.alias \/ ~f.alias}

collect_gguf_files(files) ==
    dedupe_by_target({f \in files : f.depth <= GGUF_SCAN_MAX_DEPTH /\ ~f.linked_dir})

(* <<names, how many repositories>> of LM Studio's directory: the file,    *)
(* without its quantization, its repository, with and without "gguf".      *)
scan_lmstudio_models_dir(w) ==
    LET files == {f \in collect_gguf_files(w.store.lmstudio_files) : f.stem[1] # "mmproj"}
        trimmed(segs) == TrimRight(segs, {"gguf"})
        names(f) == {Bare(f.stem)}
                      \cup {Bare(b) : b \in {strip_gguf_quant_suffix(f.stem)} \ {None}}
                      \cup {Name(ns, segs, <<>>) :
                              ns \in {"", f.publisher}, segs \in {f.repo, trimmed(f.repo)}}
    IN  <<UNION {names(f) : f \in files}, Cardinality({f.repo : f \in files})>>

detect_vllm(w) ==
    LET url == VllmProvider(w)
        omlx == endpoint_has_omlx_status(w, url)
    IN  CASE Garbled(w, url) -> IF omlx THEN NotDetected ELSE Detection(TRUE, {}, 0)
          [] HasList(w, url) /\ ~openai_model_list_is_omlx(w.net[url])
                /\ ~(w.net[url].models = {} /\ omlx)
                /\ classify_openai_endpoint(w.net[url]) = "Vllm" ->
                Detection(TRUE, WithLastParts(Ids(w.net[url].models)), Cardinality(w.net[url].models))
          [] OTHER -> NotDetected

insert_ramalama_name(n) == {n, LastPart(n)}

(* What `ramalama ls` lists, or None: no binary, an error, or too slow. *)
installed_from_store(w) == w.store.ramalama

parse_ramalama_store(models) ==
    Detection(TRUE, UNION {insert_ramalama_name(m.name)
                             \cup (IF m.short = None THEN {} ELSE insert_ramalama_name(m.short)) :
                           m \in models},
              Cardinality(models))

RamaLamaStore(w) ==
    IF installed_from_store(w) = None THEN NotDetected
    ELSE parse_ramalama_store(installed_from_store(w))

detect_ramalama(w) ==
    LET url == RamaLamaProvider(w)
    IN  CASE Garbled(w, url) -> Detection(TRUE, {}, 0)
          [] HasList(w, url) /\ classify_openai_endpoint(w.net[url]) # "LlamaSwap" ->
                Detection(TRUE, WithLastParts(Ids(w.net[url].models)), Cardinality(w.net[url].models))
          [] OTHER -> RamaLamaStore(w)

-----------------------------------------------------------------------------
(* llama.cpp: binaries, else a server; files of the models directory,      *)
(* given as segments of their names.                                       *)
find_binary(w, name) == name \in w.store.binaries

probe_llama_server(w) == Answers(w, "localhost:8080") /\ w.net["localhost:8080"].health

LlamaCppProvider(w) ==
    LET cli == find_binary(w, "llama-cli") \/ find_binary(w, "llama-server")
    IN  [binaries |-> cli, server_running |-> ~cli /\ probe_llama_server(w)]

llamacpp_is_available(w) ==
    LlamaCppProvider(w).binaries \/ LlamaCppProvider(w).server_running

(* Mutant: files keep their quantization. *)
QuantizedNames(w, stems) ==
    Detection(llamacpp_is_available(w), {Bare(s) : s \in stems} \cup scan_hf_cache_for_gguf(w),
              Cardinality(stems))

llamacpp_installed_models_counted(w, stems) ==
    Detection(llamacpp_is_available(w),
              {Bare(s) : s \in stems}
                \cup {Bare(b) : b \in {strip_gguf_quant_suffix(s) : s \in stems} \ {None}}
                \cup scan_hf_cache_for_gguf(w),
              Cardinality(stems)
                + Cardinality({n \in w.store.hf_cache : is_likely_gguf_repo(n)}))

-----------------------------------------------------------------------------
(* InstalledIndex: what each runtime has.                                  *)
InstalledIndexEmpty ==
    [ollama |-> {}, mlx |-> {}, llamacpp |-> {}, docker_mr |-> {}, lmstudio |-> {},
     lmstudio_disk |-> {}, vllm |-> {}, ramalama |-> {}]

detect_all(w, stems) ==
    [ollama        |-> ollama_installed_models_counted(w, OllamaProvider(w)).installed,
     mlx           |-> detect_mlx(w).installed,
     llamacpp      |-> llamacpp_installed_models_counted(w, stems).installed,
     docker_mr     |-> detect_docker_mr(w).installed,
     lmstudio      |-> detect_lmstudio(w).installed,
     lmstudio_disk |-> scan_lmstudio_models_dir(w)[1],
     vllm          |-> detect_vllm(w).installed,
     ramalama      |-> detect_ramalama(w).installed]

(* The runtimes that have a model; some model of the catalog is installed  *)
(* when one of them does.                                                  *)
installed_providers(index, n, params) ==
    {r \in DOMAIN index :
        CASE r = "ollama"        -> is_model_installed_sized(n, params, index.ollama)
          [] r = "mlx"           -> is_model_installed_mlx(n, index.mlx)
          [] r = "llamacpp"      -> is_model_installed_llamacpp(n, index.llamacpp)
          [] r = "docker_mr"     -> is_model_installed_docker_mr(n, index.docker_mr)
          [] r = "lmstudio"      -> is_model_installed_lmstudio(n, index.lmstudio)
          [] r = "lmstudio_disk" -> is_model_installed_lmstudio_disk(n, index.lmstudio_disk)
          [] r = "vllm"          -> is_model_installed_vllm(n, index.vllm)
          [] r = "ramalama"      -> is_model_installed_ramalama(n, index.ramalama)}

InstalledAnywhere(index, n, params) == installed_providers(index, n, params) # {}

-----------------------------------------------------------------------------
(* GGUF files of a repository: [dir, stem, shard, size, safe], where shard *)
(* is <<index, total>> or None and safe says whether the path may be used. *)
(* A file is stored under its name without the directory.                  *)
LocalName(f) == [stem |-> f.stem, shard |-> f.shard]

(* The stem of the stored file, as the index sees it. *)
LocalStem(l) == IF l.shard = None THEN l.stem ELSE l.stem \o <<"shard">>

validate_gguf_repo_path(f) == f.safe

validate_gguf_filename(f) == f.stem # <<>>

parse_repo_gguf_entries(files) == SelectSeq(files, validate_gguf_repo_path)

list_repo_gguf_files(repo) ==
    IF repo \in DOMAIN Repos THEN parse_repo_gguf_entries(Repos[repo]) ELSE <<>>

parse_shard_info(f) ==
    IF f.shard # None /\ f.shard[1] >= 1 /\ f.shard[1] <= f.shard[2] THEN f.shard ELSE None

SameSet(f, g) ==
    /\ parse_shard_info(f) # None /\ parse_shard_info(g) # None
    /\ f.dir = g.dir /\ f.stem = g.stem /\ f.shard[2] = g.shard[2]

(* The listed shards of f's set in the order of their indices. *)
collect_shard_set(files, f) ==
    LET set == SelectSeq(files, LAMBDA g : SameSet(f, g))
    IN  IF parse_shard_info(f) = None \/ set = <<>> THEN None
        ELSE SortSeq(set, LAMBDA g, h : g.shard[1] < h.shard[1])

SumSizes(files) ==
    LET sum[i \in 0..Len(files)] == IF i = 0 THEN 0 ELSE sum[i - 1] + files[i].size
    IN  sum[Len(files)]

(* <<file, size>>: a set of shards counts once, as its first shard. *)
build_gguf_candidates(files) ==
    LET leads == SelectSeq([i \in DOMAIN files |-> i],
                    LAMBDA i : \A j \in 1..i - 1 : ~SameSet(files[j], files[i]))
        entry(f) == LET set == collect_shard_set(files, f)
                    IN  IF set = None THEN <<f, f.size>> ELSE <<set[1], SumSizes(set)>>
    IN  [k \in DOMAIN leads |-> entry(files[leads[k]])]

QuantOrder == <<"q8_0", "q6_k", "q5_k_m", "q4_k_m", "q4_0", "q3_k_m", "q2_k", "iq4_xs">>

(* The first quantization in order that fits the budget, else the largest  *)
(* file that does (the later of two).                                      *)
BestOf(fitting) ==
    LET of(q) == SelectSeq(fitting, LAMBDA c : InSeq(q, c[1].stem))
        quants == SelectSeq(QuantOrder, LAMBDA q : of(q) # <<>>)
        largest == CHOOSE i \in DOMAIN fitting :
                      /\ \A j \in DOMAIN fitting : fitting[j][2] <= fitting[i][2]
                      /\ \A j \in i + 1..Len(fitting) : fitting[j][2] < fitting[i][2]
    IN  CASE quants # <<>> -> of(quants[1])[1]
          [] quants = <<>> /\ fitting # <<>> -> fitting[largest]
          [] OTHER -> None

select_best_gguf(files, budget) ==
    BestOf(SelectSeq(build_gguf_candidates(files), LAMBDA c : c[2] > 0 /\ c[2] <= budget))

(* What one pull of a file downloads: the listed shards of its set. *)
download_gguf(repo, f) ==
    LET set == collect_shard_set(list_repo_gguf_files(repo), f)
    IN  IF set = None THEN <<f>> ELSE set

Unbounded == 999

(* The files a pull of a repository downloads, or <<>>: there are none. *)
FilesFor(repo, files, best) ==
    IF files = <<>> THEN <<>> ELSE download_gguf(repo, IF best # None THEN best[1] ELSE files[1])

start_pull_llamacpp(repo) ==
    LET files == list_repo_gguf_files(repo)
    IN  FilesFor(repo, files, select_best_gguf(files, Unbounded))

(* LM Studio is given a repository that has a file for this machine. *)
try_gguf_repo(repo, budget) ==
    IF select_best_gguf(list_repo_gguf_files(repo), budget) # None THEN repo ELSE None

lmstudio_find_gguf_url(n, budget) ==
    LET known == IF lookup_gguf_repo(n) = None THEN <<>> ELSE <<lookup_gguf_repo(n)>>
        tried == known \o hf_name_to_gguf_candidates(n) \o (IF n.ns = "" THEN <<>> ELSE <<n>>)
    IN  FirstOf(SelectSeq(tried, LAMBDA r : try_gguf_repo(r, budget) # None))

lmstudio_pull_tag(n, budget) ==
    IF n.ns = "" THEN n ELSE lmstudio_find_gguf_url(n, budget)

=============================================================================
