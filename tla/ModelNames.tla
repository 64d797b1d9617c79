----------------------------- MODULE ModelNames -----------------------------
(***************************************************************************)
(* How llmfit recognises a catalog model among the names a runtime lists,  *)
(* and which name it asks a runtime to pull (providers.rs).                *)
(*                                                                         *)
(* A name is a record [ns, segs, tag]: the part before the slash, the      *)
(* segments between dashes, and the segments of the tag after the colon    *)
(* ("ai/llama3.1:8b" is [ns |-> "ai", segs |-> <<"llama3.1">>,             *)
(* tag |-> <<"8b">>]).  Names are lower case.  The code cuts and compares  *)
(* strings; here it cuts and compares at the dashes.                       *)
(***************************************************************************)
EXTENDS Integers, Sequences, FiniteSets

CONSTANTS
    None,            \* no value
    SizeOf,          \* SizeOf[segment]: parameters in tenths of a billion
    OLLAMA_MAPPINGS, \* repository segments to an Ollama name
    GGUF_MAPPINGS,   \* repository segments to a GGUF repository
    MLX_MAPPINGS,    \* repositories that mlx-community mirrors by name
    DockerCatalog,   \* full names to Docker Model Runner names
    Repos            \* the repositories that exist on Hugging Face

Name(ns, segs, tag) == [ns |-> ns, segs |-> segs, tag |-> tag]

Bare(segs) == Name("", segs, <<>>)

OrElse(x, otherwise) == IF x = None THEN otherwise ELSE x

FirstOf(s) == IF s = <<>> THEN None ELSE s[1]

(* What follows the slash, and what precedes the colon. *)
LastPart(n) == [n EXCEPT !.ns = ""]

BeforeColon(n) == [n EXCEPT !.tag = <<>>]

(* installed_name.contains(candidate) *)
Contains(n, c) ==
    /\ c.ns \in {"", n.ns}
    /\ \E i \in 1..Len(n.segs) + 1 :
          /\ c.ns = "" \/ i = 1
          /\ i + Len(c.segs) - 1 <= Len(n.segs)
          /\ SubSeq(n.segs, i, i + Len(c.segs) - 1) = c.segs
          /\ c.tag = <<>>

-----------------------------------------------------------------------------
(* Suffixes.                                                               *)
VariantSegs == {"instruct", "chat", "hf", "it"}

(* .replace("-instruct", "").replace("-chat", "") ... *)
WithoutVariants(segs) ==
    IF segs = <<>> THEN segs
    ELSE <<Head(segs)>> \o SelectSeq(Tail(segs), LAMBDA s : s \notin VariantSegs)

(* The longest prefix of segs that does not end in a segment of drop. *)
TrimRight(segs, drop) ==
    LET kept == {i \in 1..Len(segs) : i = 1 \/ segs[i] \notin drop}
        last == CHOOSE i \in kept : \A j \in kept : j <= i
    IN  IF segs = <<>> THEN segs ELSE SubSeq(segs, 1, last)

strip_trailing_common_model_suffixes(segs) == TrimRight(segs, VariantSegs \cup {"base"})

GgufQuants == {"q8_0", "q6_k", "q5_k_m", "q4_k_m", "q4_0", "q3_k_m", "q2_k", "iq4_xs", "f16"}

(* Cut at the last quantization, and before it the marker of a dynamic one. *)
strip_gguf_quant_suffix(segs) ==
    LET cuts == {i \in 2..Len(segs) : segs[i] \in GgufQuants}
        at == CHOOSE i \in cuts : \A j \in cuts : j <= i
        base == SubSeq(segs, 1, at - 1)
    IN  CASE cuts = {} -> None
          [] cuts # {} /\ Len(base) > 1 /\ base[Len(base)] = "ud" -> SubSeq(base, 1, Len(base) - 1)
          [] OTHER -> base

MlxQuants == {"4bit", "8bit", "mxfp4", "fp16"}

(* The quantization and what follows it, then the "mlx" before it. *)
Unquantized(segs) ==
    LET cuts == {i \in 2..Len(segs) : segs[i] \in MlxQuants /\ (segs[i] = "fp16" => i = Len(segs))}
    IN  IF cuts = {} THEN segs
        ELSE SubSeq(segs, 1, (CHOOSE i \in cuts : \A j \in cuts : i <= j) - 1)

WithoutMlx(segs) ==
    IF Len(segs) > 1 /\ segs[Len(segs)] = "mlx" THEN SubSeq(segs, 1, Len(segs) - 1) ELSE segs

NoneIfSame(base, segs) == IF base = segs THEN None ELSE base

strip_mlx_quant_suffix(segs) == NoneIfSame(WithoutMlx(Unquantized(segs)), segs)

normalize_mlx_repo_base(segs) == OrElse(strip_mlx_quant_suffix(segs), segs)

(* "-gguf" and "mlx" in the repository, "mlx-community" before it. *)
is_likely_gguf_repo(n) == \E i \in 1..Len(n.segs) : n.segs[i] = "gguf"

is_likely_mlx_repo(n) ==
    /\ ~is_likely_gguf_repo(n)
    /\ n.ns = "mlx-community" \/ \E i \in 1..Len(n.segs) : n.segs[i] = "mlx"

is_likely_prequantized_repo(n) ==
    \E i \in 1..Len(n.segs) : n.segs[i] \in {"awq", "gptq", "autoround"}

-----------------------------------------------------------------------------
(* LM Studio, vLLM and RamaLama use the names of Hugging Face; a listed    *)
(* name that contains a candidate is the model.                            *)
VerbatimCandidates(n) ==
    {n, LastPart(n), Bare(WithoutVariants(n.segs))}

ContainsAny(installed, candidates) ==
    \E c \in candidates, i \in installed : Contains(i, c)

hf_name_to_lmstudio_candidates(n) == VerbatimCandidates(n)
is_model_installed_lmstudio(n, installed) ==
    ContainsAny(installed, hf_name_to_lmstudio_candidates(n))

hf_name_to_vllm_candidates(n) == VerbatimCandidates(n)
is_model_installed_vllm(n, installed) ==
    ContainsAny(installed, hf_name_to_vllm_candidates(n))

hf_name_to_ramalama_candidates(n) == VerbatimCandidates(n)
is_model_installed_ramalama(n, installed) ==
    ContainsAny(installed, hf_name_to_ramalama_candidates(n))

(* The library of LM Studio on disk is compared exactly. *)
hf_name_to_lmstudio_disk_candidates(n) == {n, LastPart(n)}
is_model_installed_lmstudio_disk(n, on_disk) ==
    hf_name_to_lmstudio_disk_candidates(n) \cap on_disk # {}

-----------------------------------------------------------------------------
(* Docker Model Runner: only what its catalog has.                         *)
docker_mr_pull_tag(n) == IF n \in DOMAIN DockerCatalog THEN DockerCatalog[n] ELSE None

has_docker_mr_mapping(n) == docker_mr_pull_tag(n) # None

hf_name_to_docker_mr_candidates(n) ==
    IF ~has_docker_mr_mapping(n) THEN {}
    ELSE LET tag == docker_mr_pull_tag(n) IN {tag, LastPart(tag), BeforeColon(tag)}

(* The tag itself or a variant of it: "8b-q4_k_m" for "8b". *)
TagVariant(i, c) ==
    /\ c.tag # <<>>
    /\ i.ns = c.ns /\ i.segs = c.segs
    /\ Len(i.tag) > Len(c.tag)
    /\ SubSeq(i.tag, 1, Len(c.tag)) = c.tag

docker_mr_installed_matches(i, c) == i = c \/ TagVariant(i, c)

is_model_installed_docker_mr(n, installed) ==
    \E c \in hf_name_to_docker_mr_candidates(n), i \in installed : docker_mr_installed_matches(i, c)

-----------------------------------------------------------------------------
(* llama.cpp: file names, exactly.                                         *)
lookup_gguf_repo(n) == IF n.segs \in DOMAIN GGUF_MAPPINGS THEN GGUF_MAPPINGS[n.segs] ELSE None

GgufPublishers == <<"bartowski", "ggml-org", "thebloke">>

hf_name_to_gguf_candidates(n) ==
    IF lookup_gguf_repo(n) # None THEN <<lookup_gguf_repo(n)>>
    ELSE [i \in DOMAIN GgufPublishers |-> Name(GgufPublishers[i], Append(n.segs, "gguf"), <<>>)]

has_gguf_mapping(n) == lookup_gguf_repo(n) # None

gguf_pull_tag(n) == lookup_gguf_repo(n)

first_existing_gguf_repo(n) ==
    FirstOf(SelectSeq(hf_name_to_gguf_candidates(n), LAMBDA r : r \in DOMAIN Repos))

is_model_installed_llamacpp(n, installed) ==
    {LastPart(BeforeColon(n)), Bare(WithoutVariants(n.segs))} \cap installed # {}

has_lmstudio_mapping(n) ==
    n.ns = "" \/ has_gguf_mapping(n) \/ first_existing_gguf_repo(n) # None

-----------------------------------------------------------------------------
(* MLX.                                                                    *)
explicit_mlx_repo_id(n) == IF n.ns # "" /\ is_likely_mlx_repo(n) THEN n ELSE None

Quantized(segs, infix) == <<Bare(segs \o infix \o <<"4bit">>), Bare(segs \o infix \o <<"8bit">>)>>

MlxVariants(segs) == Quantized(segs, <<>>) \o Quantized(segs, <<"mlx">>) \o <<Bare(segs)>>

(* The mapped repository, else the base and the base without its suffixes. *)
MappedOrVariants(segs, base, stripped) ==
    IF {segs, base} \cap MLX_MAPPINGS # {}
        THEN LET to == IF base \in MLX_MAPPINGS THEN base ELSE segs
             IN  Quantized(to, <<>>) \o <<Bare(to)>>
        ELSE MlxVariants(base) \o (IF stripped = base THEN <<>> ELSE MlxVariants(stripped))

BaseCandidates(segs, base) ==
    MappedOrVariants(segs, base, strip_trailing_common_model_suffixes(base))

(* In the order they are tried; a repetition changes nothing. *)
hf_name_to_mlx_candidates(n) ==
    (IF explicit_mlx_repo_id(n) = None THEN <<>> ELSE <<n>>)
        \o <<Bare(n.segs)>>
        \o BaseCandidates(n.segs, normalize_mlx_repo_base(n.segs))

InSeq(x, s) == \E i \in DOMAIN s : s[i] = x

is_model_installed_mlx(n, installed) ==
    n \in installed \/ \E i \in installed : InSeq(i, hf_name_to_mlx_candidates(n))

FourBitFirst(candidates) ==
    OrElse(FirstOf(SelectSeq(candidates, LAMBDA c : c.segs[Len(c.segs)] = "4bit")), candidates[1])

mlx_pull_tag(n) ==
    IF explicit_mlx_repo_id(n) # None THEN n ELSE FourBitFirst(hf_name_to_mlx_candidates(n))

(* The repository hf downloads, or None: a guess must exist. *)
resolve_mlx_fallback_repo(tag) ==
    LET guess == [tag EXCEPT !.ns = "mlx-community"]
    IN  CASE tag.ns # "" -> tag
          [] tag.ns = "" /\ is_likely_prequantized_repo(tag) /\ ~InSeq("mlx", tag.segs) -> None
          [] OTHER -> IF guess \in DOMAIN Repos THEN guess ELSE None

-----------------------------------------------------------------------------
(* Ollama.                                                                 *)
lookup_ollama_tag(n) ==
    IF n.segs \in DOMAIN OLLAMA_MAPPINGS THEN OLLAMA_MAPPINGS[n.segs] ELSE None

has_ollama_mapping(n) == lookup_ollama_tag(n) # None

ollama_pull_tag(n) == lookup_ollama_tag(n)

(* <<family, size and what follows it>> *)
split_name_and_size(segs) ==
    LET sizes == {i \in 2..Len(segs) : segs[i] \in DOMAIN SizeOf}
        at == CHOOSE i \in sizes : \A j \in sizes : j <= i
    IN  IF sizes = {} THEN None
        ELSE <<SubSeq(segs, 1, at - 1), SubSeq(segs, at, Len(segs))>>

TaggedName(split) == IF split = None THEN {} ELSE {Name("", split[1], split[2])}

FamilyCandidates(base) == TaggedName(split_name_and_size(base)) \cup {Bare(base)}

hf_name_to_ollama_candidates(n) ==
    IF has_ollama_mapping(n) THEN {lookup_ollama_tag(n)}
    ELSE FamilyCandidates(strip_trailing_common_model_suffixes(n.segs)) \cup {Bare(n.segs)}

OLLAMA_SIZE_MISMATCH_RATIO == 2

ollama_tag_size_b(i) ==
    IF i.tag # <<>> /\ i.tag[1] \in DOMAIN SizeOf THEN SizeOf[i.tag[1]] ELSE None

ollama_size_is_compatible(i, params) ==
    LET size == ollama_tag_size_b(i)
    IN  params = None \/ size = None
        \/ (params <= OLLAMA_SIZE_MISMATCH_RATIO * size /\ size <= OLLAMA_SIZE_MISMATCH_RATIO * params)

ollama_installed_matches_candidate(i, c, params) ==
    \/ i = c
    \/ TagVariant(i, c)
    \/ /\ c.tag = <<>> /\ i.tag # <<>>
       /\ i.ns = c.ns /\ i.segs = c.segs
       /\ ollama_size_is_compatible(i, params)

is_model_installed_sized(n, params, installed) ==
    \/ n \in installed
    \/ \E c \in hf_name_to_ollama_candidates(n), i \in installed :
          ollama_installed_matches_candidate(i, c, params)

is_model_installed(n, installed) == is_model_installed_sized(n, None, installed)

(* What a running server calls a model: an Ollama tag, a file, an MLX name. *)
tag_matches_model(tag, n) ==
    LET stem == LastPart(tag)
        bases == {strip_gguf_quant_suffix(stem.segs), strip_mlx_quant_suffix(stem.segs)} \ {None}
    IN  \/ is_model_installed(n, {tag})
        \/ is_model_installed_llamacpp(n, {stem} \cup {Bare(b) : b \in bases})

=============================================================================
