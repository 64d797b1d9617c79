------------------------------- MODULE Models -------------------------------
(***************************************************************************)
(* A model of the catalog and what models.rs derives from it: the tables   *)
(* of the quantizations, capabilities and use case, plausibility, the size *)
(* of weights, KV cache and experts, and the best quantization for a       *)
(* memory budget.                                                          *)
(*                                                                         *)
(* Names and descriptions are sets of words: a text contains a word when   *)
(* the word is in its set, which is all the code ever asks of them.  An    *)
(* architecture is a pair of family and suffix.                            *)
(*                                                                         *)
(* Units: memory in 1/1024 GB, parameters in millions, bytes per parameter *)
(* and per KV element in hundredths, context in 1024 tokens.  Divisions    *)
(* round down where the code keeps fractions.                              *)
(***************************************************************************)
EXTENDS Integers, Sequences, FiniteSets, SequencesExt, FiniteSetsExt

CONSTANTS
    None,        \* no value
    TaskBench    \* TaskBench[task]: rules of data/use_case_benchmarks.json,
                 \* the most specific pattern first

orElse(x, y) == IF x = None THEN y ELSE x

(* What the types of the program say of a model. *)
Optional(S) == S \cup {None}

LlmModel(m) ==
    /\ m.recommended \in Nat /\ m.context \in Nat /\ m.parameters \in Optional(Nat)
    /\ {m.layers, m.heads, m.kv_heads, m.head_dim} \subseteq Optional(Nat)
    /\ m.layout \in Optional([full : Nat, linear : Nat])

(* The value of the first rule <<words, value>> one of whose words occurs. *)
FirstRule(rules, words, default) ==
    LET hits == {i \in DOMAIN rules : rules[i][1] \cap words # {}}
    IN  IF hits = {} THEN default ELSE rules[Min(hits)][2]

-----------------------------------------------------------------------------
QUANT_HIERARCHY == <<"Q8_0", "Q6_K", "Q5_K_M", "Q4_K_M", "Q3_K_M", "Q2_K">>

MLX_QUANT_HIERARCHY == <<"mlx-8bit", "mlx-4bit">>

ONNX_QUANT_HIERARCHY == <<"Q8_0", "Q4_0">>

(* The names of the lists, and whatever else a catalog says. *)
Quantizations ==
    ToSet(QUANT_HIERARCHY) \cup ToSet(MLX_QUANT_HIERARCHY)
        \cup ToSet(ONNX_QUANT_HIERARCHY) \cup STRING

(* No value is neither a number nor a quantization with its memory. *)
ASSUME NoneAssumption == None \notin Nat /\ None \notin Quantizations \X Nat

(* A UD-Qn quantization has in all four tables the value of the Qn of its  *)
(* name, and is not told apart from it.                                    *)
quant_bpp(quant) ==
    CASE quant = "F32"                                    -> 400
      [] quant \in {"F16", "BF16"}                        -> 200
      [] quant = "Q8_0"                                   -> 105
      [] quant \in {"mlx-8bit", "AWQ-8bit", "GPTQ-Int8"}  -> 100
      [] quant = "Q6_K"                                   -> 80
      [] quant = "Q5_K_M"                                 -> 68
      [] quant = "mlx-4bit"                               -> 55
      [] quant \in {"AWQ-4bit", "GPTQ-Int4"}              -> 50
      [] quant = "Q3_K_M"                                 -> 48
      [] quant = "Q2_K"                                   -> 37
      [] OTHER                                            -> 58

EightBits == {"Q8_0", "mlx-8bit", "AWQ-8bit", "GPTQ-Int8", "AutoRound-8bit"}

FourBits == {"AWQ-4bit", "GPTQ-Int4", "AutoRound-4bit"}

quant_speed_multiplier(quant) ==
    CASE quant \in {"F16", "BF16"}               -> 60
      [] quant = "Q8_0"                          -> 80
      [] quant \in EightBits \ {"Q8_0"}           -> 85
      [] quant = "Q6_K"                          -> 95
      [] quant \in {"Q4_K_M", "Q4_0", "mlx-4bit"} -> 115
      [] quant \in FourBits                      -> 120
      [] quant = "Q3_K_M"                        -> 125
      [] quant = "Q2_K"                          -> 135
      [] OTHER                                   -> 100

(* In thousandths, for 0.625 and 0.375. *)
quant_bytes_per_param(quant) ==
    CASE quant \in {"F16", "BF16"} -> 2000
      [] quant \in EightBits       -> 1000
      [] quant = "Q6_K"            -> 750
      [] quant = "Q5_K_M"          -> 625
      [] quant = "Q3_K_M"          -> 375
      [] quant = "Q2_K"            -> 250
      [] OTHER                     -> 500

quant_quality_penalty(quant) ==
    CASE quant \in {"F16", "BF16"} \cup EightBits -> 0
      [] quant = "Q6_K"                          -> -1
      [] quant = "Q5_K_M"                        -> -2
      [] quant \in FourBits                      -> -3
      [] quant = "mlx-4bit"                      -> -4
      [] quant = "Q3_K_M"                        -> -8
      [] quant = "Q2_K"                          -> -12
      [] OTHER                                   -> -5

-----------------------------------------------------------------------------
(* Generations, in tenths.                                                 *)
qwen_minor_generation_from_name(words, default) ==
    FirstRule(<< <<{"qwen3.8"}, 38>>, <<{"qwen3.6"}, 36>>, <<{"qwen3.5"}, 35>>,
                 <<{"qwen2.5"}, 25>> >>, words, default)

GenerationFromName(words) ==
    qwen_minor_generation_from_name(words,
        FirstRule(<< <<{"qwen3"}, 30>>, <<{"qwen2"}, 20>>, <<{"llama-4"}, 40>>,
                     <<{"llama-3.3"}, 33>>, <<{"llama-3.2"}, 32>>, <<{"llama-3.1"}, 31>>,
                     <<{"llama-3"}, 30>>, <<{"llama-2"}, 20>>, <<{"gemma-4"}, 40>>,
                     <<{"gemma-3"}, 30>>, <<{"gemma-2"}, 20>>, <<{"deepseek-v4"}, 40>>,
                     <<{"deepseek-v3"}, 30>>, <<{"deepseek-v2"}, 20>>, <<{"phi-4"}, 40>>,
                     <<{"phi-3"}, 30>> >>, words, None))

(* The suffixes of a family which make a generation; any other is the      *)
(* first.  Only plain llama says nothing and leaves it to the name.        *)
SuffixGenerations ==
    [deepseek |-> << <<{"v4"}, 40>>, <<{"v3"}, 30>>, <<{"v2"}, 20>> >>,
     qwen     |-> << <<{"3_5"}, 35>>, <<{"3_next"}, 38>>, <<{"3"}, 30>>, <<{"2"}, 20>> >>,
     llama    |-> << <<{"4"}, 40>> >>,
     gemma    |-> << <<{"4"}, 40>>, <<{"3"}, 30>>, <<{"2"}, 20>> >>,
     phi      |-> << <<{"4"}, 40>>, <<{"3", "moe"}, 30>>, <<{"2"}, 20>> >>,
     mistral  |-> <<>>, mixtral |-> <<>>,
     cohere   |-> << <<{"2"}, 20>> >>,
     falcon   |-> << <<{"3"}, 30>> >>,
     granite  |-> << <<{"4"}, 40>> >>]

parse_generation(arch, words) ==
    IF arch = None \/ arch[1] \notin DOMAIN SuffixGenerations
        THEN GenerationFromName(words)
    ELSE LET suffix(default) ==
                FirstRule(SuffixGenerations[arch[1]], {arch[2]}, default)
         IN  CASE arch[1] = "qwen"  -> qwen_minor_generation_from_name(words, suffix(10))
               [] arch[1] = "llama" -> suffix(GenerationFromName(words))
               [] OTHER             -> suffix(10)

(* In tenths of a point: three points for a generation, nine at most.      *)
BonusOf(generation) ==
    IF generation = None THEN 0 ELSE Max({0, Min({90, (generation - 10) * 3})})

generation_quality_bonus(arch, words) == BonusOf(parse_generation(arch, words))

-----------------------------------------------------------------------------
(* Capability::infer *)
infer(m) ==
    LET w == m.words
        u == m.use_words
        tool == \/ u \cap {"tool", "function call"} # {}
                \/ w \cap {"qwen3", "qwen2.5", "command-r", "hermes"} # {}
                \/ "instruct" \in w /\ w \cap {"llama-3", "mistral"} # {}
                \/ "-it" \in w /\ w \cap {"gemma-3", "gemma-4"} # {}
        arch == IF m.architecture = None THEN {} ELSE {m.architecture[1]}
    IN  m.capabilities
          \cup (IF \/ w \cap {"vision", "-vl", "llava", "pixtral"} # {}
                   \/ u \cap {"vision", "multimodal"} # {} THEN {"Vision"} ELSE {})
          \cup (IF tool THEN {"ToolUse"} ELSE {})
          \cup (IF \/ "whisper" \in w \cup arch
                   \/ u \cap {"text-to-speech", "transcription", "speech", "audio"} # {}
                    THEN {"Audio"} ELSE {})
          \cup (IF "text-to-speech" \in u THEN {"Tts"} ELSE {})

(* UseCase::from_model *)
from_model(m) ==
    LET w == m.words
        u == m.use_words
    IN  IF "embedding" \in u \/ w \cap {"embed", "bge"} # {} THEN "Embedding"
        ELSE IF "code" \in w \cup u                           THEN "Coding"
        ELSE IF u \cap {"vision", "multimodal"} # {}          THEN "Multimodal"
        ELSE IF u \cap {"reason", "chain-of-thought"} # {} \/ "deepseek-r1" \in w
                                                              THEN "Reasoning"
        ELSE IF u \cap {"chat", "instruction"} # {}           THEN "Chat"
        ELSE "General"

is_prequantized(m) == m.format \in {"Awq", "Gptq", "Autoround"}

is_mlx_model(m) == "-mlx" \in m.words

requires_specialized_runtime(m) == "Tts" \in m.capabilities

(* The parameters, 7B when the catalog does not say. *)
params_b(m) == orElse(m.parameters, 7000)

(* The entries that are never ranked: a draft head for speculative         *)
(* decoding, a name that claims four times more or less than the catalog,  *)
(* a footprint of less than 1 or more than 33 bits per parameter.          *)
is_speculative_decoding_draft_token(m) == m.words \cap {"eagle", "dflash", "dspark"} # {}

SizeNameDivergence(m) ==
    /\ m.named_b # None /\ m.parameters # None
    /\ m.named_b > 0 /\ m.parameters > 0
    /\ \/ m.named_b >= 4 * m.parameters
       \/ m.parameters >= 4 * m.named_b

(* Bits per parameter: min_ram * 2^20 * 8 over the parameters.             *)
implied_bits_in_range(m) ==
    \/ m.parameters = None \/ m.parameters <= 0
    \/ (m.min_ram * 839) \div 100 \in m.parameters .. 33 * m.parameters

is_sanitization_demoted(m) ==
    \/ is_speculative_decoding_draft_token(m)
    \/ SizeNameDivergence(m)
    \/ ~implied_bits_in_range(m)

-----------------------------------------------------------------------------
(* AttentionLayout: only full layers keep a KV cache.                      *)
infer_attention_layout_from_name(words) ==
    LET qwen == FirstRule(<< <<{"-a95b"}, [full |-> 23, linear |-> 69]>>,
                             <<{"-a3b", "-a10b", "-a17b"}, [full |-> 10, linear |-> 30]>> >>,
                          words, [full |-> 16, linear |-> 48])
    IN  FirstRule(<< <<{"qwen3-next"}, [full |-> 10, linear |-> 30]>>,
                     <<{"qwen3.5", "qwen3.6", "qwen3.8"}, qwen>>,
                     <<{"jamba"}, [full |-> 4, linear |-> 28]>>,
                     <<{"zamba"}, [full |-> 2, linear |-> 54]>>,
                     <<{"mamba", "rwkv"}, [full |-> 0, linear |-> 1]>> >>, words, None)

(* The ratio of the layout, rounded, for n layers. *)
normalized_for_layers(l, n) ==
    LET total == l.full + l.linear
        full  == Min({n, (n * l.full + total \div 2) \div total})
    IN  CASE total = 0              -> [full |-> n, linear |-> 0]
          [] total # 0 /\ total = n -> l
          [] OTHER                  -> [full |-> full, linear |-> n - full]

zero_attention_layout_is_plausible(m) ==
    /\ m.heads = None /\ m.kv_heads = None
    /\ \/ m.architecture = None
       \/ m.architecture[1] \in {"mamba", "rwkv"} /\ m.architecture[2] # "hybrid"

PlausibleLayout(m, layout) ==
    IF \/ layout = None
       \/ layout.full = 0 /\ ~zero_attention_layout_is_plausible(m) THEN None
    ELSE IF m.layers # None THEN normalized_for_layers(layout, m.layers)
    ELSE layout

effective_attention_layout(m) ==
    PlausibleLayout(m, orElse(m.layout, infer_attention_layout_from_name(m.words)))

KvQuants == <<"fp16", "fp8", "q8_0", "q4_0", "tq">>

bytes_per_element(kv) ==
    CASE kv = "fp16" -> 200
      [] kv \in {"fp8", "q8_0"} -> 100
      [] kv = "q4_0" -> 50
      [] kv = "tq" -> 34

(* Exact when layers and head dimension are known, else proportional to    *)
(* the parameters: 0.000008 GB for a billion parameters and a token.       *)
CacheOf(m, layout, ctx, kv) ==
    LET heads  == orElse(m.kv_heads, orElse(m.heads, 8))
        full   == IF layout = None THEN m.layers ELSE layout.full
        rough  == (params_b(m) * ctx * 84) \div 10000
        share  == IF layout = None \/ layout.full + layout.linear = 0 THEN rough
                  ELSE (rough * layout.full) \div (layout.full + layout.linear)
    IN  IF m.layers # None /\ m.head_dim # None
            THEN (2 * heads * m.head_dim * full * ctx * bytes_per_element(kv))
                    \div (100 * 1024)
        ELSE (share * bytes_per_element(kv)) \div 200

kv_cache_gb(m, ctx, kv) == CacheOf(m, effective_attention_layout(m), ctx, kv)

(* What the weights take: a billion parameters of a byte are a GB.         *)
Weights(m, quant) == (((params_b(m) * quant_bpp(quant)) \div 100) * 128) \div 125

estimate_memory_gb_with_kv(m, quant, ctx, kv) ==
    Weights(m, quant) + kv_cache_gb(m, ctx, kv) + 512

estimate_memory_gb(m, quant, ctx) == estimate_memory_gb_with_kv(m, quant, ctx, "fp16")

(* <<quantization, memory>>: the first of the hierarchy that fits. *)
Sized(m, quant, ctx) == <<quant, estimate_memory_gb(m, quant, ctx)>>

FirstFitting(m, budget, ctx, hierarchy) ==
    LET fits == {i \in DOMAIN hierarchy : Sized(m, hierarchy[i], ctx)[2] <= budget}
    IN  IF fits = {} THEN None ELSE Sized(m, hierarchy[Min(fits)], ctx)

(* Mutant: a quantization found at half the context is sized for all of it. *)
HalfContextSizedWhole(m, budget, ctx, hierarchy) ==
    LET half == FirstFitting(m, budget, ctx \div 2, hierarchy)
    IN  orElse(FirstFitting(m, budget, ctx, hierarchy),
               IF ctx < 2 \/ half = None THEN None
               ELSE <<half[1], estimate_memory_gb(m, half[1], ctx)>>)

(* At half the context when none fits. *)
best_quant_for_budget_with(m, budget, ctx, hierarchy) ==
    orElse(FirstFitting(m, budget, ctx, hierarchy),
           IF ctx >= 2 THEN FirstFitting(m, budget, ctx \div 2, hierarchy) ELSE None)

best_quant_for_budget(m, budget, ctx) ==
    best_quant_for_budget_with(m, budget, ctx, QUANT_HIERARCHY)

-----------------------------------------------------------------------------
(* Experts: bytes are divided by 2^30 here.                                *)
ExpertMemory(params, bpp) == (((params * bpp) \div 100) * 954) \div 1000

moe_active_vram_gb(m) ==
    IF ~m.is_moe \/ m.active = None THEN None
    ELSE Max({512, (ExpertMemory(m.active, quant_bpp(m.quantization)) * 11) \div 10})

moe_offloaded_ram_gb(m) ==
    IF ~m.is_moe \/ m.active = None \/ m.parameters = None THEN None
    ELSE ExpertMemory(Max({0, m.parameters - m.active}), quant_bpp(m.quantization))

(* <<active, fixed>>: parameters read for a token that a quantization      *)
(* shrinks and those it does not, in millions; None without the dimensions *)
(* of the architecture.                                                    *)
moe_bandwidth_decomposition(m) ==
    IF ~m.is_moe \/ m.dims = None \/ m.layers = None \/ m.active_experts = None THEN None
    ELSE LET d       == m.dims
             mega(x, y) == ((x \div 1000) * y) \div 1000
             heads   == orElse(m.heads, 1)
             head    == orElse(m.head_dim, d.hidden \div heads)
             attn    == 2 * head * (heads + orElse(m.kv_heads, heads))
             perRow  == m.layers * (attn + 3 * d.shared + orElse(m.num_experts, 8))
                            + 2 * d.vocab
         IN  << mega(m.layers * m.active_experts * 3 * d.hidden, d.expert),
                mega(perRow, d.hidden) >>

=============================================================================
