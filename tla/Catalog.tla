------------------------------ MODULE Catalog ------------------------------
(***************************************************************************)
(* Where the models come from: the list embedded in the program, the file  *)
(* of the user's own models, and the cache llmfit update fills from        *)
(* HuggingFace (models.rs, update.rs).  A start of the program merges the  *)
(* three.  An update reads the cache when it starts and writes it whole    *)
(* when it is done; the write is not atomic, so an update that dies in it  *)
(* leaves a file that cannot be read.                                      *)
(***************************************************************************)
EXTENDS Models, TLC

CONSTANTS
    Releases,    \* Releases[v]: [hf, onnx, version], what release v embeds and
                 \* its CACHE_VERSION
    Customs,     \* what the user may write into custom_models.json
    Listings,    \* what HuggingFace may answer an update
    Invalid      \* a file that cannot be parsed

ASSUME CatalogAssumption == Releases # <<>> /\ Customs # {} /\ Listings # {}

VARIABLES
    release,     \* the installed release
    custom,      \* custom_models.json: a sequence of entries, None or Invalid
    cache,       \* hf_models_cache.json: [version, models], None or Invalid
    updating,    \* what a running update has read: [embedded, cached], or None
    db           \* the ModelDatabase of the last start

catalogVars == <<release, custom, cache, updating, db>>

Slugs(models) == {m.slug : m \in models}

-----------------------------------------------------------------------------
(* The entries of one slug, at these places of the file, in one: the       *)
(* largest numbers, the latest date, the union of the lists, the experts   *)
(* of the first that has some, and for facts about the architecture the    *)
(* first known value; the rest, its name above all, is that of the first.  *)
merged(entries, at) ==
    LET e == entries[Min(at)]
        largest(f) ==
            LET most == Max({orElse(entries[i][f], 0) : i \in at})
            IN  IF most > orElse(e[f], 0) THEN most ELSE e[f]
        union(f) == UNION {entries[i][f] : i \in at}
        known(f) ==
            LET some == {i \in at : entries[i][f] # None}
            IN  IF some = {} THEN None ELSE entries[Min(some)][f]
        moe == {i \in at : entries[i].is_moe}
        expert(f) == IF moe = {} THEN e[f] ELSE entries[Min(moe)][f]
    IN  [e EXCEPT
            !.parameters  = largest("parameters"),  !.min_ram  = largest("min_ram"),
            !.recommended = largest("recommended"), !.min_vram = largest("min_vram"),
            !.context     = largest("context"),     !.released = largest("released"),
            !.is_moe = moe # {}, !.num_experts = expert("num_experts"),
            !.active_experts = expert("active_experts"), !.active = expert("active"),
            !.capabilities = union("capabilities"), !.gguf = union("gguf"),
            !.heads = known("heads"), !.kv_heads = known("kv_heads"),
            !.layers = known("layers"), !.head_dim = known("head_dim")]

dedupe_hf_entries(entries) ==
    {merged(entries, {i \in DOMAIN entries : entries[i].slug = slug}) :
        slug \in Slugs(ToSet(entries))}

entry_to_model(e) == [e EXCEPT !.capabilities = infer(e), !.layout = None]

FromFile(entries) == {entry_to_model(e) : e \in dedupe_hf_entries(entries)}

-----------------------------------------------------------------------------
(* ONNX entries list a file for each quantization with its size.           *)
normalize_onnx_quantization(quant) ==
    FirstRule(<< <<{"fp32", "f32"}, "F32">>, <<{"fp16", "f16", "bf16"}, "F16">>,
                 <<{"q8", "int8", "uint8", "q8_0"}, "Q8_0">>,
                 <<{"q4", "q4f16", "bnb4", "int4", "q4_0"}, "Q4_0">> >>, {quant}, quant)

(* The preferred file, or the smallest. *)
select_onnx_quantization(files) ==
    LET preferred == <<"q4", "q4f16", "bnb4", "q8", "int8", "uint8", "fp16", "fp32">>
        present   == SelectSeq(preferred, LAMBDA q : q \in DOMAIN files)
    IN  IF present # <<>> THEN Head(present)
        ELSE CHOOSE q \in DOMAIN files : \A r \in DOMAIN files : files[q] <= files[r]

infer_onnx_context_length(words) ==
    FirstRule(<< <<{"32k", "qwen2.5"}, 32>>, <<{"8k", "smollm"}, 8>> >>, words, 4)

infer_onnx_use_case(words) ==
    IF words \cap {"instruct", "chat", "-it"} # {} THEN {"instruction", "chat"} ELSE {}

into_model(e) ==
    LET quant  == select_onnx_quantization(e.files)
        size   == e.files[quant]
        ram    == orElse(e.min_ram, Max({512, (size * 12) \div 10}))
        model  == [e.entry EXCEPT
                      !.min_ram      = ram,
                      !.recommended  = orElse(e.recommended, Max({2 * size, ram})),
                      !.min_vram     = orElse(e.min_vram, Max({512, (size * 11) \div 10})),
                      !.quantization = normalize_onnx_quantization(orElse(e.quantization, quant)),
                      !.context      = orElse(e.context, infer_onnx_context_length(e.entry.words)),
                      !.use_words    = orElse(e.use_words, infer_onnx_use_case(e.entry.words)),
                      !.format       = "Onnx"]
    IN  [model EXCEPT !.capabilities = infer(model)]

load_embedded(r) ==
    LET onnx  == {into_model(e) : e \in r.onnx}
        names == {m.name : m \in onnx}
    IN  {m \in FromFile(r.hf) : m.name \notin names} \cup onnx

-----------------------------------------------------------------------------
(* The one published correction: gpt-oss with 128 experts, 4 of them       *)
(* active, has 5.1B active parameters.                                     *)
apply_published_moe_active(m) ==
    LET near     == m.parameters \in 105120 .. 128480
        diverges == \/ m.active * 10 >= 5100 * 12
                    \/ 5100 * 10 >= m.active * 12
    IN  IF /\ m.architecture # None /\ m.architecture[1] = "gpt_oss"
           /\ m.num_experts = 128 /\ m.active_experts = 4
           /\ m.active # None /\ m.parameters # None /\ near /\ diverges
            THEN [m EXCEPT !.active = 5100] ELSE m

(* A cache that cannot be read, or of another version, is empty.           *)
load_cache(c, version) ==
    IF c = None \/ c = Invalid THEN {}
    ELSE IF c.version # version THEN {} ELSE c.models

load_custom_models(c) == IF c = None \/ c = Invalid THEN {} ELSE FromFile(c)

(* Mutant: a cached model is looked for among the embedded ones only. *)
ModelDatabaseForgetsOwn(r, cust, c) ==
    LET own    == load_custom_models(cust)
        here   == load_embedded(r)
        cached == {m \in load_cache(c, r.version) : m.slug \notin Slugs(here)}
    IN  {apply_published_moe_active(m) :
            m \in {x \in here : x.slug \notin Slugs(own)} \cup own \cup cached}

(* ModelDatabase::new: the user's models replace embedded ones, cached     *)
(* models are added for the slugs nobody has.                              *)
ModelDatabase(r, cust, c) ==
    LET own    == load_custom_models(cust)
        known  == {m \in load_embedded(r) : m.slug \notin Slugs(own)} \cup own
        cached == {m \in load_cache(c, r.version) : m.slug \notin Slugs(known)}
    IN  {apply_published_moe_active(m) : m \in known \cup cached}

embedded_database(r) == {apply_published_moe_active(m) : m \in load_embedded(r)}

-----------------------------------------------------------------------------
(* What HuggingFace says of a model becomes an entry.  The tokens of an id *)
(* are <<"moe", n, size>> for 8x7B, <<"size", size>> for 7B, and           *)
(* <<"experts", n>> for 16E.                                               *)
Dense(size) == [parameters |-> size, is_moe |-> FALSE, num_experts |-> None,
                active_experts |-> None, active |-> None]

Experts(n, size) ==
    [parameters |-> n * size, is_moe |-> TRUE, num_experts |-> n,
     active_experts |-> Min({2, n}), active |-> Min({2, n}) * size]

extract_model_params(tokens) ==
    LET moe   == SelectSeq(tokens, LAMBDA t : t[1] = "moe" /\ t[2] \in 2..512)
        pairs == SelectSeq([i \in 1..Len(tokens) - 1 |-> <<tokens[i], tokens[i + 1]>>],
                           LAMBDA p : /\ p[1][1] = "size" /\ p[2][1] = "experts"
                                      /\ p[2][2] \in 2..512)
        sizes == SelectSeq(tokens, LAMBDA t : t[1] = "size")
    IN  CASE moe # <<>>                    -> Experts(moe[1][2], moe[1][3])
          [] moe = <<>> /\ pairs # <<>>    -> Experts(pairs[1][2][2], pairs[1][1][2])
          [] moe = <<>> /\ pairs = <<>> /\ sizes # <<>> -> Dense(sizes[1][2])
          [] OTHER                         -> Dense(None)

infer_use_case(words) ==
    FirstRule(<< <<{"text-to-speech"}, {"text-to-speech"}>>,
                 <<{"embed", "bge", "-e5-"}, {"embedding"}>>,
                 <<{"code", "starcoder", "coder"}, {"code"}>>,
                 <<{"vision", "-vl", "llava", "multimodal"}, {"vision"}>>,
                 <<{"-r1", "reasoning", "thinking", "qwq"}, {"reason", "chain-of-thought"}>>,
                 <<{"instruct", "chat", "assistant"}, {"chat", "instruction"}>> >>, words, {})

infer_capabilities(pipeline, use_words) ==
    IF pipeline = "text-to-speech" \/ "text-to-speech" \in use_words
        THEN {"Audio", "Tts"} ELSE {}

infer_context_length(words, params) ==
    FirstRule(<< <<{"1m"}, 1024>>, <<{"128k"}, 128>>, <<{"64k"}, 64>>, <<{"32k"}, 32>>,
                 <<{"16k"}, 16>>, <<{"8k"}, 8>>, <<{"llama-4"}, 1024>>, <<{"llama-3"}, 128>>,
                 <<{"qwen2", "qwen3", "mistral"}, 32>>, <<{"gemma"}, 8>> >>, words,
              CASE params = None   -> 4
                [] params # None /\ params >= 70000 -> 32
                [] params # None /\ params \in 13000..69999 -> 16
                [] params # None /\ params \in 3000..12999 -> 8
                [] OTHER -> 4)

(* Q2_K for the least, Q4_K_M to be comfortable and for the VRAM. *)
estimate_ram(params) ==
    LET gb(bpp) == (((params * bpp) \div 100) * 128) \div 125
    IN  [min_ram     |-> Max({1024, gb(37) + 512}),
         recommended |-> Max({2048, gb(58) + 1024}),
         min_vram    |-> Max({1024, gb(58) + 512})]

resolve_head_dim(c) ==
    IF c.head_dim # None THEN c.head_dim
    ELSE IF c.hidden = None \/ c.heads = None \/ c.heads = 0 THEN None
    ELSE c.hidden \div c.heads

NoConfig == [model_type |-> None, layers |-> None, heads |-> None, kv_heads |-> None,
             head_dim |-> None, hidden |-> None, vocab |-> None, moe |-> None,
             inter |-> None, shared |-> None, n_shared |-> None]

(* config.json, which may fail to load; what text_config says comes first. *)
FlatConfig(c) ==
    IF c = None THEN NoConfig
    ELSE IF c.text = None THEN [c.top EXCEPT !.head_dim = resolve_head_dim(c.top)]
    ELSE [f \in DOMAIN c.top |->
            CASE f = "model_type" -> c.top[f]
              [] f = "head_dim"   -> resolve_head_dim(c.text)
              [] OTHER            -> orElse(c.text[f], c.top[f])]

DimsOf(c) ==
    LET moe    == orElse(c.moe, c.inter)
        shared == orElse(c.shared, IF c.n_shared = None \/ c.inter = None THEN None
                                   ELSE c.n_shared * c.inter)
    IN  IF c.hidden = None \/ c.vocab = None \/ moe = None THEN None
        ELSE [hidden |-> c.hidden, vocab |-> c.vocab, expert |-> moe,
              shared |-> orElse(shared, 0)]

ACCEPTED_PIPELINES == {"text-generation", "image-text-to-text", "any-to-any", "text-to-speech"}

map_to_llm_model(hf) ==
    LET named == extract_model_params(hf.tokens)
        size  == orElse(hf.total, named.parameters)
        use   == infer_use_case(hf.words \cup hf.tags)
        caps  == infer_capabilities(hf.pipeline, use)
        c     == FlatConfig(hf.config)
        tts   == "Tts" \in caps
    IN  IF ({hf.pipeline} \cup hf.tags) \cap ACCEPTED_PIPELINES = {} THEN None
        ELSE [parameters |-> size] @@ named @@ estimate_ram(orElse(size, 7000)) @@
             [name |-> hf.name, slug |-> hf.slug, words |-> hf.words, use_words |-> use,
              named_b |-> hf.named_b, released |-> hf.released, gguf |-> {},
              capabilities |-> caps, context |->
                orElse(hf.gguf_context, infer_context_length(hf.words, size)),
              quantization |-> IF tts THEN "F16" ELSE "Q4_K_M",
              format |-> IF tts THEN "Safetensors" ELSE "Gguf",
              heads |-> c.heads, kv_heads |-> orElse(c.kv_heads, c.heads),
              layers |-> c.layers, head_dim |-> c.head_dim, layout |-> None,
              dims |-> DimsOf(c), architecture |-> c.model_type]

-----------------------------------------------------------------------------
(* New models, each id once, whose slug is neither embedded nor cached.    *)
update_model_cache(known, cached, listing) ==
    LET first(i) == \A j \in 1..(i - 1) : listing[j].name # listing[i].name
        new(i)   == listing[i].slug \notin known \cup Slugs(cached)
        models   == {map_to_llm_model(listing[i]) : i \in {j \in DOMAIN listing : first(j) /\ new(j)}}
    IN  cached \cup (models \ {None})

(* What is read is a model with the types of the program. *)
ModelFields == {"slug", "recommended", "context", "parameters", "layers", "heads", "kv_heads",
                "head_dim", "layout", "min_ram", "min_vram", "active", "quantization"}

CatalogModel(m) ==
    /\ ModelFields \subseteq DOMAIN m /\ LlmModel(m)
    /\ m.min_ram \in Nat /\ {m.min_vram, m.active} \subseteq Optional(Nat)
    /\ m.quantization \in Quantizations

(* A file of entries. *)
Entries(file) == file \in Seq(ToSet(file))

ASSUME FilesAssumption ==
    Entries(Releases) /\ \A c \in Customs \ {None, Invalid} : Entries(c)

ASSUME ReadersAssumption ==
    /\ \A v \in DOMAIN Releases : \A m \in load_embedded(Releases[v]) : CatalogModel(m)
    /\ \A c \in Customs : \A m \in load_custom_models(c) : CatalogModel(m)
    /\ \A l \in Listings : \A i \in DOMAIN l :
          map_to_llm_model(l[i]) # None => CatalogModel(map_to_llm_model(l[i]))

InitCatalog ==
    /\ release = 1
    /\ custom = None
    /\ cache = None
    /\ updating = None
    /\ db = ModelDatabase(Releases[1], None, None)

(* llmfit update starts. *)
UpdateRead ==
    /\ updating = None
    /\ updating' = [known  |-> Slugs(embedded_database(Releases[release])),
                    cached |-> load_cache(cache, Releases[release].version)]
    /\ UNCHANGED <<release, custom, cache, db>>

(* It saves what it found; when every query failed it ends with an error.  *)
UpdateSave(listing) ==
    /\ updating # None
    /\ updating' = None
    /\ cache' = IF listing = <<>> THEN cache
                ELSE [version |-> Releases[release].version, models |->
                        update_model_cache(updating.known, updating.cached, listing)]
    /\ UNCHANGED <<release, custom, db>>

(* It dies while it writes the file. *)
UpdateCrash ==
    /\ updating # None
    /\ updating' = None
    /\ cache' = Invalid
    /\ UNCHANGED <<release, custom, db>>

(* llmfit update --clear *)
clear_cache ==
    /\ cache # None
    /\ cache' = None
    /\ UNCHANGED <<release, custom, updating, db>>

EditCustom(c) ==
    /\ c # custom
    /\ custom' = c
    /\ UNCHANGED <<release, cache, updating, db>>

(* Another release, which may embed what was cached and reads its own      *)
(* version of the cache only.                                              *)
Upgrade ==
    /\ updating = None
    /\ release < Len(Releases)
    /\ release' = release + 1
    /\ UNCHANGED <<custom, cache, updating, db>>

=============================================================================
