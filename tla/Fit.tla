-------------------------------- MODULE Fit --------------------------------
(***************************************************************************)
(* What llmfit says of every model on a machine (fit.rs, analysis.rs): the *)
(* runtime, the way to run it, the memory it takes of the pool, the        *)
(* quantization, the speed and the score; and what benchmark runs change   *)
(* about the speed.  A start of the program reads the catalog and analyses *)
(* every model that can be ranked; a benchmark that ends re-calibrates the *)
(* rows in place.                                                          *)
(*                                                                         *)
(* Speeds are in tenths of a token per second, bandwidths in GB/s, factors *)
(* and shares in hundredths, scores in tenths of a point.  A calibrated    *)
(* speed is kept as an exact fraction <<numerator, denominator>>.          *)
(***************************************************************************)
EXTENDS Catalog, Estimate

CONSTANTS
    Systems,     \* hardware: what SystemSpecs says
    Requests,    \* how a start asks for fits: [limit, forced, config]
    Benchmarks,  \* tokens per second a benchmark run may measure, in tenths
    Community,   \* Community[slug]: what others measured, or None
    Now,         \* the current month
    MaxChanges   \* bound: starts, benchmark runs and changes of the files

ASSUME FitAssumption == Systems # {} /\ Requests # {} /\ MaxChanges \in Nat

ASSUME SystemsAssumption ==
    \A s \in Systems :
        /\ s.ram \in Nat /\ {s.vram, s.total_vram} \subseteq Optional(Nat)
        /\ {"has_gpu", "unified", "cluster", "backend"} \subseteq DOMAIN s

ASSUME RequestsAssumption ==
    \A r \in Requests :
        /\ r.limit \in Optional(Nat)
        /\ r.config # None => "cap" \in DOMAIN r.config /\ r.config.cap \in Optional(Nat)

VARIABLES
    specs,       \* the detected hardware
    request,     \* what the running program was asked
    fits,        \* the rows: a set of ModelFit
    runs,        \* runs[slug]: the local benchmark store, best speed first
    starts,      \* how often the program was started
    changes      \* what MaxChanges bounds

fitVars == <<specs, request, fits, runs, starts, changes>>

rowVars == <<catalogVars, fitVars>>

-----------------------------------------------------------------------------
(* Scores, in tenths of a point.                                           *)
Clamp(x, low, high) == Max({low, Min({high, x})})

(* Tiers of (active) parameters in millions. *)
BaseQuality(params) ==
    CASE params < 1000 -> 300
      [] params \in 1000..2999 -> 450
      [] params \in 3000..6999 -> 600
      [] params \in 7000..9999 -> 750
      [] params \in 10000..19999 -> 820
      [] params \in 20000..39999 -> 890
      [] OTHER -> 950

FamilyBump(words) ==
    FirstRule(<< <<{"qwen"}, 20>>, <<{"deepseek"}, 30>>, <<{"llama"}, 20>>,
                 <<{"mistral", "mixtral", "gemma"}, 10>>, <<{"phi"}, 0>>,
                 <<{"starcoder"}, 10>> >>, words, 0)

(* Months are counted from some year 0; a date to come is this month. *)
months_since(released) == Max({0, Now - released})

RecencyBonus(released) ==
    IF released = None THEN 0
    ELSE IF months_since(released) < 3 THEN 30
    ELSE IF months_since(released) < 9 THEN 15 ELSE 0

(* What a family measures on the task, or what the name suggests. *)
TaskBump(m, use_case) ==
    LET bench == IF use_case \in DOMAIN TaskBench
                    THEN FirstRule(TaskBench[use_case], m.words, None) ELSE None
    IN  IF bench # None THEN Clamp((bench - 72) * 4, -80, 90)
        ELSE CASE use_case = "Coding" ->
                    IF m.words \cap {"code", "starcoder", "wizard"} # {} THEN 60 ELSE 0
               [] use_case = "Reasoning" -> IF params_b(m) >= 13000 THEN 50 ELSE 0
               [] use_case = "Multimodal" ->
                    IF "vision" \in m.words \cup m.use_words THEN 60 ELSE 0
               [] OTHER -> 0

quality_score(m, quant, use_case) ==
    Clamp(BaseQuality(orElse(m.active, params_b(m))) + FamilyBump(m.words)
            + generation_quality_bonus(m.architecture, m.words) + RecencyBonus(m.released)
            + quant_quality_penalty(quant) * 10 + TaskBump(m, use_case), 0, 1000)

speed_score(tps, use_case) ==
    LET target == CASE use_case = "Reasoning" -> 250
                    [] use_case = "Embedding" -> 2000
                    [] OTHER -> 400
    IN  Clamp((tps * 1000) \div target, 0, 1000)

(* 100 up to 70% of the pool, then a Gaussian falloff, tabulated every 5%. *)
fit_score(required, available) ==
    LET ratio == (required * 100) \div available
    IN  IF available <= 0 \/ required > available THEN 0
        ELSE FirstRule(<< <<0..70, 1000>>, <<71..75, 969>>, <<76..80, 882>>, <<81..85, 755>>,
                          <<86..90, 607>>, <<91..95, 458>> >>, {ratio}, 325)

context_score(m, use_case) ==
    LET target == CASE use_case \in {"Coding", "Reasoning"} -> 8192
                    [] use_case = "Embedding" -> 512
                    [] OTHER -> 4096
    IN  CASE m.context * 1024 >= target -> 1000
          [] m.context * 1024 < target /\ m.context * 2048 >= target -> 700
          [] OTHER -> 300

compute_scores(m, quant, use_case, tps, path) ==
    <<quality_score(m, quant, use_case), speed_score(tps, use_case),
      fit_score(path.required, path.available), context_score(m, use_case)>>

weighted_score(scores, use_case, config) ==
    LET w == config.weights[use_case]
    IN  (scores[1] * w[1] + scores[2] * w[2] + scores[3] * w[3] + scores[4] * w[4]) \div 100

-----------------------------------------------------------------------------
(* The analysis of one model.                                              *)
EstimationCtx(m, limit, config) ==
    Min({m.context, orElse(limit, 8), orElse(config.cap, m.context)})

RuntimeFor(m, s, forced) ==
    CASE forced # None -> forced
      [] forced = None /\ (s.cluster \/ is_prequantized(m)) -> "Vllm"
      [] forced = None /\ ~s.cluster /\ ~is_prequantized(m)
            /\ s.backend = "Metal" /\ s.unified -> "Mlx"
      [] OTHER -> "LlamaCpp"

MinVram(m) == orElse(m.min_vram, m.min_ram)

(* On the GPU if it fits, else its experts or all of it in main memory. *)
DiscretePath(m, s, runtime, ctx, inVram, inRam) ==
    LET vram == s.total_vram
        resident == m.is_moe /\ MinVram(m) <= vram
    IN  IF resident THEN Path("Gpu", MinVram(m), vram)
        ELSE IF inVram # None THEN Path("Gpu", inVram[2], vram)
        ELSE IF m.is_moe THEN moe_offload_path(m, s, vram, MinVram(m), runtime)
        ELSE IF inRam # None THEN Path("CpuOffload", inRam[2], s.ram)
        ELSE Path("Gpu", estimate_memory_gb(m, m.quantization, ctx), vram)

(* Of the ways to run a model the best: spread over a cluster, in unified  *)
(* memory, in VRAM, experts or all of it offloaded, or on the CPU.         *)
PathFor(m, s, runtime, ctx) ==
    LET best(budget) == best_quant_for_runtime_budget(m, runtime, budget, ctx)
        total == orElse(s.total_vram, 0)
    IN  IF s.cluster THEN Path("TensorParallel", SizeOr(best(total), m, ctx), total)
        ELSE IF s.has_gpu /\ s.unified /\ s.vram # None
            THEN Path("Gpu", IF m.is_moe THEN MinVram(m) ELSE SizeOr(best(s.vram), m, ctx), s.vram)
        ELSE IF s.has_gpu /\ ~s.unified /\ s.total_vram # None
            THEN DiscretePath(m, s, runtime, ctx, best(total), best(s.ram))
        ELSE cpu_path(m, s, runtime, ctx)

(* Mutant: the quantization is searched at half the context. *)
BestQuantAtHalf(m, path, runtime, ctx) ==
    IF is_prequantized(m) THEN m.quantization
    ELSE orElse(SearchQuant(m, runtime, path.available, ctx \div 2), <<m.quantization>>)[1]

BestQuant(m, path, runtime, ctx) ==
    IF is_prequantized(m) THEN m.quantization
    ELSE orElse(SearchQuant(m, runtime, path.available, ctx), <<m.quantization>>)[1]

(* Mutant: the overhead of the runtime is left to the cache. *)
UsableBesideWeights(m, quant, available) ==
    LET left == Max({0, available - Weights(m, quant)})
        ref  == kv_cache_gb(m, 4, "fp16") - kv_cache_gb(m, 0, "fp16")
    IN  IF ref > 0 THEN Min({m.context, (left * 4) \div ref}) ELSE m.context

(* The tokens the pool holds beside the weights. *)
ContextIn(left, ref, m) == IF ref > 0 THEN Min({m.context, (left * 4) \div ref}) ELSE m.context

UsableContext(m, quant, available) ==
    ContextIn(Max({0, available - estimate_memory_gb(m, quant, 0)}),
              kv_cache_gb(m, 4, "fp16") - kv_cache_gb(m, 0, "fp16"), m)

BasisMethod(s, mode, config) ==
    CASE mode = "CpuOnly" -> "cpu_constant"
      [] mode # "CpuOnly" /\ resolve_gpu_bandwidth(s, config) # None -> "gpu_bandwidth_roofline"
      [] OTHER -> "backend_constant"

(* ModelFit of a model nothing here can run. *)
UnsupportedFit(m, ctx) ==
    [model |-> m, level |-> "TooTight", mode |-> "CpuOnly",
     required |-> estimate_memory_gb(m, m.quantization, ctx), available |-> 0, score |-> 0,
     estimated |-> 0, tps |-> <<0, 1>>, quant |-> m.quantization, runtime |-> "Unsupported",
     offloaded |-> None, turboquant |-> FALSE, ctx |-> ctx, usable |-> 0,
     method |-> "unsupported", calibration |-> None, measured |-> None, prefill |-> None]

FitOn(m, s, config, ctx, runtime, path, quant, tps) ==
    LET level == score_fit(path.required, path.available, path.mode)
        use   == from_model(m)
    IN  [model |-> m, level |-> level, mode |-> path.mode, required |-> path.required,
         available |-> path.available, quant |-> quant, runtime |-> runtime,
         score |-> weighted_score(compute_scores(m, quant, use, tps, path), use, config),
         estimated |-> tps, tps |-> <<tps, 1>>,
         offloaded |-> IF path.mode = "MoeOffload" THEN moe_offloaded_ram_gb(m) ELSE None,
         turboquant |-> /\ level = "TooTight" /\ s.backend = "Cuda"
                        /\ estimate_memory_gb_with_kv(m, quant, ctx, "tq") <= path.available,
         ctx |-> ctx, usable |-> UsableContext(m, quant, path.available),
         method |-> BasisMethod(s, path.mode, config), calibration |-> None,
         measured |-> None, prefill |-> estimate_prefill(m, path.mode, config)]

(* On a path, with the quantization found for its pool. *)
FitWith(m, s, config, ctx, runtime, path, quant) ==
    FitOn(m, s, config, ctx, runtime, path, quant,
          estimate_tps(m, quant, s, path.mode, runtime, config))

FitAlong(m, s, config, ctx, runtime, path) ==
    FitWith(m, s, config, ctx, runtime, path, BestQuant(m, path, runtime, ctx))

analyze_inner(m, s, limit, forced, config) ==
    LET ctx     == EstimationCtx(m, limit, config)
        runtime == RuntimeFor(m, s, forced)
    IN  IF requires_specialized_runtime(m) THEN UnsupportedFit(m, ctx)
        ELSE FitAlong(m, s, config, ctx, runtime, PathFor(m, s, runtime, ctx))

analyze_with_forced_runtime(m, s, limit, forced) ==
    analyze_inner(m, s, limit, forced, CalcConfig)

analyze_with_config(m, s, config) == analyze_inner(m, s, config.cap, None, config)

(* The context limit of the caller wins over that of the configuration. *)
analyze_with_optional_config(m, s, limit, config) ==
    analyze_with_config(m, s, [config EXCEPT !.cap = orElse(limit, @)])

derive_estimate_confidence(f) ==
    CASE f.measured # None -> IF f.measured.source = "LocalBench" THEN "MeasuredLocal"
                              ELSE "MeasuredCommunity"
      [] f.measured = None /\ f.calibration # None -> "Calibrated"
      [] f.measured = None /\ f.calibration = None /\ f.method = "unsupported" -> "Unsupported"
      [] OTHER -> "Estimated"

-----------------------------------------------------------------------------
(* The rows.                                                               *)
backend_compatible(m, s) ==
    CASE requires_specialized_runtime(m) -> FALSE
      [] is_mlx_model(m) /\ ~requires_specialized_runtime(m) -> s.backend = "Metal" /\ s.unified
      [] is_prequantized(m) /\ ~is_mlx_model(m) /\ ~requires_specialized_runtime(m) ->
            /\ s.backend \in {"Cuda", "Rocm"}
            /\ LET has   == gpu_compute_capability(s.gpu)
                   needs == quant_min_compute_capability(m.quantization)
               IN  s.backend = "Cuda" /\ has # None /\ needs # None => has >= needs
      [] OTHER -> TRUE

rankable_models(models, s) ==
    {m \in models : backend_compatible(m, s) /\ ~is_sanitization_demoted(m)}

(* The user's own runs on this hardware, then those of others. *)
Measured(m, s, store) ==
    IF store[s][m.slug] # None THEN [source |-> "LocalBench", tps |-> store[s][m.slug]]
    ELSE Community[m.slug]

-----------------------------------------------------------------------------
(* Fractions, always reduced. *)
GreatestCommonDivisor[x \in Nat \X Nat] ==
    IF x[2] = 0 THEN x[1] ELSE GreatestCommonDivisor[<<x[2], x[1] % x[2]>>]

Reduce(x) ==
    LET d == GreatestCommonDivisor[x] IN <<x[1] \div d, x[2] \div d>>

Times(x, y) ==
    LET a == Reduce(<<x[1], y[2]>>)
        b == Reduce(<<y[1], x[2]>>)
    IN  <<a[1] * b[1], a[2] * b[2]>>

Over(x, y) == Times(x, <<y[2], y[1]>>)

Below(x, y) == x[1] * y[2] < y[1] * x[2]

median(sorted) ==
    LET n == Len(sorted)
        a == sorted[n \div 2]
        b == sorted[n \div 2 + 1]
    IN  IF n % 2 = 1 THEN b
        ELSE Reduce(<<a[1] * b[2] + b[1] * a[2], 2 * a[2] * b[2]>>)

ClampFactor(x) ==
    IF Below(x, <<1, 20>>) THEN <<1, 20>> ELSE IF Below(<<3, 1>>, x) THEN <<3, 1>> ELSE x

(* Mutant: a calibrated speed is taken for the estimate. *)
StillCalibrated(f) == f.tps

uncalibrated(f) == IF f.calibration # None THEN Over(f.tps, f.calibration) ELSE f.tps

(* The median of what dense models of a billion parameters or more measure *)
(* over what was estimated, or None when no such model was measured, scales *)
(* every estimate.                                                         *)
LocalFactor(rows) ==
    LET anchors == {f \in rows : /\ params_b(f.model) >= 1000 /\ ~f.model.is_moe
                                 /\ f.measured # None
                                 /\ f.measured # None => /\ f.measured.source # "Community"
                                                         /\ f.measured.tps > 0
                                 /\ f.tps[1] > 0}
        ratios  == [f \in anchors |-> Over(<<f.measured.tps, 1>>, uncalibrated(f))]
        order   == SetToSortSeq(anchors, LAMBDA f, g : Below(ratios[f], ratios[g]))
    IN  IF anchors = {} THEN None
        ELSE ClampFactor(median([i \in 1..Len(order) |-> ratios[order[i]]]))

Scaled(f, factor) ==
    IF f.tps[1] = 0 THEN f
    ELSE [f EXCEPT !.tps = Times(uncalibrated(f), factor), !.calibration = factor]

ScaledRows(rows, factor) == IF factor = None THEN rows ELSE {Scaled(f, factor) : f \in rows}

apply_local_calibration(rows) == ScaledRows(rows, LocalFactor(rows))

(* build_fits *)
Analysis(m, s, r) ==
    IF r.config = None THEN analyze_with_forced_runtime(m, s, r.limit, r.forced)
    ELSE analyze_with_optional_config(m, s, r.limit, r.config)

build_fits(models, s, r, store) ==
    apply_local_calibration({[Analysis(m, s, r) EXCEPT !.measured = Measured(m, s, store)]
                                : m \in rankable_models(models, s)})

(* refresh_local_measured_tps, when a benchmark has ended: rows a local run *)
(* matches take it, the others keep what they have.                        *)
refresh_local_measured_tps(rows, s, store) ==
    apply_local_calibration(
        {IF store[s][f.model.slug] = None THEN f
         ELSE [f EXCEPT !.measured = [source |-> "LocalBench", tps |-> store[s][f.model.slug]]]
            : f \in rows})

-----------------------------------------------------------------------------
FitInit ==
    /\ InitCatalog
    /\ specs = None
    /\ request = None
    /\ fits = {}
    /\ runs = [s \in Systems |-> [slug \in DOMAIN Community |-> None]]
    /\ starts = 0
    /\ changes = 0

(* The program starts, on this machine or after its memory was changed. *)
StartRows(s, r) ==
    /\ starts' = starts + 1
    /\ specs' = s
    /\ request' = r
    /\ db' = ModelDatabase(Releases[release], custom, cache)
    /\ fits' = build_fits(db', s, r, runs)
    /\ UNCHANGED <<release, custom, cache, updating, runs>>

(* A benchmark of a model ends: its result is stored and the rows are      *)
(* refreshed in place.                                                     *)
Bench(f, tps) ==
    /\ runs' = [runs EXCEPT ![specs][f.model.slug] = tps]
    /\ fits' = refresh_local_measured_tps(fits, specs, runs')
    /\ UNCHANGED <<catalogVars, specs, request, starts>>

CatalogStep ==
    /\ \/ UpdateRead
       \/ \E listing \in Listings : UpdateSave(listing)
       \/ UpdateCrash
       \/ clear_cache
       \/ \E c \in Customs : EditCustom(c)
       \/ Upgrade
    /\ UNCHANGED <<specs, request, fits, runs, starts>>

FitNext ==
    /\ changes < MaxChanges
    /\ changes' = changes + 1
    /\ \/ CatalogStep
       \/ \E s \in Systems, r \in Requests : StartRows(s, r)
       \/ \E f \in fits, tps \in Benchmarks : Bench(f, tps)

FitSpec == FitInit /\ [][FitNext]_rowVars

-----------------------------------------------------------------------------
(* Whatever the cache holds (nothing, another version's models, half a     *)
(* file after a crash) and whatever the user wrote, a start of             *)
(* ModelDatabase::new shows every slug of the three sources, and of a slug *)
(* in custom_models.json the user's model and no other: not the embedded   *)
(* one, not one an update cached earlier, nor one a new release brings.    *)
CustomWins ==
    [][starts' # starts =>
        LET own   == load_custom_models(custom)
            all   == Slugs(load_embedded(Releases[release])) \cup Slugs(own)
                        \cup Slugs(load_cache(cache, Releases[release].version))
        IN  /\ Slugs(db') = all
            /\ \A c \in own : {m \in db' : m.slug = c.slug} = {apply_published_moe_active(c)}
      ]_rowVars

(* The quantization a row of a dense model shows is the one its memory was *)
(* computed for (analyze_inner sizes the path first and searches the       *)
(* quantization again in whichever pool the path took): what the user      *)
(* downloads takes the memory the row says, at the context asked or at     *)
(* half of it.                                                             *)
SizedFor(f) ==
    {estimate_memory_gb(f.model, f.quant, c) : c \in {f.ctx} \cup
        (IF f.ctx >= 2 THEN {f.ctx \div 2} ELSE {})}

ReportedQuantMatches ==
    \A f \in fits : ~f.model.is_moe /\ request.forced = None /\ ~specs.cluster
                        /\ f.level # "TooTight"
                    => f.required \in SizedFor(f)

(* A model that fits keeps fitting when the machine gets more memory: of   *)
(* two starts with the same question, the second with at least the RAM and *)
(* VRAM of the first, no row needs less than its pool in the first and     *)
(* more in the second, although the run mode, the quantization and even    *)
(* the context it is sized for may all change.                             *)
AtLeast(x, y) == IF x = None THEN y = None ELSE y # None /\ y >= x

MoreMemory(s, t) ==
    /\ t.ram >= s.ram /\ AtLeast(s.vram, t.vram) /\ AtLeast(s.total_vram, t.total_vram)
    /\ \A f \in DOMAIN s \ {"ram", "vram", "total_vram"} : s[f] = t[f]

LoadsWithMoreMemory ==
    [][starts' # starts /\ starts > 0 /\ request' = request /\ MoreMemory(specs, specs') =>
        \A f \in fits, g \in fits' :
            f.model = g.model /\ f.required <= f.available => g.required <= g.available]_rowVars

(* Calibration scales the formula's estimate, never an earlier calibrated  *)
(* one: however many benchmark runs have refreshed the rows, each row's    *)
(* speed is its own estimate times the factor it shows, and all rows of a  *)
(* refresh show the same one.                                              *)
CalibrationDoesNotCompound ==
    \A f \in fits :
        /\ f.tps = (IF f.calibration = None THEN <<f.estimated, 1>>
                    ELSE Times(<<f.estimated, 1>>, f.calibration))
        /\ \A g \in fits : f.estimated > 0 /\ g.estimated > 0 => f.calibration = g.calibration

(* A row of a dense model that loads promises no more context than is      *)
(* left: the context it was sized for, or half of it, is usable beside the *)
(* weights of the quantization shown, and weights and cache for the usable *)
(* context do not exceed the pool.                                         *)
UsableContextCovers ==
    \A f \in fits : ~f.model.is_moe /\ request.forced = None /\ ~specs.cluster
                        /\ f.level # "TooTight"
                    => /\ f.usable >= (IF f.required = estimate_memory_gb(f.model, f.quant, f.ctx)
                                            THEN f.ctx ELSE f.ctx \div 2)
                       /\ estimate_memory_gb(f.model, f.quant, f.usable) <= f.available

=============================================================================
