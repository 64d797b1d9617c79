-------------------------------- MODULE Plan --------------------------------
(***************************************************************************)
(* plan.rs: the hardware a model needs, for a context, a quantization, a   *)
(* KV cache and perhaps a target speed, on each of three paths; how the    *)
(* present machine does; and what to add to it.                            *)
(*                                                                         *)
(* Memory is in 1/1024 GB, speed in tenths of a token per second.          *)
(***************************************************************************)
EXTENDS Hardware

CONSTANTS
    Error,  \* a plan that could not be made
    CpuK    \* speed of a CPU: 90 in a build for aarch64, else 70

PlanRunPath == <<"Gpu", "CpuOffload", "CpuOnly">>

SUPPORTED_QUANTS ==
    {"F32", "F16", "BF16", "Q8_0", "Q6_K", "Q5_K_M", "Q4_K_M", "Q4_0", "Q3_K_M", "Q2_K",
     "mlx-8bit", "mlx-4bit", "AWQ-4bit", "AWQ-8bit", "GPTQ-Int4", "GPTQ-Int8",
     "AutoRound-4bit", "AutoRound-8bit"}

(* A name in any case; None when there is no such quantization. *)
normalize_quant(quant) == IF quant \in SUPPORTED_QUANTS THEN quant ELSE None

-----------------------------------------------------------------------------
(* Speed.                                                                  *)
(* The experts that a token does not use stay in RAM. *)
speed_run_mode(path, m) == IF path = "CpuOffload" /\ m.is_moe THEN "MoeOffload" ELSE path

BackendSpeed(backend) ==
    FirstRule(<< <<{"Metal"}, 160>>, <<{"Cuda"}, 220>>, <<{"Rocm"}, 180>>, <<{"Vulkan"}, 150>>,
                 <<{"Sycl"}, 100>>, <<{"CpuArm"}, 90>>, <<{"Ascend"}, 390>> >>, {backend}, 70)

(* system is None where only the backend is asked about. *)
estimate_tps_with_gpu(m, quant, backend, path, cores, system, config) ==
    LET k    == IF path = "CpuOnly" THEN CpuK ELSE BackendSpeed(backend)
        base == (((k * 10000) \div ReadParams(m)) * quant_speed_multiplier(quant)) \div 100
        all  == IF cores >= 8 THEN (base * 11) \div 10 ELSE base
        known == system # None /\ resolve_gpu_bandwidth(system, config) # None
    IN  IF path # "CpuOnly" /\ known
            THEN estimate_tps(m, quant, system, speed_run_mode(path, m), "LlamaCpp", config)
        ELSE AtLeastATenth((all * config.factors[path]) \div 100)

plan_estimate_tps(m, quant, backend, path, cores, config) ==
    estimate_tps_with_gpu(m, quant, backend, path, cores, None, config)

Fewest(cores) == IF cores = {} THEN None ELSE Min(cores)

minimum_cores_for_target(m, quant, backend, path, target, config) ==
    IF target = None THEN 4
    ELSE Fewest({c \in 1..64 : plan_estimate_tps(m, quant, backend, path, c, config) >= target})

-----------------------------------------------------------------------------
(* Memory.  required, available and recommended are of one pool.           *)
fit_level_for(path, required, available, recommended) ==
    LET roomy == available * 10 >= required * 12
    IN  CASE required > available                                           -> "TooTight"
          [] required <= available /\ path = "Gpu" /\ recommended <= available -> "Perfect"
          [] required <= available /\ path = "Gpu" /\ recommended > available  ->
                IF roomy THEN "Good" ELSE "Marginal"
          [] required <= available /\ path = "CpuOffload" -> IF roomy THEN "Good" ELSE "Marginal"
          [] OTHER -> "Marginal"

default_gpu_backend(s) == IF s.has_gpu THEN s.backend ELSE "Cuda"

AvailableVram(s) == orElse(s.total_vram, orElse(s.vram, 0))

(* Hardware estimates [vram, ram, cores]. *)
Needs(vram, ram, cores) == [vram |-> vram, ram |-> ram, cores |-> cores]

Infeasible(path) ==
    [path |-> path, feasible |-> FALSE, minimum |-> None, recommended |-> None,
     tps |-> None, fit |-> None]

Feasible(path, minimum, recommended, tps, fit) ==
    [path |-> path, feasible |-> TRUE, minimum |-> minimum, recommended |-> recommended,
     tps |-> tps, fit |-> fit]

(* Mutant: what the catalog recommends, whatever the context needs. *)
GpuPathByCatalog(m, quant, mem, cores, s, config) ==
    Feasible("Gpu", Needs(mem, Max({mem \div 5, 8192}), cores),
             Needs(m.recommended, 12288, Max({cores, 8})), 1, "Good")

GpuPath(m, quant, mem, cores, s, config) ==
    LET rec_vram == Max({m.recommended, (mem * 12) \div 10})
        min_ram  == Max({mem \div 5, 8192})
    IN  Feasible("Gpu", Needs(mem, min_ram, cores),
                 Needs(rec_vram, Max({(min_ram * 5) \div 4, 12288}), Max({cores, 8})),
                 estimate_tps_with_gpu(m, quant, default_gpu_backend(s), "Gpu", cores, s, config),
                 fit_level_for("Gpu", mem, AvailableVram(s), rec_vram))

(* RAM is the pool; the GPU needs 2 GB, better 4. *)
OffloadPath(m, quant, mem, cores, s, config) ==
    LET rec_ram == (mem * 12) \div 10
    IN  IF s.unified THEN Infeasible("CpuOffload")
        ELSE Feasible("CpuOffload", Needs(2048, mem, cores), Needs(4096, rec_ram, Max({cores, 8})),
                      estimate_tps_with_gpu(m, quant, default_gpu_backend(s), "CpuOffload", cores,
                                            s, config),
                      fit_level_for("CpuOffload", mem, s.ram, rec_ram))

CpuPath(m, quant, mem, cores, s, config) ==
    LET rec_ram == (mem * 12) \div 10
    IN  Feasible("CpuOnly", Needs(None, mem, cores), Needs(None, rec_ram, Max({cores, 8})),
                 plan_estimate_tps(m, quant, "CpuX86", "CpuOnly", cores, config),
                 fit_level_for("CpuOnly", mem, s.ram, rec_ram))

PathWith(m, quant, path, s, config, mem, cores) ==
    CASE cores = None                            -> Infeasible(path)
      [] cores # None /\ path = "Gpu"            -> GpuPath(m, quant, mem, cores, s, config)
      [] cores # None /\ path = "CpuOffload"     -> OffloadPath(m, quant, mem, cores, s, config)
      [] OTHER                                   -> CpuPath(m, quant, mem, cores, s, config)

build_path_estimate(m, r, path, s, config) ==
    PathWith(m, r.quant, path, s, config,
             estimate_memory_gb_with_kv(m, r.quant, r.context, r.kv),
             minimum_cores_for_target(m, r.quant, default_gpu_backend(s), path, r.target, config))

LevelRank == [Perfect |-> 1, Good |-> 2, Marginal |-> 3, TooTight |-> 4]

(* Of the paths asked that are fast enough, the best level, then the best  *)
(* path, which is the first. *)
RankedFirst(status, fast) ==
    LET better(i, j) == \/ LevelRank[status[i].fit] < LevelRank[status[j].fit]
                        \/ LevelRank[status[i].fit] = LevelRank[status[j].fit] /\ i < j
    IN  IF fast = {} THEN [fit |-> "TooTight", mode |-> "CpuOnly", tps |-> 0]
        ELSE status[CHOOSE i \in fast : \A j \in fast \ {i} : better(i, j)]

(* The present machine, on the paths that reach the target. *)
evaluate_current(m, r, s, config) ==
    LET mem == estimate_memory_gb_with_kv(m, r.quant, r.context, r.kv)
        gpu == s.has_gpu /\ AvailableVram(s) > 0
        pool(path) == IF path = "Gpu" THEN AvailableVram(s) ELSE s.ram
        asked == CASE gpu /\ ~s.unified -> PlanRunPath
                   [] gpu /\ s.unified  -> <<"Gpu", "CpuOnly">>
                   [] OTHER             -> <<"CpuOnly">>
        status == [i \in DOMAIN asked |->
            [fit |-> fit_level_for(asked[i], mem, pool(asked[i]), m.recommended), mode |-> asked[i],
             tps |-> estimate_tps_with_gpu(m, r.quant, s.backend, asked[i], s.cores,
                                           IF asked[i] = "CpuOnly" THEN None ELSE s, config)]]
    IN  RankedFirst(status, {i \in DOMAIN asked : r.target = None \/ status[i].tps >= r.target})

-----------------------------------------------------------------------------
(* The KV caches one could use instead; savings in hundredths. *)
KvAlternative(kv, memory, cache, base, s) ==
    [kv |-> kv, memory |-> memory, cache |-> cache,
     savings |-> IF base > 0 THEN Max({0, 100 - (cache * 100) \div base}) ELSE 0,
     supported |-> kv # "tq" \/ s.backend = "Cuda"]

compute_kv_alternatives(m, quant, ctx, s) ==
    MapSeq(KvQuants, LAMBDA kv : KvAlternative(kv, estimate_memory_gb_with_kv(m, quant, ctx, kv),
                                               kv_cache_gb(m, ctx, kv), kv_cache_gb(m, ctx, "fp16"), s))

Delta(resource, add, fit, path) ==
    [resource |-> resource, add |-> add, fit |-> fit, path |-> path]

(* What to add: memory of the GPU for Good and for Perfect, RAM and cores  *)
(* when the preferred path lacks them.                                     *)
UpgradeDeltas(paths, preferred, s) ==
    LET gpu == paths[1]
        vram(needs, fit) == Delta("vram", Max({0, needs.vram - AvailableVram(s)}), fit, "Gpu")
        min == preferred.minimum
    IN  (IF gpu.feasible
            THEN << vram(gpu.minimum, "Good"), vram(gpu.recommended, "Perfect") >> ELSE <<>>)
        \o (IF min.ram > s.ram
                THEN << Delta("ram", min.ram - s.ram, "Marginal", preferred.path) >> ELSE <<>>)
        \o (IF min.cores > s.cores
                THEN << Delta("cores", min.cores - s.cores, None, preferred.path) >> ELSE <<>>)

Accepted(r, s) ==
    /\ r.context # 0 /\ (r.target = None \/ r.target > 0) /\ r.quant # None
    /\ r.kv = "tq" => s.backend = "Cuda"

(* The request, with the defaults of what it leaves open. *)
Completed(m, request) ==
    [context |-> request.context, target |-> request.target, kv |-> orElse(request.kv, "fp16"),
     quant |-> IF request.quant = None THEN m.quantization ELSE normalize_quant(request.quant)]

PlanOn(m, r, s, config, paths) ==
    LET feasible  == {i \in DOMAIN paths : paths[i].feasible}
        preferred == paths[Min(feasible)]
    IN  IF feasible = {} THEN Error
        ELSE [model |-> m.name, request |-> r, minimum |-> preferred.minimum,
              recommended |-> preferred.recommended, paths |-> paths,
              current |-> evaluate_current(m, r, s, config),
              deltas |-> UpgradeDeltas(paths, preferred, s),
              alternatives |-> compute_kv_alternatives(m, r.quant, r.context, s)]

PlanFor(m, r, s, config) ==
    IF ~Accepted(r, s) THEN Error
    ELSE PlanOn(m, r, s, config,
                MapSeq(PlanRunPath, LAMBDA path : build_path_estimate(m, r, path, s, config)))

estimate_model_plan_with_config(m, request, s, config) ==
    PlanFor(m, Completed(m, request), s, config)

(* The model of this name, else the only one whose name contains it. *)
resolve_model_selector(models, selector) ==
    LET exact   == {m \in models : m.words = selector}
        partial == {m \in models : selector \subseteq m.words}
    IN  CASE selector = {}                        -> Error
          [] selector # {} /\ Cardinality(exact) = 1 -> CHOOSE m \in exact : TRUE
          [] OTHER -> IF Cardinality(partial) = 1 THEN CHOOSE m \in partial : TRUE ELSE Error

=============================================================================
