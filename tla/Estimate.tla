------------------------------ MODULE Estimate ------------------------------
(***************************************************************************)
(* The estimates fit.rs makes of a model on a machine, which the table of  *)
(* fits and the plans share: the configuration, the verdict on a pool of   *)
(* memory, the ways to run a model, and its speed.                         *)
(*                                                                         *)
(* Speeds are in tenths of a token per second, bandwidths in GB/s, factors *)
(* and shares in hundredths.                                               *)
(***************************************************************************)
EXTENDS Gpus

-----------------------------------------------------------------------------
(* CalcConfig and its defaults. *)
RunModeFactors == [Gpu |-> 100, TensorParallel |-> 90, MoeOffload |-> 80,
                   CpuOffload |-> 50, CpuOnly |-> 30]

ScoringWeights ==
    [General    |-> <<45, 30, 15, 10>>, Coding |-> <<50, 20, 15, 15>>,
     Reasoning  |-> <<55, 15, 15, 15>>, Chat   |-> <<40, 35, 15, 10>>,
     Multimodal |-> <<50, 20, 15, 15>>, Embedding |-> <<30, 40, 20, 10>>]

CalcConfig == [cap |-> None, efficiency |-> 55, factors |-> RunModeFactors,
               weights |-> ScoringWeights, ddr |-> None, gpu_bw |-> None, tflops |-> None]

-----------------------------------------------------------------------------
(* The verdict on a required amount of an available pool.                  *)
pure_ratio_verdict(required, available) ==
    IF available <= 0 \/ required * 100 > available * 98 THEN "TooTight"
    ELSE IF required * 100 <= available * 60              THEN "Perfect"
    ELSE IF required * 100 <= available * 85              THEN "Good"
    ELSE "Marginal"

cap_for_run_mode(level, mode) ==
    IF mode \in {"MoeOffload", "CpuOffload", "CpuOnly"} /\ level = "Perfect"
        THEN "Good" ELSE level

score_fit(required, available, mode) ==
    cap_for_run_mode(pure_ratio_verdict(required, available), mode)

HierarchyFor(m, runtime) ==
    CASE m.format = "Onnx"                       -> ONNX_QUANT_HIERARCHY
      [] m.format # "Onnx" /\ runtime = "Mlx"    -> MLX_QUANT_HIERARCHY
      [] OTHER                                   -> QUANT_HIERARCHY

(* The hierarchy of the runtime, then for MLX that of GGUF. *)
SearchQuant(m, runtime, budget, ctx) ==
    orElse(best_quant_for_budget_with(m, budget, ctx, HierarchyFor(m, runtime)),
           IF runtime = "Mlx" THEN best_quant_for_budget(m, budget, ctx) ELSE None)

(* vLLM runs a model as it is. *)
best_quant_for_runtime_budget(m, runtime, budget, ctx) ==
    IF runtime = "Vllm" THEN FirstFitting(m, budget, ctx, <<m.quantization>>)
    ELSE SearchQuant(m, runtime, budget, ctx)

-----------------------------------------------------------------------------
(* Ways to run a model: [mode, required, available].                       *)
Path(mode, required, available) ==
    [mode |-> mode, required |-> required, available |-> available]

(* The memory of <<quantization, memory>>, or that of the model as it is. *)
SizeOr(best, m, ctx) == IF best = None THEN estimate_memory_gb(m, m.quantization, ctx) ELSE best[2]

cpu_path(m, s, runtime, ctx) ==
    Path("CpuOnly",
         IF m.is_moe THEN m.min_ram
         ELSE SizeOr(best_quant_for_runtime_budget(m, runtime, s.ram, ctx), m, ctx),
         s.ram)

(* <<VRAM of the active experts, RAM of the others>> *)
moe_memory_for_quant(m, quant) ==
    IF ~m.is_moe \/ m.active = None \/ m.parameters = None THEN None
    ELSE <<Max({512, (ExpertMemory(m.active, quant_bpp(quant)) * 11) \div 10}),
           ExpertMemory(Max({0, m.parameters - m.active}), quant_bpp(quant))>>

moe_offload_path(m, s, vram, min_vram, runtime) ==
    LET tried == HierarchyFor(m, runtime)
                    \o (IF runtime = "Mlx" THEN QUANT_HIERARCHY ELSE <<>>)
        split(i) == moe_memory_for_quant(m, tried[i])
        fitting == {i \in DOMAIN tried :
                      split(i) # None /\ split(i)[1] <= vram /\ split(i)[2] <= s.ram}
    IN  CASE fitting # {} -> Path("MoeOffload", split(Min(fitting))[1], vram)
          [] fitting = {} /\ m.min_ram <= s.ram -> Path("CpuOffload", m.min_ram, s.ram)
          [] OTHER -> Path("Gpu", min_vram, vram)

-----------------------------------------------------------------------------
(* Speed.                                                                  *)
resolve_gpu_bandwidth(s, config) ==
    IF config.gpu_bw # None /\ config.gpu_bw > 0 THEN config.gpu_bw
    ELSE gpu_memory_bandwidth_gbps(s.gpu)

(* The configuration, the environment, the measured bandwidth, or 50 GB/s. *)
ddr_bandwidth_gbps(s, config) ==
    IF config.ddr # None /\ config.ddr > 0 THEN config.ddr
    ELSE IF s.ddr_env # None /\ s.ddr_env > 0 THEN s.ddr_env
    ELSE orElse(s.ddr_measured, 50)

default_moe_overhead(experts) ==
    CASE experts = None -> 60
      [] experts # None /\ experts <= 8 -> 90
      [] experts # None /\ experts \in 9..16 -> 85
      [] experts # None /\ experts \in 17..32 -> 80
      [] experts # None /\ experts \in 33..64 -> 70
      [] OTHER -> 40

Family(m) == IF m.architecture = None THEN "" ELSE m.architecture[1]

(* <<efficiency, overhead>> *)
moe_tier2_params(m, efficiency) ==
    CASE Family(m) = "gpt_oss" -> <<72, 80>>
      [] Family(m) = "deepseek" /\ m.architecture[2] \in {"v3", "v4"} -> <<62, 70>>
      [] OTHER -> <<efficiency, default_moe_overhead(m.num_experts)>>

moe_tier1_fixed_bpp(m) == IF Family(m) = "gpt_oss" THEN 143 ELSE 320

(* Experts that are not used still press on the cache of a GPU that is     *)
(* full to more than 60%.                                                  *)
vram_pressure(m, quant, s) ==
    LET util  == (Weights(m, quant) * 100) \div Max({1, s.vram})
        idle  == IF m.num_experts = None THEN 50
                 ELSE 100 - (orElse(m.active_experts, 1) * 100) \div m.num_experts
    IN  IF s.vram = None \/ util > 100 \/ util < 60 THEN 100
        ELSE Max({30, 100 - ((util - 60) * idle) \div 100})

(* Parameters read for a token, at least 0.1B. *)
ReadParams(m) ==
    Max({100, IF m.is_moe /\ m.active # None THEN m.active ELSE params_b(m)})

AtLeastATenth(tps) == Max({1, tps})

(* Reading megabytes at bandwidth bw, in tenths of a token per second. *)
Rate(bw, mb) == (bw * 10000) \div Max({1, mb})

(* The experts are read from RAM, then worked on at the GPU's bandwidth:   *)
(* the two times add.                                                      *)
OffloadRate(ddr, gpu, mb) == Rate((ddr * gpu) \div (ddr + gpu), mb)

(* A GPU whose bandwidth is known. *)
Roofline(m, quant, s, mode, bw, config) ==
    LET read     == (ReadParams(m) * quant_bytes_per_param(quant)) \div 1000
        factor   == config.factors[mode]
        scaled(x) == (x * factor) \div 100
        pressure == vram_pressure(m, quant, s)
        split    == moe_bandwidth_decomposition(m)
        tier1    == Rate(bw, (split[1] * quant_bpp(quant)) \div 100
                                + (split[2] * moe_tier1_fixed_bpp(m)) \div 100)
        p        == moe_tier2_params(m, config.efficiency)
        tier2    == (((Rate(bw, (ReadParams(m) * quant_bpp(quant)) \div 100)
                        * p[1]) \div 100) * p[2]) \div 100
    IN  CASE m.is_moe /\ mode = "MoeOffload" ->
                scaled(OffloadRate(ddr_bandwidth_gbps(s, config),
                                   (bw * config.efficiency) \div 100, read))
          [] m.is_moe /\ mode = "Gpu" /\ split # None -> (scaled(tier1) * pressure) \div 100
          [] m.is_moe /\ mode = "Gpu" /\ split = None -> (scaled(tier2) * pressure) \div 100
          [] OTHER -> scaled((Rate(bw, read) * config.efficiency) \div 100)

BackendConstant(backend, runtime) ==
    CASE runtime = "Unsupported" -> 0
      [] runtime # "Unsupported" /\ backend = "Metal" -> IF runtime = "Mlx" THEN 250 ELSE 160
      [] runtime # "Unsupported" /\ backend # "Metal" ->
            FirstRule(<< <<{"Cuda"}, 220>>, <<{"Rocm"}, 180>>, <<{"Vulkan"}, 150>>,
                         <<{"Sycl"}, 100>>, <<{"CpuArm"}, 90>>, <<{"Ascend"}, 390>> >>,
                      {backend}, 70)

(* A GPU nobody has measured, or none: a constant of the backend.  The     *)
(* offload of experts does not apply the factor of its mode.               *)
Heuristic(m, quant, s, mode, runtime, config) ==
    LET k        == BackendConstant(IF mode = "CpuOnly" THEN s.cpu ELSE s.backend, runtime)
        many(x)  == IF s.cores >= 8 THEN (x * 11) \div 10 ELSE x
        bytes    == quant_bytes_per_param(quant)
        read     == (ReadParams(m) * bytes) \div 1000
        base     == (((k * 10000) \div ReadParams(m)) * quant_speed_multiplier(quant)) \div 100
    IN  IF mode = "MoeOffload"
            THEN many(AtLeastATenth(OffloadRate(ddr_bandwidth_gbps(s, config),
                                                (k * bytes) \div 1000, read)))
        ELSE (many(base) * config.factors[mode]) \div 100

estimate_tps_at(m, quant, s, mode, runtime, config, bw) ==
    AtLeastATenth(IF mode # "CpuOnly" /\ bw # None
                      THEN Roofline(m, quant, s, mode, bw, config)
                  ELSE Heuristic(m, quant, s, mode, runtime, config))

estimate_tps(m, quant, s, mode, runtime, config) ==
    estimate_tps_at(m, quant, s, mode, runtime, config, resolve_gpu_bandwidth(s, config))

(* Prompt processing is bound by compute: unknown without the TFLOP/s, and *)
(* on a CPU.  35% of the peak, two operations for a parameter.             *)
estimate_prefill(m, mode, config) ==
    LET params == IF m.is_moe /\ m.active # None THEN m.active ELSE params_b(m)
        tps    == ((config.tflops * 175000) \div Max({1, params})) * config.factors[mode]
    IN  IF config.tflops = None \/ mode = "CpuOnly" THEN None
        ELSE IF config.tflops <= 0 \/ tps <= 0 THEN None ELSE tps

=============================================================================
