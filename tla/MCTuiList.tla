----------------------------- MODULE MCTuiList -----------------------------
(* Three models; m3 runs on the real hardware only, m2 does not fit there. *)
EXTENDS TuiList

CONSTANTS m1, m2, m3

MCModels == {m1, m2, m3}

MCRecord(provider, gguf, text, params, date, license, quantized) ==
    [provider |-> provider, gguf |-> gguf, text |-> text, params |-> params,
     ctx |-> params, date |-> date, tp |-> {2}, license |-> license,
     capabilities |-> {"vision"}, mlx |-> FALSE, mlx_only |-> FALSE,
     prequantized |-> quantized]

MCCatalog ==
    [m \in MCModels |->
        CASE m = m1 -> MCRecord(1, {2}, {"x"}, 2, 0, "mit", FALSE)
          [] m = m2 -> MCRecord(2, {}, {"x"}, 70, 1, "Unknown", TRUE)
          [] m = m3 -> [MCRecord(1, {}, {"y"}, 8, 2, "mit", FALSE)
                        EXCEPT !.capabilities = {}, !.tp = {2, 4}]]

MCFit(level, score, tps, mem, use_case, quant, run_mode) ==
    [level |-> level, score |-> score, tps |-> tps, mem |-> mem, ctx |-> mem,
     use_case |-> use_case, quant |-> quant, run_mode |-> run_mode,
     turboquant |-> FALSE]

MCAnalysis ==
    [s \in {"real", "small"} |-> [c \in {"base", "tuned"} |-> [m \in MCModels |->
        CASE m = m1 -> MCFit(IF s = "real" THEN "Perfect" ELSE "Marginal",
                             3, 1, 40, 1, "q4", "GPU")
          [] m = m2 -> MCFit(IF s = "real" THEN "TooTight" ELSE "Good",
                             4, 2, 90, 2, "q8", "CPU")
          [] m = m3 -> MCFit("Good", 2, 3, 60, 1,
                             IF c = "base" THEN "q4" ELSE "q2", "MoE")]]]

MCRankable == [s \in {"real", "small"} |->
    IF s = "real" THEN <<m1, m2, m3>> ELSE <<m1, m2>>]

MCCapabilities == <<"vision", "tools">>

(* One user leaves select mode and the benchmark alone, one looks for a    *)
(* column, and one opens and leaves the benchmark.                         *)
MCHabits == {NormalKeys \ {"V", "q"}, {"V", "esc", "s"},
             {"I", "q", "esc", "enter", "up", "p", "v"}}

MCInstalls == {{}, {m2}}
=============================================================================
