-------------------------------- MODULE Gpus --------------------------------
(***************************************************************************)
(* What hardware.rs knows of a GPU by its name: memory bandwidth, compute  *)
(* capability, and how much memory it has when no tool says so.  A name is *)
(* the set of the model words it contains, so a 4070 Ti contains "4070"    *)
(* too and a rule for the longer word must come first.                     *)
(***************************************************************************)
EXTENDS Models

(* The model numbers of a laptop part describe the desktop card. *)
is_mobile_gpu_name(name) == name \cap {"laptop", "mobile", "max-q"} # {}

-----------------------------------------------------------------------------
(* Memory bandwidth in GB/s, by product line.                              *)
GeForceBandwidth ==
    << <<{"5090"}, 1792>>, <<{"5080"}, 960>>, <<{"5070 ti"}, 896>>, <<{"5070"}, 672>>,
       <<{"5060 ti"}, 448>>, <<{"5060"}, 256>>,
       <<{"4090"}, 1008>>, <<{"4080 super"}, 736>>, <<{"4080"}, 717>>,
       <<{"4070 ti super"}, 672>>, <<{"4070"}, 504>>, <<{"4060 ti"}, 288>>, <<{"4060"}, 272>>,
       <<{"3090 ti"}, 1008>>, <<{"3090"}, 936>>, <<{"3080 ti"}, 912>>, <<{"3080"}, 760>>,
       <<{"3070 ti"}, 608>>, <<{"3070", "3060 ti"}, 448>>, <<{"3060"}, 360>>,
       <<{"2080 ti"}, 616>>, <<{"2080 super"}, 496>>,
       <<{"2080", "2070", "2060 super"}, 448>>, <<{"2060"}, 336>>,
       <<{"1660 ti"}, 288>>, <<{"1660 super"}, 336>>, <<{"1660", "1650 super"}, 192>>,
       <<{"1650"}, 128>> >>

DataCenterBandwidth ==
    << <<{"h100 sxm"}, 3350>>, <<{"h100"}, 2039>>, <<{"h200"}, 4800>>,
       <<{"a100 sxm"}, 2039>>, <<{"a100"}, 1555>>, <<{"l40"}, 864>>, <<{"l4"}, 300>>,
       <<{"a10"}, 600>>, <<{"t4"}, 320>>, <<{"v100 sxm"}, 900>>, <<{"v100"}, 897>>,
       <<{"a6000", "a5000"}, 768>>, <<{"a4000"}, 448>> >>

AmdBandwidth ==
    << <<{"8060s", "8050s", "strix halo", "ryzen ai max"}, 256>>,
       <<{"9070 xt"}, 624>>, <<{"9070"}, 488>>,
       <<{"7900 xtx"}, 960>>, <<{"7900 xt"}, 800>>, <<{"7900 gre"}, 576>>,
       <<{"7800 xt"}, 624>>, <<{"7700 xt"}, 432>>, <<{"7600"}, 288>>,
       <<{"6950 xt"}, 576>>, <<{"6900 xt", "6800"}, 512>>, <<{"6700 xt"}, 384>>,
       <<{"6600 xt"}, 256>>, <<{"6600"}, 224>>,
       <<{"mi300"}, 5300>>, <<{"mi250"}, 3277>>, <<{"mi210"}, 1638>>, <<{"mi100"}, 1229>> >>

AppleBandwidth ==
    << <<{"m5 max"}, 614>>, <<{"m5 pro"}, 307>>, <<{"m5"}, 153>>,
       <<{"m4 ultra"}, 819>>, <<{"m4 max"}, 546>>, <<{"m4 pro"}, 273>>, <<{"m4"}, 120>>,
       <<{"m3 ultra"}, 800>>, <<{"m3 max"}, 400>>, <<{"m3 pro"}, 150>>, <<{"m3"}, 100>>,
       <<{"m2 ultra"}, 800>>, <<{"m2 max"}, 400>>, <<{"m2 pro"}, 200>>, <<{"m2"}, 100>>,
       <<{"m1 ultra"}, 800>>, <<{"m1 max"}, 400>>, <<{"m1 pro"}, 200>>, <<{"m1"}, 68>> >>

gpu_memory_bandwidth_gbps(name) ==
    IF is_mobile_gpu_name(name) THEN None
    ELSE FirstRule(GeForceBandwidth \o DataCenterBandwidth \o AmdBandwidth \o AppleBandwidth,
                   name, None)

-----------------------------------------------------------------------------
(* NVIDIA's compute capability, in tenths, and what vLLM's kernels for a   *)
(* quantization need.                                                      *)
gpu_compute_capability(name) ==
    FirstRule(<< <<{"5090", "5080", "5070", "5060", "b200", "b100"}, 100>>,
                 <<{"h100", "h200"}, 90>>,
                 <<{"4090", "4080", "4070", "4060", "l40", "l4"}, 89>>,
                 <<{"a100"}, 80>>,
                 <<{"3090", "3080", "3070", "3060", "a10", "a6000", "a5000", "a4000",
                    "a2000", "a16"}, 86>>,
                 <<{"2080", "2070", "2060", "1660", "1650", "t4"}, 75>>,
                 <<{"v100", "titan v"}, 70>>,
                 <<{"p100", "1080", "1070", "1060", "1050", "p40", "p4"}, 61>> >>, name, None)

quant_min_compute_capability(quant) ==
    IF quant \in {"AWQ-4bit", "AWQ-8bit", "GPTQ-Int4", "GPTQ-Int8"} THEN 75 ELSE None

is_nvidia_unified_memory_gpu(name) == name \cap {"gb10", "gb20", "2e12", "nvgpu"} # {}

-----------------------------------------------------------------------------
(* Memory by name, in 1/1024 GB.                                           *)
estimate_vram_generic(name) ==
    IF /\ name \cap {"radeon", "amd"} # {} /\ name \cap {"graphics", "igpu"} # {}
       /\ name \cap {"rx ", "hd ", " r5 ", " r7 ", " r9 ", "8060", "8050"} = {} THEN 512
    ELSE FirstRule(<< <<{"rtx"}, 8192>>, <<{"gtx"}, 4096>>, <<{"rx ", "radeon"}, 8192>> >>,
                   name, 0)

NvidiaVram ==
    << <<{"5090"}, 32>>, <<{"5080", "5070 ti"}, 16>>, <<{"5070"}, 12>>, <<{"5060 ti"}, 16>>,
       <<{"5060"}, 8>>, <<{"4090"}, 24>>, <<{"4080"}, 16>>, <<{"4070"}, 12>>,
       <<{"4060 ti"}, 16>>, <<{"4060"}, 8>>, <<{"3090"}, 24>>, <<{"3080 ti"}, 12>>,
       <<{"3080"}, 10>>, <<{"3070", "3060 ti"}, 8>>, <<{"3060"}, 12>>,
       <<{"h100", "a100"}, 80>>, <<{"l40", "a6000"}, 48>>, <<{"a5500", "a5000"}, 24>>,
       <<{"a4500"}, 20>>, <<{"a4000"}, 16>>, <<{"a2000"}, 12>>, <<{"a10"}, 24>>,
       <<{"t4"}, 16>>, <<{"gb10", "2e12", "gb20"}, 128>> >>

AmdVram ==
    << <<{"r9700"}, 32>>, <<{"9070 xt"}, 16>>, <<{"9070"}, 12>>, <<{"9060 xt"}, 16>>,
       <<{"9060"}, 8>>, <<{"7900 xtx"}, 24>>, <<{"7900"}, 20>>, <<{"7800"}, 16>>,
       <<{"7700"}, 12>>, <<{"7600"}, 8>>, <<{"6950", "6900", "6800"}, 16>>,
       <<{"6750", "6700"}, 12>>, <<{"6650", "6600"}, 8>>, <<{"6500"}, 4>>, <<{"5700"}, 8>>,
       <<{"5600"}, 6>>, <<{"5500"}, 4>>, <<{"8060s"}, 32>>, <<{"8050s"}, 24>>,
       <<{"8060"}, 16>>, <<{"8050"}, 12>>, <<{"890m"}, 16>>, <<{"880m"}, 12>>,
       <<{"870m", "860m"}, 8>> >>

estimate_vram_from_name(name) ==
    LET listed == FirstRule(NvidiaVram \o AmdVram, name, None)
    IN  IF is_mobile_gpu_name(name) \/ listed = None THEN estimate_vram_generic(name)
        ELSE listed * 1024

=============================================================================
