---------------------------- MODULE MCPlanPanel ----------------------------
(***************************************************************************)
(* Machines of every kind the detection tells apart, each with every tool  *)
(* its system has (the command system also tries it without some), two     *)
(* models, and few values for every field.                                 *)
(***************************************************************************)
EXTENDS PlanPanel

GB(x) == x * 1024

Dense8B ==
    [name |-> "meta/llama-8b", words |-> {"meta/llama", "8b"}, named_b |-> 8000,
     parameters |-> 8000, recommended |-> GB(8), quantization |-> "Q4_K_M", context |-> 128,
     is_moe |-> FALSE, num_experts |-> None, active_experts |-> None, active |-> None,
     heads |-> 32, kv_heads |-> 8, layers |-> 32, head_dim |-> 128, layout |-> None,
     dims |-> None, architecture |-> <<"llama", "">>]

Moe30B ==
    [Dense8B EXCEPT !.name = "qwen/qwen3-30b-a3b", !.words = {"qwen/qwen3", "30b", "a3b"},
        !.named_b = 30000, !.parameters = 30500, !.recommended = GB(20), !.context = 4,
        !.is_moe = TRUE, !.num_experts = 128, !.active_experts = 8, !.active = 3300,
        !.layers = 48, !.kv_heads = 4, !.architecture = <<"qwen", "3">>,
        !.dims = [hidden |-> 2048, vocab |-> 151936, expert |-> 768, shared |-> 0]]

MCCatalog == {Dense8B, Moe30B}

-----------------------------------------------------------------------------
Card(vendor, vram, slot) ==
    [vendor |-> vendor, vram |-> vram, slot |-> slot, driver |-> vendor, tiles |-> <<>>,
     lmem |-> None]

Line(slot, words, name) ==
    [slot |-> slot, display |-> TRUE, words |-> words, brackets |-> <<name>>, text |-> name]

Row(mode, mb, name) == [mode |-> mode, mb |-> mb, name |-> name]

NvidiaRtx == {"nvidia", "geforce", "rtx"}
Ryzen     == {"amd", "ryzen", "radeon"}
Graphics  == {"amd", "radeon", "graphics"}

Bare ==
    [os |-> "linux", arm |-> FALSE, ram |-> GB(32), avail |-> GB(20), used |-> GB(10),
     vm_stat |-> None, cores |-> 8, brands |-> <<{"intel core"}>>, cpuinfo |-> <<>>, soc |-> None,
     smi_extended |-> None, smi |-> None, meminfo |-> GB(32), drm |-> <<>>, lspci |-> None,
     lspci_host |-> None, rocm |-> None, rocm_names |-> None, wmi |-> None, wmic |-> None,
     registry |-> None, dimms |-> None, profiler |-> None, npus |-> <<>>, vulkan |-> None,
     working_set |-> None, bandwidth |-> 60, bundled |-> {}, files |-> {}]

(* A machine with these cards, and its memory for those that share it. *)
On(probe, cards, pool) == [probe |-> probe, cards |-> cards, pool |-> pool]

Own(vendor, name, vram) == [vendor |-> vendor, name |-> name, vram |-> vram, kind |-> "own"]
Sharing(vendor, name, kind) == [vendor |-> vendor, name |-> name, vram |-> 0, kind |-> kind]

Ti == NvidiaRtx \cup {"4060", "4060 ti"}

(* A card with half of the memory its name suggests. *)
Nvidia ==
    [Bare EXCEPT !.smi_extended = <<Row("HMM", GB(8), Ti)>>, !.smi = <<Row("", GB(8), Ti)>>,
        !.drm = <<Card("nvidia", None, "01:00.0")>>,
        !.lspci = <<Line("01:00.0", {"nvidia"}, Ti \ {"nvidia"})>>,
        !.vulkan = <<Ti, {"llvmpipe"}>>]

(* Two cards of one name. *)
Rtx3090 == NvidiaRtx \cup {"3090"}

TwoNvidia ==
    LET name == Rtx3090
        row  == Row("HMM", GB(24), name)
        line(slot) == Line(slot, {"nvidia"}, name \ {"nvidia"})
    IN  [Bare EXCEPT !.smi_extended = <<row, row>>, !.smi = <<row, row>>,
            !.drm = <<Card("nvidia", None, "01:00.0"), Card("nvidia", None, "02:00.0")>>,
            !.lspci = <<line("01:00.0"), line("02:00.0")>>, !.vulkan = <<name, name>>]

(* Three cards: one name for two sizes, and another name. *)
Rtx4090 == NvidiaRtx \cup {"4090"}

MixedNvidia ==
    LET row(name, mb) == Row("HMM", mb, name)
        rows == <<row(Ti, GB(8)), row(Rtx4090, GB(24)), row(Ti, GB(16))>>
        line(slot, name) == Line(slot, {"nvidia"}, name \ {"nvidia"})
    IN  [Bare EXCEPT !.smi_extended = rows, !.smi = rows,
            !.drm = <<Card("nvidia", None, "01:00.0"), Card("nvidia", None, "02:00.0"),
                      Card("nvidia", None, "03:00.0")>>,
            !.lspci = <<line("01:00.0", Ti), line("02:00.0", Rtx4090), line("03:00.0", Ti)>>,
            !.vulkan = <<Ti, Rtx4090, Ti>>]

(* A laptop with a GPU beside that of the processor. *)
Mobile == NvidiaRtx \cup {"4060", "laptop"}
Uhd    == {"intel", "uhd", "770"}

Laptop ==
    LET name == Mobile
        uhd  == Uhd
    IN  [Bare EXCEPT !.smi_extended = <<Row("HMM", GB(8), name)>>, !.smi = <<Row("", GB(8), name)>>,
            !.drm = <<Card("intel", None, "00:02.0"), Card("nvidia", None, "01:00.0")>>,
            !.lspci = <<Line("00:02.0", {"intel"}, uhd),
                        Line("01:00.0", {"nvidia"}, name \ {"nvidia"})>>,
            !.vulkan = <<uhd, name>>]

(* A GPU that shares the memory of its board, and two of them. *)
Gb10 == {"nvidia", "gb10"}

Spark ==
    LET name == Gb10
    IN  [Bare EXCEPT !.smi_extended = <<Row("ATS", 0, name)>>, !.smi = <<Row("", 0, name)>>,
            !.arm = TRUE, !.brands = <<{}>>, !.cpuinfo = <<{"cortex"}>>, !.ram = GB(128),
            !.meminfo = GB(128), !.avail = GB(100), !.vulkan = <<name>>]

TwoSpark ==
    [Spark EXCEPT !.smi_extended = @ \o @, !.smi = @ \o @, !.vulkan = @ \o @]

(* A Radeon and the GPU of the processor. *)
Rx == {"amd", "radeon", "rx ", "7900", "7900 xtx"}

Radeon ==
    [Bare EXCEPT !.brands = <<Ryzen>>,
        !.rocm = [block |-> <<GB(24), 512>>, table |-> <<>>],
        !.rocm_names = [series |-> <<Rx, Graphics>>, gfx |-> <<"gfx1100", "gfx1036">>,
                        column |-> <<>>],
        !.drm = <<Card("amd", GB(24), "03:00.0"), Card("amd", 512, "0c:00.0")>>,
        !.lspci = <<Line("03:00.0", {"amd", "ati"}, Rx \ {"amd"}),
                    Line("0c:00.0", {"amd", "ati"}, Graphics)>>,
        !.vulkan = <<Rx, Graphics>>]

(* The same with rocm-smi's table, and names that say nothing. *)
RadeonTable ==
    [Radeon EXCEPT !.rocm = [block |-> <<>>, table |-> <<<<0, GB(24), 17>>>>],
        !.rocm_names = [series |-> <<>>, gfx |-> <<>>, column |-> <<{"n/a"}>>]]

(* Two Radeons of different size. *)
Rx7600 == {"amd", "radeon", "rx ", "7600"}
R9700  == {"amd", "radeon", "ai", "pro ", "r9700", "9700"}

MixedRadeon ==
    [Bare EXCEPT !.rocm = [block |-> <<GB(8), GB(32)>>, table |-> <<>>],
        !.rocm_names = [series |-> <<Rx7600, R9700>>, gfx |-> <<>>, column |-> <<>>],
        !.drm = <<Card("amd", GB(8), "03:00.0"), Card("amd", GB(32), "0a:00.0")>>,
        !.lspci = <<Line("03:00.0", {"amd", "ati"}, Rx7600 \ {"amd"}),
                    Line("0a:00.0", {"amd", "ati"}, R9700 \ {"amd"})>>,
        !.vulkan = <<Rx7600, R9700>>]

(* A processor whose Radeon uses all of the memory. *)
Strix ==
    LET name == {"amd", "radeon", "8060s", "8060"}
    IN  [Bare EXCEPT !.brands = <<Ryzen \cup {"ryzen ai max"}>>, !.ram = GB(32),
            !.drm = <<Card("amd", GB(96), "c5:00.0")>>,
            !.lspci = <<Line("c5:00.0", {"amd", "ati"}, Graphics)>>, !.vulkan = <<name>>]

(* The same with a card beside it. *)
StrixPlus ==
    [Strix EXCEPT !.drm = @ \o <<Card("amd", GB(32), "64:00.0")>>,
        !.lspci = @ \o <<Line("64:00.0", {"amd", "ati"}, R9700 \ {"amd"})>>,
        !.vulkan = @ \o <<R9700>>]

(* An Arc beside the GPU of the processor. *)
A770 == {"intel", "arc", "a770"}

Arc ==
    LET arc == A770
        uhd == Uhd
    IN  [Bare EXCEPT !.drm = <<Card("intel", None, "00:02.0"),
                               [Card("intel", None, "03:00.0") EXCEPT !.tiles = <<GB(8), GB(8)>>]>>,
            !.lspci = <<Line("00:02.0", {"intel"}, uhd), Line("03:00.0", {"intel"}, arc)>>,
            !.vulkan = <<arc \cup {"(r)"}, uhd>>]

(* Only the GPU of the processor; lspci is in the host of a container. *)
IntelOnly ==
    [Bare EXCEPT !.drm = <<Card("intel", None, "00:02.0")>>,
        !.lspci_host = <<Line("00:02.0", {"intel"}, {"iris"})>>,
        !.vulkan = <<{"intel", "iris", "xe"}>>]

Rtx3080 == NvidiaRtx \cup {"3080"}

WinNvidia ==
    LET name == Rtx3080
    IN  [Bare EXCEPT !.os = "windows", !.smi_extended = <<Row("None", GB(10), name)>>,
            !.smi = <<Row("", GB(10), name)>>, !.wmi = <<<<name, 4095>>, <<{"microsoft"}, 0>>>>,
            !.wmic = <<<<name, 4095>>>>, !.registry = <<<<name, GB(10)>>>>, !.vulkan = <<name>>]

Rx6600 == {"amd", "radeon", "rx ", "6600"}

WinRadeon ==
    LET name == Rx6600
    IN  [Bare EXCEPT !.os = "windows", !.brands = <<Ryzen>>, !.ram = GB(24), !.dimms = GB(32),
            !.wmi = <<<<name, 4095>>, <<Graphics, 512>>>>, !.wmic = <<<<name, None>>>>,
            !.registry = <<<<name \cup {"(tm)"}, GB(8)>>, <<Graphics, 16>>>>,
            !.vulkan = <<name, Graphics>>]

Apple ==
    [Bare EXCEPT !.os = "macos", !.arm = TRUE, !.brands = <<{"apple", "m4 pro", "m4"}>>,
        !.avail = 0, !.used = 0, !.vm_stat = GB(12),
        !.profiler = <<[name |-> {"apple m"}, metal |-> TRUE, vram |-> None]>>,
        !.working_set = GB(24)]

(* Metal gives the GPU of the processor memory of its own. *)
Pro5500 == {"amd", "radeon", "pro ", "5500"}
Uhd630  == {"intel", "uhd", "630"}

IntelMac ==
    LET name == Pro5500
        uhd  == Uhd630
    IN  [Bare EXCEPT !.os = "macos", !.avail = 0,
            !.profiler = <<[name |-> uhd, metal |-> TRUE, vram |-> 1536],
                           [name |-> name, metal |-> TRUE, vram |-> GB(4)]>>]

Ascend == [Bare EXCEPT !.npus = <<GB(64), GB(64)>>, !.arm = TRUE]

Phone == [Bare EXCEPT !.brands = <<{"unknown"}>>, !.soc = {"snapdragon"}, !.arm = TRUE,
              !.avail = 0, !.used = 0, !.bandwidth = 1]

-----------------------------------------------------------------------------
(* Profiles: a bundled one, one of the user that has its name, and others  *)
(* that are refused.                                                       *)
Profile ==
    [schema |-> 1, name |-> "box", slug_ok |-> TRUE, match |-> {"box"}, ram |-> GB(64),
     unified |-> TRUE, gpu_bw |-> 250, ddr |-> None, tflops |-> None, efficiency |-> 60,
     factors |-> [Gpu |-> 90], calibration |-> {[model |-> {"8b"}, tps |-> 30, mode |-> None]}]

OwnBox == [Profile EXCEPT !.ram = GB(16), !.unified = FALSE, !.gpu_bw = None]

WithProfiles(p) ==
    [p EXCEPT !.bundled = {Profile, [Profile EXCEPT !.name = "bad", !.ram = 0]},
              !.files = {[stem |-> "box", content |-> OwnBox], [stem |-> "old", content |-> OwnBox],
                         [stem |-> "torn", content |-> None]}]

MCMachines ==
    LET nvidia(name, vram) == Own("nvidia", name, vram)
        amd(name, vram)    == Own("amd", name, vram)
        uhd                == Sharing("intel", Uhd, "integrated")
        graphics           == Sharing("amd", Graphics, "integrated")
        apu                == Sharing("amd", Graphics, "pool")
        spark              == Sharing("nvidia", Gb10, "pool")
    IN  { On(WithProfiles(Nvidia), <<nvidia(Ti, GB(8))>>, 0),
          On(TwoNvidia, <<nvidia(Rtx3090, GB(24)), nvidia(Rtx3090, GB(24))>>, 0),
          On(MixedNvidia, <<nvidia(Ti, GB(8)), nvidia(Rtx4090, GB(24)), nvidia(Ti, GB(16))>>, 0),
          On(Laptop, <<uhd, nvidia(Mobile, GB(8))>>, GB(32)),
          On(Spark, <<spark>>, GB(128)), On(TwoSpark, <<spark, spark>>, GB(128)),
          On(Radeon, <<amd(Rx, GB(24)), graphics>>, GB(32)),
          On(RadeonTable, <<amd(Rx, GB(24)), graphics>>, GB(32)),
          On(MixedRadeon, <<amd(Rx7600, GB(8)), amd(R9700, GB(32))>>, 0),
          On(Strix, <<apu>>, GB(128)), On(StrixPlus, <<apu, amd(R9700, GB(32))>>, GB(128)),
          On(Arc, <<uhd, Own("intel", A770, GB(16))>>, GB(32)),
          On(IntelOnly, <<uhd>>, GB(32)), On(WinNvidia, <<nvidia(Rtx3080, GB(10))>>, 0),
          On(WinRadeon, <<amd(Rx6600, GB(8)), graphics>>, GB(32)),
          On(Apple, <<Sharing("apple", {"apple m"}, "pool")>>, GB(32)),
          On(IntelMac, <<Own("intel", Uhd630, 1536), amd(Pro5500, GB(4))>>, GB(32)),
          On(Ascend, <<Own("ascend", {"ascend npu"}, GB(64)), Own("ascend", {"ascend npu"}, GB(64))>>, 0),
          On(Phone, <<>>, GB(32)), On(WithProfiles(Bare), <<>>, 0) }

MCTools == {"smi_extended", "smi", "lspci", "rocm", "rocm_names", "wmi", "registry", "vulkan"}

Named(name) == [path |-> None, name |-> name]

MCOverrides ==
    { NoOverrides,
      [NoOverrides EXCEPT !.ram = <<64, "gb">>, !.memory = <<24000, "m">>, !.cores = 4],
      [NoOverrides EXCEPT !.memory = <<None, "">>],
      [NoOverrides EXCEPT !.profile = Named("box")],
      [NoOverrides EXCEPT !.profile = [path |-> [stem |-> "box", content |-> Profile], name |-> ""]] }

MCTyped ==
    [Context |-> {0, 64}, Quant |-> {"Q8_0", Unparsable}, KvQuant |-> {"q4_0", "tq", Unparsable},
     TargetTps |-> {300, Unparsable}, Ram |-> {GB(8), Unparsable}, Vram |-> {0, GB(80)},
     CpuCores |-> {0, 64}, Efficiency |-> {0, Unparsable}, Gpu |-> {50}, CpuOffload |-> {50},
     MoeOffload |-> {200}, TensorParallel |-> {50}, CpuOnly |-> {Unparsable}, ContextCap |-> {4},
     DdrBandwidth |-> {0, 90}]

Ask(context, quant, kv, target) ==
    [context |-> context, quant |-> quant, kv |-> kv, target |-> target]

MCAsked ==
    { Ask(8, None, None, None), Ask(128, "Q8_0", "q4_0", None), Ask(0, None, None, None),
      Ask(8, None, "tq", None), Ask(8, "Q2_K", None, 100000), Ask(8, "Q9", None, None),
      Ask(8, None, Unparsable, 0) }

MCSelectors == {Dense8B.words, Moe30B.words, {"8b"}, {}}

MCApiChoices ==
    { [ram |-> None, vram |-> None, cores |-> None], [ram |-> GB(8), vram |-> GB(6), cores |-> 2],
      [ram |-> None, vram |-> None, cores |-> 0] }

MCNumberWords ==
    {"4060", "3090", "4090", "7900", "7600", "9700", "770", "3080", "6600", "5500", "630"}
MCArcWords    == {"a770"}
MCMobileWords == {"890m"}
=============================================================================
