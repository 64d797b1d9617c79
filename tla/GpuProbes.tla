----------------------------- MODULE GpuProbes -----------------------------
(***************************************************************************)
(* How hardware.rs finds the GPUs of one vendor or one tool.  A probe p is *)
(* a record of what the tools and files of a machine answer, None where a  *)
(* tool is missing or fails; a name is the set of its words, and contains  *)
(* another when that is a subset.  Memory is in 1/1024 GB.                 *)
(*                                                                         *)
(* Cards with one name are grouped.  The code lists the groups by name;    *)
(* the order here is any, which shows only where the code breaks a tie.    *)
(***************************************************************************)
EXTENDS Gpus

CONSTANTS
    NumberWords, \* the words of names that are numbers of 3 to 5 digits
    ArcWords,    \* Intel model words: a letter a to d, then 2 to 4 digits
    MobileWords  \* AMD model words of 3 digits and an m

NvidiaGpu == {"nvidia", "gpu"}
AmdGpu    == {"amd", "gpu"}
Generic   == {AmdGpu, {"amd", "ati"}, {"radeon", "graphics"}, {"amd", "radeon", "graphics"}}

GpuInfo(name, vram, backend, count, unified) ==
    [name |-> name, vram |-> vram, backend |-> backend, count |-> count, unified |-> unified]

Somes(s) == SelectSeq(s, LAMBDA x : x # None)

MapSeq(s, F(_)) == [i \in 1..Len(s) |-> F(s[i])]

Positive(x) == IF x # None /\ x > 0 THEN x ELSE None

(* Rows <<name, memory, unified>>: one group for a name, with the largest  *)
(* memory of its cards, and unified if one of them is.                     *)
Grouped(rows) ==
    LET of(n) == {i \in 1..Len(rows) : rows[i][1] = n}
    IN  MapSeq(SetToSeq({rows[i][1] : i \in 1..Len(rows)}),
               LAMBDA n : [name |-> n, count |-> Cardinality(of(n)),
                           vram |-> Max({orElse(rows[i][2], 0) : i \in of(n)}),
                           unified |-> \E i \in of(n) : rows[i][3]])

-----------------------------------------------------------------------------
(* Names.                                                                  *)
is_placeholder_gpu_name(name) == name \subseteq {"n/a", "unknown", "none"}

is_generic_amd_gpu_name(name) == name \in Generic

is_legacy_intel_igpu_name(name) == {"intel", "hd graphics"} \subseteq name

is_amd_mobile_igpu_name(name) ==
    "radeon" \in name /\ name \cap {"rx", "rx "} = {} /\ name \cap MobileWords # {}

is_integrated_gpu_name(name) ==
    \/ "(integrated)" \in name
    \/ is_amd_mobile_igpu_name(name)
    \/ /\ "intel" \in name
       /\ \/ name \cap {"uhd", "hd graphics"} # {}
          \/ "iris" \in name /\ "arc" \notin name
    \/ /\ "intel" \notin name
       /\ {"radeon", "graphics"} \subseteq name
       /\ name \cap {"rx ", "pro ", "vega", " vii", " w"} = {}

(* A generic Radeon name with 8 GB of its own is an accelerator. *)
is_integrated_gpu(name, vram) ==
    /\ is_integrated_gpu_name(name)
    /\ \/ is_amd_mobile_igpu_name(name)
       \/ "radeon" \notin name \/ "(integrated)" \in name
       \/ orElse(vram, 0) < 8192

prefer_discrete_gpus(gpus) ==
    LET discrete == SelectSeq(gpus, LAMBDA g : ~is_integrated_gpu(g.name, g.vram))
    IN  IF discrete = <<>> THEN gpus ELSE discrete

infer_gpu_backend(name) ==
    FirstRule(<< <<{"nvidia", "geforce", "quadro", "tesla", "rtx"}, "Cuda">>,
                 <<{"amd", "radeon", "ati"}, "Vulkan">>, <<{"intel", "arc"}, "Sycl">> >>,
              name, "Vulkan")

extract_arc_model_tokens(name) == name \cap ArcWords

extract_gpu_model_numbers(name) == name \cap NumberWords

(* Punctuation and spaces go; only the registry's names lose trademarks.   *)
Plain(w) == CASE w = "(integrated)" -> "integrated" [] w = "rx " -> "rx"
              [] w = "(tm)" -> "tm" [] w = "(r)" -> "r" [] OTHER -> w

normalize_gpu_name_for_dedupe(name) == {Plain(w) : w \in name}

normalize_gpu_name_for_match(name) == {Plain(w) : w \in name \ {"(tm)", "(r)"}}

(* Tools name one GPU in different ways. *)
is_same_gpu_name(existing, candidate) ==
    LET both(words) == existing \cap words # {} /\ candidate \cap words # {}
        numbers(n)  == extract_gpu_model_numbers(n)
        tokens(n)   == extract_arc_model_tokens(n)
        unnamed(n)  == numbers(n) = {} /\ tokens(n) = {}
    IN  \/ normalize_gpu_name_for_dedupe(existing) = normalize_gpu_name_for_dedupe(candidate)
        \/ both({"radeon", "amd"}) /\ numbers(existing) \cap numbers(candidate) # {}
        \/ /\ both({"intel"})
           /\ \/ numbers(existing) \cap numbers(candidate) # {}
              \/ tokens(existing) \cap tokens(candidate) # {}
              \/ "(integrated)" \in existing /\ unnamed(candidate)
              \/ "(integrated)" \in candidate /\ unnamed(existing)

-----------------------------------------------------------------------------
(* lspci: a line has a slot, words, the names in brackets, and its text    *)
(* after the colon.  A container asks the host.                            *)
lspci_output(p) == orElse(p.lspci, p.lspci_host)

(* The longest name in brackets that is not an identifier. *)
extract_model_from_lspci_line(line) ==
    LET usable == SelectSeq(line.brackets, LAMBDA t : t # {} /\ t \cap {"id", "class"} = {})
        longest == SelectSeq(usable, LAMBDA t : \A i \in 1..Len(usable) :
                                Cardinality(usable[i]) <= Cardinality(t))
    IN  IF usable # <<>> THEN longest[1]
        ELSE IF line.text # {} THEN line.text ELSE None

(* The card of the first slot that lspci lists, or any of the vendor. *)
LspciName(p, slots, vendor) ==
    LET lines   == orElse(lspci_output(p), <<>>)
        named   == SelectSeq(lines, LAMBDA l : /\ l.display /\ l.words \cap vendor # {}
                                               /\ extract_model_from_lspci_line(l) # None)
        slotted == SelectSeq(slots, LAMBDA s : \E i \in 1..Len(named) : named[i].slot = s)
        at(s)   == SelectSeq(named, LAMBDA l : l.slot = s)[1]
    IN  IF named = <<>> THEN None
        ELSE extract_model_from_lspci_line(IF slotted # <<>> THEN at(slotted[1]) ELSE named[1])

get_amd_gpu_name_lspci(p, slots) == LspciName(p, slots, {"amd", "ati"})

get_nvidia_gpu_name_lspci(p, slots) == LspciName(p, slots, {"nvidia"})

-----------------------------------------------------------------------------
(* NVIDIA: nvidia-smi's rows are [mode, mb, name], 0 MB when unreadable.   *)
NamedNvidia(name) == IF name = {} THEN NvidiaGpu ELSE name

Cuda(groups) ==
    MapSeq(groups, LAMBDA g : GpuInfo(g.name, Positive(g.vram), "Cuda", g.count, g.unified))

(* A GPU that addresses the system's memory (ATS) has the whole of it. *)
parse_nvidia_smi_extended(rows, meminfo) ==
    LET name(r)    == NamedNvidia(r.name)
        unified(r) == r.mode = "ATS"
        vram(r)    == CASE r.mb > 0                   -> r.mb
                        [] r.mb <= 0 /\ unified(r)    -> orElse(meminfo, 0)
                        [] OTHER                      -> estimate_vram_from_name(name(r))
    IN  Cuda(Grouped(MapSeq(rows, LAMBDA r : <<name(r), vram(r), unified(r)>>)))

parse_nvidia_smi_list(rows) ==
    LET name(r) == NamedNvidia(r.name)
        vram(r) == IF r.mb > 0 THEN r.mb ELSE estimate_vram_from_name(name(r))
    IN  Cuda(Grouped(MapSeq(rows, LAMBDA r : <<name(r), vram(r), FALSE>>)))

try_nvidia_smi_with_addressing_mode(p) ==
    IF p.smi_extended = None THEN None
    ELSE parse_nvidia_smi_extended(p.smi_extended, p.meminfo)

detect_nvidia_gpus(p) ==
    orElse(try_nvidia_smi_with_addressing_mode(p),
           IF p.smi = None THEN <<>> ELSE parse_nvidia_smi_list(p.smi))

Cards(p, vendor) == SelectSeq(p.drm, LAMBDA c : c.vendor = vendor)

(* One entry for all the cards: the name of one, the memory of the largest. *)
detect_nvidia_gpu_sysfs_info(p) ==
    LET cards   == Cards(p, "nvidia")
        name    == orElse(get_nvidia_gpu_name_lspci(p, MapSeq(cards, LAMBDA c : c.slot)), NvidiaGpu)
        largest == Max({orElse(cards[i].vram, 0) : i \in 1..Len(cards)})
        backend == IF \E i \in 1..Len(cards) : cards[i].driver = "nvidia" THEN "Cuda" ELSE "Vulkan"
    IN  IF p.os # "linux" \/ cards = <<>> THEN <<>>
        ELSE << GpuInfo(name, orElse(Positive(largest), Positive(estimate_vram_from_name(name))),
                        backend, Len(cards), is_nvidia_unified_memory_gpu(name)) >>

-----------------------------------------------------------------------------
(* AMD: rocm-smi in one of two formats, else sysfs.                        *)
VramOrEstimate(name, vram) == orElse(Positive(vram), Positive(estimate_vram_from_name(name)))

(* Rows of the table are numbers; the first of at least 64 MB is the total. *)
parse_rocm_vram_bytes(text) ==
    LET block == SelectSeq(text.block, LAMBDA v : v > 0)
        total(row) == LET large == SelectSeq(row, LAMBDA v : v >= 64)
                      IN  IF large = <<>> THEN None ELSE large[1]
    IN  IF block # <<>> THEN block ELSE Somes(MapSeq(text.table, total))

(* Series names that several cards share are told apart by gfx version. *)
parse_rocm_product_names(text) ==
    LET named(n) == IF is_placeholder_gpu_name(n) THEN AmdGpu ELSE n
        block    == MapSeq(SelectSeq(text.series, LAMBDA n : n # {}), named)
    IN  CASE block = <<>> -> MapSeq(text.column, named)
          [] block # <<>> /\ Len(text.gfx) = Len(block) ->
                [i \in 1..Len(block) |-> IF is_integrated_gpu_name(block[i])
                                            THEN block[i] \cup {text.gfx[i]} ELSE block[i]]
          [] OTHER -> block

(* A GPU of 2 GB or less beside a larger one is the integrated one. *)
parse_rocm_smi_output(vram_text, product_text) ==
    LET vrams  == parse_rocm_vram_bytes(vram_text)
        names  == IF product_text = None THEN <<>> ELSE parse_rocm_product_names(product_text)
        vram(i) == IF i <= Len(vrams) THEN vrams[i] ELSE 0
        name(i) == IF i <= Len(names) THEN names[i] ELSE AmdGpu
        discrete == \E i \in 1..Len(vrams) : vrams[i] > 2048
        kept   == SelectSeq([i \in 1..Max({Len(vrams), Len(names)}) |-> i],
                            LAMBDA i : discrete => vram(i) > 2048)
    IN  MapSeq(Grouped(MapSeq(kept, LAMBDA i : <<name(i), vram(i), FALSE>>)),
               LAMBDA g : GpuInfo(g.name, VramOrEstimate(g.name, g.vram), "Rocm", g.count, FALSE))

detect_amd_gpu_rocm_info(p) ==
    IF p.rocm = None THEN <<>> ELSE parse_rocm_smi_output(p.rocm, p.rocm_names)

(* <<name, memory as read>> for every card. *)
scan_amd_sysfs_cards(p) ==
    MapSeq(Cards(p, "amd"),
           LAMBDA c : <<orElse(get_amd_gpu_name_lspci(p, <<c.slot>>), AmdGpu), Positive(c.vram)>>)

group_and_filter_amd_sysfs_cards(cards) ==
    LET groups  == MapSeq(Grouped(MapSeq(cards, LAMBDA c : <<c[1], c[2], FALSE>>)),
                          LAMBDA g : [g EXCEPT !.vram = Positive(@)])
        large(g) == ~is_integrated_gpu_name(g.name) /\ orElse(g.vram, 0) > 2048
        kept(g)  == ~is_integrated_gpu_name(g.name) /\ (g.vram = None \/ g.vram > 2048)
        discrete == \E i \in 1..Len(groups) : large(groups[i])
    IN  MapSeq(IF discrete THEN SelectSeq(groups, kept) ELSE groups,
               LAMBDA g : GpuInfo(g.name, g.vram, "Vulkan", g.count, FALSE))

detect_amd_gpu_sysfs_info_from_root(p) ==
    group_and_filter_amd_sysfs_cards(
        MapSeq(scan_amd_sysfs_cards(p), LAMBDA c : <<c[1], VramOrEstimate(c[1], c[2])>>))

detect_amd_gpu_sysfs_info(p) ==
    IF p.os # "linux" THEN <<>> ELSE detect_amd_gpu_sysfs_info_from_root(p)

-----------------------------------------------------------------------------
(* Windows: rows <<name, AdapterRAM>> of WMI, whose 32 bits end at 4 GB,   *)
(* corrected by the registry.                                              *)
resolve_wmi_vram(raw, name) ==
    LET estimate == estimate_vram_from_name(name)
    IN  Positive(IF (raw < 103 \/ (raw <= 4198 /\ estimate > 4198)) /\ estimate > 0
                    THEN estimate ELSE raw)

windows_gpu_from_wmi(name, raw) ==
    IF name \cap {"microsoft", "basic", "virtual"} # {} \/ name = {}
        \/ is_legacy_intel_igpu_name(name) THEN None
    ELSE GpuInfo(name, resolve_wmi_vram(raw, name), infer_gpu_backend(name), 1, FALSE)

(* A row without a number is skipped, but by wmic taken for 0. *)
parse_windows_gpu_list(rows) ==
    Somes(MapSeq(SelectSeq(rows, LAMBDA r : r[2] # None),
                 LAMBDA r : windows_gpu_from_wmi(r[1], r[2])))

detect_gpu_windows_wmic_list(p) ==
    IF p.wmic = None THEN <<>>
    ELSE Somes(MapSeq(p.wmic, LAMBDA r : windows_gpu_from_wmi(r[1], orElse(r[2], 0))))

(* Less than 64 MB is not a number of bytes. *)
parse_windows_registry_vram(rows) ==
    SelectSeq(rows, LAMBDA r : r[1] # {} /\ r[2] # None /\ r[2] >= 64)

detect_windows_registry_vram(p) ==
    IF p.os # "windows" \/ p.registry = None THEN <<>>
    ELSE parse_windows_registry_vram(p.registry)

(* The same description, or the only one that contains it or is contained. *)
match_registry_vram(name, registry) ==
    LET target == normalize_gpu_name_for_match(name)
        desc(r) == normalize_gpu_name_for_match(r[1])
        same    == SelectSeq(registry, LAMBDA r : desc(r) = target)
        partial == SelectSeq(registry, LAMBDA r : /\ desc(r) # {}
                                                  /\ desc(r) \subseteq target \/ target \subseteq desc(r))
    IN  CASE target = {}                     -> None
          [] target # {} /\ same # <<>>      -> same[1][2]
          [] OTHER -> IF Len(partial) = 1 THEN partial[1][2] ELSE None

apply_registry_vram(gpus, registry) ==
    MapSeq(gpus, LAMBDA g : [g EXCEPT !.vram = orElse(match_registry_vram(g.name, registry), @)])

detect_gpu_windows_info(p) ==
    LET listed == IF p.wmi = None THEN <<>> ELSE parse_windows_gpu_list(p.wmi)
        gpus   == IF listed # <<>> THEN listed ELSE detect_gpu_windows_wmic_list(p)
    IN  IF p.os # "windows" THEN <<>>
        ELSE prefer_discrete_gpus(apply_registry_vram(gpus, detect_windows_registry_vram(p)))

-----------------------------------------------------------------------------
(* Intel: an integrated GPU sits at 00:02.0 and shares the whole RAM.      *)
(* xe lists the memory of every tile, i915 the total.                      *)
intel_dgpu_vram_gb_from_pci_dir(card) ==
    LET tiles == FoldSeq(LAMBDA x, y : x + y, 0, card.tiles)
    IN  Positive(IF tiles > 0 THEN tiles ELSE orElse(card.lmem, 0))

intel_dgpu_vram_gb_from_sysfs(p, slot) ==
    LET cards == SelectSeq(p.drm, LAMBDA c : c.slot = slot)
    IN  IF cards = <<>> THEN None ELSE intel_dgpu_vram_gb_from_pci_dir(cards[1])

(* "Intel" and the text from "Arc" on, or the whole text. *)
intel_name_from_lspci_line(line) ==
    {"intel"} \cup (CASE "arc" \in line.text -> line.text \ {"gpu", "codename"}
                      [] line.text = {}      -> {"graphics"}
                      [] OTHER               -> line.text \ {"gpu"})

parse_intel_gpus_from_lspci(p, lines, total_ram) ==
    LET intel == SelectSeq(lines, LAMBDA l : l.display /\ "intel" \in l.words)
        kept  == SelectSeq(intel, LAMBDA l :
                    ~is_legacy_intel_igpu_name(intel_name_from_lspci_line(l)))
        gpu(l) == LET name == intel_name_from_lspci_line(l)
                  IN  IF l.slot = "00:02.0"
                        THEN GpuInfo(name \cup {"(integrated)"}, total_ram, "Sycl", 1, TRUE)
                      ELSE GpuInfo(name, intel_dgpu_vram_gb_from_sysfs(p, l.slot), "Sycl", 1, FALSE)
    IN  MapSeq(kept, gpu)

detect_intel_gpus(p, total_ram) ==
    LET listed == parse_intel_gpus_from_lspci(p, orElse(lspci_output(p), <<>>), total_ram)
        cards  == Cards(p, "intel")
    IN  CASE listed # <<>>                     -> listed
          [] listed = <<>> /\ cards # <<>>     ->
                << GpuInfo({"intel", "graphics"}, intel_dgpu_vram_gb_from_pci_dir(cards[1]),
                           "Sycl", 1, FALSE) >>
          [] OTHER -> <<>>

-----------------------------------------------------------------------------
(* macOS: entries [name, metal, vram] of system_profiler.                  *)
IsApple(name) == name \cap {"apple m", "apple gpu"} # {}

detect_apple_gpu(p, total_ram) ==
    IF p.profiler # None /\ \E i \in 1..Len(p.profiler) : IsApple(p.profiler[i].name)
        THEN total_ram ELSE None

parse_macos_metal_gpus_from_system_profiler_json(entries) ==
    MapSeq(SelectSeq(entries, LAMBDA e : ~IsApple(e.name) /\ e.metal),
           LAMBDA e : GpuInfo(e.name, e.vram, "Metal", 1, FALSE))

detect_macos_metal_gpus(p) ==
    IF p.os # "macos" \/ p.profiler = None THEN <<>>
    ELSE parse_macos_metal_gpus_from_system_profiler_json(p.profiler)

-----------------------------------------------------------------------------
(* Vulkan lists every device, software and CPUs too, without their memory. *)
is_software_vulkan_device(name) ==
    name \cap {"llvmpipe", "lavapipe", "swiftshader", "software rasterizer",
               "core processor"} # {}

parse_vulkan_gpus(names) ==
    LET kept == SelectSeq(names, LAMBDA n : /\ n # {} /\ ~is_software_vulkan_device(n)
                                            /\ ~is_legacy_intel_igpu_name(n))
    IN  MapSeq(Grouped(MapSeq(kept, LAMBDA n : <<n, None, FALSE>>)),
               LAMBDA g : GpuInfo(g.name, None, "Vulkan", g.count, FALSE))

detect_vulkan_gpu_info(p) == IF p.vulkan = None THEN <<>> ELSE parse_vulkan_gpus(p.vulkan)

(* Ascend: the memory of every NPU npu-smi lists, 0 when unreadable. *)
detect_ascend_npus(p) ==
    MapSeq(p.npus, LAMBDA mb : GpuInfo({"ascend npu"}, mb, "Ascend", 1, FALSE))

=============================================================================
