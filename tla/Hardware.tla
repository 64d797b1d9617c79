------------------------------ MODULE Hardware ------------------------------
(***************************************************************************)
(* What llmfit takes the machine to be (hardware.rs, hwprofile.rs): the    *)
(* GPUs of all the probes merged, the memory, the overrides of the command *)
(* line and of the API, and named hardware profiles.                       *)
(***************************************************************************)
EXTENDS GpuProbes, Estimate

-----------------------------------------------------------------------------
(* Processor and memory.                                                   *)
parse_cpu_name_from_cpuinfo(names) == IF names = <<>> THEN None ELSE names[1]

read_cpu_name_from_proc_cpuinfo(p) ==
    IF p.os # "linux" THEN None ELSE parse_cpu_name_from_cpuinfo(p.cpuinfo)

read_android_soc_name(p) == IF p.os # "linux" THEN None ELSE p.soc

detect_cpu_name(p) ==
    LET brands == SelectSeq(p.brands, LAMBDA b : b \notin {{}, {"unknown"}})
    IN  IF brands # <<>> THEN brands[1]
        ELSE orElse(read_cpu_name_from_proc_cpuinfo(p),
                    orElse(read_android_soc_name(p), {"unknown cpu"}))

(* Free, inactive and purgeable pages. *)
available_ram_from_vm_stat(p) == IF p.vm_stat = None THEN None ELSE Positive(p.vm_stat)

available_ram_fallback(p) ==
    IF p.used > 0 /\ p.used < p.ram THEN p.ram - p.used
    ELSE orElse(available_ram_from_vm_stat(p), (p.ram * 8) \div 10)

is_amd_unified_memory_apu(cpu) == "ryzen ai max" \in cpu

is_amd_apu(cpu) == {"ryzen", "radeon"} \subseteq cpu

(* The gap is the frame buffer the BIOS keeps when it is 1 GB or more. *)
apply_ram_carveout_override(seen, installed) ==
    IF installed - seen >= 1024 THEN installed ELSE seen

(* The memory of the one integrated card; two are not told apart. *)
apu_uma_carveout_from_cards(cards) ==
    LET own == SelectSeq(cards, LAMBDA c : is_integrated_gpu_name(c[1]) /\ c[2] # None)
    IN  IF Len(own) = 1 THEN own[1][2] ELSE None

linux_apu_uma_carveout_gb(p) ==
    IF p.os # "linux" THEN None ELSE apu_uma_carveout_from_cards(scan_amd_sysfs_cards(p))

detect_windows_physical_total_ram_gb(p) ==
    IF p.os # "windows" \/ p.dimms = None THEN None ELSE Positive(p.dimms)

(* The RAM with the frame buffer of an APU back in it. *)
apu_total_ram_gb(p, cpu) ==
    IF ~is_amd_apu(cpu) THEN p.ram
    ELSE IF p.os = "windows"
        THEN LET installed == detect_windows_physical_total_ram_gb(p)
             IN  IF installed = None THEN p.ram ELSE apply_ram_carveout_override(p.ram, installed)
    ELSE p.ram + orElse(linux_apu_uma_carveout_gb(p), 0)

-----------------------------------------------------------------------------
(* The GPUs of all the sources.                                            *)
(* Each GPU that is new is added, and counts for the ones after it. *)
AddEach(gpus, found, IsSame(_, _)) ==
    FoldLeft(LAMBDA acc, f : IF \E i \in 1..Len(acc) : IsSame(acc[i].name, f.name)
                                THEN acc ELSE Append(acc, f), gpus, found)

Contained(a, b) == a \subseteq b \/ b \subseteq a

SortByVram(gpus) ==
    LET before(i, j) == \/ orElse(gpus[i].vram, 0) > orElse(gpus[j].vram, 0)
                        \/ orElse(gpus[i].vram, 0) = orElse(gpus[j].vram, 0) /\ i < j
    IN  MapSeq(SetToSortSeq(1..Len(gpus), before), LAMBDA i : gpus[i])

(* The Radeon of a Ryzen AI MAX has the whole pool, found or not. *)
apply_amd_unified_apu_override(gpus, cpu, pool) ==
    LET amd  == {i \in 1..Len(gpus) : gpus[i].name \cap {"amd", "radeon"} # {}}
        name == cpu \cup {"(integrated)"}
    IN  CASE ~is_amd_unified_memory_apu(cpu) -> gpus
          [] is_amd_unified_memory_apu(cpu) /\ amd # {} ->
                [gpus EXCEPT ![Min(amd)] =
                    [@ EXCEPT !.unified = TRUE, !.vram = pool,
                              !.name = IF is_generic_amd_gpu_name(@) THEN name ELSE @]]
          [] OTHER -> Append(gpus, GpuInfo(name, pool, "Vulkan", 1, TRUE))

NvidiaUnified(gpus, pool) ==
    MapSeq(gpus, LAMBDA g : IF is_nvidia_unified_memory_gpu(g.name)
                                THEN [g EXCEPT !.unified = TRUE, !.vram = pool] ELSE g)

(* A candidate that is new is added; one that is known may add the memory. *)
MergeOne(gpus, c) ==
    LET same == {i \in 1..Len(gpus) : is_same_gpu_name(gpus[i].name, c.name)}
        i    == Min(same)
    IN  IF same = {} THEN Append(gpus, c)
        ELSE IF ~gpus[i].unified /\ orElse(gpus[i].vram, 0) = 0 /\ orElse(c.vram, 0) > 0
            THEN [gpus EXCEPT ![i].vram = c.vram] ELSE gpus

merge_gpu_sources(primary, fallback) == SortByVram(FoldLeft(MergeOne, primary, fallback))

IfNone(found, fallback) == IF found = <<>> THEN fallback ELSE found

VendorGpus(p) ==
    IfNone(detect_nvidia_gpus(p), detect_nvidia_gpu_sysfs_info(p))
        \o IfNone(detect_amd_gpu_rocm_info(p), detect_amd_gpu_sysfs_info(p))

(* Mutant: WMI adds what a vendor's tool already found. *)
WmiAgain(p) == VendorGpus(p) \o detect_gpu_windows_info(p)

WithWmi(p) == AddEach(VendorGpus(p), detect_gpu_windows_info(p), Contained)

(* Intel's are asked for when no source has named one. *)
WithIntel(gpus, p, total_ram) ==
    gpus \o (IF \E i \in 1..Len(gpus) : "intel" \in gpus[i].name THEN <<>>
             ELSE detect_intel_gpus(p, total_ram))

WithMetal(gpus, p) == AddEach(gpus, detect_macos_metal_gpus(p), is_same_gpu_name)

WithApple(gpus, p, total_ram, cpu) ==
    IF detect_apple_gpu(p, total_ram) = None THEN gpus
    ELSE Append(gpus, GpuInfo(IF "apple" \in cpu THEN cpu ELSE {"apple silicon"},
                              total_ram, "Metal", 1, TRUE))

Discrete(gpus, p) == SortByVram(IF p.os = "macos" THEN gpus ELSE prefer_discrete_gpus(gpus))

detect_all_gpus(p, total_ram, cpu) ==
    Discrete(
        merge_gpu_sources(
            WithApple(
                WithMetal(
                    WithIntel(NvidiaUnified(apply_amd_unified_apu_override(WithWmi(p), cpu, total_ram),
                                            total_ram), p, total_ram), p), p, total_ram, cpu)
              \o detect_ascend_npus(p),
            detect_vulkan_gpu_info(p)), p)

-----------------------------------------------------------------------------
(* The specifications, and what the user says instead.                     *)
CpuBackend(p, cpu) == IF p.arm \/ "apple" \in cpu THEN "CpuArm" ELSE "CpuX86"

(* What Metal lets the GPU of a Mac wire. *)
detect_gpu_available_gb(p) == IF p.os = "macos" THEN p.working_set ELSE None

(* Effective bandwidth of the RAM, measured once; an implausible one is no *)
(* measurement.                                                            *)
measured_ram_bandwidth_gbps(p) ==
    IF p.bandwidth # None /\ p.bandwidth \in 2..4000 THEN p.bandwidth ELSE None

SpecsWith(p, cpu, total, gpus) ==
    LET sum   == FoldSeq(LAMBDA g, n : n + g.count * orElse(g.vram, 0), 0, gpus)
        count == FoldSeq(LAMBDA g, n : n + g.count, 0, gpus)
        some  == gpus # <<>>
        unified == some /\ gpus[1].unified
    IN  [total_ram |-> total, ram |-> IF p.avail = 0 /\ p.ram > 0 THEN available_ram_fallback(p)
                                      ELSE p.avail,
         cores |-> p.cores, cpu_name |-> cpu, cpu |-> CpuBackend(p, cpu), has_gpu |-> some,
         vram |-> IF some THEN gpus[1].vram ELSE None, total_vram |-> Positive(sum),
         gpu_available |-> IF unified THEN detect_gpu_available_gb(p) ELSE None,
         gpu |-> IF some THEN gpus[1].name ELSE {}, gpu_count |-> count, unified |-> unified,
         backend |-> IF some THEN gpus[1].backend ELSE CpuBackend(p, cpu), gpus |-> gpus,
         cluster |-> FALSE, ddr_env |-> None, ddr_measured |-> measured_ram_bandwidth_gbps(p)]

SpecsOf(p, cpu, total) == SpecsWith(p, cpu, total, detect_all_gpus(p, total, cpu))

detect(p) ==
    LET cpu == detect_cpu_name(p) IN SpecsOf(p, cpu, apu_total_ram_gb(p, cpu))

(* The primary GPU has this much, and so many of it; the others no longer  *)
(* count.  Without a GPU there is one now.                                 *)
with_gpu_memory_override(s, vram) ==
    LET backend == IF s.cpu = "CpuArm" THEN "Metal" ELSE "Cuda"
        user    == {"user-specified gpu"}
    IN  IF s.gpus = <<>>
            THEN [s EXCEPT !.gpus = <<GpuInfo(user, vram, backend, 1, FALSE)>>, !.has_gpu = TRUE,
                           !.vram = vram, !.total_vram = vram, !.gpu = user, !.gpu_count = 1,
                           !.backend = backend, !.gpu_available = None]
        ELSE [s EXCEPT !.gpus[1].vram = vram, !.vram = vram, !.has_gpu = TRUE,
                       !.total_vram = vram * s.gpus[1].count, !.gpu_available = None]

with_ram_override(s, ram) ==
    LET sized == [s EXCEPT !.total_ram = ram, !.ram = (ram * 9) \div 10, !.gpu_available = None]
    IN  IF ~s.unified THEN sized
        ELSE [sized EXCEPT !.vram = ram, !.total_vram = ram,
                           !.gpus = MapSeq(@, LAMBDA g : IF g.unified THEN [g EXCEPT !.vram = ram]
                                                         ELSE g)]

with_cpu_core_override(s, cores) == [s EXCEPT !.cores = cores]

with_profile_capacity(s, ram, unified) ==
    LET gpu == IF unified /\ s.gpus = <<>> THEN with_gpu_memory_override(s, ram) ELSE s
    IN  with_ram_override([gpu EXCEPT !.unified = unified,
                                      !.gpus = MapSeq(@, LAMBDA g : [g EXCEPT !.unified = unified])],
                          ram)

-----------------------------------------------------------------------------
(* Profiles: [schema, name, slug_ok, match, ram, unified, gpu_bw, ddr,     *)
(* tflops, efficiency, factors, calibration]; keys it does not know are    *)
(* ignored.                                                               *)
check_range(value, max) == value > 0 /\ value <= max

Unset(value) == value = None

validate_name(profile) == profile.slug_ok

MAX_RAM == 16384 * 1024

validate(f) ==
    /\ f.schema = 1 /\ validate_name(f)
    /\ f.match # {}
    /\ check_range(f.ram, MAX_RAM)
    /\ \A x \in {f.gpu_bw, f.ddr, f.tflops} : Unset(x) \/ check_range(x, 100000)
    /\ Unset(f.efficiency) \/ check_range(f.efficiency, 100)
    /\ \A mode \in DOMAIN f.factors : check_range(f.factors[mode], 1000)
    /\ \A c \in f.calibration : c.model # {} /\ check_range(c.tps, 100000)
                                /\ c.mode \in DOMAIN RunModeFactors \cup {None}

check_name_matches_stem(f, stem) == f.name = stem

apply_to_specs(f, s) == with_profile_capacity(s, f.ram, f.unified)

apply_to_config(f, config) ==
    [config EXCEPT !.gpu_bw = orElse(f.gpu_bw, @), !.ddr = orElse(f.ddr, @),
                   !.tflops = orElse(f.tflops, @), !.efficiency = orElse(f.efficiency, @),
                   !.factors = f.factors @@ @]

(* Files [stem, content], content None when it cannot be read or parsed. *)
load_file(file) ==
    IF file.content = None THEN None
    ELSE IF validate(file.content) /\ check_name_matches_stem(file.content, file.stem)
        THEN file.content ELSE None

embedded(bundled) == {f \in bundled : validate(f)}

(* The user's profile replaces the bundled one of its name. *)
catalog_in(bundled, files) ==
    LET own == {load_file(x) : x \in files} \ {None}
    IN  own \cup {f \in embedded(bundled) : \A u \in own : u.name # f.name}

find(name, bundled, files) ==
    LET named == {f \in catalog_in(bundled, files) : f.name = name}
    IN  IF named = {} THEN None ELSE CHOOSE f \in named : TRUE

(* A selector is [path, name]: a file, or the name of a profile. *)
looks_like_path(selector) == selector.path # None

resolve(selector, bundled, files) ==
    IF looks_like_path(selector) THEN load_file(selector.path)
    ELSE find(selector.name, bundled, files)

-----------------------------------------------------------------------------
(* --ram before --memory, which so wins on unified memory; a value that    *)
(* does not parse (None) is ignored.  The API refuses RAM and cores of 0.  *)
parse_memory_size(size) ==
    CASE size[1] = None -> None
      [] size[1] # None /\ size[2] \in {"", "g", "gb", "gib"} -> size[1] * 1024
      [] size[1] # None /\ size[2] \in {"m", "mb", "mib"}     -> size[1]
      [] size[1] # None /\ size[2] \in {"t", "tb", "tib"}     -> size[1] * 1048576
      [] OTHER -> None

Override(s, value, With(_, _)) == IF value = None THEN s ELSE With(s, value)

detect_specs_from_size_overrides(p, o) ==
    LET size(x) == IF x = None THEN None ELSE parse_memory_size(x)
    IN  Override(Override(Override(detect(p), size(o.ram), with_ram_override),
                          size(o.memory), with_gpu_memory_override),
                 o.cores, with_cpu_core_override)

(* <<specs, configuration>>, or None: a profile that cannot be resolved    *)
(* ends the program.                                                       *)
WithProfile(specs, loaded) ==
    IF loaded = None THEN None
    ELSE <<apply_to_specs(loaded, specs), apply_to_config(loaded, CalcConfig)>>

SpecsAndConfig(specs, p, o) ==
    IF o.profile = None THEN <<specs, CalcConfig>>
    ELSE WithProfile(specs, resolve(o.profile, p.bundled, p.files))

detect_specs_and_config(p, o) == SpecsAndConfig(detect_specs_from_size_overrides(p, o), p, o)

detect_specs(p, o) == detect_specs_and_config(p, o)[1]

effective_specs(s, q) ==
    IF (q.ram # None /\ q.ram <= 0) \/ (q.vram # None /\ q.vram < 0) \/ q.cores = 0 THEN None
    ELSE Override(Override(Override(s, q.ram, with_ram_override),
                           q.vram, with_gpu_memory_override), q.cores, with_cpu_core_override)

=============================================================================
