--------------------------- MODULE EstimateProofs ---------------------------
(***************************************************************************)
(* Proofs about what llmfit estimates.                                     *)
(*                                                                         *)
(* About PlanPanel, for every set of machines, models, overrides, typed    *)
(* values and bounds: the cursor of each panel lies in its text; the plan  *)
(* that is shown is the estimator's answer for what the panel, the         *)
(* hardware and the configuration say now; and the upgrade a plan calls    *)
(* enough for Perfect is enough.                                           *)
(*                                                                         *)
(* About Fit, for every catalog, custom file, answer to an update, machine *)
(* and question: a row shows the quantization its memory was computed for; *)
(* what loads keeps loading with more memory; and the user's own models    *)
(* win over what the program embeds or an update cached.                   *)
(*                                                                         *)
(* The probes that detect the hardware stay opaque, but for the types of   *)
(* what they find; so do the speeds.                                       *)
(***************************************************************************)
EXTENDS PlanPanel, Fit, TLAPS, FiniteSetTheorems, NaturalsInduction, WellFoundedInduction

-----------------------------------------------------------------------------
(* Numbers and tables.                                                     *)

(* A set of numbers that is not empty has a least one. *)
LEMMA LeastOf ==
    ASSUME NEW S, S \subseteq Nat, S # {}
    PROVE  Min(S) \in S /\ \A i \in S : Min(S) <= i
<1> DEFINE Less == {ss \in Nat \X Nat : ss[1] < ss[2]}
<1>1. \E x \in S : \A y \in S : ~ (<<y, x>> \in Less)
  <2>1. IsWellFoundedOn(Less, Nat)
    BY NatLessThanWellFounded DEF OpToRel
  <2>2. QED
    BY <2>1, WFMin
<1>2. PICK x \in S : \A y \in S : ~ (<<y, x>> \in Less)
  BY <1>1
<1>3. ASSUME NEW y \in S PROVE x <= y
  <2>1. <<y, x>> \in Nat \X Nat /\ ~ (<<y, x>> \in Less)
    BY <1>2
  <2>2. ~ (y < x)
    BY <2>1
  <2>3. QED
    BY <2>2
<1>4. QED
  BY <1>2, <1>3 DEF Min

(* Products and quotients of memory, parameters and factors. *)
LEMMA Product == ASSUME NEW x \in Nat, NEW y \in Nat PROVE x * y \in Nat
OBVIOUS

(* A quotient of two numbers, the second not zero, is a number. *)
LEMMA Quotient == ASSUME NEW x \in Nat, NEW y \in Nat \ {0} PROVE x \div y \in Nat
OBVIOUS

(* A table answers with one of its values, or with the default. *)
LEMMA RuleValue ==
    ASSUME NEW rules, DOMAIN rules \subseteq Nat, NEW words, NEW default
    PROVE  \/ FirstRule(rules, words, default) = default
           \/ \E i \in DOMAIN rules : FirstRule(rules, words, default) = rules[i][2]
<1> DEFINE hits == {i \in DOMAIN rules : rules[i][1] \cap words # {}}
<1>1. CASE hits = {}
  BY <1>1 DEF FirstRule
<1>2. CASE hits # {}
  <2>1. hits \subseteq Nat
    OBVIOUS
  <2>2. Min(hits) \in hits
    BY <1>2, <2>1, LeastOf
  <2>3. QED
    BY <1>2, <2>2 DEF FirstRule
<1>3. QED
  BY <1>1, <1>2

(* The size of a quantization. *)
LEMMA BppIsNat == \A quant : quant_bpp(quant) \in Nat
BY SMTT(30) DEF quant_bpp

-----------------------------------------------------------------------------
(* The memory of a model.                                                  *)

Layouts == [full : Nat, linear : Nat] \cup {None}

(* What a name says of the layers is a layout, if it says something. *)
LEMMA NamedLayout == \A words : infer_attention_layout_from_name(words) \in Layouts
<1> SUFFICES ASSUME NEW words PROVE infer_attention_layout_from_name(words) \in Layouts
  OBVIOUS
<1> DEFINE L(f, l) == [full |-> f, linear |-> l]
           small == << <<{"-a95b"}, L(23, 69)>>, <<{"-a3b", "-a10b", "-a17b"}, L(10, 30)>> >>
           qwen  == FirstRule(small, words, L(16, 48))
           rules == << <<{"qwen3-next"}, L(10, 30)>>, <<{"qwen3.5", "qwen3.6", "qwen3.8"}, qwen>>,
                       <<{"jamba"}, L(4, 28)>>, <<{"zamba"}, L(2, 54)>>,
                       <<{"mamba", "rwkv"}, L(0, 1)>> >>
<1>1. \A f \in Nat, l \in Nat : L(f, l) \in Layouts
  BY DEF Layouts
<1>2. infer_attention_layout_from_name(words) = FirstRule(rules, words, None)
  BY DEF infer_attention_layout_from_name
<1> HIDE DEF L
<1>3. DOMAIN small = 1..2 /\ small[1][2] = L(23, 69) /\ small[2][2] = L(10, 30)
  OBVIOUS
<1> HIDE DEF small
<1>4. qwen \in Layouts
  <2> DEFINE default == L(16, 48)
  <2> HIDE DEF default
  <2>1. \/ FirstRule(small, words, default) = default
        \/ \E i \in DOMAIN small : FirstRule(small, words, default) = small[i][2]
    <3>1. DOMAIN small \subseteq Nat
      BY <1>3
    <3>2. QED
      BY <3>1, RuleValue
  <2>2. L(16, 48) \in Layouts /\ L(23, 69) \in Layouts /\ L(10, 30) \in Layouts
    BY <1>1
  <2>3. \A i \in 1..2 : i = 1 \/ i = 2
    OBVIOUS
  <2> HIDE DEF qwen
  <2>4. QED
    BY <1>3, <2>1, <2>2, <2>3 DEF qwen, default
<1> HIDE DEF qwen
<1>5. /\ DOMAIN rules = 1..5
      /\ rules[1][2] = L(10, 30) /\ rules[2][2] = qwen /\ rules[3][2] = L(4, 28)
      /\ rules[4][2] = L(2, 54) /\ rules[5][2] = L(0, 1)
  OBVIOUS
<1> HIDE DEF rules
<1>6. \/ FirstRule(rules, words, None) = None
      \/ \E i \in DOMAIN rules : FirstRule(rules, words, None) = rules[i][2]
  <2>1. DOMAIN rules \subseteq Nat
    BY <1>5
  <2>2. QED
    BY <2>1, RuleValue
<1>7. L(10, 30) \in Layouts /\ L(4, 28) \in Layouts /\ L(2, 54) \in Layouts /\ L(0, 1) \in Layouts
  BY <1>1
<1>8. \A i \in 1..5 : i = 1 \/ i = 2 \/ i = 3 \/ i = 4 \/ i = 5
  OBVIOUS
<1>9. None \in Layouts
  BY DEF Layouts
<1>10. QED
  BY <1>2, <1>4, <1>5, <1>6, <1>7, <1>8, <1>9

(* A layout for n layers has n of them, unless it is kept. *)
LEMMA NormalizedLayout ==
    ASSUME NEW l \in [full : Nat, linear : Nat], NEW n \in Nat
    PROVE  normalized_for_layers(l, n) \in [full : Nat, linear : Nat]
<1> DEFINE total == l.full + l.linear
           most  == (n * l.full + total \div 2) \div total
           full  == Min({n, most})
<1>1. total \in Nat
  OBVIOUS
<1>2. CASE total = 0
  BY <1>2 DEF normalized_for_layers
<1>3. CASE total # 0
  <2>1. most \in Nat
    <3>1. n * l.full \in Nat /\ total \div 2 \in Nat
      BY <1>1, Product, Quotient
    <3> DEFINE x == n * l.full + total \div 2
    <3>2. x \in Nat
      BY <3>1
    <3> HIDE DEF x, total
    <3>3. x \div total \in Nat
      BY <1>1, <1>3, <3>2, Quotient
    <3>4. QED
      BY <3>3 DEF x
  <2> HIDE DEF most
  <2>2. full \in Nat /\ full <= n
    <3>1. {n, most} \subseteq Nat
      BY <2>1
    <3>2. full \in {n, most} /\ \A i \in {n, most} : full <= i
      BY <3>1, LeastOf
    <3>3. QED
      BY <2>1, <3>2
  <2> HIDE DEF full
  <2>3. n - full \in Nat
    BY <2>2
  <2>4. normalized_for_layers(l, n) = l \/ normalized_for_layers(l, n) = [full |-> full, linear |-> n - full]
    BY <1>3 DEF normalized_for_layers, full, most
  <2>5. QED
    BY <2>2, <2>3, <2>4
<1>4. QED
  BY <1>2, <1>3

(* The layout of a model is one, or none. *)
LEMMA ModelLayout ==
    ASSUME NEW m, LlmModel(m)
    PROVE  effective_attention_layout(m) \in Layouts
<1>1. m.layout # None => m.layout \in Layouts
  BY DEF LlmModel, Layouts, Optional
<1> DEFINE l == orElse(m.layout, infer_attention_layout_from_name(m.words))
<1>2. l \in Layouts
  BY <1>1, NamedLayout DEF orElse
<1>3. m.layers = None \/ m.layers \in Nat
  BY DEF LlmModel, Optional
<1> HIDE DEF l
<1>4. PlausibleLayout(m, l) \in Layouts
  <2>1. CASE l = None
    BY <2>1 DEF PlausibleLayout, Layouts
  <2>2. CASE l # None
    <3>1. l \in [full : Nat, linear : Nat]
      BY <1>2, <2>2 DEF Layouts
    <3>2. m.layers \in Nat => normalized_for_layers(l, m.layers) \in Layouts
      BY <3>1, NormalizedLayout DEF Layouts
    <3>3. QED
      BY <1>2, <1>3, <2>2, <3>2 DEF PlausibleLayout, Layouts
  <2>3. QED
    BY <2>1, <2>2
<1>5. QED
  BY <1>4 DEF effective_attention_layout, l

(* The KV cache of a model, as exact as the catalog allows. *)
LEMMA CacheIsNat ==
    ASSUME NEW m, LlmModel(m), NEW ctx \in Nat, NEW kv \in ToSet(KvQuants)
    PROVE  kv_cache_gb(m, ctx, kv) \in Nat
<1> DEFINE layout == effective_attention_layout(m)
           bytes  == bytes_per_element(kv)
           heads  == orElse(m.kv_heads, orElse(m.heads, 8))
           full   == IF layout = None THEN m.layers ELSE layout.full
           rough  == (params_b(m) * ctx * 84) \div 10000
           share  == IF layout = None \/ layout.full + layout.linear = 0 THEN rough
                     ELSE (rough * layout.full) \div (layout.full + layout.linear)
<1>1. bytes \in Nat
  <2>1. kv \in {"fp16", "fp8", "q8_0", "q4_0", "tq"}
    BY DEF KvQuants, ToSet
  <2>2. QED
    BY <2>1 DEF bytes_per_element
<1>2. layout \in Layouts
  BY ModelLayout
<1>3. heads \in Nat
  BY DEF LlmModel, Optional, orElse
<1>4. params_b(m) \in Nat
  BY DEF LlmModel, Optional, orElse, params_b
<1>5. kv_cache_gb(m, ctx, kv) = IF m.layers # None /\ m.head_dim # None
            THEN (2 * heads * m.head_dim * full * ctx * bytes) \div (100 * 1024)
        ELSE (share * bytes) \div 200
  BY DEF kv_cache_gb, CacheOf
<1>6. ASSUME m.layers # None, m.head_dim # None
      PROVE  (2 * heads * m.head_dim * full * ctx * bytes) \div (100 * 1024) \in Nat
  <2>1. m.head_dim \in Nat /\ m.layers \in Nat
    BY <1>6 DEF LlmModel, Optional
  <2>2. full \in Nat
    BY <1>2, <2>1 DEF Layouts
  <2> HIDE DEF full, heads, bytes
  <2>3. 2 * heads \in Nat
    BY <1>3
  <2>4. 2 * heads * m.head_dim \in Nat
    BY <2>1, <2>3, Product
  <2>5. 2 * heads * m.head_dim * full \in Nat
    BY <2>2, <2>4, Product
  <2>6. 2 * heads * m.head_dim * full * ctx \in Nat
    BY <2>5, Product
  <2>7. 2 * heads * m.head_dim * full * ctx * bytes \in Nat
    BY <1>1, <2>6, Product
  <2>8. 100 * 1024 \in Nat \ {0}
    OBVIOUS
  <2>9. QED
    BY <2>7, <2>8, Quotient
<1>7. rough \in Nat
  <2>1. params_b(m) * ctx \in Nat
    BY <1>4, Product
  <2>2. params_b(m) * ctx * 84 \in Nat
    BY <2>1, Product
  <2>3. QED
    BY <2>2, Quotient
<1> HIDE DEF rough
<1>8. share \in Nat
  <2>1. CASE layout = None \/ layout.full + layout.linear = 0
    BY <1>7, <2>1
  <2>2. CASE ~ (layout = None \/ layout.full + layout.linear = 0)
    <3>1. layout.full \in Nat /\ layout.full + layout.linear \in Nat \ {0}
      BY <1>2, <2>2 DEF Layouts
    <3>2. rough * layout.full \in Nat
      BY <1>7, <3>1, Product
    <3>3. QED
      BY <2>2, <3>1, <3>2, Quotient
  <2>3. QED
    BY <2>1, <2>2
<1>9. (share * bytes) \div 200 \in Nat
  <2> HIDE DEF share, bytes
  <2>1. share * bytes \in Nat
    BY <1>1, <1>8, Product
  <2>2. QED
    BY <2>1, Quotient
<1> HIDE DEF share, bytes, full, heads
<1>10. QED
  BY <1>5, <1>6, <1>9

(* The memory of a model: its weights, its cache and half a GB. *)
LEMMA MemoryIsNat ==
    ASSUME NEW m, LlmModel(m), NEW quant, NEW ctx \in Nat, NEW kv \in ToSet(KvQuants)
    PROVE  /\ estimate_memory_gb_with_kv(m, quant, ctx, kv) \in Nat
           /\ estimate_memory_gb_with_kv(m, quant, ctx, kv) >= 512
<1>1. params_b(m) \in Nat
  BY DEF LlmModel, Optional, orElse, params_b
<1>2. Weights(m, quant) \in Nat
  <2> DEFINE bits == params_b(m) * quant_bpp(quant)
             gb   == bits \div 100
  <2>1. bits \in Nat
    BY <1>1, BppIsNat, Product
  <2> HIDE DEF bits
  <2>2. gb \in Nat
    BY <2>1, Quotient
  <2> HIDE DEF gb
  <2>3. gb * 128 \in Nat
    BY <2>2
  <2>4. (gb * 128) \div 125 \in Nat
    BY <2>3, Quotient
  <2>5. Weights(m, quant) = (gb * 128) \div 125
    BY DEF Weights, gb, bits
  <2>6. QED
    BY <2>4, <2>5
<1>3. kv_cache_gb(m, ctx, kv) \in Nat
  BY CacheIsNat
<1>4. QED
  BY <1>2, <1>3 DEF estimate_memory_gb_with_kv

-----------------------------------------------------------------------------
(* The machines.                                                          *)

(* The machine: typed, and without a GPU its backend is the processor's.   *)
Machine(s) == SystemSpecs(s) /\ (s.gpus = <<>> => s.backend # "Cuda")

(* What is detected is a machine: SpecsOf gives a list of no GPUs the      *)
(* backend of the processor.                                               *)
LEMMA Detected ==
    ASSUME NEW p \in {machine.probe : machine \in Machines}
    PROVE  Machine(detect(p))
<1>1. SystemSpecs(detect(p))
  BY MachinesAssumption
<1>2. detect(p).gpus = <<>> => detect(p).backend # "Cuda"
  BY DEF detect, SpecsOf, SpecsWith, CpuBackend
<1>3. QED
  BY <1>1, <1>2 DEF Machine

(* The GPUs of a machine, each changed in what is not its count. *)
LEMMA GpusMapped ==
    ASSUME NEW s, GpuInfos(s), NEW t, DOMAIN t = 1..Len(s),
           t = [i \in DOMAIN t |-> t[i]],
           \A i \in 1..Len(s) : "count" \in DOMAIN t[i] /\ t[i].count = s[i].count
    PROVE  GpuInfos(t) /\ (t = <<>> <=> s = <<>>)
<1>1. Len(s) \in Nat /\ DOMAIN s = 1..Len(s)
  BY DEF GpuInfos
<1>2. t \in [1..Len(s) -> ToSet(t)]
  BY DEF ToSet
<1>3. t \in Seq(ToSet(t)) /\ Len(t) = Len(s)
  BY <1>1, <1>2
<1>4. \A i \in 1..Len(s) : s[i] \in ToSet(s)
  BY <1>1 DEF ToSet
<1>5. ASSUME NEW g \in ToSet(t) PROVE "count" \in DOMAIN g /\ g.count \in Nat \ {0}
  <2>1. PICK i \in 1..Len(s) : g = t[i]
    BY DEF ToSet
  <2>2. QED
    BY <1>4, <2>1 DEF GpuInfos
<1>6. QED
  BY <1>1, <1>3, <1>5 DEF GpuInfos

(* With its VRAM overridden a machine has a GPU, and at least that memory. *)
LEMMA WithVram ==
    ASSUME NEW s, Machine(s), NEW vram \in Nat
    PROVE  LET more == with_gpu_memory_override(s, vram)
           IN  /\ Machine(more) /\ more.has_gpu = TRUE
               /\ AvailableVram(more) >= vram
               /\ s.backend = "Cuda" => more.backend = "Cuda"
               /\ more.unified = s.unified
<1> DEFINE more == with_gpu_memory_override(s, vram)
<1>1. SystemSpecs(s)
  BY DEF Machine
<1>2. CASE s.gpus = <<>>
  <2> DEFINE backend == IF s.cpu = "CpuArm" THEN "Metal" ELSE "Cuda"
             gpu == GpuInfo({"user-specified gpu"}, vram, backend, 1, FALSE)
  <2>1. /\ DOMAIN more = DOMAIN s /\ more.gpus = <<gpu>> /\ more.has_gpu = TRUE
        /\ more.vram = vram /\ more.total_vram = vram /\ more.unified = s.unified
        /\ more.ram = s.ram /\ more.total_ram = s.total_ram /\ more.cores = s.cores
    BY <1>1, <1>2 DEF with_gpu_memory_override, SystemSpecs
  <2>2. "count" \in DOMAIN gpu /\ gpu.count = 1
    BY DEF GpuInfo
  <2> HIDE DEF gpu, more
  <2>3. GpuInfos(<<gpu>>)
    <3>1. ToSet(<<gpu>>) = {gpu}
      BY DEF ToSet
    <3>2. QED
      BY <2>2, <3>1 DEF GpuInfos
  <2>4. <<gpu>> # <<>>
    OBVIOUS
  <2>5. AvailableVram(more) = vram
    BY <2>1, NoneAssumption DEF AvailableVram, orElse
  <2>6. SystemSpecs(more)
    BY <1>1, <2>1, <2>3 DEF SystemSpecs, Optional
  <2>7. QED
    BY <1>2, <2>1, <2>4, <2>5, <2>6 DEF Machine, more
<1>3. CASE s.gpus # <<>>
  <2>1. s.gpus \in Seq(ToSet(s.gpus)) /\ s.gpus[1].count \in Nat \ {0}
    BY <1>1, <1>3 DEF SystemSpecs, GpuInfos, ToSet
  <2> DEFINE n    == s.gpus[1].count
             gpus == [s.gpus EXCEPT ![1].vram = vram]
  <2>2. /\ DOMAIN more = DOMAIN s /\ more.gpus = gpus /\ more.has_gpu = TRUE
        /\ more.vram = vram /\ more.total_vram = vram * n /\ more.unified = s.unified
        /\ more.ram = s.ram /\ more.total_ram = s.total_ram /\ more.cores = s.cores
        /\ more.backend = s.backend
    BY <1>1, <1>3 DEF with_gpu_memory_override, SystemSpecs
  <2>3. GpuInfos(gpus) /\ gpus # <<>>
    <3>1. GpuInfos(s.gpus)
      BY <1>1 DEF SystemSpecs
    <3>2. DOMAIN gpus = 1..Len(s.gpus)
      BY <2>1
    <3>3. \A i \in 1..Len(s.gpus) : "count" \in DOMAIN gpus[i] /\ gpus[i].count = s.gpus[i].count
      BY <2>1, <3>1 DEF GpuInfos, ToSet
    <3>4. gpus = [i \in DOMAIN gpus |-> gpus[i]]
      OBVIOUS
    <3> HIDE DEF gpus
    <3>5. QED
      BY <1>3, <3>1, <3>2, <3>3, <3>4, GpusMapped
  <2>4. vram * n \in Nat /\ vram * n >= vram
    <3> HIDE DEF n
    <3>1. \A x \in Nat, y \in Nat \ {0} : x * y \in Nat /\ x * y >= x
      BY SMT
    <3>2. n \in Nat \ {0}
      BY <2>1 DEF n
    <3>3. QED
      BY <3>1, <3>2
  <2> HIDE DEF more, gpus, n
  <2>5. AvailableVram(more) = vram * n
    BY <2>2, <2>4, NoneAssumption DEF AvailableVram, orElse
  <2>6. SystemSpecs(more)
    BY <1>1, <2>2, <2>3, <2>4 DEF SystemSpecs, Optional
  <2>7. QED
    BY <2>2, <2>3, <2>4, <2>5, <2>6 DEF Machine, more
<1>4. QED
  BY <1>2, <1>3

(* With its RAM overridden a machine is a machine, unified memory and all. *)
LEMMA WithRam ==
    ASSUME NEW s, Machine(s), NEW ram \in Nat
    PROVE  Machine(with_ram_override(s, ram))
<1> DEFINE less == (ram * 9) \div 10
           gpus == [i \in 1..Len(s.gpus) |->
                       IF s.gpus[i].unified THEN [s.gpus[i] EXCEPT !.vram = ram] ELSE s.gpus[i]]
           sized == [s EXCEPT !.total_ram = ram, !.ram = less, !.gpu_available = None]
           t     == with_ram_override(s, ram)
<1>1. SystemSpecs(s) /\ GpuInfos(s.gpus)
  BY DEF Machine, SystemSpecs
<1>2. less \in Nat
  OBVIOUS
<1> HIDE DEF less
<1>3. /\ DOMAIN sized = DOMAIN s /\ sized.ram = less /\ sized.total_ram = ram
      /\ \A f \in {"cores", "vram", "total_vram", "unified", "backend", "gpus"} : sized[f] = s[f]
  BY <1>1 DEF SystemSpecs
<1>4. CASE ~s.unified
  <2>1. t = sized
    BY <1>4 DEF with_ram_override, less
  <2> HIDE DEF sized, t
  <2>2. QED
    BY <1>1, <1>2, <1>3, <2>1 DEF Machine, SystemSpecs, t
<1>5. CASE s.unified
  <2>1. t = [sized EXCEPT !.vram = ram, !.total_vram = ram, !.gpus = gpus]
    BY <1>3, <1>5 DEF with_ram_override, MapSeq, less
  <2> HIDE DEF sized
  <2>2. GpuInfos(gpus) /\ (gpus = <<>> <=> s.gpus = <<>>)
    <3>1. Len(s.gpus) \in Nat
      BY <1>1 DEF GpuInfos
    <3>2. \A i \in 1..Len(s.gpus) : "count" \in DOMAIN s.gpus[i]
      BY <1>1 DEF GpuInfos, ToSet
    <3>3. \A i \in 1..Len(s.gpus) : "count" \in DOMAIN gpus[i] /\ gpus[i].count = s.gpus[i].count
      BY <3>2
    <3>4. DOMAIN gpus = 1..Len(s.gpus) /\ gpus = [i \in DOMAIN gpus |-> gpus[i]]
      OBVIOUS
    <3> HIDE DEF gpus
    <3>5. QED
      BY <1>1, <3>3, <3>4, GpusMapped
  <2> HIDE DEF gpus
  <2>3. /\ DOMAIN t = DOMAIN s /\ t.ram = less /\ t.total_ram = ram /\ t.gpus = gpus
        /\ t.vram = ram /\ t.total_vram = ram
        /\ \A f \in {"cores", "unified", "backend"} : t[f] = s[f]
    BY <1>1, <1>3, <2>1 DEF SystemSpecs
  <2> HIDE DEF t
  <2>4. QED
    BY <1>1, <1>2, <2>2, <2>3 DEF Machine, SystemSpecs, Optional, t
<1>6. QED
  BY <1>4, <1>5

(* So it is with other cores. *)
LEMMA WithCores ==
    ASSUME NEW s, Machine(s), NEW cores \in Nat
    PROVE  Machine(with_cpu_core_override(s, cores))
BY DEF Machine, SystemSpecs, with_cpu_core_override

(* A profile says how much memory there is and whether it is shared. *)
LEMMA WithCapacity ==
    ASSUME NEW s, Machine(s), NEW ram \in Nat, NEW unified \in BOOLEAN
    PROVE  Machine(with_profile_capacity(s, ram, unified))
<1> DEFINE gpu  == IF unified /\ s.gpus = <<>> THEN with_gpu_memory_override(s, ram) ELSE s
           gpus == [i \in 1..Len(gpu.gpus) |-> [gpu.gpus[i] EXCEPT !.unified = unified]]
           t    == [gpu EXCEPT !.unified = unified, !.gpus = gpus]
<1>1. Machine(gpu)
  BY WithVram
<1>2. with_profile_capacity(s, ram, unified) = with_ram_override(t, ram)
  <2>1. "unified" \in DOMAIN gpu /\ "gpus" \in DOMAIN gpu
    BY <1>1 DEF Machine, SystemSpecs
  <2>2. QED
    BY <2>1 DEF with_profile_capacity, MapSeq
<1> HIDE DEF gpu
<1>3. GpuInfos(gpus) /\ (gpus = <<>> <=> gpu.gpus = <<>>)
  <2>1. GpuInfos(gpu.gpus)
    BY <1>1 DEF Machine, SystemSpecs
  <2>2. \A i \in 1..Len(gpu.gpus) : "count" \in DOMAIN gpu.gpus[i]
    BY <2>1 DEF GpuInfos, ToSet
  <2>3. \A i \in 1..Len(gpu.gpus) : "count" \in DOMAIN gpus[i] /\ gpus[i].count = gpu.gpus[i].count
    BY <2>2
  <2>4. DOMAIN gpus = 1..Len(gpu.gpus) /\ gpus = [i \in DOMAIN gpus |-> gpus[i]]
    OBVIOUS
  <2> HIDE DEF gpus
  <2>5. QED
    BY <2>1, <2>3, <2>4, GpusMapped
<1> HIDE DEF gpus
<1>4. Machine(t)
  <2>1. /\ DOMAIN t = DOMAIN gpu /\ t.unified = unified /\ t.gpus = gpus
        /\ \A f \in {"ram", "total_ram", "cores", "vram", "total_vram", "backend"} : t[f] = gpu[f]
    BY <1>1 DEF Machine, SystemSpecs
  <2> HIDE DEF t
  <2>2. QED
    BY <1>1, <1>3, <2>1 DEF Machine, SystemSpecs
<1> HIDE DEF t
<1>5. QED
  BY <1>2, <1>4, WithRam

(* A size of the command line is a number of megabytes, or is ignored. *)
LEMMA SizeIsNat ==
    ASSUME NEW x, Size(x), x # None
    PROVE  parse_memory_size(x) \in Optional(Nat)
<1> DEFINE n == x[1]
<1>1. n = None \/ n \in Nat
  BY DEF Size, Optional
<1> HIDE DEF n
<1>2. parse_memory_size(x) \in {None, n, n * 1024, n * 1048576}
  BY SMT DEF parse_memory_size, n
<1>3. n # None => {n, n * 1024, n * 1048576} \subseteq Nat
  BY <1>1
<1>4. n = None => parse_memory_size(x) = None
  BY SMT DEF parse_memory_size, n
<1>5. QED
  BY <1>2, <1>3, <1>4 DEF Optional

(* A profile that is found has been validated. *)
LEMMA FoundProfile ==
    ASSUME NEW f, HardwareProfile(f), f # None, validate(f)
    PROVE  f.ram \in Nat /\ f.unified \in BOOLEAN
BY DEF HardwareProfile, validate, check_range

(* A profile that is resolved has a capacity, from a file or a bundle. *)
LEMMA Resolved ==
    ASSUME NEW p \in {machine.probe : machine \in Machines}, NEW o \in Overrides,
           o.profile # None,
           resolve(o.profile, p.bundled, p.files) # None
    PROVE  LET f == resolve(o.profile, p.bundled, p.files)
           IN  f.ram \in Nat /\ f.unified \in BOOLEAN
<1> DEFINE f == resolve(o.profile, p.bundled, p.files)
<1>1. ASSUME NEW x, HardwareProfile(x.content), load_file(x) # None
      PROVE  load_file(x).ram \in Nat /\ load_file(x).unified \in BOOLEAN
  <2>1. load_file(x) = x.content /\ x.content # None /\ validate(x.content)
    BY <1>1 DEF load_file
  <2>2. QED
    BY <1>1, <2>1, FoundProfile
<1>2. \A g \in p.bundled \cup {x.content : x \in p.files} : HardwareProfile(g)
  BY MachinesAssumption
<1>3. CASE o.profile.path # None
  <2>1. HardwareProfile(o.profile.path.content)
    BY <1>3, OverridesAssumption
  <2>2. f = load_file(o.profile.path)
    BY <1>3 DEF resolve, looks_like_path
  <2>3. QED
    BY <1>1, <2>1, <2>2
<1>4. CASE o.profile.path = None
  <2> DEFINE name  == o.profile.name
             named == {g \in catalog_in(p.bundled, p.files) : g.name = name}
  <2>1. f = find(name, p.bundled, p.files)
    BY <1>4 DEF resolve, looks_like_path
  <2>2. f \in named
    BY <2>1 DEF find
  <2>3. \/ \E x \in p.files : f = load_file(x) /\ load_file(x) # None
        \/ f \in p.bundled /\ validate(f)
    BY <2>2 DEF catalog_in, embedded
  <2>4. CASE \E x \in p.files : f = load_file(x) /\ load_file(x) # None
    <3>1. PICK x \in p.files : f = load_file(x) /\ load_file(x) # None
      BY <2>4
    <3>2. HardwareProfile(x.content)
      BY <1>2
    <3> HIDE DEF f
    <3>3. QED
      BY <1>1, <3>1, <3>2 DEF f
  <2>5. CASE f \in p.bundled /\ validate(f)
    BY <1>2, <2>5, FoundProfile
  <2>6. QED
    BY <2>3, <2>4, <2>5
<1>5. QED
  BY <1>3, <1>4

(* Whatever the overrides, what a program starts with is a machine. *)
LEMMA StartedOnMachine ==
    ASSUME NEW p \in {machine.probe : machine \in Machines}, NEW o \in Overrides,
           detect_specs_and_config(p, o) # None
    PROVE  Machine(detect_specs_and_config(p, o)[1])
<1> DEFINE size(x) == IF x = None THEN None ELSE parse_memory_size(x)
           With(x, value, t) == IF value = None THEN x ELSE t
           ram   == With(detect(p), size(o.ram), with_ram_override(detect(p), size(o.ram)))
           vram  == With(ram, size(o.memory), with_gpu_memory_override(ram, size(o.memory)))
           cores == With(vram, o.cores, with_cpu_core_override(vram, o.cores))
<1>1. Size(o.ram) /\ Size(o.memory) /\ o.cores \in Optional(Nat)
  BY OverridesAssumption
<1>2. size(o.ram) \in Optional(Nat) /\ size(o.memory) \in Optional(Nat)
  BY <1>1, SizeIsNat DEF Optional
<1> HIDE DEF size
<1>3. Machine(ram)
  BY <1>2, Detected, WithRam DEF Optional
<1> HIDE DEF ram
<1>4. Machine(vram)
  BY <1>2, <1>3, WithVram DEF Optional
<1> HIDE DEF vram
<1>5. Machine(cores)
  BY <1>1, <1>4, WithCores DEF Optional
<1>6. detect_specs_from_size_overrides(p, o) = cores
  BY DEF detect_specs_from_size_overrides, Override, size, ram, vram
<1> HIDE DEF cores
<1>7. CASE o.profile = None
  BY <1>5, <1>6, <1>7 DEF detect_specs_and_config, SpecsAndConfig
<1>8. CASE o.profile # None
  <2> DEFINE f == resolve(o.profile, p.bundled, p.files)
  <2>1. f # None /\ detect_specs_and_config(p, o)[1] = with_profile_capacity(cores, f.ram, f.unified)
    BY <1>6, <1>8 DEF detect_specs_and_config, SpecsAndConfig, WithProfile, apply_to_specs
  <2>2. f.ram \in Nat /\ f.unified \in BOOLEAN
    BY <1>8, <2>1, Resolved
  <2> HIDE DEF f
  <2>3. QED
    BY <1>5, <2>1, <2>2, WithCapacity
<1>9. QED
  BY <1>7, <1>8

(* So is what a request to the API replaces of it, if it is accepted. *)
LEMMA EffectiveMachine ==
    ASSUME NEW s, Machine(s), NEW q \in ApiChoices, effective_specs(s, q) # None
    PROVE  Machine(effective_specs(s, q))
<1> DEFINE With(x, value, t) == IF value = None THEN x ELSE t
           ram   == With(s, q.ram, with_ram_override(s, q.ram))
           vram  == With(ram, q.vram, with_gpu_memory_override(ram, q.vram))
           cores == With(vram, q.cores, with_cpu_core_override(vram, q.cores))
<1>1. q.ram \in Optional(Nat) /\ q.vram \in Optional(Nat) /\ q.cores \in Optional(Nat)
  BY AskedAssumption DEF effective_specs, Optional
<1>2. Machine(ram)
  BY <1>1, WithRam DEF Optional
<1> HIDE DEF ram
<1>3. Machine(vram)
  BY <1>1, <1>2, WithVram DEF Optional
<1> HIDE DEF vram
<1>4. Machine(cores)
  BY <1>1, <1>3, WithCores DEF Optional
<1>5. effective_specs(s, q) = cores
  BY DEF effective_specs, Override, ram, vram
<1>6. QED
  BY <1>4, <1>5

(* Simulated hardware. *)
LEMMA SimulatedMachine ==
    ASSUME NEW s, Machine(s), NEW ram \in Nat, NEW vram \in Nat, NEW cores \in Nat
    PROVE  Machine(with_cpu_core_override(with_gpu_memory_override(with_ram_override(s, ram), vram),
                                          cores))
<1>1. Machine(with_ram_override(s, ram))
  BY WithRam
<1>2. Machine(with_gpu_memory_override(with_ram_override(s, ram), vram))
  BY <1>1, WithVram
<1>3. QED
  BY <1>2, WithCores

-----------------------------------------------------------------------------
(* The upgrade.                                                            *)

(* Minimum and maximum of two numbers. *)
LEMMA MaxOfTwo ==
    ASSUME NEW x \in Nat, NEW y \in Nat
    PROVE  Max({x, y}) \in Nat /\ Max({x, y}) >= x /\ Max({x, y}) >= y
<1>1. \E z \in {x, y} : \A w \in {x, y} : z >= w
  OBVIOUS
<1>2. QED
  BY <1>1 DEF Max

(* A request that asks for no speed, as the programs read it. *)
Readable(r) ==
    /\ r.context \in Nat /\ r.target = None
    /\ r.kv \in ToSet(KvQuants) \cup {None}

(* The memory of a request. *)
Memory(m, r) ==
    LET c == Completed(m, r) IN estimate_memory_gb_with_kv(m, c.quant, c.context, c.kv)

(* It is a number, and at least the half GB of the runtime. *)
LEMMA RequestMemory ==
    ASSUME NEW m, LlmModel(m), NEW r, Readable(r)
    PROVE  Memory(m, r) \in Nat /\ Memory(m, r) >= 512
<1>1. "fp16" \in ToSet(KvQuants)
  <2>1. DOMAIN KvQuants = 1..5 /\ KvQuants[1] = "fp16"
    BY DEF KvQuants
  <2>2. QED
    BY <2>1 DEF ToSet
<1>2. /\ Completed(m, r).kv \in ToSet(KvQuants)
      /\ Completed(m, r).context \in Nat
  BY <1>1 DEF Completed, Readable, orElse
<1>3. QED
  BY <1>2, MemoryIsNat DEF Memory

(* The memory the plan recommends for the GPU. *)
RecVram(m, mem) == Max({m.recommended, (mem * 12) \div 10})

(* It covers the request and the model's own recommendation. *)
LEMMA RecVramIsEnough ==
    ASSUME NEW m, LlmModel(m), NEW mem \in Nat
    PROVE  RecVram(m, mem) \in Nat /\ RecVram(m, mem) >= mem /\ RecVram(m, mem) >= m.recommended
<1> DEFINE more == (mem * 12) \div 10
<1>1. more \in Nat /\ more >= mem
  OBVIOUS
<1>2. m.recommended \in Nat
  BY DEF LlmModel
<1> HIDE DEF more
<1>3. QED
  BY <1>1, <1>2, MaxOfTwo DEF RecVram, more

(* The three paths of a plan without a target speed. *)
Paths(m, r, s, config) ==
    MapSeq(PlanRunPath, LAMBDA path : build_path_estimate(m, Completed(m, r), path, s, config))

(* Four cores do when no speed is asked for: the GPU path is possible, and *)
(* has the memory and the recommended memory of the request.               *)
LEMMA GpuIsFirst ==
    ASSUME NEW m, LlmModel(m), NEW r, Readable(r), NEW s, NEW config
    PROVE  LET paths == Paths(m, r, s, config)
           IN  /\ DOMAIN paths = 1..3
               /\ paths[1].feasible = TRUE /\ paths[1].path = "Gpu"
               /\ paths[1].minimum.vram = Memory(m, r)
               /\ paths[1].recommended.vram = RecVram(m, Memory(m, r))
               /\ paths[1].fit = fit_level_for("Gpu", Memory(m, r), AvailableVram(s),
                                               RecVram(m, Memory(m, r)))
<1> DEFINE paths == Paths(m, r, s, config)
           c     == Completed(m, r)
           mem   == Memory(m, r)
<1>1. DOMAIN PlanRunPath = 1..3 /\ Len(PlanRunPath) = 3 /\ PlanRunPath[1] = "Gpu"
  BY DEF PlanRunPath
<1>2. DOMAIN paths = 1..3 /\ paths[1] = build_path_estimate(m, c, "Gpu", s, config)
  BY <1>1 DEF Paths, MapSeq
<1>3. c.target = None
  BY DEF Completed, Readable
<1>4. minimum_cores_for_target(m, c.quant, default_gpu_backend(s), "Gpu", c.target, config) = 4
  BY <1>3 DEF minimum_cores_for_target
<1>5. 4 # None
  BY NoneAssumption
<1>6. paths[1] = GpuPath(m, c.quant, mem, 4, s, config)
  BY <1>2, <1>4, <1>5 DEF build_path_estimate, PathWith, Memory
<1> HIDE DEF paths, c, mem
<1>7. QED
  BY <1>2, <1>6 DEF GpuPath, Feasible, Needs, RecVram, paths, c, mem

(* On a machine with the recommended memory the GPU is enough for Perfect. *)
LEMMA PerfectLevel ==
    ASSUME NEW mem \in Nat, NEW rec \in Nat, NEW available \in Nat, mem <= available, rec <= available
    PROVE  fit_level_for("Gpu", mem, available, rec) = "Perfect"
BY DEF fit_level_for

(* No other path is perfect: of the levels on a machine the GPU's is best. *)
LEMMA OthersAreNotPerfect ==
    ASSUME NEW path \in {"CpuOffload", "CpuOnly"}, NEW mem \in Nat, NEW available, NEW rec
    PROVE  fit_level_for(path, mem, available, rec) \in {"Good", "Marginal", "TooTight"}
BY DEF fit_level_for

(* With all the recommended memory the best path today is the GPU's, and  *)
(* it is perfect.                                                          *)
LEMMA CurrentIsPerfect ==
    ASSUME NEW m, LlmModel(m), NEW r, Readable(r), NEW s, Machine(s), NEW config,
           s.has_gpu = TRUE, AvailableVram(s) \in Nat,
           AvailableVram(s) >= RecVram(m, Memory(m, r))
    PROVE  LET current == evaluate_current(m, Completed(m, r), s, config)
           IN  current.fit = "Perfect" /\ current.mode = "Gpu"
<1> DEFINE c    == Completed(m, r)
           mem  == estimate_memory_gb_with_kv(m, c.quant, c.context, c.kv)
           pool(path) == IF path = "Gpu" THEN AvailableVram(s) ELSE s.ram
           gpu  == s.has_gpu /\ AvailableVram(s) > 0
           asked == CASE gpu /\ ~s.unified -> PlanRunPath
                      [] gpu /\ s.unified  -> <<"Gpu", "CpuOnly">>
                      [] OTHER             -> <<"CpuOnly">>
           status == [i \in DOMAIN asked |->
              [fit |-> fit_level_for(asked[i], mem, pool(asked[i]), m.recommended), mode |-> asked[i],
               tps |-> estimate_tps_with_gpu(m, c.quant, s.backend, asked[i], s.cores,
                                             IF asked[i] = "CpuOnly" THEN None ELSE s, config)]]
           fast == {i \in DOMAIN asked : c.target = None \/ status[i].tps >= c.target}
<1>1. mem \in Nat /\ mem >= 512 /\ mem = Memory(m, r)
  BY RequestMemory DEF Memory
<1>2. RecVram(m, mem) \in Nat /\ RecVram(m, mem) >= mem /\ RecVram(m, mem) >= m.recommended
  BY <1>1, RecVramIsEnough
<1>3. m.recommended \in Nat
  BY DEF LlmModel
<1>4. gpu = TRUE
  BY <1>1, <1>2
<1>5. /\ DOMAIN asked \in {1..2, 1..3} /\ asked[1] = "Gpu"
      /\ \A i \in DOMAIN asked \ {1} : asked[i] \in {"CpuOffload", "CpuOnly"}
  <2>1. s.unified \in BOOLEAN
    BY DEF Machine, SystemSpecs
  <2>2. CASE s.unified = TRUE
    <3>1. asked = <<"Gpu", "CpuOnly">>
      BY <1>4, <2>2
    <3> HIDE DEF asked
    <3>2. QED
      BY <3>1
  <2>3. CASE s.unified = FALSE
    <3>1. asked = PlanRunPath
      BY <1>4, <2>3
    <3> HIDE DEF asked
    <3>2. DOMAIN asked = 1..3 /\ asked[1] = "Gpu" /\ asked[2] = "CpuOffload" /\ asked[3] = "CpuOnly"
      BY <3>1 DEF PlanRunPath
    <3>3. \A i \in 1..3 : i = 1 \/ i = 2 \/ i = 3
      OBVIOUS
    <3>4. QED
      BY <3>2, <3>3
  <2>4. QED
    BY <2>1, <2>2, <2>3
<1>6. evaluate_current(m, c, s, config) = RankedFirst(status, fast)
  BY DEF evaluate_current
<1> HIDE DEF mem, gpu, asked
<1>7. fast = DOMAIN asked
  BY DEF Completed, Readable
<1>8. \A i \in DOMAIN asked : /\ status[i].mode = asked[i]
                              /\ status[i].fit = fit_level_for(asked[i], mem, pool(asked[i]), m.recommended)
  OBVIOUS
<1>9. status[1].mode = "Gpu" /\ status[1].fit = "Perfect"
  <2>1. m.recommended <= AvailableVram(s) /\ mem <= AvailableVram(s)
    BY <1>1, <1>2, <1>3
  <2>2. fit_level_for("Gpu", mem, AvailableVram(s), m.recommended) = "Perfect"
    BY <1>1, <1>3, <2>1, PerfectLevel
  <2>3. 1 \in DOMAIN asked /\ pool(asked[1]) = AvailableVram(s)
    BY <1>5
  <2> HIDE DEF status, pool
  <2>4. QED
    BY <1>5, <1>8, <2>2, <2>3
<1>10. \A i \in DOMAIN asked \ {1} : status[i].fit \in {"Good", "Marginal", "TooTight"}
  BY <1>1, <1>5, <1>8, OthersAreNotPerfect
<1> HIDE DEF status, fast, pool
<1>11. RankedFirst(status, fast) = status[1]
  <2> DEFINE better(i, j) == \/ LevelRank[status[i].fit] < LevelRank[status[j].fit]
                             \/ LevelRank[status[i].fit] = LevelRank[status[j].fit] /\ i < j
             best == CHOOSE i \in fast : \A j \in fast \ {i} : better(i, j)
  <2>1. LevelRank[status[1].fit] = 1 /\ 1 \in fast
    BY <1>5, <1>7, <1>9 DEF LevelRank
  <2>2. \A i \in fast \ {1} : LevelRank[status[i].fit] \in 2..4
    BY <1>7, <1>10 DEF LevelRank
  <2>3. \A j \in fast \ {1} : better(1, j)
    BY <2>1, <2>2
  <2>4. \A i \in fast \ {1} : ~ better(i, 1)
    BY <2>1, <2>2
  <2> HIDE DEF better
  <2>5. best = 1
    BY <2>1, <2>3, <2>4
  <2>6. RankedFirst(status, fast) = status[best]
    BY <2>1 DEF RankedFirst, best, better
  <2>7. QED
    BY <2>5, <2>6
<1>12. QED
  BY <1>6, <1>9, <1>11 DEF c

(* The elements of two sequences, one after the other. *)
LEMMA ElementsOfBoth ==
    ASSUME NEW S, NEW s \in Seq(S), NEW t \in Seq(S)
    PROVE  /\ s \o t \in Seq(S)
           /\ ToSet(s \o t) = ToSet(s) \cup ToSet(t)
           /\ ToSet(s) \subseteq S /\ ToSet(t) \subseteq S
<1>1. /\ s \o t \in Seq(S) /\ Len(s \o t) = Len(s) + Len(t)
      /\ DOMAIN s = 1..Len(s) /\ DOMAIN t = 1..Len(t) /\ DOMAIN (s \o t) = 1..Len(s) + Len(t)
      /\ Len(s) \in Nat /\ Len(t) \in Nat
      /\ \A i \in 1..Len(s) + Len(t) :
            (s \o t)[i] = IF i <= Len(s) THEN s[i] ELSE t[i - Len(s)]
  OBVIOUS
<1>2. ASSUME NEW x \in ToSet(s) PROVE x \in S /\ x \in ToSet(s \o t)
  <2>1. PICK i \in 1..Len(s) : x = s[i]
    BY <1>1 DEF ToSet
  <2>2. x = (s \o t)[i] /\ i \in 1..Len(s) + Len(t)
    BY <1>1, <2>1
  <2>3. QED
    BY <1>1, <2>1, <2>2 DEF ToSet
<1>3. ASSUME NEW x \in ToSet(t) PROVE x \in S /\ x \in ToSet(s \o t)
  <2>1. PICK i \in 1..Len(t) : x = t[i]
    BY <1>1 DEF ToSet
  <2> DEFINE j == Len(s) + i
  <2>4. j \in 1..Len(s) + Len(t) /\ ~ (j <= Len(s)) /\ j - Len(s) = i
    BY <1>1, <2>1
  <2> HIDE DEF j
  <2>2. x = (s \o t)[j] /\ j \in 1..Len(s) + Len(t)
    <3>1. (s \o t)[j] = IF j <= Len(s) THEN s[j] ELSE t[j - Len(s)]
      BY <1>1, <2>4
    <3>2. QED
      BY <2>1, <2>4, <3>1
  <2>3. x \in S
    BY <2>1
  <2>5. x \in ToSet(s \o t)
    <3>1. j \in DOMAIN (s \o t)
      BY <1>1, <2>2
    <3>2. QED
      BY <2>2, <3>1 DEF ToSet
  <2>6. QED
    BY <2>3, <2>5
<1>4. ToSet(s) \cup ToSet(t) \subseteq ToSet(s \o t)
  BY <1>2, <1>3
<1>5. ASSUME NEW x \in ToSet(s \o t) PROVE x \in ToSet(s) \cup ToSet(t)
  <2>1. PICK i \in 1..Len(s) + Len(t) : x = (s \o t)[i]
    BY <1>1, <1>5 DEF ToSet
  <2>2. CASE i <= Len(s)
    BY <1>1, <2>1, <2>2 DEF ToSet
  <2>3. CASE i > Len(s)
    <3>1. x = t[i - Len(s)] /\ i - Len(s) \in 1..Len(t)
      BY <1>1, <2>1, <2>3
    <3>2. QED
      BY <3>1 DEF ToSet
  <2>4. QED
    BY <2>2, <2>3
<1>6. QED
  BY <1>1, <1>2, <1>3, <1>4, <1>5

(* What one may add: of the upgrades of VRAM one is called Perfect.        *)
LEMMA OnePerfectUpgrade ==
    ASSUME NEW paths, NEW preferred, NEW s, paths[1].feasible = TRUE
    PROVE  LET best == Delta("vram", Max({0, paths[1].recommended.vram - AvailableVram(s)}),
                             "Perfect", "Gpu")
           IN  /\ best \in ToSet(UpgradeDeltas(paths, preferred, s))
               /\ best.resource = "vram" /\ best.fit = "Perfect"
               /\ \A d \in ToSet(UpgradeDeltas(paths, preferred, s)) :
                     d.resource = "vram" /\ d.fit = "Perfect" => d = best
<1> DEFINE good  == Delta("vram", Max({0, paths[1].minimum.vram - AvailableVram(s)}), "Good", "Gpu")
           best  == Delta("vram", Max({0, paths[1].recommended.vram - AvailableVram(s)}), "Perfect", "Gpu")
           min   == preferred.minimum
           ram   == Delta("ram", min.ram - s.ram, "Marginal", preferred.path)
           cores == Delta("cores", min.cores - s.cores, None, preferred.path)
           first  == <<good, best>>
           second == IF min.ram > s.ram THEN <<ram>> ELSE <<>>
           third  == IF min.cores > s.cores THEN <<cores>> ELSE <<>>
           all    == first \o second \o third
<1>1. UpgradeDeltas(paths, preferred, s) = all
  BY DEF UpgradeDeltas
<1>2. /\ good.fit = "Good" /\ best.fit = "Perfect" /\ best.resource = "vram"
      /\ ram.resource = "ram" /\ cores.resource = "cores"
  BY DEF Delta
<1> HIDE DEF good, best, ram, cores, min
<1> DEFINE D == {good, best, ram, cores}
<1>3. first \in Seq(D) /\ second \in Seq(D) /\ third \in Seq(D)
  <2>1. good \in D /\ best \in D /\ ram \in D /\ cores \in D
    OBVIOUS
  <2> HIDE DEF D
  <2>2. <<good, best>> \in Seq(D) /\ <<ram>> \in Seq(D) /\ <<cores>> \in Seq(D) /\ <<>> \in Seq(D)
    BY <2>1
  <2>3. QED
    BY <2>2
<1>4. best \in ToSet(all) /\ ToSet(all) \subseteq D
  <2> DEFINE two == first \o second
  <2>1. DOMAIN first = 1..2 /\ first[1] = good /\ first[2] = best
    OBVIOUS
  <2> HIDE DEF first, second, third, D
  <2>2. two \in Seq(D) /\ ToSet(two) = ToSet(first) \cup ToSet(second)
    BY <1>3, ElementsOfBoth
  <2> HIDE DEF two
  <2>3. ToSet(two \o third) = ToSet(two) \cup ToSet(third)
    BY <1>3, <2>2, ElementsOfBoth
  <2>4. ToSet(all) \subseteq D
    <3>1. ToSet(first) \subseteq D /\ ToSet(second) \subseteq D /\ ToSet(third) \subseteq D
      BY <1>3, <2>2, ElementsOfBoth
    <3>2. QED
      BY <2>2, <2>3, <3>1 DEF two
  <2>5. QED
    <3>1. best \in ToSet(first)
      BY <2>1 DEF ToSet
    <3>2. QED
      BY <2>2, <2>3, <2>4, <3>1 DEF two
<1> HIDE DEF all
<1>5. QED
  BY <1>1, <1>2, <1>4 DEF best

(* A plan is an error, or has the three paths and what to add. *)
LEMMA PlanParts ==
    ASSUME NEW m, NEW r, NEW s, NEW config,
           Accepted(Completed(m, r), s), Paths(m, r, s, config)[1].feasible = TRUE,
           1 \in DOMAIN Paths(m, r, s, config)
    PROVE  LET plan  == estimate_model_plan_with_config(m, r, s, config)
               paths == Paths(m, r, s, config)
           IN  /\ plan.paths = paths
               /\ plan.current = evaluate_current(m, Completed(m, r), s, config)
               /\ \E preferred : plan.deltas = UpgradeDeltas(paths, preferred, s)
<1> DEFINE c     == Completed(m, r)
           paths == Paths(m, r, s, config)
           plan  == estimate_model_plan_with_config(m, r, s, config)
           feasible == {i \in DOMAIN paths : paths[i].feasible}
           preferred == paths[Min(feasible)]
<1>1. plan = PlanOn(m, c, s, config, paths)
  BY DEF estimate_model_plan_with_config, PlanFor, Paths
<1>2. feasible # {}
  OBVIOUS
<1> HIDE DEF c, paths
<1>3. PlanOn(m, c, s, config, paths)
        = [model |-> m.name, request |-> c, minimum |-> preferred.minimum,
           recommended |-> preferred.recommended, paths |-> paths,
           current |-> evaluate_current(m, c, s, config),
           deltas |-> UpgradeDeltas(paths, preferred, s),
           alternatives |-> compute_kv_alternatives(m, c.quant, c.context, s)]
  BY <1>2 DEF PlanOn
<1> HIDE DEF plan, preferred
<1>4. QED
  BY <1>1, <1>3 DEF c, paths, plan

(* On a machine with all the memory that is recommended, the plan of the   *)
(* request is one, and it is perfect on the GPU.                           *)
LEMMA PerfectWithMemory ==
    ASSUME NEW m, LlmModel(m), NEW r, Readable(r), NEW s, Machine(s), NEW config,
           Accepted(Completed(m, r), s), s.has_gpu = TRUE, AvailableVram(s) \in Nat,
           AvailableVram(s) >= RecVram(m, Memory(m, r))
    PROVE  PerfectOnGpu(estimate_model_plan_with_config(m, r, s, config))
<1> DEFINE plan == estimate_model_plan_with_config(m, r, s, config)
           paths == Paths(m, r, s, config)
           mem  == Memory(m, r)
           rec  == RecVram(m, mem)
<1>1. DOMAIN paths = 1..3 /\ paths[1].feasible = TRUE
      /\ paths[1].fit = fit_level_for("Gpu", mem, AvailableVram(s), rec)
  BY GpuIsFirst
<1>2. mem \in Nat
  BY RequestMemory
<1>3. rec \in Nat /\ rec >= mem
  BY <1>2, RecVramIsEnough
<1>4. paths[1].fit = "Perfect"
  BY <1>1, <1>2, <1>3, PerfectLevel
<1>5. plan.paths = paths /\ plan.current = evaluate_current(m, Completed(m, r), s, config)
  <2>1. 1 \in DOMAIN paths
    BY <1>1
  <2>2. QED
    BY <1>1, <2>1, PlanParts
<1>6. plan.current.fit = "Perfect" /\ plan.current.mode = "Gpu"
  BY <1>5, CurrentIsPerfect
<1> HIDE DEF plan, paths
<1>7. QED
  BY <1>4, <1>5, <1>6 DEF PerfectOnGpu, plan

(* The upgrade that is called Perfect is enough, for every model, machine, *)
(* request without a target speed and configuration.                       *)
LEMMA UpgradeIsEnough ==
    ASSUME NEW m, LlmModel(m), NEW r, Readable(r), NEW s, Machine(s), NEW config,
           estimate_model_plan_with_config(m, r, s, config) # Error
    PROVE  ReachesPerfect(m, r, s, config, estimate_model_plan_with_config(m, r, s, config))
<1> DEFINE plan  == estimate_model_plan_with_config(m, r, s, config)
           paths == Paths(m, r, s, config)
           rec   == RecVram(m, Memory(m, r))
           add   == Max({0, rec - AvailableVram(s)})
           more  == with_gpu_memory_override(s, AvailableVram(s) + add)
           best  == Delta("vram", add, "Perfect", "Gpu")
<1>1. Accepted(Completed(m, r), s)
  BY DEF estimate_model_plan_with_config, PlanFor
<1>2. DOMAIN paths = 1..3 /\ paths[1].feasible = TRUE /\ paths[1].recommended.vram = rec
  BY GpuIsFirst
<1>3. PICK preferred : plan.deltas = UpgradeDeltas(paths, preferred, s)
  <2>1. 1 \in DOMAIN paths
    BY <1>2
  <2>2. QED
    BY <1>1, <1>2, <2>1, PlanParts
<1> HIDE DEF paths, plan, rec
<1>4. /\ best \in ToSet(plan.deltas) /\ best.resource = "vram" /\ best.fit = "Perfect"
      /\ \A d \in ToSet(plan.deltas) : d.resource = "vram" /\ d.fit = "Perfect" => d = best
  <2> DEFINE d == Delta("vram", Max({0, paths[1].recommended.vram - AvailableVram(s)}), "Perfect", "Gpu")
  <2>1. d = best
    BY <1>2
  <2>2. LET all == ToSet(UpgradeDeltas(paths, preferred, s))
        IN  /\ d \in all /\ d.resource = "vram" /\ d.fit = "Perfect"
            /\ \A x \in all : x.resource = "vram" /\ x.fit = "Perfect" => x = d
    BY <1>2, OnePerfectUpgrade
  <2> HIDE DEF d, best
  <2>3. QED
    BY <1>3, <2>1, <2>2
<1>5. AvailableVram(s) \in Nat
  BY DEF Machine, SystemSpecs, Optional, AvailableVram, orElse
<1>6. rec \in Nat
  BY RequestMemory, RecVramIsEnough DEF rec
<1>7. add \in Nat /\ AvailableVram(s) + add >= rec
  <2> DEFINE x == AvailableVram(s)
  <2>1. x \in Nat
    BY <1>5
  <2> HIDE DEF x
  <2>2. \E z \in {0, rec - x} : \A w \in {0, rec - x} : z >= w
    BY <1>6, <2>1
  <2>3. Max({0, rec - x}) \in {0, rec - x} /\ \A w \in {0, rec - x} : Max({0, rec - x}) >= w
    BY <2>2 DEF Max
  <2>4. QED
    BY <1>6, <2>1, <2>3 DEF x
<1> HIDE DEF add
<1>8. /\ Machine(more) /\ more.has_gpu = TRUE /\ AvailableVram(more) >= AvailableVram(s) + add
      /\ s.backend = "Cuda" => more.backend = "Cuda"
  <2> DEFINE vram == AvailableVram(s) + add
  <2>1. vram \in Nat
    BY <1>5, <1>7
  <2> HIDE DEF vram
  <2>2. LET t == with_gpu_memory_override(s, vram)
        IN  /\ Machine(t) /\ t.has_gpu = TRUE /\ AvailableVram(t) >= vram
            /\ s.backend = "Cuda" => t.backend = "Cuda"
    BY <2>1, WithVram
  <2>3. QED
    BY <2>2 DEF vram
<1>9. AvailableVram(more) \in Nat
  BY <1>8 DEF Machine, SystemSpecs, Optional, AvailableVram, orElse
<1>10. AvailableVram(more) >= rec
  BY <1>5, <1>6, <1>7, <1>8, <1>9
<1>11. Accepted(Completed(m, r), more)
  BY <1>1, <1>8 DEF Accepted
<1> HIDE DEF more
<1>12. PerfectOnGpu(estimate_model_plan_with_config(m, r, more, config))
  BY <1>8, <1>9, <1>10, <1>11, PerfectWithMemory DEF rec
<1>13. best.add = add
  BY DEF Delta
<1> HIDE DEF best
<1>14. QED
  BY <1>4, <1>12, <1>13 DEF ReachesPerfect, more, plan

-----------------------------------------------------------------------------
(* The inductive invariant, of the state a of the TUI. *)
AppFields == {"kind", "mode", "real", "specs", "sim_active", "config", "baseline", "dirty", "rows",
              "model", "plan", "sim", "adv", "estimate", "error"}

PlanSet == ToSet(PlanFields)
SimSet  == ToSet(SimFields)
AdvSet  == ToSet(AdvFields)

(* What the text of a field parses to, where a plan depends on it.         *)
TypedText(f, x) ==
    /\ f \in {"Context", "Ram", "Vram", "CpuCores"} => x \in TextOf(Nat)
    /\ f = "KvQuant" => x \in TextOf(ToSet(KvQuants))

IsPanel(p, F) ==
    /\ DOMAIN p = {"text", "field", "cursor"}
    /\ DOMAIN p.text = F
    /\ \A f \in F : p.text[f].len \in Nat /\ TypedText(f, p.text[f].parsed)
    /\ p.field \in F
    /\ p.cursor \in 0..p.text[p.field].len

PlanOK(a) ==
    \/ a.mode # "Plan" /\ a.estimate = None
    \/ a.mode = "Plan" /\ a.error /\ a.estimate = None
    \/ /\ a.mode = "Plan" /\ ~a.error /\ Acceptable(Request(a.plan.text))
       /\ a.estimate # Error
       /\ \E m \in CatalogOf :
            a.estimate = estimate_model_plan_with_config(m, Request(a.plan.text), a.specs, a.config)

Panels(a) == IsPanel(a.plan, PlanSet) /\ IsPanel(a.sim, SimSet) /\ IsPanel(a.adv, AdvSet)

AInv(a) ==
    /\ DOMAIN a = AppFields
    /\ a.rows \in Orders
    /\ Panels(a)
    /\ Machine(a.real) /\ Machine(a.specs)
    /\ PlanOK(a)

(* An answer is the plan of the request, the machine and the configuration *)
(* beside it.                                                              *)
TypedRequest(r) == r.context \in Nat /\ r.kv \in ToSet(KvQuants) \cup {None}

AnswerOK(x) ==
    x \notin {None, Error} =>
        /\ x = Answer(x.model, x.request, x.specs, x.config)
        /\ x.model \in CatalogOf /\ TypedRequest(x.request) /\ Machine(x.specs)

IInv == (app # None => AInv(app)) /\ AnswerOK(answer)

-----------------------------------------------------------------------------
(* Fields and texts.                                                       *)

(* The field after the last is the first, and before the first the last:   *)
(* Tab and Shift-Tab stay on a field of the panel.                         *)
LEMMA Around ==
    ASSUME NEW order, Len(order) \in Nat \ {0}, DOMAIN order = 1..Len(order),
           NEW f \in ToSet(order)
    PROVE  NextOf(order, f) \in ToSet(order) /\ PrevOf(order, f) \in ToSet(order)
<1>1. \A i \in 1..Len(order) : order[i] \in ToSet(order)
  BY DEF ToSet
<1>2. \E i \in 1..Len(order) : order[i] = f
  BY DEF ToSet
<1>3. At(order, f) \in 1..Len(order)
  BY <1>2 DEF At
<1>4. QED
  BY <1>1, <1>3 DEF NextOf, PrevOf

(* The three panels have fields, and begin with the first of them. *)
LEMMA Orders3 ==
    /\ \A f \in PlanSet : NextOf(PlanFields, f) \in PlanSet /\ PrevOf(PlanFields, f) \in PlanSet
    /\ \A f \in SimSet : NextOf(SimFields, f) \in SimSet /\ PrevOf(SimFields, f) \in SimSet
    /\ \A f \in AdvSet : NextOf(AdvFields, f) \in AdvSet /\ PrevOf(AdvFields, f) \in AdvSet
<1>1. Len(PlanFields) = 4 /\ DOMAIN PlanFields = 1..4
  BY DEF PlanFields
<1>2. Len(SimFields) = 3 /\ DOMAIN SimFields = 1..3
  BY DEF SimFields
<1>3. Len(AdvFields) = 8 /\ DOMAIN AdvFields = 1..8
  BY DEF AdvFields
<1>4. ASSUME NEW f \in PlanSet
      PROVE  NextOf(PlanFields, f) \in PlanSet /\ PrevOf(PlanFields, f) \in PlanSet
  <2>1. Len(PlanFields) \in Nat \ {0} /\ DOMAIN PlanFields = 1..Len(PlanFields)
    BY <1>1
  <2>2. QED
    BY <2>1, <1>4, Around DEF PlanSet
<1>5. ASSUME NEW f \in SimSet
      PROVE  NextOf(SimFields, f) \in SimSet /\ PrevOf(SimFields, f) \in SimSet
  <2>1. Len(SimFields) \in Nat \ {0} /\ DOMAIN SimFields = 1..Len(SimFields)
    BY <1>2
  <2>2. QED
    BY <2>1, <1>5, Around DEF SimSet
<1>6. ASSUME NEW f \in AdvSet
      PROVE  NextOf(AdvFields, f) \in AdvSet /\ PrevOf(AdvFields, f) \in AdvSet
  <2>1. Len(AdvFields) \in Nat \ {0} /\ DOMAIN AdvFields = 1..Len(AdvFields)
    BY <1>3
  <2>2. QED
    BY <2>1, <1>6, Around DEF AdvSet
<1>7. QED
  BY <1>4, <1>5, <1>6

(* The fields, by name. *)
LEMMA Members ==
    /\ PlanSet = {"Context", "Quant", "KvQuant", "TargetTps"}
    /\ SimSet = {"Ram", "Vram", "CpuCores"}
    /\ AdvSet = {"Efficiency", "Gpu", "CpuOffload", "MoeOffload", "TensorParallel", "CpuOnly",
                 "ContextCap", "DdrBandwidth"}
<1>1. PlanSet = {"Context", "Quant", "KvQuant", "TargetTps"}
  <2>1. DOMAIN PlanFields = 1..4
    BY DEF PlanFields
  <2>2. QED
    BY <2>1 DEF PlanSet, PlanFields, ToSet
<1>2. SimSet = {"Ram", "Vram", "CpuCores"}
  <2>1. DOMAIN SimFields = 1..3
    BY DEF SimFields
  <2>2. QED
    BY <2>1 DEF SimSet, SimFields, ToSet
<1>3. AdvSet = {"Efficiency", "Gpu", "CpuOffload", "MoeOffload", "TensorParallel", "CpuOnly",
                "ContextCap", "DdrBandwidth"}
  <2>1. DOMAIN AdvFields = 1..8
    BY DEF AdvFields
  <2>2. QED
    BY <2>1 DEF AdvSet, AdvFields, ToSet
<1>4. QED
  BY <1>1, <1>2, <1>3

(* A text the program writes has a length, and parses to what was written. *)
LEMMA ShownText ==
    ASSUME NEW f, NEW x, TypedText(f, x)
    PROVE  Shown(x).len \in Nat /\ TypedText(f, Shown(x).parsed)
  BY PanelAssumption DEF Shown, Text, Cleared, TypedText, TextOf

(* A cleared text is empty, in every field. *)
LEMMA ClearedText == \A f : Cleared.len = 0 /\ TypedText(f, Cleared.parsed)
  BY DEF Cleared, Text, TypedText, TextOf

(* So does one the user types. *)
LEMMA TypedIsTyped == ASSUME NEW f, NEW v \in Typed[f] PROVE TypedText(f, v)
  BY TypedAssumption DEF TypedText

(* Editing the active field with a text around the cursor. *)
LEMMA EditedPanel ==
    ASSUME NEW F, NEW p, IsPanel(p, F), NEW t, t.len \in Nat,
           TypedText(p.field, t.parsed), NEW c \in 0..t.len
    PROVE  IsPanel(Edited(p, t, c), F)
  BY DEF IsPanel, Edited

(* Every key leaves the panel a panel, and the cursor keys its text. *)
LEMMA MovedPanel ==
    ASSUME NEW F, NEW p, IsPanel(p, F)
    PROVE  /\ IsPanel(Left(p), F) /\ Left(p).text = p.text
           /\ IsPanel(Right(p), F) /\ Right(p).text = p.text
           /\ \A f \in F : IsPanel(To(p, f), F) /\ To(p, f).text = p.text
<1>1. IsPanel(Left(p), F) /\ Left(p).text = p.text
  BY DEF IsPanel, Left
<1>2. IsPanel(Right(p), F) /\ Right(p).text = p.text
  BY DEF IsPanel, Right, Active
<1>3. ASSUME NEW f \in F PROVE IsPanel(To(p, f), F) /\ To(p, f).text = p.text
  BY DEF IsPanel, To, Panel
<1>4. QED
  BY <1>1, <1>2, <1>3

(* The keys that edit: the text and the cursor change together. *)
LEMMA KeyedPanel ==
    ASSUME NEW F, NEW p, IsPanel(p, F), NEW v, TypedText(p.field, v)
    PROVE  /\ IsPanel(Insert(p, v), F)
           /\ IsPanel(Backspace(p, v), F)
           /\ IsPanel(Delete(p, v), F)
<1>1. Active(p).len \in Nat /\ p.cursor \in 0..Active(p).len
  BY DEF IsPanel, Active
<1>2. IsPanel(Insert(p, v), F)
  <2>1. Text(Active(p).len + 1, v).len = Active(p).len + 1 /\ Text(Active(p).len + 1, v).parsed = v
    BY DEF Text
  <2>2. QED
    BY <1>1, <2>1, EditedPanel DEF Insert
<1>3. ASSUME Active(p).len > 0
      PROVE  /\ Shorter(Active(p), v).len = Active(p).len - 1
             /\ TypedText(p.field, Shorter(Active(p), v).parsed)
  <2>1. CASE Active(p).len = 1
    BY <2>1, ClearedText DEF Shorter
  <2>2. CASE Active(p).len # 1
    BY <2>2 DEF Shorter, Text
  <2>3. QED
    BY <2>1, <2>2
<1>4. IsPanel(Backspace(p, v), F)
  <2>1. CASE p.cursor = 0
    BY <2>1 DEF Backspace
  <2>2. CASE p.cursor # 0
    BY <1>1, <1>3, <2>2, EditedPanel DEF Backspace
  <2>3. QED
    BY <2>1, <2>2
<1>5. IsPanel(Delete(p, v), F)
  <2>1. CASE p.cursor >= Active(p).len
    BY <2>1 DEF Delete
  <2>2. CASE ~(p.cursor >= Active(p).len)
    BY <1>1, <1>3, <2>2, EditedPanel DEF Delete
  <2>3. QED
    BY <2>1, <2>2
<1>6. QED
  BY <1>2, <1>4, <1>5

(* Clearing the active field. *)
LEMMA ClearedPanel ==
    ASSUME NEW F, NEW p, IsPanel(p, F)
    PROVE  IsPanel(ClearField(p), F)
  BY ClearedText, EditedPanel DEF ClearField

-----------------------------------------------------------------------------
(* The state of the TUI.                                                   *)

(* Every row of the table is a model, whatever the order. *)
LEMMA RowsAreModels ==
    ASSUME NEW rows \in Orders, NEW i \in 1..Len(rows)
    PROVE  rows[i] \in CatalogOf
<1>1. Cardinality(CatalogOf) \in Nat
  BY PanelAssumption, FS_CardinalityType
<1>2. rows \in [1..Cardinality(CatalogOf) -> CatalogOf]
  BY DEF Orders
<1>3. Len(rows) = Cardinality(CatalogOf)
  BY <1>1, <1>2
<1>4. QED
  BY <1>2, <1>3

(* Refreshing in plan mode makes the shown plan match, whatever it was. *)
LEMMA Refreshed ==
    ASSUME NEW a, DOMAIN a = AppFields, a.rows \in Orders, Panels(a), a.mode = "Plan",
           Machine(a.real), Machine(a.specs)
    PROVE  AInv(refresh_plan_estimate(a))
<1> DEFINE r    == Request(a.plan.text)
           plan == estimate_model_plan_with_config(a.rows[a.model], r, a.specs, a.config)
           b    == [a EXCEPT !.estimate = plan, !.error = FALSE]
<1>1. AInv(Refused(a))
  BY DEF Refused, AInv, AppFields, Panels, PlanOK
<1>2. CASE a.model \notin 1..Len(a.rows) \/ ~Acceptable(r) \/ plan = Error
  <2>1. refresh_plan_estimate(a) = Refused(a)
    BY <1>2 DEF refresh_plan_estimate, ShowPlan
  <2>2. QED
    BY <1>1, <2>1
<1>3. CASE a.model \in 1..Len(a.rows) /\ Acceptable(r) /\ plan # Error
  <2>1. refresh_plan_estimate(a) = b
    BY <1>3 DEF refresh_plan_estimate, ShowPlan
  <2>2. a.rows[a.model] \in CatalogOf
    BY <1>3, RowsAreModels
  <2> DEFINE m == a.rows[a.model]
  <2>3. /\ DOMAIN b = AppFields /\ b.mode = "Plan" /\ b.rows = a.rows /\ b.real = a.real
        /\ b.plan = a.plan /\ b.sim = a.sim /\ b.adv = a.adv /\ b.specs = a.specs
        /\ b.config = a.config /\ b.error = FALSE /\ b.estimate = plan
    BY DEF AppFields
  <2>4. PlanOK(b)
    <3>1. b.estimate = estimate_model_plan_with_config(m, Request(b.plan.text), b.specs, b.config)
      BY <2>3
    <3>2. Acceptable(Request(b.plan.text)) /\ b.estimate # Error
      BY <2>3, <1>3
    <3> HIDE DEF b, m
    <3>3. QED
      BY <3>1, <3>2, <2>2, <2>3 DEF PlanOK, m
  <2>5. AInv(b)
    <3> HIDE DEF b
    <3>1. QED
      BY <2>3, <2>4 DEF AInv, Panels
  <2>6. QED
    BY <2>1, <2>5
<1>4. QED
  BY <1>2, <1>3

(* A panel replaced by another: the plan's with the same text, or any of   *)
(* the popups'.                                                            *)
LEMMA PlanMoved ==
    ASSUME NEW a, AInv(a), NEW p, IsPanel(p, PlanSet), p.text = a.plan.text
    PROVE  AInv([a EXCEPT !.plan = p])
  BY DEF AInv, AppFields, Panels, PlanOK

(* The simulation popup has another panel. *)
LEMMA SimReplaced ==
    ASSUME NEW a, AInv(a), NEW p, IsPanel(p, SimSet)
    PROVE  AInv([a EXCEPT !.sim = p])
  BY DEF AInv, AppFields, Panels, PlanOK

(* The configuration popup has another panel, *)
LEMMA AdvReplaced ==
    ASSUME NEW a, AInv(a), NEW p, IsPanel(p, AdvSet)
    PROVE  AInv([a EXCEPT !.adv = p])
  BY DEF AInv, AppFields, Panels, PlanOK

(* and is marked as edited. *)
LEMMA AdvEdited ==
    ASSUME NEW a, AInv(a), NEW p, IsPanel(p, AdvSet), NEW d
    PROVE  AInv([a EXCEPT !.adv = p, !.dirty = d])
  BY DEF AInv, AppFields, Panels, PlanOK

(* An edited text is followed by a refresh. *)
LEMMA PlanEdited ==
    ASSUME NEW a, AInv(a), a.mode = "Plan", NEW p, IsPanel(p, PlanSet)
    PROVE  AInv(WithPlan(a, p))
<1> DEFINE b == [a EXCEPT !.plan = p]
<1>1. /\ DOMAIN b = AppFields /\ b.rows \in Orders /\ Panels(b)
      /\ b.mode = "Plan" /\ Machine(b.real) /\ Machine(b.specs)
  BY DEF AInv, AppFields, Panels
<1>2. WithPlan(a, p) = refresh_plan_estimate(b)
  BY DEF WithPlan
<1> HIDE DEF b
<1>3. QED
  BY <1>1, <1>2, Refreshed

(* The keys of the plan panel: those that move, and those that edit. *)
LEMMA PlanKeys ==
    ASSUME NEW a, AInv(a), a.mode = "Plan"
    PROVE  /\ AInv(close_plan_mode(a))
           /\ AInv(plan_next_field(a)) /\ AInv(plan_prev_field(a))
           /\ AInv(plan_cursor_left(a)) /\ AInv(plan_cursor_right(a))
           /\ AInv(plan_clear_field(a))
<1>1. IsPanel(a.plan, PlanSet) /\ a.plan.field \in PlanSet
  BY DEF AInv, Panels, IsPanel
<1>2. AInv(close_plan_mode(a))
  BY DEF close_plan_mode, AInv, AppFields, Panels, PlanOK
<1>3. AInv(plan_next_field(a))
  <2>1. PICK f \in PlanSet : f = NextOf(PlanFields, a.plan.field)
    BY <1>1, Orders3
  <2>2. IsPanel(To(a.plan, f), PlanSet) /\ To(a.plan, f).text = a.plan.text
    BY <1>1, MovedPanel
  <2>3. QED
    BY <2>1, <2>2, PlanMoved DEF plan_next_field
<1>4. AInv(plan_prev_field(a))
  <2>1. PICK f \in PlanSet : f = PrevOf(PlanFields, a.plan.field)
    BY <1>1, Orders3
  <2>2. IsPanel(To(a.plan, f), PlanSet) /\ To(a.plan, f).text = a.plan.text
    BY <1>1, MovedPanel
  <2>3. QED
    BY <2>1, <2>2, PlanMoved DEF plan_prev_field
<1>5. AInv(plan_cursor_left(a))
  <2>1. IsPanel(Left(a.plan), PlanSet) /\ Left(a.plan).text = a.plan.text
    BY <1>1, MovedPanel
  <2>2. QED
    BY <2>1, PlanMoved DEF plan_cursor_left
<1>6. AInv(plan_cursor_right(a))
  <2>1. IsPanel(Right(a.plan), PlanSet) /\ Right(a.plan).text = a.plan.text
    BY <1>1, MovedPanel
  <2>2. QED
    BY <2>1, PlanMoved DEF plan_cursor_right
<1>7. AInv(plan_clear_field(a))
  BY <1>1, ClearedPanel, PlanEdited DEF plan_clear_field
<1>8. QED
  BY <1>2, <1>3, <1>4, <1>5, <1>6, <1>7

(* A key that changes a text of the plan panel plans again. *)
LEMMA PlanEdits ==
    ASSUME NEW a, AInv(a), a.mode = "Plan", NEW v \in Typed[a.plan.field]
    PROVE  AInv(plan_input(a, v)) /\ AInv(plan_backspace(a, v)) /\ AInv(plan_delete(a, v))
<1>1. IsPanel(a.plan, PlanSet)
  BY DEF AInv, Panels
<1>2. /\ AInv(WithPlan(a, Insert(a.plan, v))) /\ AInv(WithPlan(a, Backspace(a.plan, v)))
      /\ AInv(WithPlan(a, Delete(a.plan, v)))
  BY <1>1, TypedIsTyped, KeyedPanel, PlanEdited
<1>3. QED
  BY <1>2 DEF plan_input, plan_backspace, plan_delete

(* The keys of the simulation popup. *)
LEMMA SimKeys ==
    ASSUME NEW a, AInv(a)
    PROVE  /\ AInv(sim_next_field(a)) /\ AInv(sim_prev_field(a))
           /\ AInv(sim_cursor_left(a)) /\ AInv(sim_cursor_right(a))
           /\ AInv(sim_clear_field(a))
<1>1. IsPanel(a.sim, SimSet) /\ a.sim.field \in SimSet
  BY DEF AInv, Panels, IsPanel
<1>2. AInv(sim_next_field(a)) /\ AInv(sim_prev_field(a))
  BY <1>1, Orders3, MovedPanel, SimReplaced DEF sim_next_field, sim_prev_field
<1>3. AInv(sim_cursor_left(a)) /\ AInv(sim_cursor_right(a))
  BY <1>1, MovedPanel, SimReplaced DEF sim_cursor_left, sim_cursor_right
<1>4. AInv(sim_clear_field(a))
  BY <1>1, ClearedPanel, SimReplaced DEF sim_clear_field
<1>5. QED
  BY <1>2, <1>3, <1>4

(* A key that changes a text of the simulation popup. *)
LEMMA SimEdits ==
    ASSUME NEW a, AInv(a), NEW v \in Typed[a.sim.field]
    PROVE  AInv(sim_input(a, v)) /\ AInv(sim_backspace(a, v)) /\ AInv(sim_delete(a, v))
<1>1. IsPanel(a.sim, SimSet)
  BY DEF AInv, Panels
<1>2. QED
  BY <1>1, TypedIsTyped, KeyedPanel, SimReplaced DEF sim_input, sim_backspace, sim_delete

(* The keys of the advanced configuration popup. *)
LEMMA AdvKeys ==
    ASSUME NEW a, AInv(a)
    PROVE  /\ AInv(adv_config_next_field(a)) /\ AInv(adv_config_prev_field(a))
           /\ AInv(adv_config_cursor_left(a)) /\ AInv(adv_config_cursor_right(a))
           /\ AInv(adv_config_clear_field(a))
<1>1. IsPanel(a.adv, AdvSet) /\ a.adv.field \in AdvSet
  BY DEF AInv, Panels, IsPanel
<1>2. AInv(adv_config_next_field(a)) /\ AInv(adv_config_prev_field(a))
  BY <1>1, Orders3, MovedPanel, AdvReplaced DEF adv_config_next_field, adv_config_prev_field
<1>3. AInv(adv_config_cursor_left(a)) /\ AInv(adv_config_cursor_right(a))
  BY <1>1, MovedPanel, AdvReplaced DEF adv_config_cursor_left, adv_config_cursor_right
<1>4. AInv(adv_config_clear_field(a))
  BY <1>1, ClearedPanel, AdvEdited DEF adv_config_clear_field
<1>5. QED
  BY <1>2, <1>3, <1>4

(* A key that changes a text of the configuration popup. *)
LEMMA AdvEdits ==
    ASSUME NEW a, AInv(a), NEW v \in Typed[a.adv.field]
    PROVE  /\ AInv(adv_config_input(a, v)) /\ AInv(adv_config_backspace(a, v))
           /\ AInv(adv_config_delete(a, v))
<1>1. IsPanel(a.adv, AdvSet)
  BY DEF AInv, Panels
<1>2. QED
  BY <1>1, TypedIsTyped, KeyedPanel, AdvEdited
  DEF adv_config_input, adv_config_backspace, adv_config_delete, WithAdv

-----------------------------------------------------------------------------
(* Opening, applying and resetting: what replaces the hardware, the        *)
(* configuration or the order of the table does so with no plan shown.     *)

(* The texts a popup or the panel opens with parse to what it shows. *)
LEMMA TenthsIsNat == ASSUME NEW mb \in Nat PROVE Tenths(mb) \in Nat
<1> DEFINE x == (mb * 10 + 512) \div 1024
<1>1. x \in Nat
  OBVIOUS
<1> HIDE DEF x
<1>2. (x * 1024) \div 10 \in Nat
  BY <1>1
<1>3. QED
  BY <1>2 DEF Tenths, x

(* Opening the plan panel on a row plans for its model at once. *)
LEMMA OpenedPlan ==
    ASSUME NEW a, AInv(a), NEW row \in 1..Len(a.rows)
    PROVE  AInv(open_plan_mode(a, row))
<1> DEFINE m    == a.rows[row]
           context == Min({m.context, 8})
           text == [f \in PlanSet |->
                      CASE f = "Context" -> Shown(context)
                        [] f = "Quant"   -> Shown(m.quantization)
                        [] OTHER         -> Cleared]
           b    == [a EXCEPT !.mode = "Plan", !.model = row, !.plan = Panel(text, "Context")]
<1>1. open_plan_mode(a, row) = refresh_plan_estimate(b)
  BY DEF open_plan_mode, PlanSet
<1>2. context \in Nat
  <2>1. m.context \in Nat
    BY RowsAreModels, CatalogOfAssumption DEF AInv, LlmModel
  <2> HIDE DEF m
  <2>2. {m.context, 8} \subseteq Nat /\ {m.context, 8} # {}
    BY <2>1
  <2>3. QED
    BY <2>2, LeastOf
<1> HIDE DEF context
<1>3. IsPanel(Panel(text, "Context"), PlanSet)
  <2>1. "Context" \in PlanSet /\ DOMAIN text = PlanSet
    BY Members
  <2>2. ASSUME NEW f \in PlanSet PROVE text[f].len \in Nat /\ TypedText(f, text[f].parsed)
    <3>1. CASE f = "Context"
      <4>1. TypedText(f, context)
        BY <1>2, <3>1 DEF TypedText, TextOf
      <4>2. text[f] = Shown(context)
        BY <3>1
      <4>3. QED
        BY <4>1, <4>2, ShownText
    <3>2. CASE f = "Quant"
      <4>1. TypedText(f, m.quantization)
        BY <3>2 DEF TypedText
      <4>2. text[f] = Shown(m.quantization)
        BY <3>2
      <4>3. QED
        BY <4>1, <4>2, ShownText
    <3>3. CASE f # "Context" /\ f # "Quant"
      BY <3>3, ClearedText
    <3>4. QED
      BY <3>1, <3>2, <3>3
  <2> HIDE DEF text
  <2>3. QED
    BY <2>1, <2>2 DEF IsPanel, Panel
<1> HIDE DEF text
<1>4. /\ DOMAIN b = AppFields /\ b.rows \in Orders /\ Panels(b) /\ b.mode = "Plan"
      /\ Machine(b.real) /\ Machine(b.specs)
  BY <1>3 DEF AInv, AppFields, Panels
<1> HIDE DEF b
<1>5. QED
  BY <1>1, <1>4, Refreshed

(* The simulation popup shows the machine in tenths of a GB. *)
LEMMA OpenedSimulation ==
    ASSUME NEW a, AInv(a), a.mode # "Plan"
    PROVE  AInv(open_simulation_popup(a))
<1> DEFINE ram  == Tenths(a.specs.total_ram)
           vram == Tenths(orElse(a.specs.vram, 0))
           text == [Ram |-> Shown(ram), Vram |-> Shown(vram), CpuCores |-> Shown(a.specs.cores)]
           b    == [a EXCEPT !.mode = "Simulation", !.sim = Panel(text, "Ram")]
<1>1. ram \in Nat /\ vram \in Nat /\ a.specs.cores \in Nat
  <2>1. /\ a.specs.total_ram \in Nat /\ a.specs.cores \in Nat
        /\ orElse(a.specs.vram, 0) \in Nat
    BY DEF AInv, Machine, SystemSpecs, Optional, orElse
  <2>2. QED
    BY <2>1, TenthsIsNat
<1>2. open_simulation_popup(a) = b
  BY DEF open_simulation_popup
<1> HIDE DEF ram, vram
<1>3. IsPanel(Panel(text, "Ram"), SimSet)
  <2>1. "Ram" \in SimSet /\ DOMAIN text = SimSet
    BY Members
  <2>2. ASSUME NEW f \in SimSet PROVE text[f].len \in Nat /\ TypedText(f, text[f].parsed)
    <3>1. TypedText(f, ram) /\ TypedText(f, vram) /\ TypedText(f, a.specs.cores)
      BY <1>1, Members DEF TypedText, TextOf
    <3>2. text[f] \in {Shown(ram), Shown(vram), Shown(a.specs.cores)}
      BY Members
    <3> HIDE DEF text
    <3>3. QED
      BY <3>1, <3>2, ShownText
  <2> HIDE DEF text
  <2>3. QED
    BY <2>1, <2>2 DEF IsPanel, Panel
<1> HIDE DEF text
<1>4. QED
  BY <1>2, <1>3 DEF AInv, AppFields, Panels, PlanOK

(* The advanced configuration popup shows the factors. *)
LEMMA OpenedConfiguration ==
    ASSUME NEW a, AInv(a), a.mode # "Plan"
    PROVE  AInv(open_advanced_config_popup(a))
<1> DEFINE value(f) == CASE f = "Efficiency"   -> a.config.efficiency
                         [] f = "ContextCap"   -> a.config.cap
                         [] f = "DdrBandwidth" -> a.config.ddr
                         [] OTHER              -> a.config.factors[f]
           text == [f \in AdvSet |-> Shown(value(f))]
           b    == [a EXCEPT !.mode = "AdvancedConfig", !.dirty = FALSE,
                             !.adv = Panel(text, "Efficiency")]
<1>1. open_advanced_config_popup(a) = b
  BY DEF open_advanced_config_popup, AdvSet
<1> HIDE DEF value
<1>2. IsPanel(Panel(text, "Efficiency"), AdvSet)
  <2>1. "Efficiency" \in AdvSet /\ DOMAIN text = AdvSet
    BY Members
  <2>2. ASSUME NEW f \in AdvSet PROVE text[f].len \in Nat /\ TypedText(f, text[f].parsed)
    <3>1. \A x : TypedText(f, x)
      BY Members DEF TypedText
    <3>2. text[f] = Shown(value(f))
      OBVIOUS
    <3>3. QED
      BY <3>1, <3>2, ShownText
  <2> HIDE DEF text
  <2>3. QED
    BY <2>1, <2>2 DEF IsPanel, Panel
<1> HIDE DEF text
<1>3. QED
  BY <1>1, <1>2 DEF AInv, AppFields, Panels, PlanOK

(* Closing a popup leaves the machine and the configuration. *)
LEMMA Closed ==
    ASSUME NEW a, AInv(a), a.mode # "Plan"
    PROVE  AInv(close_simulation_popup(a)) /\ AInv(close_advanced_config_popup(a))
  BY DEF AInv, AppFields, Panels, PlanOK, close_simulation_popup, close_advanced_config_popup

(* A number a field of the simulation holds, or the machine's own. *)
LEMMA ParsedIsNat ==
    ASSUME NEW p, IsPanel(p, SimSet), NEW f \in SimSet, NEW default \in Nat
    PROVE  Parsed(p.text[f], default) \in Nat
<1>1. p.text[f].parsed \in TextOf(Nat)
  BY Members DEF IsPanel, TypedText
<1>2. QED
  BY <1>1 DEF Parsed, TextOf

(* The simulated machine replaces the real one in the analysis only. *)
LEMMA AppliedSimulation ==
    ASSUME NEW a, AInv(a), a.mode # "Plan", NEW rows \in Orders
    PROVE  /\ AInv(apply_simulation(a, rows))
           /\ AInv(close_simulation_popup(reset_simulation(a, rows)))
<1>1. a.estimate = None
  BY DEF AInv, PlanOK
<1>2. \A s : Machine(s) =>
        AInv([a EXCEPT !.specs = s, !.sim_active = TRUE, !.rows = rows, !.mode = "Normal"])
  BY <1>1 DEF AInv, AppFields, Panels, PlanOK
<1>3. AInv(apply_simulation(a, rows))
  <2> DEFINE of(f, real) == Parsed(a.sim.text[f], real)
             ram   == of("Ram", a.real.total_ram)
             vram  == of("Vram", orElse(a.real.vram, 0))
             cores == of("CpuCores", a.real.cores)
             machine == with_cpu_core_override(with_gpu_memory_override(
                          with_ram_override(a.real, ram), vram), cores)
  <2>1. /\ a.real.total_ram \in Nat /\ a.real.cores \in Nat /\ orElse(a.real.vram, 0) \in Nat
        /\ IsPanel(a.sim, SimSet)
    BY DEF AInv, Panels, Machine, SystemSpecs, Optional, orElse
  <2>2. ram \in Nat /\ vram \in Nat /\ cores \in Nat
    BY <2>1, ParsedIsNat, Members
  <2>3. apply_simulation(a, rows)
          = [a EXCEPT !.specs = machine, !.sim_active = TRUE, !.rows = rows, !.mode = "Normal"]
    BY DEF apply_simulation
  <2>4. Machine(a.real)
    BY DEF AInv
  <2> HIDE DEF ram, vram, cores
  <2>5. Machine(machine)
    BY <2>2, <2>4, SimulatedMachine
  <2> HIDE DEF machine
  <2>6. QED
    BY <1>2, <2>3, <2>5
<1>4. AInv(close_simulation_popup(reset_simulation(a, rows)))
  BY <1>1 DEF AInv, AppFields, Panels, PlanOK, close_simulation_popup, reset_simulation
<1>5. QED
  BY <1>3, <1>4

(* The advanced configuration changes the factors and the rows. *)
LEMMA AppliedConfiguration ==
    ASSUME NEW a, AInv(a), a.mode # "Plan", NEW rows \in Orders
    PROVE  AInv(apply_advanced_config(a, rows)) /\ AInv(reset_advanced_config(a, rows))
<1>1. a.estimate = None
  BY DEF AInv, PlanOK
<1>2. \A c : AInv([a EXCEPT !.config = c, !.rows = rows, !.mode = "Normal"])
  BY <1>1 DEF AInv, AppFields, Panels, PlanOK
<1>3. AInv(apply_advanced_config(a, rows))
  BY <1>2 DEF apply_advanced_config
<1>4. AInv(reset_advanced_config(a, rows))
  <2> DEFINE b == [a EXCEPT !.config = a.baseline, !.rows = rows]
  <2>1. AInv(b) /\ b.mode # "Plan"
    BY <1>1 DEF AInv, AppFields, Panels, PlanOK
  <2>2. reset_advanced_config(a, rows) = open_advanced_config_popup(b)
    BY DEF reset_advanced_config
  <2> HIDE DEF b
  <2>3. QED
    BY <2>1, <2>2, OpenedConfiguration
<1>5. QED
  BY <1>3, <1>4

(* The state a program starts in. *)
LEMMA StartedWell ==
    ASSUME NEW kind, NEW machine, Machine(machine), NEW config, NEW rows \in Orders
    PROVE  AInv(Started(kind, machine, config, rows))
<1>1. IsPanel(Blank(PlanFields), PlanSet)
  <2>1. PlanFields[1] = "Context" /\ "Context" \in PlanSet
    BY Members DEF PlanFields
  <2>2. QED
    BY <2>1, ClearedText DEF IsPanel, Blank, Panel, PlanSet
<1>2. IsPanel(Blank(SimFields), SimSet)
  <2>1. SimFields[1] = "Ram" /\ "Ram" \in SimSet
    BY Members DEF SimFields
  <2>2. QED
    BY <2>1, ClearedText DEF IsPanel, Blank, Panel, SimSet
<1>3. IsPanel(Blank(AdvFields), AdvSet)
  <2>1. AdvFields[1] = "Efficiency" /\ "Efficiency" \in AdvSet
    BY Members DEF AdvFields
  <2>2. QED
    BY <2>1, ClearedText DEF IsPanel, Blank, Panel, AdvSet
<1>4. QED
  BY <1>1, <1>2, <1>3 DEF Started, AInv, AppFields, Panels, PlanOK

-----------------------------------------------------------------------------
(* The answers of the command and the servers.                             *)

(* A name that is resolved is resolved to a model. *)
LEMMA Selected ==
    ASSUME NEW selector, resolve_model_selector(CatalogOf, selector) # Error
    PROVE  resolve_model_selector(CatalogOf, selector) \in CatalogOf
<1> DEFINE exact   == {m \in CatalogOf : m.words = selector}
           partial == {m \in CatalogOf : selector \subseteq m.words}
<1>1. Cardinality({}) = 0
  BY FS_EmptySet
<1>2. Cardinality(exact) = 1 => (CHOOSE m \in exact : TRUE) \in CatalogOf
  <2>1. Cardinality(exact) = 1 => exact # {}
    BY <1>1
  <2>2. exact # {} => (CHOOSE m \in exact : TRUE) \in exact
    OBVIOUS
  <2>3. QED
    BY <2>1, <2>2
<1>3. Cardinality(partial) = 1 => (CHOOSE m \in partial : TRUE) \in CatalogOf
  <2>1. Cardinality(partial) = 1 => partial # {}
    BY <1>1
  <2>2. partial # {} => (CHOOSE m \in partial : TRUE) \in partial
    OBVIOUS
  <2>3. QED
    BY <2>1, <2>2
<1> DEFINE one   == CHOOSE m \in exact : TRUE
           other == CHOOSE m \in partial : TRUE
<1>4. resolve_model_selector(CatalogOf, selector)
        = CASE selector = {} -> Error
            [] selector # {} /\ Cardinality(exact) = 1 -> one
            [] OTHER -> IF Cardinality(partial) = 1 THEN other ELSE Error
  BY DEF resolve_model_selector
<1> HIDE DEF one, other, exact, partial
<1>5. QED
  BY <1>2, <1>3, <1>4 DEF one, other

(* An answer put together from typed parts. *)
LEMMA AnswerParts ==
    ASSUME NEW m \in CatalogOf, NEW r, TypedRequest(r), NEW s, Machine(s), NEW config
    PROVE  AnswerOK(Answer(m, r, s, config))
<1> DEFINE plan == estimate_model_plan_with_config(m, r, s, config)
           x    == [model |-> m, request |-> r, specs |-> s, config |-> config, plan |-> plan]
<1>1. Answer(m, r, s, config) = x
  BY DEF Answer
<1>2. x.model = m /\ x.request = r /\ x.specs = s /\ x.config = config
  OBVIOUS
<1> HIDE DEF x
<1>3. x = Answer(x.model, x.request, x.specs, x.config)
  BY <1>1, <1>2
<1>4. QED
  BY <1>1, <1>2, <1>3 DEF AnswerOK

(* No answer and a refusal promise nothing. *)
LEMMA NoAnswer == AnswerOK(None) /\ AnswerOK(Error)
  BY DEF AnswerOK

(* A request as it is asked, and as the MCP server completes it. *)
LEMMA AskedIsTyped ==
    ASSUME NEW r \in Asked
    PROVE  /\ r.kv # Unparsable => TypedRequest(r)
           /\ \A given \in BOOLEAN :
                TypedRequest([r EXCEPT !.kv = None, !.context = IF given THEN @ ELSE 8])
  BY AskedAssumption DEF TypedRequest, TextOf

-----------------------------------------------------------------------------
(* The invariant.                                                          *)

(* A key of the TUI, one step per mode. *)
LEMMA KeyKeeps ==
    ASSUME AInv(app), Key
    PROVE  AInv(app')
<1> USE DEF Running
<1>1. CASE handle_normal_mode
  <2>1. app.mode = "Normal"
    BY <1>1 DEF handle_normal_mode, Press
  <2>2. QED
    BY <1>1, <2>1, OpenedPlan, OpenedSimulation, OpenedConfiguration DEF handle_normal_mode, Press
<1>2. CASE handle_plan_mode
  <2>1. app.mode = "Plan"
    BY <1>2 DEF handle_plan_mode, Press
  <2>2. QED
    BY <1>2, <2>1, PlanKeys, PlanEdits DEF handle_plan_mode, Press
<1>3. CASE handle_simulation_mode
  <2>1. app.mode # "Plan"
    BY <1>3 DEF handle_simulation_mode, Press
  <2>2. \A rows \in Orders : /\ AInv(apply_simulation(app, rows))
                             /\ AInv(close_simulation_popup(reset_simulation(app, rows)))
    BY <2>1, AppliedSimulation
  <2>3. AInv(close_simulation_popup(app))
    BY <2>1, Closed
  <2>4. QED
    BY <1>3, <2>2, <2>3, SimKeys, SimEdits DEF handle_simulation_mode, Press
<1>4. CASE handle_advanced_config_mode
  <2>1. app.mode # "Plan"
    BY <1>4 DEF handle_advanced_config_mode, Press
  <2>2. \A rows \in Orders : /\ AInv(apply_advanced_config(app, rows))
                             /\ AInv(reset_advanced_config(app, rows))
    BY <2>1, AppliedConfiguration
  <2>3. AInv(close_advanced_config_popup(app))
    BY <2>1, Closed
  <2>4. QED
    BY <1>4, <2>2, <2>3, AdvKeys, AdvEdits DEF handle_advanced_config_mode, Press
<1>5. CASE re_sort
  BY <1>5 DEF re_sort, AInv, AppFields, Panels, PlanOK
<1>6. QED
  BY <1>1, <1>2, <1>3, <1>4, <1>5 DEF Key

(* What a program starts with, and what the command answers. *)
LEMMA StartKeeps ==
    ASSUME IInv, Start
    PROVE  (app' # None => AInv(app')) /\ AnswerOK(answer')
<1>1. PICK machine \in Machines, o \in Overrides, kind \in {"tui", "server"} :
        \E found \in {detect_specs_and_config(machine.probe, o)} :
            IF found = None
                THEN answer' = Error /\ Ran(machine, o, {}, None) /\ UNCHANGED app
            ELSE /\ Ran(machine, o, {}, found[1])
                 /\ \E rows \in Orders : app' = Started(kind, found[1], found[2], rows)
                 /\ UNCHANGED answer
  BY DEF Start
<1> DEFINE found == detect_specs_and_config(machine.probe, o)
<1>2. found # None => Machine(found[1])
  BY StartedOnMachine
<1> HIDE DEF found
<1>3. CASE found = None
  BY <1>1, <1>3, NoAnswer DEF IInv, found
<1>4. CASE found # None
  <2>1. PICK rows \in Orders : app' = Started(kind, found[1], found[2], rows)
    BY <1>1, <1>4 DEF found
  <2>2. UNCHANGED answer
    BY <1>1, <1>4 DEF found
  <2>3. QED
    BY <1>2, <1>4, <2>1, <2>2, StartedWell DEF IInv
<1>5. QED
  BY <1>3, <1>4

(* The command plans on the machine it detects. *)
LEMMA CommandAnswers ==
    ASSUME run_plan
    PROVE  AnswerOK(answer')
<1>1. PICK machine \in Machines, o \in Overrides, selector \in Selectors, r \in Asked :
        \E found \in {detect_specs_and_config(machine.probe, o)},
           m \in {resolve_model_selector(CatalogOf, selector)} :
            IF found = None THEN answer' = Error /\ Ran(machine, o, {}, None)
            ELSE /\ Ran(machine, o, {}, found[1])
                 /\ answer' = IF m = Error \/ r.kv = Unparsable THEN Error
                              ELSE Answer(m, r, found[1], found[2])
  BY DEF run_plan
<1> DEFINE found == detect_specs_and_config(machine.probe, o)
           m     == resolve_model_selector(CatalogOf, selector)
<1>2. found # None => Machine(found[1])
  BY StartedOnMachine
<1>3. m # Error => m \in CatalogOf
  BY Selected
<1>4. \/ answer' = Error
      \/ /\ found # None /\ m # Error /\ r.kv # Unparsable
         /\ answer' = Answer(m, r, found[1], found[2])
  BY <1>1
<1> HIDE DEF found, m
<1>5. QED
  BY <1>2, <1>3, <1>4, NoAnswer, AskedIsTyped, AnswerParts

(* A server plans on the machine it started with, or on what the request   *)
(* replaces of it.                                                         *)
LEMMA ServerAnswers ==
    ASSUME IInv, plan_estimate \/ plan_hardware
    PROVE  AnswerOK(answer')
<1>1. Machine(app.specs)
  BY DEF IInv, AInv, plan_estimate, plan_hardware, Asks, Running
<1>2. ASSUME NEW selector, {m \in CatalogOf : m.words = selector} # {}
      PROVE  (CHOOSE m \in {m \in CatalogOf : m.words = selector} : TRUE) \in CatalogOf
  BY <1>2
<1>3. CASE plan_estimate
  <2>1. PICK local \in BOOLEAN, selector \in Selectors, r \in Asked, q \in ApiChoices :
          LET named == {m \in CatalogOf : m.words = selector}
              machine == effective_specs(app.specs, q)
          IN  answer' = IF ~local \/ named = {} \/ r.kv = Unparsable \/ machine = None THEN Error
                        ELSE Answer(CHOOSE m \in named : TRUE, r, machine, app.config)
    BY <1>3 DEF plan_estimate
  <2> DEFINE named == {m \in CatalogOf : m.words = selector}
             one   == CHOOSE m \in named : TRUE
             machine == effective_specs(app.specs, q)
  <2>2. \/ answer' = Error
        \/ /\ named # {} /\ r.kv # Unparsable /\ machine # None
           /\ answer' = Answer(one, r, machine, app.config)
    BY <2>1
  <2>3. named # {} => one \in CatalogOf
    BY <1>2
  <2>4. machine # None => Machine(machine)
    BY <1>1, EffectiveMachine
  <2> HIDE DEF named, one, machine
  <2>5. QED
    BY <2>2, <2>3, <2>4, NoAnswer, AskedIsTyped, AnswerParts
<1>4. CASE plan_hardware
  <2>1. PICK selector \in Selectors, r \in Asked, given \in BOOLEAN :
          LET named == {m \in CatalogOf : m.words = selector}
              asked == [r EXCEPT !.kv = None, !.context = IF given THEN @ ELSE 8]
          IN  answer' = IF named = {} THEN Error
                        ELSE Answer(CHOOSE m \in named : TRUE, asked, app.specs, app.config)
    BY <1>4 DEF plan_hardware
  <2> DEFINE named == {m \in CatalogOf : m.words = selector}
             one   == CHOOSE m \in named : TRUE
             asked == [r EXCEPT !.kv = None, !.context = IF given THEN @ ELSE 8]
  <2>2. \/ answer' = Error
        \/ named # {} /\ answer' = Answer(one, asked, app.specs, app.config)
    BY <2>1
  <2>3. named # {} => one \in CatalogOf
    BY <1>2
  <2>4. TypedRequest(asked)
    BY AskedIsTyped
  <2> HIDE DEF named, one, asked
  <2>5. QED
    BY <1>1, <2>2, <2>3, <2>4, NoAnswer, AnswerParts
<1>5. QED
  BY <1>3, <1>4

(* The invariant is inductive: one step per program. *)
LEMMA Inductive == IInv /\ [Next]_vars => IInv'
<1> SUFFICES ASSUME IInv, [Next]_vars PROVE IInv'
  OBVIOUS
<1>1. IInv' = ((app' # None => AInv(app')) /\ AnswerOK(answer'))
  BY DEF IInv
<1>2. CASE UNCHANGED <<app, answer>>
  BY <1>1, <1>2 DEF IInv
<1>3. CASE Start
  BY <1>1, <1>3, StartKeeps
<1>4. CASE run_plan
  <2>1. UNCHANGED app
    BY <1>4 DEF run_plan
  <2>2. QED
    BY <1>1, <1>4, <2>1, CommandAnswers DEF IInv
<1>5. CASE plan_estimate \/ plan_hardware
  <2>1. UNCHANGED app
    BY <1>5 DEF plan_estimate, plan_hardware
  <2>2. QED
    BY <1>1, <1>5, <2>1, ServerAnswers DEF IInv
<1>6. CASE Key
  <2>1. AInv(app) /\ UNCHANGED answer
    BY <1>6 DEF Key, Running, IInv
  <2>2. QED
    BY <1>1, <1>6, <2>1, KeyKeeps DEF IInv
<1>7. QED
  BY <1>2, <1>3, <1>4, <1>5, <1>6 DEF Next, vars, run_system

(* Before a program runs there is nothing to say. *)
LEMMA AtFirst == Init => IInv
  BY NoAnswer DEF Init, IInv

(* Each cursor lies in the text it edits, after every sequence of keys of  *)
(* the plan panel and the two popups: sim_input and adv_config_input       *)
(* insert at the cursor without a test of their own.                       *)
THEOREM CursorsAreInside == Spec => []CursorsInside
<1>1. IInv => CursorsInside
  BY DEF IInv, CursorsInside, AInv, Panels, IsPanel, Active, Running
<1>2. QED
  BY <1>1, AtFirst, Inductive, PTL DEF Spec

(* What the plan panel shows is what the estimator answers for the texts,  *)
(* the hardware and the configuration as they are: no key, popup or        *)
(* background sort leaves a plan of an earlier input on the screen.        *)
THEOREM ShownPlanIsCurrent == Spec => []PlanMatchesInputs
<1>1. IInv => PlanMatchesInputs
  BY DEF IInv, PlanMatchesInputs, AInv, PlanOK, Running
<1>2. QED
  BY <1>1, AtFirst, Inductive, PTL DEF Spec

(* A plan names its model and the target speed it was asked for. *)
LEMMA PlanNames ==
    ASSUME NEW m, NEW r, NEW s, NEW config,
           estimate_model_plan_with_config(m, r, s, config) # Error
    PROVE  LET plan == estimate_model_plan_with_config(m, r, s, config)
           IN  plan.model = m.name /\ plan.request.target = r.target
<1> DEFINE plan == estimate_model_plan_with_config(m, r, s, config)
           paths == Paths(m, r, s, config)
<1>1. Completed(m, r).target = r.target
  BY DEF Completed
<1>2. plan = PlanOn(m, Completed(m, r), s, config, paths)
  BY DEF estimate_model_plan_with_config, PlanFor, Paths
<1> HIDE DEF paths
<1>3. plan.model = m.name /\ plan.request = Completed(m, r)
  BY <1>2 DEF PlanOn
<1>4. QED
  BY <1>1, <1>3

(* The upgrade a plan without a target speed calls enough for Perfect is   *)
(* enough, for every model, machine, override, simulation and              *)
(* configuration, whether the TUI, the command, the API or the MCP server  *)
(* shows the plan: with that memory added, estimate_model_plan_with_config *)
(* puts the same request on the GPU, and perfectly.                        *)
THEOREM UpgradeReachesPerfectAlways == Spec => []UpgradeReachesPerfect
<1>1. ASSUME IInv, answer \notin {None, Error}, answer.plan # Error, answer.request.target = None
      PROVE  ReachesPerfect(answer.model, answer.request, answer.specs, answer.config, answer.plan)
  <2> DEFINE m == answer.model
             r == answer.request
             s == answer.specs
             config == answer.config
  <2>1. /\ answer = Answer(m, r, s, config) /\ m \in CatalogOf /\ TypedRequest(r) /\ Machine(s)
        /\ r.target = None
    BY <1>1 DEF IInv, AnswerOK
  <2>2. LlmModel(m) /\ Readable(r)
    BY <2>1, CatalogOfAssumption DEF TypedRequest, Readable
  <2>3. answer.plan = estimate_model_plan_with_config(m, r, s, config)
    BY <2>1 DEF Answer
  <2> HIDE DEF m, r, s, config
  <2>4. ReachesPerfect(m, r, s, config, answer.plan)
    BY <1>1, <2>1, <2>2, <2>3, UpgradeIsEnough
  <2>5. QED
    BY <2>4 DEF m, r, s, config
<1>2. ASSUME IInv, app # None, app.estimate # None, app.estimate.request.target = None
      PROVE  \E m \in CatalogOf :
                /\ m.name = app.estimate.model
                /\ ReachesPerfect(m, Request(app.plan.text), app.specs, app.config, app.estimate)
  <2> DEFINE r == Request(app.plan.text)
             s == app.specs
             config == app.config
             plan == app.estimate
  <2>1. AInv(app)
    BY <1>2 DEF IInv
  <2>2. /\ Machine(s) /\ IsPanel(app.plan, PlanSet) /\ Acceptable(r) /\ plan # Error
        /\ \E m \in CatalogOf : plan = estimate_model_plan_with_config(m, r, s, config)
    BY <1>2, <2>1 DEF AInv, Panels, PlanOK
  <2>3. PICK m \in CatalogOf : plan = estimate_model_plan_with_config(m, r, s, config)
    BY <2>2
  <2>4. TypedRequest(r)
    <3>1. /\ TypedText("Context", app.plan.text["Context"].parsed)
          /\ TypedText("KvQuant", app.plan.text["KvQuant"].parsed)
      BY <2>2, Members DEF IsPanel
    <3>2. QED
      BY <2>2, <3>1 DEF TypedRequest, Acceptable, Request, TypedText, TextOf
  <2> HIDE DEF r, s, config, plan
  <2>5. m.name = plan.model /\ r.target = None
    BY <1>2, <2>2, <2>3, PlanNames DEF plan
  <2>6. LlmModel(m) /\ Readable(r)
    BY <2>4, <2>5, CatalogOfAssumption DEF TypedRequest, Readable
  <2>7. ReachesPerfect(m, r, s, config, plan)
    BY <2>2, <2>3, <2>6, UpgradeIsEnough
  <2>8. QED
    BY <2>5, <2>7 DEF r, s, config, plan
<1>3. IInv => UpgradeReachesPerfect
  BY <1>1, <1>2 DEF UpgradeReachesPerfect
<1>4. QED
  BY <1>3, AtFirst, Inductive, PTL DEF Spec

-----------------------------------------------------------------------------
(* The search for a quantization.                                          *)

(* A list of quantizations. *)
Hierarchy(h) == DOMAIN h \subseteq Nat /\ \A i \in DOMAIN h : h[i] \in Quantizations

(* The contexts a model may be sized for: the one asked, or half of it. *)
Contexts(ctx) == {ctx} \cup (IF ctx >= 2 THEN {ctx \div 2} ELSE {})

(* They are numbers. *)
LEMMA ContextsAreNat == ASSUME NEW ctx \in Nat PROVE Contexts(ctx) \subseteq Nat
BY DEF Contexts

(* A found quantization is one of the model, sized for a context, and fits. *)
FoundIn(x, m, budget, ctx) ==
    x # None => /\ \E c \in Contexts(ctx) : x = Sized(m, x[1], c)
                /\ x[1] \in Quantizations /\ x[2] \in Nat /\ x[2] <= budget

(* The size of a quantization is a number, at least half a GB. *)
LEMMA SizedIsNat ==
    ASSUME NEW m, CatalogModel(m), NEW quant, NEW ctx \in Nat
    PROVE  estimate_memory_gb(m, quant, ctx) \in Nat /\ estimate_memory_gb(m, quant, ctx) >= 512
<1>1. LlmModel(m)
  BY DEF CatalogModel
<1>2. "fp16" \in ToSet(KvQuants)
  <2>1. KvQuants[1] = "fp16" /\ 1 \in DOMAIN KvQuants
    BY DEF KvQuants
  <2>2. QED
    BY <2>1 DEF ToSet
<1>3. QED
  BY <1>1, <1>2, MemoryIsNat DEF estimate_memory_gb

(* The first of a list that fits fits; when none is found none fits. *)
LEMMA FittingFirst ==
    ASSUME NEW m, CatalogModel(m), NEW h, Hierarchy(h), NEW budget, NEW ctx \in Nat,
           NEW half \in Contexts(ctx)
    PROVE  /\ FoundIn(FirstFitting(m, budget, half, h), m, budget, ctx)
           /\ FirstFitting(m, budget, half, h) = None <=>
                \A i \in DOMAIN h : ~ (estimate_memory_gb(m, h[i], half) <= budget)
<1> DEFINE x == FirstFitting(m, budget, half, h)
           enough == {i \in DOMAIN h : Sized(m, h[i], half)[2] <= budget}
<1>0. half \in Nat
  BY ContextsAreNat
<1>1. \A i \in DOMAIN h : Sized(m, h[i], half) = <<h[i], estimate_memory_gb(m, h[i], half)>>
  BY DEF Sized
<1>2. x = IF enough = {} THEN None ELSE Sized(m, h[Min(enough)], half)
  BY DEF FirstFitting
<1>3. CASE enough = {}
  <2>1. x = None
    BY <1>2, <1>3
  <2>2. \A i \in DOMAIN h : ~ (estimate_memory_gb(m, h[i], half) <= budget)
    BY <1>1, <1>3
  <2>3. QED
    BY <2>1, <2>2 DEF FoundIn
<1>4. CASE enough # {}
  <2>1. enough \subseteq Nat
    BY DEF Hierarchy
  <2> DEFINE i == Min(enough)
             size == estimate_memory_gb(m, h[i], half)
  <2>2. i \in enough
    BY <1>4, <2>1, LeastOf
  <2> HIDE DEF i, enough
  <2>3. i \in DOMAIN h /\ h[i] \in Quantizations
    BY <2>2 DEF Hierarchy, enough
  <2>4. size \in Nat
    BY <1>0, SizedIsNat
  <2>5. x = Sized(m, h[i], half)
    BY <1>2, <1>4 DEF i
  <2>6. x = <<h[i], size>>
    BY <2>5 DEF Sized
  <2>7. size <= budget
    BY <1>1, <2>2, <2>3 DEF enough
  <2> HIDE DEF size, x
  <2>8. x \in Quantizations \X Nat /\ x[1] = h[i] /\ x[2] = size
    BY <2>3, <2>4, <2>6
  <2>9. x # None
    BY <2>8, NoneAssumption
  <2>10. FoundIn(x, m, budget, ctx)
    BY <2>3, <2>4, <2>5, <2>7, <2>8 DEF FoundIn
  <2>11. ~ \A j \in DOMAIN h : ~ (estimate_memory_gb(m, h[j], half) <= budget)
    BY <2>3, <2>7 DEF size
  <2>12. QED
    BY <2>9, <2>10, <2>11 DEF x
<1>5. QED
  BY <1>3, <1>4

(* The lists of the runtimes are lists, and so is a model's own.           *)
LEMMA Hierarchies ==
    /\ \A m, runtime : Hierarchy(HierarchyFor(m, runtime))
    /\ Hierarchy(QUANT_HIERARCHY)
    /\ \A m : CatalogModel(m) => Hierarchy(<<m.quantization>>)
<1>1. Hierarchy(QUANT_HIERARCHY) /\ Hierarchy(MLX_QUANT_HIERARCHY) /\ Hierarchy(ONNX_QUANT_HIERARCHY)
  <2>1. Hierarchy(QUANT_HIERARCHY)
    <3>1. DOMAIN QUANT_HIERARCHY = 1..6
      BY DEF QUANT_HIERARCHY
    <3>2. \A i \in DOMAIN QUANT_HIERARCHY : QUANT_HIERARCHY[i] \in ToSet(QUANT_HIERARCHY)
      BY DEF ToSet
    <3>3. QED
      BY <3>1, <3>2 DEF Hierarchy, Quantizations
  <2>2. Hierarchy(MLX_QUANT_HIERARCHY)
    <3>1. DOMAIN MLX_QUANT_HIERARCHY = 1..2
      BY DEF MLX_QUANT_HIERARCHY
    <3>2. \A i \in DOMAIN MLX_QUANT_HIERARCHY : MLX_QUANT_HIERARCHY[i] \in ToSet(MLX_QUANT_HIERARCHY)
      BY DEF ToSet
    <3>3. QED
      BY <3>1, <3>2 DEF Hierarchy, Quantizations
  <2>3. Hierarchy(ONNX_QUANT_HIERARCHY)
    <3>1. DOMAIN ONNX_QUANT_HIERARCHY = 1..2
      BY DEF ONNX_QUANT_HIERARCHY
    <3>2. \A i \in DOMAIN ONNX_QUANT_HIERARCHY : ONNX_QUANT_HIERARCHY[i] \in ToSet(ONNX_QUANT_HIERARCHY)
      BY DEF ToSet
    <3>3. QED
      BY <3>1, <3>2 DEF Hierarchy, Quantizations
  <2>4. QED
    BY <2>1, <2>2, <2>3
<1>2. \A m, runtime : HierarchyFor(m, runtime) \in {QUANT_HIERARCHY, MLX_QUANT_HIERARCHY, ONNX_QUANT_HIERARCHY}
  BY DEF HierarchyFor
<1>3. ASSUME NEW m, CatalogModel(m) PROVE Hierarchy(<<m.quantization>>)
  <2> DEFINE q == m.quantization
  <2>1. q \in Quantizations
    BY <1>3 DEF CatalogModel
  <2> HIDE DEF q
  <2>2. Hierarchy(<<q>>)
    <3>1. DOMAIN <<q>> \subseteq Nat /\ \A i \in DOMAIN <<q>> : <<q>>[i] = q
      OBVIOUS
    <3>2. QED
      BY <2>1, <3>1 DEF Hierarchy
  <2>3. QED
    BY <2>2 DEF q
<1>4. QED
  BY <1>1, <1>2, <1>3
(* A longer search finds what its parts find. *)
LEMMA FoundByBoth ==
    ASSUME NEW x, NEW y, NEW m, NEW budget, NEW ctx,
           FoundIn(x, m, budget, ctx), FoundIn(y, m, budget, ctx)
    PROVE  FoundIn(orElse(x, y), m, budget, ctx)
BY DEF FoundIn, orElse

(* What is found in a budget fits into it, and with more memory something  *)
(* is found still: with a list of quantizations, at a context or at half.  *)
LEMMA BudgetSearch ==
    ASSUME NEW m, CatalogModel(m), NEW h, Hierarchy(h), NEW ctx \in Nat,
           NEW budget \in Nat, NEW more \in Nat, budget <= more
    PROVE  /\ FoundIn(best_quant_for_budget_with(m, budget, ctx, h), m, budget, ctx)
           /\ best_quant_for_budget_with(m, budget, ctx, h) # None
                => best_quant_for_budget_with(m, more, ctx, h) # None
           /\ FirstFitting(m, budget, ctx, h) # None => FirstFitting(m, more, ctx, h) # None
<1>1. FoundIn(None, m, budget, ctx)
  BY DEF FoundIn
<1>2. ASSUME NEW c \in Contexts(ctx)
      PROVE  /\ FoundIn(FirstFitting(m, budget, c, h), m, budget, ctx)
             /\ FirstFitting(m, budget, c, h) # None => FirstFitting(m, more, c, h) # None
  <2>1. FoundIn(FirstFitting(m, budget, c, h), m, budget, ctx)
    BY FittingFirst
  <2>2. \A i \in DOMAIN h : estimate_memory_gb(m, h[i], c) \in Nat
    BY ContextsAreNat, SizedIsNat
  <2>3. \A i \in DOMAIN h : estimate_memory_gb(m, h[i], c) <= budget
                              => estimate_memory_gb(m, h[i], c) <= more
    BY <2>2
  <2>4. FirstFitting(m, budget, c, h) = None <=>
                \A i \in DOMAIN h : ~ (estimate_memory_gb(m, h[i], c) <= budget)
    BY FittingFirst
  <2>5. FirstFitting(m, more, c, h) = None <=>
                \A i \in DOMAIN h : ~ (estimate_memory_gb(m, h[i], c) <= more)
    BY FittingFirst
  <2>6. QED
    BY <2>1, <2>3, <2>4, <2>5
<1>3. ctx \in Contexts(ctx) /\ (ctx >= 2 => ctx \div 2 \in Contexts(ctx))
  BY DEF Contexts
<1> DEFINE half == ctx \div 2
<1> HIDE DEF half
<1>4. /\ FoundIn(FirstFitting(m, budget, ctx, h), m, budget, ctx)
      /\ FirstFitting(m, budget, ctx, h) # None => FirstFitting(m, more, ctx, h) # None
  BY <1>2, <1>3
<1>5. ctx >= 2 =>
        /\ FoundIn(FirstFitting(m, budget, half, h), m, budget, ctx)
        /\ FirstFitting(m, budget, half, h) # None => FirstFitting(m, more, half, h) # None
  BY <1>2, <1>3 DEF half
<1> DEFINE second(b) == IF ctx >= 2 THEN FirstFitting(m, b, half, h) ELSE None
<1>6. \A b : best_quant_for_budget_with(m, b, ctx, h) = orElse(FirstFitting(m, b, ctx, h), second(b))
  BY DEF best_quant_for_budget_with, half
<1>7. FoundIn(second(budget), m, budget, ctx) /\ (second(budget) # None => second(more) # None)
  BY <1>1, <1>5
<1> HIDE DEF second
<1>8. FoundIn(best_quant_for_budget_with(m, budget, ctx, h), m, budget, ctx)
  BY <1>4, <1>6, <1>7, FoundByBoth
<1>9. best_quant_for_budget_with(m, budget, ctx, h) # None
          => best_quant_for_budget_with(m, more, ctx, h) # None
  BY <1>4, <1>6, <1>7 DEF orElse
<1>10. QED
  BY <1>4, <1>8, <1>9

(* The same of the search of a runtime, for which vLLM takes the model as  *)
(* it is and MLX falls back to the list of GGUF.                           *)
LEMMA RuntimeSearch ==
    ASSUME NEW m, CatalogModel(m), NEW runtime, NEW ctx \in Nat,
           NEW budget \in Nat, NEW more \in Nat, budget <= more
    PROVE  /\ FoundIn(best_quant_for_runtime_budget(m, runtime, budget, ctx), m, budget, ctx)
           /\ best_quant_for_runtime_budget(m, runtime, budget, ctx) # None
                => best_quant_for_runtime_budget(m, runtime, more, ctx) # None
<1> DEFINE own == <<m.quantization>>
           list == HierarchyFor(m, runtime)
<1>1. Hierarchy(own) /\ Hierarchy(list) /\ Hierarchy(QUANT_HIERARCHY)
  BY Hierarchies
<1>2. FoundIn(None, m, budget, ctx)
  BY DEF FoundIn
<1> HIDE DEF own, list
<1>3. CASE runtime = "Vllm"
  <2>1. \A b : best_quant_for_runtime_budget(m, runtime, b, ctx) = FirstFitting(m, b, ctx, own)
    BY <1>3 DEF best_quant_for_runtime_budget, own
  <2>2. ctx \in Contexts(ctx)
    BY DEF Contexts
  <2>3. FoundIn(FirstFitting(m, budget, ctx, own), m, budget, ctx)
    BY <1>1, <2>2, FittingFirst
  <2>4. FirstFitting(m, budget, ctx, own) # None => FirstFitting(m, more, ctx, own) # None
    BY <1>1, BudgetSearch
  <2>5. QED
    BY <2>1, <2>3, <2>4
<1>4. CASE runtime # "Vllm"
  <2> DEFINE first(b) == best_quant_for_budget_with(m, b, ctx, list)
             gguf(b) == best_quant_for_budget_with(m, b, ctx, QUANT_HIERARCHY)
             then(b) == IF runtime = "Mlx" THEN gguf(b) ELSE None
  <2>1. \A b : best_quant_for_runtime_budget(m, runtime, b, ctx) = orElse(first(b), then(b))
    BY <1>4 DEF best_quant_for_runtime_budget, SearchQuant, best_quant_for_budget, list
  <2>2. FoundIn(first(budget), m, budget, ctx) /\ (first(budget) # None => first(more) # None)
    BY <1>1, BudgetSearch
  <2>3. FoundIn(gguf(budget), m, budget, ctx) /\ (gguf(budget) # None => gguf(more) # None)
    BY <1>1, BudgetSearch
  <2> HIDE DEF first, gguf
  <2>4. FoundIn(then(budget), m, budget, ctx) /\ (then(budget) # None => then(more) # None)
    BY <1>2, <2>3
  <2> HIDE DEF then
  <2>5. FoundIn(orElse(first(budget), then(budget)), m, budget, ctx)
    BY <2>2, <2>4, FoundByBoth
  <2>6. QED
    BY <2>1, <2>2, <2>4, <2>5 DEF orElse
<1>5. QED
  BY <1>3, <1>4

-----------------------------------------------------------------------------
(* The ways to run a model.                                                *)

(* A machine the program may run on, and one of the same kind with more. *)
LEMMA MemoryOf ==
    ASSUME NEW s \in Systems
    PROVE  /\ s.ram \in Nat /\ orElse(s.total_vram, 0) \in Nat
           /\ s.vram = None \/ s.vram \in Nat
           /\ s.total_vram = None \/ s.total_vram \in Nat
BY SystemsAssumption DEF Optional, orElse

(* What a machine with more memory has, and what it shares. *)
LEMMA MoreMemoryOf ==
    ASSUME NEW s \in Systems, NEW t \in Systems, MoreMemory(s, t)
    PROVE  /\ s.ram <= t.ram /\ orElse(s.total_vram, 0) <= orElse(t.total_vram, 0)
           /\ (s.vram = None <=> t.vram = None) /\ (s.vram # None => s.vram <= t.vram)
           /\ (s.total_vram = None <=> t.total_vram = None)
           /\ (s.total_vram # None => s.total_vram <= t.total_vram)
           /\ s.has_gpu = t.has_gpu /\ s.unified = t.unified
           /\ s.cluster = t.cluster /\ s.backend = t.backend
<1>1. s.ram <= t.ram
  BY MemoryOf DEF MoreMemory
<1>2. /\ (s.vram = None <=> t.vram = None) /\ (s.vram # None => s.vram <= t.vram)
      /\ (s.total_vram = None <=> t.total_vram = None)
      /\ (s.total_vram # None => s.total_vram <= t.total_vram)
  BY MemoryOf DEF MoreMemory, AtLeast
<1>3. /\ s.has_gpu = t.has_gpu /\ s.unified = t.unified
      /\ s.cluster = t.cluster /\ s.backend = t.backend
  <2>1. \A f \in {"has_gpu", "unified", "cluster", "backend"} :
            f \in DOMAIN s \ {"ram", "vram", "total_vram"}
    BY SystemsAssumption
  <2>2. QED
    BY <2>1 DEF MoreMemory
<1>4. orElse(s.total_vram, 0) <= orElse(t.total_vram, 0)
  BY <1>2 DEF orElse
<1>5. QED
  BY <1>1, <1>2, <1>3, <1>4

(* The size of what is found, or of the model as it is: once it fits it    *)
(* fits into more memory, although another quantization may be found.      *)
LEMMA SizeGrows ==
    ASSUME NEW m, CatalogModel(m), NEW runtime, NEW ctx \in Nat,
           NEW budget \in Nat, NEW more \in Nat, budget <= more,
           SizeOr(best_quant_for_runtime_budget(m, runtime, budget, ctx), m, ctx) <= budget
    PROVE  SizeOr(best_quant_for_runtime_budget(m, runtime, more, ctx), m, ctx) <= more
<1> DEFINE x == best_quant_for_runtime_budget(m, runtime, budget, ctx)
           y == best_quant_for_runtime_budget(m, runtime, more, ctx)
           whole == estimate_memory_gb(m, m.quantization, ctx)
<1>1. (x # None => y # None) /\ FoundIn(x, m, budget, ctx)
  BY RuntimeSearch
<1>2. FoundIn(y, m, more, ctx)
  <2>1. more <= more
    OBVIOUS
  <2>2. QED
    BY <2>1, RuntimeSearch
<1>3. whole \in Nat
  BY SizedIsNat
<1> HIDE DEF x, y, whole
<1>4. SizeOr(x, m, ctx) = (IF x = None THEN whole ELSE x[2])
  BY DEF SizeOr, whole
<1>5. SizeOr(y, m, ctx) = (IF y = None THEN whole ELSE y[2])
  BY DEF SizeOr, whole
<1>6. SizeOr(x, m, ctx) <= budget
  BY DEF x
<1>7. CASE y # None
  BY <1>2, <1>5, <1>7 DEF FoundIn, y
<1>8. CASE y = None
  <2>1. whole <= budget
    BY <1>1, <1>4, <1>6, <1>8
  <2>2. QED
    BY <1>3, <1>5, <1>8, <2>1 DEF y
<1>9. QED
  BY <1>7, <1>8

(* What the experts take. *)
LEMMA ExpertsAreNat ==
    ASSUME NEW params \in Nat, NEW quant
    PROVE  ExpertMemory(params, quant_bpp(quant)) \in Nat
<1> DEFINE bits == params * quant_bpp(quant)
           gb   == bits \div 100
<1>1. bits \in Nat
  BY BppIsNat, Product
<1> HIDE DEF bits
<1>2. gb \in Nat
  BY <1>1, Quotient
<1> HIDE DEF gb
<1>3. gb * 954 \in Nat
  BY <1>2
<1>4. (gb * 954) \div 1000 \in Nat
  BY <1>3, Quotient
<1>5. QED
  BY <1>4 DEF ExpertMemory, gb, bits

(* The greater of two integers is one of them, and not less than either. *)
LEMMA GreaterOf ==
    ASSUME NEW x \in Int, NEW y \in Int
    PROVE  Max({x, y}) \in {x, y} /\ Max({x, y}) >= x /\ Max({x, y}) >= y
<1>1. \E z \in {x, y} : \A w \in {x, y} : z >= w
  OBVIOUS
<1>2. QED
  BY <1>1 DEF Max

(* What a split into active and other experts takes of each memory. *)
LEMMA SplitIsNat ==
    ASSUME NEW m, CatalogModel(m), NEW quant, moe_memory_for_quant(m, quant) # None
    PROVE  /\ moe_memory_for_quant(m, quant)[1] \in Nat
           /\ moe_memory_for_quant(m, quant)[2] \in Nat
<1>1. m.active \in Nat /\ m.parameters \in Nat
  BY DEF moe_memory_for_quant, CatalogModel, LlmModel, Optional
<1> DEFINE on   == ExpertMemory(m.active, quant_bpp(quant))
           rest == Max({0, m.parameters - m.active})
<1>2. on \in Nat
  BY <1>1, ExpertsAreNat
<1>3. rest \in Nat
  <2> DEFINE x == m.parameters - m.active
  <2>1. x \in Int
    BY <1>1
  <2> HIDE DEF x
  <2>2. Max({0, x}) \in {0, x} /\ Max({0, x}) >= 0
    BY <2>1, GreaterOf
  <2>3. QED
    BY <2>1, <2>2 DEF x
<1> HIDE DEF on, rest
<1>4. (on * 11) \div 10 \in Nat
  <2>1. on * 11 \in Nat
    BY <1>2
  <2>2. QED
    BY <2>1, Quotient
<1> DEFINE used == (on * 11) \div 10
<1> HIDE DEF used
<1>5. Max({512, used}) \in Nat
  <2>1. used \in Nat
    BY <1>4 DEF used
  <2>2. Max({512, used}) \in {512, used}
    BY <2>1, GreaterOf
  <2>3. QED
    BY <2>1, <2>2
<1>6. ExpertMemory(rest, quant_bpp(quant)) \in Nat
  BY <1>3, ExpertsAreNat
<1>7. moe_memory_for_quant(m, quant) = <<Max({512, used}), ExpertMemory(rest, quant_bpp(quant))>>
  BY DEF moe_memory_for_quant, used, on, rest
<1>8. QED
  BY <1>5, <1>6, <1>7

(* The quantizations an offload tries are those of one list, or of two. *)
Tried(m, runtime) ==
    HierarchyFor(m, runtime) \o (IF runtime = "Mlx" THEN QUANT_HIERARCHY ELSE <<>>)

(* They are listed. *)
LEMMA TriedIsListed == \A m, runtime : DOMAIN Tried(m, runtime) \subseteq Nat
<1> DEFINE All == ToSet(QUANT_HIERARCHY) \cup ToSet(MLX_QUANT_HIERARCHY) \cup ToSet(ONNX_QUANT_HIERARCHY)
<1>1. QUANT_HIERARCHY \in Seq(All)
  <2>1. \A i \in 1..6 : QUANT_HIERARCHY[i] \in ToSet(QUANT_HIERARCHY)
    BY DEF QUANT_HIERARCHY, ToSet
  <2>2. DOMAIN QUANT_HIERARCHY = 1..6
    BY DEF QUANT_HIERARCHY
  <2>3. QUANT_HIERARCHY = [i \in 1..6 |-> QUANT_HIERARCHY[i]]
    BY DEF QUANT_HIERARCHY
  <2> HIDE DEF All
  <2>4. \A i \in 1..6 : QUANT_HIERARCHY[i] \in All
    BY <2>1 DEF All
  <2>5. QED
    BY <2>2, <2>3, <2>4
<1>2. MLX_QUANT_HIERARCHY \in Seq(All)
  BY DEF MLX_QUANT_HIERARCHY, ToSet
<1>3. ONNX_QUANT_HIERARCHY \in Seq(All)
  BY DEF ONNX_QUANT_HIERARCHY, ToSet
<1> HIDE DEF All
<1>4. ASSUME NEW m, NEW runtime PROVE DOMAIN Tried(m, runtime) \subseteq Nat
  <2> DEFINE a == HierarchyFor(m, runtime)
             b == IF runtime = "Mlx" THEN QUANT_HIERARCHY ELSE <<>>
  <2>1. a \in {QUANT_HIERARCHY, MLX_QUANT_HIERARCHY, ONNX_QUANT_HIERARCHY}
    BY DEF HierarchyFor
  <2>2. a \in Seq(All) /\ b \in Seq(All)
    BY <1>1, <1>2, <1>3, <2>1
  <2> HIDE DEF a, b
  <2>3. a \o b \in Seq(All)
    BY <2>2
  <2>4. DOMAIN (a \o b) \subseteq Nat
    BY <2>3
  <2>5. QED
    BY <2>4 DEF Tried, a, b
<1>5. QED
  BY <1>4

(* Experts that fit beside each other, or a model that fits into the RAM,  *)
(* still do with more memory.  What fits nowhere is said to need the VRAM. *)
LEMMA OffloadGrows ==
    ASSUME NEW m, CatalogModel(m), NEW runtime, NEW s, NEW t, NEW vram \in Nat, NEW more \in Nat,
           s.ram \in Nat, t.ram \in Nat, s.ram <= t.ram, vram <= more,
           NEW need \in Nat, ~ (need <= vram),
           moe_offload_path(m, s, vram, need, runtime).required
                <= moe_offload_path(m, s, vram, need, runtime).available
    PROVE  moe_offload_path(m, t, more, need, runtime).required
                <= moe_offload_path(m, t, more, need, runtime).available
<1> DEFINE tried == Tried(m, runtime)
           split(i) == moe_memory_for_quant(m, tried[i])
           fitting(w, v) == {i \in DOMAIN tried :
                               split(i) # None /\ split(i)[1] <= v /\ split(i)[2] <= w.ram}
           path(w, v) == moe_offload_path(m, w, v, need, runtime)
<1>1. \A w, v : path(w, v) =
          CASE fitting(w, v) # {} -> Path("MoeOffload", split(Min(fitting(w, v)))[1], v)
            [] fitting(w, v) = {} /\ m.min_ram <= w.ram -> Path("CpuOffload", m.min_ram, w.ram)
            [] OTHER -> Path("Gpu", need, v)
  BY DEF moe_offload_path, Tried
<1>2. \A i : split(i) # None => split(i)[1] \in Nat /\ split(i)[2] \in Nat
  BY SplitIsNat
<1>3. DOMAIN tried \subseteq Nat
  BY TriedIsListed
<1>4. m.min_ram \in Nat
  BY DEF CatalogModel
<1>5. \A mode, required, available :
         /\ Path(mode, required, available).required = required
         /\ Path(mode, required, available).available = available
  BY DEF Path
<1> HIDE DEF tried, split, path
<1>6. \A w, v : fitting(w, v) # {} =>
        LET i == Min(fitting(w, v)) IN i \in fitting(w, v)
  <2>1. \A w, v : fitting(w, v) \subseteq Nat
    BY <1>3
  <2> HIDE DEF fitting
  <2>2. QED
    BY <2>1, LeastOf
<1>7. fitting(s, vram) \subseteq fitting(t, more)
  BY <1>2
<1> DEFINE F == fitting(s, vram)
           G == fitting(t, more)
<1>8. G # {} => split(Min(G))[1] <= more
  BY <1>6
<1>9. /\ path(s, vram) = CASE F # {} -> Path("MoeOffload", split(Min(F))[1], vram)
                           [] F = {} /\ m.min_ram <= s.ram -> Path("CpuOffload", m.min_ram, s.ram)
                           [] OTHER -> Path("Gpu", need, vram)
      /\ path(t, more) = CASE G # {} -> Path("MoeOffload", split(Min(G))[1], more)
                           [] G = {} /\ m.min_ram <= t.ram -> Path("CpuOffload", m.min_ram, t.ram)
                           [] OTHER -> Path("Gpu", need, more)
  BY <1>1
<1>10. F \subseteq G
  BY <1>7
<1>11. path(s, vram).required <= path(s, vram).available
  BY DEF path
<1> HIDE DEF F, G, fitting
<1>12. CASE G # {}
  <2>1. path(t, more) = Path("MoeOffload", split(Min(G))[1], more)
    BY <1>9, <1>12
  <2>2. path(t, more).required <= path(t, more).available
    BY <1>5, <1>8, <1>12, <2>1
  <2>3. QED
    BY <2>2 DEF path
<1>13. CASE G = {}
  <2>1. F = {}
    BY <1>10, <1>13
  <2>2. m.min_ram <= s.ram
    <3>1. SUFFICES ASSUME ~ (m.min_ram <= s.ram) PROVE FALSE
      OBVIOUS
    <3>2. path(s, vram) = Path("Gpu", need, vram)
      BY <1>9, <2>1, <3>1
    <3>3. QED
      BY <1>5, <1>11, <3>2
  <2>3. m.min_ram <= t.ram
    BY <1>4, <2>2
  <2>4. path(t, more) = Path("CpuOffload", m.min_ram, t.ram)
    BY <1>9, <1>13, <2>3
  <2>5. path(t, more).required <= path(t, more).available
    BY <1>5, <2>3, <2>4
  <2>6. QED
    BY <2>5 DEF path
<1>14. QED
  BY <1>12, <1>13

(* The VRAM a model is said to need. *)
LEMMA MinVramIsNat == ASSUME NEW m, CatalogModel(m) PROVE MinVram(m) \in Nat
BY DEF MinVram, CatalogModel, Optional, orElse

(* On a discrete GPU: whichever way a model takes that loads, with more    *)
(* memory it takes that one or an earlier one, and loads.                  *)
LEMMA DiscreteGrows ==
    ASSUME NEW m, CatalogModel(m), NEW runtime, NEW ctx \in Nat,
           NEW s, NEW t, s.ram \in Nat, t.ram \in Nat, s.ram <= t.ram,
           s.total_vram \in Nat, t.total_vram \in Nat, s.total_vram <= t.total_vram,
           LET best(budget) == best_quant_for_runtime_budget(m, runtime, budget, ctx)
               path == DiscretePath(m, s, runtime, ctx, best(s.total_vram), best(s.ram))
           IN  path.required <= path.available
    PROVE  LET best(budget) == best_quant_for_runtime_budget(m, runtime, budget, ctx)
               path == DiscretePath(m, t, runtime, ctx, best(t.total_vram), best(t.ram))
           IN  path.required <= path.available
<1> DEFINE best(budget) == best_quant_for_runtime_budget(m, runtime, budget, ctx)
           way(w) == DiscretePath(m, w, runtime, ctx, best(w.total_vram), best(w.ram))
           v    == s.total_vram
           more == t.total_vram
           need == MinVram(m)
           whole == estimate_memory_gb(m, m.quantization, ctx)
           moved(w) == moe_offload_path(m, w, w.total_vram, need, runtime)
<1>1. v \in Nat /\ more \in Nat /\ v <= more
  OBVIOUS
<1>2. need \in Nat
  BY MinVramIsNat
<1>3. whole \in Nat
  BY SizedIsNat
<1>4. \A b \in Nat : best(b) # None => best(b)[2] \in Nat /\ best(b)[2] <= b
  <2>1. \A b \in Nat : b <= b
    OBVIOUS
  <2>2. \A b \in Nat : FoundIn(best(b), m, b, ctx)
    BY <2>1, RuntimeSearch
  <2>3. QED
    BY <2>2 DEF FoundIn
<1>5. best(v) # None => best(more) # None
  BY RuntimeSearch
<1>6. best(s.ram) # None => best(t.ram) # None
  BY RuntimeSearch
<1>7. \A w : way(w) =
          IF m.is_moe /\ need <= w.total_vram THEN Path("Gpu", need, w.total_vram)
          ELSE IF best(w.total_vram) # None THEN Path("Gpu", best(w.total_vram)[2], w.total_vram)
          ELSE IF m.is_moe THEN moved(w)
          ELSE IF best(w.ram) # None THEN Path("CpuOffload", best(w.ram)[2], w.ram)
          ELSE Path("Gpu", whole, w.total_vram)
  BY DEF DiscretePath
<1>8. way(s).required <= way(s).available
  OBVIOUS
<1>9. \A mode, required, available :
         /\ Path(mode, required, available).required = required
         /\ Path(mode, required, available).available = available
  BY DEF Path
<1>10. ASSUME ~ (need <= v), moved(s).required <= moved(s).available
       PROVE  moved(t).required <= moved(t).available
  BY <1>2, <1>10, OffloadGrows
<1> SUFFICES way(t).required <= way(t).available
  OBVIOUS
<1> HIDE DEF best, way, need, whole, moved
<1>11. CASE m.is_moe /\ need <= more
  BY <1>7, <1>9, <1>11
<1>12. CASE ~ (m.is_moe /\ need <= more) /\ best(more) # None
  BY <1>1, <1>4, <1>7, <1>9, <1>12
<1>13. CASE ~ (m.is_moe /\ need <= more) /\ best(more) = None /\ m.is_moe
  <2>1. ~ (need <= more) /\ ~ (need <= v) /\ best(v) = None
    BY <1>1, <1>2, <1>5, <1>13
  <2>2. way(s) = moved(s) /\ way(t) = moved(t)
    BY <1>7, <1>13, <2>1
  <2>3. moved(s).required <= moved(s).available
    BY <1>8, <2>2
  <2>4. QED
    BY <1>10, <2>1, <2>2, <2>3
<1>14. CASE best(more) = None /\ ~m.is_moe /\ best(t.ram) # None
  BY <1>4, <1>7, <1>9, <1>14
<1>15. CASE best(more) = None /\ ~m.is_moe /\ best(t.ram) = None
  <2>1. best(v) = None /\ best(s.ram) = None
    BY <1>5, <1>6, <1>15
  <2>2. way(s) = Path("Gpu", whole, v) /\ way(t) = Path("Gpu", whole, more)
    BY <1>7, <1>15, <2>1
  <2>3. whole <= v
    BY <1>8, <1>9, <2>2
  <2>4. whole <= more
    BY <1>1, <1>3, <2>3
  <2>5. QED
    BY <1>9, <2>2, <2>4
<1>16. QED
  BY <1>11, <1>12, <1>13, <1>14, <1>15

(* Whatever the machine: a model that loads loads with more memory.        *)
LEMMA PathGrows ==
    ASSUME NEW m, CatalogModel(m), NEW runtime, NEW ctx \in Nat,
           NEW s \in Systems, NEW t \in Systems, MoreMemory(s, t),
           PathFor(m, s, runtime, ctx).required <= PathFor(m, s, runtime, ctx).available
    PROVE  PathFor(m, t, runtime, ctx).required <= PathFor(m, t, runtime, ctx).available
<1> DEFINE best(budget) == best_quant_for_runtime_budget(m, runtime, budget, ctx)
           size(budget) == SizeOr(best(budget), m, ctx)
           total(w) == orElse(w.total_vram, 0)
           discrete(w) == DiscretePath(m, w, runtime, ctx, best(total(w)), best(w.ram))
           way(w) == PathFor(m, w, runtime, ctx)
<1>1. /\ s.ram <= t.ram /\ total(s) <= total(t)
      /\ (s.vram = None <=> t.vram = None) /\ (s.vram # None => s.vram <= t.vram)
      /\ (s.total_vram = None <=> t.total_vram = None)
      /\ (s.total_vram # None => s.total_vram <= t.total_vram)
      /\ s.has_gpu = t.has_gpu /\ s.unified = t.unified
      /\ s.cluster = t.cluster /\ s.backend = t.backend
  BY MoreMemoryOf
<1>2. /\ s.ram \in Nat /\ total(s) \in Nat /\ t.ram \in Nat /\ total(t) \in Nat
      /\ (s.vram = None \/ s.vram \in Nat) /\ (t.vram = None \/ t.vram \in Nat)
      /\ (s.total_vram = None \/ s.total_vram \in Nat)
      /\ (t.total_vram = None \/ t.total_vram \in Nat)
  BY MemoryOf
<1>3. \A w : way(w) =
          IF w.cluster THEN Path("TensorParallel", size(total(w)), total(w))
          ELSE IF w.has_gpu /\ w.unified /\ w.vram # None
              THEN Path("Gpu", IF m.is_moe THEN MinVram(m) ELSE size(w.vram), w.vram)
          ELSE IF w.has_gpu /\ ~w.unified /\ w.total_vram # None THEN discrete(w)
          ELSE Path("CpuOnly", IF m.is_moe THEN m.min_ram ELSE size(w.ram), w.ram)
  BY DEF PathFor, cpu_path
<1>4. \A mode, required, available :
         /\ Path(mode, required, available).required = required
         /\ Path(mode, required, available).available = available
  BY DEF Path
<1>5. \A b \in Nat, more \in Nat : b <= more /\ size(b) <= b => size(more) <= more
  BY SizeGrows
<1>6. MinVram(m) \in Nat /\ m.min_ram \in Nat
  BY MinVramIsNat DEF CatalogModel
<1>7. ASSUME s.total_vram # None, discrete(s).required <= discrete(s).available
      PROVE  discrete(t).required <= discrete(t).available
  <2>1. /\ s.total_vram \in Nat /\ t.total_vram \in Nat /\ s.total_vram <= t.total_vram
        /\ total(s) = s.total_vram /\ total(t) = t.total_vram
    BY <1>1, <1>2, <1>7 DEF orElse
  <2>2. discrete(s) = DiscretePath(m, s, runtime, ctx, best(s.total_vram), best(s.ram))
    BY <2>1
  <2>3. discrete(t) = DiscretePath(m, t, runtime, ctx, best(t.total_vram), best(t.ram))
    BY <2>1
  <2> HIDE DEF discrete
  <2>4. QED
    BY <1>1, <1>2, <1>7, <2>1, <2>2, <2>3, DiscreteGrows
<1>8. way(s).required <= way(s).available
  OBVIOUS
<1> SUFFICES way(t).required <= way(t).available
  OBVIOUS
<1> HIDE DEF size, discrete, way, total
<1>9. CASE s.cluster
  <2>1. way(s) = Path("TensorParallel", size(total(s)), total(s))
    BY <1>3, <1>9
  <2>2. way(t) = Path("TensorParallel", size(total(t)), total(t))
    BY <1>1, <1>3, <1>9
  <2>3. size(total(s)) <= total(s)
    BY <1>4, <1>8, <2>1
  <2>4. size(total(t)) <= total(t)
    BY <1>1, <1>2, <1>5, <2>3
  <2>5. QED
    BY <1>4, <2>2, <2>4
<1>10. CASE ~s.cluster /\ s.has_gpu /\ s.unified /\ s.vram # None
  <2>1. way(s) = Path("Gpu", IF m.is_moe THEN MinVram(m) ELSE size(s.vram), s.vram)
    BY <1>3, <1>10
  <2>2. ~t.cluster /\ t.has_gpu /\ t.unified /\ t.vram # None
    BY <1>1, <1>10
  <2>3. way(t) = Path("Gpu", IF m.is_moe THEN MinVram(m) ELSE size(t.vram), t.vram)
    BY <1>3, <2>2
  <2>4. s.vram \in Nat /\ t.vram \in Nat /\ s.vram <= t.vram
    BY <1>1, <1>2, <1>10, <2>2
  <2>5. CASE m.is_moe
    <3>1. MinVram(m) <= s.vram
      BY <1>4, <1>8, <2>1, <2>5
    <3>2. MinVram(m) <= t.vram
      BY <1>6, <2>4, <3>1
    <3>3. QED
      BY <1>4, <2>3, <2>5, <3>2
  <2>6. CASE ~m.is_moe
    <3>1. size(s.vram) <= s.vram
      BY <1>4, <1>8, <2>1, <2>6
    <3>2. size(t.vram) <= t.vram
      BY <1>5, <2>4, <3>1
    <3>3. QED
      BY <1>4, <2>3, <2>6, <3>2
  <2>7. QED
    BY <2>5, <2>6
<1>11. CASE ~s.cluster /\ s.has_gpu /\ ~s.unified /\ s.total_vram # None
  <2>1. way(s) = discrete(s) /\ way(t) = discrete(t)
    BY <1>1, <1>3, <1>11
  <2>2. QED
    BY <1>7, <1>8, <1>11, <2>1
<1>12. CASE /\ ~s.cluster /\ ~ (s.has_gpu /\ s.unified /\ s.vram # None)
            /\ ~ (s.has_gpu /\ ~s.unified /\ s.total_vram # None)
  <2>1. /\ ~t.cluster /\ ~ (t.has_gpu /\ t.unified /\ t.vram # None)
        /\ ~ (t.has_gpu /\ ~t.unified /\ t.total_vram # None)
    BY <1>1, <1>12
  <2>2. way(s) = Path("CpuOnly", IF m.is_moe THEN m.min_ram ELSE size(s.ram), s.ram)
    BY <1>3, <1>12
  <2>3. way(t) = Path("CpuOnly", IF m.is_moe THEN m.min_ram ELSE size(t.ram), t.ram)
    BY <1>3, <2>1
  <2>4. QED
    BY <1>1, <1>2, <1>4, <1>5, <1>6, <1>8, <2>2, <2>3
<1>13. QED
  BY <1>9, <1>10, <1>11, <1>12

(* A dense model away from a cluster is sized for the pool of its path: by *)
(* what is found for that pool, or as it is when nothing is.               *)
LEMMA DensePath ==
    ASSUME NEW m, NEW runtime, NEW ctx, NEW s, ~m.is_moe, ~s.cluster
    PROVE  LET path == PathFor(m, s, runtime, ctx)
           IN  path.required =
                  SizeOr(best_quant_for_runtime_budget(m, runtime, path.available, ctx), m, ctx)
<1> DEFINE best(budget) == best_quant_for_runtime_budget(m, runtime, budget, ctx)
           whole == estimate_memory_gb(m, m.quantization, ctx)
           size(budget) == SizeOr(best(budget), m, ctx)
           total == orElse(s.total_vram, 0)
           path == PathFor(m, s, runtime, ctx)
<1>1. \A b : size(b) = IF best(b) = None THEN whole ELSE best(b)[2]
  BY DEF SizeOr
<1>2. path = IF s.has_gpu /\ s.unified /\ s.vram # None THEN Path("Gpu", size(s.vram), s.vram)
             ELSE IF s.has_gpu /\ ~s.unified /\ s.total_vram # None
                 THEN DiscretePath(m, s, runtime, ctx, best(total), best(s.ram))
             ELSE Path("CpuOnly", size(s.ram), s.ram)
  BY DEF PathFor, cpu_path
<1>3. DiscretePath(m, s, runtime, ctx, best(total), best(s.ram)) =
          IF best(total) # None THEN Path("Gpu", best(total)[2], s.total_vram)
          ELSE IF best(s.ram) # None THEN Path("CpuOffload", best(s.ram)[2], s.ram)
          ELSE Path("Gpu", whole, s.total_vram)
  BY DEF DiscretePath
<1>4. \A mode, required, available :
         /\ Path(mode, required, available).required = required
         /\ Path(mode, required, available).available = available
  BY DEF Path
<1>5. s.total_vram # None => total = s.total_vram
  BY DEF orElse
<1> SUFFICES path.required = size(path.available)
  OBVIOUS
<1> HIDE DEF path, best, size, whole, total
<1>6. CASE s.has_gpu /\ s.unified /\ s.vram # None
  BY <1>2, <1>4, <1>6
<1>7. CASE ~ (s.has_gpu /\ s.unified /\ s.vram # None) /\ s.has_gpu /\ ~s.unified /\ s.total_vram # None
  <2>1. path = DiscretePath(m, s, runtime, ctx, best(total), best(s.ram))
    BY <1>2, <1>7
  <2>2. CASE best(total) # None
    <3>1. path = Path("Gpu", best(total)[2], total)
      BY <1>3, <1>5, <1>7, <2>1, <2>2
    <3>2. QED
      BY <1>1, <1>4, <2>2, <3>1
  <2>3. CASE best(total) = None /\ best(s.ram) # None
    <3>1. path = Path("CpuOffload", best(s.ram)[2], s.ram)
      BY <1>3, <2>1, <2>3
    <3>2. QED
      BY <1>1, <1>4, <2>3, <3>1
  <2>4. CASE best(total) = None /\ best(s.ram) = None
    <3>1. path = Path("Gpu", whole, total)
      BY <1>3, <1>5, <1>7, <2>1, <2>4
    <3>2. QED
      BY <1>1, <1>4, <2>4, <3>1
  <2>5. QED
    BY <2>2, <2>3, <2>4
<1>8. CASE /\ ~ (s.has_gpu /\ s.unified /\ s.vram # None)
           /\ ~ (s.has_gpu /\ ~s.unified /\ s.total_vram # None)
  <2>1. path = Path("CpuOnly", size(s.ram), s.ram)
    BY <1>2, <1>8
  <2>2. QED
    BY <1>4, <2>1
<1>9. QED
  BY <1>6, <1>7, <1>8

(* The memory of a machine's paths is a number. *)
LEMMA PathAvailable ==
    ASSUME NEW m, NEW runtime, NEW ctx, NEW s \in Systems
    PROVE  PathFor(m, s, runtime, ctx).available \in Nat
<1>1. /\ s.ram \in Nat /\ orElse(s.total_vram, 0) \in Nat
      /\ (s.vram = None \/ s.vram \in Nat) /\ (s.total_vram = None \/ s.total_vram \in Nat)
  BY MemoryOf
<1>2. \A mode, required, available : Path(mode, required, available).available = available
  BY DEF Path
<1> DEFINE best(b) == best_quant_for_runtime_budget(m, runtime, b, ctx)
           discrete == DiscretePath(m, s, runtime, ctx, best(orElse(s.total_vram, 0)), best(s.ram))
<1>3. moe_offload_path(m, s, s.total_vram, MinVram(m), runtime).available \in {s.total_vram, s.ram}
  <2> DEFINE split(i) == moe_memory_for_quant(m, Tried(m, runtime)[i])
             fitting == {i \in DOMAIN Tried(m, runtime) :
                            split(i) # None /\ split(i)[1] <= s.total_vram /\ split(i)[2] <= s.ram}
             on == split(Min(fitting))[1]
             way == moe_offload_path(m, s, s.total_vram, MinVram(m), runtime)
  <2>1. way = CASE fitting # {} -> Path("MoeOffload", on, s.total_vram)
                [] fitting = {} /\ m.min_ram <= s.ram -> Path("CpuOffload", m.min_ram, s.ram)
                [] OTHER -> Path("Gpu", MinVram(m), s.total_vram)
    BY DEF moe_offload_path, Tried
  <2> HIDE DEF on, way
  <2>2. \/ way = Path("MoeOffload", on, s.total_vram)
        \/ way = Path("CpuOffload", m.min_ram, s.ram)
        \/ way = Path("Gpu", MinVram(m), s.total_vram)
    BY <2>1
  <2>3. QED
    BY <1>2, <2>2 DEF way
<1>4. discrete.available \in {s.total_vram, s.ram}
  BY <1>2, <1>3 DEF DiscretePath
<1>5. cpu_path(m, s, runtime, ctx).available = s.ram
  BY <1>2 DEF cpu_path
<1> HIDE DEF discrete
<1>6. s.total_vram # None => discrete.available \in Nat
  BY <1>1, <1>4
<1> DEFINE dense == SizeOr(best(s.vram), m, ctx)
           all == SizeOr(best(orElse(s.total_vram, 0)), m, ctx)
<1>7. PathFor(m, s, runtime, ctx) =
          IF s.cluster THEN Path("TensorParallel", all, orElse(s.total_vram, 0))
          ELSE IF s.has_gpu /\ s.unified /\ s.vram # None
              THEN Path("Gpu", IF m.is_moe THEN MinVram(m) ELSE dense, s.vram)
          ELSE IF s.has_gpu /\ ~s.unified /\ s.total_vram # None THEN discrete
          ELSE cpu_path(m, s, runtime, ctx)
  BY DEF PathFor, discrete
<1> HIDE DEF dense, all, best
<1>8. QED
  BY <1>1, <1>2, <1>5, <1>6, <1>7

(* The quantization shown is the one the path was sized for: at the        *)
(* context asked, or at half of it.                                        *)
LEMMA ShownQuant ==
    ASSUME NEW m, CatalogModel(m), NEW runtime, runtime = "Vllm" <=> is_prequantized(m),
           NEW ctx \in Nat, NEW path, path.available \in Nat
    PROVE  \E c \in Contexts(ctx) :
              SizeOr(best_quant_for_runtime_budget(m, runtime, path.available, ctx), m, ctx)
                  = estimate_memory_gb(m, BestQuant(m, path, runtime, ctx), c)
<1> DEFINE x == best_quant_for_runtime_budget(m, runtime, path.available, ctx)
           own == <<m.quantization>>
           quant == BestQuant(m, path, runtime, ctx)
<1>1. FoundIn(x, m, path.available, ctx)
  <2>1. path.available <= path.available
    OBVIOUS
  <2>2. QED
    BY <2>1, RuntimeSearch
<1>2. ctx \in Contexts(ctx)
  BY DEF Contexts
<1>3. CASE is_prequantized(m)
  <2>1. quant = m.quantization
    BY <1>3 DEF BestQuant
  <2>2. x = FirstFitting(m, path.available, ctx, own)
    BY <1>3 DEF best_quant_for_runtime_budget
  <2>3. DOMAIN own = 1..1 /\ own[1] = m.quantization
    OBVIOUS
  <2> HIDE DEF own
  <2>4. x = None \/ \E i \in DOMAIN own : x = Sized(m, own[i], ctx)
    <3> DEFINE enough == {i \in DOMAIN own : Sized(m, own[i], ctx)[2] <= path.available}
    <3>1. x = IF enough = {} THEN None ELSE Sized(m, own[Min(enough)], ctx)
      BY <2>2 DEF FirstFitting
    <3>2. enough # {} => Min(enough) \in enough
      <4>1. enough \subseteq Nat
        BY <2>3
      <4> HIDE DEF enough
      <4>2. QED
        BY <4>1, LeastOf
    <3>3. QED
      BY <3>1, <3>2
  <2>5. x = None \/ x = Sized(m, m.quantization, ctx)
    BY <2>3, <2>4
  <2>6. SizeOr(x, m, ctx) = estimate_memory_gb(m, m.quantization, ctx)
    BY <2>5 DEF SizeOr, Sized
  <2>7. QED
    BY <1>2, <2>1, <2>6
<1>4. CASE ~is_prequantized(m)
  <2>1. x = SearchQuant(m, runtime, path.available, ctx)
    BY <1>4 DEF best_quant_for_runtime_budget
  <2>2. quant = orElse(x, <<m.quantization>>)[1]
    BY <1>4, <2>1 DEF BestQuant
  <2> HIDE DEF x, quant
  <2>3. CASE x = None
    <3>1. quant = m.quantization
      BY <2>2, <2>3 DEF orElse
    <3>2. SizeOr(x, m, ctx) = estimate_memory_gb(m, quant, ctx)
      BY <2>3, <3>1 DEF SizeOr
    <3>3. QED
      BY <1>2, <3>2 DEF x, quant
  <2>4. CASE x # None
    <3>1. quant = x[1] /\ SizeOr(x, m, ctx) = x[2]
      BY <2>2, <2>4 DEF orElse, SizeOr
    <3>2. PICK c \in Contexts(ctx) : x = Sized(m, x[1], c)
      BY <1>1, <2>4 DEF FoundIn
    <3>3. x[2] = estimate_memory_gb(m, x[1], c)
      BY <3>2 DEF Sized
    <3>4. QED
      BY <3>1, <3>3 DEF x, quant
  <2>5. QED
    BY <2>3, <2>4
<1>5. QED
  BY <1>3, <1>4

-----------------------------------------------------------------------------
(* The analysis of a model, for what a start asked.                        *)

(* The configuration, the limit and the runtime a request stands for. *)
ConfigOf(r) == IF r.config = None THEN CalcConfig ELSE [r.config EXCEPT !.cap = orElse(r.limit, @)]

LimitOf(r) == IF r.config = None THEN r.limit ELSE ConfigOf(r).cap

ForcedOf(r) == IF r.config = None THEN r.forced ELSE None

(* The context a model is sized for. *)
CtxOf(m, r) == EstimationCtx(m, LimitOf(r), ConfigOf(r))

(* An analysis is that of the inner function for all of them. *)
LEMMA AnalysisIsInner ==
    ASSUME NEW m, NEW s, NEW r
    PROVE  Analysis(m, s, r) = analyze_inner(m, s, LimitOf(r), ForcedOf(r), ConfigOf(r))
<1>1. CASE r.config = None
  BY <1>1 DEF Analysis, analyze_with_forced_runtime, LimitOf, ForcedOf, ConfigOf
<1>2. CASE r.config # None
  BY <1>2 DEF Analysis, analyze_with_optional_config, analyze_with_config, LimitOf, ForcedOf, ConfigOf
<1>3. QED
  BY <1>1, <1>2

(* The context is a number. *)
LEMMA CtxIsNat ==
    ASSUME NEW m, CatalogModel(m), NEW r \in Requests
    PROVE  CtxOf(m, r) \in Nat
<1>1. m.context \in Nat
  BY DEF CatalogModel, LlmModel
<1>2. r.limit = None \/ r.limit \in Nat
  BY RequestsAssumption DEF Optional
<1>3. ConfigOf(r).cap = None \/ ConfigOf(r).cap \in Nat
  <2>1. CASE r.config = None
    BY <2>1 DEF ConfigOf, CalcConfig
  <2>2. CASE r.config # None
    <3>1. "cap" \in DOMAIN r.config /\ (r.config.cap = None \/ r.config.cap \in Nat)
      BY <2>2, RequestsAssumption DEF Optional
    <3>2. ConfigOf(r).cap = orElse(r.limit, r.config.cap)
      BY <2>2, <3>1 DEF ConfigOf
    <3>3. QED
      BY <1>2, <3>1, <3>2 DEF orElse
  <2>3. QED
    BY <2>1, <2>2
<1>4. LimitOf(r) = None \/ LimitOf(r) \in Nat
  BY <1>2, <1>3 DEF LimitOf
<1> DEFINE all == {m.context, orElse(LimitOf(r), 8), orElse(ConfigOf(r).cap, m.context)}
<1>5. all \subseteq Nat /\ all # {}
  BY <1>1, <1>3, <1>4 DEF orElse
<1>6. CtxOf(m, r) = Min(all)
  BY DEF CtxOf, EstimationCtx
<1> HIDE DEF all
<1>7. QED
  BY <1>5, <1>6, LeastOf

(* What the properties read of a row. *)
RowFields == {"model", "level", "mode", "required", "available", "quant", "ctx", "tps",
              "calibration", "measured"}

(* A row on a path. *)
LEMMA RowOnPath ==
    ASSUME NEW m, NEW s, NEW config, NEW ctx, NEW runtime, NEW path
    PROVE  LET f == FitAlong(m, s, config, ctx, runtime, path)
           IN  /\ RowFields \subseteq DOMAIN f /\ f.model = m
               /\ f.level = score_fit(path.required, path.available, path.mode)
               /\ f.required = path.required /\ f.available = path.available
               /\ f.quant = BestQuant(m, path, runtime, ctx) /\ f.ctx = ctx
<1> DEFINE quant == BestQuant(m, path, runtime, ctx)
           speed == estimate_tps(m, quant, s, path.mode, runtime, config)
<1>1. FitAlong(m, s, config, ctx, runtime, path) = FitOn(m, s, config, ctx, runtime, path, quant, speed)
  BY DEF FitAlong, FitWith
<1> HIDE DEF quant, speed
<1>2. LET f == FitOn(m, s, config, ctx, runtime, path, quant, speed)
      IN  /\ RowFields \subseteq DOMAIN f /\ f.model = m
          /\ f.level = score_fit(path.required, path.available, path.mode)
          /\ f.required = path.required /\ f.available = path.available
          /\ f.quant = quant /\ f.ctx = ctx
  BY DEF FitOn, RowFields
<1>3. QED
  BY <1>1, <1>2 DEF quant

(* A row of a model nothing here runs. *)
LEMMA RowUnsupported ==
    ASSUME NEW m, NEW ctx
    PROVE  LET f == UnsupportedFit(m, ctx)
           IN  /\ RowFields \subseteq DOMAIN f /\ f.model = m /\ f.level = "TooTight"
               /\ f.required = estimate_memory_gb(m, m.quantization, ctx) /\ f.available = 0
               /\ f.ctx = ctx
BY DEF UnsupportedFit, RowFields

(* An analysis says of its model what the path to run it takes. *)
LEMMA AnalysisParts ==
    ASSUME NEW m, NEW s, NEW r
    PROVE  LET ctx     == CtxOf(m, r)
               runtime == RuntimeFor(m, s, ForcedOf(r))
               path    == PathFor(m, s, runtime, ctx)
               f       == Analysis(m, s, r)
           IN  /\ RowFields \subseteq DOMAIN f /\ f.model = m /\ f.ctx = ctx
               /\ requires_specialized_runtime(m) =>
                    /\ f.level = "TooTight" /\ f.available = 0
                    /\ f.required = estimate_memory_gb(m, m.quantization, ctx)
               /\ ~requires_specialized_runtime(m) =>
                    /\ f.required = path.required /\ f.available = path.available
                    /\ f.quant = BestQuant(m, path, runtime, ctx)
<1> DEFINE ctx     == CtxOf(m, r)
           runtime == RuntimeFor(m, s, ForcedOf(r))
           path    == PathFor(m, s, runtime, ctx)
           f       == Analysis(m, s, r)
<1>1. f = IF requires_specialized_runtime(m) THEN UnsupportedFit(m, ctx)
          ELSE FitAlong(m, s, ConfigOf(r), ctx, runtime, path)
  BY AnalysisIsInner DEF analyze_inner, CtxOf
<1> HIDE DEF ctx, runtime, path, f
<1>2. CASE requires_specialized_runtime(m)
  BY <1>1, <1>2, RowUnsupported DEF ctx, runtime, path, f
<1>3. CASE ~requires_specialized_runtime(m)
  <2>1. f = FitAlong(m, s, ConfigOf(r), ctx, runtime, path)
    BY <1>1, <1>3
  <2>2. /\ RowFields \subseteq DOMAIN f /\ f.model = m /\ f.ctx = ctx
        /\ f.required = path.required /\ f.available = path.available
        /\ f.quant = BestQuant(m, path, runtime, ctx)
    BY <2>1, RowOnPath
  <2>3. QED
    BY <1>3, <2>2 DEF ctx, runtime, path, f
<1>4. QED
  BY <1>2, <1>3

(* A dense model's analysis shows the quantization its memory is for. *)
LEMMA AnalysisShowsQuant ==
    ASSUME NEW m, CatalogModel(m), ~m.is_moe, NEW s \in Systems, ~s.cluster,
           NEW r \in Requests, r.forced = None, Analysis(m, s, r).level # "TooTight"
    PROVE  LET f == Analysis(m, s, r)
           IN  \E c \in Contexts(f.ctx) : f.required = estimate_memory_gb(m, f.quant, c)
<1> DEFINE ctx     == CtxOf(m, r)
           runtime == RuntimeFor(m, s, ForcedOf(r))
           path    == PathFor(m, s, runtime, ctx)
           f       == Analysis(m, s, r)
<1>1. /\ f.ctx = ctx /\ f.required = path.required
      /\ f.quant = BestQuant(m, path, runtime, ctx)
  BY AnalysisParts
<1>2. ctx \in Nat
  BY CtxIsNat
<1>3. ForcedOf(r) = None
  BY DEF ForcedOf
<1>4. runtime = "Vllm" <=> is_prequantized(m)
  BY <1>3 DEF RuntimeFor
<1> HIDE DEF f, runtime, ctx
<1>5. path.available \in Nat
  BY PathAvailable
<1>6. path.required = SizeOr(best_quant_for_runtime_budget(m, runtime, path.available, ctx), m, ctx)
  BY DensePath
<1> HIDE DEF path
<1>7. \E c \in Contexts(ctx) : path.required = estimate_memory_gb(m, BestQuant(m, path, runtime, ctx), c)
  BY <1>2, <1>4, <1>5, <1>6, ShownQuant
<1>8. QED
  BY <1>1, <1>7 DEF f

(* What an analysis says loads does so with more memory. *)
LEMMA AnalysisGrows ==
    ASSUME NEW m, CatalogModel(m), NEW s \in Systems, NEW t \in Systems, MoreMemory(s, t),
           NEW r \in Requests, Analysis(m, s, r).required <= Analysis(m, s, r).available
    PROVE  Analysis(m, t, r).required <= Analysis(m, t, r).available
<1> DEFINE ctx     == CtxOf(m, r)
           runtime == RuntimeFor(m, s, ForcedOf(r))
<1>1. ctx \in Nat
  BY CtxIsNat
<1>2. runtime = RuntimeFor(m, t, ForcedOf(r))
  <2>1. s.cluster = t.cluster /\ s.backend = t.backend /\ s.unified = t.unified
    BY MoreMemoryOf
  <2>2. QED
    BY <2>1 DEF RuntimeFor
<1> DEFINE whole == estimate_memory_gb(m, m.quantization, ctx)
<1> HIDE DEF ctx, runtime
<1>3. CASE requires_specialized_runtime(m)
  <2>1. whole \in Nat /\ whole >= 512
    BY <1>1, SizedIsNat
  <2>2. Analysis(m, s, r).required = whole /\ Analysis(m, s, r).available = 0
    BY <1>3, AnalysisParts DEF ctx
  <2> HIDE DEF whole
  <2>3. ~ (whole <= 0)
    BY <2>1
  <2>4. QED
    BY <2>2, <2>3
<1>4. CASE ~requires_specialized_runtime(m)
  <2>1. /\ Analysis(m, s, r).required = PathFor(m, s, runtime, ctx).required
        /\ Analysis(m, s, r).available = PathFor(m, s, runtime, ctx).available
    BY <1>4, AnalysisParts DEF ctx, runtime
  <2>2. /\ Analysis(m, t, r).required = PathFor(m, t, runtime, ctx).required
        /\ Analysis(m, t, r).available = PathFor(m, t, runtime, ctx).available
    BY <1>2, <1>4, AnalysisParts DEF ctx
  <2>3. PathFor(m, s, runtime, ctx).required <= PathFor(m, s, runtime, ctx).available
    BY <2>1
  <2>4. PathFor(m, t, runtime, ctx).required <= PathFor(m, t, runtime, ctx).available
    BY <1>1, <2>3, PathGrows
  <2>5. QED
    BY <2>2, <2>4
<1>5. QED
  BY <1>3, <1>4

-----------------------------------------------------------------------------
(* What always holds.                                                      *)

(* A row says of its model what the analysis says, its speed aside. *)
RowOK(f, s, r) ==
    /\ CatalogModel(f.model) /\ RowFields \subseteq DOMAIN f
    /\ LET a == Analysis(f.model, s, r)
       IN  /\ f.level = a.level /\ f.required = a.required /\ f.available = a.available
           /\ f.quant = a.quant /\ f.ctx = a.ctx

RowsOK(rows, s, r) == \A f \in rows : RowOK(f, s, r)

(* The files hold what the program, the user or an update wrote: the cache *)
(* models of any version, or nothing that can be read.                     *)
FilesOK ==
    /\ release \in DOMAIN Releases /\ custom \in Customs \cup {None}
    /\ \A v : \A m \in load_cache(cache, v) : CatalogModel(m)
    /\ updating # None => \A m \in updating.cached : CatalogModel(m)

(* The rows on show are of the machine and the question of the last start. *)
FitInv ==
    /\ FilesOK
    /\ fits # {} => specs \in Systems /\ request \in Requests
    /\ RowsOK(fits, specs, request)

(* A row keeps what it says of its model when its speed is calibrated or a *)
(* measurement is set beside it.                                           *)
LEMMA SpeedsKeepRow ==
    ASSUME NEW f, NEW s, NEW r, RowOK(f, s, r), NEW x, NEW y
    PROVE  /\ RowOK([f EXCEPT !.tps = x, !.calibration = y], s, r)
           /\ RowOK([f EXCEPT !.measured = x], s, r)
<1> DEFINE g == [f EXCEPT !.tps = x, !.calibration = y]
           h == [f EXCEPT !.measured = x]
<1>1. RowFields \subseteq DOMAIN f
  BY DEF RowOK
<1>2. /\ DOMAIN g = DOMAIN f /\ g.model = f.model /\ g.level = f.level /\ g.required = f.required
      /\ g.available = f.available /\ g.quant = f.quant /\ g.ctx = f.ctx
  BY <1>1 DEF RowFields
<1>3. /\ DOMAIN h = DOMAIN f /\ h.model = f.model /\ h.level = f.level /\ h.required = f.required
      /\ h.available = f.available /\ h.quant = f.quant /\ h.ctx = f.ctx
  BY <1>1 DEF RowFields
<1> HIDE DEF g, h
<1>4. RowOK(g, s, r)
  BY <1>2 DEF RowOK
<1>5. RowOK(h, s, r)
  BY <1>3 DEF RowOK
<1>6. QED
  BY <1>4, <1>5 DEF g, h

(* A calibration keeps every row. *)
LEMMA CalibrationKeepsRows ==
    ASSUME NEW rows, NEW s, NEW r, RowsOK(rows, s, r)
    PROVE  RowsOK(apply_local_calibration(rows), s, r)
<1> DEFINE factor == LocalFactor(rows)
<1>1. apply_local_calibration(rows) = IF factor = None THEN rows ELSE {Scaled(f, factor) : f \in rows}
  BY DEF apply_local_calibration, ScaledRows
<1> HIDE DEF factor
<1>2. ASSUME NEW f \in rows PROVE RowOK(Scaled(f, factor), s, r)
  <2>1. RowOK(f, s, r)
    BY DEF RowsOK
  <2> DEFINE speed == Times(uncalibrated(f), factor)
  <2>2. Scaled(f, factor) = f \/ Scaled(f, factor) = [f EXCEPT !.tps = speed, !.calibration = factor]
    BY DEF Scaled
  <2> HIDE DEF speed
  <2>3. RowOK([f EXCEPT !.tps = speed, !.calibration = factor], s, r)
    BY <2>1, SpeedsKeepRow
  <2>4. QED
    BY <2>1, <2>2, <2>3
<1>3. QED
  BY <1>1, <1>2 DEF RowsOK

(* The rows of a start are those of the analysis. *)
LEMMA BuiltRows ==
    ASSUME NEW models, \A m \in models : CatalogModel(m), NEW s, NEW r, NEW store
    PROVE  RowsOK(build_fits(models, s, r, store), s, r)
<1> DEFINE row(m) == [Analysis(m, s, r) EXCEPT !.measured = Measured(m, s, store)]
           rows == {row(m) : m \in rankable_models(models, s)}
<1>1. ASSUME NEW m \in rankable_models(models, s) PROVE RowOK(row(m), s, r)
  <2>1. CatalogModel(m)
    BY DEF rankable_models
  <2> DEFINE a == Analysis(m, s, r)
             x == Measured(m, s, store)
  <2>2. RowFields \subseteq DOMAIN a /\ a.model = m
    BY AnalysisParts
  <2>3. RowOK(a, s, r)
    BY <2>1, <2>2 DEF RowOK
  <2> HIDE DEF a, x
  <2>4. RowOK([a EXCEPT !.measured = x], s, r)
    BY <2>3, SpeedsKeepRow
  <2>5. QED
    BY <2>4 DEF a, x
<1> HIDE DEF row
<1>2. RowsOK(rows, s, r)
  BY <1>1 DEF RowsOK
<1>3. build_fits(models, s, r, store) = apply_local_calibration(rows)
  BY DEF build_fits, row
<1> HIDE DEF rows
<1>4. QED
  BY <1>2, <1>3, CalibrationKeepsRows

(* A benchmark that ends keeps what the rows say of their models. *)
LEMMA RefreshedRows ==
    ASSUME NEW old, NEW s, NEW r, RowsOK(old, s, r), NEW store
    PROVE  RowsOK(refresh_local_measured_tps(old, s, store), s, r)
<1> DEFINE best(f) == [source |-> "LocalBench", tps |-> store[s][f.model.slug]]
           row(f) == IF store[s][f.model.slug] = None THEN f ELSE [f EXCEPT !.measured = best(f)]
           rows == {row(f) : f \in old}
<1>1. refresh_local_measured_tps(old, s, store) = apply_local_calibration(rows)
  BY DEF refresh_local_measured_tps
<1> HIDE DEF best
<1>2. ASSUME NEW f \in old PROVE RowOK(row(f), s, r)
  <2>1. RowOK(f, s, r)
    BY DEF RowsOK
  <2>2. RowOK([f EXCEPT !.measured = best(f)], s, r)
    BY <2>1, SpeedsKeepRow
  <2>3. QED
    BY <2>1, <2>2
<1> HIDE DEF row
<1>3. RowsOK(rows, s, r)
  BY <1>2 DEF RowsOK
<1> HIDE DEF rows
<1>4. QED
  BY <1>1, <1>3, CalibrationKeepsRows

(* A correction of the active parameters keeps a model one, and its slug. *)
LEMMA PublishedKeeps ==
    ASSUME NEW m, CatalogModel(m)
    PROVE  /\ CatalogModel(apply_published_moe_active(m))
           /\ apply_published_moe_active(m).slug = m.slug
<1> DEFINE n == [m EXCEPT !.active = 5100]
<1>1. ModelFields \subseteq DOMAIN m
  BY DEF CatalogModel
<1>2. /\ DOMAIN n = DOMAIN m /\ n.active = 5100
      /\ \A f \in ModelFields \ {"active"} : n[f] = m[f]
  BY <1>1 DEF ModelFields
<1>3. /\ n.slug = m.slug /\ n.recommended = m.recommended /\ n.context = m.context
      /\ n.parameters = m.parameters /\ n.layers = m.layers /\ n.heads = m.heads
      /\ n.kv_heads = m.kv_heads /\ n.head_dim = m.head_dim /\ n.layout = m.layout
      /\ n.min_ram = m.min_ram /\ n.min_vram = m.min_vram /\ n.quantization = m.quantization
  BY <1>2 DEF ModelFields
<1> HIDE DEF n
<1>4. CatalogModel(n)
  BY <1>1, <1>2, <1>3 DEF CatalogModel, LlmModel, Optional
<1>5. apply_published_moe_active(m) = m \/ apply_published_moe_active(m) = n
  <2> DEFINE near == m.parameters \in 105120 .. 128480
             diverges == m.active * 10 >= 5100 * 12 \/ 5100 * 10 >= m.active * 12
             published == /\ m.architecture # None /\ m.architecture[1] = "gpt_oss"
                          /\ m.num_experts = 128 /\ m.active_experts = 4
                          /\ m.active # None /\ m.parameters # None /\ near /\ diverges
  <2>1. apply_published_moe_active(m) = IF published THEN [m EXCEPT !.active = 5100] ELSE m
    BY DEF apply_published_moe_active
  <2> HIDE DEF published
  <2>2. QED
    BY <2>1 DEF n
<1> DEFINE x == apply_published_moe_active(m)
<1> HIDE DEF x
<1>6. x = m \/ x = n
  BY <1>5 DEF x
<1>7. CatalogModel(x) /\ x.slug = m.slug
  BY <1>3, <1>4, <1>6
<1>8. QED
  BY <1>7 DEF x

(* A start reads models. *)
LEMMA DatabaseOfModels ==
    ASSUME FilesOK
    PROVE  \A m \in ModelDatabase(Releases[release], custom, cache) : CatalogModel(m)
<1> DEFINE r     == Releases[release]
           own   == load_custom_models(custom)
           known == {m \in load_embedded(r) : m.slug \notin Slugs(own)} \cup own
           cached == {m \in load_cache(cache, r.version) : m.slug \notin Slugs(known)}
<1>1. \A m \in own : CatalogModel(m)
  BY ReadersAssumption DEF FilesOK, load_custom_models
<1>2. \A m \in load_embedded(r) : CatalogModel(m)
  BY ReadersAssumption DEF FilesOK
<1>3. \A m \in load_cache(cache, r.version) : CatalogModel(m)
  BY DEF FilesOK
<1>4. \A m \in known \cup cached : CatalogModel(m)
  BY <1>1, <1>2, <1>3
<1>5. ModelDatabase(r, custom, cache) = {apply_published_moe_active(m) : m \in known \cup cached}
  BY DEF ModelDatabase
<1> HIDE DEF known, cached
<1>6. QED
  BY <1>4, <1>5, PublishedKeeps

(* Nothing can be read from no file, nor from one that was left half       *)
(* written.                                                                *)
LEMMA NothingCached == \A v : load_cache(None, v) = {} /\ load_cache(Invalid, v) = {}
BY DEF load_cache

(* An update that is saved leaves models for the version it ran with. *)
LEMMA SavedModels ==
    ASSUME NEW known, NEW cached, \A m \in cached : CatalogModel(m),
           NEW listing \in Listings, NEW version, NEW v
    PROVE  \A m \in load_cache([version |-> version,
                                models  |-> update_model_cache(known, cached, listing)], v) :
              CatalogModel(m)
<1> DEFINE models == update_model_cache(known, cached, listing)
           saved  == [version |-> version, models |-> models]
<1>1. \A m \in models : CatalogModel(m)
  <2> DEFINE first(i) == \A j \in 1..(i - 1) : listing[j].name # listing[i].name
             new(i)   == listing[i].slug \notin known \cup Slugs(cached)
             at       == {j \in DOMAIN listing : first(j) /\ new(j)}
             found    == {map_to_llm_model(listing[i]) : i \in at}
  <2>1. models = cached \cup (found \ {None})
    BY DEF update_model_cache
  <2>2. at \subseteq DOMAIN listing
    OBVIOUS
  <2> HIDE DEF at, models
  <2>3. \A i \in at : map_to_llm_model(listing[i]) # None => CatalogModel(map_to_llm_model(listing[i]))
    BY <2>2, ReadersAssumption
  <2>4. QED
    BY <2>1, <2>3
<1>2. load_cache(saved, v) = {} \/ load_cache(saved, v) = models
  BY DEF load_cache
<1> HIDE DEF models, saved
<1>3. \A m \in load_cache(saved, v) : CatalogModel(m)
  BY <1>1, <1>2
<1>4. QED
  BY <1>3 DEF saved, models

(* The releases are listed from the first. *)
LEMMA ReleasesListed == /\ Len(Releases) \in Nat \ {0} /\ DOMAIN Releases = 1..Len(Releases)
<1>1. Releases \in Seq(ToSet(Releases))
  BY FilesAssumption DEF Entries
<1>2. QED
  BY <1>1, CatalogAssumption

(* Whatever happens to the files, they hold what can be read. *)
LEMMA FilesKept == FilesOK /\ (CatalogStep \/ UNCHANGED catalogVars) => FilesOK'
<1> SUFFICES ASSUME FilesOK, CatalogStep \/ UNCHANGED catalogVars PROVE FilesOK'
  OBVIOUS
<1>1. CASE UpdateRead
  <2>1. /\ UNCHANGED <<release, custom, cache>>
        /\ updating'.cached = load_cache(cache, Releases[release].version)
    BY <1>1 DEF UpdateRead
  <2>2. QED
    BY <2>1 DEF FilesOK
<1>2. ASSUME NEW listing \in Listings, UpdateSave(listing) PROVE FilesOK'
  <2>1. /\ UNCHANGED <<release, custom>> /\ updating' = None
        /\ \A m \in updating.cached : CatalogModel(m)
    BY <1>2 DEF UpdateSave, FilesOK
  <2> DEFINE version == Releases[release].version
             known   == updating.known
             cached  == updating.cached
             saved   == [version |-> version, models |-> update_model_cache(known, cached, listing)]
  <2>2. cache' = cache \/ cache' = saved
    BY <1>2 DEF UpdateSave
  <2> HIDE DEF version, known
  <2>3. \A v : \A m \in load_cache(saved, v) : CatalogModel(m)
    BY <2>1, SavedModels
  <2> HIDE DEF saved
  <2>4. \A v : \A m \in load_cache(cache', v) : CatalogModel(m)
    BY <2>2, <2>3 DEF FilesOK
  <2>5. QED
    BY <2>1, <2>4 DEF FilesOK
<1>3. CASE UpdateCrash
  <2>1. UNCHANGED <<release, custom>> /\ updating' = None /\ cache' = Invalid
    BY <1>3 DEF UpdateCrash
  <2>2. QED
    BY <2>1, NothingCached DEF FilesOK
<1>4. CASE clear_cache
  <2>1. UNCHANGED <<release, custom, updating>> /\ cache' = None
    BY <1>4 DEF clear_cache
  <2>2. QED
    BY <2>1, NothingCached DEF FilesOK
<1>5. ASSUME NEW c \in Customs, EditCustom(c) PROVE FilesOK'
  BY <1>5 DEF EditCustom, FilesOK
<1>6. CASE Upgrade
  <2>1. release + 1 \in DOMAIN Releases
    BY <1>6, ReleasesListed DEF Upgrade, FilesOK
  <2>2. QED
    BY <1>6, <2>1 DEF Upgrade, FilesOK
<1>7. CASE UNCHANGED catalogVars
  BY <1>7 DEF catalogVars, FilesOK
<1>8. QED
  BY <1>1, <1>2, <1>3, <1>4, <1>5, <1>6, <1>7 DEF CatalogStep

(* The first start finds no files, and shows no rows. *)
LEMMA FitAtFirst == FitInit => FitInv
<1> SUFFICES ASSUME FitInit PROVE FitInv
  OBVIOUS
<1>1. /\ release = 1 /\ custom = None /\ cache = None /\ updating = None
      /\ fits = {} /\ specs = None /\ request = None
  BY DEF FitInit, InitCatalog
<1>2. FilesOK
  BY <1>1, NothingCached, ReleasesListed DEF FilesOK
<1>3. QED
  BY <1>1, <1>2 DEF FitInv, RowsOK

(* Every step keeps the invariant. *)
LEMMA FitInductive == FitInv /\ [FitNext]_rowVars => FitInv'
<1> SUFFICES ASSUME FitInv, [FitNext]_rowVars PROVE FitInv'
  OBVIOUS
<1>1. CASE CatalogStep
  <2>1. FilesOK'
    BY <1>1, FilesKept DEF FitInv
  <2>2. UNCHANGED <<specs, request, fits>>
    BY <1>1 DEF CatalogStep
  <2>3. QED
    BY <2>1, <2>2 DEF FitInv
<1>2. ASSUME NEW s \in Systems, NEW r \in Requests, StartRows(s, r) PROVE FitInv'
  <2>1. /\ specs' = s /\ request' = r /\ UNCHANGED <<release, custom, cache, updating>>
        /\ db' = ModelDatabase(Releases[release], custom, cache)
        /\ fits' = build_fits(db', s, r, runs)
    BY <1>2 DEF StartRows
  <2>2. FilesOK'
    BY <2>1 DEF FitInv, FilesOK
  <2>3. \A m \in db' : CatalogModel(m)
    BY <2>1, DatabaseOfModels DEF FitInv
  <2>4. RowsOK(build_fits(db', s, r, runs), s, r)
    BY <2>3, BuiltRows
  <2>5. RowsOK(fits', specs', request')
    BY <2>1, <2>4
  <2>6. QED
    BY <2>1, <2>2, <2>5 DEF FitInv
<1>3. ASSUME NEW f \in fits, NEW tps \in Benchmarks, Bench(f, tps) PROVE FitInv'
  <2>1. /\ fits' = refresh_local_measured_tps(fits, specs, runs')
        /\ UNCHANGED <<catalogVars, specs, request>>
    BY <1>3 DEF Bench
  <2>2. FilesOK'
    BY <2>1, FilesKept DEF FitInv
  <2>3. RowsOK(fits, specs, request) /\ specs \in Systems /\ request \in Requests
    BY DEF FitInv
  <2>4. RowsOK(refresh_local_measured_tps(fits, specs, runs'), specs, request)
    BY <2>3, RefreshedRows
  <2>5. RowsOK(fits', specs', request')
    BY <2>1, <2>4
  <2>6. QED
    BY <2>1, <2>2, <2>3, <2>5 DEF FitInv
<1>4. CASE UNCHANGED rowVars
  <2>1. UNCHANGED catalogVars /\ UNCHANGED <<specs, request, fits>>
    BY <1>4 DEF rowVars, fitVars
  <2>2. FilesOK'
    BY <2>1, FilesKept DEF FitInv
  <2>3. QED
    BY <2>1, <2>2 DEF FitInv
<1>5. QED
  BY <1>1, <1>2, <1>3, <1>4 DEF FitNext

-----------------------------------------------------------------------------
(* The theorems.                                                           *)

(* The invariant holds in every state. *)
LEMMA FitAlways == FitSpec => []FitInv
<1>1. QED
  BY FitAtFirst, FitInductive, PTL DEF FitSpec

(* A row that loads shows a quantization its memory is for. *)
LEMMA RowsShowQuant == FitInv => ReportedQuantMatches
<1> SUFFICES ASSUME FitInv, NEW f \in fits, ~f.model.is_moe, request.forced = None,
                    ~specs.cluster, f.level # "TooTight"
             PROVE  f.required \in SizedFor(f)
  BY DEF ReportedQuantMatches
<1>1. specs \in Systems /\ request \in Requests /\ RowOK(f, specs, request)
  BY DEF FitInv, RowsOK
<1> DEFINE m == f.model
           a == Analysis(m, specs, request)
<1>2. CatalogModel(m) /\ ~m.is_moe
  BY <1>1 DEF RowOK
<1>3. /\ f.level = a.level /\ f.required = a.required
      /\ f.quant = a.quant /\ f.ctx = a.ctx
  BY <1>1 DEF RowOK
<1> HIDE DEF m
<1>4. a.level # "TooTight"
  BY <1>3
<1>5. \E c \in Contexts(a.ctx) : a.required = estimate_memory_gb(m, a.quant, c)
  BY <1>1, <1>2, <1>4, AnalysisShowsQuant
<1> HIDE DEF a
<1>6. \E c \in Contexts(f.ctx) : f.required = estimate_memory_gb(m, f.quant, c)
  BY <1>3, <1>5
<1>7. QED
  BY <1>6 DEF SizedFor, Contexts, m

(* For every catalog, machine and question: the quantization a row of a    *)
(* dense model shows is the one its memory was computed for                *)
(* (analyze_inner searches it twice).                                      *)
THEOREM ReportedQuantAlways == FitSpec => []ReportedQuantMatches
<1>1. QED
  BY FitAlways, RowsShowQuant, PTL

(* Only a start changes how often the program was started. *)
LEMMA OnlyStarts ==
    ASSUME [FitNext]_rowVars, starts' # starts
    PROVE  \E s \in Systems, r \in Requests : StartRows(s, r)
<1>1. CatalogStep => starts' = starts
  BY DEF CatalogStep
<1>2. \A f, tps : Bench(f, tps) => starts' = starts
  BY DEF Bench
<1>3. UNCHANGED rowVars => starts' = starts
  BY DEF rowVars, fitVars
<1>4. QED
  BY <1>1, <1>2, <1>3 DEF FitNext

(* What loads in one start loads in the next, with more memory. *)
LEMMA StartsGrow ==
    ASSUME FitInv, FitInv', [FitNext]_rowVars, starts' # starts,
           request' = request, MoreMemory(specs, specs'),
           NEW f \in fits, NEW g \in fits', f.model = g.model, f.required <= f.available
    PROVE  g.required <= g.available
<1> DEFINE s == specs
           t == specs'
           r == request
           m == f.model
<1>1. s \in Systems /\ r \in Requests /\ RowOK(f, s, r)
  BY DEF FitInv, RowsOK
<1>2. t \in Systems /\ RowOK(g, t, r)
  BY DEF FitInv, RowsOK
<1>3. MoreMemory(s, t)
  OBVIOUS
<1>4. CatalogModel(m) /\ g.model = m
  BY <1>1 DEF RowOK
<1>5. f.required = Analysis(m, s, r).required /\ f.available = Analysis(m, s, r).available
  BY <1>1 DEF RowOK
<1>6. g.required = Analysis(m, t, r).required /\ g.available = Analysis(m, t, r).available
  BY <1>2, <1>4 DEF RowOK
<1> HIDE DEF s, t, r, m
<1>7. Analysis(m, s, r).required <= Analysis(m, s, r).available
  BY <1>5
<1>8. Analysis(m, t, r).required <= Analysis(m, t, r).available
  BY <1>1, <1>2, <1>3, <1>4, <1>7, AnalysisGrows
<1>9. QED
  BY <1>6, <1>8

(* For every catalog and every two machines of a kind: a model that loads  *)
(* keeps loading when the machine gets more memory, although the search    *)
(* may settle for another path, quantization and context (PathFor).        *)
THEOREM MoreMemoryKeepsLoading == FitSpec => LoadsWithMoreMemory
<1>1. FitInv /\ FitInv' /\ [FitNext]_rowVars =>
        (starts' # starts /\ starts > 0 /\ request' = request /\ MoreMemory(specs, specs') =>
            \A f \in fits, g \in fits' :
                f.model = g.model /\ f.required <= f.available => g.required <= g.available)
  BY StartsGrow
<1>2. FitInv /\ FitInv' /\ [FitNext]_rowVars =>
        [starts' # starts /\ starts > 0 /\ request' = request /\ MoreMemory(specs, specs') =>
            \A f \in fits, g \in fits' :
                f.model = g.model /\ f.required <= f.available => g.required <= g.available]_rowVars
  BY <1>1
<1>3. QED
  BY <1>2, FitAlways, PTL DEF FitSpec, LoadsWithMoreMemory

(* A merged entry keeps the slug of its first. *)
LEMMA MergedSlug ==
    ASSUME NEW entries, NEW at
    PROVE  /\ DOMAIN merged(entries, at) = DOMAIN entries[Min(at)]
           /\ "slug" \in DOMAIN entries[Min(at)]
                => merged(entries, at).slug = entries[Min(at)].slug
<1> DEFINE e == entries[Min(at)]
           largest(f) ==
               LET most == Max({orElse(entries[i][f], 0) : i \in at})
               IN  IF most > orElse(e[f], 0) THEN most ELSE e[f]
           union(f) == UNION {entries[i][f] : i \in at}
           known(f) ==
               LET some == {i \in at : entries[i][f] # None}
               IN  IF some = {} THEN None ELSE entries[Min(some)][f]
           moe == {i \in at : entries[i].is_moe}
           expert(f) == IF moe = {} THEN e[f] ELSE entries[Min(moe)][f]
           some == moe # {}
<1>1. merged(entries, at) =
         [e EXCEPT
            !.parameters  = largest("parameters"),  !.min_ram  = largest("min_ram"),
            !.recommended = largest("recommended"), !.min_vram = largest("min_vram"),
            !.context     = largest("context"),     !.released = largest("released"),
            !.is_moe = some, !.num_experts = expert("num_experts"),
            !.active_experts = expert("active_experts"), !.active = expert("active"),
            !.capabilities = union("capabilities"), !.gguf = union("gguf"),
            !.heads = known("heads"), !.kv_heads = known("kv_heads"),
            !.layers = known("layers"), !.head_dim = known("head_dim")]
  BY DEF merged
<1> HIDE DEF e, largest, union, known, expert, some, moe
<1>2. /\ DOMAIN merged(entries, at) = DOMAIN e
      /\ "slug" \in DOMAIN e => merged(entries, at).slug = e.slug
  BY <1>1
<1>3. QED
  BY <1>2 DEF e

(* The user's file gives one model for a slug, whatever it lists. *)
LEMMA OnePerSlug ==
    ASSUME NEW c \in Customs, NEW m \in load_custom_models(c), NEW n \in load_custom_models(c),
           m.slug = n.slug
    PROVE  m = n
<1>1. /\ c \in Customs \ {None, Invalid} /\ load_custom_models(c) = FromFile(c)
      /\ CatalogModel(m) /\ CatalogModel(n)
  <2>1. CatalogModel(m) /\ CatalogModel(n)
    BY ReadersAssumption
  <2>2. c # None /\ c # Invalid
    BY DEF load_custom_models
  <2>3. QED
    BY <2>1, <2>2 DEF load_custom_models
<1>2. DOMAIN c \subseteq Nat
  <2>1. c \in Seq(ToSet(c))
    BY <1>1, FilesAssumption DEF Entries
  <2>2. QED
    BY <2>1
<1> DEFINE at(slug) == {i \in DOMAIN c : c[i].slug = slug}
           one(slug) == merged(c, at(slug))
<1>3. ASSUME NEW x \in FromFile(c), CatalogModel(x)
      PROVE  x = entry_to_model(one(x.slug))
  <2>1. PICK slug \in Slugs(ToSet(c)) : x = entry_to_model(one(slug))
    <3>1. PICK e \in dedupe_hf_entries(c) : x = entry_to_model(e)
      BY <1>3 DEF FromFile
    <3>2. PICK slug \in Slugs(ToSet(c)) : e = one(slug)
      BY <3>1 DEF dedupe_hf_entries
    <3>3. QED
      BY <3>1, <3>2
  <2>2. at(slug) # {} /\ at(slug) \subseteq Nat
    BY <1>2 DEF Slugs, ToSet
  <2>3. Min(at(slug)) \in at(slug)
    BY <2>2, LeastOf
  <2>4. c[Min(at(slug))].slug = slug
    BY <2>3
  <2> DEFINE e == one(slug)
             caps == infer(e)
  <2>5. x = [e EXCEPT !.capabilities = caps, !.layout = None]
    BY <2>1 DEF entry_to_model
  <2>6. /\ DOMAIN e = DOMAIN c[Min(at(slug))]
        /\ "slug" \in DOMAIN e => e.slug = slug
    BY <2>4, MergedSlug
  <2> HIDE DEF e, caps, at
  <2>7. "slug" \in DOMAIN e
    <3>1. "slug" \in DOMAIN x
      BY <1>3 DEF CatalogModel, ModelFields
    <3>2. DOMAIN x = DOMAIN e
      BY <2>5
    <3>3. QED
      BY <3>1, <3>2
  <2>8. x.slug = e.slug
    BY <2>5, <2>7
  <2>9. x.slug = slug
    BY <2>6, <2>7, <2>8
  <2>10. QED
    BY <2>1, <2>9
<1>4. m \in FromFile(c) /\ n \in FromFile(c)
  BY <1>1
<1> HIDE DEF one
<1>5. m = entry_to_model(one(m.slug)) /\ n = entry_to_model(one(n.slug))
  BY <1>1, <1>3, <1>4
<1>6. QED
  BY <1>5

(* A start shows every slug once asked for, and of the user's the user's. *)
LEMMA StartShowsOwn ==
    ASSUME FilesOK
    PROVE  LET own   == load_custom_models(custom)
               all   == Slugs(load_embedded(Releases[release])) \cup Slugs(own)
                            \cup Slugs(load_cache(cache, Releases[release].version))
               shown == ModelDatabase(Releases[release], custom, cache)
           IN  /\ Slugs(shown) = all
               /\ \A c \in own : {m \in shown : m.slug = c.slug} = {apply_published_moe_active(c)}
<1> DEFINE here   == load_embedded(Releases[release])
           stored == load_cache(cache, Releases[release].version)
           own    == load_custom_models(custom)
           known  == {m \in here : m.slug \notin Slugs(own)} \cup own
           cached == {m \in stored : m.slug \notin Slugs(known)}
           shown  == ModelDatabase(Releases[release], custom, cache)
           fixed(m) == apply_published_moe_active(m)
<1>1. shown = {fixed(m) : m \in known \cup cached}
  BY DEF ModelDatabase
<1>2. (\A m \in here : CatalogModel(m)) /\ (\A m \in own : CatalogModel(m))
        /\ \A m \in stored : CatalogModel(m)
  <2>1. \A m \in here : CatalogModel(m)
    BY ReadersAssumption DEF FilesOK
  <2>2. \A m \in own : CatalogModel(m)
    BY ReadersAssumption DEF FilesOK, load_custom_models
  <2>3. \A m \in stored : CatalogModel(m)
    BY DEF FilesOK
  <2>4. QED
    BY <2>1, <2>2, <2>3
<1>3. ASSUME NEW m \in own, NEW n \in own, m.slug = n.slug PROVE m = n
  <2>1. CASE custom = None
    BY <2>1 DEF load_custom_models
  <2>2. CASE custom \in Customs
    BY <1>3, <2>2, OnePerSlug
  <2>3. QED
    BY <2>1, <2>2 DEF FilesOK
<1>4. \A m \in known \cup cached : fixed(m).slug = m.slug
  BY <1>2, PublishedKeeps
<1> HIDE DEF here, stored, own, shown, fixed
<1>5. Slugs(shown) = Slugs(known \cup cached)
  BY <1>1, <1>4 DEF Slugs
<1>6. Slugs(known \cup cached) = Slugs(here) \cup Slugs(own) \cup Slugs(stored)
  BY DEF Slugs
<1>7. ASSUME NEW c \in own PROVE {m \in shown : m.slug = c.slug} = {fixed(c)}
  <2>1. c \in known \cup cached /\ fixed(c) \in shown /\ fixed(c).slug = c.slug
    BY <1>1, <1>4
  <2>2. ASSUME NEW m \in shown, m.slug = c.slug PROVE m = fixed(c)
    <3>1. PICK n \in known \cup cached : m = fixed(n)
      BY <1>1
    <3>2. n.slug = c.slug
      BY <1>4, <2>2, <3>1
    <3>3. c.slug \in Slugs(own) /\ c.slug \in Slugs(known)
      BY DEF Slugs
    <3>4. n \in own
      BY <3>2, <3>3
    <3>5. n = c
      BY <1>3, <3>2, <3>4
    <3>6. QED
      BY <3>1, <3>5
  <2>3. QED
    BY <2>1, <2>2
<1>8. QED
  BY <1>5, <1>6, <1>7 DEF here, stored, own, shown, fixed

(* For every set of releases, files and listings: a start shows every slug *)
(* of the three sources, and of the user's slugs the user's model and no   *)
(* other, whatever an update left in the cache (ModelDatabase::new).       *)
THEOREM CustomWinsAlways == FitSpec => CustomWins
<1>1. ASSUME FitInv, [FitNext]_rowVars, starts' # starts
      PROVE  LET own == load_custom_models(custom)
                 all == Slugs(load_embedded(Releases[release])) \cup Slugs(own)
                            \cup Slugs(load_cache(cache, Releases[release].version))
             IN  /\ Slugs(db') = all
                 /\ \A c \in own : {m \in db' : m.slug = c.slug} = {apply_published_moe_active(c)}
  <2>1. PICK s \in Systems, r \in Requests : StartRows(s, r)
    BY <1>1, OnlyStarts
  <2>2. db' = ModelDatabase(Releases[release], custom, cache)
    BY <2>1 DEF StartRows
  <2>3. FilesOK
    BY <1>1 DEF FitInv
  <2>4. QED
    BY <2>2, <2>3, StartShowsOwn
<1>2. FitInv /\ [FitNext]_rowVars =>
        [starts' # starts =>
            LET own == load_custom_models(custom)
                all == Slugs(load_embedded(Releases[release])) \cup Slugs(own)
                           \cup Slugs(load_cache(cache, Releases[release].version))
            IN  /\ Slugs(db') = all
                /\ \A c \in own : {m \in db' : m.slug = c.slug} = {apply_published_moe_active(c)}
        ]_rowVars
  BY <1>1
<1>3. QED
  BY <1>2, FitAlways, PTL DEF FitSpec, CustomWins

=============================================================================
