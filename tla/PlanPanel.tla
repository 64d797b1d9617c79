----------------------------- MODULE PlanPanel -----------------------------
(***************************************************************************)
(* The programs that take a machine for what Hardware says it is and plan  *)
(* for it: the TUI with its plan panel and the two popups that change what *)
(* the panel plans with (hardware simulation, advanced configuration), the *)
(* commands system and plan, and the API and MCP servers.                  *)
(*                                                                         *)
(* A text field is [len, parsed]: its length, which the cursor depends on, *)
(* and what it parses to, None when it is empty and Unparsable when it is  *)
(* no value of the field.  An edit makes it parse to any value of Typed.   *)
(***************************************************************************)
EXTENDS Plan

CONSTANTS
    Unparsable, \* of a text that is not a value of its field
    Machines,   \* [probe, cards, pool]: what tools answer, and the cards and memory there are
    Tools,      \* the tools of a probe that a machine may lack
    Overrides,  \* overrides of the command line
    CatalogOf,  \* the models
    Typed,      \* what an edited field may parse to
    Asked,      \* requests to the command and the servers
    Selectors,  \* names asked for
    ApiChoices, \* overrides of a request to the API
    ShownLen,   \* length of a number or name the program writes into a field
    MaxLen,     \* longest text that is typed
    MaxSteps    \* steps of a behaviour

ASSUME PanelAssumption == ShownLen \in Nat /\ IsFiniteSet(CatalogOf)

(* What the types of the program say of these constants. *)
GpuInfos(s) ==
    /\ s \in Seq(ToSet(s))
    /\ \A g \in ToSet(s) : "count" \in DOMAIN g /\ g.count \in Nat \ {0}

SystemSpecs(s) ==
    /\ {"ram", "total_ram", "cores", "vram", "total_vram", "has_gpu", "unified", "backend", "gpus"}
          \subseteq DOMAIN s
    /\ s.ram \in Nat /\ s.total_ram \in Nat /\ s.cores \in Nat
    /\ s.vram \in Optional(Nat) /\ s.total_vram \in Optional(Nat)
    /\ s.unified \in BOOLEAN /\ GpuInfos(s.gpus)

HardwareProfile(f) == f # None => f.ram \in Int /\ f.unified \in BOOLEAN

Size(x) == x # None => x[1] \in Optional(Nat)

TextOf(S) == S \cup {None, Unparsable}

ASSUME CatalogOfAssumption == \A m \in CatalogOf : LlmModel(m)

ASSUME MachinesAssumption ==
    \A p \in {machine.probe : machine \in Machines} :
        /\ SystemSpecs(detect(p))
        /\ \A f \in p.bundled \cup {x.content : x \in p.files} : HardwareProfile(f)

ASSUME OverridesAssumption ==
    \A o \in Overrides :
        /\ Size(o.ram) /\ Size(o.memory) /\ o.cores \in Optional(Nat)
        /\ o.profile # None /\ o.profile.path # None => HardwareProfile(o.profile.path.content)

ASSUME TypedAssumption ==
    /\ \A f \in {"Context", "Ram", "Vram", "CpuCores"} : Typed[f] \subseteq TextOf(Nat)
    /\ Typed["KvQuant"] \subseteq TextOf(ToSet(KvQuants))

ASSUME AskedAssumption ==
    /\ \A r \in Asked : /\ DOMAIN r = {"context", "quant", "kv", "target"}
                        /\ r.context \in Nat /\ r.kv \in TextOf(ToSet(KvQuants))
    /\ \A q \in ApiChoices : /\ q.ram \in Optional(Int) /\ q.vram \in Optional(Int)
                            /\ q.cores \in Optional(Nat)

VARIABLES
    start,  \* [machine, overrides, missing, specs] of the running program
    app,    \* the running program, or None
    answer, \* the last plan of the command or of a server
    steps

vars == <<start, app, answer, steps>>

PlanFields == <<"Context", "Quant", "KvQuant", "TargetTps">>
SimFields  == <<"Ram", "Vram", "CpuCores">>
AdvFields  == <<"Efficiency", "Gpu", "CpuOffload", "MoeOffload", "TensorParallel", "CpuOnly",
                "ContextCap", "DdrBandwidth">>

-----------------------------------------------------------------------------
(* Text fields, and panels [text, field, cursor] of them.                  *)
Text(len, parsed) == [len |-> len, parsed |-> parsed]
Cleared == Text(0, None)
Shown(x) == IF x = None THEN Cleared ELSE Text(ShownLen, x)

Parsed(text, default) == IF text.parsed \in {None, Unparsable} THEN default ELSE text.parsed

Panel(text, field) == [text |-> text, field |-> field, cursor |-> text[field].len]

Active(p) == p.text[p.field]
To(p, field) == Panel(p.text, field)
At(order, f) == CHOOSE i \in 1..Len(order) : order[i] = f
NextOf(order, f) == order[IF At(order, f) = Len(order) THEN 1 ELSE At(order, f) + 1]
PrevOf(order, f) == order[IF At(order, f) = 1 THEN Len(order) ELSE At(order, f) - 1]

Edited(p, text, cursor) == [p EXCEPT !.text[p.field] = text, !.cursor = cursor]
Shorter(text, v) == IF text.len = 1 THEN Cleared ELSE Text(text.len - 1, v)

(* What the keys do to a panel; v is what the text then parses to. *)
Left(p)         == [p EXCEPT !.cursor = IF @ > 0 THEN @ - 1 ELSE @]
Right(p)        == [p EXCEPT !.cursor = IF @ < Active(p).len THEN @ + 1 ELSE @]
Insert(p, v)    == Edited(p, Text(Active(p).len + 1, v), p.cursor + 1)
Backspace(p, v) == IF p.cursor = 0 THEN p ELSE Edited(p, Shorter(Active(p), v), p.cursor - 1)
Delete(p, v)    == IF p.cursor >= Active(p).len THEN p
                   ELSE Edited(p, Shorter(Active(p), v), p.cursor)
ClearField(p)   == Edited(p, Cleared, 0)

-----------------------------------------------------------------------------
(* The plan panel.                                                         *)
Refused(a) == [a EXCEPT !.estimate = None, !.error = TRUE]

(* The model of the row, the texts as they parse; None stands for a text   *)
(* that is left empty.                                                     *)
Request(text) ==
    [context |-> text["Context"].parsed, quant |-> text["Quant"].parsed,
     target |-> text["TargetTps"].parsed, kv |-> text["KvQuant"].parsed]

(* The context is an integer, the target a number, and both positive. *)
Acceptable(r) ==
    /\ r.context \notin {None, Unparsable} /\ r.context > 0
    /\ r.target # Unparsable /\ (r.target = None \/ r.target > 0)
    /\ r.kv # Unparsable

ShowPlan(a, plan) ==
    IF plan = Error THEN Refused(a) ELSE [a EXCEPT !.estimate = plan, !.error = FALSE]

refresh_plan_estimate(a) ==
    LET r == Request(a.plan.text)
    IN  IF a.model \notin 1..Len(a.rows) \/ ~Acceptable(r) THEN Refused(a)
        ELSE ShowPlan(a, estimate_model_plan_with_config(a.rows[a.model], r, a.specs, a.config))

open_plan_mode(a, row) ==
    LET m    == a.rows[row]
        text == [f \in ToSet(PlanFields) |->
                    CASE f = "Context" -> Shown(Min({m.context, 8}))
                      [] f = "Quant"   -> Shown(m.quantization)
                      [] OTHER         -> Cleared]
    IN  refresh_plan_estimate([a EXCEPT !.mode = "Plan", !.model = row,
                                        !.plan = Panel(text, "Context")])

close_plan_mode(a) ==
    [a EXCEPT !.mode = "Normal", !.model = 0, !.estimate = None, !.error = FALSE]

plan_next_field(a) == [a EXCEPT !.plan = To(@, NextOf(PlanFields, @.field))]
plan_prev_field(a) == [a EXCEPT !.plan = To(@, PrevOf(PlanFields, @.field))]
plan_cursor_left(a)  == [a EXCEPT !.plan = Left(@)]
plan_cursor_right(a) == [a EXCEPT !.plan = Right(@)]

WithPlan(a, p) == refresh_plan_estimate([a EXCEPT !.plan = p])

plan_input(a, v) == IF a.plan.cursor <= Active(a.plan).len THEN WithPlan(a, Insert(a.plan, v)) ELSE a

(* Mutant: the plan of the text before the key. *)
plan_backspace_without_refresh(a, v) == [a EXCEPT !.plan = Backspace(@, v)]

plan_backspace(a, v) ==
    IF a.plan.cursor \in 1..Active(a.plan).len THEN WithPlan(a, Backspace(a.plan, v)) ELSE a

plan_delete(a, v) == IF a.plan.cursor < Active(a.plan).len THEN WithPlan(a, Delete(a.plan, v)) ELSE a

plan_clear_field(a) == WithPlan(a, ClearField(a.plan))

-----------------------------------------------------------------------------
(* The table.  Its order, and so the row of a model, is any after it is    *)
(* rebuilt or sorted again.                                                *)
Orders == {s \in [1..Cardinality(CatalogOf) -> CatalogOf] : ToSet(s) = CatalogOf}

-----------------------------------------------------------------------------
(* Hardware simulation.  The popup shows tenths of a GB.                   *)
Tenths(mb) == (((mb * 10 + 512) \div 1024) * 1024) \div 10

open_simulation_popup(a) ==
    LET text == [Ram |-> Shown(Tenths(a.specs.total_ram)),
                 Vram |-> Shown(Tenths(orElse(a.specs.vram, 0))),
                 CpuCores |-> Shown(a.specs.cores)]
    IN  [a EXCEPT !.mode = "Simulation", !.sim = Panel(text, "Ram")]

close_simulation_popup(a) == [a EXCEPT !.mode = "Normal"]

(* From the real machine: RAM, then VRAM, which wins on unified memory. *)
apply_simulation(a, rows) ==
    LET of(f, real) == Parsed(a.sim.text[f], real)
        ram  == with_ram_override(a.real, of("Ram", a.real.total_ram))
        vram == with_gpu_memory_override(ram, of("Vram", orElse(a.real.vram, 0)))
    IN  [a EXCEPT !.specs = with_cpu_core_override(vram, of("CpuCores", a.real.cores)),
                  !.sim_active = TRUE, !.rows = rows, !.mode = "Normal"]

reset_simulation(a, rows) ==
    [a EXCEPT !.specs = a.real, !.sim_active = FALSE, !.rows = rows]

(* Mutant: the cursor stays where it was in the field before. *)
sim_next_field_keeping_cursor(a) == [a EXCEPT !.sim.field = NextOf(SimFields, @)]

sim_next_field(a) == [a EXCEPT !.sim = To(@, NextOf(SimFields, @.field))]
sim_prev_field(a) == [a EXCEPT !.sim = To(@, PrevOf(SimFields, @.field))]
sim_cursor_left(a)  == [a EXCEPT !.sim = Left(@)]
sim_cursor_right(a) == [a EXCEPT !.sim = Right(@)]
sim_input(a, v)     == [a EXCEPT !.sim = Insert(@, v)]
sim_backspace(a, v) == [a EXCEPT !.sim = Backspace(@, v)]
sim_delete(a, v)    == [a EXCEPT !.sim = Delete(@, v)]
sim_clear_field(a)  == [a EXCEPT !.sim = ClearField(@)]

-----------------------------------------------------------------------------
(* Advanced configuration.                                                 *)
open_advanced_config_popup(a) ==
    LET value(f) == CASE f = "Efficiency"   -> a.config.efficiency
                      [] f = "ContextCap"   -> a.config.cap
                      [] f = "DdrBandwidth" -> a.config.ddr
                      [] OTHER              -> a.config.factors[f]
    IN  [a EXCEPT !.mode = "AdvancedConfig", !.dirty = FALSE,
                  !.adv = Panel([f \in ToSet(AdvFields) |-> Shown(value(f))], "Efficiency")]

close_advanced_config_popup(a) == [a EXCEPT !.mode = "Normal"]

(* A factor that does not parse stays; a cap or bandwidth is then unset. *)
apply_advanced_config(a, rows) ==
    LET text == a.adv.text
        ddr  == Parsed(text["DdrBandwidth"], None)
    IN  [a EXCEPT
            !.config = [@ EXCEPT !.efficiency = Parsed(text["Efficiency"], @),
                                 !.factors = [mode \in DOMAIN @ |-> Parsed(text[mode], @[mode])],
                                 !.cap = Parsed(text["ContextCap"], None), !.ddr = Positive(ddr)],
            !.rows = rows, !.mode = "Normal"]

(* Back to what the program started with; the popup shows it. *)
reset_advanced_config(a, rows) ==
    open_advanced_config_popup([a EXCEPT !.config = a.baseline, !.rows = rows])

WithAdv(a, p) == [a EXCEPT !.adv = p, !.dirty = @ \/ p.text # a.adv.text]

adv_config_next_field(a) == [a EXCEPT !.adv = To(@, NextOf(AdvFields, @.field))]
adv_config_prev_field(a) == [a EXCEPT !.adv = To(@, PrevOf(AdvFields, @.field))]
adv_config_cursor_left(a)  == [a EXCEPT !.adv = Left(@)]
adv_config_cursor_right(a) == [a EXCEPT !.adv = Right(@)]
adv_config_input(a, v)     == [a EXCEPT !.adv = Insert(@, v), !.dirty = TRUE]
adv_config_backspace(a, v) == WithAdv(a, Backspace(a.adv, v))
adv_config_delete(a, v)    == WithAdv(a, Delete(a.adv, v))
adv_config_clear_field(a)  == [a EXCEPT !.adv = ClearField(@), !.dirty = TRUE]

-----------------------------------------------------------------------------
(* The programs.                                                           *)
NoOverrides == [ram |-> None, memory |-> None, cores |-> None, profile |-> None]

Blank(order) == Panel([f \in ToSet(order) |-> Cleared], order[1])

(* What App::new and the servers keep of the machine. *)
Started(kind, specs, config, rows) ==
    [kind |-> kind, mode |-> "Normal", real |-> specs, specs |-> specs, sim_active |-> FALSE,
     config |-> config, baseline |-> config, dirty |-> FALSE, rows |-> rows, model |-> 0,
     plan |-> Blank(PlanFields), sim |-> Blank(SimFields), adv |-> Blank(AdvFields),
     estimate |-> None, error |-> FALSE]

Init == start = None /\ app = None /\ answer = None /\ steps = 0

Ran(machine, o, missing, specs) ==
    start' = [machine |-> machine, overrides |-> o, missing |-> missing, specs |-> specs]

(* The TUI or a server; a profile that cannot be resolved ends it at once. *)
Start ==
    /\ start = None
    /\ \E machine \in Machines, o \in Overrides, kind \in {"tui", "server"} :
        \E found \in {detect_specs_and_config(machine.probe, o)} :
            IF found = None
                THEN answer' = Error /\ Ran(machine, o, {}, None) /\ UNCHANGED app
            ELSE /\ Ran(machine, o, {}, found[1])
                 /\ \E rows \in Orders : app' = Started(kind, found[1], found[2], rows)
                 /\ UNCHANGED answer

Lacking(p, missing) == [f \in DOMAIN p |-> IF f \in missing THEN None ELSE p[f]]

(* The command system, on a machine that lacks some of the tools. *)
run_system ==
    /\ start = None
    /\ \E machine \in Machines, missing \in SUBSET Tools :
        Ran(machine, NoOverrides, missing,
            detect_specs(Lacking(machine.probe, missing), NoOverrides))
    /\ UNCHANGED <<app, answer>>

Answer(m, r, specs, config) ==
    [model |-> m, request |-> r, specs |-> specs, config |-> config,
     plan |-> estimate_model_plan_with_config(m, r, specs, config)]

run_plan ==
    /\ start = None
    /\ \E machine \in Machines, o \in Overrides, selector \in Selectors, r \in Asked :
        \E found \in {detect_specs_and_config(machine.probe, o)},
           m \in {resolve_model_selector(CatalogOf, selector)} :
            IF found = None THEN answer' = Error /\ Ran(machine, o, {}, None)
            ELSE /\ Ran(machine, o, {}, found[1])
                 /\ answer' = IF m = Error \/ r.kv = Unparsable THEN Error
                              ELSE Answer(m, r, found[1], found[2])
    /\ UNCHANGED app

Running(kind) == app # None /\ app.kind = kind

(* The servers keep nothing of a request, so one is enough.                *)
Asks == Running("server") /\ answer = None

(* The API: from the own machine, a model by its whole name, and a body    *)
(* that may override the hardware.                                         *)
plan_estimate ==
    /\ Asks
    /\ \E local \in BOOLEAN, selector \in Selectors, r \in Asked, q \in ApiChoices :
        LET named == {m \in CatalogOf : m.words = selector}
            specs == effective_specs(app.specs, q)
        IN  answer' = IF ~local \/ named = {} \/ r.kv = Unparsable \/ specs = None THEN Error
                      ELSE Answer(CHOOSE m \in named : TRUE, r, specs, app.config)
    /\ UNCHANGED <<start, app>>

(* MCP: the context is 8K unless it is given, the cache always fp16. *)
plan_hardware ==
    /\ Asks
    /\ \E selector \in Selectors, r \in Asked, given \in BOOLEAN :
        LET named == {m \in CatalogOf : m.words = selector}
            asked == [r EXCEPT !.kv = None, !.context = IF given THEN @ ELSE 8]
        IN  answer' = IF named = {} THEN Error
                      ELSE Answer(CHOOSE m \in named : TRUE, asked, app.specs, app.config)
    /\ UNCHANGED <<start, app>>

-----------------------------------------------------------------------------
(* Keys of the TUI.                                                        *)
Press(mode, a) == app.mode = mode /\ app' = a

Room(p) == Active(p).len < MaxLen

handle_normal_mode ==
    \/ \E row \in 1..Len(app.rows) : Press("Normal", open_plan_mode(app, row))
    \/ Press("Normal", open_simulation_popup(app))
    \/ Press("Normal", open_advanced_config_popup(app))

handle_plan_mode ==
    \/ Press("Plan", close_plan_mode(app))
    \/ Press("Plan", plan_next_field(app))
    \/ Press("Plan", plan_prev_field(app))
    \/ Press("Plan", plan_cursor_left(app))
    \/ Press("Plan", plan_cursor_right(app))
    \/ Press("Plan", plan_clear_field(app))
    \/ \E v \in Typed[app.plan.field] :
        \/ Room(app.plan) /\ Press("Plan", plan_input(app, v))
        \/ Press("Plan", plan_backspace(app, v))
        \/ Press("Plan", plan_delete(app, v))

handle_simulation_mode ==
    \/ Press("Simulation", close_simulation_popup(app))
    \/ \E rows \in Orders :
        \/ Press("Simulation", apply_simulation(app, rows))
        \/ Press("Simulation", close_simulation_popup(reset_simulation(app, rows)))
    \/ Press("Simulation", sim_next_field(app))
    \/ Press("Simulation", sim_prev_field(app))
    \/ Press("Simulation", sim_cursor_left(app))
    \/ Press("Simulation", sim_cursor_right(app))
    \/ Press("Simulation", sim_clear_field(app))
    \/ \E v \in Typed[app.sim.field] :
        \/ Room(app.sim) /\ Press("Simulation", sim_input(app, v))
        \/ Press("Simulation", sim_backspace(app, v))
        \/ Press("Simulation", sim_delete(app, v))

handle_advanced_config_mode ==
    \/ Press("AdvancedConfig", close_advanced_config_popup(app))
    \/ \E rows \in Orders :
        \/ Press("AdvancedConfig", apply_advanced_config(app, rows))
        \/ Press("AdvancedConfig", reset_advanced_config(app, rows))
    \/ Press("AdvancedConfig", adv_config_next_field(app))
    \/ Press("AdvancedConfig", adv_config_prev_field(app))
    \/ Press("AdvancedConfig", adv_config_cursor_left(app))
    \/ Press("AdvancedConfig", adv_config_cursor_right(app))
    \/ Press("AdvancedConfig", adv_config_clear_field(app))
    \/ \E v \in Typed[app.adv.field] :
        \/ Room(app.adv) /\ Press("AdvancedConfig", adv_config_input(app, v))
        \/ Press("AdvancedConfig", adv_config_backspace(app, v))
        \/ Press("AdvancedConfig", adv_config_delete(app, v))

(* A thread's message (runtimes found, a benchmark stored) sorts the table *)
(* again, in any mode.                                                     *)
re_sort == \E rows \in Orders : app' = [app EXCEPT !.rows = rows]

Key ==
    /\ Running("tui")
    /\ \/ handle_normal_mode \/ handle_plan_mode \/ handle_simulation_mode
       \/ handle_advanced_config_mode \/ re_sort
    /\ UNCHANGED <<start, answer>>

Next ==
    /\ steps < MaxSteps
    /\ steps' = steps + 1
    /\ Start \/ run_system \/ run_plan \/ plan_estimate \/ plan_hardware \/ Key

Spec == Init /\ [][Next]_vars

-----------------------------------------------------------------------------
(* In the plan panel, what is shown is the estimator's answer for the      *)
(* model it names and for the texts, the hardware and the configuration as *)
(* they are now; and where there is no plan there is an error.             *)
PlanMatchesInputs ==
    Running("tui") =>
        \/ app.mode # "Plan" /\ app.estimate = None
        \/ app.mode = "Plan" /\ app.error /\ app.estimate = None
        \/ /\ app.mode = "Plan" /\ ~app.error /\ Acceptable(Request(app.plan.text))
           /\ \E m \in CatalogOf :
                app.estimate = estimate_model_plan_with_config(m, Request(app.plan.text),
                                                               app.specs, app.config)

(* "+X GB VRAM -> Perfect": on the machine with that memory added, the     *)
(* same request runs on the GPU, and perfectly.                            *)
PerfectOnGpu(plan) ==
    /\ plan.paths[1].fit = "Perfect"
    /\ plan.current.fit = "Perfect" /\ plan.current.mode = "Gpu"

ReachesPerfect(m, r, s, config, plan) ==
    LET more(d)  == with_gpu_memory_override(s, AvailableVram(s) + d.add)
        upgrades == {d \in ToSet(plan.deltas) : d.resource = "vram" /\ d.fit = "Perfect"}
    IN  /\ upgrades # {}
        /\ \A d \in upgrades : PerfectOnGpu(estimate_model_plan_with_config(m, r, more(d), config))

(* The upgrade that a plan without a target speed calls enough for Perfect *)
(* is enough, whichever program shows the plan.                            *)
UpgradeReachesPerfect ==
    /\ (answer \notin {None, Error} /\ answer.plan # Error /\ answer.request.target = None)
        => ReachesPerfect(answer.model, answer.request, answer.specs, answer.config, answer.plan)
    /\ (app # None /\ app.estimate # None /\ app.estimate.request.target = None)
        => \E m \in CatalogOf :
            /\ m.name = app.estimate.model
            /\ ReachesPerfect(m, Request(app.plan.text), app.specs, app.config, app.estimate)

(* The memory that is counted for one card c of a machine.  Its kind says  *)
(* where that lies: "own" on the card, "pool" for a GPU that has the whole *)
(* memory of its board, "integrated" for one that shares it and is not     *)
(* counted beside other cards.  Tools that name cards alike count each for *)
(* the largest of them: cards of one name, and without some tools all the  *)
(* cards of a vendor, by what their names say when no tool reads memory.   *)
Weight(machine, missing, c) ==
    LET cards    == ToSet(machine.cards)
        alike    == {d \in cards : IF missing = {} THEN d.name = c.name ELSE d.vendor = c.vendor}
        own(d)   == IF missing = {} THEN d.vram ELSE Max({d.vram, estimate_vram_from_name(d.name)})
        memory(d) == CASE d.kind = "own" -> own(d) [] d.kind = "pool" -> machine.pool [] OTHER -> 0
    IN  IF \A d \in cards : d.kind = "integrated" THEN machine.pool
        ELSE Max({memory(d) : d \in alike})

(* Whatever tools a machine has, and however they name its GPUs, no card   *)
(* is counted twice because two of them report it: what is detected is at  *)
(* most one weight for every card.                                         *)
MemoryCountedOnce ==
    (start # None /\ start.overrides = NoOverrides) =>
        LET weight(c) == Weight(start.machine, start.missing, c)
        IN  orElse(start.specs.total_vram, 0)
                <= FoldSeq(LAMBDA c, n : n + weight(c), 0, start.machine.cards)

(* Not guaranteed: that no more is detected than the machine has.  The     *)
(* largest card of a group counts for all of it, a missing tool leaves     *)
(* what the name says, and two GPUs with one pool have it twice.           *)
NoMoreThanThereIs ==
    (start # None /\ start.overrides = NoOverrides) =>
        LET pooled == \E c \in ToSet(start.machine.cards) : c.kind # "own"
        IN  orElse(start.specs.total_vram, 0)
                <= FoldSeq(LAMBDA c, n : n + c.vram, IF pooled THEN start.machine.pool ELSE 0,
                           start.machine.cards)

(* The cursor lies in the text it edits: the popups insert at the cursor   *)
(* without a test, which outside of the text ends the program.             *)
CursorsInside ==
    Running("tui") =>
        /\ app.plan.cursor \in 0..Active(app.plan).len
        /\ app.sim.cursor  \in 0..Active(app.sim).len
        /\ app.adv.cursor  \in 0..Active(app.adv).len

=============================================================================
