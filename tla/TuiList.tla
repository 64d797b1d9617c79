------------------------------ MODULE TuiList ------------------------------
(***************************************************************************)
(* The model table of llmfit's terminal UI: the App of tui_app.rs as far   *)
(* as the table, its filters, its popups and the views over it go, and the *)
(* key handlers of tui_events.rs which drive them.                         *)
(*                                                                         *)
(* The program is one thread: handle_events first drains the channels of   *)
(* the worker threads (tick_pull), then waits up to 50 ms for a key and    *)
(* calls the handler of the current mode.  A handler is a function from    *)
(* the old App to the new one, here an operator on the record app.  What   *)
(* the text fields of the plan panel and its popups hold is the subject of *)
(* PlanPanel, downloads that of Downloads, the leaderboard that of         *)
(* BenchBoard.                                                             *)
(*                                                                         *)
(* Rows of all_fits are models; what the analysis says of a model is the   *)
(* constant Analysis, which Fit computes.  Indices into filtered_fits      *)
(* (selected_row, visual_anchor) count from 0 as in the code, indices into *)
(* all_fits count from 1.                                                  *)
(***************************************************************************)
EXTENDS Integers, Sequences, FiniteSets, SequencesExt

CONSTANTS
    Models,      \* the catalog
    Catalog,     \* Catalog[m]: what the database says of m
    Specs,       \* hardware that can be simulated
    RealSpecs,   \* the detected hardware
    Configs,     \* advanced configurations
    Baseline,    \* calc_config_baseline
    Apple,       \* the specs with Metal and unified memory
    Rankable,    \* Rankable[s]: the models that can run on s, in catalog order
    Analysis,    \* Analysis[s][c][m]: what analyze_with_config finds
    Capabilities,\* Capability::all
    Queries,     \* what the user searches for
    Ranges,      \* what the user types into the range fields
    Cached,      \* the models llama.cpp finds on disk at the start
    Installs,    \* what a provider may report as installed
    None,        \* no value
    Habits,      \* sets of keys; a user presses those of one of them in normal mode
    MaxKeys,     \* bound: keys pressed, but for those that move between columns
    MaxMsgs,     \* bound: messages of the detection threads
    MaxStarts    \* bound: starts of the program after the first

(* Every model that can run on some hardware is in the catalog, and no     *)
(* capability is listed twice.                                             *)
ASSUME ListAssumption ==
    /\ RealSpecs \in Specs /\ Baseline \in Configs /\ Apple \subseteq Specs
    /\ \A s \in Specs : Rankable[s] \in Seq(Models)
    /\ Capabilities \in Seq(STRING) /\ IsInjective(Capabilities)
    /\ MaxKeys \in Nat /\ MaxMsgs \in Nat /\ MaxStarts \in Nat

(* The query of a program that starts is empty. *)
ASSUME QueryAssumption == "" \in Queries

(* What a row is filtered and sorted by are numbers; providers and use     *)
(* cases are numbered in the order of their names.                         *)
ASSUME RowAssumption ==
    \A m \in Models :
        /\ {Catalog[m].provider, Catalog[m].params, Catalog[m].ctx, Catalog[m].date}
                \cup Catalog[m].gguf \subseteq Nat
        /\ IsFiniteSet(Catalog[m].gguf)
        /\ \A s \in Specs, c \in Configs :
            LET f == Analysis[s][c][m]
            IN  {f.score, f.tps, f.mem, f.ctx, f.use_case} \subseteq Nat

FitFilters == {"All", "Runnable", "Perfect", "Good", "Marginal", "TooTight", "TurboQuantFit"}
Availabilities == {"All", "HasGguf", "Installed"}
TpFilters == {"All", "Tp2", "Tp3", "Tp4"}
SortColumns == {"Score", "Tps", "Params", "MemPct", "Ctx", "ReleaseDate", "UseCase", "Provider"}
RangeFields == {"ParamsMin", "ParamsMax", "MemPctMin", "MemPctMax"}

(* FilterSnapshot: what Esc in the filter popup restores *)
FilterSnapshots ==
    [range : [RangeFields -> Ranges \cup {None}], sort_ascending : BOOLEAN,
     fit_filter : FitFilters, availability : Availabilities]

(* InputMode has a popup with a list of entries for each of these. *)
Popups == {"Provider", "UseCase", "Capability", "Quant", "RunMode",
           "ParamsBucket", "License", "Runtime"}

VARIABLES
    app,         \* the App
    saved,       \* filters.json, None before the first save
    msgs,        \* messages of the detection threads not yet received
    habit,       \* the keys of this user
    budget       \* [keys, msgs, starts]: what the bounds leave

vars == <<app, saved, msgs, habit, budget>>

-----------------------------------------------------------------------------
(* The numbers of a set in increasing order. *)
InOrder(S) ==
    [i \in 1..Cardinality(S) |-> CHOOSE x \in S : Cardinality({y \in S : y <= x}) = i]

(* The entries of the popups, computed once, from the models that can run  *)
(* on the detected hardware: those that a simulation adds are not in them. *)
Lists ==
    LET rows == ToSet(Rankable[RealSpecs])
        fit(m) == Analysis[RealSpecs][Baseline][m]
        license == {Catalog[m].license : m \in rows}
    IN  [p \in Popups |->
            CASE p = "Provider"     ->
                    InOrder(UNION {{Catalog[m].provider} \cup Catalog[m].gguf : m \in rows})
              [] p = "UseCase"      -> InOrder({fit(m).use_case : m \in rows})
              [] p = "Capability"   -> Capabilities
              [] p = "Quant"        -> SetToSeq({fit(m).quant : m \in rows})
              [] p = "RunMode"      -> <<"GPU", "MoE", "CPU+GPU", "CPU">>
              [] p = "ParamsBucket" -> <<"<3B", "3-7B", "7-14B", "14-30B", "30-70B", "70B+">>
              [] p = "License"      -> SetToSeq(license \ {"Unknown"})
                                        \o SetToSeq(license \cap {"Unknown"})
              [] p = "Runtime"      -> <<"llama.cpp", "MLX", "vLLM">>]

-----------------------------------------------------------------------------
(* Cycles of the enumerations. *)

NextIn(cycle, x) ==
    LET i == CHOOSE i \in 1..Len(cycle) : cycle[i] = x
    IN  cycle[(i % Len(cycle)) + 1]

(* FitFilter::next *)
FitFilterNext(f) ==
    NextIn(<<"All", "Runnable", "Perfect", "Good", "Marginal", "TooTight",
             "TurboQuantFit">>, f)

(* AvailabilityFilter::next *)
AvailabilityNext(f) == NextIn(<<"All", "HasGguf", "Installed">>, f)

(* TpFilter::next *)
TpFilterNext(f) == NextIn(<<"All", "Tp2", "Tp3", "Tp4">>, f)

(* SortColumn::next *)
SortColumnNext(c) ==
    NextIn(<<"Score", "Tps", "MemPct", "Ctx", "ReleaseDate", "UseCase",
             "Provider", "Params">>, c)

(* FilterPopupField::next *)
FilterFields == <<"ParamsMin", "ParamsMax", "MemPctMin", "MemPctMax",
                  "SortDirection", "FitFilter", "Availability">>
FilterFieldNext(f) == NextIn(FilterFields, f)

(* FilterPopupField::prev *)
FilterFieldPrev(f) == NextIn(Reverse(FilterFields), f)

(* TpFilter::matches *)
TpMatches(f, m) ==
    CASE f = "All" -> TRUE
      [] f = "Tp2" -> 2 \in Catalog[m].tp
      [] f = "Tp3" -> 3 \in Catalog[m].tp
      [] f = "Tp4" -> 4 \in Catalog[m].tp

(* sort_column_from_label: there is no arm for the label of Provider *)
sort_column_from_label(c) == IF c = "Provider" THEN "Score" ELSE c

-----------------------------------------------------------------------------
(* What the analysis and the installed index say of a row. *)

FitOf(a, m) == Analysis[a.specs][a.config][m]

(* InstalledIndex::is_installed: any provider reports the model *)
is_installed(found, m) == \E p \in DOMAIN found : m \in found[p]

(* The comparator of rank_models_by_fit_opts_col_dir as a key: rows are    *)
(* ordered by their keys, lexicographically.  First what holds in both     *)
(* directions, then what the column compares.                              *)
RankClass(a, installed_first, column, m) ==
    <<IF installed_first /\ ~a.installed[m] THEN 1 ELSE 0,
      IF FitOf(a, m).level = "TooTight" THEN 1 ELSE 0,
      IF column = "ReleaseDate" /\ Catalog[m].date = 0 THEN 1 ELSE 0>>

ColumnKey(a, column, m) ==
    LET f == FitOf(a, m)
        c == Catalog[m]
    IN  CASE column = "Score"       -> <<-f.score>>
          [] column = "Tps"         -> <<-f.tps, -f.score>>
          [] column = "Params"      -> <<-c.params>>
          [] column = "MemPct"      -> <<-f.mem>>
          [] column = "Ctx"         -> <<-f.ctx, -c.ctx>>
          [] column = "ReleaseDate" -> <<-c.date, -f.score>>
          [] column = "UseCase"     -> <<f.use_case, -f.score>>
          [] column = "Provider"    -> <<c.provider, -f.score>>

Negated(k) == [i \in 1..Len(k) |-> -k[i]]

(* The bug the comment in re_sort tells of: ascending turned the whole     *)
(* list around.                                                            *)
RankKeyReversed(a, installed_first, column, ascending, m) ==
    LET k == RankClass(a, installed_first, column, m) \o ColumnKey(a, column, m)
    IN  IF ascending THEN Negated(k) ELSE k

RankKey(a, installed_first, column, ascending, m) ==
    RankClass(a, installed_first, column, m)
        \o (IF ascending THEN Negated(ColumnKey(a, column, m))
            ELSE ColumnKey(a, column, m))

LexLess(k, l) ==
    \E i \in 1..Len(k) : k[i] < l[i] /\ \A j \in 1..(i - 1) : k[j] = l[j]

(* rank_models_by_fit_opts_col_dir: a stable sort *)
rank_models_by_fit_opts_col_dir(a, rows, installed_first, column, ascending) ==
    LET N == 1..Len(rows)
        key == [i \in N |->
                    RankKey(a, installed_first, column, ascending, rows[i])]
        before(i, j) == LexLess(key[i], key[j]) \/ (key[i] = key[j] /\ i < j)
        place == [i \in N |-> 1 + Cardinality({j \in N : before(j, i)})]
    IN  [p \in N |-> rows[CHOOSE i \in N : place[i] = p]]

(* rank_models_by_fit: by score, installed models anywhere *)
rank_models_by_fit(a, rows) ==
    rank_models_by_fit_opts_col_dir(a, rows, FALSE, "Score", FALSE)

-----------------------------------------------------------------------------
(* apply_filters: one operator per filter, all of them must hold. *)

AllSelected(a, p) == a.selected[p] = 1..Len(Lists[p])

SelectedEntries(a, p) == {Lists[p][i] : i \in a.selected[p]}

(* all terms of the query occur in the text of the row *)
MatchesSearch(a, m) == a.query = "" \/ a.query \in Catalog[m].text

(* matches_provider_filter with provider_selected: the provider of the     *)
(* model or of one of its GGUF sources is selected; one that is not in the *)
(* list is not                                                             *)
MatchesProvider(a, m) ==
    ({Catalog[m].provider} \cup Catalog[m].gguf)
        \cap SelectedEntries(a, "Provider") # {}

MatchesUseCase(a, m) ==
    LET uc == FitOf(a, m).use_case
    IN  uc \in ToSet(Lists["UseCase"]) => uc \in SelectedEntries(a, "UseCase")

(* the fit filter and the availability filter *)
MatchesFit(a, m) ==
    LET f == FitOf(a, m)
    IN  CASE a.fit_filter = "All"           -> TRUE
          [] a.fit_filter = "TurboQuantFit" -> f.turboquant
          [] a.fit_filter = "Runnable"      -> f.level # "TooTight"
          [] OTHER                          -> f.level = a.fit_filter

MatchesAvailability(a, m) ==
    CASE a.availability = "All"       -> TRUE
      [] a.availability = "HasGguf"   -> Catalog[m].gguf # {}
      [] a.availability = "Installed" -> a.installed[m]

MatchesCapability(a, m) ==
    \/ AllSelected(a, "Capability")
    \/ SelectedEntries(a, "Capability") \cap Catalog[m].capabilities # {}

MatchesQuant(a, m) ==
    \/ AllSelected(a, "Quant")
    \/ FitOf(a, m).quant \in SelectedEntries(a, "Quant")

MatchesRunMode(a, m) ==
    \/ AllSelected(a, "RunMode")
    \/ FitOf(a, m).run_mode \in SelectedEntries(a, "RunMode")

ParamsBucket(params) ==
    1 + Cardinality({b \in {3, 7, 14, 30, 70} : params >= b})

MatchesParamsBucket(a, m) ==
    \/ AllSelected(a, "ParamsBucket")
    \/ ParamsBucket(Catalog[m].params) \in a.selected["ParamsBucket"]

MatchesLicense(a, m) ==
    \/ AllSelected(a, "License")
    \/ Catalog[m].license \in SelectedEntries(a, "License")

(* by compatibility, not by the runtime the analysis chose *)
MatchesRuntime(a, m) ==
    LET c == Catalog[m]
        compatible ==
            (IF ~c.mlx_only /\ ~c.prequantized THEN {"llama.cpp"} ELSE {}) \cup
            (IF /\ a.specs \in Apple
                /\ c.mlx \/ (~c.prequantized /\ c.gguf # {})
             THEN {"MLX"} ELSE {}) \cup
            (IF c.prequantized THEN {"vLLM"} ELSE {})
    IN  \/ AllSelected(a, "Runtime")
        \/ SelectedEntries(a, "Runtime") \cap compatible # {}

(* the range of parameters and of memory; an empty field does not bound *)
MatchesRanges(a, m) ==
    LET within(lo, x, hi) == /\ lo = None \/ x >= lo
                             /\ hi = None \/ x <= hi
    IN  /\ within(a.range["ParamsMin"], Catalog[m].params, a.range["ParamsMax"])
        /\ within(a.range["MemPctMin"], FitOf(a, m).mem, a.range["MemPctMax"])

Matches(a, m) ==
    /\ Catalog[m].mlx_only => a.specs \in Apple
    /\ MatchesSearch(a, m)
    /\ MatchesProvider(a, m)
    /\ MatchesUseCase(a, m)
    /\ MatchesFit(a, m)
    /\ MatchesAvailability(a, m)
    /\ MatchesCapability(a, m)
    /\ MatchesQuant(a, m)
    /\ MatchesRunMode(a, m)
    /\ MatchesParamsBucket(a, m)
    /\ TpMatches(a.tp_filter, m)
    /\ MatchesLicense(a, m)
    /\ MatchesRuntime(a, m)
    /\ MatchesRanges(a, m)

MinOf(x, y) == IF x < y THEN x ELSE y
MaxOf(x, y) == IF x > y THEN x ELSE y

KeepRow(row, n) == row

(* the selection stays inside the list *)
ClampRow(row, n) == IF n = 0 THEN 0 ELSE MinOf(row, n - 1)

MatchingRows(a) ==
    InOrder({i \in 1..Len(a.all_fits) : Matches(a, a.all_fits[i])})

ShowRows(a, rows) == [a EXCEPT !.filtered = rows, !.row = ClampRow(@, Len(rows))]

apply_filters(a) == ShowRows(a, MatchingRows(a))

(* re_sort: sort with the chosen column, direction and preference, refilter *)
re_sort(a) ==
    apply_filters(
        [a EXCEPT !.all_fits =
            rank_models_by_fit_opts_col_dir(a, @, a.installed_first,
                                            a.sort_column, a.sort_ascending)])

-----------------------------------------------------------------------------
(* The start of the program. *)

AllOn == [p \in Popups |-> 1..Len(Lists[p])]

NoRange == [f \in RangeFields |-> None]

(* FilterConfig: what filters.json holds; a map per popup says which of its *)
(* entries are selected                                                    *)
FilterConfigs ==
    [fit_filter : FitFilters, availability : Availabilities, tp_filter : TpFilters,
     sort_column : SortColumns, sort_ascending : BOOLEAN, installed_first : BOOLEAN,
     query : Queries, range : [RangeFields -> Ranges \cup {None}],
     selected : [Popups -> UNION {[ToSet(Lists[p]) -> BOOLEAN] : p \in Popups}]]

ASSUME NoneAssumption ==
    None \notin Nat \cup Models \cup FilterSnapshots \cup FilterConfigs

NoView == [v \in {"detail", "compare", "multi", "plan", "downloads"} |-> FALSE]

(* The live view of the benchmark: whether it and its details are shown,   *)
(* whether the worker runs, and whether the user is asked to confirm that  *)
(* he leaves a running one.  What the view holds is left out.              *)
NoBench == [show |-> FALSE, detail |-> FALSE, running |-> FALSE, confirm |-> FALSE]

(* FilterConfig::apply_map: entries the file does not know keep their      *)
(* default, which is selected                                              *)
apply_map(p, map) ==
    {i \in 1..Len(Lists[p]) :
        Lists[p][i] \in DOMAIN map => map[Lists[p][i]]}

(* FilterConfig::build_map *)
build_map(a, p) ==
    [n \in ToSet(Lists[p]) |-> \E i \in a.selected[p] : Lists[p][i] = n]

(* initial_best_fit_row: the best score of the models that fit well, the   *)
(* last one of equals                                                      *)
initial_best_fit_row(a) ==
    LET level(i) == FitOf(a, a.all_fits[a.filtered[i]]).level
        score(i) == FitOf(a, a.all_fits[a.filtered[i]]).score
        good == {i \in 1..Len(a.filtered) : level(i) \in {"Perfect", "Good"}}
        best == {i \in good : \A j \in good : score(j) <= score(i)}
    IN  IF best = {} THEN 0
        ELSE (CHOOSE i \in best : \A j \in best : j <= i) - 1

(* with_specs_context_and_config: the App before the saved filters are     *)
(* read                                                                    *)
DefaultApp(found, available) ==
    LET installed == [m \in Models |-> is_installed(found, m)]
        bare == [specs |-> RealSpecs, config |-> Baseline, installed |-> installed]
    IN  [mode |-> "Normal", should_quit |-> FALSE, query |-> "",
         all_fits |-> rank_models_by_fit(bare, Rankable[RealSpecs]),
         filtered |-> [i \in 1..Len(Rankable[RealSpecs]) |-> i], row |-> 0,
         selected |-> AllOn, cursor |-> [p \in Popups |-> 0],
         provider_search |-> None, fit_filter |-> "All", availability |-> "All",
         tp_filter |-> "All", installed_first |-> FALSE,
         sort_column |-> "Score", sort_ascending |-> FALSE,
         view |-> NoView, bench |-> NoBench, mark |-> None, compare_models |-> <<>>,
         compare_scroll |-> 0, plan_model_idx |-> 0, anchor |-> None,
         select_column |-> 2, range |-> NoRange, filter_field |-> "ParamsMin",
         filter_sort_ascending |-> FALSE, filter_snapshot |-> None,
         specs |-> RealSpecs, sim_active |-> FALSE, config |-> Baseline,
         found |-> found, available |-> available, installed |-> installed]

(* the saved filters on top of the defaults *)
RestoreFilters(a, s) ==
    IF s = None THEN a
    ELSE [a EXCEPT
            !.fit_filter = s.fit_filter,
            !.availability = s.availability,
            !.tp_filter = s.tp_filter,
            !.sort_column = sort_column_from_label(s.sort_column),
            !.sort_ascending = s.sort_ascending,
            !.filter_sort_ascending = s.sort_ascending,
            !.installed_first = s.installed_first,
            !.query = s.query,
            !.selected = [p \in Popups |-> apply_map(p, s.selected[p])],
            !.range = s.range]

(* a save that forgets the range fields *)
save_filters_without_ranges(a) ==
    [fit_filter |-> a.fit_filter, availability |-> a.availability,
     tp_filter |-> a.tp_filter, sort_column |-> a.sort_column,
     sort_ascending |-> a.sort_ascending, installed_first |-> a.installed_first,
     query |-> a.query, selected |-> [p \in Popups |-> build_map(a, p)],
     range |-> NoRange]

(* save_filters *)
save_filters(a) ==
    [fit_filter |-> a.fit_filter, availability |-> a.availability,
     tp_filter |-> a.tp_filter, sort_column |-> a.sort_column,
     sort_ascending |-> a.sort_ascending, installed_first |-> a.installed_first,
     query |-> a.query, selected |-> [p \in Popups |-> build_map(a, p)],
     range |-> a.range]

(* what comes after the fields are set: filter, sort, preselect *)
SelectBest(a) == [a EXCEPT !.row = initial_best_fit_row(a)]

StartApp(found, available, s) ==
    SelectBest(re_sort(apply_filters(RestoreFilters(DefaultApp(found, available), s))))

-----------------------------------------------------------------------------
(* Moving the selection. *)

SelectedModel(a) ==
    IF a.row < Len(a.filtered) THEN a.all_fits[a.filtered[a.row + 1]] ELSE None

RowDown(a, n) == IF a.filtered = <<>> THEN a.row
                 ELSE MinOf(a.row + n, Len(a.filtered) - 1)

move_up(a)        == [a EXCEPT !.row = MaxOf(0, @ - 1)]
move_down(a)      == [a EXCEPT !.row = RowDown(a, 1)]
page_up(a)        == [a EXCEPT !.row = MaxOf(0, @ - 10)]
page_down(a)      == [a EXCEPT !.row = RowDown(a, 10)]
half_page_up(a)   == [a EXCEPT !.row = MaxOf(0, @ - 5)]
half_page_down(a) == [a EXCEPT !.row = RowDown(a, 5)]

cycle_top_bottom(a) ==
    [a EXCEPT !.row = IF a.filtered # <<>> /\ @ = Len(a.filtered) - 1 THEN 0
                      ELSE MaxOf(0, Len(a.filtered) - 1)]

Navigate(a, k) ==
    CASE k = "up"       -> move_up(a)
      [] k = "down"     -> move_down(a)
      [] k = "pageup"   -> page_up(a)
      [] k = "pagedown" -> page_down(a)
      [] k = "ctrl-u"   -> half_page_up(a)
      [] k = "ctrl-d"   -> half_page_down(a)
      [] k = "g"        -> cycle_top_bottom(a)

NavigationKeys == {"up", "down", "pageup", "pagedown", "ctrl-u", "ctrl-d", "g"}

-----------------------------------------------------------------------------
(* Filters and sorting in normal mode. *)

cycle_fit_filter(a) ==
    apply_filters([a EXCEPT !.fit_filter = FitFilterNext(@)])

cycle_availability_filter(a) ==
    apply_filters([a EXCEPT !.availability = AvailabilityNext(@)])

cycle_tp_filter(a) == apply_filters([a EXCEPT !.tp_filter = TpFilterNext(@)])

cycle_sort_column(a) ==
    re_sort([a EXCEPT !.sort_column = SortColumnNext(@), !.sort_ascending = FALSE])

toggle_installed_first(a) ==
    re_sort([a EXCEPT !.installed_first = ~@])

set_or_toggle_sort(a, column) ==
    re_sort([a EXCEPT !.sort_column = column,
                      !.sort_ascending = a.sort_column = column /\ ~@])

(* The query is one of a few; every edit goes back to the top of the list. *)
SearchEdit(a, q) == apply_filters([a EXCEPT !.query = q, !.row = 0])

-----------------------------------------------------------------------------
(* Views over the table. *)

toggle_downloads(a) ==
    LET show == ~a.view["downloads"]
    IN  [a EXCEPT !.view = [NoView EXCEPT !["downloads"] = show],
                  !.mode = IF show THEN "DownloadManager" ELSE "Normal"]

close_downloads(a) ==
    [a EXCEPT !.view["downloads"] = FALSE, !.mode = "Normal"]

(* the one view this leaves open is the comparison of several models *)
toggle_detail(a) ==
    [a EXCEPT !.view = [NoView EXCEPT !["multi"] = a.view["multi"],
                                      !["detail"] = ~a.view["detail"]]]

mark_selected_for_compare(a) ==
    [a EXCEPT !.mark = IF SelectedModel(a) = None THEN @ ELSE SelectedModel(a)]

clear_compare_mark(a) == [a EXCEPT !.mark = None, !.view["compare"] = FALSE]

(* selected_compare_pair: both rows exist and differ *)
HasComparePair(a) ==
    /\ SelectedModel(a) # None
    /\ a.mark \in ToSet(a.all_fits)
    /\ a.mark # SelectedModel(a)

toggle_compare_view(a) ==
    IF a.view["compare"] THEN [a EXCEPT !.view["compare"] = FALSE]
    ELSE IF ~HasComparePair(a) THEN a
    ELSE [a EXCEPT !.view = [NoView EXCEPT !["multi"] = a.view["multi"],
                                           !["compare"] = TRUE]]

open_plan_mode(a) ==
    IF SelectedModel(a) = None THEN a
    ELSE [a EXCEPT !.view = [NoView EXCEPT !["multi"] = a.view["multi"],
                                           !["plan"] = TRUE],
                   !.mode = "Plan",
                   !.plan_model_idx = a.filtered[a.row + 1]]

close_plan_mode_keeping_view(a) ==
    [a EXCEPT !.plan_model_idx = 0, !.mode = "Normal"]

close_plan_mode(a) ==
    [a EXCEPT !.view["plan"] = FALSE, !.plan_model_idx = 0, !.mode = "Normal"]

(* plan_model_name *)
plan_model_name(a) ==
    IF a.plan_model_idx \in 1..Len(a.all_fits) THEN a.all_fits[a.plan_model_idx]
    ELSE None

-----------------------------------------------------------------------------
(* The live view of the benchmark. *)

start_bench(a) == [a EXCEPT !.bench.running = TRUE, !.bench.confirm = FALSE]

(* one benchmark at a time, and only with Ollama *)
rerun_bench(a) ==
    IF ~a.bench.running /\ "ollama" \in a.available THEN start_bench(a) ELSE a

(* cached: load_bench_cache finds results of the models installed now *)
open_bench(a, cached) ==
    LET b == [a EXCEPT !.bench.show = TRUE]
    IN  IF cached THEN b ELSE rerun_bench(b)

close_bench(a) == [a EXCEPT !.bench.show = FALSE]

(* an answer that closes the view and leaves the question open *)
confirm_quit_asking(a, k) == IF k = "q" THEN close_bench(a) ELSE a

(* bench_confirm_quit: the next key is the answer, and q (or y) means yes *)
confirm_quit(a, k) ==
    LET b == [a EXCEPT !.bench.confirm = FALSE]
    IN  IF k = "q" THEN close_bench(b) ELSE b

(* q and Esc while the view is open *)
bench_escape(a) ==
    CASE a.bench.detail -> [a EXCEPT !.bench.detail = FALSE]
      [] ~a.bench.detail /\ a.bench.running -> [a EXCEPT !.bench.confirm = TRUE]
      [] OTHER -> close_bench(a)

(* tick_bench at the last message of the worker, AllDone; a question that  *)
(* is asked stays                                                          *)
tick_bench(a) == [a EXCEPT !.bench.running = FALSE]

-----------------------------------------------------------------------------
(* Visual mode: a range of rows from the anchor to the selection. *)

enter_visual_mode(a) == [a EXCEPT !.anchor = a.row, !.mode = "Visual"]

exit_visual_mode(a) == [a EXCEPT !.anchor = None, !.mode = "Normal"]

visual_range(a) == MinOf(a.anchor, a.row)..MaxOf(a.anchor, a.row)

(* the rows of the range that the list still has *)
VisualRows(a) == InOrder({i \in 1..Len(a.filtered) : i - 1 \in visual_range(a)})

visual_compare(a) ==
    IF a.anchor = None \/ a.anchor = a.row THEN a
    ELSE [exit_visual_mode(a) EXCEPT
            !.compare_models = [i \in DOMAIN VisualRows(a) |-> a.filtered[VisualRows(a)[i]]],
            !.compare_scroll = 0,
            !.view = [NoView EXCEPT !["multi"] = TRUE]]

close_multi_compare(a) ==
    [a EXCEPT !.view["multi"] = FALSE, !.compare_models = <<>>]

multi_compare_scroll_left(a) ==
    [a EXCEPT !.compare_scroll = MaxOf(0, @ - 1)]

multi_compare_scroll_right(a) ==
    [a EXCEPT !.compare_scroll =
        IF @ < Len(a.compare_models) - 1 THEN @ + 1 ELSE @]

-----------------------------------------------------------------------------
(* Popups with a list of entries: one body, eight times in the code. *)

(* provider_filtered_indices: the entries the search in the popup leaves *)
ProviderEntries(a) ==
    InOrder({i \in 1..Len(Lists["Provider"]) :
                \/ a.provider_search = None
                \/ Lists["Provider"][i] = a.provider_search})

Shown(a, p) ==
    IF p = "Provider" THEN ProviderEntries(a)
    ELSE [i \in 1..Len(Lists[p]) |-> i]

Toggle(set, i) == IF i \in set THEN set \ {i} ELSE set \cup {i}

PopupUp(a, p, n) == [a EXCEPT !.cursor[p] = MaxOf(0, @ - n)]

PopupDown(a, p, n) ==
    [a EXCEPT !.cursor[p] =
        IF @ + 1 < Len(Shown(a, p)) THEN MinOf(Len(Shown(a, p)) - 1, @ + n) ELSE @]

PopupToggle(a, p) ==
    IF a.cursor[p] < Len(Shown(a, p))
    THEN apply_filters([a EXCEPT !.selected[p] =
                            Toggle(@, Shown(a, p)[a.cursor[p] + 1])])
    ELSE a

(* all entries shown are selected, or, when they already are, none *)
PopupSelectAll(a, p) ==
    LET shown == ToSet(Shown(a, p))
    IN  apply_filters([a EXCEPT !.selected[p] =
            IF shown \subseteq @ THEN @ \ shown ELSE @ \cup shown])

PopupKey(a, p, k) ==
    CASE k = "esc"    -> [a EXCEPT !.mode = "Normal"]
      [] k = "up"     -> PopupUp(a, p, 1)
      [] k = "down"   -> PopupDown(a, p, 1)
      [] k = "toggle" -> PopupToggle(a, p)
      [] k = "all"    -> PopupSelectAll(a, p)

PopupKeys == {"esc", "up", "down", "toggle", "all"}

OpenPopup(a, popup) == [a EXCEPT !.mode = popup]

use_case_popup(a, k)      == PopupKey(a, "UseCase", k)
capability_popup(a, k)    == PopupKey(a, "Capability", k)
quant_popup(a, k)         == PopupKey(a, "Quant", k)
run_mode_popup(a, k)      == PopupKey(a, "RunMode", k)
params_bucket_popup(a, k) == PopupKey(a, "ParamsBucket", k)
license_popup(a, k)       == PopupKey(a, "License", k)
runtime_popup(a, k)       == PopupKey(a, "Runtime", k)

open_provider_popup(a) ==
    [OpenPopup(a, "ProviderPopup") EXCEPT !.provider_search = None,
                                     !.cursor["Provider"] = 0]

close_provider_popup(a) ==
    [a EXCEPT !.mode = "Normal", !.provider_search = None]

(* an edit of the search in the provider popup, with clamp_provider_cursor *)
provider_search_edit(a, q) ==
    LET b == [a EXCEPT !.provider_search = q]
    IN  [b EXCEPT !.cursor["Provider"] = ClampRow(@, Len(ProviderEntries(b)))]

provider_popup_select_all(a) ==
    IF ProviderEntries(a) = <<>> THEN a ELSE PopupSelectAll(a, "Provider")

provider_popup_clear_all(a) ==
    apply_filters([a EXCEPT !.selected["Provider"] = @ \ ToSet(ProviderEntries(a))])

provider_popup(a, k) ==
    CASE k = "esc"        -> close_provider_popup(a)
      [] k = "up"         -> PopupUp(a, "Provider", 1)
      [] k = "down"       -> PopupDown(a, "Provider", 1)
      [] k = "shift-up"   -> PopupUp(a, "Provider", 25)
      [] k = "shift-down" -> PopupDown(a, "Provider", 25)
      [] k = "toggle"     -> PopupToggle(a, "Provider")
      [] k = "all"        -> provider_popup_select_all(a)
      [] k = "ctrl-n"     -> provider_popup_clear_all(a)

ProviderPopupKeys == PopupKeys \cup {"shift-up", "shift-down", "ctrl-n"}

-----------------------------------------------------------------------------
(* Select mode: a column of the header. *)

select_column_left(a)  == [a EXCEPT !.select_column = MaxOf(1, @ - 1)]
select_column_right(a) == [a EXCEPT !.select_column = MinOf(14, @ + 1)]

(* the columns that sort *)
SortOfColumn(c) ==
    CASE c = 5 -> "Score" [] c = 6 -> "Tps" [] c = 10 -> "MemPct" [] c = 11 -> "Ctx"
      [] c = 12 -> "ReleaseDate"

(* the popups are entered here without their open function *)
activate_select_column_filter(a) ==
    LET c == a.select_column
    IN  CASE c = 1  -> cycle_availability_filter(a)
          [] c = 2  -> [a EXCEPT !.mode = "Search"]
          [] c = 3  -> OpenPopup(a, "ProviderPopup")
          [] c = 4  -> OpenPopup(a, "ParamsBucketPopup")
          [] c = 7  -> OpenPopup(a, "QuantPopup")
          [] c = 8  -> a
          [] c = 9  -> OpenPopup(a, "RunModePopup")
          [] c = 13 -> cycle_fit_filter(a)
          [] c = 14 -> OpenPopup(a, "UseCasePopup")
          [] OTHER  -> set_or_toggle_sort(a, SortOfColumn(c))

-----------------------------------------------------------------------------
(* The filter popup: ranges, direction, fit and availability, applied on   *)
(* Enter, taken back on Esc.                                               *)

open_filter_popup(a) ==
    [a EXCEPT !.filter_snapshot =
                [range |-> a.range, sort_ascending |-> a.sort_ascending,
                 fit_filter |-> a.fit_filter, availability |-> a.availability],
              !.filter_field = "ParamsMin",
              !.filter_sort_ascending = a.sort_ascending,
              !.mode = "FilterPopup"]

close_filter_popup(a) ==
    LET s == a.filter_snapshot
        b == IF s = None THEN a
             ELSE [a EXCEPT !.range = s.range,
                            !.sort_ascending = s.sort_ascending,
                            !.fit_filter = s.fit_filter,
                            !.availability = s.availability]
    IN  [b EXCEPT !.filter_snapshot = None, !.mode = "Normal"]

apply_filter_popup(a) ==
    [re_sort(apply_filters([a EXCEPT !.filter_snapshot = None,
                                     !.sort_ascending = a.filter_sort_ascending]))
        EXCEPT !.mode = "Normal"]

(* the space bar, on the fields that are not text *)
filter_space(a) ==
    CASE a.filter_field = "SortDirection" ->
            [a EXCEPT !.filter_sort_ascending = ~@]
      [] a.filter_field = "FitFilter"     ->
            [a EXCEPT !.fit_filter = FitFilterNext(@)]
      [] a.filter_field = "Availability"  ->
            [a EXCEPT !.availability = AvailabilityNext(@)]
      [] OTHER -> a

(* filter_input, filter_backspace, filter_delete, filter_clear_active_input: *)
(* the active field holds some other value, or nothing                       *)
filter_edit(a, v) ==
    IF a.filter_field \in DOMAIN a.range
    THEN [a EXCEPT !.range[a.filter_field] = v] ELSE a

-----------------------------------------------------------------------------
(* Simulated hardware and advanced configuration: everything is analysed   *)
(* again.                                                                  *)

ScoreRanked(a) ==
    apply_filters([a EXCEPT !.all_fits = rank_models_by_fit(a, Rankable[a.specs])])

rebuild_fits_keeping_compare(a) ==
    LET b == [a EXCEPT !.installed = [m \in Models |-> is_installed(a.found, m)],
                       !.row = 0]
    IN  ScoreRanked(b)

(* rebuild_fits: ranks by score whatever the chosen column is *)
rebuild_fits(a) ==
    ScoreRanked([a EXCEPT !.installed = [m \in Models |-> is_installed(a.found, m)],
                          !.row = 0, !.compare_models = <<>>, !.mark = None])

apply_simulation(a, s) ==
    [rebuild_fits([a EXCEPT !.specs = s, !.sim_active = TRUE])
        EXCEPT !.mode = "Normal"]

reset_simulation(a) ==
    rebuild_fits([a EXCEPT !.specs = RealSpecs, !.sim_active = FALSE])

apply_advanced_config(a, c) ==
    [rebuild_fits([a EXCEPT !.config = c]) EXCEPT !.mode = "Normal"]

(* Ctrl-R resets and stays in the popup *)
reset_advanced_config(a) ==
    [rebuild_fits([a EXCEPT !.config = Baseline]) EXCEPT !.mode = "AdvancedConfig"]

-----------------------------------------------------------------------------
(* Installed models. *)

Remark(a, found) ==
    re_sort([a EXCEPT !.found = found,
                      !.installed = [m \in Models |-> is_installed(found, m)]])

(* refresh_installed asks every provider again *)
refresh_installed(a, found) == Remark(a, found)

(* tick_provider_detection: all messages of the channel, then one re-sort *)
tick_provider_detection(a, ms) ==
    LET answered == {ms[i].provider : i \in 1..Len(ms)}
        last(p) == ms[CHOOSE i \in 1..Len(ms) : ms[i].provider = p]
    IN  IF ms = <<>> THEN a
        ELSE Remark([a EXCEPT !.available =
                        (@ \ answered) \cup {p \in answered : last(p).available}],
                    [p \in DOMAIN a.found |->
                        IF p \in answered THEN last(p).installed ELSE a.found[p]])

-----------------------------------------------------------------------------
(* The handlers of tui_events.rs, one per mode. *)

(* q and Esc in normal mode leave the benchmark, close the topmost view,   *)
(* or save and quit                                                        *)
normal_escape(a) ==
    IF a.bench.show THEN bench_escape(a)
    ELSE CASE a.view["downloads"] -> close_downloads(a)
           [] ~a.view["downloads"] /\ a.view["multi"] -> close_multi_compare(a)
           [] ~a.view["downloads"] /\ ~a.view["multi"] /\ a.view["detail"] ->
                 [a EXCEPT !.view["detail"] = FALSE]
           [] ~a.view["downloads"] /\ ~a.view["multi"] /\ ~a.view["detail"]
                 /\ a.view["compare"] -> [a EXCEPT !.view["compare"] = FALSE]
           [] OTHER -> [a EXCEPT !.should_quit = TRUE]

(* the keys that open a mode, change the table or a view; the keys of the  *)
(* leaderboard and of downloads are in BenchBoard and Downloads            *)
table_key(a, k) ==
    CASE k \in NavigationKeys -> Navigate(a, k)
      [] k = "left"  -> IF a.view["multi"] THEN multi_compare_scroll_left(a) ELSE a
      [] k = "right" -> IF a.view["multi"] THEN multi_compare_scroll_right(a) ELSE a
      [] k = "h"     -> IF a.view["multi"] THEN multi_compare_scroll_left(a)
                        ELSE [a EXCEPT !.mode = "HelpPopup"]
      [] k = "v"     -> enter_visual_mode(a)
      [] k = "V"     -> [a EXCEPT !.mode = "Select"]
      [] k = "/"     -> [a EXCEPT !.mode = "Search"]
      [] k = "f"     -> cycle_fit_filter(a)
      [] k = "F"     -> open_filter_popup(a)
      [] k = "a"     -> cycle_availability_filter(a)
      [] k = "T"     -> cycle_tp_filter(a)
      [] k = "s"     -> cycle_sort_column(a)
      [] k = "p"     -> open_plan_mode(a)
      [] k = "P"     -> open_provider_popup(a)
      [] k = "U"     -> OpenPopup(a, "UseCasePopup")
      [] k = "C"     -> OpenPopup(a, "CapabilityPopup")
      [] k = "L"     -> OpenPopup(a, "LicensePopup")
      [] k = "R"     -> OpenPopup(a, "RuntimePopup")
      [] k = "S"     -> [a EXCEPT !.mode = "Simulation"]
      [] k = "A"     -> [a EXCEPT !.mode = "AdvancedConfig"]
      [] k = "i"     -> IF a.available # {} THEN toggle_installed_first(a) ELSE a
      [] k = "D"     -> toggle_downloads(a)
      [] k = "enter" -> toggle_detail(a)
      [] k = "m"     -> mark_selected_for_compare(a)
      [] k = "c"     -> toggle_compare_view(a)
      [] k = "x"     -> clear_compare_mark(a)

(* The live view of the benchmark takes these keys: up and down move in    *)
(* it; the others reach the table behind it.                               *)
bench_key(a, k) ==
    CASE k \in {"up", "down"}  -> a
      [] k = "enter"           -> [a EXCEPT !.bench.detail = ~@]
      [] OTHER                 -> table_key(a, k)

normal_key(a, k) ==
    IF a.bench.confirm THEN confirm_quit(a, k)
    ELSE IF k \in {"esc", "q"} THEN normal_escape(a)
    ELSE IF a.bench.show THEN bench_key(a, k)
    ELSE table_key(a, k)

NormalKeys == NavigationKeys \cup
    {"esc", "q", "left", "right", "h", "v", "V", "/", "f", "F", "a", "T", "s", "p",
     "P", "U", "C", "L", "R", "S", "A", "i", "D", "enter", "m", "c", "x"}

(* The user presses keys that normal mode knows. *)
ASSUME KeysAssumption == \A keys \in Habits : keys \subseteq NormalKeys \cup {"I"}

visual_key(a, k) ==
    CASE k \in NavigationKeys -> Navigate(a, k)
      [] k = "esc" -> exit_visual_mode(a)
      [] k = "m"   -> mark_selected_for_compare(a)
      [] k = "c"   -> visual_compare(a)

select_key(a, k) ==
    CASE k = "esc"   -> [a EXCEPT !.mode = "Normal"]
      [] k = "left"  -> select_column_left(a)
      [] k = "right" -> select_column_right(a)
      [] k = "enter" -> activate_select_column_filter(a)
      [] k = "up"    -> move_up(a)
      [] k = "down"  -> move_down(a)

search_key(a, k) ==
    CASE k = "esc"  -> [a EXCEPT !.mode = "Normal"]
      [] k = "up"   -> move_up(a)
      [] k = "down" -> move_down(a)

filter_key(a, k) ==
    CASE k = "esc"  -> close_filter_popup(a)
      [] k = "tab"  -> [a EXCEPT !.filter_field = FilterFieldNext(@)]
      [] k = "back" -> [a EXCEPT !.filter_field = FilterFieldPrev(@)]
      [] k = " "    -> filter_space(a)

(* the popups this module only opens and closes, and the plan view *)
escape_key(a, k) ==
    CASE a.mode = "Plan"            -> close_plan_mode(a)
      [] a.mode = "DownloadManager" -> close_downloads(a)
      [] OTHER                      -> [a EXCEPT !.mode = "Normal"]

(* A key is handled by the handler of the mode. *)
Press(mode, a) ==
    /\ app.mode = mode
    /\ budget.keys > 0 /\ ~app.should_quit
    /\ app' = a
    /\ budget' = [budget EXCEPT !.keys = @ - 1]
    /\ UNCHANGED <<msgs, habit>>

handle_normal_mode ==
    \E k \in habit \ {"I"} :
        /\ Press("Normal", normal_key(app, k))
        /\ saved' = IF app'.should_quit THEN save_filters(app) ELSE saved

(* I in normal mode: the benchmark, with or without a cache that is valid *)
handle_bench_key ==
    /\ "I" \in habit
    /\ \E cached \in BOOLEAN :
        Press("Normal", IF app.bench.confirm THEN confirm_quit(app, "I")
                        ELSE IF app.bench.show THEN rerun_bench(app)
                        ELSE open_bench(app, cached))
    /\ UNCHANGED saved

(* r in normal mode; over the live view it switches what that shows *)
handle_refresh ==
    /\ app.available # {} /\ ~app.bench.confirm /\ ~app.bench.show
    /\ \E inst \in Installs :
        Press("Normal", refresh_installed(app, [app.found EXCEPT !["ollama"] = inst]))
    /\ UNCHANGED saved

handle_visual_mode ==
    /\ \E k \in NavigationKeys \cup {"esc", "m", "c"} :
        Press("Visual", visual_key(app, k))
    /\ UNCHANGED saved

handle_select_mode ==
    /\ \E k \in {"esc", "enter", "up", "down"} : Press("Select", select_key(app, k))
    /\ UNCHANGED saved

(* The keys that move between columns are not counted: they visit 14 places. *)
handle_column_keys ==
    /\ budget.keys > 0 /\ app.mode = "Select"
    /\ \E k \in {"left", "right"} : app' = select_key(app, k)
    /\ UNCHANGED <<saved, msgs, habit, budget>>

handle_search_mode ==
    /\ \/ \E k \in {"esc", "up", "down"} : Press("Search", search_key(app, k))
       \/ \E q \in Queries : Press("Search", SearchEdit(app, q))
    /\ UNCHANGED saved

handle_provider_popup_mode ==
    /\ \/ \E k \in ProviderPopupKeys :
            Press("ProviderPopup", provider_popup(app, k))
       \/ \E q \in ToSet(Lists["Provider"]) \cup {None, 0} :
            Press("ProviderPopup", provider_search_edit(app, q))
    /\ UNCHANGED saved

handle_use_case_popup_mode ==
    /\ \E k \in PopupKeys : Press("UseCasePopup", use_case_popup(app, k))
    /\ UNCHANGED saved

handle_capability_popup_mode ==
    /\ \E k \in PopupKeys : Press("CapabilityPopup", capability_popup(app, k))
    /\ UNCHANGED saved

handle_quant_popup_mode ==
    /\ \E k \in PopupKeys : Press("QuantPopup", quant_popup(app, k))
    /\ UNCHANGED saved

handle_run_mode_popup_mode ==
    /\ \E k \in PopupKeys : Press("RunModePopup", run_mode_popup(app, k))
    /\ UNCHANGED saved

handle_params_bucket_popup_mode ==
    /\ \E k \in PopupKeys : Press("ParamsBucketPopup", params_bucket_popup(app, k))
    /\ UNCHANGED saved

handle_license_popup_mode ==
    /\ \E k \in PopupKeys : Press("LicensePopup", license_popup(app, k))
    /\ UNCHANGED saved

handle_runtime_popup_mode ==
    /\ \E k \in PopupKeys : Press("RuntimePopup", runtime_popup(app, k))
    /\ UNCHANGED saved

(* Esc in the modes whose other keys do not touch the table *)
handle_plan_mode ==
    Press("Plan", escape_key(app, "esc")) /\ UNCHANGED saved

handle_help_popup_mode ==
    Press("HelpPopup", escape_key(app, "esc")) /\ UNCHANGED saved

handle_download_manager_mode ==
    Press("DownloadManager", escape_key(app, "esc")) /\ UNCHANGED saved

handle_filter_popup_mode ==
    \/ /\ \E k \in {"esc", "tab", "back", " "} :
            Press("FilterPopup", filter_key(app, k))
       /\ UNCHANGED saved
    \/ /\ \E v \in Ranges \cup {None} : Press("FilterPopup", filter_edit(app, v))
       /\ UNCHANGED saved
    \/ /\ Press("FilterPopup", apply_filter_popup(app))
       /\ saved' = save_filters(app')

handle_simulation_mode ==
    /\ \/ Press("Simulation", escape_key(app, "esc"))
       \/ \E s \in Specs : Press("Simulation", apply_simulation(app, s))
       \/ Press("Simulation", [reset_simulation(app) EXCEPT !.mode = "Normal"])
    /\ UNCHANGED saved

handle_advanced_config_mode ==
    /\ \/ Press("AdvancedConfig", escape_key(app, "esc"))
       \/ \E c \in Configs : Press("AdvancedConfig", apply_advanced_config(app, c))
       \/ Press("AdvancedConfig", reset_advanced_config(app))
    /\ UNCHANGED saved

-----------------------------------------------------------------------------
(* handle_events drains the channels, then waits 50 ms for a key.  A       *)
(* message may arrive between the two, so a key may find one not yet read; *)
(* a drain that finds nothing and a wait that ends without a key change    *)
(* nothing.                                                                *)

Tick ==
    /\ msgs # <<>> /\ ~app.should_quit
    /\ app' = tick_provider_detection(app, msgs)
    /\ msgs' = <<>>
    /\ UNCHANGED <<saved, habit, budget>>

(* The thread of the benchmark has sent its last message. *)
BenchDone ==
    /\ app.bench.running /\ ~app.should_quit
    /\ app' = tick_bench(app)
    /\ UNCHANGED <<saved, msgs, habit, budget>>

(* A detection thread reports its provider, once. *)
Detected ==
    /\ budget.msgs > 0 /\ ~app.should_quit
    /\ \E inst \in Installs, available \in BOOLEAN :
        /\ ~available => inst = {}
        /\ msgs' = Append(msgs, [provider |-> "ollama", available |-> available,
                                 installed |-> inst])
    /\ budget' = [budget EXCEPT !.msgs = @ - 1]
    /\ UNCHANGED <<app, saved, habit>>

(* The program is started again on the same machine. *)
Restart ==
    /\ app.should_quit /\ budget.starts > 0
    /\ app' = StartApp([app.found EXCEPT !["ollama"] = {}], {"llamacpp"}, saved)
    /\ msgs' = <<>>
    /\ budget' = [budget EXCEPT !.starts = @ - 1]
    /\ UNCHANGED <<saved, habit>>

Init ==
    /\ app = StartApp([llamacpp |-> Cached, ollama |-> {}], {"llamacpp"}, None)
    /\ saved = None /\ msgs = <<>> /\ habit \in Habits
    /\ budget = [keys |-> MaxKeys, msgs |-> MaxMsgs, starts |-> MaxStarts]

HandleKey ==
    \/ handle_normal_mode
    \/ handle_bench_key
    \/ handle_refresh
    \/ handle_visual_mode
    \/ handle_select_mode
    \/ handle_column_keys
    \/ handle_search_mode
    \/ handle_provider_popup_mode
    \/ handle_use_case_popup_mode
    \/ handle_capability_popup_mode
    \/ handle_quant_popup_mode
    \/ handle_run_mode_popup_mode
    \/ handle_params_bucket_popup_mode
    \/ handle_license_popup_mode
    \/ handle_runtime_popup_mode
    \/ handle_plan_mode
    \/ handle_help_popup_mode
    \/ handle_download_manager_mode
    \/ handle_filter_popup_mode
    \/ handle_simulation_mode
    \/ handle_advanced_config_mode

Next == HandleKey \/ Tick \/ BenchDone \/ Detected \/ Restart

Spec == Init /\ [][Next]_vars

-----------------------------------------------------------------------------
(* Properties. *)

(* Every index the program keeps is one it may use: the rows shown, the    *)
(* selection, the models compared, the model planned and the cursors of    *)
(* the popups.  all_fits shrinks and is reordered by simulations and by    *)
(* messages of other threads, and most uses index without a test           *)
(* (selected_fit, enqueue_capability_probes_for_visible).                  *)
IndicesValid ==
    /\ \A i \in 1..Len(app.filtered) : app.filtered[i] \in 1..Len(app.all_fits)
    /\ app.row < MaxOf(1, Len(app.filtered))
    /\ \A i \in 1..Len(app.compare_models) :
            app.compare_models[i] \in 1..Len(app.all_fits)
    /\ app.mode = "Plan" => app.plan_model_idx \in 1..Len(app.all_fits)
    /\ \A p \in Popups : app.cursor[p] < MaxOf(1, Len(Shown(app, p)))

(* A view that takes the keys is open exactly while its mode is on:        *)
(* otherwise keys would go to a table the user does not see.  (The live    *)
(* view of the benchmark is drawn over all of them: see BenchOnTop.)       *)
ModeMatchesView ==
    /\ app.mode = "Plan" <=> app.view["plan"]
    /\ app.mode = "DownloadManager" <=> app.view["downloads"]
    /\ app.mode = "Visual" <=> app.anchor # None
    /\ app.mode = "FilterPopup" <=> app.filter_snapshot # None

(* What a press of Esc or q, k, does; q only in normal mode. *)
EscapeOnce(a, k) ==
    IF a.should_quit THEN a
    ELSE CASE a.mode = "Normal"        ->
                 IF a.bench.confirm THEN confirm_quit(a, k) ELSE normal_escape(a)
           [] a.mode = "Visual"        -> exit_visual_mode(a)
           [] a.mode = "FilterPopup"   -> close_filter_popup(a)
           [] a.mode = "ProviderPopup" -> close_provider_popup(a)
           [] OTHER                    -> escape_key(a, "esc")

(* A user who wants to leave presses Esc, and q where the program asks     *)
(* whether to leave a benchmark that runs: Esc takes that as a no.         *)
LeaveOnce(a) ==
    EscapeOnce(a, IF a.bench.confirm /\ a.bench.running THEN "q" ELSE "esc")

(* The state of the App after one, and after four, of these keys.  Sets    *)
(* of one element, for TLC to compute each state once.                     *)
AfterOne(as) == {LeaveOnce(a) : a \in as}
AfterFour(as) == AfterOne(AfterOne(AfterOne(AfterOne(as))))

(* No combination of modes, views and benchmark traps the user: wherever   *)
(* the program is, eight of these keys end it.                             *)
EscLeaves == \A a \in AfterFour(AfterFour({app})) : a.should_quit

(* "TooTight entries stay last in both directions": no model that cannot   *)
(* run stands above one that can, except among installed models when these *)
(* come first.                                                             *)
UnrunnableLast ==
    \A i, j \in 1..Len(app.all_fits) :
        LET m == app.all_fits[i]
            n == app.all_fits[j]
        IN  (i < j /\ FitOf(app, m).level = "TooTight"
                   /\ FitOf(app, n).level # "TooTight")
            => app.installed_first /\ app.installed[m] /\ ~app.installed[n]

(* The filters a program starts with pick the models the filters of the    *)
(* last quit picked, as far as hardware, configuration and installed       *)
(* models are the same.                                                    *)
RestartKeepsRows ==
    [][Restart =>
        \A m \in Models :
            Matches([app EXCEPT !.specs = RealSpecs, !.config = Baseline], m)
            <=> Matches([app' EXCEPT !.installed = app.installed], m)]_vars

(* "Persist the current filter state to disk": the column the table is     *)
(* sorted by is the one of the last quit.                                  *)
RestartKeepsSort == [][Restart => app'.sort_column = app.sort_column]_vars

(* Not guaranteed by the code: the list is what the filters select.  It is *)
(* not after Esc in the filter popup when a message arrived meanwhile.     *)
ListMatchesFilters == app.mode # "FilterPopup" => app.filtered = MatchingRows(app)

(* Not guaranteed by the code: Esc alone leaves.  While a benchmark runs   *)
(* and is shown, one Esc asks and the next one takes the question back.    *)
EscAlone(a) == EscapeOnce(EscapeOnce(a, "esc"), "esc")
EscAloneLeaves ==
    EscAlone(EscAlone(EscAlone(EscAlone(app)))).should_quit

(* Not guaranteed by the code: what takes the keys is seen.  Keys that     *)
(* open the plan or the downloads work behind the live view of the         *)
(* benchmark, which is drawn over both.                                    *)
BenchOnTop == app.bench.show => app.mode \notin {"Plan", "DownloadManager"}

(* Not guaranteed by the code: the plan stays with its model.  A message   *)
(* that re-sorts the table changes which model the index means.            *)
PlanKeepsModel ==
    [][app.mode = "Plan" /\ app'.mode = "Plan"
        => plan_model_name(app) = plan_model_name(app')]_vars

(* Not guaranteed by the code: the comparison keeps its models. *)
CompareKeepsModels ==
    [][app.view["multi"] /\ app'.view["multi"] /\ app.compare_models # <<>>
        => \A i \in 1..Len(app'.compare_models) :
            app.all_fits[app.compare_models[i]]
                = app'.all_fits[app'.compare_models[i]]]_vars

(* Not guaranteed by the code: the table is in the order that its header   *)
(* shows.  After a simulation it is ordered by score.                      *)
TableInOrder == app.all_fits = re_sort(app).all_fits

=============================================================================
