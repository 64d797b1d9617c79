---------------------------- MODULE BenchBoard ----------------------------
(***************************************************************************)
(* The benchmark view of the TUI (tui_app.rs): the offer to benchmark the  *)
(* selected model, the leaderboard of this machine or of a chosen preset,  *)
(* fetched by a thread, with the stored results pinned above it, and the   *)
(* search in it.  The thread of an offer is a worker of module Share.      *)
(*                                                                         *)
(* A row is [kind, of, model, tps], kind "local", "community" or "server"; *)
(* of is the preset a row of the server was asked for, None for this       *)
(* machine's own hardware.  The list of the code is pinned, then entries.  *)
(***************************************************************************)
EXTENDS Share

CONSTANTS
    Machines,    \* the machines to start from
    Board,       \* Board[query]: rows the server has for a query
    Offers,      \* jobs of the TUI: offers for a selected, installed model
    SearchKeys,  \* what can be typed: segments of names
    MaxQuery     \* bound: keys in the search

(* A store is followed from before its first share. *)
ASSUME MachinesAssumption ==
    \A m \in Machines :
        /\ m.files \in Seq({m.files[i] : i \in DOMAIN m.files})
        /\ \A i \in DOMAIN m.files : /\ DOMAIN m.files[i] = {"where", "payload"}
                                     /\ m.files[i].where # "shared"

VARIABLES
    view,        \* the fields of App that the view uses
    keys         \* bound: keys the user still presses

vars == <<shareVars, view, keys>>

(* refresh_local_measured_tps and build_fits: what is known of the speed   *)
(* of a model.  A refresh only adds this machine's own runs.               *)
build_fits(read) == [n \in Names |-> Measured(Here, read, n, "q4_k_m")]

refresh_local_measured_tps(known, read) ==
    [n \in Names |-> LET mine == LocalBenchIndex_lookup(Here, read, n)
                     IN  IF mine # None THEN mine ELSE known[n]]

(* The TUI before it is started.  scan is the read of the store that is    *)
(* under way: [of, read, more], what it is for ("fits", "rows", "index"),  *)
(* the files of the directory read first, and whether an index is loaded   *)
(* afterwards.                                                             *)
ClosedView ==
    [open |-> FALSE, mode |-> "Off", scan |-> None, pinned |-> <<>>, entries |-> <<>>, total |-> 0,
     label |-> None, loading |-> FALSE, fetch |-> None, error |-> None, cursor |-> 0,
     query |-> <<>>, searching |-> FALSE, picker |-> None,
     offer |-> "Offer", job |-> None, share |-> FALSE, unavailable |-> FALSE,
     waiting |-> 0, auth |-> FALSE, rx |-> None, measured |-> [n \in Names |-> None]]

Row(kind, of, r) == [kind |-> kind, of |-> of, model |-> r.model, tps |-> r.tps]

-----------------------------------------------------------------------------
(* The rows.                                                               *)
bench_entries(v) == v.pinned \o v.entries

bench_visible_indices(v) ==
    {i \in DOMAIN bench_entries(v) :
        Range(v.query) \subseteq Range(bench_entries(v)[i].model.segs)}

Clamp(v) ==
    LET n == Cardinality(bench_visible_indices(v))
    IN  [v EXCEPT !.cursor = IF @ < n THEN @ ELSE Max({n, 1}) - 1]

LocalRows(bs) ==
    Flatten([k \in DOMAIN bs |->
               [i \in DOMAIN bs[k].payload.results |->
                  Row("local", None, bs[k].payload.results[i])]])

Scan(of, read, more) == [of |-> of, read |-> read, more |-> more]

(* Where a benchmark has ended, the index is loaded next, from shared/. *)
Rescan(v, more) == [v EXCEPT !.scan = IF more THEN Scan("index", shared_benchmarks, FALSE) ELSE None]

(* The rows pinned so far go; none are pinned while a preset is shown.     *)
(* Otherwise pending/ is read.                                             *)
merge_local_bench_rows(v, more) ==
    LET cleared == [v EXCEPT !.pinned = <<>>]
    IN  IF v.label # None THEN Rescan(cleared, more)
        ELSE [cleared EXCEPT !.scan = Scan("rows", pending_benchmarks, more)]

(* Then shared/ is read.  The stored results, one that moved in between    *)
(* twice, and those of the community on the same hardware that are not     *)
(* among them come above the rows of the server.                           *)
PinLocalRows(v) ==
    LET local == Reversed(LocalRows(read_store(v.scan.read)) \o LocalRows(read_store(shared_benchmarks)))
        new(r) == \A i \in DOMAIN local : local[i].model # r.model \/ local[i].tps # r.tps
        others == SelectSeq(community_results_for_specs(Here), new)
        pinned == local \o [i \in DOMAIN others |-> Row("community", None, others[i])]
    IN  Rescan(IF pinned = <<>> THEN v ELSE Clamp([v EXCEPT !.pinned = pinned]), v.scan.more)

Fetching(v, of, query) ==
    [v EXCEPT !.loading = TRUE, !.error = None,
              !.fetch = [of |-> of, query |-> query, result |-> None]]

fetch_benchmarks(v) == Fetching(v, None, hw_leaderboard_params(Here))

(* The first preset of this accelerator with rows in the embedded cache. *)
find_cached_for_specs ==
    LET hits == {i \in DOMAIN Presets :
                    /\ Presets[i].name # None /\ Here.name # None
                    /\ PartOf[Presets[i].name, Here.name]
                    /\ Cached[Presets[i].label] # None
                    /\ Cached[Presets[i].label] # <<>>}
    IN  IF hits = {} THEN None ELSE Cached[Presets[Min(hits)].label]

ServerRows(of, rs) == [i \in DOMAIN rs |-> Row("server", of, rs[i])]

tick_bench_fetch(v) ==
    LET got == [v EXCEPT !.fetch = None, !.loading = FALSE]
        cached == IF v.label # None THEN cached_leaderboard_for_preset(v.label)
                  ELSE find_cached_for_specs
        rows == Board[v.fetch.query]
        shown == IF v.fetch.result = "ok"
                 THEN [got EXCEPT !.total = Len(rows), !.pinned = <<>>, !.entries = ServerRows(v.fetch.of, rows)]
                 ELSE IF cached = None THEN [got EXCEPT !.error = "unreachable"]
                 ELSE [got EXCEPT !.total = Len(cached), !.pinned = <<>>,
                                  !.entries = ServerRows(v.label, cached), !.error = "cached"]
    IN  merge_local_bench_rows(shown, FALSE)

-----------------------------------------------------------------------------
(* Opening and closing.                                                    *)
CanShare == tokens.env # None \/ tokens.cache # None \/ tokens.client

(* An installed model is offered for a benchmark unless one runs. *)
open_benchmarks(v, job) ==
    LET opened == [v EXCEPT !.open = TRUE, !.mode = "Benchmarks", !.cursor = 0,
                            !.query = <<>>, !.searching = FALSE]
        asked == IF v.rx # None \/ job = None THEN opened
                 ELSE [opened EXCEPT !.offer = "Offer", !.job = job, !.auth = FALSE,
                                     !.waiting = Cardinality(pending_benchmarks),
                                     !.unavailable = ~CanShare, !.mode = "BenchOffer"]
        served == \E i \in DOMAIN bench_entries(v) : bench_entries(v)[i].kind # "local"
    IN  IF ~served /\ ~v.loading THEN fetch_benchmarks(asked) ELSE merge_local_bench_rows(asked, FALSE)

(* Mutant: a fetch for a preset goes on when the view is left. *)
CloseKeepsFetch(v) ==
    LET closed == [v EXCEPT !.open = FALSE, !.mode = "Normal"]
    IN  IF v.label = None THEN closed
        ELSE [closed EXCEPT !.label = None, !.pinned = <<>>, !.entries = <<>>, !.total = 0,
                            !.cursor = 0, !.error = None]

(* Leaving a preset forgets its rows and its fetch. *)
close_benchmarks(v) ==
    LET closed == [v EXCEPT !.open = FALSE, !.mode = "Normal"]
    IN  IF v.label = None THEN closed
        ELSE [closed EXCEPT !.label = None, !.pinned = <<>>, !.entries = <<>>, !.total = 0,
                            !.cursor = 0, !.error = None, !.fetch = None, !.loading = FALSE]

bench_offer_toggle_share(v) ==
    [v EXCEPT !.share = IF v.unavailable THEN FALSE ELSE ~@]

(* A thread that still runs is left alone. *)
bench_offer_dismiss(v) == [v EXCEPT !.rx = None, !.offer = "Offer", !.mode = "Benchmarks"]

(* What the last message says; progress after the code hides the code. *)
tick_bench_offer(v, msg) ==
    LET told == [v EXCEPT !.auth = (msg = "auth"),
                          !.offer = CASE msg = "done" -> "Done" [] msg = "error" -> "Error"
                                      [] OTHER -> @]
    IN  IF msg \notin {"done", "error"} THEN told
        ELSE merge_local_bench_rows([told EXCEPT !.rx = None], TRUE)

-----------------------------------------------------------------------------
(* Keys in the view.                                                       *)
bench_move_up(v) == [v EXCEPT !.cursor = IF @ > 0 THEN @ - 1 ELSE 0]

bench_move_down(v) ==
    [v EXCEPT !.cursor = IF @ + 1 < Cardinality(bench_visible_indices(v)) THEN @ + 1 ELSE @]

bench_search_start(v) == [v EXCEPT !.searching = TRUE]

bench_search_accept(v) == [v EXCEPT !.searching = FALSE]

bench_search_clear(v) == [v EXCEPT !.searching = FALSE, !.query = <<>>, !.cursor = 0]

bench_search_input(v, c) == [v EXCEPT !.query = Append(@, c), !.cursor = 0]

bench_search_backspace(v) ==
    [v EXCEPT !.query = SubSeq(@, 1, Max({Len(@), 1}) - 1), !.cursor = 0]

bench_refresh(v) == fetch_benchmarks([v EXCEPT !.pinned = <<>>, !.entries = <<>>])

open_bench_hw_picker(v) == [v EXCEPT !.picker = 0]

close_bench_hw_picker(v) == [v EXCEPT !.picker = None]

bench_hw_picker_up(v) == [v EXCEPT !.picker = IF @ > 0 THEN @ - 1 ELSE 0]

bench_hw_picker_down(v) == [v EXCEPT !.picker = IF @ < Len(Presets) THEN @ + 1 ELSE @]

(* Entry 0 is this machine. *)
bench_hw_picker_select(v) ==
    LET preset == Presets[v.picker]
        of(label) == [v EXCEPT !.picker = None, !.cursor = 0, !.label = label, !.pinned = <<>>,
                               !.entries = <<>>]
    IN  IF v.picker = 0 THEN fetch_benchmarks(of(None))
        ELSE Fetching(of(preset.label), preset.label, PresetParams(preset))

handle_benchmarks_mode(v) ==
    IF v.picker # None THEN
        {close_bench_hw_picker(v), bench_hw_picker_up(v), bench_hw_picker_down(v),
         bench_hw_picker_select(v)}
    ELSE IF v.searching THEN
        {bench_search_clear(v), bench_search_accept(v), bench_search_backspace(v),
         bench_move_up(v), bench_move_down(v)}
        \cup {bench_search_input(v, c) : c \in IF Len(v.query) < MaxQuery THEN SearchKeys ELSE {}}
    ELSE {IF v.query # <<>> THEN bench_search_clear(v) ELSE close_benchmarks(v),
          close_benchmarks(v), bench_search_start(v), bench_move_up(v), bench_move_down(v),
          bench_refresh(v), open_bench_hw_picker(v)}

handle_bench_offer_mode(v) ==
    CASE v.offer = "Offer" -> {bench_offer_toggle_share(v), bench_offer_dismiss(v)}
      [] OTHER             -> {bench_offer_dismiss(v)}

-----------------------------------------------------------------------------
(* The actions.  One thread reads the store, takes keys and drains the     *)
(* channels: while it reads it does nothing else.                          *)
Key(v) == view.scan = None /\ keys > 0 /\ keys' = keys - 1 /\ view' = v

(* A command of llmfit starts; to build its list it reads shared/ first.   *)
Start ==
    /\ view.mode = "Off"
    /\ Key([view EXCEPT !.scan = Scan("fits", shared_benchmarks, FALSE)])
    /\ UNCHANGED shareVars

Started ==
    /\ view.scan # None
    /\ view.scan.of = "fits"
    /\ view' = [view EXCEPT !.scan = None, !.mode = "Normal", !.measured = build_fits(view.scan.read)]
    /\ UNCHANGED <<shareVars, keys>>

PressNormal ==
    /\ view.mode = "Normal"
    /\ \E job \in Offers \cup {None} : Key(open_benchmarks(view, job))
    /\ UNCHANGED shareVars

PressBoard ==
    /\ view.mode = "Benchmarks"
    /\ \E v \in handle_benchmarks_mode(view) : Key(v)
    /\ UNCHANGED shareVars

PressOffer ==
    /\ view.mode = "BenchOffer"
    /\ \E v \in handle_bench_offer_mode(view) : Key(v)
    /\ UNCHANGED shareVars

(* The thread measures for the real hardware, whatever is simulated. *)
bench_offer_confirm(w) ==
    /\ view.mode = "BenchOffer" /\ view.offer = "Offer" /\ work[w].pc = "idle"
    /\ view.job \in left.jobs
    /\ left' = [left EXCEPT !.jobs = @ \ {view.job}]
    /\ Key([view EXCEPT !.rx = w, !.offer = "Running"])
    /\ Set(w, [Idle EXCEPT !.ui = TRUE, !.pc = "discover",
                 !.job = [view.job EXCEPT !.share = IF view.share THEN "yes" ELSE "no"]])
    /\ UNCHANGED <<files, tokens, gh, clock, clashed, disordered>>

FetchEnds ==
    /\ view.fetch # None
    /\ view.fetch.result = None
    /\ \E r \in {"ok", "fail"} : view' = [view EXCEPT !.fetch.result = r]
    /\ UNCHANGED <<shareVars, keys>>

TickFetch ==
    /\ view.scan = None
    /\ view.fetch # None
    /\ view.fetch.result # None
    /\ view' = tick_bench_fetch(view)
    /\ UNCHANGED <<shareVars, keys>>

TickOffer ==
    /\ view.scan = None
    /\ view.rx # None
    /\ work[view.rx].sent # None
    /\ view' = tick_bench_offer(view, work[view.rx].sent)
    /\ Set(view.rx, [work[view.rx] EXCEPT !.sent = None])
    /\ UNCHANGED <<files, tokens, gh, clock, clashed, disordered, left, keys>>

TickRows ==
    /\ view.scan # None
    /\ view.scan.of = "rows"
    /\ view' = PinLocalRows(view)
    /\ UNCHANGED <<shareVars, keys>>

TickIndex ==
    /\ view.scan # None
    /\ view.scan.of = "index"
    /\ view' = [view EXCEPT !.scan = None,
                            !.measured = refresh_local_measured_tps(@, view.scan.read)]
    /\ UNCHANGED <<shareVars, keys>>

(* The TUI ends, and with it the threads it started. *)
Quit ==
    /\ view.mode # "Off"
    /\ Dead({w \in Workers : work[w].ui})
    /\ view' = ClosedView
    /\ UNCHANGED keys

Next ==
    \/ \E w \in Workers \ {view.rx}, job \in left.jobs :
          run_bench(w, job) /\ UNCHANGED <<view, keys>>
    \/ \E w \in Workers : WorkerStep(w) /\ UNCHANGED <<view, keys>>
    \/ \E w \in Workers : Crash(w) /\ UNCHANGED <<view, keys>>
    \/ ForkReady /\ UNCHANGED <<view, keys>>
    \/ \E i \in DOMAIN gh.prs, s \in {"merged", "closed"} : Review(i, s) /\ UNCHANGED <<view, keys>>
    \/ Start
    \/ Started
    \/ PressNormal
    \/ PressBoard
    \/ PressOffer
    \/ \E w \in Workers : bench_offer_confirm(w)
    \/ FetchEnds
    \/ TickFetch
    \/ TickOffer
    \/ TickRows
    \/ TickIndex
    \/ Quit

(* A machine: [files, tokens, fork, opened, left, keys]; opened says that  *)
(* the user has an open pull request from an earlier machine.              *)
Starts(m) ==
    /\ files = m.files /\ tokens = m.tokens /\ left = m.left /\ keys = m.keys
    /\ LET earlier == [slug |-> "earlier", files |-> {}, now |-> -1]
       IN  gh = [fork |-> m.fork, main |-> {},
                 branches |-> [b \in IF m.opened THEN {earlier} ELSE {} |-> {}],
                 prs |-> IF m.opened THEN <<[branch |-> earlier, state |-> "open"]>> ELSE <<>>]
    /\ work = [w \in Workers |-> Idle]
    /\ clock = 0 /\ clashed = {} /\ disordered = FALSE
    /\ view = ClosedView

Init == \E m \in Machines : Starts(m)

Spec == Init /\ [][Next]_vars

(* close_benchmarks and bench_hw_picker_select replace or discard the      *)
(* fetch under way "so its rows can't land after the view has reset to     *)
(* the detected hardware": as long as no preset is named in the header,    *)
(* every row of the server is one of this machine's hardware, and as long  *)
(* as one is, no row of this machine's own results is pinned above it.     *)
RowsMatchHardware ==
    IF view.label = None THEN \A i \in DOMAIN view.entries : view.entries[i].of = None
    ELSE view.pinned = <<>>

(* LocalBenchIndex reads shared/ and then pending/, while shares move      *)
(* results one by one from pending/ to shared/ and other commands store    *)
(* new ones.  Of the runs of a model on this hardware it finds each once,  *)
(* but for those that moved between the two reads, and gives the result    *)
(* of the most recent of those it finds; unless a file could not be moved  *)
(* or was still being written when a share read the store.                 *)
LocalNewest ==
    ~disordered /\ view.scan # None /\ view.scan.of \in {"fits", "index"} =>
        \A name \in Names :
            LET moved == shared_benchmarks \ view.scan.read
                hits(f) == {i \in DOMAIN StoredResults(f) :
                               /\ StoredResults(f)[i].tps > 0
                               /\ tag_matches_model(StoredResults(f)[i].model, name)}
                runs == {f \in DOMAIN files \ moved :
                           /\ Complete(f)
                           /\ hardware_payload_matches(files[f].payload.hw, Here)
                           /\ hits(f) # {}}
                last == Max(runs)
                counted(where) ==
                    Cardinality(UNION {{f} \X hits(f) : f \in {g \in runs : files[g].where = where}})
            IN  LocalBenchIndex_lookup(Here, view.scan.read, name) =
                    IF runs = {} THEN None
                    ELSE MeasuredTps(StoredResults(last)[Max(hits(last))].tps,
                                     counted("shared") + counted("pending"), "LocalBench")

-----------------------------------------------------------------------------
(* Not guaranteed.                                                         *)

(* LocalBenchIndex misses no run that is stored when it has read both      *)
(* directories: "Most recent locally measured tok/s for a catalog model,   *)
(* if any stored run's provider tag matches it".  A share that renames a   *)
(* file between the two reads hides it from both.                          *)
NothingSlips ==
    view.scan # None /\ view.scan.of \in {"fits", "index"} => shared_benchmarks \subseteq view.scan.read

=============================================================================
