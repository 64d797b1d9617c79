# Verification of llmfit and of parts of ntfy

The repository holds three independent programs:

| directory | program | written in |
|---|---|---|
| `src/llmfit` | llmfit: which language models a machine can run, how fast, and getting, planning and benchmarking them | Rust |
| `src/ntfy` | ntfy, an HTTP publish/subscribe notification server | Go, JavaScript |
| `src/camofox-browser` | an HTTP server that drives browser tabs for agents | JavaScript |

They share no code and do not talk to each other. llmfit is modelled nearly as a whole (everything with state or
with an algorithm worth a property); of ntfy, the parts that store messages, access rules, accounts and bans. Paths are
relative to `src/llmfit/` in the sections on llmfit and to `src/ntfy/` in those on ntfy; `core` stands for
`llmfit-core/src` and `tui` for `llmfit-tui/src`.

How to run things, in this directory: `tlc -config MCFit.cfg MCFit` model-checks one instance,
`tlapm EstimateProofs.tla` checks one proof module. `PROJECT.json` lists the runs, the source lines of each
definition (one it does not list is a part of the definition that uses it, split off for the reader, and stands for some of its lines), the mutants, the hazards and the theorems.

## 1. Inventory

### llmfit

| part | state | operations | what is hard | what makes it correct |
|---|---|---|---|---|
| catalog (`core/models.rs`, `core/update.rs`) | embedded list, `custom_models.json`, the cache file | start, update, clear, upgrade of the program | an update that dies in its write; three sources with one slug; caches of other versions | no source's models are lost, the user's win |
| models and estimates (`core/models.rs`, `core/fit.rs`) | none: functions of a model and a machine | memory, quantization, path, speed, score | searches in different pools that must agree; thresholds | the row's numbers belong together; more memory never unloads |
| fits (`core/fit.rs`, `core/analysis.rs`) | the rows, calibrated in place | analyse, measure, calibrate, rank | repeated calibration | no compounding, runnable models first |
| hardware (`core/hardware.rs`, `core/hwprofile.rs`) | what was detected | probes of nine platforms and tools, merge, overrides, profiles | one card seen by several tools under several names | no card counted twice |
| plan (`core/plan.rs`) | none | three paths, minimum and recommended hardware, deltas | deltas against overridden machines | the upgrade is enough |
| plan panel, simulation and configuration popups (`tui/tui_app.rs`) | texts, fields, cursors, estimate | keys, apply, reset, background sorts | what is shown depends on everything else | the estimate is of the present inputs, cursors in their texts |
| model table (`tui/tui_app.rs`, `tui/tui_events.rs`, `tui/filter_config.rs`) | rows, filters, selection, modes and views | some sixty keys in fifteen modes, messages of threads, restart | indices into a table that changes; modes against views; filters saved by label | indices valid, a way out everywhere, order, filters survive |
| names and runtimes (`core/providers.rs`) | what servers and directories answer | detection, matching of names, choice of files | seven runtimes with overlapping ports and spellings | one server, one owner; what was pulled is recognised |
| pulls and downloads (`core/providers.rs`, `tui/tui_app.rs`, `tui/serve_api.rs`, `tui/main.rs`, `tui/download_history.rs`) | threads, part files, history, API task | pull, poll, cancel, delete, kill | three programs share one directory; polling | files complete, pulls with a time limit end |
| benchmarks and sharing (`core/bench.rs`, `core/benchmarks.rs`, `core/share.rs`) | store of results, tokens, fork, branches, pull requests | measure, store, share | a chain of requests that may fail or die anywhere | what is marked shared was offered; newest result wins |
| leaderboard view (`tui/tui_app.rs`) | rows, preset, search, fetch | open, close, pick, refresh, offer | threads that answer late | rows belong to the hardware named |

How they interact. A start detects the hardware (`Hardware`), merges the catalog (`Catalog`), analyses every model
(`Fit`) and asks the runtimes what is installed (`Runtimes`). The TUI is one thread: it drains the channels of its workers
(detection, capability probes, pulls, benchmark, leaderboard), then waits up to 50 ms for a key. Everything else
runs in worker threads that send one message or more. The API server, the MCP server and the commands use the same core
functions; they share with the TUI only the file system, the runtimes of the machine and the account on GitHub.

### ntfy

| part | state | operations | what is hard | what makes it correct |
|---|---|---|---|---|
| asynchronous message writes (`util/batching_queue.go`, `message/cache.go`) | `q.in`, batches held by senders, the table | `Enqueue`, ticker, consumer, `addMessages` | batches in flight between mutex and channel, failing writes, crashes | each accepted message is in one place, written at most once, and in the end |
| access cache (`user/access_cache.go`, `user/manager.go`) | `user_access` rows, their copy in memory, `seq` | mutations with reload, poller, other processes | reloads that overlap | never goes back, fresh in the end |
| ban feed (`ban/service.go`) | limiter and last line per prefix, pending lines, the file | `Record`, prune, flush, `Close` | forgetting a prefix; clocks read before the lock | one line per window but for the delays, nothing lost |
| mail addresses and magic links (`user/manager.go`, `server/server_account.go`) | addresses, links | add, resend, verify, delete, set primary, reset | checks made before the transaction that relies on them | unique primaries, one link per scope |
| reservations and tiers (`user/manager.go`, `server/server_account.go`, ...) | entries of owners and of Everyone, tiers | add, remove, downgrade, admin changes | requests carry the user they were authenticated with | entries in pairs, limits, ownership |

The other parts of ntfy, and camofox, are not modelled; `PROJECT.json` lists each with the reason.

## 2. Modules

| module | models | uses |
|---|---|---|
| `Models` | what `models.rs` derives from a catalog entry | |
| `Gpus` | what `hardware.rs` knows of a GPU by its name | `Models` |
| `Estimate` | verdict, paths and speed of `fit.rs`, shared by fits and plans | `Gpus` |
| `Catalog` | the three sources, their merge, `llmfit update` | `Models` |
| `Fit` | `analyze_inner`, scoring, measured speeds, calibration | `Catalog`, `Estimate` |
| `GpuProbes`, `Hardware` | the probes, their merge, overrides, profiles | `Gpus`, `Estimate` |
| `Plan` | `plan.rs` | `Hardware` |
| `PlanPanel` | the TUI's plan panel and its popups, `system`, `plan`, the API's and MCP's plan | `Plan` |
| `TuiList` | the App and its key handlers around the model table | |
| `ModelNames`, `Runtimes` | names, hosts, detection, installed models, files | |
| `Pulls`, `Downloads` | pull threads and files; TUI, API and command that start them | `Runtimes` |
| `Bench`, `Share`, `BenchBoard` | one benchmark; store and pull requests; the view | `ModelNames` |
| `AsyncStore` | the promise of `message.Cache.AddMessage` with batching | abstract specification |
| `BatchingQueue` | `util.BatchingQueue` with its callers and its consumer | implements `AsyncStore` |
| `AccessCache`, `Ban`, `MagicLink`, `Reservations` | the other parts of ntfy | |
| `MC*` | instances for TLC | |
| `*Proofs` | theorems for TLAPS | |

Conventions. A step of a model is what the code does atomically: for the TUI the handling of one key or one message, for
threads and servers one request, one change of a file, one critical section, one transaction. A handler is an operator
from the old state to the new one with the handler's name, and an action applies it, so that handlers which call others
do so in the model too. What a thread remembers between two steps is kept explicitly, because that is where
the code works with stale values. Names are sets of words or sequences of segments and never strings; a
text field is its length and what it parses to. Memory is in 1/1024 GB, speed in tenths of a token per second,
context in 1024 tokens, factors in hundredths: floating point is replaced by integers of a resolution that the
thresholds of the code still tell apart. Divisions round down.

State and actions:

* **TuiList.** `app` is the App: `all_fits` (rows), `filtered` (indices), `row`, `anchor`, `mode`, `view`, filters, popups with
  their cursors, `compare_models`, `plan_model_idx`; `bench` says of the live view of a benchmark whether it and its details
  are shown, whether the benchmark runs and whether the user is asked to confirm that he leaves it; `saved` is the filter file.
  `HandleKey` dispatches by mode as `handle_events` does, and in normal mode first to that question (`confirm_quit`) and to the
  live view (`bench_key`); `Tick`, `Detected` and `BenchDone` are messages of threads, `Restart` a quit and the next start.
* **Catalog, Fit.** `release`, `custom`, `cache` and `updating` are the installed version and the files; `UpdateRead`,
  `UpdateSave` and `UpdateCrash` split an update; `StartRows` is a start with its analysis; `Bench` the end of a
  benchmark, which stores the result and refreshes and calibrates the rows.
* **Hardware, Plan, PlanPanel.** A machine is what its tools answer (`probe`), and its real `cards` and memory. `Start`,
  `run_system` and `run_plan` detect it; `plan_estimate` and `plan_hardware` are the servers' requests; `Key` is one key of
  the TUI or one background sort.
* **Runtimes, Pulls, Downloads.** `world` is what answers where and which files exist. `PullStep` is one step of a pull
  thread, `TimedStep` one that does not wait for the end of `hf` or `docker`; `part` and `final` say which file has a name, a file being the pull that created it and its place in that pull, and
  `written` how much of it is there; `Machines` are the worlds to start from; `tui`, `api` and `cli` the three programs;
  `TuiStops`, `ApiStops`, `CliStops` and `ServerStops` ends in the middle.
* **Share, BenchBoard.** `files` is the store, `gh` fork, branches, main and pull requests, `work[w]` the program counter of a
  command or thread with what it has read. Every request may fail before or after its effect. The TUI reads `pending/` and
  `shared/` one after the other, for the index (at a start and after its own benchmark) and for the pinned rows: `view.scan` is what the
  first read has found, and the others go on between the two. One directory is listed in one step.
* **BatchingQueue.** `in` is `q.in`; `held[s]` the batch a caller or the ticker carries between `q.mu.Unlock` and the send on
  `q.out`; `writing` the batch of the consumer; `stored` the table.
* **AccessCache.** Rows are versions; `scan[p]` is what a reload has read; `raced` the reloads since whose start `seq` has
  changed. `ReadSeq`, `Query`, `Apply` and `Skip` are the steps of `Reload`.
* **Ban.** `trackers` is the map of limiters. `Record` and `prune` read the clock before they lock `Service.mu`: `Readings` are the
  times a call that gets the lock now may have read, at most `MaxDelay` ago, so calls overtake one another. Strikes are counted
  in units of 1/`Window`, so refilling is exact.
* **MagicLink, Reservations.** The tables are sets of rows; `request[r]` is the program counter of a handler with what it
  has read. Every transaction is one step, every query before it a step of its own.

## 3. Runs

Numbers are distinct states.

| run | instance | checks | shows |
|---|---|---|---|
| `tui_list` (488k) | three models, one of which fits only the real hardware, five keys and what they open, by a user who leaves select mode and the benchmark alone, one who moves through its columns, or one who opens and leaves the live view, one message of a thread, one restart | `IndicesValid`, `ModeMatchesView`, `EscLeaves`, `UnrunnableLast`, `RestartKeepsRows` | no sequence leaves an index that is out of range, a mode without its view, a state without a way out, or filters that pick other models after a restart |
| `tui_restart_sort` | keys `s` and Esc only, eight of them | `RestartKeepsSort`, **violated** | finding 1 below |
| `fit` (19k) | two releases, models of every kind the analysis tells apart, six machines, three kinds of request, four steps | `ReportedQuantMatches`, `CalibrationDoesNotCompound`, `UsableContextCovers`, `CustomWins`, `LoadsWithMoreMemory` | quantization, memory and context of a row belong together; more memory never unloads; the catalog survives crashes, upgrades and edits |
| `downloads` (88k) | three models (one file, two shards, one found in the table of repositories), machines on which different runtimes answer, up to two pulls | `FinalComplete`, `OneClaim`, `DoneIsVisible`, `EveryPullEnds` | complete files only; every pull ends that does not wait for a command; what was downloaded from a repository called like the model is recognised |
| `download_delete` | the same | `DeleteRemoves`, **violated** | finding 2 below |
| `bench_share` (299k) | two workers, every kind of credential, fork present or not, one earlier pull request, one preset of the own and one of other hardware | `SharedIsOffered`, `LocalNewest`, `RowsMatchHardware` | whatever fails or dies, a result marked as shared is in a branch of a pull request or merged; an index read meanwhile misses only what moved |
| `plan_machine` (211k) | twenty machines times the subsets of eight missing tools, two models, five overrides, five steps | `PlanMatchesInputs`, `UpgradeReachesPerfect`, `MemoryCountedOnce`, `CursorsInside` | no card is counted twice, whichever tools report it; the panel is never behind its inputs; the upgrade is enough |
| `batching_queue` (5.8k) | 4 callers, batches of 2 | `ExactlyOnce`, `NeverFull`, `BatchesAreRuns`, `RefinesAsyncStore`, `EventuallyStored` | two full batches may be in flight with a third in the ticker's hands; each message is in one place and all is written in the end |
| `access_cache` (407k) | two users, two goroutines with mutations, poller, other processes, failing queries | `FullReloadNeverGoesBack`, `EventuallyFresh` | the sequence number keeps full reloads from undoing newer ones; the poller repairs what is missed |
| `ban_feed` (173k) | one prefix, weights 0, 1, 3, threshold 2, window 3, clocks one tick old, five ticks, one failing write | `NothingLost`, `ClosedMeansFlushed`, `PruneForgetsLittle`, `OnePerWindow`, `EventuallyWritten` | pruning and overtaken calls cost two delays at most, lines are neither lost nor doubled |
| `magic_link` (283k) | two users, two addresses, two requests | `UniquePrimary`, `OneLinkPerScope`, `ResetOnlyToProven`, `ValidLinkStays` | overlapping handlers keep the tables consistent |
| `reservations` (1.1M) | a user and an admin, two topics, two requests, one fault | `NoOrphanEveryone`, `WithinLargestLimit`, `OnlyOwnerReleases` | the pairs of entries survive adds, removals, downgrades and admin changes |

Each property has a mutant in `PROJECT.json`: a plausible mistake in the mapped code under which TLC finds the
property violated.

### Bounds

* `tui_list`: five keys open a popup, change it, apply it and act on the changed table (the keys that move between the 14 columns
  of select mode are not counted: the quantization and run mode popups are only opened there); one message and one restart may
  come anywhere in between. Three models are needed for a table that shrinks to one that still has two rows. Handlers whose
  effect does not depend on more keys (text search, number of providers) are limited to two values.
* `fit`: four steps are a start, a change (update, edit, upgrade, benchmark), another change, and a start; an update is two of
  them. The models' sizes lie around the thresholds of the machines.
* `downloads`: two pulls are the smallest number at which programs meet in one directory. `PollBudget` is 3 for 600,
  `MAX_RECORDS` 2 for 100, `MaxInflight` 1 for 12, so that each limit is reached. Detection of one runtime (Ollama) may be slow.
  `GGUF_MAPPINGS` has an entry that names a file like its model and one that does not.
* `bench_share`: two workers, polls of fork and device code 1 for 15 and many. The machines to start from limit how many
  keys, requests and failures a behaviour has.
* `plan_machine`: machines cover every vendor, platform and mixture the detection tells apart (NVIDIA by three paths,
  AMD on Linux and Windows, APUs with unified memory, Intel, Apple, Ascend, Vulkan, WMI with duplicates, none), cards with less
  memory than their name suggests, three NVIDIA cards of two names and three sizes, two AMD cards of different size, two GPUs with one
  pool, and an APU with a card beside it. Five steps are a start, a
  popup with a key and its application, or a plan with three keys; `MaxLen` 3 lets a text be longer than what the program writes.
* `batching_queue`: 4 elements with batches of 2 is the smallest instance in which two callers hold full batches while a
  third message waits for the ticker. `access_cache`: one write per user tells old from new. `ban_feed`: five ticks are a window of three and
  two more, in which a window shortened by two delays fits twice. `magic_link`: two links, one may replace another; one tick, so links expire. `reservations`: limit 1 and two
  topics; administrators change the entries of one of them.

`CHECK_DEADLOCK FALSE` is set where a behaviour ends because its bounded inputs are used up or the program has quit.

## 4. Fairness

| module | assumed | because |
|---|---|---|
| Downloads | WF of "some pull thread, API task or redraw of the TUI that can go on does" | threads run on; transfers and requests end by their timeouts. The commands `hf download` and `docker model pull`, which are waited for without one (`core/providers.rs:982`, `:2198`), users, servers and LM Studio's own download owe nothing |
| BatchingQueue | WF of the ticker and the consumer, SF of each rendezvous | `time.Ticker` and `range` loops run for ever; senders blocked on a Go channel are served first come, first served |
| AccessCache | WF of the poller and of the steps of a reload, SF of its query | a ticker; queries may fail, but not for ever |
| Ban | WF of the write loop, SF of its closing branch | a ticker; `select` chooses at random among ready cases |

The other modules state no liveness and no fairness.

## 5. Proofs

TLAPS proves the following for every value of the constants that satisfies the named assumptions (`PanelAssumption`,
`BanAssumption` and the like: bounds are natural numbers, the catalog is finite, batch size, threshold and window
are positive, special names are not members of the sets of users). Those of `TuiList` (`ListAssumption`, `RowAssumption`,
`QueryAssumption`, `NoneAssumption`, `KeysAssumption`) say that what can run is in the catalog, that no capability is listed twice,
that rows are compared by numbers, that the first query is empty and that `None` is no value. Those of `PlanPanel` (`CatalogOfAssumption`,
`MachinesAssumption`, `OverridesAssumption`, `TypedAssumption`, `AskedAssumption`) say what the types of the program say:
sizes, counts and contexts are natural numbers or absent, a KV quantization is one of the enumeration, what is detected is a
`SystemSpecs`. `ApiChoices` may be negative, as the body of a request may; the code's own checks are used to exclude that. TLC
evaluates all of them on the instance of the run. Those of `Models`, `Catalog` and `Fit` (`NoneAssumption`, `FilesAssumption`,
`ReadersAssumption`, `SystemsAssumption`, `RequestsAssumption`) say of files, answers, machines and requests what the types of the
program say, field by field: a file lists entries, what is read of it or mapped from an answer is a model with numbers where
`LlmModel` has numbers, memory and limits are numbers or absent. Those of `Downloads` (`MachinesAssumption`, `OwnerAssumption`)
say that a world names its servers, directories and models, and that the two default addresses on port 8000 are one server's. The bounds of the runs are constants too, so
the theorems hold however large they are.

| module | theorem | property |
|---|---|---|
| `EstimateProofs` | `CursorsAreInside` | `CursorsInside` |
| | `ShownPlanIsCurrent` | `PlanMatchesInputs` |
| | `UpgradeReachesPerfectAlways` | `UpgradeReachesPerfect` |
| | `ReportedQuantAlways` | `ReportedQuantMatches` |
| | `MoreMemoryKeepsLoading` | `LoadsWithMoreMemory` (an action property) |
| | `CustomWinsAlways` | `CustomWins` (an action property) |
| `DownloadsProofs` | `FinalCompleteAlways` | `FinalComplete` |
| | `OneClaimAlways` | `OneClaim` |
| `BenchBoardProofs` | `SharedIsOfferedAlways` | `SharedIsOffered` |
| | `LocalNewestAlways` | `LocalNewest` |
| | `RowsMatchHardwareAlways` | `RowsMatchHardware` |
| `TuiListProofs` | `IndicesAreValid` | `IndicesValid` |
| | `ModesMatchViews` | `ModeMatchesView` |
| | `EscAlwaysLeaves` | `EscLeaves` |
| | `UnrunnableStaysLast` | `UnrunnableLast` |
| | `RestartsKeepRows` | `RestartKeepsRows` (an action property) |
| `NtfyProofs` | `BoundedQueue` | `NeverFull` |
| | `ExactlyOnceAlways` | `ExactlyOnce` |
| | `BatchesAreRunsAlways` | `BatchesAreRuns` |
| | `Refinement` | `RefinesAsyncStore` |
| | `FullReload` | `FullReloadNeverGoesBack` |
| | `ReloadVisible` | `ReloadIsVisible` (an action property, in no run) |
| `BanProofs` | `PruningForgetsLittle` | `PruneForgetsLittle` (an action property) |
| | `OneLinePerWindow` | `OnePerWindow` |
| | `NothingLostAlways` | `NothingLost` |
| | `ClosedMeansFlushedAlways` | `ClosedMeansFlushed` |
| `MagicLinkProofs` | `UniquePrimaryAlways`, `OneLinkPerScopeAlways`, `ResetsGoToProven` | `UniquePrimary`, `OneLinkPerScope`, `ResetOnlyToProven` |
| | `ValidLinkStaysAlways` | `ValidLinkStays` (an action property) |
| `ReservationsProofs` | `NoOrphans` | `NoOrphanEveryone` |
| | `OnlyOwnerReleasesAlways` | `OnlyOwnerReleases` (an action property) |
| | `WithinLargestLimitAlways` | `WithinLargestLimit`, where there are tiers and none has the limit zero |

The modules on ntfy also prove `TypeCorrect`. Along which invariants:

* **PlanPanel.** `AInv` of the TUI's state: its fields, a table that is an order of the catalog, three panels whose active field
  exists, whose cursor lies in its text and whose texts parse to a value of their field, a real and an effective machine, and
  `PlanOK`, the property itself. `PlanOK` needs the mode: popups replace hardware and configuration only when no plan is shown,
  and a background sort changes the table but not what was computed. Lemmas say what each key does to a panel; `Refreshed` is
  the heart, that after `refresh_plan_estimate` the plan matches whatever it was before. `AnswerOK` says the same of the
  command's and the servers' answers.
* **Plan.** `UpgradeReachesPerfect` has two halves. That a state holds a typed request and a `Machine` is part of the invariant:
  `Machine` is a `SystemSpecs` whose backend is not Cuda when there is no GPU, kept by every override
  (`WithRam`, `WithVram`, `WithCores`, `WithCapacity`), by the API's body and by simulation. The rest is about operators, for any
  model: the memory of a request is a natural number (`MemoryIsNat`, down to attention layouts and KV cache); the GPU path is always
  feasible and recommends at least that memory and at least what the catalog recommends (`GpuIsFirst`, `RecVramIsEnough`);
  the machine with the difference added has that much (`WithVram`), accepts the request, and on it the GPU path is Perfect
  and no other path ranks before it (`PerfectWithMemory`, `CurrentIsPerfect`); and among the deltas exactly that
  one is called Perfect (`OnePerfectUpgrade`). Speeds are never expanded, which is why the statement excludes a target speed; the
  detection is expanded only for its backend.
* **Catalog and Fit.** `FitInv` says of the files that they hold what can be read (`FilesOK`: the cache models of any version, or
  nothing after a crash), and of every row that it says of its model what `analyze_inner` says for the machine and the question
  of the last start (`RowOK`), whatever benchmarks have since done to its speed. The rest is about operators.
  `RuntimeSearch`: what the search for a quantization finds in a budget is sized for the context or half of it and fits, and with
  a larger budget something is still found. `ReportedQuantMatches` then needs that every path of a dense model is
  sized by the search in its own pool (`DensePath`), so that the second search finds the same (`ShownQuant`).
  `LoadsWithMoreMemory` is a case analysis of the paths (`PathGrows`, `DiscreteGrows`, `OffloadGrows`): with more memory a
  model takes the path it took or an earlier one, never a later one, and fits on it. `CustomWins`: the merge gives one model for a slug of
  a file (`OnePerSlug`), and no later step changes a slug (`PublishedKeeps`).
* **Downloads.** `FinalComplete` speaks of names; `DiskInv` of files. `Mine`: a thread that is writing has its own file under
  `.part`, never longer than announced, unless another process touched the name. `Settled`: what has the final name was left
  behind by its thread, which has gone on to its next file or ended, and was complete when it was, so nobody writes
  to it any more. Neither half is inductive alone: a rename makes the one into the other. Two threads may hold one name; the proof
  never needs that they do not, because every step that takes `.part` from a thread records the name as touched.
  Which runtimes answer and what a repository lists is never expanded. `OneClaim` rests on `PortInv`: as long as both default
  addresses of port 8000 answer, either both answers can be read or neither can, and a list of models that names vLLM as an owner
  at the first address does so at the second, where MLX looks: a pull adds to a list only models with other owners, and
  a server that goes down or comes to list nothing is claimed by nobody.
* **BenchBoard and Share.** `ShareInv` says of each program counter of a submission what GitHub already holds: while it asks, that
  its results are the identified ones of its snapshot; while it puts files, that those before the one in hand are on the
  branch; before it marks, that all of them are in a branch with a pull request or merged. The hard case is a submission that
  uploads nothing and therefore opens no pull request: `NothingNew` says that its branch then has one, or holds only what
  main holds, or is shared with a rival of the same second (`RivalsOk`). `ViewOk` adds what an answer under way
  was asked for: `RowsMatchHardware` is about rows, and an answer becomes rows later. `LocalNewest` compares two orders, that of
  the files' times and that of reading, shared files first. What was read of `shared/` is still there, whole, when `pending/` is read
  (`ScanOk`, `SharedForGood`: a shared file is never moved or written again). They agree where every shared file is older than
  every one still to be shared (`InOrder`, `ReadLast`). A step of one of several shares keeps that only if what it moves is the oldest, so
  `TimeInv` says of each share that whatever is older than something it read and not shared yet is of what it read and
  not passed yet (`TurnToCome`), that what it read is complete (`ReadWhole`), and that a file being written has one writer
  (`OneWriter`), so that completing or tearing it touches nothing a share has read.
* **TuiList.** `IInv` says of an App that runs that it is in order (`AppOK`), of one that has quit that it was and that its
  filters are saved, and of the file that it can be read (`SavedOK`). `AppOK` has five parts: `TypesOK`; `RowsOK`, that rows
  shown, selection, comparison and plan are indices into the tables as they are; `CursorsOK`, the same for the popups, whose
  lists are those of the start and whose number of entries depends on the search; `ViewOK`, which view belongs to which mode; and
  `OrderOK`. The parts need each other: filtering replaces the rows and clamps the selection, but keeps the indices of
  the comparison, so it is in order only because a rebuild of the table drops the comparison and a sort keeps its
  length; a rebuild may not happen while a plan is shown, which the modes exclude. Every handler has its lemma, and those that filter
  or sort go through `Filtered`, `Resorted` and `Rebuilt`. Below them are lemmas about sorting: the comparator is a strict total
  order (`BeforeIsOrder`), so the place of a row is a bijection (`PlaceIsBijection`) and the sort returns the same rows
  ordered by their keys (`RankSorts`), of which the class comes first in both directions. `EscLeaves` follows from `ViewOK`
  in eight keys: four leave the live view, its question, and the mode that was open meanwhile, four more the views under it. `RestartKeepsRows` rests on lists without repetitions (`ListsOK`), because entries
  are saved by name and read back by place (`MapRead`). Where induction over numbers is needed (`LeastNumber`), it
  is the well-founded minimum of a set.
* **BatchingQueue.** `ExactlyOnce` is a partition of the accepted messages over `in`, the held batches, the batch being
  written, the table and what was lost. It is inductive together with `TypeOK` and `BlockedHoldsFullBatch` (who is
  blocked holds a batch, who is not holds none), without which a caller could be handed a second batch and drop its
  first. `BatchesAreRuns` is inductive with `TypeOK` because it says more of `in` than of the batches: that it is the end of
  the order of the calls. The refinement follows step by step.
* **AccessCache.** `FullReloadNeverGoesBack` needs `UnracedScanIsNewer`: a full reload that has not been raced holds rows
  at least as new as the cache's, because every step that changes the cache races all other reloads; and `Behind` and
  `ScansBehind`, that neither cache nor scans are ahead of the table. `ReloadVisible` needs `WritesScanned`: what a goroutine
  has written is in the rows its reload has read since.
* **Ban.** What pruning may forget is bounded by when a tracker was last seen. Its times are not ordered, since a call that was
  overtaken at the lock sets `seen` back; but what it let through or emitted was at most one delay after it was last seen
  (`Known`), and `Accounts` says so of each tracker there is (`InUse`). A second delay is that of the
  call which finds the tracker gone. `Remembered` links the lines already made to the trackers: a line is recalled by the tracker
  of its prefix, or the window less one delay is over since (`Recalled`); `OnePerWindow` is a part of the invariant. For the feed, `FeedInv` lays file, lost,
  taken and pending lines end to end over what `Record` has made (`Queue`), and knows at which steps the loop
  holds none and what the last flush took (`Drained`).
* **MagicLink.** `UniquePrimary` rests on `OneRowPerAddress`; `OneLinkPerScope` on `LinkEmails` (a link has an address if
  and only if it verifies one); `ResetOnlyToProven` on `AddressesProven`, that what a request has read was verified
  once, even if it is deleted since. `ValidLinkStays` compares two states: `TokensIssued` makes every new link newer than those
  it replaces.
* **Reservations.** `Paired` follows each statement of a transaction: an owned entry of Everyone has an entry of its
  owner for the same topic, and users own no entries of other users; deleting by owner therefore deletes pairs. `Added` and
  `Released` say what any step may do to the reservations of one user: one more after a count in the same transaction, or
  fewer by the owner or an admin. `LimitsRead` says that the limit a request carries is that of a tier. The theorem leaves out
  tiers whose limit is zero, since for them the code checks none (`ZeroIsNone` below).

Only model-checked:

* Liveness (`EventuallyStored`, `EventuallyFresh`, `EventuallyWritten`, `EveryPullEnds`), which is out of the prover's reach.
* `UsableContextCovers`: the model divides integers where the code keeps fractions, and the sum of two quotients may exceed
  the quotient of the sum by one; with other units than the instance's a row could miss its pool by 1/1024 GB, which is an
  error of the model's arithmetic and none of the code's.
* `CalibrationDoesNotCompound` rests on the median of a sorted sequence and on quotients in lowest terms, and
  `MemoryCountedOnce` on sums over lists of GPUs: what these compute for every list is a fact by induction over data. It is
  checked for the machines listed and no others.
* `DoneIsVisible`, which is about the spellings and directories of the machines that are given and not about all machines.

## 6. Findings with a run of their own

1. `tui_restart_sort`: `save_filters` stores the label of the sort column, "Provider" included, but
   `sort_column_from_label` has no arm for it and answers Score (`tui/tui_app.rs:809`); a table sorted by provider comes back sorted by
   score. The counterexample cycles the column and quits.
2. `download_delete`: a record of the download history keeps the catalog name; Ollama knows the pulled tag and llama.cpp
   compares with file stems, so deleting a successful download in the download manager asks for a name that does not exist
   (`tui/tui_app.rs:2349`). `docs/tui.md:171` says that it deletes the model from the provider.

## 7. What the code does not guarantee

Sentences of comments and documents, and natural expectations, that were stated as properties and that TLC refuted. The
definitions are kept in the modules as "not guaranteed"; to see a counterexample, put the property into the cfg of the
module with the constants changed as given (other properties removed, `SPECIFICATION Spec` or, for `AccessCache`, `CacheSpec`, no `SYMMETRY`).

| property | constants | what happens | what is written about it |
|---|---|---|---|
| `ListMatchesFilters` (TuiList) | | Esc in the filter popup restores the filters but not the rows (`tui/tui_app.rs:3901`); a message that arrived meanwhile has filtered by the ones given up | |
| `PlanKeepsModel` (TuiList) | | a background sort changes which model `plan_model_idx` means (`tui/tui_app.rs:4213`): the title names another model, and the next edit plans it | |
| `CompareKeepsModels` (TuiList) | | the same for the compared models | |
| `TableInOrder` (TuiList) | | after a simulation or configuration the table is ranked by score (`tui/tui_app.rs:3772`) whatever column the header shows | |
| `EscAloneLeaves` (TuiList) | | while a benchmark runs and is shown, one Esc asks and the next takes the question back (`tui/tui_events.rs:51-81`); `EscLeaves` presses q where it is asked | |
| `BenchOnTop` (TuiList) | | the keys of the plan and of the downloads open them behind the live view of a benchmark, which is drawn over both (`tui/tui_ui.rs:49`) | |
| `AnyDoneIsVisible` (Downloads) | | the table of repositories maps models to files of other names (`core/providers.rs:3809-3940`), which the installed test does not recognise (`core/providers.rs:3977-4003`) | |
| `AllPullsEnd` (Downloads) | | `hf download` and `docker model pull` are waited for without a timeout (`core/providers.rs:982`, `:2198`) | |
| `NothingSlips` (BenchBoard) | | `shared/` is read and then `pending/` (`core/share.rs:454`): a result that a share moves meanwhile is in neither | `core/share.rs:474`: "Most recent locally measured tok/s for a catalog model, if any stored run's provider tag matches it" |
| `NoMoreThanThereIs` (PlanPanel) | | of cards of one name the largest counts for each (`core/hardware.rs:516-584`, `:791-800`), a card without a tool counts as its name says, and two GPUs with one pool have it twice | `core/hardware.rs:111-113`: "with a single such GPU this is correct" |
| `SynchronousIfNoTimeout` (BatchingQueue) | `HasTimeout = FALSE` | with a batch size and a timeout of zero `newCache` still makes a queue (`message/cache.go:66`), and an incomplete batch waits for further messages | `docs/config.md:2356`: "if zero, writes are synchronous" |
| `NoLostUpdate` (AccessCache) | `MaxWrites = 2`, `Mutations = {"AllowAccess"}` | of two reloads of one user the older result may be applied last (`user/access_cache.go:149`) | `user/access_cache.go:86`: "may cause races and lost-updates. This is solved with the sequence number." |
| `OwnMutationsVisible` (AccessCache) | `Mutators = {w1}`, `Mutations = {"ChangeRole"}`, `MaxWrites = 2` | a mutation that reloads everything is skipped when raced and returns nil (`user/access_cache.go:142`) | `user/manager.go:121`: "they refresh affected users synchronously" |
| `ExactlyOnePerWindow` (Ban) | | `Record` reads the clock before it takes the lock (`ban/service.go:78`), so a call that is overtaken sets `seen` back (`:87`), `prune` forgets the tracker early (`:173`), and a second line follows within the window; `OnePerWindow` bounds by how much | `ban/service.go:92`: "one ban line per prefix per window" |
| `SingleUse` (MagicLink) | `Users = {u1}`, `Addresses = {a1}` | two requests with one link both pass the check before the transaction (`user/manager.go:1750`) | `user/manager.go:1676`: "single-use consume" |
| `DeletedIsGone` (MagicLink) | as above | `VerifyEmail` does not look whether the link it has read still exists (`user/manager.go:1700`) | `server/server_account.go:738`: "removes an email address, whether verified or still pending" |
| `PendingIsUnverified` (MagicLink) | as above | the check and the new link are separate (`server/server_account.go:696`) | `user/manager.go:1560`: "unverified (pending) email addresses" |
| `ProvisionedHasNoPrimary` (MagicLink) | as above, `Provisioned = {u1}` | `VerifyEmail` promotes the first address of any user (`user/manager.go:1735`) | `user/manager.go:1695`: "Provisioned users never get a primary" |
| `OneOwner` (Reservations) | `Admins = {}`, `MaxFaults = 0` | `AllowReservation` is asked before the transaction, which does not ask again (`server/server_account.go:524`) | `server/server_account.go:507`: "unless it is already reserved by someone else" |
| `WithinLimit` (Reservations) | `Users = {u1}`, `Admins = {}`, `Limits = {1, 2}`, `InitialTiers = {2}`, `AdminTiers = {1, 2, None}` | the limit is that of the tier at authentication (`server/server_account.go:537`) | `server/server_account.go:527`: "with limit check inside the transaction to avoid races" |
| `ZeroIsNone` (Reservations) | `Users = {u1}`, `Admins = {}`, `Limits = {0}`, `InitialTiers = {0}` | a limit of zero, which stands for an admin, is no limit (`user/manager.go:902`) | `user/types.go:115`: "Number of topic reservations allowed by user" |
| `RemovedAreExpired` (Reservations) | `Users = {u1}`, `Admins = {}` | when `ExpireMessages` fails the reservations are gone already and the second try finds nothing to mark (`server/server_account.go:603`) | `server/server_account.go:592`: "marks associated messages for the topics as deleted" |

Further behaviour that the models reproduce, that no property states, and that a reader should know before relying on the
properties:

* **Downloads.** Two programs that pull the same file share one `.gguf.part` (`core/providers.rs:1371`), which is why `FinalComplete`
  excludes files two processes touched; a file without a content length is accepted at any size; a set of shards of which
  some are missing reads as installed; the check and the start of the API's download are separate steps.
* **Sharing.** `mark_shared` also moves results whose hardware is not identified and which were therefore not uploaded
  (`core/share.rs:426`), hence the premise of `SharedIsOffered`. A pull request merged between `find_open_bench_pr` and `put_files`
  leaves the results on its branch. `r` while a preset is shown fetches the rows of the own hardware under the preset's name
  (`tui/tui_app.rs:2916`), so `RowsMatchHardware` says nothing of such a header. Two submissions of one second use one branch, and a file that cannot be moved, or
  is still being written, can make an older run the most recent one; `clashed` and `disordered` record these cases. A result that moves
  between the reads of the two directories is missed by the index; the rows pinned above the board read them in the other
  order and may show it twice.
* **Catalog.** Two concurrent updates: the second writes what it read before the first wrote (`core/update.rs:741`).
* **Fits.** For MoE models on the offload path the memory of a row and its quantization come from different searches, and with a
  forced runtime or in a cluster the quantization is the model's own; `ReportedQuantMatches` and `UsableContextCovers` are
  stated for dense models without either. A calibration factor stays when its measurements are gone, and the score is
  not computed again.
* **Hardware.** Two identical AMD cards, or cards of which one name contains the other, count once under Windows' WMI
  (`core/hardware.rs:1098` says "Returns all discrete GPUs found"); `MemoryCountedOnce` is the other direction: no card
  is counted twice because two tools report it. How much one card counts for is another matter (`NoMoreThanThereIs` above). Applying the simulation popup unchanged does not give back the detected machine: available RAM becomes 90% of
  the total, a machine without a GPU gets one of 0 GB, and of several GPUs only the first keeps its memory.
* **Plan.** "+X GB VRAM -> Good" adds the minimum, which the verdict calls Marginal; only the step to Perfect is exact,
  which is what `UpgradeReachesPerfect` says, for plans without a target speed.

## 8. What the models leave out

* Floating point: see the units above. Values between two representable ones, NaN and infinities are not modelled.
* Parsing and printing: JSON, TOML, the output of tools, command lines, texts of messages and progress.
* `TuiList`: themes, help, scrolling, the search of providers, the editing of the download directory, what the live view of
  a benchmark shows. `Downloads`: percentages and speeds. `Share`: the content of issues and rate limits; one directory is listed in
  one step.
* Drawing (`tui/tui_ui.rs`, `tui/display.rs`, `tui/theme.rs`) reads the state and changes none of it. `core/quality.rs` scores texts.
  `core/claim.rs` and `core/doctor.rs` format a report. The desktop and web apps are clients of the API.
* `MagicLink`: refused requests, the queue of mails, the account's removal. `Reservations`: removal of users, entries with
  wildcards, the Stripe objects around the webhook.
* Databases: transactions of SQLite are atomic and serial. Wall-clock jumps are left out.
* ntfy's topics and subscribers, scheduled delivery, attachments, access lookup, ban weights and visitor counters: not
  modelled; llmfit, by far the larger program, comes first. camofox: what a page does belongs to the browser; its sessions and locks could be modelled, but have not been.

## 9. Plan

Done: the path from the machine to the verdict (`Hardware`, `Catalog`, `Fit`, `Plan`), the interactive program (`TuiList`,
`PlanPanel`, `BenchBoard`), what goes over the network (`Runtimes`, `Pulls`, `Downloads`, `Share`), and ntfy's storage and accounts.

Proved: the catalog's merge, the rows of the analysis, the model table, the panel and the upgrade its plans promise, the pulls'
files, sharing and the view, and the safety of
all five parts of ntfy.

Next to prove: `CalibrationDoesNotCompound` of `Fit`, with the median as the middle of a set.

Next to model: the provider search and the download directory of the TUI, the read-only queries of the API, camofox's
sessions and tabs.
