----------------------------- MODULE Downloads -----------------------------
(***************************************************************************)
(* The three programs that pull models, together: the TUI (tui_app.rs,     *)
(* download_history.rs), the API server (serve_api.rs) and the command     *)
(* `llmfit download` (main.rs).  They share the models directory and the   *)
(* runtimes of the machine and know nothing of each other.                 *)
(***************************************************************************)
EXTENDS Pulls

CONSTANTS
    SlowProbes,   \* bound: runtimes whose detection may take its time
    Visible,      \* bound: rows of the window, whose capabilities are probed
    MaxInflight,  \* probes of capabilities at a time (12)
    MAX_RECORDS,  \* length of the history (100)
    Requests,     \* bound: requests the API gets
    CliBudget,    \* memory the command's choice must fit
    Machines      \* the worlds, and what is used there

ASSUME DownloadsAssumption ==
    /\ MAX_RECORDS \in Nat \ {0} /\ MaxInflight \in Nat

(* An answer has its fields, and one server has both addresses of port     *)
(* 8000.  No owner of a model is vLLM.                                     *)
ASSUME MachinesAssumption ==
    \A w \in {m.world : m \in Machines} :
        /\ "net" \in DOMAIN w
        /\ \A url \in DOMAIN w.net :
              w.net[url] # None => {"models", "garbled", "tags"} \subseteq DOMAIN w.net[url]
        /\ {"localhost:8000", "127.0.0.1:8000"} \subseteq DOMAIN w.net
        /\ w.net["localhost:8000"] = w.net["127.0.0.1:8000"]

ASSUME OwnerAssumption == None # "vllm"

VARIABLES
    tui,       \* the TUI
    history,   \* DownloadHistory, in memory and in its file
    api,       \* the API server
    cli,       \* the command's pull, or None
    used,      \* bound: the programs that are used, [rows, requests, jobs, asks]
    restarts,  \* bound: how often a program will still be stopped
    outages    \* bound: how many servers will still go down

downloadVars == <<pullVars, tui, history, api, cli, used, restarts, outages>>

Probed == {"ollama", "mlx", "docker_mr", "lmstudio", "vllm", "ramalama"}

StemsOf(files) == {LocalStem(l) : l \in {l \in Locals : files[l] # None}}

Stems == StemsOf(final)

-----------------------------------------------------------------------------
(* The TUI.  popup: None or [row, options, cursor].  pull: the thread it   *)
(* follows.  probes[r]: the thread that detects a runtime and its message. *)
(* caps[row]: None, what a probe will find, or what one has found.         *)
Stopped == [up |-> FALSE]

Probe(pc, msg) == [pc |-> pc, msg |-> msg]

(* What the detection of a runtime sends. *)
DetectionMsg(found, binary, provider) ==
    [available |-> found.available, installed |-> found.installed,
     binary |-> binary, provider |-> provider]

OllamaDetectionMsg(detected, binary) == DetectionMsg(detected.found, binary, detected.provider)

ProviderDetectionMsg(w, r) ==
    CASE r = "ollama" -> OllamaDetectionMsg(detect_ollama(w), find_binary(w, "ollama"))
      [] r = "mlx" -> DetectionMsg(detect_mlx(w), FALSE, None)
      [] r = "docker_mr" -> DetectionMsg(detect_docker_mr(w), FALSE, None)
      [] r = "lmstudio" -> DetectionMsg(detect_lmstudio(w), FALSE, None)
      [] r = "vllm" -> DetectionMsg(detect_vllm(w), FALSE, None)
      [] r = "ramalama" -> DetectionMsg(detect_ramalama(w), FALSE, None)

(* available_download_providers, in the order of the popup. *)
available_download_providers(t, row) ==
    LET gguf == row.sources # <<>> \/ first_existing_gguf_repo(row.name) # None
        prequantized == row.prequantized \/ is_likely_prequantized_repo(row.name)
        offered(r) ==
            CASE r = "ollama" -> has_ollama_mapping(row.name) /\ ("ollama" \in t.avail \/ t.binary)
              [] r = "mlx" -> "mlx" \in t.avail /\ (row.mlx \/ ~prequantized)
              [] r = "llamacpp" -> "llamacpp" \in t.avail /\ gguf
              [] r = "docker_mr" -> "docker_mr" \in t.avail /\ has_docker_mr_mapping(row.name)
              [] r = "lmstudio" -> "lmstudio" \in t.avail /\ gguf
              [] r = "vllm" -> "vllm" \in t.avail
    IN  SelectSeq(<<"ollama", "mlx", "llamacpp", "docker_mr", "lmstudio", "vllm">>, offered)

(* A probe decides from what was available when it was started. *)
CapabilityOf(t, row) ==
    {r \in {"ollama", "llamacpp", "docker_mr", "lmstudio", "vllm"} :
        CASE r = "ollama" -> has_ollama_mapping(row.name) /\ ("ollama" \in t.avail \/ t.binary)
          [] r = "llamacpp" -> r \in t.avail
                                  /\ (row.sources # <<>> \/ first_existing_gguf_repo(row.name) # None)
          [] r = "docker_mr" -> r \in t.avail /\ has_docker_mr_mapping(row.name)
          [] r = "lmstudio" -> r \in t.avail /\ has_lmstudio_mapping(row.name)
          [] r = "vllm" -> r \in t.avail}

Inflight(t) == {row \in Visible : t.caps[row] # None /\ t.caps[row].pc # "known"}

(* enqueue_capability_probe for the rows of the window: only those of      *)
(* which nothing is known, and not too many at a time.                     *)
enqueue_capability_probe(t, row) == [t EXCEPT !.caps[row] = [pc |-> "asked", found |-> CapabilityOf(t, row)]]

enqueue_capability_probes_for_visible(t) ==
    LET asked == CHOOSE s \in SUBSET {row \in Visible : t.caps[row] = None} :
                    LET room == MaxInflight - Cardinality(Inflight(t))
                    IN  \/ Cardinality(s) = room
                        \/ Cardinality(s) <= room /\ s = {row \in Visible : t.caps[row] = None}
    IN  [t EXCEPT !.caps = [row \in Visible |->
            IF row \in asked THEN enqueue_capability_probe(t, row).caps[row] ELSE t.caps[row]]]

tick_download_capability(t) ==
    [t EXCEPT !.caps = [row \in Visible |->
        IF t.caps[row] # None /\ t.caps[row].pc = "sent" THEN [t.caps[row] EXCEPT !.pc = "known"]
        ELSE t.caps[row]]]

(* Every runtime is asked again; the row is installed if one has it. *)
refresh_installed(t, w, files) ==
    enqueue_capability_probes_for_visible(
        [t EXCEPT !.index = [detect_all(w, StemsOf(files)) EXCEPT
            !.ollama = ollama_installed_models_counted(w, t.ollama).installed]])

IsInstalled(t, row) == InstalledAnywhere(t.index, row.name, row.params)

tick_provider_detection(t) ==
    LET sent == {r \in Probed : t.probes[r].pc = "sent"}
        ollama == "ollama" \in sent
    IN  [t EXCEPT
            !.probes = [r \in Probed |-> IF r \in sent THEN Probe("taken", None) ELSE t.probes[r]],
            !.avail = (t.avail \ sent) \cup {r \in sent : t.probes[r].msg.available},
            !.binary = IF ollama THEN t.probes["ollama"].msg.binary ELSE @,
            !.ollama = IF ollama THEN t.probes["ollama"].msg.provider ELSE @,
            !.index = [r \in DOMAIN @ |-> IF r \in sent THEN t.probes[r].msg.installed ELSE @[r]]]

NewTui ==
    [up |-> TRUE,
     avail |-> IF llamacpp_is_available(world) THEN {"llamacpp"} ELSE {},
     binary |-> FALSE, ollama |-> OllamaProvider(world),
     index |-> [InstalledIndexEmpty EXCEPT
                  !.llamacpp = llamacpp_installed_models_counted(world, Stems).installed],
     probes |-> [r \in Probed |-> IF r \in SlowProbes THEN Probe("running", None)
                                    ELSE Probe("sent", ProviderDetectionMsg(world, r))],
     popup |-> None, pull |-> None, row |-> None, provider |-> None,
     caps |-> [row \in Visible |-> None], cursor |-> 0, confirm |-> FALSE]

TuiStart ==
    /\ used.rows # {} /\ ~tui.up
    /\ tui' = NewTui
    /\ UNCHANGED <<pullVars, history, api, cli, used, restarts, outages>>

DetectionSends(r) ==
    /\ tui.up /\ tui.probes[r].pc = "running"
    /\ tui' = [tui EXCEPT !.probes[r] = Probe("sent", ProviderDetectionMsg(world, r))]
    /\ UNCHANGED <<pullVars, history, api, cli, used, restarts, outages>>

CapabilitySends(row) ==
    /\ tui.up /\ tui.caps[row] # None /\ tui.caps[row].pc = "asked"
    /\ tui' = [tui EXCEPT !.caps[row].pc = "sent"]
    /\ UNCHANGED <<pullVars, history, api, cli, used, restarts, outages>>

(* DownloadHistory: appended and cut to the latest, and saved. *)
add_record(records, r) ==
    LET longer == Append(records, r)
        excess == IF Len(longer) > MAX_RECORDS THEN Len(longer) - MAX_RECORDS ELSE 0
    IN  SubSeq(longer, excess + 1, Len(longer))

remove(records, i) ==
    IF i \in DOMAIN records THEN SubSeq(records, 1, i - 1) \o SubSeq(records, i + 1, Len(records))
    ELSE records

(* file_path is None in every record. *)
DownloadRecord(t, ok) == [row |-> t.row, provider |-> t.provider, ok |-> ok]

PullOver(t) == [t EXCEPT !.pull = None, !.provider = None]

(* tick_pull: messages of the detection, probes, then those of the pull.   *)
(* A thread that ended without a word leaves no record.                    *)
tick_pull ==
    LET t1 == tick_download_capability(
                  enqueue_capability_probes_for_visible(tick_provider_detection(tui)))
        ended == t1.pull # None /\ pulls[t1.pull].pc = "ended"
    IN  /\ tui.up
        /\ IF ~ended THEN tui' = t1 /\ history' = history
           ELSE CASE pulls[t1.pull].sent = "Done" ->
                        /\ history' = add_record(history, DownloadRecord(t1, TRUE))
                        /\ tui' = refresh_installed(PullOver(t1), world, final)
                  [] pulls[t1.pull].sent = "Error" ->
                        /\ history' = add_record(history, DownloadRecord(t1, FALSE))
                        /\ tui' = PullOver(t1)
                  [] OTHER ->
                        /\ history' = history
                        /\ tui' = refresh_installed(PullOver(t1), world, final)
        /\ UNCHANGED <<pullVars, api, cli, used, restarts, outages>>

open_download_provider_popup(t, row, options) ==
    [t EXCEPT !.popup = [row |-> row, options |-> options, cursor |-> 0]]

close_download_provider_popup(t) == [t EXCEPT !.popup = None]

(* Room for one more pull, within the bound. *)
Room ==
    Cardinality({p \in PullIds : pulls[p].pc = "free"})
        > Cardinality({r \in Requests : api.requests[r].pc \in {"checked", "stored"}})

(* d on a row. *)
start_download(row) ==
    LET options == available_download_providers(tui, row)
    IN  /\ tui.up /\ tui.popup = None /\ ~tui.confirm
        /\ tui.avail \ {"ramalama"} # {}
        /\ tui.pull = None
        /\ ~IsInstalled(tui, row)
        /\ options # <<>>
        /\ tui' = open_download_provider_popup(tui, row, options)
        /\ UNCHANGED <<pullVars, history, api, cli, used, restarts, outages>>

download_provider_popup_up(popup) == [popup EXCEPT !.cursor = IF @ > 0 THEN @ - 1 ELSE 0]

download_provider_popup_down(popup) ==
    [popup EXCEPT !.cursor = IF @ + 1 < Len(popup.options) THEN @ + 1 ELSE @]

PopupKeys ==
    /\ tui.up /\ tui.popup # None
    /\ tui' \in {[tui EXCEPT !.popup = download_provider_popup_up(@)],
                 [tui EXCEPT !.popup = download_provider_popup_down(@)],
                 close_download_provider_popup(tui)}
    /\ UNCHANGED <<pullVars, history, api, cli, used, restarts, outages>>

(* What a runtime is asked to pull for a row, or None: it refuses. *)
start_ollama_download(row) ==
    LET tag == ollama_pull_tag(row.name)
    IN  IF tag = None THEN None ELSE start_pull_ollama(tag, tui.ollama[1])

start_mlx_download(row) == start_pull_mlx(mlx_pull_tag(row.name))

start_llamacpp_download_for_model(row) ==
    LET repo == IF row.sources # <<>> THEN row.sources[1] ELSE first_existing_gguf_repo(row.name)
    IN  IF repo = None THEN None ELSE start_pull_gguf(repo)

start_docker_mr_download(row) ==
    LET tag == docker_mr_pull_tag(row.name) IN IF tag = None THEN None ELSE start_pull_docker(tag)

(* A URL or a short name passes lmstudio_pull_tag a second time as it is. *)
LmStudioPullOf(tag) == LmStudioPull(tag, tag)

start_lmstudio_download(row) == LmStudioPullOf(lmstudio_pull_tag(row.name, RamBudget))

start_vllm_download(row) == start_pull_vllm(row.name)

start_download_with_provider(row, provider) ==
    CASE provider = "ollama" -> start_ollama_download(row)
      [] provider = "mlx" -> start_mlx_download(row)
      [] provider = "llamacpp" -> start_llamacpp_download_for_model(row)
      [] provider = "docker_mr" -> start_docker_mr_download(row)
      [] provider = "lmstudio" -> start_lmstudio_download(row)
      [] OTHER (* vllm *) -> start_vllm_download(row)

confirm_download_provider_selection ==
    LET popup == tui.popup
        provider == popup.options[popup.cursor + 1]
        closed == close_download_provider_popup(tui)
    IN  /\ tui.up /\ tui.popup # None
        /\ \E handle \in {start_download_with_provider(popup.row, provider)} :
              IF handle = None THEN tui' = closed /\ UNCHANGED pulls
              ELSE /\ Room
                   /\ SpawnAs(FreePull, "tui", handle)
                   /\ tui' = [closed EXCEPT !.pull = FreePull, !.row = popup.row, !.provider = provider]
        /\ UNCHANGED <<world, diskVars, history, api, cli, used, restarts, outages>>

-----------------------------------------------------------------------------
(* The download manager: the newest record is shown first.                 *)
SelectedRecord == history[Len(history) - tui.cursor]

HistoryKeys ==
    /\ tui.up /\ tui.popup = None /\ ~tui.confirm
    /\ tui' \in {[tui EXCEPT !.cursor = IF @ > 0 THEN @ - 1 ELSE 0],
                 [tui EXCEPT !.cursor = IF @ + 1 < Len(history) THEN @ + 1 ELSE @]}
                  \cup (IF history # <<>> THEN {[tui EXCEPT !.confirm = TRUE]} ELSE {})
    /\ UNCHANGED <<pullVars, history, api, cli, used, restarts, outages>>

clamp_dm_cursor(t, len) ==
    [t EXCEPT !.cursor = IF len = 0 THEN 0 ELSE IF @ >= len THEN len - 1 ELSE @]

(* delete_model of Ollama, which knows the names of its tags. *)
delete_model_ollama(url, n) ==
    IF HasTags(world, url) /\ \E m \in world.net[url].tags : m.name = n
        THEN [world EXCEPT !.net[url].tags = {m \in @ : m.name # n}] ELSE None

(* delete_model of llama.cpp: the file of that stem. *)
delete_model_llamacpp(n) ==
    LET found == {l \in Locals : final[l] # None /\ Bare(LocalStem(l)) = n}
    IN  IF found = {} THEN None ELSE [final EXCEPT ![CHOOSE l \in found : TRUE] = None]

Keep == UNCHANGED <<part, written, pulls, touched, api, cli, used, restarts, outages>>

(* y, after x: the entry, and with a success the model. *)
delete_selected_download ==
    LET r == SelectedRecord
        shorter == remove(history, Len(history) - tui.cursor)
        after == clamp_dm_cursor([tui EXCEPT !.confirm = FALSE], Len(shorter))
        n == r.row.name
        kept == [tui EXCEPT !.confirm = FALSE]
    IN  /\ tui.up /\ tui.confirm
        /\ IF history = <<>> \/ tui.cursor >= Len(history)
              THEN tui' = kept /\ UNCHANGED <<world, final, history>>
           ELSE IF ~r.ok
              THEN tui' = after /\ history' = shorter /\ UNCHANGED <<world, final>>
           ELSE IF r.provider = "ollama" /\ delete_model_ollama(tui.ollama[1], n) # None
              THEN /\ world' = delete_model_ollama(tui.ollama[1], n)
                   /\ history' = shorter /\ tui' = refresh_installed(after, world', final)
                   /\ UNCHANGED final
           ELSE IF r.provider = "llamacpp" /\ delete_model_llamacpp(n) # None
              THEN /\ final' = delete_model_llamacpp(n)
                   /\ history' = shorter /\ tui' = refresh_installed(after, world, final')
                   /\ UNCHANGED world
           ELSE tui' = kept /\ UNCHANGED <<world, final, history>>
        /\ Keep

CancelDelete ==
    /\ tui.up /\ tui.confirm
    /\ tui' = [tui EXCEPT !.confirm = FALSE]
    /\ UNCHANGED <<pullVars, history, api, cli, used, restarts, outages>>

-----------------------------------------------------------------------------
(* The API server.  api.active is the one download it shows; requests[r]   *)
(* the handler of a request and the tasks it leaves behind: checked (the   *)
(* lock was read and released), stored, pulling, over.                     *)
NewApi ==
    [up |-> TRUE, active |-> None, counter |-> 1,
     requests |-> [r \in Requests |-> [pc |-> "none", job |-> None, id |-> None, pull |-> None]]]

(* A request while one is pulling is refused. *)
ApiCheck(r, job) ==
    /\ Room
    /\ api.up /\ api.requests[r].pc = "none"
    /\ api.active # None => api.active.status # "pulling"
    /\ api' = [api EXCEPT !.requests[r].pc = "checked", !.requests[r].job = job]
    /\ UNCHANGED <<pullVars, tui, history, cli, used, restarts, outages>>

ActiveDownload(id, job, status) == [id |-> id, job |-> job, status |-> status]

ApiStore(r) ==
    LET id == api.counter
    IN  /\ api.up /\ api.requests[r].pc = "checked"
        /\ api' = [api EXCEPT !.requests[r].pc = "stored", !.requests[r].id = id,
                              !.counter = @ + 1,
                              !.active = ActiveDownload(id, api.requests[r].job, "pulling")]
        /\ UNCHANGED <<pullVars, tui, history, cli, used, restarts, outages>>

(* The task that applies events stops when another download is shown. *)
ApplyEvent(active, id, result) ==
    IF active # None /\ active.id = id
        THEN [active EXCEPT !.status = IF result = "Done" THEN "done" ELSE "error"]
        ELSE active

(* The blocking thread: a provider of its own and the name as it was given. *)
ApiHandle(job) ==
    CASE job.runtime = "ollama" -> start_pull_ollama(job.name, OllamaProvider(world)[1])
      [] job.runtime = "mlx" -> start_pull_mlx(job.name)
      [] job.runtime = "llamacpp" -> start_pull_gguf(job.name)
      [] job.runtime = "docker_model_runner" -> start_pull_docker(job.name)
      [] job.runtime = "lmstudio" -> start_pull_lmstudio(job.name)
      [] OTHER -> None

ApiStart(r) ==
    /\ api.up /\ api.requests[r].pc = "stored"
    /\ \E handle \in {ApiHandle(api.requests[r].job)} :
          IF handle = None
              THEN /\ api' = [api EXCEPT !.requests[r].pc = "over",
                                         !.active = ApplyEvent(@, api.requests[r].id, "Error")]
                   /\ UNCHANGED pulls
              ELSE /\ SpawnAs(FreePull, "api", handle)
                   /\ api' = [api EXCEPT !.requests[r].pc = "pulling", !.requests[r].pull = FreePull]
    /\ UNCHANGED <<world, diskVars, tui, history, cli, used, restarts, outages>>

ApiUpdate(r) ==
    LET q == api.requests[r]
    IN  /\ api.up /\ q.pc = "pulling" /\ pulls[q.pull].pc = "ended"
        /\ api' = [api EXCEPT !.requests[r].pc = "over",
                              !.active = ApplyEvent(@, q.id, pulls[q.pull].sent)]
        /\ UNCHANGED <<pullVars, tui, history, cli, used, restarts, outages>>

-----------------------------------------------------------------------------
(* The smallest file, the first of equals. *)
Smallest(files) ==
    files[CHOOSE i \in DOMAIN files : /\ \A j \in DOMAIN files : files[i].size <= files[j].size
                                     /\ \A j \in 1..i - 1 : files[i].size < files[j].size]

CliChoice(quant, files, best) ==
    CASE files = <<>> -> None
      [] files # <<>> /\ quant # None -> FirstOf(SelectSeq(files, LAMBDA f : InSeq(quant, f.stem)))
      [] OTHER -> IF best # None THEN best[1] ELSE Smallest(files)

CliRepo(ask) == IF ask.name.ns # "" THEN ask.name ELSE gguf_pull_tag(ask.name)

(* `llmfit download`: the file of the repository, or None: it gives up.    *)
CliFile(ask) ==
    LET files == IF CliRepo(ask) = None THEN <<>> ELSE list_repo_gguf_files(CliRepo(ask))
    IN  CliChoice(ask.quant, files, select_best_gguf(files, CliBudget))

run_download(ask) ==
    /\ cli = None /\ Room
    /\ \E file \in {CliFile(ask)} \ {None} :
          \E handle \in {download_gguf_paths(CliRepo(ask), download_gguf(CliRepo(ask), file))} \ {None} :
             SpawnAs(FreePull, "cli", handle)
    /\ cli' = FreePull
    /\ UNCHANGED <<world, diskVars, tui, history, api, used, restarts, outages>>

CliExits ==
    /\ cli # None /\ pulls[cli].pc = "ended"
    /\ cli' = None
    /\ UNCHANGED <<pullVars, tui, history, api, used, restarts, outages>>

-----------------------------------------------------------------------------
(* A program is quit or killed, with its threads; a server goes down.      *)
CanStop == restarts > 0 /\ restarts' = restarts - 1

TuiStops ==
    /\ tui.up /\ CanStop
    /\ tui' = Stopped /\ StopPulls("tui")
    /\ UNCHANGED <<world, diskVars, history, api, cli, used, outages>>

ApiStops ==
    /\ api.up /\ CanStop
    /\ api' = [NewApi EXCEPT !.up = FALSE] /\ StopPulls("api")
    /\ UNCHANGED <<world, diskVars, tui, history, cli, used, outages>>

CliStops ==
    /\ cli # None /\ CanStop
    /\ cli' = None /\ StopPulls("cli")
    /\ UNCHANGED <<world, diskVars, tui, history, api, used, outages>>

ServerStops(url) ==
    /\ outages > 0 /\ outages' = outages - 1
    /\ world.net[url] # None
    /\ world' = [world EXCEPT !.net[url] = None]
    /\ UNCHANGED <<pulls, diskVars, tui, history, api, cli, used, restarts>>

-----------------------------------------------------------------------------
(* What is used of a machine: rows of the table ([name, params, mlx,       *)
(* prequantized, sources]), requests to the API and what they ask for      *)
(* ([name, runtime]), and what the command is asked for ([name, quant]).   *)
Init ==
    /\ \E m \in Machines : /\ PullsInit(m.world, m.pulls) /\ used = m.used
                            /\ restarts = m.restarts /\ outages = m.outages
    /\ tui = Stopped /\ history = <<>> /\ api = NewApi /\ cli = None

clientVars == <<tui, history, api, cli, used, restarts, outages>>

Worker(p) == PullStep(p) /\ UNCHANGED clientVars

LmStudioWorks(p) == LmStudioFinishes(p) /\ UNCHANGED clientVars

ApiTask(r) == ApiStore(r) \/ ApiStart(r) \/ ApiUpdate(r)

Next ==
    \/ TuiStart \/ tick_pull \/ PopupKeys \/ confirm_download_provider_selection
    \/ HistoryKeys \/ delete_selected_download \/ CancelDelete
    \/ \E r \in SlowProbes : DetectionSends(r)
    \/ \E row \in Visible : CapabilitySends(row)
    \/ \E row \in used.rows : start_download(row)
    \/ \E r \in used.requests, job \in used.jobs : ApiCheck(r, job)
    \/ \E r \in Requests : ApiTask(r)
    \/ \E ask \in used.asks : run_download(ask)
    \/ CliExits \/ TuiStops \/ ApiStops \/ CliStops
    \/ \E url \in DOMAIN world.net : ServerStops(url)
    \/ \E p \in PullIds : Worker(p) \/ LmStudioWorks(p)

(* Some thread or task that can go on does, and the TUI is redrawn;        *)
(* requests to servers and transfers end by their timeouts.  A program     *)
(* that a thread has started has none and owes nothing.                    *)
Internal ==
    \/ tick_pull
    \/ \E p \in PullIds : TimedStep(p) /\ UNCHANGED clientVars
    \/ \E r \in Requests : ApiTask(r)

Fairness == WF_downloadVars(Internal)

Spec == Init /\ [][Next]_downloadVars /\ Fairness

-----------------------------------------------------------------------------
(* After a download the TUI has recorded as a success, the row shows as    *)
(* installed if the runtime still answers: the name that was pulled is one *)
(* by which the model is recognised, and no detection that was slow takes  *)
(* it away again (tick_pull, refresh_installed, tick_provider_detection).  *)
(* The exception are models whose GGUF repository has another name, like   *)
(* google_gemma-4-E2B-it-GGUF for gemma-4-e2b-it: llama.cpp and LM Studio  *)
(* know them by the name of the file, which is_model_installed_llamacpp    *)
(* does not look for.                                                      *)
ProviderAnswers(provider) ==
    CASE provider = "ollama" -> HasTags(world, tui.ollama[1])
      [] provider = "docker_mr" -> HasList(world, DockerModelRunnerProvider(world))
      [] provider = "lmstudio" -> HasList(world, LmStudioProvider(world))
      [] OTHER -> TRUE

(* A repository of GGUF files that is called like the model. *)
NamedAfter(repo, n) ==
    repo # None => TrimRight(repo.segs, {"gguf"}) \in {n.segs, WithoutVariants(n.segs)}

NamedAlike(record) ==
    record.provider \in {"llamacpp", "lmstudio"} =>
        /\ \A i \in DOMAIN record.row.sources : NamedAfter(record.row.sources[i], record.row.name)
        /\ NamedAfter(lookup_gguf_repo(record.row.name), record.row.name)

ShowsDone(last) ==
    (/\ tui.up /\ tui'.up /\ tui'.pull = None
     /\ last.ok /\ last.row = tui'.row /\ ProviderAnswers(last.provider))
        => IsInstalled(tui', last.row)

DoneIsVisible ==
    [][LET last == history'[Len(history')]
       IN  history' # <<>> /\ NamedAlike(last) => ShowsDone(last)]_downloadVars

(* A file that has its final name is complete ("Write to a temp file, then *)
(* rename to avoid partial files", providers.rs:1367), unless two          *)
(* processes downloaded it at a time or the server told no length.         *)
FinalComplete ==
    \A l \in Locals :
        final[l] # None => \/ written[final[l]] = SizeOfFile[l]
                           \/ l \in touched
                           \/ l \in Unsized

(* Every pull of the TUI, and every download that the API shows, comes to  *)
(* an end, or the program is stopped, or it waits for hf or docker, which  *)
(* are run without a limit of time (providers.rs:982 and 2198): no answer, *)
(* lost server, late listing or failed transfer keeps it going for ever.   *)
EveryPullEnds ==
    /\ (tui.up /\ tui.pull # None)
          ~> (tui.up => tui.pull = None \/ AwaitsCommand(tui.pull))
    /\ (api.active # None /\ api.active.status = "pulling")
          ~> (\/ api.active = None \/ api.active.status # "pulling"
              \/ \E p \in PullIds : pulls[p].client = "api" /\ AwaitsCommand(p))

(* The models of one server are taken over by vLLM or by MLX, never by     *)
(* both: their default addresses are the same port.                        *)
OneClaim ==
    tui.up /\ detect_vllm(world).available /\ VllmProvider(world) = "localhost:8000" =>
        \A c \in server_candidates(MlxProvider(world)) :
            c.url = "127.0.0.1:8000" => fetch_candidate_models(world, c) \in {None, {}}

(* Not guaranteed by the code: what DoneIsVisible says of a model with any *)
(* repository.                                                             *)
AnyDoneIsVisible ==
    [][LET last == history'[Len(history')]
       IN  history' # <<>> => ShowsDone(last)]_downloadVars

(* Not guaranteed by the code: every pull ends. *)
AllPullsEnd == (tui.up /\ tui.pull # None) ~> (tui.up => tui.pull = None)

(* "For successful downloads, it deletes the model from the provider       *)
(* (supported for Ollama and llama.cpp)" (docs/tui.md:171).                *)
DeleteRemoves ==
    (/\ tui.up /\ tui.confirm /\ tui.cursor < Len(history) /\ SelectedRecord.ok
     /\ ProviderAnswers(SelectedRecord.provider))
        => /\ SelectedRecord.provider = "ollama"
                 => delete_model_ollama(tui.ollama[1], SelectedRecord.row.name) # None
           /\ SelectedRecord.provider = "llamacpp"
                 => delete_model_llamacpp(SelectedRecord.row.name) # None

=============================================================================
