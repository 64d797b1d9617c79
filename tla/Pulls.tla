------------------------------- MODULE Pulls -------------------------------
(***************************************************************************)
(* The threads that pull models (start_pull of every provider in           *)
(* providers.rs) and the directory they write to.  A pull tells its        *)
(* client how it ended once; what it says on the way only changes texts.   *)
(*                                                                         *)
(* A GGUF file is written next to its final name, as .gguf.part, and then  *)
(* renamed.  part[l] and final[l] say which file these names stand for: a  *)
(* file is the pull that created it and its place in that pull, <<p, i>>,  *)
(* and stays itself when its name is taken away; written has how much is   *)
(* in it.                                                                  *)
(***************************************************************************)
EXTENDS Runtimes

CONSTANTS
    MaxPulls,    \* bound: pulls that are ever started
    Locals,      \* the local names of all files of Repos
    SizeOfFile,  \* SizeOfFile[l]: units of l
    Unsized,     \* files of which the server tells no length
    PollBudget,  \* how often a download of LM Studio is asked for (600)
    RamBudget,   \* memory LM Studio's choice must fit
    Clients      \* who pulls: "tui", "api", "cli"

ASSUME PullsAssumption ==
    /\ MaxPulls \in Nat \ {0} /\ PollBudget \in Nat
    /\ SizeOfFile \in [Locals -> Nat \ {0}]

VARIABLES
    world,       \* the machine: servers and what they have
    part,        \* part[l]: the file that is called l.part, or None
    final,       \* final[l]: the file that is called l, or None
    written,     \* written[f]: units in f, for every file that was created
    pulls,       \* the threads
    touched      \* files of which two pulls had an unfinished one at a time

pullVars == <<world, part, final, written, pulls, touched>>

PullIds == 1..MaxPulls

NoPull == [pc |-> "free", client |-> None, provider |-> None, tag |-> None, url |-> None,
           repo |-> None, files |-> <<>>, at |-> 1, budget |-> 0, empties |-> 0,
           sent |-> None]

Live(p) == pulls[p].pc \notin {"free", "ended"}

CurrentFile(p) == LocalName(pulls[p].files[pulls[p].at])

(* The file that p creates under that name. *)
FileOf(p) == <<p, pulls[p].at>>

(* most: how many pulls there will be, a bound. *)
PullsInit(w, most) ==
    /\ world = w
    /\ part = [l \in Locals |-> None]
    /\ final = [l \in Locals |-> None]
    /\ written = [f \in {} |-> 0]
    /\ pulls = [p \in PullIds |-> IF p <= most THEN NoPull ELSE [NoPull EXCEPT !.pc = "ended"]]
    /\ touched = {}

-----------------------------------------------------------------------------
(* start_pull of a provider: None when it refuses, else what it will do.   *)
Handle(provider, tag, url, pc, files) ==
    [NoPull EXCEPT !.provider = provider, !.tag = tag, !.url = url, !.pc = pc, !.files = files]

start_pull_ollama(tag, url) == Handle("ollama", tag, url, "stream", <<>>)

MlxPull(repo) ==
    IF repo # None /\ find_binary(world, "hf")
        THEN Handle("mlx", repo, None, "command", <<>>) ELSE None

start_pull_mlx(tag) == MlxPull(resolve_mlx_fallback_repo(tag))

start_pull_docker(tag) ==
    Handle("docker_mr", tag, DockerModelRunnerProvider(world), "command", <<>>)

(* tag is what the models are looked for by, repo what LM Studio is told. *)
LmStudioHandle(tag, repo) ==
    [Handle("lmstudio", tag, LmStudioProvider(world), "post", <<>>)
        EXCEPT !.repo = repo, !.budget = PollBudget]

LmStudioPull(tag, repo) == IF repo = None THEN None ELSE LmStudioHandle(tag, repo)

start_pull_lmstudio(n) == LmStudioPull(n, lmstudio_pull_tag(n, RamBudget))

(* download_gguf_paths: all paths are checked before anything is fetched. *)
download_gguf_paths(repo, files) ==
    IF files # <<>> /\ \A i \in DOMAIN files : validate_gguf_repo_path(files[i])
                                                 /\ validate_gguf_filename(files[i])
        THEN Handle("llamacpp", repo, None, "connect", files) ELSE None

start_pull_gguf(repo) == download_gguf_paths(repo, start_pull_llamacpp(repo))

(* vLLM and RamaLama load their models themselves. *)
start_pull_vllm(tag) == None

(* Spawn p, a free thread, with what start_pull returned. *)
SpawnAs(p, client, handle) ==
    /\ pulls[p].pc = "free"
    /\ pulls' = [pulls EXCEPT ![p] = [handle EXCEPT !.client = client]]

FreePull == CHOOSE p \in PullIds : pulls[p].pc = "free" /\ \A q \in 1..p - 1 : pulls[q].pc # "free"

-----------------------------------------------------------------------------
(* What a thread says last; after it the channel is closed.                *)
EndsAs(p, result) == [pulls EXCEPT ![p].pc = "ended", ![p].sent = result]

diskVars == <<part, final, written, touched>>

(* Ollama streams lines until one says success or error, or it ends. *)
OllamaModel(tag) == [name |-> tag, size |-> 1, cloud |-> FALSE, params |-> {}]

OllamaSucceeds(p) ==
    /\ pulls[p].pc = "stream"
    /\ HasTags(world, pulls[p].url)
    /\ world' = [world EXCEPT !.net[pulls[p].url].tags = @ \cup {OllamaModel(pulls[p].tag)}]
    /\ pulls' = EndsAs(p, "Done")
    /\ UNCHANGED diskVars

OllamaFails(p) ==
    /\ pulls[p].pc = "stream"
    /\ pulls' = EndsAs(p, "Error")
    /\ UNCHANGED <<world, diskVars>>

(* hf download and docker model pull, by their exit status.  The thread    *)
(* waits for it without a limit.                                           *)
CommandSucceeds(p) ==
    /\ pulls[p].pc = "command"
    /\ world' = IF pulls[p].provider = "mlx"
                    THEN [world EXCEPT !.store.hf_cache = @ \cup {pulls[p].tag}]
                ELSE IF HasList(world, pulls[p].url)
                    THEN [world EXCEPT !.net[pulls[p].url].models =
                             @ \cup {[id |-> pulls[p].tag, owner |-> "docker"]}]
                ELSE world
    /\ pulls' = EndsAs(p, "Done")
    /\ UNCHANGED diskVars

CommandFails(p) ==
    /\ pulls[p].pc = "command"
    /\ pulls' = EndsAs(p, "Error")
    /\ UNCHANGED <<world, diskVars>>

-----------------------------------------------------------------------------
(* LM Studio: the answer to the request may already tell the end, or LM    *)
(* Studio goes on by itself and is asked every three seconds, first for    *)
(* the job, if it named one, then for its list of models.                  *)
(* What LM Studio calls a model of a repository. *)
LmStudioIds(repo) == {LastPart(repo), Bare(TrimRight(repo.segs, {"gguf"}))}

LmStudioHas(p) ==
    \E id \in LmStudioIds(pulls[p].repo) :
        world' = [world EXCEPT !.net[pulls[p].url].models = @ \cup {[id |-> id, owner |-> None]}]

PostAnswers(p) ==
    /\ pulls[p].pc = "post"
    /\ \/ pulls' = EndsAs(p, "Error") /\ UNCHANGED world
       \/ /\ HasList(world, pulls[p].url)
          /\ \/ pulls' = EndsAs(p, "Done") /\ LmStudioHas(p)
             \/ \E pc \in {"status", "listing"} :
                   pulls' = [pulls EXCEPT ![p].pc = pc] /\ UNCHANGED world
    /\ UNCHANGED diskVars

(* What LM Studio does meanwhile. *)
LmStudioFinishes(p) ==
    /\ pulls[p].pc \in {"status", "listing"}
    /\ HasList(world, pulls[p].url)
    /\ LmStudioIds(pulls[p].repo) \cap Ids(world.net[pulls[p].url].models) = {}
    /\ LmStudioHas(p)
    /\ UNCHANGED <<pulls, diskVars>>

Finished(p) ==
    /\ HasList(world, pulls[p].url)
    /\ LmStudioIds(pulls[p].repo) \cap Ids(world.net[pulls[p].url].models) # {}

(* Is it among the models, by the exact name? *)
Listed(p) ==
    /\ HasList(world, pulls[p].url)
    /\ hf_name_to_lmstudio_candidates(pulls[p].tag) \cap Ids(world.net[pulls[p].url].models) # {}

lmstudio_download_terminal_status(status) ==
    CASE status \in {"completed", "already_downloaded"} -> "Done"
      [] status = "failed" -> "Error"
      [] OTHER -> None

(* empty_statuses after a status: three empty ones in a row give up. *)
lmstudio_empty_status_limit_reached(empties) == empties >= 3

poll_lmstudio_download_status(p) ==
    LET polled == [pulls EXCEPT ![p].budget = @ - 1]
    IN  /\ pulls[p].pc = "status"
        /\ IF pulls[p].budget = 0 THEN pulls' = EndsAs(p, "Error")
           ELSE \/ pulls' = [polled EXCEPT ![p].pc = "listing"]   \* no answer, or not JSON
                \/ \E status \in {"", "completed", "failed", "downloading"} :
                      LET empties == IF status = "" THEN pulls[p].empties + 1 ELSE 0
                          end == lmstudio_download_terminal_status(status)
                      IN  /\ status = "completed" => Finished(p)
                          /\ pulls' =
                                IF lmstudio_empty_status_limit_reached(empties)
                                    THEN [polled EXCEPT ![p].pc = "listing"]
                                ELSE IF end # None
                                    THEN [polled EXCEPT ![p].pc = "ended", ![p].sent = end]
                                ELSE [polled EXCEPT ![p].empties = empties]
        /\ UNCHANGED <<world, diskVars>>

(* Mutant: a failed look at the list is not counted. *)
PollForever(p) ==
    /\ pulls[p].pc = "listing"
    /\ pulls' = IF pulls[p].budget = 0 THEN EndsAs(p, "Error")
                ELSE IF Listed(p) THEN EndsAs(p, "Done")
                ELSE pulls
    /\ UNCHANGED <<world, diskVars>>

poll_lmstudio_installed_models(p) ==
    /\ pulls[p].pc = "listing"
    /\ pulls' = IF pulls[p].budget = 0 THEN EndsAs(p, "Error")
                ELSE IF Listed(p) THEN EndsAs(p, "Done")
                ELSE [pulls EXCEPT ![p].budget = @ - 1]
    /\ UNCHANGED <<world, diskVars>>

-----------------------------------------------------------------------------
(* download_gguf_paths: one file after the other.                          *)
OthersOn(p, l) ==
    \E q \in PullIds \ {p} : Live(q) /\ pulls[q].provider = "llamacpp"
                                /\ pulls[q].pc # "connect" /\ CurrentFile(q) = l

Touch(p) == touched' = IF OthersOn(p, CurrentFile(p)) THEN touched \cup {CurrentFile(p)} ELSE touched

Connect(p) ==
    /\ pulls[p].pc = "connect"
    /\ \/ pulls' = EndsAs(p, "Error")
       \/ pulls' = [pulls EXCEPT ![p].pc = "remove"]
    /\ UNCHANGED <<world, part, final, written, touched>>

(* Take away what is called .part, then create a new file of that name. *)
RemoveOld(p) ==
    /\ pulls[p].pc = "remove"
    /\ part' = [part EXCEPT ![CurrentFile(p)] = None]
    /\ pulls' = [pulls EXCEPT ![p].pc = "create"]
    /\ Touch(p)
    /\ UNCHANGED <<world, final, written>>

CreateNew(p) ==
    LET l == CurrentFile(p)
    IN  /\ pulls[p].pc = "create"
        /\ \/ /\ part[l] = None
              /\ part' = [part EXCEPT ![l] = FileOf(p)]
              /\ written' = [f \in DOMAIN written \cup {FileOf(p)} |->
                                IF f = FileOf(p) THEN 0 ELSE written[f]]
              /\ pulls' = [pulls EXCEPT ![p].pc = "write"]
           \/ pulls' = EndsAs(p, "Error") /\ UNCHANGED <<part, written>>
        /\ Touch(p)
        /\ UNCHANGED <<world, final>>

WriteMore(p) ==
    LET l == CurrentFile(p)
    IN  /\ pulls[p].pc = "write"
        /\ written[FileOf(p)] < SizeOfFile[l]
        /\ written' = [written EXCEPT ![FileOf(p)] = @ + 1]
        /\ UNCHANGED <<world, part, final, pulls, touched>>

(* An error of reading, writing or flushing. *)
TransferFails(p) ==
    /\ pulls[p].pc = "write"
    /\ part' = [part EXCEPT ![CurrentFile(p)] = None]
    /\ pulls' = EndsAs(p, "Error")
    /\ Touch(p)
    /\ UNCHANGED <<world, final, written>>

(* Mutant: the length is not compared. *)
TruncatedNever(p) == FALSE

Truncated(p) == CurrentFile(p) \notin Unsized /\ written[FileOf(p)] < SizeOfFile[CurrentFile(p)]

NextFile(p) ==
    IF pulls[p].at < Len(pulls[p].files)
        THEN [pulls EXCEPT ![p].pc = "connect", ![p].at = @ + 1]
        ELSE EndsAs(p, "Done")

(* The end of the stream: at the length or before. *)
FinishFile(p) ==
    LET l == CurrentFile(p)
    IN  /\ pulls[p].pc = "write"
        /\ part' = [part EXCEPT ![l] = None]
        /\ IF Truncated(p) \/ part[l] = None
              THEN pulls' = EndsAs(p, "Error") /\ final' = final
              ELSE pulls' = NextFile(p) /\ final' = [final EXCEPT ![l] = part[l]]
        /\ Touch(p)
        /\ UNCHANGED <<world, written>>

(* What ends by itself or by a timeout of its request. *)
TimedStep(p) ==
    \/ OllamaSucceeds(p) \/ OllamaFails(p)
    \/ PostAnswers(p) \/ poll_lmstudio_download_status(p) \/ poll_lmstudio_installed_models(p)
    \/ Connect(p) \/ RemoveOld(p) \/ CreateNew(p) \/ WriteMore(p) \/ TransferFails(p) \/ FinishFile(p)

(* The thread of p waits for a program it has started. *)
AwaitsCommand(p) == pulls[p].pc = "command"

PullStep(p) == TimedStep(p) \/ CommandSucceeds(p) \/ CommandFails(p)

(* A process ends: its threads stop where they are. *)
StopPulls(client) ==
    pulls' = [p \in PullIds |-> IF pulls[p].client = client /\ Live(p)
                                    THEN [pulls[p] EXCEPT !.pc = "ended"] ELSE pulls[p]]
=============================================================================
