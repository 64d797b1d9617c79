------------------------------- MODULE Share -------------------------------
(***************************************************************************)
(* The store of benchmark results and their way to a pull request          *)
(* (share.rs, and its callers in main.rs and tui_app.rs).  A worker is a   *)
(* `llmfit bench` command or the thread the TUI starts for an offered      *)
(* benchmark; several share one store, which may lie on a shared volume,   *)
(* and one GitHub account.  A step is one request to GitHub or one change  *)
(* of the store, so anything may happen in between: another worker, a      *)
(* maintainer, a failure, the end of the process.                          *)
(***************************************************************************)
EXTENDS Bench, TLC

CONSTANTS
    Workers,     \* commands and threads
    Nets,        \* what may listen when servers are looked for
    Answers,     \* the answers to the requests of one benchmark
    Env,         \* the environment variables with addresses of servers
    Here,        \* the hardware of this machine
    Names,       \* models of the catalog
    FORK_POLLS,  \* bound: how often a new fork is asked for (15 in the code)
    CODE_POLLS   \* bound: polls until GitHub lets a device code expire

ASSUME ShareAssumption == Workers # {} /\ FORK_POLLS \in Nat /\ CODE_POLLS \in Nat

VARIABLES
    files,       \* the store: file i is [where, payload], in order of the names
    tokens,      \* [env, cache, client]: what the machine has of credentials
    gh,          \* GitHub: [fork, main, branches, prs]
    work,        \* work[w]: the state of a worker
    clock,       \* the second of the last submission
    clashed,     \* files of branches that two submissions named alike
    disordered,  \* a file could not be moved, or was not complete when read
    left         \* what may still happen: [jobs, faults, crashes, reviews]

shareVars == <<files, tokens, gh, work, clock, clashed, disordered, left>>

Idle == [pc |-> "idle", ui |-> FALSE, job |-> None, token |-> None, targets |-> <<>>,
         results |-> <<>>, snap |-> {}, todo |-> {}, n |-> 1, branch |-> None,
         reused |-> FALSE, base |-> {}, uploaded |-> 0, tries |-> 0, sent |-> None]

Set(w, p) == work' = [work EXCEPT ![w] = p]

(* The end of a command, or of the thread with its last message. *)
Ended(p, msg) == [Idle EXCEPT !.ui = p.ui, !.sent = IF p.ui THEN msg ELSE None]

(* A share that failed: the results remain in the store. *)
ShareFailed(w) == Set(w, Ended(work[w], "done"))

Fault == left.faults > 0 /\ left' = [left EXCEPT !.faults = @ - 1]

Calm == UNCHANGED left

-----------------------------------------------------------------------------
(* The store.                                                              *)

(* Complete files in the order of their names, which is that of their      *)
(* times; a file that does not parse is left out.                          *)
read_store(fs) ==
    LET is == SelectSeq([i \in DOMAIN files |-> i], LAMBDA i : i \in fs)
    IN  [k \in DOMAIN is |-> [file |-> is[k],
                              payload |-> sanitize_stored_payload(files[is[k]].payload)]]

Flatten(ss) ==
    LET from[k \in 1..Len(ss) + 1] == IF k > Len(ss) THEN <<>> ELSE ss[k] \o from[k + 1]
    IN  from[1]

Reversed(s) == [k \in DOMAIN s |-> s[Len(s) + 1 - k]]

Complete(f) == files[f].where \in {"pending", "shared"}

StoredResults(f) == sanitize_stored_payload(files[f].payload).results

pending_benchmarks == {f \in DOMAIN files : files[f].where = "pending"}

shared_benchmarks == {f \in DOMAIN files : files[f].where = "shared"}

(* The results that ran on this hardware of some files.  An entry is       *)
(* <<f, i>>, the result i of the file f.                                   *)
Entries(s, fs) ==
    {e \in UNION {{f} \X DOMAIN StoredResults(f) : f \in fs} :
        /\ hardware_payload_matches(files[e[1]].payload.hw, s)
        /\ StoredResults(e[1])[e[2]].tps > 0}

(* shared/ is read before pending/, and a share may move files in between: *)
(* read is what was in shared/ then, and pending/ is read now.             *)
LocalBenchIndex_load(s, read) ==
    [shared |-> Entries(s, read), pending |-> Entries(s, pending_benchmarks)]

(* The list is the entries of shared/, then those of pending/, each in the *)
(* order of their names, and it is read backwards: the first entry of a    *)
(* model is the last one of the file that was read last.                   *)
LocalBenchIndex_lookup(s, read, name) ==
    LET index == LocalBenchIndex_load(s, read)
        hits(es) == {e \in es : tag_matches_model(StoredResults(e[1])[e[2]].model, name)}
        older == hits(index.shared)
        newer == hits(index.pending)
        tail == IF newer # {} THEN newer ELSE older
        latest == Max({e[1] : e \in tail})
        first == Max({e[2] : e \in {h \in tail : h[1] = latest}})
    IN  IF tail = {} THEN None
        ELSE MeasuredTps(StoredResults(latest)[first].tps,
                         Cardinality(older) + Cardinality(newer), "LocalBench")

(* The best of what is known of a model: this machine, the community on    *)
(* the same hardware, the leaderboard of its preset.                       *)
Measured(s, read, name, quant) ==
    LET mine == LocalBenchIndex_lookup(s, read, name)
        ours == CommunityBenchIndex_lookup(s, name)
    IN  IF mine # None THEN mine
        ELSE IF ours # None THEN ours ELSE MeasuredTpsIndex_lookup(s, name, quant)

-----------------------------------------------------------------------------
(* Starting.  A job is [ui, share, all, provider, model, url, specs], a    *)
(* command without model a job whose provider is None; share is "no",      *)
(* "dry", "ask" or "yes".                                                  *)
run_bench(w, job) ==
    /\ work[w].pc = "idle" /\ job \in left.jobs /\ ~job.ui
    /\ left' = [left EXCEPT !.jobs = @ \ {job}]
    /\ Set(w, [Idle EXCEPT !.job = job,
                 !.pc = CASE job.provider = None          -> "list"
                          [] job.share \in {"ask", "yes"} -> "auth"
                          [] OTHER                        -> "discover"])
    /\ UNCHANGED <<files, tokens, gh, clock, clashed, disordered>>

(* Credentials are checked before minutes of benchmarking, also where the  *)
(* results are not to be shared in the end.                                *)
AfterAuth(p, token) ==
    [p EXCEPT !.token = token, !.tries = 0,
              !.sent = IF p.ui THEN "progress" ELSE None,
              !.pc = IF p.ui THEN "measure" ELSE IF p.job.provider = None THEN "submit"
                     ELSE "discover"]

(* Without credentials the TUI saves locally and the command stops. *)
AuthFailed(p) == IF p.ui THEN AfterAuth(p, None) ELSE Ended(p, None)

preflight_auth(w) ==
    LET p == work[w]
        token == IF tokens.env # None THEN tokens.env ELSE tokens.cache
    IN  /\ p.pc = "auth"
        /\ \/ /\ token \in {"good", "weak"} /\ Calm
              /\ Set(w, AfterAuth(p, token))
              /\ UNCHANGED tokens
           \/ /\ tokens.env = "expired" /\ Calm
              /\ Set(w, AuthFailed(p))
              /\ UNCHANGED tokens
           \/ /\ tokens.env = None /\ tokens.cache \in {None, "expired"} /\ Calm
              /\ tokens' = [tokens EXCEPT !.cache = None]
              /\ Set(w, IF tokens.client
                        THEN [p EXCEPT !.pc = "device", !.sent = IF p.ui THEN "auth" ELSE None]
                        ELSE AuthFailed(p))
           \/ /\ Fault
              /\ Set(w, AuthFailed(p))
              /\ UNCHANGED tokens
        /\ UNCHANGED <<files, gh, clock, clashed, disordered>>

(* The user enters the code, has not done so, or will not. *)
device_flow(w) ==
    LET p == work[w]
    IN  /\ p.pc = "device"
        /\ \/ /\ Set(w, AfterAuth(p, "good"))
              /\ tokens' = [tokens EXCEPT !.cache = "good"]
           \/ /\ p.tries < CODE_POLLS
              /\ Set(w, [p EXCEPT !.tries = @ + 1])
              /\ UNCHANGED tokens
           \/ /\ Set(w, AuthFailed(p))
              /\ UNCHANGED tokens
        /\ UNCHANGED <<files, gh, clock, clashed, disordered, left>>

-----------------------------------------------------------------------------
(* Measuring and recording.                                                *)
discover(w) ==
    LET p == work[w]
    IN  /\ p.pc = "discover"
        /\ \E net \in Nets :
             LET offer == OfferTarget(net, Env, p.job.model)
                 one == cli_target(net, Env, p.job.provider, p.job.url, p.job.model)
                 ts == IF p.ui THEN IF offer = None THEN <<>> ELSE <<offer>>
                       ELSE IF p.job.all THEN discover_all_targets(net, Env)
                       ELSE IF one = None THEN <<>> ELSE <<one>>
             IN  Set(w, IF ts = <<>> THEN Ended(p, "error")
                        ELSE [p EXCEPT !.targets = ts,
                                       !.pc = IF p.ui /\ p.job.share = "yes" THEN "auth"
                                              ELSE "measure"])
        /\ UNCHANGED <<files, tokens, gh, clock, clashed, disordered, left>>

(* One model, or with --all every model that can be measured. *)
measure(w) ==
    LET p == work[w]
    IN  /\ p.pc = "measure"
        /\ \E as \in Answers :
             LET rs == SelectSeq([i \in DOMAIN p.targets |-> BenchTarget(p.targets[i], as)],
                                 LAMBDA r : r # None)
             IN  Set(w, IF rs = <<>> /\ ~p.job.all THEN Ended(p, "error")
                        ELSE [p EXCEPT !.results = rs, !.pc = "store"])
        /\ UNCHANGED <<files, tokens, gh, clock, clashed, disordered, left>>

AfterStore(p) ==
    LET shares == IF p.ui THEN p.token # None ELSE p.job.share # "no"
    IN  IF shares THEN [p EXCEPT !.pc = "list", !.results = <<>>] ELSE Ended(p, "done")

(* The file is created, then written.  No result, no file; a failure is    *)
(* told and the worker goes on.                                            *)
store_local(w) ==
    LET p == work[w]
        file == [where |-> "writing", payload |-> build_submission(p.results, p.job.specs)]
    IN  /\ p.pc = "store"
        /\ \/ /\ p.results # <<>> /\ Calm
              /\ files' = Append(files, file)
              /\ Set(w, [p EXCEPT !.pc = "stored", !.n = Len(files) + 1])
           \/ /\ p.results # <<>> /\ Fault
              /\ Set(w, AfterStore(p))
              /\ UNCHANGED files
           \/ /\ p.results = <<>> /\ Calm
              /\ Set(w, AfterStore(p))
              /\ UNCHANGED files
        /\ UNCHANGED <<tokens, gh, clock, clashed, disordered>>

stored(w) ==
    LET p == work[w]
    IN  /\ p.pc = "stored"
        /\ \/ /\ Calm
              /\ files' = [files EXCEPT ![p.n].where = "pending"]
           \/ /\ Fault
              /\ files' = [files EXCEPT ![p.n].where = "torn"]
        /\ Set(w, AfterStore([p EXCEPT !.n = 1]))
        /\ UNCHANGED <<tokens, gh, clock, clashed, disordered>>

-----------------------------------------------------------------------------
(* The submission.                                                         *)

(* What is pending when the share begins is what it is about to the end. *)
share_all_pending(w) ==
    LET p == work[w]
        snap == {i \in DOMAIN files : files[i].where = "pending"}
        late == \E i \in DOMAIN files, k \in snap : files[i].where = "writing" /\ i < k
        asks == ~p.ui /\ p.job.share = "ask"
        stops == ~p.ui /\ (snap = {} \/ p.job.share = "dry")
    IN  /\ p.pc = "list"
        /\ \/ Set(w, IF stops THEN Ended(p, None)
                     ELSE [p EXCEPT !.snap = snap,
                                    !.pc = IF p.token = None THEN "auth" ELSE "submit"])
           \/ asks /\ ~stops /\ Set(w, Ended(p, None))
        /\ disordered' = (disordered \/ late)
        /\ UNCHANGED <<files, tokens, gh, clock, clashed, left>>

(* A stored payload never changes, so what was read when the share began   *)
(* is what the file holds.                                                 *)
Identified(f) == hardware_is_identifiable(sanitize_stored_payload(files[f].payload))

(* Only what identifies its hardware is submitted, under its file's name   *)
(* and with the current second.                                            *)
prepare_files(w) ==
    LET p == work[w]
        todo == {f \in p.snap : Identified(f)}
    IN  /\ p.pc = "submit"
        /\ \/ /\ todo = {}
              /\ ShareFailed(w)
              /\ UNCHANGED clock
           \/ /\ todo # {}
              /\ clock' \in {clock, clock + 1}
              /\ Set(w, [p EXCEPT !.todo = todo, !.n = Min(todo), !.pc = "fork",
                           !.branch = [slug |-> payload_slug(files[Min(todo)].payload),
                                       files |-> todo, now |-> clock']])
        /\ UNCHANGED <<files, tokens, gh, clashed, disordered, left>>

(* A request that gets no answer, whose effect on GitHub, if any, is       *)
(* the caller's to say.                                                    *)
NoAnswer(w) == Fault /\ ShareFailed(w)

ensure_fork(w) ==
    LET p == work[w]
    IN  /\ p.pc = "fork"
        /\ \/ /\ gh.fork = "ready" /\ Calm
              /\ Set(w, [p EXCEPT !.pc = "find"])
              /\ UNCHANGED gh
           \/ /\ gh.fork # "ready" /\ p.token = "weak" /\ Calm
              /\ ShareFailed(w)
              /\ UNCHANGED gh
           \/ /\ gh.fork # "ready" /\ p.token # "weak" /\ Calm
              /\ gh' = [gh EXCEPT !.fork = "forking"]
              /\ Set(w, [p EXCEPT !.pc = "poll"])
           \/ NoAnswer(w) /\ UNCHANGED gh
        /\ UNCHANGED <<files, tokens, clock, clashed, disordered>>

poll_fork(w) ==
    LET p == work[w]
    IN  /\ p.pc = "poll"
        /\ \/ /\ gh.fork = "ready"
              /\ Set(w, [p EXCEPT !.pc = "find", !.tries = 0])
           \/ /\ gh.fork # "ready" /\ p.tries < FORK_POLLS
              /\ Set(w, [p EXCEPT !.tries = @ + 1])
           \/ /\ gh.fork # "ready" /\ p.tries = FORK_POLLS
              /\ ShareFailed(w)
        /\ UNCHANGED <<files, tokens, gh, clock, clashed, disordered, left>>

OpenPrs == {i \in DOMAIN gh.prs : gh.prs[i].state = "open"}

(* The list is newest first; a failure to get it is as good as none. *)
find_open_bench_pr(w) ==
    LET p == work[w]
        fresh == [p EXCEPT !.pc = "head"]
    IN  /\ p.pc = "find"
        /\ \/ /\ Calm
              /\ Set(w, IF OpenPrs = {} THEN fresh
                        ELSE [p EXCEPT !.pc = "put", !.reused = TRUE,
                                       !.branch = gh.prs[Max(OpenPrs)].branch])
           \/ /\ Fault
              /\ Set(w, fresh)
        /\ UNCHANGED <<files, tokens, gh, clock, clashed, disordered>>

upstream_head_sha(w) ==
    LET p == work[w]
    IN  /\ p.pc = "head"
        /\ \/ Calm /\ Set(w, [p EXCEPT !.pc = "branch", !.base = gh.main])
           \/ NoAnswer(w)
        /\ UNCHANGED <<files, tokens, gh, clock, clashed, disordered>>

(* A branch of that name may exist: it is used as it is. *)
create_branch(w) ==
    LET p == work[w]
        exists == p.branch \in DOMAIN gh.branches
    IN  /\ p.pc = "branch"
        /\ \/ /\ p.token # "weak" /\ Calm
              /\ gh' = IF exists THEN gh
                       ELSE [gh EXCEPT !.branches = [b \in DOMAIN @ \cup {p.branch} |->
                                                   IF b = p.branch THEN p.base ELSE @[b]]]
              /\ clashed' = IF exists THEN clashed \cup p.todo ELSE clashed
              /\ Set(w, [p EXCEPT !.pc = "put"])
           \/ /\ p.token = "weak" /\ Calm
              /\ ShareFailed(w)
              /\ UNCHANGED <<gh, clashed>>
           \/ NoAnswer(w) /\ UNCHANGED <<gh, clashed>>
        /\ UNCHANGED <<files, tokens, clock, disordered>>

(* One file after the other; a file that is there is skipped.  Where       *)
(* nothing was new there is nothing to open a pull request for.            *)
put_files(w) ==
    LET p == work[w]
        new == p.n \notin gh.branches[p.branch]
        rest == {f \in p.todo : f > p.n}
        added == [gh EXCEPT !.branches[p.branch] = @ \cup {p.n}]
        sum == IF new THEN p.uploaded + 1 ELSE p.uploaded
    IN  /\ p.pc = "put"
        /\ \/ /\ p.token # "weak" /\ Calm
              /\ gh' = added
              /\ Set(w, IF rest # {} THEN [p EXCEPT !.n = Min(rest), !.uploaded = sum]
                        ELSE [p EXCEPT !.n = Min(p.snap), !.uploaded = sum,
                                !.pc = IF p.reused \/ sum = 0 THEN "mark" ELSE "open"])
           \/ /\ p.token = "weak" /\ Calm
              /\ ShareFailed(w)
              /\ UNCHANGED gh
           \/ NoAnswer(w) /\ gh' \in {gh, added}
        /\ UNCHANGED <<files, tokens, clock, clashed, disordered>>

(* Mutant: a pull request that could not be opened is only reported. *)
OpenSoftly(w) ==
    LET p == work[w]
    IN  /\ p.pc = "open"
        /\ \/ /\ Calm
              /\ gh' = [gh EXCEPT !.prs = Append(@, [branch |-> p.branch, state |-> "open"])]
           \/ Fault /\ UNCHANGED gh
        /\ Set(w, [p EXCEPT !.pc = "mark"])
        /\ UNCHANGED <<files, tokens, clock, clashed, disordered>>

(* GitHub refuses a second pull request for a branch, and one that would   *)
(* change nothing.                                                         *)
open_pr(w) ==
    LET p == work[w]
        opened == [gh EXCEPT !.prs = Append(@, [branch |-> p.branch, state |-> "open"])]
        refused == \/ \E i \in OpenPrs : gh.prs[i].branch = p.branch
                   \/ gh.branches[p.branch] \subseteq gh.main
    IN  /\ p.pc = "open"
        /\ \/ /\ ~refused /\ Calm
              /\ gh' = opened
              /\ Set(w, [p EXCEPT !.pc = "mark"])
           \/ /\ refused /\ Calm
              /\ ShareFailed(w)
              /\ UNCHANGED gh
           \/ /\ NoAnswer(w)
              /\ gh' \in {gh, IF refused THEN gh ELSE opened}
        /\ UNCHANGED <<files, tokens, clock, clashed, disordered>>

(* Mutant: the newest file is moved first. *)
MarkBackwards(w) ==
    LET p == work[w]
        f == Max(p.snap)
    IN  /\ p.pc = "mark" /\ Calm
        /\ files' = IF files[f].where = "pending" THEN [files EXCEPT ![f].where = "shared"] ELSE files
        /\ Set(w, IF p.snap # {f} THEN [p EXCEPT !.snap = @ \ {f}] ELSE Ended(p, "done"))
        /\ UNCHANGED <<tokens, gh, clock, clashed, disordered>>

(* Everything of the list is moved, oldest first, one rename after the     *)
(* other; one that fails is passed over.                                   *)
mark_shared(w) ==
    LET p == work[w]
        f == p.n
        rest == {i \in p.snap : i > f}
    IN  /\ p.pc = "mark"
        /\ \/ /\ Calm
              /\ files' = IF files[f].where = "pending" THEN [files EXCEPT ![f].where = "shared"]
                          ELSE files
              /\ UNCHANGED disordered
           \/ /\ Fault
              /\ disordered' = TRUE
              /\ UNCHANGED files
        /\ Set(w, IF rest # {} THEN [p EXCEPT !.n = Min(rest)] ELSE Ended(p, "done"))
        /\ UNCHANGED <<tokens, gh, clock, clashed>>

-----------------------------------------------------------------------------
(* What is not llmfit: GitHub, the maintainers, the end of a process.      *)
ForkReady ==
    /\ gh.fork = "forking"
    /\ gh' = [gh EXCEPT !.fork = "ready"]
    /\ UNCHANGED <<files, tokens, work, clock, clashed, disordered, left>>

Review(i, state) ==
    /\ left.reviews > 0 /\ i \in OpenPrs
    /\ left' = [left EXCEPT !.reviews = @ - 1]
    /\ gh' = [gh EXCEPT !.prs[i].state = state,
                        !.main = IF state = "merged" THEN @ \cup gh.branches[gh.prs[i].branch] ELSE @]
    /\ UNCHANGED <<files, tokens, work, clock, clashed, disordered>>

(* The command dies, or the TUI with all its threads.  A file that was     *)
(* being written stays torn.                                               *)
Dead(ws) ==
    /\ left.crashes > 0
    /\ left' = [left EXCEPT !.crashes = @ - 1]
    /\ work' = [w \in Workers |-> IF w \in ws THEN Idle ELSE work[w]]
    /\ files' = [i \in DOMAIN files |->
                   IF \E w \in ws : work[w].pc = "stored" /\ work[w].n = i
                   THEN [files[i] EXCEPT !.where = "torn"] ELSE files[i]]
    /\ UNCHANGED <<tokens, gh, clock, clashed, disordered>>

Crash(w) == work[w].pc # "idle" /\ ~work[w].ui /\ Dead({w})

-----------------------------------------------------------------------------
(* Properties.                                                             *)
Offered(f) ==
    \/ f \in gh.main \cup clashed
    \/ \E i \in DOMAIN gh.prs : f \in gh.branches[gh.prs[i].branch]

(* mark_shared moves what was submitted: a result in shared/ whose         *)
(* hardware is identified is in the repository or in the branch of a pull  *)
(* request, whatever failed, died or was shared twice; unless two          *)
(* submissions of the same second used one branch.                         *)
SharedIsOffered ==
    \A f \in DOMAIN files : files[f].where = "shared" /\ Identified(f) => Offered(f)

-----------------------------------------------------------------------------
WorkerStep(w) ==
    \/ preflight_auth(w)
    \/ device_flow(w)
    \/ discover(w)
    \/ measure(w)
    \/ store_local(w)
    \/ stored(w)
    \/ share_all_pending(w)
    \/ prepare_files(w)
    \/ ensure_fork(w)
    \/ poll_fork(w)
    \/ find_open_bench_pr(w)
    \/ upstream_head_sha(w)
    \/ create_branch(w)
    \/ put_files(w)
    \/ open_pr(w)
    \/ mark_shared(w)

=============================================================================
