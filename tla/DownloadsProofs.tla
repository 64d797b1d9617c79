-------------------------- MODULE DownloadsProofs --------------------------
(***************************************************************************)
(* A file under its final name is complete, and one runtime at most claims *)
(* the models on port 8000, for every set of machines, repositories and    *)
(* pulls: whichever of the three programs pull, however their threads      *)
(* interleave, fail or are stopped, and whichever servers go down.         *)
(***************************************************************************)
EXTENDS Downloads, TLAPS

(* A record of a thread, of which the proof needs pc, provider, files, at. *)
Fields == DOMAIN NoPull

IsPull(h) == h = [x \in Fields |-> h[x]]

(* The phases of a thread that works on a GGUF file. *)
OnFile == {"connect", "remove", "create", "write"}

(* What start_pull returns: a thread at its beginning. *)
IsHandle(h) ==
    /\ IsPull(h) /\ h.at = 1
    /\ h.pc \in {"stream", "command", "post", "connect"}
    /\ h.pc = "connect" => h.provider = "llamacpp"

PullShape(h) ==
    /\ IsPull(h) /\ h.at \in Nat
    /\ h.pc \in OnFile => h.provider = "llamacpp"

PullsOk ==
    /\ pulls = [p \in PullIds |-> pulls[p]]
    /\ \A p \in PullIds : PullShape(pulls[p])

DiskOk ==
    /\ part = [l \in Locals |-> part[l]]
    /\ final = [l \in Locals |-> final[l]]
    /\ written = [f \in DOMAIN written |-> written[f]]

(* A thread that writes l has its own file under l.part, unless another    *)
(* one had l in its hands meanwhile, and never more in it than l has.      *)
Mine(p) ==
    LET l == CurrentFile(p)
    IN  pulls[p].pc = "write" /\ l \in Locals =>
            /\ FileOf(p) \in DOMAIN written
            /\ written[FileOf(p)] \in Nat /\ written[FileOf(p)] <= SizeOfFile[l]
            /\ l \in touched \/ part[l] = FileOf(p)

(* What has the name l is a file that its thread is through with, so that  *)
(* nobody writes to it again, and it was complete.                         *)
Through(q, i) == pulls[q].pc # "free" /\ (i < pulls[q].at \/ pulls[q].pc = "ended")

Settled(l) ==
    final[l] # None /\ l \notin touched /\ l \notin Unsized =>
        \E q \in PullIds, i \in Nat :
            /\ final[l] = <<q, i>> /\ Through(q, i)
            /\ <<q, i>> \in DOMAIN written /\ written[<<q, i>>] = SizeOfFile[l]

DiskInv ==
    /\ PullsOk /\ DiskOk
    /\ \A p \in PullIds : Mine(p)
    /\ \A l \in Locals : Settled(l)

-----------------------------------------------------------------------------
(* What a step does to thread q that neither begins nor goes on writing:   *)
(* nothing, or it starts or moves it, and a file it is through with stays  *)
(* behind.                                                                 *)
Moves(q) ==
    \/ pulls'[q] = pulls[q]
    \/ /\ pulls'[q].pc \notin {"free", "write"}
       /\ pulls[q].pc = "free" \/ pulls'[q].at = pulls[q].at \/ pulls'[q].at = pulls[q].at + 1
       /\ pulls[q].pc = "ended" => pulls'[q].pc = "ended"

AllMove == PullsOk' /\ \A q \in PullIds : Moves(q)

(* A step takes .part from a thread that writes only if it says so. *)
PartsKept ==
    /\ touched \subseteq touched'
    /\ part' = [l \in Locals |-> part'[l]]
    /\ \A q \in PullIds :
          pulls'[q] = pulls[q] /\ pulls[q].pc = "write" /\ CurrentFile(q) \in Locals =>
              part'[CurrentFile(q)] = part[CurrentFile(q)] \/ CurrentFile(q) \in touched'

-----------------------------------------------------------------------------
(* The fields of a thread that the proofs set or read. *)
LEMMA FieldNames == {"pc", "client", "provider", "tag", "url", "repo", "files", "at", "budget",
                     "empties", "sent"} = Fields
BY DEF Fields, NoPull

(* Handle makes a thread with the fields it is given. *)
LEMMA HandleFields ==
    ASSUME NEW a, NEW b, NEW c, NEW d, NEW e
    PROVE  /\ IsPull(Handle(a, b, c, d, e))
           /\ Handle(a, b, c, d, e).pc = d
           /\ Handle(a, b, c, d, e).provider = a
           /\ Handle(a, b, c, d, e).at = 1
<1>1. IsPull(Handle(a, b, c, d, e))
  BY DEF Handle, NoPull, IsPull, Fields
<1>2. QED
  BY <1>1 DEF Handle, NoPull

(* Every start_pull returns None or a thread at its beginning: MLX, which  *)
(* runs a command. *)
LEMMA MlxHandles ==
    ASSUME NEW repo, MlxPull(repo) # None
    PROVE  IsHandle(MlxPull(repo))
BY HandleFields DEF MlxPull, IsHandle

(* Ollama never refuses. *)
LEMMA OllamaHandles ==
    ASSUME NEW tag, NEW url
    PROVE  IsHandle(start_pull_ollama(tag, url))
BY HandleFields DEF start_pull_ollama, IsHandle

(* Docker never refuses. *)
LEMMA DockerHandles ==
    ASSUME NEW tag
    PROVE  IsHandle(start_pull_docker(tag))
BY HandleFields DEF start_pull_docker, IsHandle

(* LM Studio refuses a model without a repository. *)
LEMMA LmStudioHandles ==
    ASSUME NEW tag, NEW repo, LmStudioPull(tag, repo) # None
    PROVE  IsHandle(LmStudioPull(tag, repo))
<1>1. ASSUME NEW h, IsHandle(h), NEW b
      PROVE  IsHandle([h EXCEPT !.repo = repo, !.budget = b])
  BY <1>1, FieldNames DEF IsHandle, IsPull
<1>2. IsHandle(Handle("lmstudio", tag, LmStudioProvider(world), "post", <<>>))
  BY HandleFields DEF IsHandle
<1>3. QED
  BY <1>1, <1>2 DEF LmStudioPull, LmStudioHandle

(* Only llama.cpp starts with a connection of its own. *)
LEMMA GgufHandles ==
    ASSUME NEW repo, NEW files, download_gguf_paths(repo, files) # None
    PROVE  IsHandle(download_gguf_paths(repo, files))
BY HandleFields DEF download_gguf_paths, IsHandle

(* So does the TUI's choice of a runtime. *)
LEMMA TuiHandles ==
    ASSUME NEW row, NEW provider, start_download_with_provider(row, provider) # None
    PROVE  IsHandle(start_download_with_provider(row, provider))
BY MlxHandles, OllamaHandles, DockerHandles, LmStudioHandles, GgufHandles
   DEF start_download_with_provider, start_ollama_download, start_mlx_download,
       start_llamacpp_download_for_model, start_docker_mr_download, start_lmstudio_download,
       start_vllm_download, start_pull_mlx, start_pull_gguf, start_pull_vllm, LmStudioPullOf

(* The API calls the same start_pull functions. *)
LEMMA ApiHandles ==
    ASSUME NEW job, ApiHandle(job) # None
    PROVE  IsHandle(ApiHandle(job))
BY MlxHandles, OllamaHandles, DockerHandles, LmStudioHandles, GgufHandles
   DEF ApiHandle, start_pull_mlx, start_pull_gguf, start_pull_lmstudio

-----------------------------------------------------------------------------
(* A thread is set to another phase, and other threads stay as they are. *)
LEMMA ThreadMoves ==
    ASSUME PullsOk, NEW p \in PullIds, NEW h, PullShape(h),
           pulls' = [pulls EXCEPT ![p] = h],
           h.pc \notin {"free", "write"},
           pulls[p].pc = "free" \/ h.at = pulls[p].at \/ h.at = pulls[p].at + 1,
           pulls[p].pc # "ended"
    PROVE  AllMove
BY DEF PullsOk, AllMove, Moves

(* EndsAs ends a thread that was live. *)
LEMMA ThreadEnds ==
    ASSUME PullsOk, NEW p \in PullIds, NEW result, pulls[p].pc \notin {"free", "ended"},
           pulls' = EndsAs(p, result)
    PROVE  AllMove
<1> DEFINE h == [pulls[p] EXCEPT !.pc = "ended", !.sent = result]
<1>1. PullShape(pulls[p])
  BY DEF PullsOk
<1>2. PullShape(h) /\ h.pc = "ended" /\ h.at = pulls[p].at
  BY <1>1, FieldNames DEF PullShape, IsPull, OnFile
<1>3. pulls' = [pulls EXCEPT ![p] = h]
  BY DEF EndsAs, PullsOk
<1> HIDE DEF h
<1>4. QED
  BY <1>2, <1>3, ThreadMoves

(* A thread goes to a phase where it does not write. *)
LEMMA ThreadGoes ==
    ASSUME PullsOk, NEW p \in PullIds, NEW pc, pulls[p].pc \notin {"free", "ended"},
           pc \notin {"free", "write"},
           pc \in OnFile => pulls[p].pc \in OnFile,
           pulls' = [pulls EXCEPT ![p].pc = pc]
    PROVE  AllMove
<1> DEFINE h == [pulls[p] EXCEPT !.pc = pc]
<1>1. PullShape(pulls[p])
  BY DEF PullsOk
<1>2. PullShape(h) /\ h.pc = pc /\ h.at = pulls[p].at
  BY <1>1, FieldNames DEF PullShape, IsPull, OnFile
<1>3. pulls' = [pulls EXCEPT ![p] = h]
  BY DEF PullsOk
<1> HIDE DEF h
<1>4. QED
  BY <1>2, <1>3, ThreadMoves

(* A free thread is spawned with what start_pull returned. *)
LEMMA ThreadSpawns ==
    ASSUME PullsOk, NEW p, NEW client, NEW h, IsHandle(h), SpawnAs(p, client, h)
    PROVE  AllMove
<1> DEFINE g == [h EXCEPT !.client = client]
<1>1. PullShape(g) /\ g.pc \notin {"free", "write"}
  BY FieldNames DEF IsHandle, PullShape, IsPull, OnFile
<1>2. pulls' = [pulls EXCEPT ![p] = g] /\ pulls[p].pc = "free"
  BY DEF SpawnAs
<1> HIDE DEF g
<1>3. CASE p \in PullIds
  BY <1>1, <1>2, <1>3, ThreadMoves
<1>4. CASE p \notin PullIds
  BY <1>2, <1>4 DEF PullsOk, AllMove, Moves
<1>5. QED
  BY <1>3, <1>4

(* The end of a process ends its threads. *)
LEMMA ThreadsStop ==
    ASSUME PullsOk, NEW client, StopPulls(client)
    PROVE  AllMove
<1>1. ASSUME NEW q \in PullIds
      PROVE  Moves(q) /\ PullShape(pulls'[q])
  <2> DEFINE h == [pulls[q] EXCEPT !.pc = "ended"]
  <2>1. PullShape(pulls[q])
    BY DEF PullsOk
  <2>2. PullShape(h) /\ h.pc = "ended" /\ h.at = pulls[q].at
    BY <2>1, FieldNames DEF PullShape, IsPull, OnFile
  <2>3. pulls'[q] = pulls[q] \/ pulls'[q] = h
    BY DEF StopPulls
  <2> HIDE DEF h
  <2>4. QED
    BY <2>1, <2>2, <2>3 DEF Moves
<1>2. QED
  BY <1>1 DEF AllMove, PullsOk, StopPulls

(* A poll of LM Studio counts, and goes on, changes over or ends. *)
LEMMA ThreadPolls ==
    ASSUME PullsOk, NEW p \in PullIds,
           poll_lmstudio_download_status(p) \/ poll_lmstudio_installed_models(p)
    PROVE  AllMove
<1>1. PullShape(pulls[p]) /\ pulls[p].pc \in {"status", "listing"}
  BY DEF PullsOk, poll_lmstudio_download_status, poll_lmstudio_installed_models
<1>2. CASE \E result : pulls' = EndsAs(p, result)
  BY <1>1, <1>2, ThreadEnds
<1> DEFINE g == [pulls[p] EXCEPT !.budget = pulls[p].budget - 1]
<1> DEFINE polled == [pulls EXCEPT ![p].budget = pulls[p].budget - 1]
<1>3. ASSUME NEW x, pulls' = [pulls EXCEPT ![p] = x], PullShape(x), x.at = pulls[p].at,
             x.pc \in {"status", "listing", "ended"}
      PROVE  AllMove
  BY <1>1, <1>3, ThreadMoves
<1>4. PullShape(g) /\ g.pc = pulls[p].pc /\ g.at = pulls[p].at
  BY <1>1, FieldNames DEF PullShape, IsPull, OnFile
<1>5. polled = [pulls EXCEPT ![p] = g]
  BY DEF PullsOk
<1>6. ASSUME NEW r, NEW e
      PROVE  /\ [polled EXCEPT ![p].pc = "listing"] = [pulls EXCEPT ![p] = [g EXCEPT !.pc = "listing"]]
             /\ [polled EXCEPT ![p].pc = "ended", ![p].sent = r]
                   = [pulls EXCEPT ![p] = [g EXCEPT !.pc = "ended", !.sent = r]]
             /\ [polled EXCEPT ![p].empties = e] = [pulls EXCEPT ![p] = [g EXCEPT !.empties = e]]
  <2> HIDE DEF g
  <2> QED
    BY <1>5 DEF PullsOk
<1>7. CASE poll_lmstudio_installed_models(p)
  <2>1. pulls' = EndsAs(p, "Error") \/ pulls' = EndsAs(p, "Done") \/ pulls' = polled
    BY <1>7 DEF poll_lmstudio_installed_models
  <2> HIDE DEF g
  <2>2. QED
    BY <1>1, <1>2, <1>3, <1>4, <1>5, <2>1
<1>8. CASE poll_lmstudio_download_status(p)
  <2>1. ASSUME pulls' # EndsAs(p, "Error")
        PROVE  \/ pulls' = [polled EXCEPT ![p].pc = "listing"]
               \/ \E r : pulls' = [polled EXCEPT ![p].pc = "ended", ![p].sent = r]
               \/ \E e : pulls' = [polled EXCEPT ![p].empties = e]
    <3>1. CASE pulls' = [polled EXCEPT ![p].pc = "listing"]
      BY <3>1
    <3>2. CASE \E status \in {"", "completed", "failed", "downloading"} :
                  LET empties == IF status = "" THEN pulls[p].empties + 1 ELSE 0
                      end == lmstudio_download_terminal_status(status)
                  IN  pulls' = IF lmstudio_empty_status_limit_reached(empties)
                                   THEN [polled EXCEPT ![p].pc = "listing"]
                               ELSE IF end # None
                                   THEN [polled EXCEPT ![p].pc = "ended", ![p].sent = end]
                               ELSE [polled EXCEPT ![p].empties = empties]
      BY <3>2
    <3>3. QED
      BY <1>8, <2>1, <3>1, <3>2 DEF poll_lmstudio_download_status
  <2> HIDE DEF g, polled
  <2>2. CASE pulls' = [polled EXCEPT ![p].pc = "listing"]
    <3> DEFINE x == [g EXCEPT !.pc = "listing"]
    <3>1. PullShape(x) /\ x.pc = "listing" /\ x.at = pulls[p].at
      BY <1>1, <1>4, FieldNames DEF PullShape, IsPull, OnFile
    <3>2. pulls' = [pulls EXCEPT ![p] = x]
      BY <1>6, <2>2
    <3> HIDE DEF x
    <3>3. QED
      BY <1>3, <3>1, <3>2
  <2>3. CASE \E r : pulls' = [polled EXCEPT ![p].pc = "ended", ![p].sent = r]
    <3>1. PICK r : pulls' = [polled EXCEPT ![p].pc = "ended", ![p].sent = r]
      BY <2>3
    <3> DEFINE x == [g EXCEPT !.pc = "ended", !.sent = r]
    <3>2. PullShape(x) /\ x.pc = "ended" /\ x.at = pulls[p].at
      BY <1>1, <1>4, FieldNames DEF PullShape, IsPull, OnFile
    <3>3. pulls' = [pulls EXCEPT ![p] = x]
      BY <1>6, <3>1
    <3> HIDE DEF x
    <3>4. QED
      BY <1>3, <3>2, <3>3
  <2>4. CASE \E e : pulls' = [polled EXCEPT ![p].empties = e]
    <3>1. PICK e : pulls' = [polled EXCEPT ![p].empties = e]
      BY <2>4
    <3> DEFINE x == [g EXCEPT !.empties = e]
    <3>2. PullShape(x) /\ x.pc = pulls[p].pc /\ x.at = pulls[p].at
      BY <1>1, <1>4, FieldNames DEF PullShape, IsPull, OnFile
    <3>3. pulls' = [pulls EXCEPT ![p] = x]
      BY <1>6, <3>1
    <3> HIDE DEF x
    <3>4. QED
      BY <1>1, <1>3, <3>2, <3>3
  <2>5. QED
    BY <1>2, <2>1, <2>2, <2>3, <2>4
<1>9. QED
  BY <1>7, <1>8

-----------------------------------------------------------------------------
(* A thread keeps its own .part while nobody takes it away. *)
LEMMA MineStays ==
    ASSUME DiskInv, NEW q \in PullIds, touched \subseteq touched',
           pulls'[q] = pulls[q] \/ pulls'[q].pc # "write",
           pulls'[q] = pulls[q] /\ pulls[q].pc = "write" /\ CurrentFile(q) \in Locals =>
               part'[CurrentFile(q)] = part[CurrentFile(q)] \/ CurrentFile(q) \in touched',
           FileOf(q) \in DOMAIN written =>
               FileOf(q) \in DOMAIN written' /\ written'[FileOf(q)] = written[FileOf(q)]
    PROVE  Mine(q)'
<1>1. Mine(q)
  BY DEF DiskInv
<1>2. CASE pulls'[q] = pulls[q]
  <2>1. CurrentFile(q)' = CurrentFile(q) /\ FileOf(q)' = FileOf(q)
    BY <1>2 DEF CurrentFile, FileOf
  <2>2. QED
    BY <1>1, <1>2, <2>1 DEF Mine
<1>3. CASE pulls'[q].pc # "write"
  BY <1>3 DEF Mine
<1>4. QED
  BY <1>2, <1>3

(* A file that was settled stays so while its name is not given away. *)
LEMMA SettledStays ==
    ASSUME DiskInv, AllMove, NEW l \in Locals, touched \subseteq touched',
           final'[l] = final[l] \/ final'[l] = None,
           \A q \in PullIds, i \in Nat :
               Through(q, i) /\ <<q, i>> \in DOMAIN written =>
                   <<q, i>> \in DOMAIN written' /\ written'[<<q, i>>] = written[<<q, i>>]
    PROVE  Settled(l)'
<1>1. SUFFICES ASSUME final'[l] # None, l \notin touched', l \notin Unsized
               PROVE  \E q \in PullIds, i \in Nat :
                         /\ final'[l] = <<q, i>> /\ Through(q, i)'
                         /\ <<q, i>> \in DOMAIN written' /\ written'[<<q, i>>] = SizeOfFile[l]
  BY DEF Settled
<1>2. PICK q \in PullIds, i \in Nat :
         /\ final[l] = <<q, i>> /\ Through(q, i)
         /\ <<q, i>> \in DOMAIN written /\ written[<<q, i>>] = SizeOfFile[l]
  BY <1>1 DEF DiskInv, Settled
<1>3. Through(q, i)'
  <2>1. pulls[q].at \in Nat /\ pulls'[q].at \in Nat
    BY DEF AllMove, DiskInv, PullsOk, PullShape
  <2>2. QED
    BY <1>2, <2>1 DEF Through, AllMove, Moves
<1>4. QED
  BY <1>1, <1>2, <1>3

(* Nothing is settled or lost by a step that only moves threads. *)
LEMMA QuietKeeps ==
    ASSUME DiskInv, AllMove, PartsKept, UNCHANGED <<final, written>>
    PROVE  DiskInv'
<1>1. PullsOk' /\ DiskOk'
  BY DEF AllMove, PartsKept, DiskInv, DiskOk
<1>2. ASSUME NEW q \in PullIds
      PROVE  Mine(q)'
  BY MineStays DEF AllMove, Moves, PartsKept
<1>3. ASSUME NEW l \in Locals
      PROVE  Settled(l)'
  BY SettledStays DEF PartsKept
<1>4. QED
  BY <1>1, <1>2, <1>3 DEF DiskInv

(* Nor by one that leaves the directory alone. *)
LEMMA ElsewhereKeeps ==
    ASSUME DiskInv, AllMove, UNCHANGED diskVars
    PROVE  DiskInv'
<1>1. PartsKept
  BY DEF PartsKept, diskVars, DiskInv, DiskOk
<1>2. QED
  BY <1>1, QuietKeeps DEF diskVars

-----------------------------------------------------------------------------
(* Whoever takes .part away from a thread that writes touches the file.    *)
LEMMA TouchKeepsParts ==
    ASSUME DiskInv, NEW p \in PullIds, pulls[p].pc \in OnFile, Touch(p), NEW f,
           part' = part \/ part' = [part EXCEPT ![CurrentFile(p)] = f],
           pulls'[p] # pulls[p]
    PROVE  PartsKept
<1>1. touched \subseteq touched'
  BY DEF Touch
<1>2. part' = [l \in Locals |-> part'[l]]
  BY DEF DiskInv, DiskOk
<1>3. ASSUME NEW q \in PullIds, pulls'[q] = pulls[q], pulls[q].pc = "write",
             CurrentFile(q) \in Locals
      PROVE  part'[CurrentFile(q)] = part[CurrentFile(q)] \/ CurrentFile(q) \in touched'
  <2>1. CASE CurrentFile(q) # CurrentFile(p)
    BY <1>3, <2>1 DEF DiskInv, DiskOk
  <2>2. CASE CurrentFile(q) = CurrentFile(p)
    <3>1. q \in PullIds \ {p} /\ Live(q) /\ pulls[q].provider = "llamacpp" /\ pulls[q].pc # "connect"
      BY <1>3 DEF Live, DiskInv, PullsOk, PullShape, OnFile
    <3>2. OthersOn(p, CurrentFile(p))
      BY <2>2, <3>1 DEF OthersOn
    <3>3. QED
      BY <2>2, <3>2 DEF Touch
  <2>3. QED
    BY <2>1, <2>2
<1>4. QED
  BY <1>1, <1>2, <1>3 DEF PartsKept

(* The directory at each step of a thread that downloads GGUF files: a     *)
(* connection leaves it alone. *)
LEMMA ConnectKeeps ==
    ASSUME DiskInv, NEW p \in PullIds, Connect(p)
    PROVE  DiskInv'
<1>1. AllMove
  BY ThreadEnds, ThreadGoes DEF Connect, DiskInv, OnFile
<1>2. QED
  BY <1>1, ElsewhereKeeps DEF Connect, diskVars

(* Removing .part may take it from a thread that writes, and touches it. *)
LEMMA RemoveOldKeeps ==
    ASSUME DiskInv, NEW p \in PullIds, RemoveOld(p)
    PROVE  DiskInv'
<1>1. AllMove
  <2>1. PullsOk /\ pulls[p].pc = "remove" /\ pulls' = [pulls EXCEPT ![p].pc = "create"]
    BY DEF RemoveOld, DiskInv
  <2>2. "create" \notin {"free", "write"} /\ {"create", "remove"} \subseteq OnFile
    BY DEF OnFile
  <2>3. QED
    BY <2>1, <2>2, ThreadGoes
<1>2. pulls'[p] # pulls[p]
  BY FieldNames DEF RemoveOld, DiskInv, PullsOk, PullShape, IsPull
<1>3. PartsKept
  BY <1>2, TouchKeepsParts DEF RemoveOld, OnFile
<1>4. QED
  BY <1>1, <1>3, QuietKeeps DEF RemoveOld

(* EndsAs changes a thread that was live. *)
LEMMA EndsChanges ==
    ASSUME PullsOk, NEW p \in PullIds, NEW result, pulls[p].pc # "ended", pulls' = EndsAs(p, result)
    PROVE  pulls'[p] # pulls[p]
<1>1. pulls'[p].pc = "ended"
  BY FieldNames DEF EndsAs, PullsOk, PullShape, IsPull
<1>2. QED
  BY <1>1

(* So may a transfer that fails. *)
LEMMA TransferFailsKeeps ==
    ASSUME DiskInv, NEW p \in PullIds, TransferFails(p)
    PROVE  DiskInv'
<1>1. AllMove
  BY ThreadEnds DEF TransferFails, DiskInv
<1>2. pulls'[p] # pulls[p]
  BY EndsChanges DEF TransferFails, DiskInv
<1>3. PartsKept
  BY <1>2, TouchKeepsParts DEF TransferFails, OnFile
<1>4. QED
  BY <1>1, <1>3, QuietKeeps DEF TransferFails

(* A new file is nobody else's: what is settled was left behind. *)
LEMMA CreateNewKeeps ==
    ASSUME DiskInv, NEW p \in PullIds, CreateNew(p)
    PROVE  DiskInv'
<1> DEFINE l == CurrentFile(p)
<1>1. CASE pulls' = EndsAs(p, "Error") /\ UNCHANGED <<part, written>>
  <2>1. AllMove
    BY <1>1, ThreadEnds DEF CreateNew, DiskInv
  <2>2. pulls'[p] # pulls[p]
    BY <1>1, EndsChanges DEF CreateNew, DiskInv
  <2>3. PartsKept
    BY <1>1, <2>2, TouchKeepsParts DEF CreateNew, OnFile
  <2>4. QED
    BY <1>1, <2>1, <2>3, QuietKeeps DEF CreateNew
<1>2. CASE /\ part' = [part EXCEPT ![l] = FileOf(p)]
           /\ written' = [f \in DOMAIN written \cup {FileOf(p)} |->
                             IF f = FileOf(p) THEN 0 ELSE written[f]]
           /\ pulls' = [pulls EXCEPT ![p].pc = "write"]
  <2>1. /\ PullShape(pulls[p]) /\ pulls[p].pc = "create"
        /\ final' = final /\ Touch(p)
    BY DEF CreateNew, DiskInv, PullsOk
  <2>2. /\ PullShape(pulls'[p]) /\ pulls'[p].pc = "write"
        /\ pulls'[p].at = pulls[p].at /\ pulls'[p].files = pulls[p].files
        /\ \A q \in PullIds \ {p} : pulls'[q] = pulls[q]
    <3> DEFINE h == [pulls[p] EXCEPT !.pc = "write"]
    <3>1. PullShape(h) /\ h.pc = "write" /\ h.at = pulls[p].at /\ h.files = pulls[p].files
      BY <2>1, FieldNames DEF PullShape, IsPull, OnFile
    <3>2. pulls' = [pulls EXCEPT ![p] = h] /\ pulls = [q \in PullIds |-> pulls[q]]
      BY <1>2 DEF DiskInv, PullsOk
    <3> HIDE DEF h
    <3>3. QED
      BY <3>1, <3>2
  <2>3. PullsOk'
    BY <1>2, <2>2 DEF DiskInv, PullsOk
  <2>4. PartsKept
    BY <1>2, <2>1, <2>2, TouchKeepsParts DEF OnFile
  <2>5. DiskOk'
    BY <1>2, <2>1 DEF DiskInv, DiskOk
  <2>6. FileOf(p)' = FileOf(p) /\ CurrentFile(p)' = l
    BY <2>2 DEF FileOf, CurrentFile
  <2>7. ASSUME NEW q \in PullIds
        PROVE  Mine(q)'
    <3>1. CASE q = p
      <4>1. l \in Locals => SizeOfFile[l] \in Nat
        BY PullsAssumption
      <4>2. l \in Locals => part'[l] = FileOf(p)
        BY <1>2 DEF DiskInv, DiskOk
      <4>3. QED
        BY <1>2, <2>6, <3>1, <4>1, <4>2 DEF Mine
    <3>2. CASE q # p
      <4>1. FileOf(q) # FileOf(p)
        BY <3>2 DEF FileOf
      <4>2. QED
        BY <1>2, <2>2, <2>4, <3>2, <4>1, MineStays DEF PartsKept
    <3>3. QED
      BY <3>1, <3>2
  <2>8. ASSUME NEW m \in Locals
        PROVE  Settled(m)'
    <3>1. SUFFICES ASSUME final'[m] # None, m \notin touched', m \notin Unsized
                   PROVE  \E q \in PullIds, i \in Nat :
                             /\ final'[m] = <<q, i>> /\ Through(q, i)'
                             /\ <<q, i>> \in DOMAIN written' /\ written'[<<q, i>>] = SizeOfFile[m]
      BY DEF Settled
    <3>2. PICK q \in PullIds, i \in Nat :
             /\ final[m] = <<q, i>> /\ Through(q, i)
             /\ <<q, i>> \in DOMAIN written /\ written[<<q, i>>] = SizeOfFile[m]
      BY <2>1, <2>4, <3>1 DEF DiskInv, Settled, PartsKept
    <3>3. Through(q, i)'
      BY <2>1, <2>2, <3>2 DEF Through
    <3>4. <<q, i>> # FileOf(p)
      BY <2>1, <3>2 DEF Through, FileOf, PullShape
    <3>5. QED
      BY <1>2, <2>1, <3>2, <3>3, <3>4
  <2>9. QED
    BY <2>3, <2>5, <2>7, <2>8 DEF DiskInv
<1>3. QED
  BY <1>1, <1>2 DEF CreateNew

(* Only the thread that created a file writes to it, up to its length. *)
LEMMA WriteMoreKeeps ==
    ASSUME DiskInv, NEW p \in PullIds, WriteMore(p)
    PROVE  DiskInv'
<1> DEFINE l == CurrentFile(p)
<1>1. /\ pulls[p].pc = "write" /\ written[FileOf(p)] < SizeOfFile[l]
      /\ written' = [written EXCEPT ![FileOf(p)] = @ + 1]
      /\ part' = part /\ final' = final /\ pulls' = pulls /\ touched' = touched
  BY DEF WriteMore
<1>2. PullsOk' /\ DiskOk'
  BY <1>1 DEF DiskInv, PullsOk, DiskOk
<1>3. ASSUME NEW q \in PullIds
      PROVE  Mine(q)'
  <2>1. /\ Mine(q) /\ CurrentFile(q)' = CurrentFile(q) /\ FileOf(q)' = FileOf(q)
    BY <1>1 DEF DiskInv, CurrentFile, FileOf
  <2>2. CASE q = p
    <3>1. l \in Locals => SizeOfFile[l] \in Nat
      BY PullsAssumption
    <3>2. QED
      BY <1>1, <2>1, <2>2, <3>1 DEF Mine, DiskInv, DiskOk
  <2>3. CASE q # p
    <3>1. FileOf(q) # FileOf(p)
      BY <2>3 DEF FileOf
    <3>2. QED
      BY <1>1, <2>1, <3>1 DEF Mine, DiskInv, DiskOk
  <2>4. QED
    BY <2>2, <2>3
<1>4. ASSUME NEW m \in Locals
      PROVE  Settled(m)'
  <2>1. AllMove
    BY <1>1, <1>2 DEF AllMove, Moves
  <2>2. ASSUME NEW q \in PullIds, NEW i \in Nat, Through(q, i), <<q, i>> \in DOMAIN written
        PROVE  <<q, i>> \in DOMAIN written' /\ written'[<<q, i>>] = written[<<q, i>>]
    <3>1. <<q, i>> # FileOf(p)
      BY <1>1, <2>2 DEF Through, FileOf, DiskInv, PullsOk, PullShape
    <3>2. QED
      BY <1>1, <2>2, <3>1 DEF DiskInv, DiskOk
  <2>3. QED
    BY <1>1, <2>1, <2>2, SettledStays
<1>5. QED
  BY <1>2, <1>3, <1>4 DEF DiskInv

(* NextFile leaves the file behind. *)
LEMMA NextFileMoves ==
    ASSUME DiskInv, NEW p \in PullIds, NEW i \in Nat, pulls[p].pc = "write", pulls[p].at = i,
           pulls' = NextFile(p)
    PROVE  AllMove /\ Through(p, i)' /\ pulls'[p] # pulls[p]
<1>1. PullsOk /\ PullShape(pulls[p]) /\ pulls = [q \in PullIds |-> pulls[q]]
  BY DEF DiskInv, PullsOk
<1>2. CASE pulls' = EndsAs(p, "Done")
  <2>1. AllMove
    BY <1>1, <1>2, ThreadEnds
  <2>2. pulls'[p].pc = "ended"
    BY <1>1, <1>2, FieldNames DEF EndsAs, PullShape, IsPull
  <2>3. QED
    BY <2>1, <2>2 DEF Through
<1>3. CASE pulls' = [pulls EXCEPT ![p].pc = "connect", ![p].at = @ + 1]
  <2> DEFINE h == [pulls[p] EXCEPT !.pc = "connect", !.at = @ + 1]
  <2>1. PullShape(h) /\ h.pc = "connect" /\ h.at = pulls[p].at + 1
    <3>1. IsPull(pulls[p]) /\ pulls[p].provider = "llamacpp" /\ pulls[p].at \in Nat
      BY <1>1 DEF PullShape, OnFile
    <3>2. IsPull(h) /\ h.pc = "connect" /\ h.at = pulls[p].at + 1 /\ h.provider = "llamacpp"
      BY <3>1, FieldNames DEF IsPull
    <3>3. QED
      BY <3>1, <3>2 DEF PullShape
  <2>2. pulls' = [pulls EXCEPT ![p] = h]
    BY <1>1, <1>3
  <2> HIDE DEF h
  <2>3. AllMove
    BY <1>1, <2>1, <2>2, ThreadMoves
  <2>4. pulls'[p] = h
    BY <1>1, <2>2
  <2>5. QED
    BY <1>1, <2>1, <2>3, <2>4 DEF Through, PullShape
<1>4. QED
  BY <1>2, <1>3 DEF NextFile

(* What is renamed is the own file, and complete, or the file was touched. *)
LEMMA FinishFileKeeps ==
    ASSUME DiskInv, NEW p \in PullIds, FinishFile(p)
    PROVE  DiskInv'
<1> DEFINE l == CurrentFile(p)
<1>1. CASE pulls' = EndsAs(p, "Error") /\ final' = final
  <2>1. AllMove
    BY <1>1, ThreadEnds DEF FinishFile, DiskInv
  <2>2. pulls'[p] # pulls[p]
    BY <1>1, EndsChanges DEF FinishFile, DiskInv
  <2>3. PartsKept
    BY <2>2, TouchKeepsParts DEF FinishFile, OnFile
  <2>4. QED
    BY <1>1, <2>1, <2>3, QuietKeeps DEF FinishFile
<1>2. CASE /\ ~Truncated(p) /\ part[l] # None
           /\ pulls' = NextFile(p) /\ final' = [final EXCEPT ![l] = part[l]]
  <2>1. pulls[p].pc = "write" /\ Touch(p) /\ written' = written
    BY DEF FinishFile
  <2> PICK i \in Nat : pulls[p].at = i
    BY DEF DiskInv, PullsOk, PullShape
  <2>2. AllMove /\ Through(p, i)' /\ pulls'[p] # pulls[p]
    BY <1>2, <2>1, NextFileMoves
  <2>3. PartsKept
    BY <2>1, <2>2, TouchKeepsParts DEF FinishFile, OnFile
  <2>4. PullsOk' /\ DiskOk'
    BY <1>2, <2>1, <2>2, <2>3 DEF AllMove, PartsKept, DiskInv, DiskOk
  <2>5. ASSUME NEW q \in PullIds
        PROVE  Mine(q)'
    BY <2>1, <2>2, <2>3, MineStays DEF AllMove, Moves, PartsKept
  <2>6. ASSUME NEW m \in Locals
        PROVE  Settled(m)'
    <3>1. CASE m # l
      <4>1. final'[m] = final[m]
        BY <1>2, <3>1 DEF DiskInv, DiskOk
      <4>2. QED
        BY <2>1, <2>2, <2>3, <4>1, SettledStays DEF PartsKept
    <3>2. CASE m = l
      <4>1. ASSUME l \notin touched', l \notin Unsized
            PROVE  /\ final'[l] = <<p, i>> /\ <<p, i>> \in DOMAIN written'
                   /\ written'[<<p, i>>] = SizeOfFile[l]
        <5>1. l \notin touched
          BY <2>3, <4>1 DEF PartsKept
        <5>2. /\ part[l] = FileOf(p) /\ FileOf(p) \in DOMAIN written
              /\ written[FileOf(p)] \in Nat /\ written[FileOf(p)] <= SizeOfFile[l]
          BY <2>1, <3>2, <5>1 DEF DiskInv, Mine
        <5>3. ~(written[FileOf(p)] < SizeOfFile[l])
          BY <1>2, <4>1 DEF Truncated
        <5>4. SizeOfFile[l] \in Nat
          BY <3>2, PullsAssumption
        <5>5. final'[l] = FileOf(p)
          BY <1>2, <3>2, <5>2 DEF DiskInv, DiskOk
        <5>6. QED
          BY <2>1, <5>2, <5>3, <5>4, <5>5 DEF FileOf
      <4>2. QED
        BY <2>2, <3>2, <4>1 DEF Settled
    <3>3. QED
      BY <3>1, <3>2
  <2>7. QED
    BY <2>4, <2>5, <2>6 DEF DiskInv
<1>3. QED
  BY <1>1, <1>2 DEF FinishFile

-----------------------------------------------------------------------------
(* At first there is no file and no thread. *)
LEMMA InitDisk == Init => DiskInv
<1> SUFFICES ASSUME Init
             PROVE  DiskInv
  OBVIOUS
<1>1. PICK w, most : PullsInit(w, most)
  BY DEF Init
<1>2. PullShape(NoPull) /\ NoPull.pc = "free" /\ NoPull.at = 1
  BY DEF PullShape, IsPull, Fields, NoPull, OnFile
<1>3. PullShape([NoPull EXCEPT !.pc = "ended"]) /\ [NoPull EXCEPT !.pc = "ended"].pc = "ended"
  BY <1>2, FieldNames DEF PullShape, IsPull, OnFile
<1>4. \A p \in PullIds : PullShape(pulls[p]) /\ pulls[p].pc # "write"
  BY <1>1, <1>2, <1>3 DEF PullsInit
<1>5. PullsOk
  BY <1>1, <1>4 DEF PullsInit, PullsOk
<1>6. DiskOk /\ \A l \in Locals : final[l] = None
  BY <1>1 DEF PullsInit, DiskOk
<1>7. QED
  BY <1>4, <1>5, <1>6 DEF DiskInv, Mine, Settled

(* Each step of a thread that pulls. *)
LEMMA WorkerKeeps ==
    ASSUME DiskInv, NEW p \in PullIds, PullStep(p)
    PROVE  DiskInv'
<1> PullsOk
  BY DEF DiskInv
<1>1. CASE OllamaSucceeds(p)
  BY <1>1, ThreadEnds, ElsewhereKeeps DEF OllamaSucceeds
<1>2. CASE OllamaFails(p)
  BY <1>2, ThreadEnds, ElsewhereKeeps DEF OllamaFails
<1>3. CASE CommandSucceeds(p)
  <2>1. AllMove
    BY <1>3, ThreadEnds DEF CommandSucceeds
  <2>2. QED
    BY <1>3, <2>1, ElsewhereKeeps DEF CommandSucceeds
<1>4. CASE CommandFails(p)
  BY <1>4, ThreadEnds, ElsewhereKeeps DEF CommandFails
<1>5. CASE PostAnswers(p)
  <2>1. CASE \E result : pulls' = EndsAs(p, result)
    BY <1>5, <2>1, ThreadEnds, ElsewhereKeeps DEF PostAnswers
  <2>2. CASE \E pc \in {"status", "listing"} : pulls' = [pulls EXCEPT ![p].pc = pc]
    <3>1. PICK pc \in {"status", "listing"} : pulls' = [pulls EXCEPT ![p].pc = pc]
      BY <2>2
    <3>2. pc \notin OnFile /\ pulls[p].pc = "post"
      BY <1>5 DEF OnFile, PostAnswers
    <3>3. AllMove
      BY <3>1, <3>2, ThreadGoes
    <3>4. QED
      BY <1>5, <3>3, ElsewhereKeeps DEF PostAnswers
  <2>3. QED
    BY <1>5, <2>1, <2>2 DEF PostAnswers
<1>6. CASE poll_lmstudio_download_status(p) \/ poll_lmstudio_installed_models(p)
  <2>1. UNCHANGED diskVars
    BY <1>6 DEF poll_lmstudio_download_status, poll_lmstudio_installed_models
  <2>2. QED
    BY <1>6, <2>1, ThreadPolls, ElsewhereKeeps
<1>7. CASE Connect(p)
  BY <1>7, ConnectKeeps
<1>8. CASE RemoveOld(p)
  BY <1>8, RemoveOldKeeps
<1>9. CASE CreateNew(p)
  BY <1>9, CreateNewKeeps
<1>10. CASE WriteMore(p)
  BY <1>10, WriteMoreKeeps
<1>11. CASE TransferFails(p)
  BY <1>11, TransferFailsKeeps
<1>12. CASE FinishFile(p)
  BY <1>12, FinishFileKeeps
<1>13. QED
  BY <1>1, <1>2, <1>3, <1>4, <1>5, <1>6, <1>7, <1>8, <1>9, <1>10, <1>11, <1>12 DEF PullStep, TimedStep

(* A step that leaves threads and directory alone. *)
LEMMA StillKeeps ==
    ASSUME DiskInv, UNCHANGED <<pulls, diskVars>>
    PROVE  DiskInv'
<1>1. AllMove
  BY DEF AllMove, Moves, DiskInv, PullsOk
<1>2. QED
  BY <1>1, ElsewhereKeeps

(* Each step by which a program starts a thread or ends its threads. *)
LEMMA StartsKeep ==
    ASSUME DiskInv,
           \/ confirm_download_provider_selection
           \/ \E r \in Requests : ApiStart(r)
           \/ \E ask \in used.asks : run_download(ask)
           \/ TuiStops \/ ApiStops \/ CliStops
    PROVE  DiskInv'
<1> PullsOk
  BY DEF DiskInv
<1>1. CASE confirm_download_provider_selection
  <2>1. pulls' = pulls \/ \E h : IsHandle(h) /\ SpawnAs(FreePull, "tui", h)
    BY <1>1, TuiHandles DEF confirm_download_provider_selection
  <2>2. UNCHANGED diskVars
    BY <1>1 DEF confirm_download_provider_selection
  <2>3. QED
    BY <2>1, <2>2, StillKeeps, ThreadSpawns, ElsewhereKeeps
<1>2. ASSUME NEW r \in Requests, ApiStart(r)
      PROVE  DiskInv'
  <2>1. pulls' = pulls \/ \E h : IsHandle(h) /\ SpawnAs(FreePull, "api", h)
    BY <1>2, ApiHandles DEF ApiStart
  <2>2. UNCHANGED diskVars
    BY <1>2 DEF ApiStart
  <2>3. QED
    BY <2>1, <2>2, StillKeeps, ThreadSpawns, ElsewhereKeeps
<1>3. ASSUME NEW ask \in used.asks, run_download(ask)
      PROVE  DiskInv'
  <2>1. \E h : IsHandle(h) /\ SpawnAs(FreePull, "cli", h)
    BY <1>3, GgufHandles DEF run_download
  <2>2. UNCHANGED diskVars
    BY <1>3 DEF run_download
  <2>3. QED
    BY <2>1, <2>2, ThreadSpawns, ElsewhereKeeps
<1>4. CASE TuiStops \/ ApiStops \/ CliStops
  BY <1>4, ThreadsStop, ElsewhereKeeps DEF TuiStops, ApiStops, CliStops
<1>5. QED
  BY <1>1, <1>2, <1>3, <1>4

(* Deleting takes a name away, and gives none. *)
LEMMA DeleteKeeps ==
    ASSUME DiskInv, delete_selected_download
    PROVE  DiskInv'
<1>1. UNCHANGED <<part, written, pulls, touched>>
  BY DEF delete_selected_download, Keep
<1>2. final' = final \/ \E l : final' = [final EXCEPT ![l] = None]
  BY DEF delete_selected_download, delete_model_llamacpp
<1>3. /\ final' = [l \in Locals |-> final'[l]]
      /\ \A l \in Locals : final'[l] = final[l] \/ final'[l] = None
  BY <1>2 DEF DiskInv, DiskOk
<1>4. AllMove
  BY <1>1 DEF AllMove, Moves, DiskInv, PullsOk
<1>5. PullsOk' /\ DiskOk'
  BY <1>1, <1>3, <1>4 DEF AllMove, DiskInv, DiskOk
<1>6. ASSUME NEW q \in PullIds
      PROVE  Mine(q)'
  BY <1>1, MineStays
<1>7. ASSUME NEW l \in Locals
      PROVE  Settled(l)'
  BY <1>1, <1>3, <1>4, SettledStays
<1>8. QED
  BY <1>5, <1>6, <1>7 DEF DiskInv

(* Every step of the three programs keeps the invariant. *)
LEMMA NextDisk ==
    ASSUME DiskInv, [Next]_downloadVars
    PROVE  DiskInv'
<1>1. CASE UNCHANGED downloadVars
  BY <1>1, StillKeeps DEF downloadVars, pullVars, diskVars
<1>2. CASE \E p \in PullIds : Worker(p)
  BY <1>2, WorkerKeeps DEF Worker
<1>3. CASE \/ confirm_download_provider_selection
           \/ \E r \in Requests : ApiStart(r)
           \/ \E ask \in used.asks : run_download(ask)
           \/ TuiStops \/ ApiStops \/ CliStops
  BY <1>3, StartsKeep
<1>4. CASE delete_selected_download
  BY <1>4, DeleteKeeps
<1>5. CASE \/ TuiStart \/ tick_pull \/ PopupKeys \/ HistoryKeys \/ CancelDelete \/ CliExits
           \/ \E r \in SlowProbes : DetectionSends(r)
           \/ \E row \in Visible : CapabilitySends(row)
           \/ \E row \in used.rows : start_download(row)
           \/ \E r \in used.requests, job \in used.jobs : ApiCheck(r, job)
           \/ \E r \in Requests : ApiStore(r) \/ ApiUpdate(r)
           \/ \E url \in DOMAIN world.net : ServerStops(url)
           \/ \E p \in PullIds : LmStudioWorks(p)
  <2>1. UNCHANGED <<pulls, diskVars>>
    BY <1>5 DEF TuiStart, tick_pull, PopupKeys, HistoryKeys, CancelDelete, CliExits,
         DetectionSends, CapabilitySends, start_download, ApiCheck, ApiStore, ApiUpdate,
         ServerStops, LmStudioWorks, LmStudioFinishes, pullVars, diskVars
  <2>2. QED
    BY <2>1, StillKeeps
<1>6. QED
  BY <1>1, <1>2, <1>3, <1>4, <1>5 DEF Next, ApiTask

(* The directory in every state: what a thread writes is its own, and what *)
(* has its final name was finished by a thread that left it behind.        *)
THEOREM DiskAlways == Spec => []DiskInv
<1>1. Init => DiskInv
  BY InitDisk
<1>2. DiskInv /\ [Next]_downloadVars => DiskInv'
  BY NextDisk
<1>3. QED
  BY <1>1, <1>2, PTL DEF Spec

(* A file under its final name is complete, whichever programs pulled it   *)
(* and however their threads failed or were stopped ("Write to a temp      *)
(* file, then rename to avoid partial files", providers.rs:1367), unless   *)
(* two of them had it in hand or the server told no length.                *)
THEOREM FinalCompleteAlways == Spec => []FinalComplete
<1>1. DiskInv => FinalComplete
  BY DEF DiskInv, Settled, FinalComplete
<1>2. QED
  BY <1>1, DiskAlways, PTL

-----------------------------------------------------------------------------
(* Who has port 8000.  What answers is a record with its fields; and while *)
(* both addresses answer, they are the server of one and the same runtime. *)
WorldShape(w) ==
    /\ "net" \in DOMAIN w
    /\ \A url \in DOMAIN w.net :
          w.net[url] # None => {"models", "garbled", "tags"} \subseteq DOMAIN w.net[url]
    /\ {"localhost:8000", "127.0.0.1:8000"} \subseteq DOMAIN w.net

SameServer(a, b) ==
    a # None /\ b # None =>
        /\ a.garbled <=> b.garbled
        /\ a.models # None /\ b.models # None /\ owned_by(a, "vllm") => owned_by(b, "vllm")

PortInv ==
    /\ WorldShape(world)
    /\ SameServer(world.net["localhost:8000"], world.net["127.0.0.1:8000"])

(* What an answer may become: it keeps its fields, stays garbled or not,   *)
(* and shows vLLM's models as before.                                      *)
Answered(a, b) ==
    a # None =>
        /\ DOMAIN b = DOMAIN a
        /\ b.garbled = a.garbled
        /\ b.models # None => a.models # None /\ (owned_by(a, "vllm") <=> owned_by(b, "vllm"))

(* A server that goes down, or whose answer changes so, leaves the port to *)
(* the runtime that has it.                                                *)
LEMMA AnswerKeepsPort ==
    ASSUME PortInv, NEW u, NEW b,
           world' = [world EXCEPT !.net[u] = b],
           b = None \/ (world.net[u] # None /\ Answered(world.net[u], b))
    PROVE  PortInv'
<1>1. "net" \in DOMAIN world' /\ world'.net = [world.net EXCEPT ![u] = b]
  BY DEF PortInv, WorldShape
<1>2. DOMAIN world'.net = DOMAIN world.net
  BY <1>1
<1>3. \A url \in DOMAIN world.net :
         \/ world'.net[url] = world.net[url]
         \/ world'.net[url] = None
         \/ (world.net[url] # None /\ Answered(world.net[url], world'.net[url]))
  BY <1>1
<1>4. WorldShape(world')
  BY <1>1, <1>2, <1>3 DEF PortInv, WorldShape, Answered
<1>5. SameServer(world'.net["localhost:8000"], world'.net["127.0.0.1:8000"])
  BY <1>3 DEF PortInv, WorldShape, SameServer, Answered
<1>6. QED
  BY <1>4, <1>5 DEF PortInv

(* An address that is not known keeps nothing. *)
LEMMA ElsewhereAnswers ==
    ASSUME PortInv, NEW u, u \notin DOMAIN world.net, NEW b,
           world' = [world EXCEPT !.net[u] = b]
    PROVE  PortInv'
<1>1. /\ "net" \in DOMAIN world' /\ DOMAIN world'.net = DOMAIN world.net
      /\ \A url \in DOMAIN world.net : world'.net[url] = world.net[url]
  BY DEF PortInv, WorldShape
<1>2. QED
  BY <1>1 DEF PortInv, WorldShape, SameServer

(* Models nobody attributes to vLLM join the list of a server. *)
LEMMA ModelJoins ==
    ASSUME PortInv, NEW u, NEW m, m.owner # "vllm", HasList(world, u),
           world' = [world EXCEPT !.net[u].models = @ \cup {m}]
    PROVE  PortInv'
<1> DEFINE a == world.net[u]
           b == [a EXCEPT !.models = @ \cup {m}]
<1>1. a # None /\ a.models # None
  BY DEF HasList, Answers
<1>2. world' = [world EXCEPT !.net[u] = b]
  OBVIOUS
<1>3. CASE u \in DOMAIN world.net
  <2>1. /\ "models" \in DOMAIN a /\ "garbled" \in DOMAIN a
        /\ DOMAIN b = DOMAIN a /\ b.garbled = a.garbled /\ b.models = a.models \cup {m}
    BY <1>1, <1>3 DEF PortInv, WorldShape
  <2>2. owned_by(a, "vllm") <=> owned_by(b, "vllm")
    BY <2>1 DEF owned_by
  <2>3. Answered(a, b)
    BY <1>1, <2>1, <2>2 DEF Answered
  <2> HIDE DEF b
  <2>4. QED
    BY <1>1, <1>2, <2>3, AnswerKeepsPort
<1>4. CASE u \notin DOMAIN world.net
  BY <1>2, <1>4, ElsewhereAnswers
<1>5. QED
  BY <1>3, <1>4

(* So do the tags of Ollama. *)
LEMMA TagsChange ==
    ASSUME PortInv, NEW u, NEW tags, HasTags(world, u),
           world' = [world EXCEPT !.net[u].tags = tags]
    PROVE  PortInv'
<1> DEFINE a == world.net[u]
           b == [a EXCEPT !.tags = tags]
<1>1. a # None
  BY DEF HasTags, Answers
<1>2. world' = [world EXCEPT !.net[u] = b]
  OBVIOUS
<1>3. CASE u \in DOMAIN world.net
  <2>1. /\ "models" \in DOMAIN a /\ "garbled" \in DOMAIN a
        /\ DOMAIN b = DOMAIN a /\ b.garbled = a.garbled /\ b.models = a.models
    BY <1>1, <1>3 DEF PortInv, WorldShape
  <2>2. owned_by(a, "vllm") <=> owned_by(b, "vllm")
    BY <2>1 DEF owned_by
  <2>3. Answered(a, b)
    BY <1>1, <2>1, <2>2 DEF Answered
  <2> HIDE DEF b
  <2>4. QED
    BY <1>1, <1>2, <2>3, AnswerKeepsPort
<1>4. CASE u \notin DOMAIN world.net
  BY <1>2, <1>4, ElsewhereAnswers
<1>5. QED
  BY <1>3, <1>4

(* What else happens to the machine: files of a cache come. *)
LEMMA StoreGrows ==
    ASSUME PortInv, NEW repo,
           world' = [world EXCEPT !.store.hf_cache = @ \cup {repo}]
    PROVE  PortInv'
<1>1. "net" \in DOMAIN world' /\ world'.net = world.net
  BY DEF PortInv, WorldShape
<1>2. QED
  BY <1>1 DEF PortInv, WorldShape

(* Every step that changes the machine. *)
LEMMA NextPort ==
    ASSUME PortInv, [Next]_downloadVars
    PROVE  PortInv'
<1>1. ASSUME UNCHANGED world
      PROVE  PortInv'
  BY <1>1 DEF PortInv
<1>2. ASSUME NEW p \in PullIds, LmStudioHas(p), HasList(world, pulls[p].url)
      PROVE  PortInv'
  <2>1. PICK id \in LmStudioIds(pulls[p].repo) :
           world' = [world EXCEPT !.net[pulls[p].url].models = @ \cup {[id |-> id, owner |-> None]}]
    BY <1>2 DEF LmStudioHas
  <2>2. [id |-> id, owner |-> None].owner # "vllm"
    BY OwnerAssumption
  <2>3. QED
    BY <1>2, <2>1, <2>2, ModelJoins
<1>3. ASSUME NEW p \in PullIds, PullStep(p)
      PROVE  PortInv'
  <2>1. CASE OllamaSucceeds(p)
    <3> DEFINE tags == world.net[pulls[p].url].tags \cup {OllamaModel(pulls[p].tag)}
    <3>1. HasTags(world, pulls[p].url) /\ world' = [world EXCEPT !.net[pulls[p].url].tags = tags]
      BY <2>1 DEF OllamaSucceeds
    <3> HIDE DEF tags
    <3>2. QED
      BY <3>1, TagsChange
  <2>2. CASE CommandSucceeds(p)
    <3>1. CASE pulls[p].provider = "mlx"
      BY <2>2, <3>1, StoreGrows DEF CommandSucceeds
    <3>2. CASE pulls[p].provider # "mlx" /\ HasList(world, pulls[p].url)
      <4>1. [id |-> pulls[p].tag, owner |-> "docker"].owner # "vllm"
        OBVIOUS
      <4>2. QED
        BY <2>2, <3>2, <4>1, ModelJoins DEF CommandSucceeds
    <3>3. CASE pulls[p].provider # "mlx" /\ ~HasList(world, pulls[p].url)
      BY <1>1, <2>2, <3>3 DEF CommandSucceeds
    <3>4. QED
      BY <3>1, <3>2, <3>3
  <2>3. CASE PostAnswers(p)
    BY <1>1, <1>2, <2>3 DEF PostAnswers
  <2>4. CASE \/ OllamaFails(p) \/ CommandFails(p) \/ poll_lmstudio_download_status(p)
             \/ poll_lmstudio_installed_models(p) \/ Connect(p) \/ RemoveOld(p)
             \/ CreateNew(p) \/ WriteMore(p) \/ TransferFails(p) \/ FinishFile(p)
    BY <1>1, <2>4 DEF OllamaFails, CommandFails, poll_lmstudio_download_status,
         poll_lmstudio_installed_models, Connect, RemoveOld, CreateNew, WriteMore,
         TransferFails, FinishFile
  <2>5. QED
    BY <1>3, <2>1, <2>2, <2>3, <2>4 DEF PullStep, TimedStep
<1>4. CASE delete_selected_download
  <2>1. CASE UNCHANGED world
    BY <1>1, <2>1
  <2>2. CASE ~ UNCHANGED world
    <3> DEFINE url == tui.ollama[1]
               n == SelectedRecord.row.name
               tags == {m \in world.net[url].tags : m.name # n}
    <3>1. delete_model_ollama(url, n) # None /\ world' = delete_model_ollama(url, n)
      BY <1>4, <2>2 DEF delete_selected_download
    <3>2. HasTags(world, url) /\ world' = [world EXCEPT !.net[url].tags = tags]
      BY <3>1 DEF delete_model_ollama
    <3> HIDE DEF url, tags
    <3>3. QED
      BY <3>2, TagsChange
  <2>3. QED
    BY <2>1, <2>2
<1>5. ASSUME NEW url \in DOMAIN world.net, ServerStops(url)
      PROVE  PortInv'
  BY <1>5, AnswerKeepsPort DEF ServerStops
<1>6. CASE \/ UNCHANGED downloadVars
           \/ TuiStart \/ tick_pull \/ PopupKeys \/ HistoryKeys \/ CancelDelete \/ CliExits
           \/ confirm_download_provider_selection \/ TuiStops \/ ApiStops \/ CliStops
           \/ \E r \in SlowProbes : DetectionSends(r)
           \/ \E row \in Visible : CapabilitySends(row)
           \/ \E row \in used.rows : start_download(row)
           \/ \E r \in used.requests, job \in used.jobs : ApiCheck(r, job)
           \/ \E r \in Requests : ApiTask(r)
           \/ \E ask \in used.asks : run_download(ask)
  BY <1>1, <1>6
     DEF downloadVars, pullVars, TuiStart, tick_pull, PopupKeys, HistoryKeys, CancelDelete,
         CliExits, confirm_download_provider_selection, TuiStops, ApiStops, CliStops,
         DetectionSends, CapabilitySends, start_download, ApiCheck, ApiTask, ApiStore,
         ApiStart, ApiUpdate, run_download
<1>7. QED
  BY <1>2, <1>3, <1>4, <1>5, <1>6 DEF Next, Worker, LmStudioWorks, LmStudioFinishes

(* Whatever answers on port 8000, whatever is pulled from or to it, and    *)
(* whichever of its addresses goes down: vLLM and MLX do not both take its *)
(* models for theirs (detect_vllm, fetch_candidate_models of MLX).         *)
THEOREM OneClaimAlways == Spec => []OneClaim
<1>1. Init => PortInv
  <2> SUFFICES ASSUME Init PROVE PortInv
    OBVIOUS
  <2>1. PICK m \in Machines : world = m.world
    BY DEF Init, PullsInit
  <2>2. WorldShape(world) /\ world.net["localhost:8000"] = world.net["127.0.0.1:8000"]
    BY <2>1, MachinesAssumption DEF WorldShape
  <2>3. QED
    BY <2>2 DEF PortInv, SameServer
<1>2. PortInv /\ [Next]_downloadVars => PortInv'
  BY NextPort
<1>3. PortInv => OneClaim
  <2> DEFINE a == world.net["localhost:8000"]
             b == world.net["127.0.0.1:8000"]
  <2> SUFFICES ASSUME PortInv, detect_vllm(world).available, VllmProvider(world) = "localhost:8000",
                      NEW c \in server_candidates(MlxProvider(world)), c.url = "127.0.0.1:8000"
               PROVE  fetch_candidate_models(world, c) \in {None, {}}
    BY DEF OneClaim
  <2>1. \/ Garbled(world, "localhost:8000")
        \/ HasList(world, "localhost:8000") /\ classify_openai_endpoint(a) = "Vllm"
    BY DEF detect_vllm, NotDetected, Detection
  <2>2. CASE ~ HasList(world, "127.0.0.1:8000")
    BY <2>2 DEF fetch_candidate_models, AcceptedModels, fetch_openai_model_list
  <2>3. CASE HasList(world, "127.0.0.1:8000")
    <3>1. a # None /\ b # None /\ a.models # None /\ b.models # None /\ ~b.garbled
      BY <2>1, <2>3 DEF HasList, Garbled, Answers
    <3>2. ~ a.garbled
      BY <3>1 DEF PortInv, SameServer
    <3>3. owned_by(a, "vllm")
      BY <2>1, <3>2 DEF Garbled, classify_openai_endpoint
    <3>4. owned_by(b, "vllm")
      BY <3>1, <3>3 DEF PortInv, SameServer
    <3>5. classify_openai_endpoint(b) = "Vllm"
      BY <3>4 DEF classify_openai_endpoint
    <3>6. QED
      BY <2>3, <3>5 DEF fetch_candidate_models, AcceptedModels, fetch_openai_model_list
  <2>4. QED
    BY <2>2, <2>3
<1>4. QED
  BY <1>1, <1>2, <1>3, PTL DEF Spec

=============================================================================
