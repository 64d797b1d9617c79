-------------------------- MODULE BenchBoardProofs --------------------------
(***************************************************************************)
(* Proofs about the sharing of benchmark results and the benchmark view,   *)
(* for every number of workers, store, credentials, answers, faults,       *)
(* crashes and reviews: a result that was moved to shared/ is in the       *)
(* repository or in the branch of a pull request, the newest run of a      *)
(* model is found while results move to shared/, and the rows of the view  *)
(* are of the hardware its header names.  What a payload says, which       *)
(* hardware it identifies and how results are measured stays opaque.       *)
(***************************************************************************)
EXTENDS BenchBoard, TLAPS, SequenceTheorems, NaturalsInduction, WellFoundedInduction

(* The inductive invariant, of a store fs, of GitHub g and of the files c  *)
(* whose branch two submissions shared.                                    *)
IsSeq(s) == s \in Seq({s[i] : i \in DOMAIN s})

IsMap(f) == f = [x \in DOMAIN f |-> f[x]]

StoreOk(fs) ==
    /\ IsSeq(fs)
    /\ \A i \in DOMAIN fs : DOMAIN fs[i] = {"where", "payload"}

GhOk(g) ==
    /\ DOMAIN g = {"fork", "main", "branches", "prs"}
    /\ IsSeq(g.prs)
    /\ \A i \in DOMAIN g.prs : /\ DOMAIN g.prs[i] = {"branch", "state"}
                               /\ g.prs[i].branch \in DOMAIN g.branches

HasPr(g, b) == \E i \in DOMAIN g.prs : g.prs[i].branch = b

IsOffered(g, c, f) ==
    f \in g.main \cup c \/ \E i \in DOMAIN g.prs : f \in g.branches[g.prs[i].branch]

NamesHw(fs, f) == hardware_is_identifiable(sanitize_stored_payload(fs[f].payload))

SharedOk(fs, g, c) ==
    \A f \in DOMAIN fs : fs[f].where = "shared" /\ NamesHw(fs, f) => IsOffered(g, c, f)

(* A worker: before a branch is at hand (Asking), while files are put on   *)
(* it (On) and afterwards.                                                 *)
WorkFields == {"pc", "ui", "job", "token", "targets", "results", "snap", "todo", "n", "branch",
               "reused", "base", "uploaded", "tries", "sent"}

Asking == {"fork", "poll", "find", "head", "branch"}

On == {"put", "open"}

Fresh(p) == p.reused = FALSE /\ p.uploaded = 0

(* What was chosen is what the snapshot holds of identified hardware. *)
ChosenOk(p, fs) ==
    p.pc \in Asking \cup On \cup {"mark"} =>
        p.todo # {} /\ p.todo = {f \in p.snap : NamesHw(fs, f)}

AskingOk(p, g) ==
    /\ p.pc \notin On \cup {"mark"} => Fresh(p)
    /\ p.pc \in Asking => p.branch.files = p.todo /\ p.n = Min(p.todo)
    /\ p.pc = "branch" => p.base \subseteq g.main

(* A branch that got nothing from its own submission holds what is already *)
(* offered, or nothing.                                                    *)
NothingNew(p, g, c) ==
    p.todo \subseteq c \/ HasPr(g, p.branch) \/ g.branches[p.branch] \subseteq g.main

OnOk(p, g, c) ==
    p.pc \in On =>
        /\ p.branch \in DOMAIN g.branches
        /\ p.uploaded \in Nat
        /\ \/ p.reused = TRUE /\ p.pc = "put" /\ HasPr(g, p.branch)
           \/ p.reused = FALSE /\ p.branch.files = p.todo
        /\ p.reused = FALSE /\ p.uploaded = 0 => NothingNew(p, g, c)
        /\ p.pc = "put" => /\ p.n \in p.todo
                           /\ \A f \in p.todo : f < p.n => f \in g.branches[p.branch]
        /\ p.pc = "open" => p.n \in p.snap /\ p.todo \subseteq g.branches[p.branch]

MarkOk(p, g, c) ==
    p.pc = "mark" => p.n \in p.snap /\ \A f \in p.todo : IsOffered(g, c, f)

WorkerOk(p, fs, g, c) ==
    /\ DOMAIN p = WorkFields
    /\ p.snap \subseteq DOMAIN fs
    /\ ChosenOk(p, fs)
    /\ AskingOk(p, g)
    /\ OnOk(p, g, c)
    /\ MarkOk(p, g, c)

(* Two submissions on a branch of one name have both clashed. *)
Rivals(p, q) ==
    p.pc \in On /\ q.pc \in On /\ p.reused = FALSE /\ q.reused = FALSE /\ p.branch = q.branch

RivalsOk(wk, c) ==
    \A v \in Workers, w \in Workers : v # w /\ Rivals(wk[v], wk[w]) => wk[v].todo \subseteq c

ShareInv ==
    /\ StoreOk(files)
    /\ GhOk(gh)
    /\ DOMAIN work = Workers
    /\ \A w \in Workers : WorkerOk(work[w], files, gh, clashed)
    /\ RivalsOk(work, clashed)
    /\ SharedOk(files, gh, clashed)

(* The view: an answer under way is one for what the header names, or the  *)
(* header names a preset; and the rows that are being read are pinned for  *)
(* this machine.                                                           *)
ViewFields == {"open", "mode", "pinned", "entries", "total", "label", "loading", "fetch", "error",
               "cursor", "query", "searching", "picker", "offer", "job", "share", "unavailable",
               "waiting", "auth", "rx", "measured", "scan"}

ViewOk(v) ==
    /\ DOMAIN v = ViewFields
    /\ v.fetch # None => DOMAIN v.fetch = {"of", "query", "result"}
    /\ v.label = None => (v.fetch # None => v.fetch.of = None)
    /\ v.label = None => \A i \in DOMAIN v.entries : v.entries[i].of = None
    /\ v.label # None => v.pinned = <<>>
    /\ v.scan # None /\ v.scan.of = "rows" => v.label = None

IInv == ShareInv /\ ViewOk(view)

-----------------------------------------------------------------------------
(* The least of a set of numbers, and lists that grow.                     *)

(* A set of file numbers that is not empty has a least one: put_files and  *)
(* mark_shared find their next file.                                       *)
LEMMA LeastOf ==
    ASSUME NEW S, S \subseteq Nat, S # {}
    PROVE  Min(S) \in S /\ \A i \in S : Min(S) <= i
<1> DEFINE Less == {ss \in Nat \X Nat : ss[1] < ss[2]}
<1>1. \E x \in S : \A y \in S : ~ (<<y, x>> \in Less)
  <2>1. IsWellFoundedOn(Less, Nat)
    BY NatLessThanWellFounded DEF OpToRel
  <2>2. QED
    BY <2>1, WFMin
<1>2. PICK x \in S : \A y \in S : ~ (<<y, x>> \in Less)
  BY <1>1
<1>3. ASSUME NEW y \in S PROVE x <= y
  <2>1. <<y, x>> \in Nat \X Nat /\ ~ (<<y, x>> \in Less)
    BY <1>2
  <2>2. ~ (y < x)
    BY <2>1
  <2>3. QED
    BY <2>2
<1>4. QED
  BY <1>2, <1>3 DEF Min

(* So has a bounded one a greatest: find_open_bench_pr finds the newest    *)
(* pull request, LocalNewest the newest file.                              *)
LEMMA GreatestOf ==
    ASSUME NEW n \in Nat, NEW S, S \subseteq 0..n, S # {}
    PROVE  Max(S) \in S /\ \A i \in S : Max(S) >= i
<1> DEFINE D == {n - x : x \in S}
<1>1. D \subseteq Nat /\ D # {}
  <2>1. \A x \in S : x \in 0..n /\ n - x \in Nat
    OBVIOUS
  <2>2. QED
    BY <2>1
<1>2. Min(D) \in D /\ \A d \in D : Min(D) <= d
  BY <1>1, LeastOf
<1>3. PICK x \in S : Min(D) = n - x
  BY <1>2
<1>4. ASSUME NEW y \in S PROVE x >= y
  <2>1. n - y \in D
    OBVIOUS
  <2>2. n - x <= n - y
    BY <1>2, <1>3, <2>1
  <2>3. QED
    BY <2>2
<1>5. QED
  BY <1>4 DEF Max

(* A list of anything is a list of its elements. *)
LEMMA OfElements ==
    ASSUME NEW X, NEW s \in Seq(X)
    PROVE  IsSeq(s)
<1>1. s \in [1..Len(s) -> {s[i] : i \in DOMAIN s}] /\ Len(s) \in Nat
  OBVIOUS
<1>2. QED
  BY <1>1 DEF IsSeq

(* What keeps the places of a list is a list. *)
LEMMA SamePlaces ==
    ASSUME NEW s, IsSeq(s), NEW t, DOMAIN t = DOMAIN s, IsMap(t)
    PROVE  IsSeq(t)
<1>1. DOMAIN s = 1..Len(s) /\ Len(s) \in Nat
  BY DEF IsSeq
<1>2. t \in [1..Len(s) -> {t[i] : i \in DOMAIN t}]
  BY <1>1 DEF IsMap
<1>3. DOMAIN t = 1..Len(s) /\ t \in Seq({t[i] : i \in DOMAIN t})
  BY <1>1, <1>2
<1>4. QED
  BY <1>3 DEF IsSeq

(* Append keeps every place of a list and adds one. *)
LEMMA Appended ==
    ASSUME NEW s, IsSeq(s), NEW e
    PROVE  /\ IsSeq(Append(s, e))
           /\ DOMAIN Append(s, e) = DOMAIN s \cup {Len(s) + 1}
           /\ DOMAIN s \subseteq Nat
           /\ \A i \in DOMAIN s : Append(s, e)[i] = s[i]
           /\ Append(s, e)[Len(s) + 1] = e
<1> DEFINE X == {s[i] : i \in DOMAIN s} \cup {e}
<1>1. s \in Seq(X)
  BY DEF IsSeq
<1>2. DOMAIN s = 1..Len(s) /\ Len(s) \in Nat
  BY <1>1
<1>3. /\ Append(s, e) \in Seq(X)
      /\ Len(Append(s, e)) = Len(s) + 1
      /\ \A i \in 1..Len(s) : Append(s, e)[i] = s[i]
      /\ Append(s, e)[Len(s) + 1] = e
  BY <1>1, AppendProperties
<1>4. DOMAIN Append(s, e) = 1..Len(s) + 1
  BY <1>3
<1>5. IsSeq(Append(s, e))
  BY <1>3, OfElements
<1>6. QED
  BY <1>2, <1>3, <1>4, <1>5

-----------------------------------------------------------------------------
(* Nothing that was stored or offered is taken back.                       *)
Grown(fs, g, c, fs2, g2, c2) ==
    /\ DOMAIN fs \subseteq DOMAIN fs2
    /\ \A i \in DOMAIN fs : fs2[i].payload = fs[i].payload
    /\ g.main \subseteq g2.main
    /\ c \subseteq c2
    /\ \A b \in DOMAIN g.branches : b \in DOMAIN g2.branches /\ g.branches[b] \subseteq g2.branches[b]
    /\ \A i \in DOMAIN g.prs : i \in DOMAIN g2.prs /\ g2.prs[i].branch = g.prs[i].branch

(* What is offered stays offered. *)
LEMMA OfferedStays ==
    ASSUME NEW fs, NEW g, NEW c, NEW fs2, NEW g2, NEW c2, GhOk(g), Grown(fs, g, c, fs2, g2, c2),
           NEW f, IsOffered(g, c, f)
    PROVE  IsOffered(g2, c2, f)
<1>1. CASE f \in g.main \cup c
  BY <1>1 DEF Grown, IsOffered
<1>2. CASE \E i \in DOMAIN g.prs : f \in g.branches[g.prs[i].branch]
  <2>1. PICK i \in DOMAIN g.prs : f \in g.branches[g.prs[i].branch]
    BY <1>2
  <2>2. g.prs[i].branch \in DOMAIN g.branches
    BY DEF GhOk
  <2>3. i \in DOMAIN g2.prs /\ f \in g2.branches[g2.prs[i].branch]
    BY <2>1, <2>2 DEF Grown
  <2>4. QED
    BY <2>3 DEF IsOffered
<1>3. QED
  BY <1>1, <1>2 DEF IsOffered

(* A pull request stays one of its branch. *)
LEMMA PrStays ==
    ASSUME NEW fs, NEW g, NEW c, NEW fs2, NEW g2, NEW c2, Grown(fs, g, c, fs2, g2, c2),
           NEW b, HasPr(g, b)
    PROVE  HasPr(g2, b)
  BY DEF Grown, HasPr

(* What one step adds, of another worker or of GitHub, leaves a worker as  *)
(* it should be, unless it puts a file on the very branch that the worker  *)
(* believes to be its own.                                                 *)
LEMMA WorkerStays ==
    ASSUME NEW p, NEW fs, NEW g, NEW c, NEW fs2, NEW g2, NEW c2,
           GhOk(g), WorkerOk(p, fs, g, c), Grown(fs, g, c, fs2, g2, c2),
           \/ p.pc \notin On
           \/ p.reused = TRUE
           \/ g2.branches[p.branch] = g.branches[p.branch]
           \/ HasPr(g, p.branch)
           \/ p.todo \subseteq c
    PROVE  WorkerOk(p, fs2, g2, c2)
<1>1. p.snap \subseteq DOMAIN fs2
  BY DEF WorkerOk, Grown
<1>2. ChosenOk(p, fs2)
  <2>1. \A f \in p.snap : NamesHw(fs2, f) = NamesHw(fs, f)
    BY DEF WorkerOk, Grown, NamesHw
  <2>2. QED
    BY <2>1 DEF WorkerOk, ChosenOk
<1>3. AskingOk(p, g2)
  BY DEF WorkerOk, AskingOk, Grown
<1>4. HasPr(g, p.branch) => HasPr(g2, p.branch)
  BY PrStays
<1>5. OnOk(p, g2, c2)
  <2> SUFFICES ASSUME p.pc \in On
               PROVE  OnOk(p, g2, c2)
    BY DEF OnOk
  <2>1. OnOk(p, g, c) /\ p.branch \in DOMAIN g.branches
    BY DEF WorkerOk, OnOk
  <2>2. p.branch \in DOMAIN g2.branches /\ g.branches[p.branch] \subseteq g2.branches[p.branch]
    BY <2>1 DEF Grown
  <2>3. ASSUME p.reused = FALSE, p.uploaded = 0
        PROVE  NothingNew(p, g2, c2)
    <3>1. NothingNew(p, g, c)
      BY <2>1, <2>3 DEF OnOk
    <3>2. QED
      BY <1>4, <2>3, <3>1 DEF NothingNew, Grown
  <2>4. QED
    BY <1>4, <2>1, <2>2, <2>3 DEF OnOk
<1>6. MarkOk(p, g2, c2)
  BY OfferedStays DEF WorkerOk, MarkOk
<1>7. QED
  BY <1>1, <1>2, <1>3, <1>5, <1>6 DEF WorkerOk

(* What is shared and offered stays so while nothing else is shared. *)
LEMMA SharedStays ==
    ASSUME NEW fs, NEW g, NEW c, NEW fs2, NEW g2, NEW c2,
           GhOk(g), SharedOk(fs, g, c), Grown(fs, g, c, fs2, g2, c2),
           \A f \in DOMAIN fs2 : fs2[f].where = "shared" => f \in DOMAIN fs /\ fs[f].where = "shared"
    PROVE  SharedOk(fs2, g2, c2)
<1> SUFFICES ASSUME NEW f \in DOMAIN fs2, fs2[f].where = "shared", NamesHw(fs2, f)
             PROVE  IsOffered(g2, c2, f)
  BY DEF SharedOk
<1>1. f \in DOMAIN fs /\ fs[f].where = "shared" /\ NamesHw(fs, f)
  BY DEF Grown, NamesHw
<1>2. QED
  BY <1>1, OfferedStays DEF SharedOk

(* A worker that has chosen nothing. *)
Early(p, fs) ==
    /\ DOMAIN p = WorkFields
    /\ p.snap \subseteq DOMAIN fs
    /\ Fresh(p)
    /\ p.pc \notin Asking \cup On \cup {"mark"}

(* Such a worker has nothing to break. *)
LEMMA EarlyOk ==
    ASSUME NEW p, NEW fs, NEW g, NEW c, Early(p, fs)
    PROVE  WorkerOk(p, fs, g, c)
  BY DEF Early, WorkerOk, ChosenOk, AskingOk, OnOk, MarkOk, Asking, On

(* A worker before it starts, and after it died. *)
LEMMA IdleEarly == ASSUME NEW fs PROVE Early(Idle, fs)
  BY DEF Early, Idle, WorkFields, Fresh, Asking, On

(* A worker at its end, after success or failure. *)
LEMMA EndedEarly == ASSUME NEW p, NEW msg, NEW fs PROVE Early(Ended(p, msg), fs)
  BY DEF Early, Ended, Idle, WorkFields, Fresh, Asking, On

(* A worker that got its credentials, or did not. *)
LEMMA AuthEarly ==
    ASSUME NEW p, NEW t, NEW fs, Early(p, fs)
    PROVE  Early(AfterAuth(p, t), fs) /\ Early(AuthFailed(p), fs)
<1>1. \A x : Early(AfterAuth(p, x), fs)
  BY DEF Early, AfterAuth, WorkFields, Fresh, Asking, On
<1>2. QED
  BY <1>1, EndedEarly DEF AuthFailed

(* A worker with its results in the store, or without. *)
LEMMA StoreEarly == ASSUME NEW p, NEW fs, Early(p, fs) PROVE Early(AfterStore(p), fs)
<1>1. Early([p EXCEPT !.pc = "list", !.results = <<>>], fs)
  BY DEF Early, WorkFields, Fresh, Asking, On
<1>2. QED
  BY <1>1, EndedEarly DEF AfterStore

-----------------------------------------------------------------------------
(* The steps of a worker.                                                  *)

(* A step of worker w keeps the invariant when it only adds, leaves w as   *)
(* it should be, and changes no branch but the one w puts files on.        *)
LEMMA StepOk ==
    ASSUME ShareInv, NEW w \in Workers,
           StoreOk(files'), GhOk(gh'), Grown(files, gh, clashed, files', gh', clashed'),
           DOMAIN work' = Workers, \A v \in Workers \ {w} : work'[v] = work[v],
           WorkerOk(work'[w], files', gh', clashed'),
           \A b \in DOMAIN gh.branches :
               gh'.branches[b] = gh.branches[b] \/ (work[w].pc = "put" /\ work[w].branch = b),
           \A v \in Workers \ {w} :
               Rivals(work'[w], work[v]) => /\ work[v].todo \subseteq clashed'
                                            /\ work'[w].todo \subseteq clashed',
           SharedOk(files', gh', clashed')
    PROVE  ShareInv'
<1>1. ASSUME NEW v \in Workers \ {w} PROVE WorkerOk(work'[v], files', gh', clashed')
  <2> DEFINE p == work[v]
  <2>1. WorkerOk(p, files, gh, clashed) /\ WorkerOk(work[w], files, gh, clashed) /\ GhOk(gh)
    BY DEF ShareInv
  <2>2. ASSUME p.pc \in On, p.reused # TRUE,
               gh'.branches[p.branch] # gh.branches[p.branch], ~ HasPr(gh, p.branch)
        PROVE  p.todo \subseteq clashed
    <3>1. p.branch \in DOMAIN gh.branches /\ p.reused = FALSE
      BY <2>1, <2>2 DEF WorkerOk, OnOk
    <3>2. work[w].pc = "put" /\ work[w].branch = p.branch
      BY <2>2, <3>1
    <3>3. work[w].reused = FALSE
      BY <2>1, <2>2, <3>2 DEF WorkerOk, OnOk, On
    <3>4. Rivals(p, work[w])
      BY <2>2, <3>1, <3>2, <3>3 DEF Rivals, On
    <3>5. QED
      BY <3>4 DEF ShareInv, RivalsOk
  <2>3. WorkerOk(p, files', gh', clashed')
    BY <2>1, <2>2, WorkerStays
  <2>4. QED
    BY <2>3
<1>2. RivalsOk(work', clashed')
  <2> SUFFICES ASSUME NEW u \in Workers, NEW v \in Workers, u # v, Rivals(work'[u], work'[v])
               PROVE  work'[u].todo \subseteq clashed'
    BY DEF RivalsOk
  <2>1. CASE u = w
    BY <2>1
  <2>2. CASE v = w
    BY <2>2 DEF Rivals
  <2>3. CASE u # w /\ v # w
    BY <2>3 DEF ShareInv, RivalsOk, Grown
  <2>4. QED
    BY <2>1, <2>2, <2>3
<1>3. QED
  BY <1>1, <1>2 DEF ShareInv

(* A step that changes neither the store nor GitHub: w is as it should be  *)
(* and is not about to put files on a branch of its own.                   *)
LEMMA QuietOk ==
    ASSUME ShareInv, NEW w \in Workers,
           DOMAIN work' = Workers, \A v \in Workers \ {w} : work'[v] = work[v],
           UNCHANGED <<files, gh, clashed>>,
           WorkerOk(work'[w], files, gh, clashed), work'[w].pc \in On => work'[w].reused = TRUE
    PROVE  ShareInv'
<1>1. Grown(files, gh, clashed, files', gh', clashed')
  BY DEF Grown
<1>2. StoreOk(files') /\ GhOk(gh') /\ SharedOk(files', gh', clashed')
  BY DEF ShareInv
<1>3. \A v \in Workers \ {w} :
        Rivals(work'[w], work[v]) => /\ work[v].todo \subseteq clashed'
                                     /\ work'[w].todo \subseteq clashed'
  BY DEF Rivals
<1>4. WorkerOk(work'[w], files', gh', clashed')
  OBVIOUS
<1>5. \A b \in DOMAIN gh.branches :
        gh'.branches[b] = gh.branches[b] \/ (work[w].pc = "put" /\ work[w].branch = b)
  OBVIOUS
<1>6. QED
  BY <1>1, <1>2, <1>3, <1>4, <1>5, StepOk

(* Set replaces the state of one worker. *)
LEMMA SetOne ==
    ASSUME ShareInv, NEW w \in Workers
    PROVE  \A q : Set(w, q) => /\ DOMAIN work' = Workers /\ work'[w] = q
                              /\ \A v \in Workers \ {w} : work'[v] = work[v]
  BY DEF ShareInv, Set

(* A step after which w has chosen nothing, or nothing any more, and that  *)
(* changes neither the store nor GitHub.                                   *)
LEMMA EarlyStep ==
    ASSUME ShareInv, NEW w \in Workers, UNCHANGED <<files, gh, clashed>>,
           DOMAIN work' = Workers, \A v \in Workers \ {w} : work'[v] = work[v],
           Early(work'[w], files)
    PROVE  ShareInv'
<1>1. WorkerOk(work'[w], files, gh, clashed)
  BY EarlyOk
<1>2. work'[w].pc \notin On
  BY DEF Early
<1>3. QED
  BY <1>1, <1>2, QuietOk

(* Where a worker of the early steps is. *)
LEMMA EarlyPc ==
    ASSUME ShareInv, NEW w \in Workers,
           work[w].pc \in {"idle", "auth", "device", "discover", "measure", "store", "stored", "list",
                           "submit"}
    PROVE  Early(work[w], files)
  BY DEF ShareInv, WorkerOk, AskingOk, Early, Asking, On

(* preflight_auth and device_flow, with and without credentials. *)
LEMMA AuthStep ==
    ASSUME ShareInv, NEW w \in Workers, preflight_auth(w) \/ device_flow(w)
    PROVE  ShareInv'
<1> DEFINE p == work[w]
<1>1. UNCHANGED <<files, gh, clashed>> /\ p.pc \in {"auth", "device"}
  BY DEF preflight_auth, device_flow
<1>2. Early(p, files)
  BY <1>1, EarlyPc
<1>3. /\ \A t : Early(AfterAuth(p, t), files)
      /\ Early(AuthFailed(p), files)
  BY <1>2, AuthEarly
<1>4. \A x : /\ Early([p EXCEPT !.pc = "device", !.sent = x], files)
             /\ Early([p EXCEPT !.tries = x], files)
  BY <1>1, <1>2 DEF Early, WorkFields, Fresh, Asking, On
<1>5. \E q : Set(w, q) /\ Early(q, files)
  <2>1. CASE preflight_auth(w)
    BY <1>3, <1>4, <2>1 DEF preflight_auth
  <2>2. CASE device_flow(w)
    BY <1>3, <1>4, <2>2 DEF device_flow
  <2>3. QED
    BY <2>1, <2>2
<1>6. QED
  BY <1>1, <1>5, SetOne, EarlyStep

(* discover and measure, which find something to go on with or end. *)
LEMMA MeasureStep ==
    ASSUME ShareInv, NEW w \in Workers, discover(w) \/ measure(w)
    PROVE  ShareInv'
<1> DEFINE p == work[w]
<1>1. UNCHANGED <<files, gh, clashed>> /\ p.pc \in {"discover", "measure"}
  BY DEF discover, measure
<1>2. Early(p, files)
  BY <1>1, EarlyPc
<1>3. \A msg : Early(Ended(p, msg), files)
  BY EndedEarly
<1>4. /\ \A ts : /\ Early([p EXCEPT !.targets = ts, !.pc = "auth"], files)
                 /\ Early([p EXCEPT !.targets = ts, !.pc = "measure"], files)
      /\ \A rs : Early([p EXCEPT !.results = rs, !.pc = "store"], files)
  BY <1>1, <1>2 DEF Early, WorkFields, Fresh, Asking, On
<1>5. \E q : Set(w, q) /\ Early(q, files)
  <2>1. CASE discover(w)
    <3>1. PICK ts : \/ Set(w, Ended(p, "error"))
                    \/ Set(w, [p EXCEPT !.targets = ts, !.pc = "auth"])
                    \/ Set(w, [p EXCEPT !.targets = ts, !.pc = "measure"])
      BY <2>1 DEF discover
    <3>2. QED
      BY <1>3, <1>4, <3>1
  <2>2. CASE measure(w)
    <3>1. PICK rs : \/ Set(w, Ended(p, "error"))
                    \/ Set(w, [p EXCEPT !.results = rs, !.pc = "store"])
      BY <2>2 DEF measure
    <3>2. QED
      BY <1>3, <1>4, <3>1
  <2>3. QED
    BY <2>1, <2>2
<1>6. QED
  BY <1>1, <1>5, SetOne, EarlyStep

(* share_all_pending takes the files that are pending now. *)
LEMMA ListStep ==
    ASSUME ShareInv, NEW w \in Workers, share_all_pending(w)
    PROVE  ShareInv'
<1> DEFINE p == work[w]
<1>1. UNCHANGED <<files, gh, clashed>> /\ p.pc = "list"
  BY DEF share_all_pending
<1>2. Early(p, files)
  BY <1>1, EarlyPc
<1>3. \A msg : Early(Ended(p, msg), files)
  BY EndedEarly
<1>4. \A s \in SUBSET DOMAIN files :
        /\ Early([p EXCEPT !.snap = s, !.pc = "auth"], files)
        /\ Early([p EXCEPT !.snap = s, !.pc = "submit"], files)
  BY <1>1, <1>2 DEF Early, WorkFields, Fresh, Asking, On
<1>5. \E q : Set(w, q) /\ Early(q, files)
  <2>1. PICK s \in SUBSET DOMAIN files :
          \/ Set(w, Ended(p, None))
          \/ Set(w, [p EXCEPT !.snap = s, !.pc = "auth"])
          \/ Set(w, [p EXCEPT !.snap = s, !.pc = "submit"])
    BY DEF share_all_pending
  <2>2. QED
    BY <1>3, <1>4, <2>1
<1>6. QED
  BY <1>1, <1>5, SetOne, EarlyStep

(* A file whose place alone changes keeps the store one. *)
Place(e, e2, x) ==
    e2 = e \/ (DOMAIN e2 = {"where", "payload"} /\ e2.payload = e.payload /\ e2.where = x)

(* Moving files is all that happens to them. *)
LEMMA Moved ==
    ASSUME NEW fs, StoreOk(fs), NEW fs2, NEW x, DOMAIN fs2 = DOMAIN fs, IsMap(fs2),
           \A i \in DOMAIN fs : Place(fs[i], fs2[i], x)
    PROVE  /\ StoreOk(fs2)
           /\ \A i \in DOMAIN fs : fs2[i].payload = fs[i].payload
           /\ \A i \in DOMAIN fs : fs2[i].where = fs[i].where \/ fs2[i].where = x
<1>1. IsSeq(fs2)
  BY SamePlaces DEF StoreOk
<1>2. QED
  BY <1>1 DEF StoreOk, Place

(* store_local and stored: a file appears, is complete or remains torn. *)
LEMMA StoreStep ==
    ASSUME ShareInv, NEW w \in Workers, store_local(w) \/ stored(w)
    PROVE  ShareInv'
<1> DEFINE p == work[w]
<1>1. UNCHANGED <<gh, clashed>> /\ p.pc \in {"store", "stored"}
  BY DEF store_local, stored
<1>2. Early(p, files) /\ StoreOk(files)
  BY <1>1, EarlyPc DEF ShareInv
<1> DEFINE Kept == /\ StoreOk(files')
                   /\ DOMAIN files \subseteq DOMAIN files'
                   /\ \A i \in DOMAIN files : files'[i].payload = files[i].payload
                   /\ \A f \in DOMAIN files' : files'[f].where = "shared" =>
                         f \in DOMAIN files /\ files[f].where = "shared"
<1>3. Kept
  <2>1. CASE files' = files
    BY <1>2, <2>1
  <2>2. ASSUME NEW e, DOMAIN e = {"where", "payload"}, e.where = "writing", files' = Append(files, e)
        PROVE  Kept
    <3>1. IsSeq(files)
      BY <1>2 DEF StoreOk
    <3>2. /\ IsSeq(files')
          /\ DOMAIN files' = DOMAIN files \cup {Len(files) + 1}
          /\ \A i \in DOMAIN files : files'[i] = files[i]
          /\ files'[Len(files) + 1] = e
      BY <2>2, <3>1, Appended
    <3>3. QED
      BY <1>2, <2>2, <3>2 DEF StoreOk
  <2>3. ASSUME NEW x \in {"pending", "torn"}, files' = [files EXCEPT ![p.n].where = x]
        PROVE  Kept
    <3>1. /\ DOMAIN files' = DOMAIN files
          /\ IsMap(files')
          /\ \A i \in DOMAIN files : Place(files[i], files'[i], x)
      BY <1>2, <2>3 DEF IsMap, StoreOk, Place
    <3>2. /\ StoreOk(files')
          /\ \A i \in DOMAIN files : files'[i].payload = files[i].payload
          /\ \A i \in DOMAIN files : files'[i].where = files[i].where \/ files'[i].where = x
      BY <1>2, <3>1, Moved
    <3>3. QED
      BY <3>1, <3>2
  <2>4. QED
    BY <2>1, <2>2, <2>3 DEF store_local, stored
<1>4. Grown(files, gh, clashed, files', gh', clashed')
  BY <1>1, <1>3 DEF Grown
<1>5. \E q : Set(w, q) /\ Early(q, files')
  <2>1. /\ \A x : Early([p EXCEPT !.pc = "stored", !.n = x], files')
        /\ Early(p, files') /\ Early([p EXCEPT !.n = 1], files')
    BY <1>1, <1>2, <1>3 DEF Early, WorkFields, Fresh, Asking, On
  <2>2. Early(AfterStore(p), files') /\ Early(AfterStore([p EXCEPT !.n = 1]), files')
    BY <2>1, StoreEarly
  <2>3. QED
    BY <2>1, <2>2 DEF store_local, stored
<1>6. /\ DOMAIN work' = Workers /\ \A v \in Workers \ {w} : work'[v] = work[v]
      /\ Early(work'[w], files')
  BY <1>5, SetOne
<1>7. WorkerOk(work'[w], files', gh', clashed') /\ work'[w].pc \notin On
  BY <1>6, EarlyOk DEF Early
<1>8. SharedOk(files', gh', clashed')
  BY <1>3, <1>4, SharedStays DEF ShareInv
<1>9. GhOk(gh') /\ gh' = gh
  BY <1>1 DEF ShareInv
<1>10. QED
  BY <1>3, <1>4, <1>6, <1>7, <1>8, <1>9, StepOk DEF Rivals

(* prepare_files chooses what identifies its hardware, or gives up. *)
LEMMA PrepareStep ==
    ASSUME ShareInv, NEW w \in Workers, prepare_files(w)
    PROVE  ShareInv'
<1> DEFINE p == work[w]
           todo == {f \in p.snap : NamesHw(files, f)}
<1>1. UNCHANGED <<files, gh, clashed>> /\ p.pc = "submit"
  BY DEF prepare_files
<1>2. Early(p, files)
  BY <1>1, EarlyPc
<1>3. todo = {f \in p.snap : Identified(f)}
  BY DEF Identified, NamesHw
<1>4. CASE Set(w, Ended(p, "done"))
  BY <1>1, <1>4, SetOne, EndedEarly, EarlyStep
<1>5. CASE todo # {} /\ \E b : b.files = todo /\
             Set(w, [p EXCEPT !.todo = todo, !.n = Min(todo), !.pc = "fork", !.branch = b])
  <2>1. PICK b : b.files = todo /\
             Set(w, [p EXCEPT !.todo = todo, !.n = Min(todo), !.pc = "fork", !.branch = b])
    BY <1>5
  <2> DEFINE q == [p EXCEPT !.todo = todo, !.n = Min(todo), !.pc = "fork", !.branch = b]
  <2>2. /\ DOMAIN q = WorkFields /\ q.snap = p.snap /\ q.snap \subseteq DOMAIN files /\ Fresh(q)
        /\ q.pc = "fork" /\ q.todo = todo /\ q.n = Min(todo) /\ q.branch.files = todo
    BY <1>2, <2>1 DEF Early, WorkFields, Fresh
  <2>3. WorkerOk(q, files, gh, clashed)
    BY <1>5, <2>2 DEF WorkerOk, ChosenOk, AskingOk, OnOk, MarkOk, On
  <2>4. /\ DOMAIN work' = Workers /\ work'[w] = q
        /\ \A v \in Workers \ {w} : work'[v] = work[v]
    BY <2>1, SetOne
  <2>5. QED
    BY <1>1, <2>2, <2>3, <2>4, QuietOk DEF On
<1>6. QED
  BY <1>3, <1>4, <1>5 DEF prepare_files, ShareFailed

(* A worker that asks on keeps what it has chosen. *)
LEMMA AsksOn ==
    ASSUME NEW p, NEW fs, NEW g, NEW c, WorkerOk(p, fs, g, c), p.pc \in Asking,
           NEW q, DOMAIN q = WorkFields, q.pc \in Asking, q.snap = p.snap, q.todo = p.todo,
           q.n = p.n, q.branch = p.branch, q.reused = p.reused, q.uploaded = p.uploaded,
           q.pc = "branch" => q.base \subseteq g.main
    PROVE  WorkerOk(q, fs, g, c)
<1>1. Fresh(q) /\ q.pc \notin On \cup {"mark"} /\ p.pc \notin On \cup {"mark"}
  BY DEF WorkerOk, AskingOk, Asking, On, Fresh
<1>2. ChosenOk(q, fs) /\ q.snap \subseteq DOMAIN fs
  BY DEF WorkerOk, ChosenOk
<1>3. AskingOk(q, g)
  BY <1>1 DEF WorkerOk, AskingOk
<1>4. QED
  BY <1>1, <1>2, <1>3 DEF WorkerOk, OnOk, MarkOk

(* ensure_fork, its polls and upstream_head_sha. *)
LEMMA AskStep ==
    ASSUME ShareInv, NEW w \in Workers, ensure_fork(w) \/ poll_fork(w) \/ upstream_head_sha(w)
    PROVE  ShareInv'
<1> DEFINE p == work[w]
<1>1. UNCHANGED <<files, clashed>> /\ p.pc \in {"fork", "poll", "head"}
  BY DEF ensure_fork, poll_fork, upstream_head_sha
<1>2. WorkerOk(p, files, gh, clashed) /\ DOMAIN p = WorkFields /\ GhOk(gh)
  BY DEF ShareInv, WorkerOk
<1>3. /\ DOMAIN gh' = DOMAIN gh /\ gh'.main = gh.main /\ gh'.branches = gh.branches
      /\ gh'.prs = gh.prs
  BY <1>2 DEF ensure_fork, poll_fork, upstream_head_sha, GhOk
<1>4. GhOk(gh') /\ Grown(files, gh, clashed, files', gh', clashed')
  BY <1>1, <1>2, <1>3 DEF GhOk, Grown
<1>5. SharedOk(files', gh', clashed')
  BY <1>1, <1>4, SharedStays DEF ShareInv
<1> DEFINE Good(q) == WorkerOk(q, files, gh, clashed) /\ q.pc \notin On
<1>6. \A msg : Good(Ended(p, msg))
  BY EndedEarly, EarlyOk DEF Early
<1>7. /\ \A x \in {"find", "poll"} : \A t :
            Good([p EXCEPT !.pc = x]) /\ Good([p EXCEPT !.pc = x, !.tries = t])
      /\ \A t : Good([p EXCEPT !.tries = t])
      /\ Good([p EXCEPT !.pc = "branch", !.base = gh.main])
  <2>1. p.pc \in Asking
    BY <1>1 DEF Asking
  <2>2. ASSUME NEW q, DOMAIN q = WorkFields, q.pc \in {"fork", "poll", "head", "find", "branch"},
               q.snap = p.snap, q.todo = p.todo, q.n = p.n, q.branch = p.branch,
               q.reused = p.reused, q.uploaded = p.uploaded, q.pc = "branch" => q.base \subseteq gh.main
        PROVE  Good(q)
    BY <1>2, <2>1, <2>2, AsksOn DEF Asking, On
  <2>3. ASSUME NEW x \in {"find", "poll"}, NEW t
        PROVE  Good([p EXCEPT !.pc = x]) /\ Good([p EXCEPT !.pc = x, !.tries = t])
    <3>1. Good([p EXCEPT !.pc = x])
      BY <1>2, <2>2 DEF WorkFields
    <3>2. Good([p EXCEPT !.pc = x, !.tries = t])
      BY <1>2, <2>2 DEF WorkFields
    <3>3. QED
      BY <3>1, <3>2
  <2>4. ASSUME NEW t PROVE Good([p EXCEPT !.tries = t])
    BY <1>1, <1>2, <2>2 DEF WorkFields
  <2>5. Good([p EXCEPT !.pc = "branch", !.base = gh.main])
    BY <1>2, <2>2 DEF WorkFields
  <2>6. QED
    BY <2>3, <2>4, <2>5
<1>8. \E q : Set(w, q) /\ Good(q)
  <2>1. CASE ensure_fork(w)
    BY <1>6, <1>7, <2>1 DEF ensure_fork, NoAnswer, ShareFailed
  <2>2. CASE poll_fork(w)
    BY <1>6, <1>7, <2>2 DEF poll_fork, ShareFailed
  <2>3. CASE upstream_head_sha(w)
    BY <1>6, <1>7, <2>3 DEF upstream_head_sha, NoAnswer, ShareFailed
  <2>4. QED
    BY <2>1, <2>2, <2>3
<1>9. /\ DOMAIN work' = Workers /\ \A v \in Workers \ {w} : work'[v] = work[v]
      /\ Good(work'[w])
  BY <1>8, SetOne
<1>10. WorkerOk(work'[w], files', gh', clashed') /\ work'[w].pc \notin On
  <2>1. WorkerOk(work'[w], files, gh, clashed) /\ work'[w].pc \notin On
    BY <1>9
  <2>2. QED
    BY <1>2, <1>4, <2>1, WorkerStays
<1>11. StoreOk(files') /\ \A v \in Workers \ {w} : ~ Rivals(work'[w], work[v])
  BY <1>1, <1>10 DEF ShareInv, Rivals
<1>12. QED
  BY <1>3, <1>4, <1>5, <1>9, <1>10, <1>11, StepOk

(* The first file that was chosen. *)
LEMMA FirstChosen ==
    ASSUME NEW p, NEW fs, NEW g, NEW c, StoreOk(fs), WorkerOk(p, fs, g, c),
           p.pc \in Asking \cup On \cup {"mark"}
    PROVE  /\ Min(p.todo) \in p.todo /\ \A f \in p.todo : Min(p.todo) <= f
           /\ Min(p.snap) \in p.snap
           /\ p.todo \subseteq p.snap /\ p.snap \subseteq Nat
<1>1. DOMAIN fs \subseteq Nat
  BY DEF StoreOk, IsSeq
<1>2. /\ p.todo # {} /\ p.todo \subseteq p.snap
      /\ p.snap \subseteq Nat
  BY <1>1 DEF WorkerOk, ChosenOk
<1>3. p.todo \subseteq Nat /\ p.snap # {}
  BY <1>2
<1>4. QED
  BY <1>2, <1>3, LeastOf

(* find_open_bench_pr: the branch of an open pull request, or a new one. *)
LEMMA FindStep ==
    ASSUME ShareInv, NEW w \in Workers, find_open_bench_pr(w)
    PROVE  ShareInv'
<1> DEFINE p == work[w]
<1>1. UNCHANGED <<files, gh, clashed>> /\ p.pc = "find" /\ p.pc \in Asking
  BY DEF find_open_bench_pr, Asking
<1>2. WorkerOk(p, files, gh, clashed) /\ DOMAIN p = WorkFields /\ GhOk(gh) /\ StoreOk(files)
  BY DEF ShareInv, WorkerOk
<1>3. CASE Set(w, [p EXCEPT !.pc = "head"])
  <2> DEFINE q == [p EXCEPT !.pc = "head"]
  <2>1. WorkerOk(q, files, gh, clashed) /\ q.pc \notin On
    BY <1>1, <1>2, AsksOn DEF WorkFields, Asking, On
  <2>2. /\ DOMAIN work' = Workers /\ work'[w] = q
        /\ \A v \in Workers \ {w} : work'[v] = work[v]
    BY <1>3, SetOne
  <2>3. QED
    BY <1>1, <2>1, <2>2, QuietOk
<1>4. CASE /\ OpenPrs # {}
           /\ Set(w, [p EXCEPT !.pc = "put", !.reused = TRUE, !.branch = gh.prs[Max(OpenPrs)].branch])
  <2> DEFINE b == gh.prs[Max(OpenPrs)].branch
             q == [p EXCEPT !.pc = "put", !.reused = TRUE, !.branch = b]
  <2>1. Max(OpenPrs) \in DOMAIN gh.prs
    <3>1. DOMAIN gh.prs = 1..Len(gh.prs) /\ Len(gh.prs) \in Nat
      BY <1>2 DEF GhOk, IsSeq
    <3>2. OpenPrs \subseteq 0..Len(gh.prs) /\ OpenPrs \subseteq DOMAIN gh.prs
      BY <3>1 DEF OpenPrs
    <3>3. QED
      BY <1>4, <3>1, <3>2, GreatestOf
  <2>2. b \in DOMAIN gh.branches /\ HasPr(gh, b)
    BY <1>2, <2>1 DEF GhOk, HasPr
  <2>3. /\ DOMAIN q = WorkFields /\ q.snap = p.snap /\ q.todo = p.todo /\ q.n = p.n
        /\ q.pc = "put" /\ q.reused = TRUE /\ q.branch = b /\ q.uploaded = p.uploaded
    BY <1>2 DEF WorkFields
  <2>4. p.n = Min(p.todo) /\ p.uploaded = 0
    BY <1>1, <1>2 DEF WorkerOk, AskingOk, On, Fresh
  <2>5. q.n \in q.todo /\ \A f \in q.todo : ~ (f < q.n)
    <3>1. Min(p.todo) \in p.todo /\ p.todo \subseteq Nat /\ \A f \in p.todo : Min(p.todo) <= f
      BY <1>1, <1>2, FirstChosen
    <3>2. QED
      BY <2>3, <2>4, <3>1
  <2>6. OnOk(q, gh, clashed)
    BY <2>2, <2>3, <2>4, <2>5 DEF OnOk
  <2>7. WorkerOk(q, files, gh, clashed)
    BY <1>1, <1>2, <2>3, <2>6 DEF WorkerOk, ChosenOk, AskingOk, MarkOk, Asking, On
  <2>8. /\ DOMAIN work' = Workers /\ work'[w] = q
        /\ \A v \in Workers \ {w} : work'[v] = work[v]
    BY <1>4, SetOne
  <2>9. QED
    BY <1>1, <2>3, <2>7, <2>8, QuietOk
<1>5. QED
  BY <1>3, <1>4 DEF find_open_bench_pr

(* A submission that fails changes nothing of the worker's own, whatever   *)
(* the request did on GitHub.                                              *)
LEMMA FailStep ==
    ASSUME ShareInv, NEW w \in Workers, ShareFailed(w), UNCHANGED <<files, clashed>>,
           GhOk(gh'), Grown(files, gh, clashed, files', gh', clashed'),
           \A b \in DOMAIN gh.branches :
               gh'.branches[b] = gh.branches[b] \/ (work[w].pc = "put" /\ work[w].branch = b)
    PROVE  ShareInv'
<1>1. /\ DOMAIN work' = Workers /\ work'[w] = Ended(work[w], "done")
      /\ \A v \in Workers \ {w} : work'[v] = work[v]
  BY SetOne DEF ShareFailed
<1>2. Early(work'[w], files')
  BY <1>1, EndedEarly
<1>3. WorkerOk(work'[w], files', gh', clashed') /\ work'[w].pc \notin On
  BY <1>2, EarlyOk DEF Early
<1>4. SharedOk(files', gh', clashed')
  BY SharedStays DEF ShareInv
<1>5. StoreOk(files') /\ \A v \in Workers \ {w} : ~ Rivals(work'[w], work[v])
  BY <1>3 DEF ShareInv, Rivals
<1>6. QED
  BY <1>1, <1>3, <1>4, <1>5, StepOk

(* Nothing grows into itself. *)
LEMMA SameGrown ==
    ASSUME NEW fs, NEW g, NEW c PROVE Grown(fs, g, c, fs, g, c)
  BY DEF Grown

(* create_branch: a branch at the head of the repository, or the one that  *)
(* another submission of the same files in the same second made.           *)
LEMMA BranchStep ==
    ASSUME ShareInv, NEW w \in Workers, create_branch(w)
    PROVE  ShareInv'
<1> DEFINE p == work[w]
           q == [p EXCEPT !.pc = "put"]
<1>1. files' = files /\ p.pc = "branch" /\ p.pc \in Asking
  BY DEF create_branch, Asking
<1>2. WorkerOk(p, files, gh, clashed) /\ DOMAIN p = WorkFields /\ GhOk(gh) /\ StoreOk(files)
  BY DEF ShareInv, WorkerOk
<1>3. CASE ShareFailed(w) /\ UNCHANGED <<gh, clashed>>
  BY <1>1, <1>2, <1>3, SameGrown, FailStep
<1>4. ASSUME Set(w, q), GhOk(gh'), Grown(files, gh, clashed, files', gh', clashed'),
             \A b \in DOMAIN gh.branches : gh'.branches[b] = gh.branches[b],
             p.branch \in DOMAIN gh'.branches, NothingNew(p, gh', clashed'),
             \A v \in Workers \ {w} : work[v].pc \in On /\ work[v].branch = p.branch =>
                p.todo \subseteq clashed'
      PROVE  ShareInv'
  <2>1. /\ DOMAIN work' = Workers /\ work'[w] = q
        /\ \A v \in Workers \ {w} : work'[v] = work[v]
    BY <1>4, SetOne
  <2>2. /\ DOMAIN q = WorkFields /\ q.snap = p.snap /\ q.todo = p.todo /\ q.n = p.n
        /\ q.pc = "put" /\ q.reused = FALSE /\ q.branch = p.branch /\ q.uploaded = 0
        /\ p.n = Min(p.todo) /\ p.branch.files = p.todo
    BY <1>1, <1>2 DEF WorkFields, WorkerOk, AskingOk, On, Fresh
  <2>3. q.n \in q.todo /\ \A f \in q.todo : ~ (f < q.n)
    <3>1. Min(p.todo) \in p.todo /\ p.todo \subseteq Nat /\ \A f \in p.todo : Min(p.todo) <= f
      BY <1>1, <1>2, FirstChosen
    <3>2. QED
      BY <2>2, <3>1
  <2>4. NothingNew(q, gh', clashed')
    BY <1>4, <2>2 DEF NothingNew
  <2>5. OnOk(q, gh', clashed')
    BY <1>4, <2>2, <2>3, <2>4 DEF OnOk
  <2>6. WorkerOk(q, files', gh', clashed')
    BY <1>1, <1>2, <2>2, <2>5 DEF WorkerOk, ChosenOk, AskingOk, MarkOk, Asking, On
  <2>7. ASSUME NEW v \in Workers \ {w}, Rivals(q, work[v])
        PROVE  work[v].todo \subseteq clashed' /\ q.todo \subseteq clashed'
    <3>1. work[v].pc \in On /\ work[v].branch = p.branch /\ work[v].reused = FALSE
      BY <2>2, <2>7 DEF Rivals
    <3>2. work[v].todo = p.todo
      BY <2>2, <3>1 DEF ShareInv, WorkerOk, OnOk
    <3>3. QED
      BY <1>4, <2>2, <3>1, <3>2
  <2>8. SharedOk(files', gh', clashed')
    BY <1>1, <1>4, SharedStays DEF ShareInv
  <2>9. WorkerOk(work'[w], files', gh', clashed') /\ StoreOk(files')
    BY <1>1, <1>2, <2>1, <2>6
  <2>10. \A v \in Workers \ {w} :
           Rivals(work'[w], work[v]) => /\ work[v].todo \subseteq clashed'
                                        /\ work'[w].todo \subseteq clashed'
    BY <2>1, <2>7
  <2>11. DOMAIN work' = Workers /\ \A v \in Workers \ {w} : work'[v] = work[v]
    BY <2>1
  <2> HIDE DEF q
  <2>12. QED
    BY <1>4, <2>8, <2>9, <2>10, <2>11, StepOk
<1>5. CASE p.branch \in DOMAIN gh.branches /\ gh' = gh /\ clashed' = clashed \cup p.todo /\ Set(w, q)
  <2>1. GhOk(gh') /\ Grown(files, gh, clashed, files', gh', clashed') /\ p.todo \subseteq clashed'
    BY <1>1, <1>2, <1>5 DEF Grown
  <2>2. NothingNew(p, gh', clashed')
    BY <2>1 DEF NothingNew
  <2>3. QED
    BY <1>4, <1>5, <2>1, <2>2
<1>6. CASE /\ p.branch \notin DOMAIN gh.branches /\ clashed' = clashed /\ Set(w, q)
           /\ gh' = [gh EXCEPT !.branches = [b \in DOMAIN @ \cup {p.branch} |->
                                               IF b = p.branch THEN p.base ELSE @[b]]]
  <2>1. /\ DOMAIN gh' = DOMAIN gh /\ gh'.main = gh.main /\ gh'.prs = gh.prs
        /\ DOMAIN gh'.branches = DOMAIN gh.branches \cup {p.branch}
        /\ \A b \in DOMAIN gh.branches : gh'.branches[b] = gh.branches[b]
        /\ gh'.branches[p.branch] = p.base
    BY <1>2, <1>6 DEF GhOk
  <2>2. GhOk(gh') /\ Grown(files, gh, clashed, files', gh', clashed')
    BY <1>1, <1>2, <1>6, <2>1 DEF GhOk, Grown
  <2>3. NothingNew(p, gh', clashed')
    BY <1>1, <1>2, <2>1 DEF NothingNew, WorkerOk, AskingOk
  <2>4. \A v \in Workers \ {w} : ~ (work[v].pc \in On /\ work[v].branch = p.branch)
    BY <1>6 DEF ShareInv, WorkerOk, OnOk
  <2>5. QED
    BY <1>4, <1>6, <2>1, <2>2, <2>3, <2>4
<1>7. QED
  BY <1>3, <1>5, <1>6 DEF create_branch, NoAnswer

Put(g, b, n, g2) == g2 = [g EXCEPT !.branches[b] = @ \cup {n}]

(* A file that is put on a branch is all that changes. *)
LEMMA PutGrows ==
    ASSUME NEW g, GhOk(g), NEW b \in DOMAIN g.branches, NEW n, NEW g2, Put(g, b, n, g2),
           NEW fs, NEW c
    PROVE  /\ GhOk(g2) /\ Grown(fs, g, c, fs, g2, c)
           /\ g2.main = g.main /\ g2.prs = g.prs
           /\ \A x \in DOMAIN g.branches : x # b => g2.branches[x] = g.branches[x]
           /\ g2.branches[b] = g.branches[b] \cup {n}
           /\ DOMAIN g2.branches = DOMAIN g.branches
<1>1. /\ DOMAIN g2 = DOMAIN g /\ g2.main = g.main /\ g2.prs = g.prs
      /\ DOMAIN g2.branches = DOMAIN g.branches
      /\ \A x \in DOMAIN g.branches : x # b => g2.branches[x] = g.branches[x]
      /\ g2.branches[b] = g.branches[b] \cup {n}
  BY DEF GhOk, Put
<1>2. QED
  BY <1>1 DEF GhOk, Grown

(* put_files: one more file, or one that is there, and the next; after the *)
(* last everything that was chosen is on the branch, and it is offered     *)
(* where no pull request remains to be opened.                             *)
LEMMA PutWorker ==
    ASSUME NEW p, NEW fs, NEW g, NEW c, StoreOk(fs), GhOk(g), WorkerOk(p, fs, g, c), p.pc = "put",
           NEW g2, Put(g, p.branch, p.n, g2),
           NEW sum, sum = IF p.n \notin g.branches[p.branch] THEN p.uploaded + 1 ELSE p.uploaded,
           NEW q, DOMAIN q = WorkFields, q.snap = p.snap, q.todo = p.todo, q.branch = p.branch,
           q.reused = p.reused, q.uploaded = sum,
           LET rest == {f \in p.todo : f > p.n}
           IN  \/ rest # {} /\ q.n = Min(rest) /\ q.pc = "put"
               \/ /\ rest = {} /\ q.n = Min(p.snap)
                  /\ q.pc = IF p.reused \/ sum = 0 THEN "mark" ELSE "open"
    PROVE  WorkerOk(q, fs, g2, c)
<1> DEFINE b == p.branch
           rest == {f \in p.todo : f > p.n}
<1>1. /\ b \in DOMAIN g.branches /\ p.uploaded \in Nat /\ p.n \in p.todo
      /\ \A f \in p.todo : f < p.n => f \in g.branches[b]
      /\ (p.reused = TRUE /\ HasPr(g, b)) \/ (p.reused = FALSE /\ b.files = p.todo)
      /\ p.reused = FALSE /\ p.uploaded = 0 => NothingNew(p, g, c)
  BY DEF WorkerOk, OnOk, On
<1>2. /\ GhOk(g2) /\ Grown(fs, g, c, fs, g2, c) /\ g2.main = g.main /\ g2.prs = g.prs
      /\ g2.branches[b] = g.branches[b] \cup {p.n}
      /\ DOMAIN g2.branches = DOMAIN g.branches
  BY <1>1, PutGrows
<1>3. /\ Min(p.snap) \in p.snap /\ p.todo \subseteq p.snap /\ p.snap \subseteq Nat
  BY FirstChosen DEF On
<1>4. p.snap \subseteq DOMAIN fs /\ p.todo # {} /\ p.todo = {f \in p.snap : NamesHw(fs, f)}
  BY DEF WorkerOk, ChosenOk, On
<1>5. q.snap \subseteq DOMAIN fs /\ ChosenOk(q, fs)
  BY <1>4 DEF ChosenOk
<1>6. AskingOk(q, g2)
  BY DEF AskingOk, Asking, On
<1>7. sum \in Nat /\ (sum = 0 => p.uploaded = 0 /\ g2.branches[b] = g.branches[b])
  BY <1>1, <1>2
<1>8. HasPr(g2, b) <=> HasPr(g, b)
  BY <1>2 DEF HasPr
<1>9. p.reused = FALSE /\ sum = 0 => NothingNew(q, g2, c)
  BY <1>1, <1>2, <1>7, <1>8 DEF NothingNew
<1>10. CASE rest # {} /\ q.n = Min(rest) /\ q.pc = "put"
  <2>1. Min(rest) \in rest /\ \A f \in rest : Min(rest) <= f
    BY <1>3, <1>10, LeastOf
  <2>2. q.n \in q.todo /\ \A f \in q.todo : f < q.n => f \in g2.branches[b]
    <3>1. ASSUME NEW f \in p.todo, f < Min(rest) PROVE f \in g2.branches[b]
      <4>1. ~ (f > p.n)
        <5>1. f \in Nat /\ Min(rest) \in Nat
          BY <1>3, <2>1
        <5>2. f \notin rest
          BY <2>1, <3>1, <5>1
        <5>3. QED
          BY <5>2
      <4>2. f < p.n \/ f = p.n
        BY <1>1, <1>3, <4>1
      <4>3. QED
        BY <1>1, <1>2, <4>2
    <3>2. QED
      BY <1>10, <2>1, <3>1
  <2>3. OnOk(q, g2, c)
    BY <1>1, <1>2, <1>7, <1>8, <1>9, <1>10, <2>2 DEF OnOk
  <2>4. QED
    BY <1>5, <1>6, <1>10, <2>3 DEF WorkerOk, MarkOk
<1>11. ASSUME rest = {} PROVE p.todo \subseteq g2.branches[b]
  <2>1. ASSUME NEW f \in p.todo PROVE f \in g2.branches[b]
    <3>1. f < p.n \/ f = p.n
      BY <1>1, <1>3, <1>11
    <3>2. QED
      BY <1>1, <1>2, <3>1
  <2>2. QED
    BY <2>1
<1>12. CASE rest = {} /\ q.n = Min(p.snap) /\ q.pc = "open" /\ p.reused = FALSE /\ sum # 0
  <2>1. OnOk(q, g2, c)
    BY <1>1, <1>2, <1>3, <1>7, <1>11, <1>12 DEF OnOk
  <2>2. QED
    BY <1>5, <1>6, <1>12, <2>1 DEF WorkerOk, MarkOk
<1>13. CASE rest = {} /\ q.n = Min(p.snap) /\ q.pc = "mark" /\ (p.reused = TRUE \/ sum = 0)
  <2>1. HasPr(g2, b) => \A f \in p.todo : IsOffered(g2, c, f)
    BY <1>11, <1>13 DEF HasPr, IsOffered
  <2>2. \A f \in p.todo : IsOffered(g2, c, f)
    <3>1. CASE p.reused = TRUE
      BY <1>1, <1>8, <2>1, <3>1
    <3>2. CASE p.reused = FALSE
      <4>1. NothingNew(q, g2, c)
        BY <1>9, <1>13, <3>2
      <4>2. QED
        BY <1>11, <1>13, <2>1, <4>1 DEF NothingNew, IsOffered
    <3>3. QED
      BY <1>1, <3>1, <3>2
  <2>3. MarkOk(q, g2, c)
    BY <1>3, <1>13, <2>2 DEF MarkOk
  <2>4. QED
    BY <1>5, <1>6, <1>13, <2>3 DEF WorkerOk, OnOk, On
<1>14. QED
  BY <1>1, <1>10, <1>12, <1>13

(* put_files as a step of the system: an answer that is lost may have left *)
(* the file on the branch.                                                 *)
LEMMA PutStep ==
    ASSUME ShareInv, NEW w \in Workers, put_files(w)
    PROVE  ShareInv'
<1> DEFINE p == work[w]
           added == [gh EXCEPT !.branches[p.branch] = @ \cup {p.n}]
<1>1. UNCHANGED <<files, clashed>> /\ p.pc = "put"
  BY DEF put_files
<1>2. /\ WorkerOk(p, files, gh, clashed) /\ DOMAIN p = WorkFields /\ GhOk(gh) /\ StoreOk(files)
      /\ p.branch \in DOMAIN gh.branches
  BY <1>1 DEF ShareInv, WorkerOk, OnOk, On
<1>3. gh' = added =>
        /\ Put(gh, p.branch, p.n, gh') /\ GhOk(gh') /\ Grown(files, gh, clashed, files', gh', clashed')
        /\ \A b \in DOMAIN gh.branches : b # p.branch => gh'.branches[b] = gh.branches[b]
  <2>1. gh' = added => Put(gh, p.branch, p.n, gh')
    BY DEF Put
  <2>2. QED
    BY <1>1, <1>2, <2>1, PutGrows
<1>4. CASE NoAnswer(w) /\ gh' \in {gh, added}
  <2>1. GhOk(gh') /\ Grown(files, gh, clashed, files', gh', clashed')
    BY <1>1, <1>2, <1>3, <1>4, SameGrown
  <2>2. \A b \in DOMAIN gh.branches :
          gh'.branches[b] = gh.branches[b] \/ (p.pc = "put" /\ p.branch = b)
    BY <1>1, <1>3, <1>4
  <2>3. QED
    BY <1>1, <1>4, <2>1, <2>2, FailStep DEF NoAnswer
<1>5. CASE ShareFailed(w) /\ gh' = gh
  BY <1>1, <1>2, <1>5, SameGrown, FailStep
<1>6. CASE p.token # "weak" /\ gh' = added /\ ~ NoAnswer(w)
  <2> DEFINE sum == IF p.n \notin gh.branches[p.branch] THEN p.uploaded + 1 ELSE p.uploaded
             rest == {f \in p.todo : f > p.n}
             pc == IF p.reused \/ sum = 0 THEN "mark" ELSE "open"
             q == IF rest # {} THEN [p EXCEPT !.n = Min(rest), !.uploaded = sum]
                  ELSE [p EXCEPT !.n = Min(p.snap), !.uploaded = sum, !.pc = pc]
  <2>1. Set(w, q)
    BY <1>6 DEF put_files
  <2>2. /\ DOMAIN q = WorkFields /\ q.snap = p.snap /\ q.todo = p.todo /\ q.branch = p.branch
        /\ q.reused = p.reused /\ q.uploaded = sum
        /\ \/ rest # {} /\ q.n = Min(rest) /\ q.pc = "put"
           \/ rest = {} /\ q.n = Min(p.snap) /\ q.pc = pc
    BY <1>1, <1>2 DEF WorkFields
  <2>3. WorkerOk(q, files, gh', clashed)
    <3> HIDE DEF q, sum
    <3>1. sum = IF p.n \notin gh.branches[p.branch] THEN p.uploaded + 1 ELSE p.uploaded
      BY DEF sum
    <3>2. QED
      BY <1>1, <1>2, <1>3, <1>6, <2>2, <3>1, PutWorker
  <2>4. /\ DOMAIN work' = Workers /\ work'[w] = q
        /\ \A v \in Workers \ {w} : work'[v] = work[v]
    BY <2>1, SetOne
  <2>5. WorkerOk(work'[w], files', gh', clashed')
    BY <1>1, <2>3, <2>4
  <2>6. ASSUME NEW v \in Workers \ {w}, Rivals(work'[w], work[v])
        PROVE  work[v].todo \subseteq clashed' /\ work'[w].todo \subseteq clashed'
    <3>1. /\ work'[w].todo = p.todo /\ work'[w].branch = p.branch
          /\ work'[w].reused = p.reused
      BY <2>2, <2>4
    <3>2. Rivals(p, work[v]) /\ Rivals(work[v], p)
      BY <1>1, <2>6, <3>1 DEF Rivals, On
    <3>3. work[v].todo \subseteq clashed /\ p.todo \subseteq clashed
      BY <3>2 DEF ShareInv, RivalsOk
    <3>4. QED
      BY <1>1, <3>1, <3>3
  <2>7. SharedOk(files', gh', clashed') /\ StoreOk(files')
    BY <1>1, <1>2, <1>3, <1>6, SharedStays DEF ShareInv
  <2>8. /\ DOMAIN work' = Workers /\ \A v \in Workers \ {w} : work'[v] = work[v]
        /\ \A b \in DOMAIN gh.branches :
              gh'.branches[b] = gh.branches[b] \/ (p.pc = "put" /\ p.branch = b)
    BY <1>1, <1>3, <1>6, <2>4
  <2> HIDE DEF q
  <2>9. QED
    BY <1>3, <1>6, <2>5, <2>6, <2>7, <2>8, StepOk
<1>7. QED
  BY <1>4, <1>5, <1>6 DEF put_files

(* open_pr: with the pull request everything on its branch is offered. *)
LEMMA OpenStep ==
    ASSUME ShareInv, NEW w \in Workers, open_pr(w)
    PROVE  ShareInv'
<1> DEFINE p == work[w]
           e == [branch |-> p.branch, state |-> "open"]
           opened == [gh EXCEPT !.prs = Append(@, e)]
           q == [p EXCEPT !.pc = "mark"]
<1>1. UNCHANGED <<files, clashed>> /\ p.pc = "open"
  BY DEF open_pr
<1>2. /\ WorkerOk(p, files, gh, clashed) /\ DOMAIN p = WorkFields /\ GhOk(gh) /\ StoreOk(files)
      /\ p.branch \in DOMAIN gh.branches /\ p.n \in p.snap /\ p.todo \subseteq gh.branches[p.branch]
  BY <1>1 DEF ShareInv, WorkerOk, OnOk, On
<1>3. ASSUME gh' = opened
      PROVE  /\ GhOk(gh') /\ Grown(files, gh, clashed, files', gh', clashed')
             /\ gh'.branches = gh.branches /\ HasPr(gh', p.branch)
  <2>1. /\ IsSeq(gh'.prs)
        /\ DOMAIN gh'.prs = DOMAIN gh.prs \cup {Len(gh.prs) + 1}
        /\ \A i \in DOMAIN gh.prs : gh'.prs[i] = gh.prs[i]
        /\ gh'.prs[Len(gh.prs) + 1] = e
    <3>1. gh'.prs = Append(gh.prs, e)
      BY <1>2, <1>3 DEF GhOk
    <3>2. IsSeq(gh.prs)
      BY <1>2 DEF GhOk
    <3> HIDE DEF e
    <3>3. QED
      BY <3>1, <3>2, Appended
  <2>2. DOMAIN gh' = DOMAIN gh /\ gh'.main = gh.main /\ gh'.branches = gh.branches
    BY <1>2, <1>3 DEF GhOk
  <2>3. GhOk(gh')
    BY <1>2, <2>1, <2>2 DEF GhOk
  <2>4. Grown(files, gh, clashed, files', gh', clashed')
    BY <1>1, <2>1, <2>2 DEF Grown
  <2>5. HasPr(gh', p.branch)
    BY <2>1 DEF HasPr
  <2>6. QED
    BY <2>2, <2>3, <2>4, <2>5
<1>4. CASE ShareFailed(w) /\ gh' \in {gh, opened}
  BY <1>1, <1>2, <1>3, <1>4, SameGrown, FailStep
<1>5. CASE gh' = opened /\ Set(w, q)
  <2>1. /\ DOMAIN q = WorkFields /\ q.snap = p.snap /\ q.todo = p.todo /\ q.n = p.n /\ q.pc = "mark"
    BY <1>2 DEF WorkFields
  <2>2. \A f \in p.todo : IsOffered(gh', clashed', f)
    BY <1>2, <1>3, <1>5 DEF HasPr, IsOffered
  <2>3. p.snap \subseteq DOMAIN files /\ ChosenOk(q, files)
    BY <1>1, <1>2, <2>1 DEF WorkerOk, ChosenOk, On
  <2>4. WorkerOk(q, files', gh', clashed')
    BY <1>1, <1>2, <2>1, <2>2, <2>3 DEF WorkerOk, AskingOk, OnOk, MarkOk, Asking, On
  <2>5. /\ DOMAIN work' = Workers /\ work'[w] = q
        /\ \A v \in Workers \ {w} : work'[v] = work[v]
    BY <1>5, SetOne
  <2>6. SharedOk(files', gh', clashed') /\ StoreOk(files')
    BY <1>1, <1>2, <1>3, <1>5, SharedStays DEF ShareInv
  <2>7. /\ WorkerOk(work'[w], files', gh', clashed')
        /\ \A v \in Workers \ {w} : ~ Rivals(work'[w], work[v])
    BY <2>1, <2>4, <2>5 DEF Rivals, On
  <2>8. /\ DOMAIN work' = Workers /\ \A v \in Workers \ {w} : work'[v] = work[v]
        /\ GhOk(gh') /\ Grown(files, gh, clashed, files', gh', clashed')
        /\ \A b \in DOMAIN gh.branches : gh'.branches[b] = gh.branches[b]
    BY <1>3, <1>5, <2>5
  <2> HIDE DEF q
  <2>9. QED
    BY <2>6, <2>7, <2>8, StepOk
<1>6. QED
  BY <1>4, <1>5 DEF open_pr, NoAnswer

(* mark_shared: what it moves has been offered, or identifies no hardware. *)
LEMMA MarkStep ==
    ASSUME ShareInv, NEW w \in Workers, mark_shared(w)
    PROVE  ShareInv'
<1> DEFINE p == work[w]
           rest == {i \in p.snap : i > p.n}
<1>1. UNCHANGED <<gh, clashed>> /\ p.pc = "mark"
  BY DEF mark_shared
<1>2. /\ WorkerOk(p, files, gh, clashed) /\ DOMAIN p = WorkFields /\ GhOk(gh) /\ StoreOk(files)
      /\ p.n \in p.snap /\ p.snap \subseteq DOMAIN files
      /\ p.todo = {f \in p.snap : NamesHw(files, f)} /\ \A f \in p.todo : IsOffered(gh, clashed, f)
  BY <1>1 DEF ShareInv, WorkerOk, MarkOk, ChosenOk
<1>3. files' = files \/ files' = [files EXCEPT ![p.n].where = "shared"]
  BY DEF mark_shared
<1>4. /\ StoreOk(files') /\ DOMAIN files' = DOMAIN files
      /\ \A i \in DOMAIN files : files'[i].payload = files[i].payload
      /\ \A i \in DOMAIN files : i # p.n => files'[i] = files[i]
  <2>1. CASE files' = files
    BY <1>2, <2>1
  <2>2. CASE files' = [files EXCEPT ![p.n].where = "shared"]
    <3>1. /\ DOMAIN files' = DOMAIN files /\ IsMap(files')
          /\ \A i \in DOMAIN files : i # p.n => files'[i] = files[i]
          /\ \A i \in DOMAIN files : Place(files[i], files'[i], "shared")
      BY <1>2, <2>2 DEF IsMap, StoreOk, Place
    <3>2. QED
      BY <1>2, <3>1, Moved
  <2>3. QED
    BY <1>3, <2>1, <2>2
<1>5. Grown(files, gh, clashed, files', gh', clashed')
  BY <1>1, <1>4 DEF Grown
<1>6. SharedOk(files', gh', clashed')
  <2> SUFFICES ASSUME NEW f \in DOMAIN files', files'[f].where = "shared", NamesHw(files', f)
               PROVE  IsOffered(gh', clashed', f)
    BY DEF SharedOk
  <2>1. NamesHw(files, f)
    BY <1>4 DEF NamesHw
  <2>2. CASE f = p.n
    BY <1>1, <1>2, <2>1, <2>2
  <2>3. CASE f # p.n
    BY <1>1, <1>4, <2>1, <2>3 DEF ShareInv, SharedOk
  <2>4. QED
    BY <2>2, <2>3
<1>7. \E q : Set(w, q) /\ WorkerOk(q, files, gh, clashed) /\ q.pc \notin On
  <2>1. CASE Set(w, Ended(p, "done"))
    BY <2>1, EndedEarly, EarlyOk DEF Early
  <2>2. CASE rest # {} /\ Set(w, [p EXCEPT !.n = Min(rest)])
    <3> DEFINE q == [p EXCEPT !.n = Min(rest)]
    <3>1. p.snap \subseteq Nat
      BY <1>2 DEF StoreOk, IsSeq
    <3>2. Min(rest) \in rest
      BY <2>2, <3>1, LeastOf
    <3>3. /\ DOMAIN q = WorkFields /\ q.snap = p.snap /\ q.todo = p.todo /\ q.pc = "mark"
          /\ q.n \in q.snap
      BY <1>1, <1>2, <3>2 DEF WorkFields
    <3>4. WorkerOk(q, files, gh, clashed)
      BY <1>1, <1>2, <3>3 DEF WorkerOk, ChosenOk, AskingOk, OnOk, MarkOk, Asking, On
    <3>5. QED
      BY <2>2, <3>3, <3>4 DEF On
  <2>3. QED
    BY <2>1, <2>2 DEF mark_shared
<1>8. /\ DOMAIN work' = Workers /\ \A v \in Workers \ {w} : work'[v] = work[v]
      /\ WorkerOk(work'[w], files, gh, clashed) /\ work'[w].pc \notin On
  BY <1>7, SetOne
<1>9. WorkerOk(work'[w], files', gh', clashed')
  BY <1>2, <1>5, <1>8, WorkerStays
<1>10. /\ \A v \in Workers \ {w} : ~ Rivals(work'[w], work[v])
       /\ GhOk(gh') /\ gh' = gh
  BY <1>1, <1>2, <1>8 DEF Rivals
<1>11. QED
  BY <1>4, <1>5, <1>6, <1>8, <1>9, <1>10, StepOk

(* Every step of a worker. *)
LEMMA WorkerStepOk ==
    ASSUME ShareInv, NEW w \in Workers, WorkerStep(w)
    PROVE  ShareInv'
  BY AuthStep, MeasureStep, StoreStep, ListStep, PrepareStep, AskStep, FindStep, BranchStep, PutStep,
     OpenStep, MarkStep DEF WorkerStep

-----------------------------------------------------------------------------
(* Everything else that touches the store, GitHub or a worker.             *)

(* ForkReady and Review: a maintainer merges or closes, nothing is lost. *)
LEMMA WorldStep ==
    ASSUME ShareInv, ForkReady \/ \E i \in DOMAIN gh.prs, s \in {"merged", "closed"} : Review(i, s)
    PROVE  ShareInv'
<1>1. UNCHANGED <<files, work, clashed>> /\ GhOk(gh)
  BY DEF ForkReady, Review, ShareInv
<1>2. /\ GhOk(gh') /\ gh'.branches = gh.branches
      /\ Grown(files, gh, clashed, files', gh', clashed')
  <2>1. CASE ForkReady
    <3>1. /\ DOMAIN gh' = DOMAIN gh /\ gh'.main = gh.main /\ gh'.branches = gh.branches
          /\ gh'.prs = gh.prs
      BY <1>1, <2>1 DEF ForkReady, GhOk
    <3>2. QED
      BY <1>1, <3>1 DEF GhOk, Grown
  <2>2. ASSUME NEW i \in DOMAIN gh.prs, NEW s \in {"merged", "closed"}, Review(i, s)
        PROVE  /\ GhOk(gh') /\ gh'.branches = gh.branches
               /\ Grown(files, gh, clashed, files', gh', clashed')
    <3>1. DOMAIN gh.prs[i] = {"branch", "state"}
      BY <1>1 DEF GhOk
    <3>2. /\ DOMAIN gh' = DOMAIN gh /\ gh'.branches = gh.branches /\ gh.main \subseteq gh'.main
          /\ gh'.prs = [gh.prs EXCEPT ![i].state = s]
      BY <1>1, <2>2 DEF Review, GhOk
    <3>3. /\ DOMAIN gh'.prs = DOMAIN gh.prs /\ IsMap(gh'.prs)
          /\ \A k \in DOMAIN gh.prs : /\ DOMAIN gh'.prs[k] = DOMAIN gh.prs[k]
                                      /\ gh'.prs[k].branch = gh.prs[k].branch
      BY <3>1, <3>2 DEF IsMap
    <3>4. IsSeq(gh'.prs)
      BY <1>1, <3>3, SamePlaces DEF GhOk
    <3>5. GhOk(gh')
      BY <1>1, <3>2, <3>3, <3>4 DEF GhOk
    <3>6. QED
      BY <1>1, <3>2, <3>3, <3>5 DEF Grown
  <2>3. QED
    BY <2>1, <2>2
<1>3. ASSUME NEW w \in Workers PROVE WorkerOk(work'[w], files', gh', clashed')
  <2>1. WorkerOk(work[w], files, gh, clashed)
    BY DEF ShareInv
  <2>2. WorkerOk(work[w], files', gh', clashed')
    BY <1>1, <1>2, <2>1, WorkerStays
  <2>3. QED
    BY <1>1, <2>2
<1>4. SharedOk(files', gh', clashed')
  BY <1>1, <1>2, SharedStays DEF ShareInv
<1>5. StoreOk(files') /\ DOMAIN work' = Workers /\ RivalsOk(work', clashed')
  BY <1>1 DEF ShareInv
<1>6. QED
  BY <1>2, <1>3, <1>4, <1>5 DEF ShareInv

(* Workers die: what they had begun stays where it is. *)
LEMMA DeadStep ==
    ASSUME ShareInv, NEW ws, Dead(ws)
    PROVE  ShareInv'
<1>1. UNCHANGED <<gh, clashed>> /\ GhOk(gh) /\ StoreOk(files)
  BY DEF Dead, ShareInv
<1>2. /\ DOMAIN files' = DOMAIN files /\ IsMap(files')
      /\ \A i \in DOMAIN files : Place(files[i], files'[i], "torn")
  BY <1>1 DEF Dead, IsMap, StoreOk, Place
<1>3. /\ StoreOk(files')
      /\ \A i \in DOMAIN files : files'[i].payload = files[i].payload
      /\ \A i \in DOMAIN files : files'[i].where = files[i].where \/ files'[i].where = "torn"
  BY <1>1, <1>2, Moved
<1>4. Grown(files, gh, clashed, files', gh', clashed')
  BY <1>1, <1>2, <1>3 DEF Grown
<1>5. SharedOk(files', gh', clashed')
  BY <1>1, <1>2, <1>3, <1>4, SharedStays DEF ShareInv
<1>6. DOMAIN work' = Workers /\ \A w \in Workers : work'[w] = IF w \in ws THEN Idle ELSE work[w]
  BY DEF Dead
<1>7. ASSUME NEW w \in Workers PROVE WorkerOk(work'[w], files', gh', clashed')
  <2>1. WorkerOk(work[w], files', gh', clashed')
    BY <1>1, <1>4, WorkerStays DEF ShareInv
  <2>2. WorkerOk(Idle, files', gh', clashed')
    BY IdleEarly, EarlyOk
  <2>3. QED
    BY <1>6, <2>1, <2>2
<1>8. RivalsOk(work', clashed')
  <2>1. Idle.pc \notin On
    BY DEF Idle, On
  <2>2. QED
    BY <1>1, <1>6, <2>1 DEF ShareInv, RivalsOk, Rivals
<1>9. QED
  BY <1>1, <1>3, <1>5, <1>6, <1>7, <1>8 DEF ShareInv

(* A command or a thread starts. *)
LEMMA StartStep ==
    ASSUME ShareInv, NEW w \in Workers, (\E job \in left.jobs : run_bench(w, job)) \/ bench_offer_confirm(w)
    PROVE  ShareInv'
<1>1. UNCHANGED <<files, gh, clashed>>
  BY DEF run_bench, bench_offer_confirm
<1>2. /\ \A job : \A x \in {"list", "auth", "discover"} : Early([Idle EXCEPT !.job = job, !.pc = x], files)
      /\ \A job : Early([Idle EXCEPT !.ui = TRUE, !.pc = "discover", !.job = job], files)
  BY DEF Early, Idle, WorkFields, Fresh, Asking, On
<1>3. \E q : Set(w, q) /\ Early(q, files)
  <2>1. ASSUME NEW job, run_bench(w, job) PROVE \E q : Set(w, q) /\ Early(q, files)
    <3>1. PICK x \in {"list", "auth", "discover"} : Set(w, [Idle EXCEPT !.job = job, !.pc = x])
      BY <2>1 DEF run_bench
    <3>2. QED
      BY <1>2, <3>1
  <2>2. CASE bench_offer_confirm(w)
    BY <1>2, <2>2 DEF bench_offer_confirm
  <2>3. QED
    BY <2>1, <2>2
<1>4. QED
  BY <1>1, <1>3, SetOne, EarlyStep

(* The TUI takes the message of its thread: the worker goes on as it was. *)
LEMMA TakenStep ==
    ASSUME ShareInv, TickOffer
    PROVE  ShareInv'
<1>1. UNCHANGED <<files, gh, clashed>> /\ GhOk(gh) /\ DOMAIN work' = Workers
  BY DEF TickOffer, Set, ShareInv
<1>2. \A w \in Workers :
        work'[w] = work[w] \/ work'[w] = [work[w] EXCEPT !.sent = None]
  BY DEF TickOffer, Set, ShareInv
<1>3. ASSUME NEW w \in Workers
      PROVE  /\ DOMAIN work'[w] = WorkFields
             /\ \A x \in WorkFields \ {"sent"} : work'[w][x] = work[w][x]
  <2>1. DOMAIN work[w] = WorkFields
    BY DEF ShareInv, WorkerOk
  <2>2. CASE work'[w] = work[w]
    BY <2>1, <2>2
  <2>3. CASE work'[w] = [work[w] EXCEPT !.sent = None]
    BY <2>1, <2>3
  <2>4. QED
    BY <1>2, <2>2, <2>3
<1>4. ASSUME NEW w \in Workers
      PROVE  /\ DOMAIN work'[w] = WorkFields
             /\ work'[w].pc = work[w].pc /\ work'[w].snap = work[w].snap
             /\ work'[w].todo = work[w].todo /\ work'[w].n = work[w].n
             /\ work'[w].branch = work[w].branch /\ work'[w].reused = work[w].reused
             /\ work'[w].base = work[w].base /\ work'[w].uploaded = work[w].uploaded
  BY <1>3 DEF WorkFields
<1>5. ASSUME NEW w \in Workers PROVE WorkerOk(work'[w], files', gh', clashed')
  <2>1. WorkerOk(work[w], files, gh, clashed)
    BY DEF ShareInv
  <2>2. WorkerOk(work'[w], files, gh, clashed)
    BY <1>4, <2>1 DEF WorkerOk, ChosenOk, AskingOk, OnOk, MarkOk, NothingNew, Fresh
  <2>3. QED
    BY <1>1, <2>2
<1>6. RivalsOk(work', clashed')
  BY <1>1, <1>4 DEF ShareInv, RivalsOk, Rivals
<1>7. StoreOk(files') /\ GhOk(gh') /\ SharedOk(files', gh', clashed')
  BY <1>1 DEF ShareInv
<1>8. QED
  BY <1>1, <1>5, <1>6, <1>7 DEF ShareInv

-----------------------------------------------------------------------------
(* The view.                                                               *)

(* A key that touches none of the rows, the header and the fetch. *)
LEMMA ViewSame ==
    ASSUME NEW v, ViewOk(v), NEW v2, DOMAIN v2 = ViewFields, v2.label = v.label, v2.fetch = v.fetch,
           v2.entries = v.entries, v2.pinned = v.pinned, v2.scan = v.scan
    PROVE  ViewOk(v2)
  BY DEF ViewOk

(* The store is read for the rows of this machine only. *)
LEMMA MergeView ==
    ASSUME NEW v, ViewOk(v), v.scan = None, NEW more
    PROVE  ViewOk(merge_local_bench_rows(v, more))
<1>1. ASSUME NEW x, \/ x = None
                    \/ x = Scan("index", shared_benchmarks, FALSE)
                    \/ v.label = None
      PROVE  ViewOk([[v EXCEPT !.pinned = <<>>] EXCEPT !.scan = x])
  BY <1>1 DEF ViewOk, ViewFields, Scan
<1>2. \E x : /\ \/ x = None
                \/ x = Scan("index", shared_benchmarks, FALSE)
                \/ v.label = None
             /\ merge_local_bench_rows(v, more) = [[v EXCEPT !.pinned = <<>>] EXCEPT !.scan = x]
  BY DEF merge_local_bench_rows, Rescan, ViewOk, ViewFields
<1>3. QED
  BY <1>1, <1>2

(* The stored results are pinned above the rows of this machine only. *)
LEMMA PinView ==
    ASSUME NEW v, ViewOk(v), v.scan # None, v.scan.of = "rows"
    PROVE  ViewOk(PinLocalRows(v))
<1> DEFINE scans == {None, Scan("index", shared_benchmarks, FALSE)}
<1>1. v.label = None /\ DOMAIN v = ViewFields
  BY DEF ViewOk
<1>2. \A x, y : \A z \in scans :
        ViewOk([[[v EXCEPT !.pinned = x] EXCEPT !.cursor = y] EXCEPT !.scan = z])
  BY <1>1 DEF ViewOk, ViewFields, Scan
<1>2a. \A z \in scans : ViewOk([v EXCEPT !.scan = z])
  BY <1>1 DEF ViewOk, ViewFields, Scan
<1>3. \E x, y : \/ PinLocalRows(v) = Rescan(v, v.scan.more)
                 \/ PinLocalRows(v) = Rescan([[v EXCEPT !.pinned = x] EXCEPT !.cursor = y], v.scan.more)
  BY DEF PinLocalRows, Clamp
<1>4. \E z \in scans : \A u : Rescan(u, v.scan.more) = [u EXCEPT !.scan = z]
  <2>1. CASE v.scan.more
    BY <2>1 DEF Rescan
  <2>2. CASE ~ v.scan.more
    BY <2>2 DEF Rescan
  <2>3. QED
    BY <2>1, <2>2
<1> HIDE DEF scans
<1>5. PICK z \in scans : \A u : Rescan(u, v.scan.more) = [u EXCEPT !.scan = z]
  BY <1>4, Zenon
<1>6. PICK x, y : \/ PinLocalRows(v) = Rescan(v, v.scan.more)
                  \/ PinLocalRows(v) = Rescan([[v EXCEPT !.pinned = x] EXCEPT !.cursor = y], v.scan.more)
  BY <1>3, Zenon
<1>7. CASE PinLocalRows(v) = Rescan(v, v.scan.more)
  <2>1. PinLocalRows(v) = [v EXCEPT !.scan = z]
    BY <1>5, <1>7, Zenon
  <2>2. QED
    BY <1>2a, <1>5, <2>1
<1>8. CASE PinLocalRows(v) = Rescan([[v EXCEPT !.pinned = x] EXCEPT !.cursor = y], v.scan.more)
  <2>1. PinLocalRows(v) = [[[v EXCEPT !.pinned = x] EXCEPT !.cursor = y] EXCEPT !.scan = z]
    BY <1>5, <1>8, Zenon
  <2>2. ViewOk([[[v EXCEPT !.pinned = x] EXCEPT !.cursor = y] EXCEPT !.scan = z])
    BY <1>2, <1>5
  <2>3. QED
    BY <2>1, <2>2, Zenon
<1>9. QED
  BY <1>6, <1>7, <1>8

(* A fetch for this machine, whatever the header names. *)
LEMMA FetchView ==
    ASSUME NEW v, ViewOk(v)
    PROVE  ViewOk(fetch_benchmarks(v))
<1> DEFINE f == [of |-> None, query |-> hw_leaderboard_params(Here), result |-> None]
           u == fetch_benchmarks(v)
<1>1. /\ DOMAIN u = ViewFields /\ u.label = v.label /\ u.entries = v.entries /\ u.pinned = v.pinned
      /\ u.fetch = f /\ u.scan = v.scan
  BY DEF ViewOk, ViewFields, fetch_benchmarks, Fetching
<1>2. DOMAIN f = {"of", "query", "result"} /\ f.of = None
  OBVIOUS
<1> HIDE DEF f, u
<1>3. QED
  BY <1>1, <1>2 DEF ViewOk, u

(* An answer, or the embedded rows in its place. *)
LEMMA FetchedView ==
    ASSUME NEW v, ViewOk(v), v.fetch # None, v.scan = None
    PROVE  ViewOk(tick_bench_fetch(v))
<1> DEFINE got == [v EXCEPT !.fetch = None, !.loading = FALSE]
<1>1. \A of, rs : \A i \in DOMAIN ServerRows(of, rs) : ServerRows(of, rs)[i].of = of
  BY DEF ServerRows, Row
<1>2. ASSUME NEW u, DOMAIN u = ViewFields, u.label = v.label, u.fetch = None, u.scan = None,
             \/ u.entries = v.entries /\ u.pinned = v.pinned
             \/ u.pinned = <<>> /\ \E rs : \/ u.entries = ServerRows(v.fetch.of, rs)
                                           \/ u.entries = ServerRows(v.label, rs)
      PROVE  ViewOk(u)
  BY <1>1, <1>2 DEF ViewOk
<1> DEFINE Good(u) == ViewOk(u) /\ u.scan = None
<1>3. \A t, rs, e :
        /\ Good([got EXCEPT !.total = t, !.pinned = <<>>, !.entries = ServerRows(v.fetch.of, rs)])
        /\ Good([got EXCEPT !.error = e])
        /\ Good([got EXCEPT !.total = t, !.pinned = <<>>, !.entries = ServerRows(v.label, rs),
                              !.error = e])
  <2> TAKE t, rs, e
  <2>1. DOMAIN v = ViewFields
    BY DEF ViewOk
  <2>2. Good([got EXCEPT !.total = t, !.pinned = <<>>, !.entries = ServerRows(v.fetch.of, rs)])
    BY <1>2, <2>1 DEF ViewFields
  <2>3. Good([got EXCEPT !.error = e])
    BY <1>2, <2>1 DEF ViewFields
  <2>4. Good([got EXCEPT !.total = t, !.pinned = <<>>, !.entries = ServerRows(v.label, rs),
                              !.error = e])
    BY <1>2, <2>1 DEF ViewFields
  <2>5. QED
    BY <2>2, <2>3, <2>4
<1> HIDE DEF Good
<1>4. \E u : Good(u) /\ tick_bench_fetch(v) = merge_local_bench_rows(u, FALSE)
  BY <1>3 DEF tick_bench_fetch
<1> USE DEF Good
<1>5. QED
  BY <1>4, MergeView

(* Opening the view, with or without an offer. *)
LEMMA OpenedView ==
    ASSUME NEW v, ViewOk(v), v.scan = None, NEW job
    PROVE  ViewOk(open_benchmarks(v, job))
<1> DEFINE opened == [v EXCEPT !.open = TRUE, !.mode = "Benchmarks", !.cursor = 0,
                               !.query = <<>>, !.searching = FALSE]
<1>1. DOMAIN v = ViewFields
  BY DEF ViewOk
<1> DEFINE Good(u) == ViewOk(u) /\ u.scan = None
<1>2. Good(opened)
  BY <1>1, ViewSame DEF ViewFields
<1>3. \A n, x : Good([opened EXCEPT !.offer = "Offer", !.job = job, !.auth = FALSE, !.waiting = n,
                                    !.unavailable = x, !.mode = "BenchOffer"])
  BY <1>1, ViewSame DEF ViewFields
<1> HIDE DEF Good
<1>4. \E u : Good(u) /\ (\/ open_benchmarks(v, job) = fetch_benchmarks(u)
                         \/ open_benchmarks(v, job) = merge_local_bench_rows(u, FALSE))
  BY <1>2, <1>3 DEF open_benchmarks
<1> USE DEF Good
<1>5. QED
  BY <1>4, FetchView, MergeView

(* Leaving the view forgets the preset, its rows and its fetch. *)
LEMMA ClosedOk ==
    ASSUME NEW v, ViewOk(v), v.scan = None
    PROVE  ViewOk(close_benchmarks(v))
<1> DEFINE u == close_benchmarks(v)
<1>1. CASE v.label = None
  <2>1. /\ DOMAIN u = ViewFields /\ u.label = v.label /\ u.fetch = v.fetch
        /\ u.entries = v.entries /\ u.pinned = v.pinned /\ u.scan = v.scan
    BY <1>1 DEF close_benchmarks, ViewOk, ViewFields
  <2> HIDE DEF u
  <2>2. QED
    BY <2>1, ViewSame DEF u
<1>2. CASE v.label # None
  <2>1. /\ DOMAIN u = ViewFields /\ u.label = None /\ u.fetch = None /\ u.entries = <<>>
        /\ u.scan = None
    BY <1>2 DEF close_benchmarks, ViewOk, ViewFields
  <2> HIDE DEF u
  <2>2. QED
    BY <2>1 DEF u, ViewOk
<1>3. QED
  BY <1>1, <1>2

(* Choosing hardware names it, clears the rows and fetches for it. *)
LEMMA SelectedOk ==
    ASSUME NEW v, ViewOk(v), v.scan = None
    PROVE  ViewOk(bench_hw_picker_select(v))
<1> DEFINE of(label) == [v EXCEPT !.picker = None, !.cursor = 0, !.label = label, !.pinned = <<>>,
                                  !.entries = <<>>]
<1>1. \A l : /\ DOMAIN of(l) = ViewFields /\ of(l).label = l /\ of(l).fetch = v.fetch
             /\ of(l).entries = <<>> /\ of(l).pinned = <<>> /\ of(l).scan = None
  BY DEF ViewOk, ViewFields
<1> HIDE DEF of
<1>2. CASE v.picker = 0
  <2> DEFINE f == [of |-> None, query |-> hw_leaderboard_params(Here), result |-> None]
             u == fetch_benchmarks(of(None))
  <2>1. DOMAIN u = ViewFields /\ u.label = None /\ u.entries = <<>> /\ u.fetch = f /\ u.scan = None
    BY <1>1 DEF fetch_benchmarks, Fetching, ViewFields
  <2>2. DOMAIN f = {"of", "query", "result"} /\ f.of = None
    OBVIOUS
  <2>3. bench_hw_picker_select(v) = u
    BY <1>2 DEF bench_hw_picker_select, of
  <2> HIDE DEF f, u
  <2>4. QED
    BY <2>1, <2>2, <2>3 DEF ViewOk
<1>3. CASE v.picker # 0
  <2> DEFINE l == Presets[v.picker].label
             f == [of |-> l, query |-> PresetParams(Presets[v.picker]), result |-> None]
             u == Fetching(of(l), l, PresetParams(Presets[v.picker]))
  <2>1. /\ DOMAIN u = ViewFields /\ u.label = l /\ u.entries = <<>> /\ u.pinned = <<>>
        /\ u.fetch = f /\ u.scan = None
    BY <1>1 DEF Fetching, ViewFields
  <2>2. DOMAIN f = {"of", "query", "result"} /\ f.of = l
    OBVIOUS
  <2>3. bench_hw_picker_select(v) = u
    BY <1>3 DEF bench_hw_picker_select, of
  <2> HIDE DEF f, u, l
  <2>4. QED
    BY <2>1, <2>2, <2>3 DEF ViewOk
<1>4. QED
  BY <1>2, <1>3

(* A refresh clears the rows and fetches for this machine. *)
LEMMA RefreshedOk ==
    ASSUME NEW v, ViewOk(v)
    PROVE  ViewOk(bench_refresh(v))
<1>1. ViewOk([v EXCEPT !.pinned = <<>>, !.entries = <<>>])
  BY DEF ViewOk, ViewFields
<1>2. QED
  BY <1>1, FetchView DEF bench_refresh

(* The keys of the view. *)
LEMMA BoardKeys ==
    ASSUME NEW v, ViewOk(v), v.scan = None, NEW u \in handle_benchmarks_mode(v)
    PROVE  ViewOk(u)
<1>1. DOMAIN v = ViewFields
  BY DEF ViewOk
<1>2. \A x, y, z : /\ ViewOk([v EXCEPT !.cursor = x])
                   /\ ViewOk([v EXCEPT !.searching = x])
                   /\ ViewOk([v EXCEPT !.picker = x])
                   /\ ViewOk([v EXCEPT !.query = x, !.cursor = y])
                   /\ ViewOk([v EXCEPT !.searching = x, !.query = y, !.cursor = z])
  BY <1>1, ViewSame DEF ViewFields
<1>3. /\ ViewOk(bench_search_clear(v)) /\ ViewOk(bench_search_accept(v)) /\ ViewOk(bench_search_backspace(v))
      /\ ViewOk(bench_search_start(v)) /\ ViewOk(bench_move_up(v)) /\ ViewOk(bench_move_down(v))
      /\ \A c : ViewOk(bench_search_input(v, c))
  BY <1>2 DEF bench_search_clear, bench_search_accept, bench_search_backspace, bench_search_start,
              bench_move_up, bench_move_down, bench_search_input
<1>4. /\ ViewOk(open_bench_hw_picker(v)) /\ ViewOk(close_bench_hw_picker(v))
      /\ ViewOk(bench_hw_picker_up(v)) /\ ViewOk(bench_hw_picker_down(v))
  BY <1>2 DEF open_bench_hw_picker, close_bench_hw_picker, bench_hw_picker_up, bench_hw_picker_down
<1>5. ViewOk(bench_hw_picker_select(v)) /\ ViewOk(bench_refresh(v)) /\ ViewOk(close_benchmarks(v))
  BY SelectedOk, RefreshedOk, ClosedOk
<1>6. QED
  BY <1>3, <1>4, <1>5 DEF handle_benchmarks_mode

(* The keys of an offer, its start and the messages of its thread. *)
LEMMA OfferKeys ==
    ASSUME NEW v, ViewOk(v), v.scan = None
    PROVE  /\ \A u \in handle_bench_offer_mode(v) : ViewOk(u)
           /\ \A w : ViewOk([v EXCEPT !.rx = w, !.offer = "Running"])
           /\ \A msg : ViewOk(tick_bench_offer(v, msg))
<1>1. DOMAIN v = ViewFields
  BY DEF ViewOk
<1>2. /\ \A x : /\ ViewOk([v EXCEPT !.share = x])
                /\ ViewOk([v EXCEPT !.rx = x, !.offer = "Running"])
      /\ ViewOk([v EXCEPT !.rx = None, !.offer = "Offer", !.mode = "Benchmarks"])
      /\ \A x, y : ViewOk([v EXCEPT !.auth = x, !.offer = y])
  <2>1. ASSUME NEW x PROVE ViewOk([v EXCEPT !.share = x]) /\ ViewOk([v EXCEPT !.rx = x, !.offer = "Running"])
    BY <1>1, ViewSame DEF ViewFields
  <2>2. ViewOk([v EXCEPT !.rx = None, !.offer = "Offer", !.mode = "Benchmarks"])
    BY <1>1, ViewSame DEF ViewFields
  <2>3. ASSUME NEW x, NEW y PROVE ViewOk([v EXCEPT !.auth = x, !.offer = y])
    BY <1>1, ViewSame DEF ViewFields
  <2>4. QED
    BY <2>1, <2>2, <2>3
<1>3. \A u \in handle_bench_offer_mode(v) : ViewOk(u)
  <2>1. ViewOk(bench_offer_toggle_share(v))
    BY <1>2 DEF bench_offer_toggle_share
  <2>2. ViewOk(bench_offer_dismiss(v))
    BY <1>2 DEF bench_offer_dismiss
  <2>3. QED
    BY <2>1, <2>2 DEF handle_bench_offer_mode
<1>4. ASSUME NEW msg PROVE ViewOk(tick_bench_offer(v, msg))
  <2>1. PICK x, y :
          \/ tick_bench_offer(v, msg) = [v EXCEPT !.auth = x, !.offer = y]
          \/ tick_bench_offer(v, msg) =
                merge_local_bench_rows([[v EXCEPT !.auth = x, !.offer = y] EXCEPT !.rx = None], TRUE)
    BY DEF tick_bench_offer
  <2> DEFINE a == [v EXCEPT !.auth = x, !.offer = y]
             b == [a EXCEPT !.rx = None]
  <2>2. ViewOk(a) /\ ViewOk(b)
    <3>1. DOMAIN a = ViewFields /\ ViewOk(a)
      BY <1>1, <1>2
    <3> HIDE DEF a
    <3>2. QED
      BY <3>1, ViewSame DEF ViewFields
  <2>3. b.scan = None
    BY <1>1 DEF ViewFields
  <2>4. tick_bench_offer(v, msg) = a \/ tick_bench_offer(v, msg) = merge_local_bench_rows(b, TRUE)
    BY <2>1
  <2> HIDE DEF a, b
  <2>5. QED
    BY <2>2, <2>3, <2>4, MergeView
<1>5. QED
  BY <1>2, <1>3, <1>4

-----------------------------------------------------------------------------
(* The order of the store.  Unless a file could not be moved, or was being *)
(* written when a share read the store, every shared file is older than    *)
(* every one still to be shared.  Three things carry that over the steps   *)
(* of several workers: a file that is being written has one writer; what a *)
(* share read is complete; and whatever is older than something it read    *)
(* and not shared yet is of what it read, and its turn is still to come.   *)
Coming == {"pending", "writing"}

InOrder(fs) ==
    \A i \in DOMAIN fs, k \in DOMAIN fs : fs[i].where = "shared" /\ fs[k].where \in Coming => i < k

ReadWhole(p, fs) == \A f \in p.snap : fs[f].where \in {"pending", "shared"}

TurnToCome(p, fs) ==
    \A f \in p.snap, k \in DOMAIN fs :
        k < f /\ fs[k].where \in Coming =>
            k \in p.snap /\ (p.pc \in {"open", "mark"} => p.n <= k)

OneWriter(wk, fs) ==
    \A w \in Workers : wk[w].pc = "stored" =>
        /\ wk[w].n \in DOMAIN fs /\ fs[wk[w].n].where = "writing"
        /\ \A v \in Workers : wk[v].pc = "stored" /\ wk[v].n = wk[w].n => v = w

TimeInv ==
    /\ disordered \in BOOLEAN
    /\ OneWriter(work, files)
    /\ \A w \in Workers : ReadWhole(work[w], files)
    /\ disordered = FALSE => InOrder(files) /\ \A w \in Workers : TurnToCome(work[w], files)

(* A worker that goes on without touching the store: it keeps what it read *)
(* or is done with it, is not about to write, and begins to mark with the  *)
(* oldest file.                                                            *)
Calmly(p, q) ==
    /\ q.snap = p.snap \/ q.snap = {}
    /\ \/ q.pc \notin {"stored", "open", "mark"}
       \/ q.pc = p.pc /\ q.n = p.n
       \/ q.pc = "mark" /\ p.pc = "open" /\ q.n = p.n
       \/ q.pc \in {"open", "mark"} /\ \A f \in q.snap : q.n <= f

(* Steps of that kind keep the order of the store. *)
LEMMA CalmStep ==
    ASSUME TimeInv, UNCHANGED <<files, disordered>>,
           \A w \in Workers : Calmly(work[w], work'[w])
    PROVE  TimeInv'
<1>1. OneWriter(work', files')
  <2>1. \A w \in Workers : work'[w].pc = "stored" => work[w].pc = "stored" /\ work[w].n = work'[w].n
    BY DEF Calmly
  <2>2. QED
    BY <2>1 DEF TimeInv, OneWriter
<1>2. ASSUME NEW w \in Workers PROVE ReadWhole(work'[w], files')
  BY DEF TimeInv, ReadWhole, Calmly
<1>3. ASSUME NEW w \in Workers, TurnToCome(work[w], files) PROVE TurnToCome(work'[w], files')
  <2> DEFINE p == work[w]
             q == work'[w]
  <2> SUFFICES ASSUME NEW f \in q.snap, NEW k \in DOMAIN files, k < f, files[k].where \in Coming
               PROVE  k \in q.snap /\ (q.pc \in {"open", "mark"} => q.n <= k)
    BY DEF TurnToCome
  <2>1. Calmly(p, q) /\ q.snap = p.snap
    BY DEF Calmly
  <2>2. k \in q.snap /\ (p.pc \in {"open", "mark"} => p.n <= k)
    BY <1>3, <2>1 DEF TurnToCome
  <2>3. QED
    BY <2>1, <2>2 DEF Calmly
<1>4. QED
  BY <1>1, <1>2, <1>3 DEF TimeInv

(* The same of a step of one worker. *)
LEMMA CalmOne ==
    ASSUME ShareInv, TimeInv, NEW w \in Workers, UNCHANGED <<files, disordered>>,
           \E q : Set(w, q) /\ Calmly(work[w], q)
    PROVE  TimeInv'
<1>1. /\ Calmly(work[w], work'[w]) /\ \A v \in Workers \ {w} : work'[v] = work[v]
  BY SetOne
<1>2. \A v \in Workers : Calmly(work[v], work'[v])
  BY <1>1 DEF Calmly
<1>3. QED
  BY <1>2, CalmStep

(* The end of a worker, whatever it was at. *)
LEMMA EndedCalmly == ASSUME NEW p, NEW msg PROVE Calmly(p, Ended(p, msg))
  BY DEF Calmly, Ended, Idle

(* The start of a command or thread, authentication and measurement. *)
LEMMA BeforeStore ==
    ASSUME ShareInv, TimeInv, NEW w \in Workers,
           \/ \E job \in left.jobs : run_bench(w, job)
           \/ bench_offer_confirm(w)
           \/ preflight_auth(w)
           \/ device_flow(w)
           \/ discover(w)
           \/ measure(w)
    PROVE  TimeInv'
<1> DEFINE p == work[w]
<1>1. UNCHANGED <<files, disordered>> /\ DOMAIN p = WorkFields
  BY DEF run_bench, bench_offer_confirm, preflight_auth, device_flow, discover, measure, ShareInv, WorkerOk
<1>2. \A msg : Calmly(p, Ended(p, msg))
  BY EndedCalmly
<1>3. CASE \E job \in left.jobs : run_bench(w, job)
  <2>1. PICK job : run_bench(w, job)
    BY <1>3
  <2>2. PICK x \in {"list", "auth", "discover"} : Set(w, [Idle EXCEPT !.job = job, !.pc = x])
    BY <2>1 DEF run_bench
  <2>3. Calmly(p, [Idle EXCEPT !.job = job, !.pc = x])
    BY DEF Calmly, Idle
  <2>4. QED
    BY <1>1, <2>2, <2>3, CalmOne
<1>4. CASE bench_offer_confirm(w)
  <2>1. PICK job : Set(w, [Idle EXCEPT !.ui = TRUE, !.pc = "discover", !.job = job])
    BY <1>4 DEF bench_offer_confirm
  <2>2. Calmly(p, [Idle EXCEPT !.ui = TRUE, !.pc = "discover", !.job = job])
    BY DEF Calmly, Idle
  <2>3. QED
    BY <1>1, <2>1, <2>2, CalmOne
<1>5. \A t : Calmly(p, AfterAuth(p, t)) /\ Calmly(p, AuthFailed(p))
  <2>1. \A t : Calmly(p, AfterAuth(p, t))
    BY <1>1 DEF Calmly, AfterAuth, WorkFields
  <2>2. QED
    BY <1>2, <2>1 DEF AuthFailed
<1>6. CASE preflight_auth(w)
  <2>1. \A x : Calmly(p, [p EXCEPT !.pc = "device", !.sent = x])
    BY <1>1 DEF Calmly, WorkFields
  <2>2. \E q : Set(w, q) /\ Calmly(p, q)
    BY <1>5, <1>6, <2>1 DEF preflight_auth
  <2>3. QED
    BY <1>1, <2>2, CalmOne
<1>7. CASE device_flow(w)
  <2>1. p.pc = "device"
    BY <1>7 DEF device_flow
  <2>2. \A x : Calmly(p, [p EXCEPT !.tries = x])
    BY <1>1, <2>1 DEF Calmly, WorkFields
  <2>3. \E q : Set(w, q) /\ Calmly(p, q)
    BY <1>5, <1>7, <2>2 DEF device_flow
  <2>4. QED
    BY <1>1, <2>3, CalmOne
<1>8. CASE discover(w)
  <2>1. PICK ts : \/ Set(w, Ended(p, "error"))
                  \/ Set(w, [p EXCEPT !.targets = ts, !.pc = "auth"])
                  \/ Set(w, [p EXCEPT !.targets = ts, !.pc = "measure"])
    BY <1>8 DEF discover
  <2>2. \A x \in {"auth", "measure"} : Calmly(p, [p EXCEPT !.targets = ts, !.pc = x])
    BY <1>1 DEF Calmly, WorkFields
  <2>3. QED
    BY <1>1, <1>2, <2>1, <2>2, CalmOne
<1>9. CASE measure(w)
  <2>1. PICK rs : \/ Set(w, Ended(p, "error"))
                  \/ Set(w, [p EXCEPT !.results = rs, !.pc = "store"])
    BY <1>9 DEF measure
  <2>2. Calmly(p, [p EXCEPT !.results = rs, !.pc = "store"])
    BY <1>1 DEF Calmly, WorkFields
  <2>3. QED
    BY <1>1, <1>2, <2>1, <2>2, CalmOne
<1>10. QED
  BY <1>3, <1>4, <1>6, <1>7, <1>8, <1>9

(* The submission, from the choice of the files to the pull request: the   *)
(* list is that of the share, and marking begins with its oldest file.     *)
LEMMA BeforeMark ==
    ASSUME ShareInv, TimeInv, NEW w \in Workers,
           \/ prepare_files(w)
           \/ ensure_fork(w)
           \/ poll_fork(w)
           \/ find_open_bench_pr(w)
           \/ upstream_head_sha(w)
           \/ create_branch(w)
           \/ put_files(w)
           \/ open_pr(w)
    PROVE  TimeInv'
<1> DEFINE p == work[w]
<1>1. UNCHANGED <<files, disordered>> /\ DOMAIN p = WorkFields
  BY DEF prepare_files, ensure_fork, poll_fork, find_open_bench_pr, upstream_head_sha, create_branch,
         put_files, open_pr, ShareInv, WorkerOk
<1>2. \A msg : Calmly(p, Ended(p, msg))
  BY EndedCalmly
<1>3. ShareFailed(w) => \E q : Set(w, q) /\ Calmly(p, q)
  BY <1>2 DEF ShareFailed
<1>4. NoAnswer(w) => ShareFailed(w)
  BY DEF NoAnswer
<1>5. CASE prepare_files(w)
  <2>1. \/ ShareFailed(w)
        \/ \E todo, n, b : Set(w, [p EXCEPT !.todo = todo, !.n = n, !.pc = "fork", !.branch = b])
    BY <1>5 DEF prepare_files
  <2>2. \A todo, n, b : Calmly(p, [p EXCEPT !.todo = todo, !.n = n, !.pc = "fork", !.branch = b])
    BY <1>1 DEF Calmly, WorkFields
  <2>3. QED
    BY <1>1, <1>3, <2>1, <2>2, CalmOne
<1>6. CASE ensure_fork(w) \/ poll_fork(w) \/ find_open_bench_pr(w) \/ upstream_head_sha(w) \/ create_branch(w)
  <2>1. /\ \A x \in {"find", "poll", "put", "head"} : Calmly(p, [p EXCEPT !.pc = x])
        /\ Calmly(p, [p EXCEPT !.pc = "find", !.tries = 0])
        /\ \A b : Calmly(p, [p EXCEPT !.pc = "put", !.reused = TRUE, !.branch = b])
        /\ \A b : Calmly(p, [p EXCEPT !.pc = "branch", !.base = b])
    BY <1>1 DEF Calmly, WorkFields
  <2>2. p.pc = "poll" => \A x : Calmly(p, [p EXCEPT !.tries = x])
    BY <1>1 DEF Calmly, WorkFields
  <2>3. CASE ensure_fork(w)
    <3>1. ShareFailed(w) \/ \E x \in {"find", "poll"} : Set(w, [p EXCEPT !.pc = x])
      BY <1>4, <2>3 DEF ensure_fork
    <3>2. QED
      BY <1>1, <1>3, <2>1, <3>1, CalmOne
  <2>4. CASE poll_fork(w)
    <3>1. /\ p.pc = "poll"
          /\ \/ ShareFailed(w)
             \/ Set(w, [p EXCEPT !.pc = "find", !.tries = 0])
             \/ Set(w, [p EXCEPT !.tries = @ + 1])
      BY <2>4 DEF poll_fork
    <3>2. QED
      BY <1>1, <1>3, <2>1, <2>2, <3>1, CalmOne
  <2>5. CASE find_open_bench_pr(w)
    <3>1. \/ Set(w, [p EXCEPT !.pc = "head"])
          \/ \E b : Set(w, [p EXCEPT !.pc = "put", !.reused = TRUE, !.branch = b])
      BY <2>5 DEF find_open_bench_pr
    <3>2. QED
      BY <1>1, <2>1, <3>1, CalmOne
  <2>6. CASE upstream_head_sha(w)
    <3>1. ShareFailed(w) \/ Set(w, [p EXCEPT !.pc = "branch", !.base = gh.main])
      BY <1>4, <2>6 DEF upstream_head_sha
    <3>2. QED
      BY <1>1, <1>3, <2>1, <3>1, CalmOne
  <2>7. CASE create_branch(w)
    <3>1. ShareFailed(w) \/ Set(w, [p EXCEPT !.pc = "put"])
      BY <1>4, <2>7 DEF create_branch
    <3>2. QED
      BY <1>1, <1>3, <2>1, <3>1, CalmOne
  <2>8. QED
    BY <1>6, <2>3, <2>4, <2>5, <2>6, <2>7
<1>7. CASE put_files(w)
  <2>1. p.pc = "put" /\ WorkerOk(p, files, gh, clashed) /\ StoreOk(files)
    BY <1>7 DEF put_files, ShareInv
  <2>2. \/ ShareFailed(w)
        \/ \E n, sum : Set(w, [p EXCEPT !.n = n, !.uploaded = sum])
        \/ \E sum : \E x \in {"mark", "open"} :
              Set(w, [p EXCEPT !.n = Min(p.snap), !.uploaded = sum, !.pc = x])
    BY <1>4, <1>7 DEF put_files
  <2>3. \A n, sum : Calmly(p, [p EXCEPT !.n = n, !.uploaded = sum])
    BY <1>1, <2>1 DEF Calmly, WorkFields
  <2>4. \A f \in p.snap : Min(p.snap) <= f
    <3>1. p.snap \subseteq Nat
      BY <2>1 DEF WorkerOk, StoreOk, IsSeq
    <3>2. QED
      BY <3>1, LeastOf
  <2>5. ASSUME NEW sum, NEW x \in {"mark", "open"}
        PROVE  Calmly(p, [p EXCEPT !.n = Min(p.snap), !.uploaded = sum, !.pc = x])
    <3> DEFINE q == [p EXCEPT !.n = Min(p.snap), !.uploaded = sum, !.pc = x]
    <3>1. q.snap = p.snap /\ q.n = Min(p.snap) /\ q.pc = x
      BY <1>1 DEF WorkFields
    <3> HIDE DEF q
    <3>2. Calmly(p, q)
      BY <2>4, <3>1 DEF Calmly
    <3>3. QED
      BY <3>2 DEF q
  <2>6. \E q : Set(w, q) /\ Calmly(p, q)
    BY <1>3, <2>2, <2>3, <2>5
  <2>7. QED
    BY <1>1, <2>6, CalmOne
<1>8. CASE open_pr(w)
  <2>1. p.pc = "open" /\ (ShareFailed(w) \/ Set(w, [p EXCEPT !.pc = "mark"]))
    BY <1>4, <1>8 DEF open_pr
  <2>2. Calmly(p, [p EXCEPT !.pc = "mark"])
    BY <1>1, <2>1 DEF Calmly, WorkFields
  <2>3. QED
    BY <1>1, <1>3, <2>1, <2>2, CalmOne
<1>9. QED
  BY <1>5, <1>6, <1>7, <1>8

(* The TUI takes the message of its thread. *)
LEMMA TakenCalmly ==
    ASSUME ShareInv, TimeInv, TickOffer
    PROVE  TimeInv'
<1>1. UNCHANGED <<files, disordered>>
  BY DEF TickOffer
<1>2. ASSUME NEW w \in Workers PROVE Calmly(work[w], work'[w])
  <2>1. DOMAIN work[w] = WorkFields
    BY DEF ShareInv, WorkerOk
  <2>2. work'[w] = work[w] \/ work'[w] = [work[w] EXCEPT !.sent = None]
    BY DEF TickOffer, Set, ShareInv
  <2>3. work'[w].pc = work[w].pc /\ work'[w].snap = work[w].snap /\ work'[w].n = work[w].n
    BY <2>1, <2>2 DEF WorkFields
  <2>4. QED
    BY <2>3 DEF Calmly
<1>3. QED
  BY <1>1, <1>2, CalmStep

(* share_all_pending: a file that is being written and older than one that *)
(* is read puts the store in disorder; otherwise everything older that is  *)
(* not shared yet is read with it.                                         *)
LEMMA ListInOrder ==
    ASSUME ShareInv, TimeInv, NEW w \in Workers, share_all_pending(w)
    PROVE  TimeInv'
<1> DEFINE p == work[w]
           s == {i \in DOMAIN files : files[i].where = "pending"}
           late == \E i \in DOMAIN files, k \in s : files[i].where = "writing" /\ i < k
<1>1. UNCHANGED files /\ DOMAIN p = WorkFields /\ disordered' = (disordered \/ late)
  BY DEF share_all_pending, ShareInv, WorkerOk
<1>2. \E q : /\ Set(w, q)
             /\ q.snap \in {{}, s} /\ q.pc \notin {"stored", "open", "mark"}
  <2>1. \/ Set(w, Ended(p, None))
        \/ \E x \in {"auth", "submit"} : Set(w, [p EXCEPT !.snap = s, !.pc = x])
    BY DEF share_all_pending
  <2>2. Ended(p, None).snap = {} /\ Ended(p, None).pc = "idle"
    BY DEF Ended, Idle
  <2>3. \A x \in {"auth", "submit"} : /\ [p EXCEPT !.snap = s, !.pc = x].snap = s
                                      /\ [p EXCEPT !.snap = s, !.pc = x].pc = x
    BY <1>1 DEF WorkFields
  <2>4. QED
    BY <2>1, <2>2, <2>3
<1>3. /\ \A v \in Workers \ {w} : work'[v] = work[v]
      /\ work'[w].snap \in {{}, s} /\ work'[w].pc \notin {"stored", "open", "mark"}
  BY <1>2, SetOne
<1>4. OneWriter(work', files')
  BY <1>1, <1>3 DEF TimeInv, OneWriter
<1>5. \A v \in Workers : ReadWhole(work'[v], files')
  BY <1>1, <1>3 DEF TimeInv, ReadWhole
<1>6. disordered' \in BOOLEAN
  BY <1>1
<1>7. ASSUME disordered' = FALSE PROVE InOrder(files') /\ \A v \in Workers : TurnToCome(work'[v], files')
  <2>1. disordered = FALSE /\ ~ late
    BY <1>1, <1>7 DEF TimeInv
  <2>2. InOrder(files') /\ \A v \in Workers \ {w} : TurnToCome(work'[v], files')
    BY <1>1, <1>3, <2>1 DEF TimeInv
  <2>3. TurnToCome(work'[w], files')
    BY <1>1, <1>3, <2>1 DEF TurnToCome, Coming
  <2>4. QED
    BY <2>2, <2>3
<1>8. QED
  BY <1>4, <1>5, <1>6, <1>7 DEF TimeInv

(* The state of a worker after its file, or without one. *)
LEMMA StoredCalmly ==
    ASSUME NEW p, DOMAIN p = WorkFields
    PROVE  Calmly(p, AfterStore(p)) /\ AfterStore(p).pc # "stored"
<1>1. Calmly(p, [p EXCEPT !.pc = "list", !.results = <<>>]) /\ [p EXCEPT !.pc = "list", !.results = <<>>].pc = "list"
  BY DEF Calmly, WorkFields
<1>2. \A msg : Calmly(p, Ended(p, msg)) /\ Ended(p, msg).pc = "idle"
  BY EndedCalmly DEF Ended, Idle
<1>3. QED
  BY <1>1, <1>2 DEF AfterStore

(* store_local: the new file is the newest of the store. *)
LEMMA WriteInOrder ==
    ASSUME ShareInv, TimeInv, NEW w \in Workers, store_local(w)
    PROVE  TimeInv'
<1> DEFINE p == work[w]
<1>1. UNCHANGED disordered /\ DOMAIN p = WorkFields /\ IsSeq(files) /\ p.pc = "store"
  BY DEF store_local, ShareInv, WorkerOk, StoreOk
<1>2. CASE UNCHANGED files /\ Set(w, AfterStore(p))
  BY <1>1, <1>2, StoredCalmly, CalmOne
<1>3. ASSUME NEW e, e.where = "writing", files' = Append(files, e),
             Set(w, [p EXCEPT !.pc = "stored", !.n = Len(files) + 1])
      PROVE  TimeInv'
  <2> DEFINE q == [p EXCEPT !.pc = "stored", !.n = Len(files) + 1]
  <2>1. q.pc = "stored" /\ q.n = Len(files) + 1 /\ q.snap = p.snap
    BY <1>1 DEF WorkFields
  <2>2. work'[w] = q /\ \A v \in Workers \ {w} : work'[v] = work[v]
    BY <1>3, SetOne
  <2> HIDE DEF q
  <2>3. /\ DOMAIN files' = DOMAIN files \cup {Len(files) + 1}
        /\ \A i \in DOMAIN files : files'[i] = files[i]
        /\ files'[Len(files) + 1] = e
    BY <1>1, <1>3, Appended
  <2>4. DOMAIN files = 1..Len(files) /\ Len(files) \in Nat
    BY <1>1 DEF IsSeq
  <2>5. \A v \in Workers : work[v].snap \subseteq DOMAIN files
    BY DEF ShareInv, WorkerOk
  <2>6. OneWriter(work', files')
    <3>1. \A v \in Workers : work[v].pc = "stored" => work[v].n # Len(files) + 1
      BY <2>4 DEF TimeInv, OneWriter
    <3>2. \A v \in Workers : work'[v].pc = "stored" =>
            work'[v].n \in DOMAIN files' /\ files'[work'[v].n].where = "writing"
      BY <1>3, <2>1, <2>2, <2>3 DEF TimeInv, OneWriter
    <3>3. \A u \in Workers, v \in Workers :
            work'[u].pc = "stored" /\ work'[v].pc = "stored" /\ work'[u].n = work'[v].n => u = v
      BY <2>1, <2>2, <3>1 DEF TimeInv, OneWriter
    <3>4. QED
      BY <3>2, <3>3 DEF OneWriter
  <2>7. \A v \in Workers : work'[v].snap = work[v].snap
    BY <2>1, <2>2
  <2>8. \A v \in Workers : ReadWhole(work'[v], files')
    BY <2>3, <2>5, <2>7 DEF TimeInv, ReadWhole
  <2>9. InOrder(files) => InOrder(files')
    BY <1>3, <2>3, <2>4 DEF InOrder, Coming
  <2>10. ASSUME NEW v \in Workers, TurnToCome(work[v], files) PROVE TurnToCome(work'[v], files')
    <3> SUFFICES ASSUME NEW f \in work'[v].snap, NEW k \in DOMAIN files', k < f, files'[k].where \in Coming
                 PROVE  /\ k \in work'[v].snap
                        /\ work'[v].pc \in {"open", "mark"} => work'[v].n <= k
      BY DEF TurnToCome
    <3>1. f \in work[v].snap /\ f \in DOMAIN files
      BY <2>5, <2>7
    <3>2. k \in DOMAIN files /\ files[k].where \in Coming
      BY <2>3, <2>4, <3>1
    <3>3. k \in work[v].snap /\ (work[v].pc \in {"open", "mark"} => work[v].n <= k)
      BY <2>10, <3>1, <3>2 DEF TurnToCome
    <3>4. QED
      BY <2>1, <2>2, <2>7, <3>3
  <2>11. QED
    BY <1>1, <2>6, <2>8, <2>9, <2>10 DEF TimeInv
<1>4. QED
  BY <1>2, <1>3 DEF store_local

(* Files that were being written are complete or torn now, and nobody      *)
(* writes them any more: nothing that a share has read is among them.      *)
LEMMA WritingEnds ==
    ASSUME ShareInv, TimeInv, UNCHANGED disordered, DOMAIN files' = DOMAIN files,
           \A i \in DOMAIN files :
               \/ files'[i].where = files[i].where
               \/ files[i].where = "writing" /\ files'[i].where \in {"pending", "torn"},
           \A w \in Workers : Calmly(work[w], work'[w]),
           \A w \in Workers : work'[w].pc = "stored" => files'[work'[w].n].where = "writing"
    PROVE  TimeInv'
<1>1. OneWriter(work', files')
  <2>1. \A w \in Workers : work'[w].pc = "stored" => work[w].pc = "stored" /\ work[w].n = work'[w].n
    BY DEF Calmly
  <2>2. QED
    BY <2>1 DEF TimeInv, OneWriter
<1>2. ASSUME NEW w \in Workers PROVE ReadWhole(work'[w], files')
  <2>1. work'[w].snap \subseteq work[w].snap /\ work[w].snap \subseteq DOMAIN files
    BY DEF Calmly, ShareInv, WorkerOk
  <2>2. QED
    BY <2>1 DEF TimeInv, ReadWhole
<1>3. \A i \in DOMAIN files : /\ files'[i].where = "shared" => files[i].where = "shared"
                              /\ files'[i].where \in Coming => files[i].where \in Coming
  BY DEF Coming
<1>4. InOrder(files) => InOrder(files')
  BY <1>3 DEF InOrder
<1>5. ASSUME NEW w \in Workers, TurnToCome(work[w], files) PROVE TurnToCome(work'[w], files')
  <2> DEFINE p == work[w]
             q == work'[w]
  <2> SUFFICES ASSUME NEW f \in q.snap, NEW k \in DOMAIN files, k < f, files[k].where \in Coming
               PROVE  k \in q.snap /\ (q.pc \in {"open", "mark"} => q.n <= k)
    BY <1>3 DEF TurnToCome
  <2>1. Calmly(p, q) /\ q.snap = p.snap
    BY DEF Calmly
  <2>2. k \in q.snap /\ (p.pc \in {"open", "mark"} => p.n <= k)
    BY <1>5, <2>1 DEF TurnToCome
  <2>3. QED
    BY <2>1, <2>2 DEF Calmly
<1>6. QED
  BY <1>1, <1>2, <1>4, <1>5 DEF TimeInv

(* stored: the file is complete, or torn. *)
LEMMA StoredInOrder ==
    ASSUME ShareInv, TimeInv, NEW w \in Workers, stored(w)
    PROVE  TimeInv'
<1> DEFINE p == work[w]
           n == p.n
<1>1. /\ UNCHANGED disordered /\ DOMAIN p = WorkFields /\ StoreOk(files) /\ p.pc = "stored"
      /\ Set(w, AfterStore([p EXCEPT !.n = 1]))
  BY DEF stored, ShareInv, WorkerOk
<1>2. n \in DOMAIN files /\ files[n].where = "writing"
  BY <1>1 DEF TimeInv, OneWriter
<1>3. PICK x \in {"pending", "torn"} : files' = [files EXCEPT ![n].where = x]
  BY DEF stored
<1>4. /\ DOMAIN files' = DOMAIN files /\ files'[n].where = x
      /\ \A i \in DOMAIN files : i # n => files'[i] = files[i]
  BY <1>1, <1>2, <1>3 DEF StoreOk
<1> DEFINE o == [p EXCEPT !.n = 1]
           q == AfterStore(o)
<1>5. DOMAIN o = WorkFields /\ o.snap = p.snap
  BY <1>1 DEF WorkFields
<1>6. work'[w] = q /\ \A v \in Workers \ {w} : work'[v] = work[v]
  BY <1>1, SetOne
<1>7. Calmly(o, q) /\ q.pc # "stored" /\ q.pc \notin {"open", "mark"}
  <2>1. q.pc \in {"list", "idle"}
    BY <1>5 DEF AfterStore, Ended, Idle, WorkFields
  <2>2. QED
    BY <1>5, <2>1, StoredCalmly
<1> HIDE DEF o, q
<1>8. Calmly(p, q)
  BY <1>5, <1>7 DEF Calmly
<1>9. \A v \in Workers : Calmly(work[v], work'[v])
  BY <1>6, <1>8 DEF Calmly
<1>10. \A v \in Workers : work'[v].pc = "stored" => files'[work'[v].n].where = "writing"
  BY <1>1, <1>4, <1>6, <1>7 DEF TimeInv, OneWriter
<1>11. QED
  BY <1>1, <1>2, <1>4, <1>9, <1>10, WritingEnds

(* Workers die, and what they were writing stays torn. *)
LEMMA DeadInOrder ==
    ASSUME ShareInv, TimeInv, NEW ws \in SUBSET Workers, Dead(ws)
    PROVE  TimeInv'
<1>1. UNCHANGED disordered /\ StoreOk(files)
  BY DEF Dead, ShareInv
<1>2. \A w \in Workers : work'[w] = IF w \in ws THEN Idle ELSE work[w]
  BY DEF Dead
<1>3. \A w \in Workers : Calmly(work[w], work'[w])
  BY <1>2 DEF Calmly, Idle
<1> DEFINE Torn(i) == \E w \in ws : work[w].pc = "stored" /\ work[w].n = i
<1>4. /\ DOMAIN files' = DOMAIN files
      /\ \A i \in DOMAIN files : files'[i].where = IF Torn(i) THEN "torn" ELSE files[i].where
  BY <1>1 DEF Dead, StoreOk
<1>5. \A i \in DOMAIN files : Torn(i) => files[i].where = "writing"
  BY DEF TimeInv, OneWriter
<1>6. ASSUME NEW w \in Workers, work'[w].pc = "stored" PROVE files'[work'[w].n].where = "writing"
  <2>1. work'[w] = work[w] /\ w \notin ws
    BY <1>2, <1>6 DEF Idle
  <2>2. work[w].n \in DOMAIN files /\ files[work[w].n].where = "writing" /\ ~ Torn(work[w].n)
    BY <1>6, <2>1 DEF TimeInv, OneWriter
  <2>3. QED
    BY <1>4, <2>1, <2>2
<1> HIDE DEF Torn
<1>7. \A i \in DOMAIN files :
        \/ files'[i].where = files[i].where
        \/ files[i].where = "writing" /\ files'[i].where \in {"pending", "torn"}
  BY <1>4, <1>5
<1>8. QED
  BY <1>1, <1>3, <1>4, <1>6, <1>7, WritingEnds

(* mark_shared: the file is the oldest that is not shared yet, so that     *)
(* with it everything shared is older than what is still to come; and no   *)
(* other share waits for it as something older that it must move first.    *)
LEMMA MarkInOrder ==
    ASSUME ShareInv, TimeInv, NEW w \in Workers, mark_shared(w)
    PROVE  TimeInv'
<1> DEFINE p == work[w]
           n == p.n
           rest == {i \in p.snap : i > n}
<1>1. /\ DOMAIN p = WorkFields /\ StoreOk(files) /\ p.pc = "mark" /\ n \in p.snap
      /\ p.snap \subseteq DOMAIN files /\ DOMAIN files \subseteq Nat
      /\ \A v \in Workers : work[v].snap \subseteq DOMAIN files
  BY DEF mark_shared, ShareInv, WorkerOk, MarkOk, StoreOk, IsSeq
<1>2. files[n].where \in {"pending", "shared"}
  BY <1>1 DEF TimeInv, ReadWhole
<1>3. /\ DOMAIN files' = DOMAIN files
      /\ \A i \in DOMAIN files : i # n => files'[i] = files[i]
      /\ files'[n].where \in {"pending", "shared"}
      /\ disordered' \in BOOLEAN
      /\ disordered' = FALSE => disordered = FALSE /\ files'[n].where = "shared"
  <2>1. CASE /\ files' = IF files[n].where = "pending" THEN [files EXCEPT ![n].where = "shared"] ELSE files
             /\ UNCHANGED disordered
    BY <1>1, <1>2, <2>1 DEF TimeInv, StoreOk
  <2>2. CASE disordered' = TRUE /\ UNCHANGED files
    BY <1>2, <2>2
  <2>3. QED
    BY <2>1, <2>2 DEF mark_shared
<1>4. /\ \A v \in Workers \ {w} : work'[v] = work[v]
      /\ \/ work'[w].snap = {} /\ work'[w].pc = "idle"
         \/ rest # {} /\ work'[w].snap = p.snap /\ work'[w].pc = "mark" /\ work'[w].n = Min(rest)
  <2>1. \/ Set(w, Ended(p, "done"))
        \/ rest # {} /\ Set(w, [p EXCEPT !.n = Min(rest)])
    BY DEF mark_shared
  <2>2. Ended(p, "done").snap = {} /\ Ended(p, "done").pc = "idle"
    BY DEF Ended, Idle
  <2>3. LET q == [p EXCEPT !.n = Min(rest)]
        IN  q.snap = p.snap /\ q.pc = "mark" /\ q.n = Min(rest)
    BY <1>1 DEF WorkFields
  <2>4. QED
    BY <2>1, <2>2, <2>3, SetOne
<1>5. OneWriter(work', files')
  <2>1. \A v \in Workers : work'[v].pc = "stored" => work'[v] = work[v]
    BY <1>4
  <2>2. QED
    BY <1>2, <1>3, <2>1 DEF TimeInv, OneWriter
<1>6. ASSUME NEW v \in Workers PROVE ReadWhole(work'[v], files')
  <2>1. work'[v].snap \subseteq work[v].snap
    BY <1>4
  <2>2. QED
    BY <1>1, <1>3, <2>1 DEF TimeInv, ReadWhole
<1>7. ASSUME disordered' = FALSE
      PROVE  InOrder(files') /\ \A v \in Workers : TurnToCome(work'[v], files')
  <2>1. /\ disordered = FALSE /\ files'[n].where = "shared"
        /\ InOrder(files) /\ \A v \in Workers : TurnToCome(work[v], files)
    BY <1>3, <1>7 DEF TimeInv
  <2>2. \A k \in DOMAIN files : files'[k].where \in Coming => k # n /\ files[k].where \in Coming
    BY <1>3, <2>1 DEF Coming
  <2>3. \A k \in DOMAIN files : files'[k].where \in Coming => n < k
    <3> SUFFICES ASSUME NEW k \in DOMAIN files, files'[k].where \in Coming, k < n PROVE FALSE
      BY <1>1, <2>2
    <3>1. TurnToCome(p, files) /\ files[k].where \in Coming
      BY <2>1, <2>2
    <3>2. n <= k
      BY <1>1, <3>1 DEF TurnToCome
    <3>3. QED
      BY <1>1, <3>2
  <2>4. InOrder(files')
    BY <1>3, <2>1, <2>2, <2>3 DEF InOrder
  <2>5. ASSUME NEW v \in Workers PROVE TurnToCome(work'[v], files')
    <3> SUFFICES ASSUME NEW f \in work'[v].snap, NEW k \in DOMAIN files, k < f, files'[k].where \in Coming
                 PROVE  /\ k \in work'[v].snap
                        /\ work'[v].pc \in {"open", "mark"} => work'[v].n <= k
      BY <1>3 DEF TurnToCome
    <3>1. TurnToCome(work[v], files) /\ files[k].where \in Coming
      BY <2>1, <2>2
    <3>2. CASE v # w
      BY <1>4, <3>1, <3>2 DEF TurnToCome
    <3>3. CASE v = w
      <4>1. work'[w].snap = p.snap /\ work'[w].n = Min(rest) /\ rest # {}
        BY <1>4, <3>3
      <4>2. k \in p.snap
        BY <3>1, <3>3, <4>1 DEF TurnToCome
      <4>3. k \in rest /\ rest \subseteq Nat
        BY <1>1, <2>3, <4>2
      <4>4. Min(rest) <= k
        BY <4>3, LeastOf
      <4>5. QED
        BY <3>3, <4>1, <4>2, <4>4
    <3>4. QED
      BY <3>2, <3>3
  <2>6. QED
    BY <2>4, <2>5
<1>8. QED
  BY <1>3, <1>5, <1>6, <1>7 DEF TimeInv

-----------------------------------------------------------------------------
(* The newest run.                                                         *)

(* What shared/ held when the index began to read is still there. *)
ScanOk(v, fs) ==
    v.scan # None /\ v.scan.of \in {"fits", "index"} =>
        \A f \in v.scan.read : f \in DOMAIN fs /\ fs[f].where = "shared"

(* What LocalBenchIndex finds is the newest run that did not move between  *)
(* its two reads, of as many as there are: what it read in shared/ is      *)
(* older than whatever is pending now, and none of it is pending again.    *)
LEMMA FindsNewest ==
    ASSUME StoreOk(files), InOrder(files), ScanOk(view, files)
    PROVE  LocalNewest
<1> DEFINE read == view.scan.read
           hits(name, f) == {i \in DOMAIN StoredResults(f) :
                               /\ StoredResults(f)[i].tps > 0
                               /\ tag_matches_model(StoredResults(f)[i].model, name)}
           runs(name) == {f \in DOMAIN files \ (shared_benchmarks \ read) :
                            /\ Complete(f)
                            /\ hardware_payload_matches(files[f].payload.hw, Here)
                            /\ hits(name, f) # {}}
           part(name, where) == {g \in runs(name) : files[g].where = where}
           all(name, where) == UNION {{f} \X hits(name, f) : f \in part(name, where)}
<1> SUFFICES ASSUME view.scan # None, view.scan.of \in {"fits", "index"}, NEW name \in Names
             PROVE  LocalBenchIndex_lookup(Here, read, name) =
                      IF runs(name) = {} THEN None
                      ELSE MeasuredTps(StoredResults(Max(runs(name)))[Max(hits(name, Max(runs(name))))].tps,
                                       Cardinality(all(name, "shared")) + Cardinality(all(name, "pending")),
                                       "LocalBench")
  BY DEF LocalNewest
<1> DEFINE H(f) == hits(name, f)
           R == runs(name)
           S == part(name, "shared")
           P == part(name, "pending")
           A == all(name, "shared")
           B == all(name, "pending")
           pick(es) == {e \in es : tag_matches_model(StoredResults(e[1])[e[2]].model, name)}
           older == pick(Entries(Here, read))
           newer == pick(Entries(Here, pending_benchmarks))
           tail == IF newer # {} THEN newer ELSE older
           latest == Max({e[1] : e \in tail})
           first == Max({e[2] : e \in {h \in tail : h[1] = latest}})
<1>1. LocalBenchIndex_lookup(Here, read, name) =
        IF tail = {} THEN None
        ELSE MeasuredTps(StoredResults(latest)[first].tps, Cardinality(older) + Cardinality(newer), "LocalBench")
  BY DEF LocalBenchIndex_lookup, LocalBenchIndex_load
<1>2. \A f \in read : f \in DOMAIN files /\ files[f].where = "shared"
  BY DEF ScanOk
<1>3. \A f, i : /\ <<f, i>> \in A <=> f \in S /\ i \in H(f)
                /\ <<f, i>> \in B <=> f \in P /\ i \in H(f)
  OBVIOUS
<1>4. \A f, i : /\ <<f, i>> \in older <=> f \in S /\ i \in H(f)
                /\ <<f, i>> \in newer <=> f \in P /\ i \in H(f)
  <2>1. \A f, i, fs :
          <<f, i>> \in pick(Entries(Here, fs)) <=>
             f \in fs /\ hardware_payload_matches(files[f].payload.hw, Here) /\ i \in H(f)
    BY DEF Entries
  <2>2. \A f, i : f \in S /\ i \in H(f) <=>
                    f \in read /\ hardware_payload_matches(files[f].payload.hw, Here) /\ i \in H(f)
    BY <1>2 DEF Complete, shared_benchmarks
  <2>3. \A f, i : f \in P /\ i \in H(f) <=>
                    /\ f \in pending_benchmarks /\ i \in H(f)
                    /\ hardware_payload_matches(files[f].payload.hw, Here)
    BY DEF Complete, pending_benchmarks, shared_benchmarks
  <2> HIDE DEF S, P, H, pick
  <2>4. QED
    BY <2>1, <2>2, <2>3
<1>5. (\A e \in A : e = <<e[1], e[2]>>) /\ (\A e \in B : e = <<e[1], e[2]>>)
  OBVIOUS
<1>6. (\A e \in older : e = <<e[1], e[2]>>) /\ (\A e \in newer : e = <<e[1], e[2]>>)
  BY DEF Entries
<1>7. /\ \A f \in R : f \in DOMAIN files /\ H(f) # {}
      /\ R = S \cup P
      /\ \A f \in S : files[f].where = "shared"
      /\ \A f \in P : files[f].where = "pending"
  BY DEF Complete
<1> HIDE DEF A, B, older, newer, H, R, S, P, pick, read, hits, runs, part, all
<1>8. older = A /\ newer = B
  <2>1. ASSUME NEW X, NEW Y, NEW F, \A e \in X : e = <<e[1], e[2]>>, \A e \in Y : e = <<e[1], e[2]>>,
               \A f, i : <<f, i>> \in X <=> f \in F /\ i \in H(f),
               \A f, i : <<f, i>> \in Y <=> f \in F /\ i \in H(f)
        PROVE  X = Y
    <3>1. \A f, i : <<f, i>> \in X <=> <<f, i>> \in Y
      BY <2>1, Zenon
    <3>2. ASSUME NEW e \in X PROVE e \in Y
      <4>1. e = <<e[1], e[2]>>
        BY <2>1
      <4>2. <<e[1], e[2]>> \in Y
        BY <3>1, <4>1, Zenon
      <4>3. QED
        BY <4>1, <4>2, Zenon
    <3>3. ASSUME NEW e \in Y PROVE e \in X
      <4>1. e = <<e[1], e[2]>>
        BY <2>1
      <4>2. <<e[1], e[2]>> \in X
        BY <3>1, <4>1, Zenon
      <4>3. QED
        BY <4>1, <4>2, Zenon
    <3>4. QED
      BY <3>2, <3>3
  <2>2. older = A
    BY <1>3, <1>4, <1>5, <1>6, <2>1, Zenon
  <2>3. newer = B
    BY <1>3, <1>4, <1>5, <1>6, <2>1, Zenon
  <2>4. QED
    BY <2>2, <2>3
<1>9. ASSUME NEW X, NEW F, F \subseteq R, \A e \in X : e = <<e[1], e[2]>>,
             \A f, i : <<f, i>> \in X <=> f \in F /\ i \in H(f)
      PROVE  /\ {e[1] : e \in X} = F
             /\ \A f \in F : {e[2] : e \in {h \in X : h[1] = f}} = H(f)
  <2>1. ASSUME NEW e \in X PROVE e[1] \in F /\ e[2] \in H(e[1])
    BY <1>9
  <2>2. ASSUME NEW f \in F, NEW i \in H(f)
        PROVE  \E e \in X : e[1] = f /\ e[2] = i
    <3>1. <<f, i>> \in X /\ <<f, i>>[1] = f /\ <<f, i>>[2] = i
      BY <1>9
    <3>2. QED
      BY <3>1
  <2>3. ASSUME NEW f \in F PROVE \E e \in X : e[1] = f
    <3>1. \E i : i \in H(f)
      BY <1>7, <1>9
    <3>2. QED
      BY <2>2, <3>1
  <2>4. QED
    BY <2>1, <2>2, <2>3
<1> DEFINE T == IF P # {} THEN P ELSE S
<1>10. T \subseteq R /\ \A f, i : <<f, i>> \in tail <=> f \in T /\ i \in H(f)
  <2>1. newer = {} <=> P = {}
    <3>1. P \subseteq R
      BY <1>7
    <3>2. {e[1] : e \in newer} = P
      BY <1>4, <1>6, <1>9, <3>1, Zenon
    <3>3. QED
      BY <3>2
  <2>2. QED
    BY <1>4, <1>7, <2>1
<1>11. \A e \in tail : e = <<e[1], e[2]>>
  BY <1>6
<1>12. R = {} <=> T = {}
  BY <1>7
<1> HIDE DEF tail, T
<1>13. {e[1] : e \in tail} = T /\ \A f \in T : {e[2] : e \in {h \in tail : h[1] = f}} = H(f)
  BY <1>9, <1>10, <1>11, Zenon
<1>14. tail = {} <=> R = {}
  BY <1>12, <1>13
<1>15. ASSUME R # {} PROVE Max(T) = Max(R) /\ Max(T) \in T
  <2>1. R \subseteq 0..Len(files) /\ Len(files) \in Nat /\ R \subseteq DOMAIN files
    BY <1>7 DEF StoreOk, IsSeq
  <2>2. Max(R) \in R /\ \A g \in R : Max(R) >= g
    BY <1>15, <2>1, GreatestOf
  <2>3. Max(T) \in T /\ \A g \in T : Max(T) >= g
    BY <1>10, <1>12, <1>15, <2>1, GreatestOf
  <2>4. Max(R) \in T
    <3>1. ASSUME Max(R) \in S, NEW g \in P PROVE FALSE
      <4>1. Max(R) < g
        BY <1>7, <2>1, <3>1 DEF InOrder, Coming
      <4>2. Max(R) >= g
        BY <1>7, <2>2
      <4>3. QED
        BY <1>7, <2>1, <2>2, <4>1, <4>2
    <3>2. QED
      BY <1>7, <2>2, <3>1 DEF T
  <2>5. Max(T) \in R /\ Max(T) \in Nat /\ Max(R) \in Nat
    BY <1>10, <2>1, <2>2, <2>3
  <2>6. QED
    BY <2>2, <2>3, <2>4, <2>5
<1>16. ASSUME R # {} PROVE latest = Max(R) /\ first = Max(H(Max(R)))
  BY <1>13, <1>15, <1>16
<1> HIDE DEF latest, first
<1>17. LocalBenchIndex_lookup(Here, read, name) =
         IF R = {} THEN None
         ELSE MeasuredTps(StoredResults(Max(R))[Max(H(Max(R)))].tps, Cardinality(A) + Cardinality(B), "LocalBench")
  BY <1>1, <1>8, <1>14, <1>16
<1>18. QED
  BY <1>17 DEF A, B, R, H

-----------------------------------------------------------------------------
(* The theorems.                                                           *)

(* The invariant holds of every machine at its start. *)
LEMMA InitInv == Init => IInv
<1> SUFFICES ASSUME Init PROVE IInv
  OBVIOUS
<1>1. PICK m \in Machines : Starts(m)
  BY DEF Init
<1> DEFINE earlier == [slug |-> "earlier", files |-> {}, now |-> -1]
           bs == IF m.opened THEN {earlier} ELSE {}
<1>2. StoreOk(files) /\ \A f \in DOMAIN files : files[f].where # "shared"
  <2>1. files = m.files
    BY <1>1 DEF Starts
  <2>2. QED
    BY <2>1, MachinesAssumption DEF StoreOk, IsSeq
<1>3. GhOk(gh)
  <2>1. /\ DOMAIN gh = {"fork", "main", "branches", "prs"}
        /\ DOMAIN gh.branches = bs
        /\ gh.prs = IF m.opened THEN <<[branch |-> earlier, state |-> "open"]>> ELSE <<>>
    BY <1>1 DEF Starts
  <2>2. CASE m.opened
    <3> DEFINE e == [branch |-> earlier, state |-> "open"]
    <3>1. gh.prs = <<e>> /\ DOMAIN e = {"branch", "state"} /\ e.branch \in DOMAIN gh.branches
      BY <2>1, <2>2
    <3> HIDE DEF e
    <3>2. /\ gh.prs \in Seq({e}) /\ DOMAIN gh.prs = {1} /\ gh.prs[1] = e
      BY <3>1
    <3>3. IsSeq(gh.prs)
      BY <3>2, OfElements
    <3>4. QED
      BY <2>1, <3>1, <3>2, <3>3 DEF GhOk
  <2>3. CASE ~ m.opened
    <3>1. gh.prs = <<>>
      BY <2>1, <2>3
    <3>2. IsSeq(gh.prs) /\ DOMAIN gh.prs = {}
      BY <3>1 DEF IsSeq
    <3>3. QED
      BY <2>1, <3>2 DEF GhOk
  <2>4. QED
    BY <2>2, <2>3
<1>4. DOMAIN work = Workers /\ \A w \in Workers : work[w] = Idle
  BY <1>1 DEF Starts
<1>5. \A w \in Workers : WorkerOk(work[w], files, gh, clashed)
  BY <1>4, IdleEarly, EarlyOk
<1>6. RivalsOk(work, clashed)
  BY <1>4 DEF RivalsOk, Rivals, Idle, On
<1>7. SharedOk(files, gh, clashed)
  BY <1>2 DEF SharedOk
<1>8. ViewOk(view)
  <2>1. view = ClosedView
    BY <1>1 DEF Starts
  <2>2. QED
    BY <2>1 DEF ClosedView, ViewOk, ViewFields
<1>9. QED
  BY <1>2, <1>3, <1>4, <1>5, <1>6, <1>7, <1>8 DEF IInv, ShareInv

(* Every step keeps it. *)
LEMMA NextInv == IInv /\ [Next]_vars => IInv'
<1> SUFFICES ASSUME IInv, [Next]_vars PROVE IInv'
  OBVIOUS
<1>0. ShareInv /\ ViewOk(view)
  BY DEF IInv
<1>1. ASSUME UNCHANGED shareVars PROVE ShareInv'
  BY <1>0, <1>1 DEF ShareInv, shareVars
<1>2. CASE UNCHANGED vars
  BY <1>0, <1>1, <1>2 DEF IInv, vars
<1>3. ASSUME NEW w \in Workers, NEW job \in left.jobs, run_bench(w, job), UNCHANGED view
      PROVE  IInv'
  BY <1>0, <1>3, StartStep DEF IInv
<1>4. ASSUME NEW w \in Workers, WorkerStep(w), UNCHANGED view PROVE IInv'
  BY <1>0, <1>4, WorkerStepOk DEF IInv
<1>5. ASSUME NEW w \in Workers, Crash(w), UNCHANGED view PROVE IInv'
  BY <1>0, <1>5, DeadStep DEF IInv, Crash
<1>6. CASE ForkReady /\ UNCHANGED view
  BY <1>0, <1>6, WorldStep DEF IInv
<1>7. ASSUME NEW i \in DOMAIN gh.prs, NEW s \in {"merged", "closed"}, Review(i, s), UNCHANGED view
      PROVE  IInv'
  BY <1>0, <1>7, WorldStep DEF IInv
<1>8. CASE PressNormal
  <2>1. ViewOk(view')
    BY <1>0, <1>8, OpenedView DEF PressNormal, Key
  <2>2. QED
    BY <1>1, <1>8, <2>1 DEF IInv, PressNormal
<1>9. CASE PressBoard
  <2>1. ViewOk(view')
    BY <1>0, <1>9, BoardKeys DEF PressBoard, Key
  <2>2. QED
    BY <1>1, <1>9, <2>1 DEF IInv, PressBoard
<1>10. CASE PressOffer
  <2>1. ViewOk(view')
    BY <1>0, <1>10, OfferKeys DEF PressOffer, Key
  <2>2. QED
    BY <1>1, <1>10, <2>1 DEF IInv, PressOffer
<1>11. ASSUME NEW w \in Workers, bench_offer_confirm(w) PROVE IInv'
  <2>1. ViewOk(view')
    BY <1>0, <1>11, OfferKeys DEF bench_offer_confirm, Key
  <2>2. QED
    BY <1>0, <1>11, <2>1, StartStep DEF IInv
<1>12. CASE FetchEnds
  <2>1. ViewOk(view')
    <3>1. PICK r : view' = [view EXCEPT !.fetch.result = r] /\ view.fetch # None
      BY <1>12 DEF FetchEnds
    <3>2. /\ DOMAIN view' = ViewFields /\ view'.label = view.label /\ view'.entries = view.entries
          /\ view'.pinned = view.pinned /\ view'.scan = view.scan
          /\ DOMAIN view'.fetch = DOMAIN view.fetch /\ view'.fetch.of = view.fetch.of
      BY <1>0, <3>1 DEF ViewOk, ViewFields
    <3>3. QED
      BY <1>0, <3>1, <3>2 DEF ViewOk
  <2>2. QED
    BY <1>1, <1>12, <2>1 DEF IInv, FetchEnds
<1>13. CASE TickFetch
  <2>1. ViewOk(view')
    BY <1>0, <1>13, FetchedView DEF TickFetch
  <2>2. QED
    BY <1>1, <1>13, <2>1 DEF IInv, TickFetch
<1>14. CASE TickOffer
  <2>1. ViewOk(view')
    BY <1>0, <1>14, OfferKeys DEF TickOffer
  <2>2. QED
    BY <1>0, <1>14, <2>1, TakenStep DEF IInv
<1>15. CASE Start \/ Started
  <2>1. \A x, y, z : /\ x = None \/ x.of = "fits" => ViewOk([view EXCEPT !.scan = x])
                     /\ ViewOk([view EXCEPT !.scan = None, !.mode = y, !.measured = z])
    BY <1>0 DEF ViewOk, ViewFields
  <2>2. CASE Start
    <3> DEFINE x == Scan("fits", shared_benchmarks, FALSE)
    <3>1. x.of = "fits"
      BY DEF Scan
    <3>2. view' = [view EXCEPT !.scan = x]
      BY <2>2 DEF Start, Key
    <3> HIDE DEF x
    <3>3. QED
      BY <1>1, <2>1, <2>2, <3>1, <3>2 DEF IInv, Start
  <2>3. CASE Started
    BY <1>1, <2>1, <2>3 DEF IInv, Started
  <2>4. QED
    BY <1>15, <2>2, <2>3
<1>16. CASE TickRows
  <2>1. ViewOk(view')
    BY <1>0, <1>16, PinView DEF TickRows
  <2>2. QED
    BY <1>1, <1>16, <2>1 DEF IInv, TickRows
<1>17. CASE TickIndex
  <2>1. \A x : ViewOk([view EXCEPT !.scan = None, !.measured = x])
    BY <1>0 DEF ViewOk, ViewFields
  <2>2. ViewOk(view')
    BY <1>17, <2>1 DEF TickIndex
  <2>3. QED
    BY <1>1, <1>17, <2>2 DEF IInv, TickIndex
<1>18. CASE Quit
  <2>1. ViewOk(ClosedView)
    BY DEF ClosedView, ViewOk, ViewFields
  <2>2. QED
    BY <1>0, <1>18, <2>1, DeadStep DEF IInv, Quit
<1>19. QED
  BY <1>2, <1>3, <1>4, <1>5, <1>6, <1>7, <1>8, <1>9, <1>10, <1>11, <1>12, <1>13, <1>14, <1>15, <1>16,
     <1>17, <1>18 DEF Next

(* The invariant is one of the specification: what a store, GitHub and the *)
(* workers on them may be, at every moment.                                *)
THEOREM InvAlways == Spec => []IInv
  BY InitInv, NextInv, PTL DEF Spec

(* mark_shared moves only what was submitted.  Whatever requests fail or   *)
(* are answered too late, whichever command dies, however many share the   *)
(* store at once and whatever the maintainers do in between, a result in   *)
(* shared/ whose hardware is identified is in the repository, in the       *)
(* branch of a pull request, or one of two submissions under one name.     *)
THEOREM SharedIsOfferedAlways == Spec => []SharedIsOffered
<1>1. IInv => SharedIsOffered
  BY DEF IInv, ShareInv, SharedOk, NamesHw, IsOffered, SharedIsOffered, Identified, Offered
<1>2. QED
  BY <1>1, InvAlways, PTL

(* A fetch that was started for a preset never delivers its rows under the *)
(* header of this machine, and this machine's own results are never pinned *)
(* under the header of a preset: for every order of keys, fetches and      *)
(* messages.                                                               *)
THEOREM RowsMatchHardwareAlways == Spec => []RowsMatchHardware
<1>1. IInv => RowsMatchHardware
  BY DEF IInv, ViewOk, RowsMatchHardware
<1>2. QED
  BY <1>1, InvAlways, PTL

(* The order of the store holds at the start: nothing is shared, and       *)
(* nobody has read or writes anything.                                     *)
LEMMA InitTime == Init => TimeInv
<1> SUFFICES ASSUME Init PROVE TimeInv
  OBVIOUS
<1>1. PICK m \in Machines : Starts(m)
  BY DEF Init
<1>2. files = m.files /\ disordered = FALSE /\ work = [w \in Workers |-> Idle]
  BY <1>1 DEF Starts
<1>3. \A i \in DOMAIN files : files[i].where # "shared"
  BY <1>2, MachinesAssumption
<1>4. \A w \in Workers : work[w].snap = {} /\ work[w].pc = "idle"
  BY <1>2 DEF Idle
<1>5. QED
  BY <1>2, <1>3, <1>4 DEF TimeInv, OneWriter, ReadWhole, InOrder, TurnToCome

(* Every step keeps it. *)
LEMMA NextTime == IInv /\ TimeInv /\ [Next]_vars => TimeInv'
<1> SUFFICES ASSUME IInv, TimeInv, [Next]_vars PROVE TimeInv'
  OBVIOUS
<1>0. ShareInv
  BY DEF IInv
<1>1. ASSUME UNCHANGED <<files, work, disordered>> PROVE TimeInv'
  BY <1>1 DEF TimeInv
<1>2. CASE UNCHANGED vars
  BY <1>1, <1>2 DEF vars, shareVars
<1>3. ASSUME NEW w \in Workers, NEW job \in left.jobs, run_bench(w, job) PROVE TimeInv'
  BY <1>0, <1>3, BeforeStore
<1>4. ASSUME NEW w \in Workers, WorkerStep(w) PROVE TimeInv'
  BY <1>0, <1>4, BeforeStore, WriteInOrder, StoredInOrder, ListInOrder, BeforeMark, MarkInOrder
     DEF WorkerStep
<1>5. ASSUME NEW w \in Workers, Crash(w) PROVE TimeInv'
  BY <1>0, <1>5, DeadInOrder DEF Crash
<1>6. CASE \/ ForkReady
           \/ \E i \in DOMAIN gh.prs, s \in {"merged", "closed"} : Review(i, s)
  BY <1>1, <1>6 DEF ForkReady, Review
<1>7. CASE \/ Start \/ Started \/ PressNormal \/ PressBoard \/ PressOffer
           \/ FetchEnds \/ TickFetch \/ TickRows \/ TickIndex
  BY <1>1, <1>7 DEF Start, Started, PressNormal, PressBoard, PressOffer, FetchEnds, TickFetch, TickRows,
                    TickIndex, shareVars
<1>8. ASSUME NEW w \in Workers, bench_offer_confirm(w) PROVE TimeInv'
  BY <1>0, <1>8, BeforeStore
<1>9. CASE TickOffer
  BY <1>0, <1>9, TakenCalmly
<1>10. CASE Quit
  BY <1>0, <1>10, DeadInOrder DEF Quit
<1>11. QED
  BY <1>2, <1>3, <1>4, <1>5, <1>6, <1>7, <1>8, <1>9, <1>10 DEF Next

(* No step moves a file out of shared/. *)
LEMMA SharedForGood ==
    ASSUME ShareInv, TimeInv, [Next]_vars, NEW f \in DOMAIN files, files[f].where = "shared"
    PROVE  f \in DOMAIN files' /\ files'[f].where = "shared"
<1>1. StoreOk(files)
  BY DEF ShareInv
<1>2. CASE UNCHANGED files
  BY <1>2
<1>3. ASSUME NEW w \in Workers, store_local(w), ~ UNCHANGED files
      PROVE  f \in DOMAIN files' /\ files'[f].where = "shared"
  <2>1. PICK e : files' = Append(files, e)
    BY <1>3 DEF store_local
  <2>2. QED
    BY <1>1, <2>1, Appended DEF StoreOk
<1>4. ASSUME NEW w \in Workers, stored(w)
      PROVE  f \in DOMAIN files' /\ files'[f].where = "shared"
  <2>1. work[w].n \in DOMAIN files /\ files[work[w].n].where = "writing"
    BY <1>4 DEF stored, TimeInv, OneWriter
  <2>2. PICK x : files' = [files EXCEPT ![work[w].n].where = x]
    BY <1>4 DEF stored
  <2>3. QED
    BY <1>1, <2>1, <2>2 DEF StoreOk
<1>5. ASSUME NEW w \in Workers, mark_shared(w)
      PROVE  f \in DOMAIN files' /\ files'[f].where = "shared"
  <2>1. \/ UNCHANGED files
        \/ files' = [files EXCEPT ![work[w].n].where = "shared"]
    BY <1>5 DEF mark_shared
  <2>2. QED
    BY <1>1, <2>1 DEF StoreOk
<1>6. ASSUME NEW ws \in SUBSET Workers, Dead(ws)
      PROVE  f \in DOMAIN files' /\ files'[f].where = "shared"
  <2>1. \A w \in ws : work[w].pc = "stored" => work[w].n # f
    BY DEF TimeInv, OneWriter
  <2>2. QED
    BY <1>6, <2>1 DEF Dead
<1>7. ASSUME NEW w \in Workers, WorkerStep(w)
      PROVE  \/ UNCHANGED files \/ store_local(w) \/ stored(w) \/ mark_shared(w)
  BY <1>7 DEF WorkerStep, preflight_auth, device_flow, discover, measure, share_all_pending, prepare_files,
              ensure_fork, poll_fork, find_open_bench_pr, upstream_head_sha, create_branch, put_files, open_pr
<1>8. \/ UNCHANGED files
      \/ \E w \in Workers : WorkerStep(w)
      \/ \E ws \in SUBSET Workers : Dead(ws)
  <2>1. \A w \in Workers : Crash(w) => \E ws \in SUBSET Workers : Dead(ws)
    BY DEF Crash
  <2>2. Quit => \E ws \in SUBSET Workers : Dead(ws)
    BY DEF Quit
  <2>3. QED
    BY <2>1, <2>2
       DEF Next, vars, shareVars, run_bench, ForkReady, Review, Start, Started, PressNormal, PressBoard,
           PressOffer, bench_offer_confirm, FetchEnds, TickFetch, TickOffer, TickRows, TickIndex
<1>9. QED
  BY <1>2, <1>3, <1>4, <1>5, <1>6, <1>7, <1>8

(* What the index is reading is kept, or read anew, by every step. *)
LEMMA NextScan == IInv /\ TimeInv /\ ScanOk(view, files) /\ [Next]_vars => ScanOk(view, files)'
<1> SUFFICES ASSUME IInv, TimeInv, ScanOk(view, files), [Next]_vars PROVE ScanOk(view, files)'
  OBVIOUS
<1>0. ShareInv /\ DOMAIN view = ViewFields
  BY DEF IInv, ViewOk
<1>1. CASE view'.scan = view.scan
  BY <1>0, <1>1, SharedForGood DEF ScanOk
<1>2. CASE view'.scan = None
  BY <1>2 DEF ScanOk
<1>3. ASSUME UNCHANGED files, NEW x, view'.scan = Scan(x, shared_benchmarks, FALSE)
      PROVE  ScanOk(view, files)'
  BY <1>3 DEF ScanOk, Scan, shared_benchmarks
<1>4. ASSUME NEW x, NEW y, view'.scan = Scan("rows", x, y)
      PROVE  ScanOk(view, files)'
  BY <1>4 DEF ScanOk, Scan
<1> DEFINE Reads(v) == \/ v.scan = None \/ v.scan = view.scan
                       \/ \E x : v.scan = Scan(x, shared_benchmarks, FALSE)
                       \/ \E x, y : v.scan = Scan("rows", x, y)
<1>5. ASSUME UNCHANGED files, Reads(view') PROVE ScanOk(view, files)'
  BY <1>1, <1>2, <1>3, <1>4, <1>5
<1>6. ASSUME NEW v, DOMAIN v = ViewFields, v.scan = view.scan, NEW more
      PROVE  Reads(merge_local_bench_rows(v, more))
  BY <1>6 DEF merge_local_bench_rows, Rescan, ViewFields
<1> HIDE DEF Reads
<1> DEFINE Same(v) == DOMAIN v = ViewFields /\ v.scan = view.scan
<1>7. CASE TickFetch
  <2> DEFINE got == [view EXCEPT !.fetch = None, !.loading = FALSE]
  <2>1. \A t, rs, e :
          /\ Same([got EXCEPT !.total = t, !.pinned = <<>>, !.entries = rs])
          /\ Same([got EXCEPT !.error = e])
          /\ Same([got EXCEPT !.total = t, !.pinned = <<>>, !.entries = rs, !.error = e])
    BY <1>0 DEF ViewFields
  <2> HIDE DEF Same
  <2>2. PICK v : Same(v) /\ view' = merge_local_bench_rows(v, FALSE)
    BY <1>7, <2>1 DEF TickFetch, tick_bench_fetch
  <2>3. QED
    BY <1>5, <1>6, <1>7, <2>2 DEF TickFetch, shareVars, Same
<1>8. CASE TickOffer
  <2>1. PICK x, y : \/ view' = [view EXCEPT !.auth = x, !.offer = y]
                    \/ view' = merge_local_bench_rows([[view EXCEPT !.auth = x, !.offer = y]
                                                          EXCEPT !.rx = None], TRUE)
    BY <1>8 DEF TickOffer, tick_bench_offer
  <2> DEFINE a == [view EXCEPT !.auth = x, !.offer = y]
             b == [a EXCEPT !.rx = None]
  <2>2. a.scan = view.scan /\ DOMAIN b = ViewFields /\ b.scan = view.scan
    BY <1>0 DEF ViewFields
  <2>3. view' = a \/ view' = merge_local_bench_rows(b, TRUE)
    BY <2>1
  <2> HIDE DEF a, b
  <2>4. Reads(merge_local_bench_rows(b, TRUE))
    BY <1>6, <2>2
  <2>5. QED
    BY <1>1, <1>5, <1>8, <2>2, <2>3, <2>4 DEF TickOffer
<1>9. CASE PressNormal
  <2> DEFINE opened == [view EXCEPT !.open = TRUE, !.mode = "Benchmarks", !.cursor = 0,
                                    !.query = <<>>, !.searching = FALSE]
             asked(job, n, x) == [opened EXCEPT !.offer = "Offer", !.job = job, !.auth = FALSE,
                                                !.waiting = n, !.unavailable = x, !.mode = "BenchOffer"]
  <2>1. Same(opened) /\ \A job, n, x : Same(asked(job, n, x))
    BY <1>0 DEF ViewFields
  <2> HIDE DEF Same
  <2>2. PICK v : Same(v) /\ (view' = fetch_benchmarks(v) \/ view' = merge_local_bench_rows(v, FALSE))
    BY <1>9, <2>1 DEF PressNormal, Key, open_benchmarks
  <2>3. DOMAIN v = ViewFields /\ v.scan = view.scan
    BY <2>2 DEF Same
  <2>4. fetch_benchmarks(v).scan = view.scan
    BY <2>3 DEF fetch_benchmarks, Fetching, ViewFields
  <2>5. QED
    BY <1>1, <1>5, <1>6, <1>9, <2>2, <2>3, <2>4 DEF PressNormal, shareVars
<1>10. CASE PressBoard
  <2>1. \A v \in handle_benchmarks_mode(view) : v.scan = view.scan
    BY <1>0 DEF handle_benchmarks_mode, close_bench_hw_picker, bench_hw_picker_up, bench_hw_picker_down,
                bench_hw_picker_select, bench_search_clear, bench_search_accept, bench_search_backspace,
                bench_move_up, bench_move_down, bench_search_input, close_benchmarks, bench_search_start,
                bench_refresh, open_bench_hw_picker, fetch_benchmarks, Fetching, ViewFields
  <2>2. QED
    BY <1>1, <1>10, <2>1 DEF PressBoard, Key
<1>11. CASE PressOffer
  <2>1. /\ bench_offer_toggle_share(view).scan = view.scan
        /\ bench_offer_dismiss(view).scan = view.scan
    BY <1>0 DEF bench_offer_toggle_share, bench_offer_dismiss, ViewFields
  <2>2. view' \in handle_bench_offer_mode(view)
    BY <1>11 DEF PressOffer, Key
  <2>3. view' \in {bench_offer_toggle_share(view), bench_offer_dismiss(view)}
    BY <2>2 DEF handle_bench_offer_mode
  <2>4. QED
    BY <1>1, <2>1, <2>3
<1>12. CASE \E w \in Workers : bench_offer_confirm(w)
  BY <1>0, <1>1, <1>12 DEF bench_offer_confirm, Key, ViewFields
<1>13. CASE FetchEnds
  BY <1>0, <1>1, <1>13 DEF FetchEnds, ViewFields
<1>14. CASE Start
  BY <1>0, <1>3, <1>14 DEF Start, Key, ViewFields, shareVars
<1>15. CASE Started \/ TickIndex
  BY <1>0, <1>2, <1>15 DEF Started, TickIndex, ViewFields
<1>16. CASE TickRows
  <2>1. PICK v : DOMAIN v = ViewFields /\ view' = Rescan(v, view.scan.more)
    BY <1>0, <1>16 DEF TickRows, PinLocalRows, Clamp, ViewFields
  <2>2. Reads(view')
    BY <2>1 DEF Rescan, ViewFields, Reads
  <2>3. QED
    BY <1>5, <1>16, <2>2 DEF TickRows, shareVars
<1>17. CASE Quit
  BY <1>2, <1>17 DEF Quit, ClosedView
<1>18. QED
  BY <1>1, <1>7, <1>8, <1>9, <1>10, <1>11, <1>12, <1>13, <1>14, <1>15, <1>16, <1>17 DEF Next, vars

(* While results move one by one from pending/ to shared/, under several   *)
(* workers, failures, deaths and messages in any order, LocalBenchIndex    *)
(* gives the most recent run of every model on this hardware and counts    *)
(* every run once, but for the runs that move between its two reads;       *)
(* unless a move failed or a share read the store while an older file was  *)
(* being written.                                                          *)
THEOREM LocalNewestAlways == Spec => []LocalNewest
<1>1. IInv /\ TimeInv /\ ScanOk(view, files) => LocalNewest
  <2> SUFFICES ASSUME IInv, TimeInv, ScanOk(view, files) PROVE LocalNewest
    OBVIOUS
  <2>1. StoreOk(files) /\ disordered \in BOOLEAN
    BY DEF IInv, ShareInv, TimeInv
  <2>2. CASE disordered = FALSE
    BY <2>1, <2>2, FindsNewest DEF TimeInv
  <2>3. CASE disordered = TRUE
    BY <2>3 DEF LocalNewest
  <2>4. QED
    BY <2>1, <2>2, <2>3
<1>2. Init => ScanOk(view, files)
  BY DEF Init, Starts, ClosedView, ScanOk
<1>3. QED
  BY <1>1, <1>2, InitInv, NextInv, InitTime, NextTime, NextScan, PTL DEF Spec

=============================================================================
