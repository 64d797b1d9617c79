---------------------------- MODULE AccessCache ----------------------------
(***************************************************************************)
(* The in-memory copy of the user_access table (user/access_cache.go) and  *)
(* those who reload it: every mutation of access rules by user.Manager     *)
(* reloads the users it touched, the poller reloads everything, and other  *)
(* processes (the ntfy command line) write to the same database.           *)
(*                                                                         *)
(* The rows of a user are represented by how often they were written, so a *)
(* smaller number is an older state of that user's rules.  accessCache.seq *)
(* is only ever compared with an earlier reading of itself; raced holds    *)
(* the reloads for which it has changed since they read it.                *)
(***************************************************************************)
EXTENDS Naturals

CONSTANTS
    Users,              \* user names
    Everyone,           \* the name that stands for anonymous visitors
    Mutators,           \* goroutines that change access rules
    Poller,             \* asyncAccessCacheReloadLoop
    Mutations,          \* the kinds of mutations made: see MutationKinds
    MaxWrites           \* bound: writes to the rows of one name

Names == Users \union {Everyone}
Procs == Mutators \union {Poller}
MutationKinds == {"AllowAccess", "ResetAccess", "ChangeRole", "External"}

ASSUME AccessCacheAssumption ==
    /\ Everyone \notin Users
    /\ Poller \notin Mutators
    /\ Mutations \subseteq MutationKinds
    /\ MaxWrites \in Nat

VARIABLES
    table,              \* per name: version of its rows in user_access
    cache,              \* per name: version of its rows in exact and pattern
    stage,              \* per process: where it is
    scope,              \* per process: the names its Reload was called with; none means all
    raced,              \* processes with seq # seqBefore
    scan,               \* per process: the rows its query returned
    wrote,              \* per process: the versions its transaction committed (0: not written)
    promised            \* history, per name: the newest version a returned mutation committed

cacheVars == <<table, cache, stage, scope, raced, scan, wrote, promised>>

Stages == {"idle", "committed", "began", "scanned"}

CacheInit ==
    /\ table = [n \in Names |-> 0]
    /\ cache = [n \in Names |-> 0]
    /\ stage = [p \in Procs |-> "idle"]
    /\ scope = [p \in Procs |-> {}]
    /\ raced = {}
    /\ scan = [p \in Procs |-> [n \in Names |-> 0]]
    /\ wrote = [p \in Procs |-> [n \in Names |-> 0]]
    /\ promised = [n \in Names |-> 0]

-----------------------------------------------------------------------------
\* Mutations: a transaction, then a Reload with the scope given.

Written(names) == [n \in Names |-> IF n \in names THEN table[n] + 1 ELSE table[n]]

Commit(p, names, reload) ==
    /\ stage[p] = "idle"
    /\ \A n \in names : table[n] < MaxWrites
    /\ table' = Written(names)
    /\ wrote' = [wrote EXCEPT ![p] = [n \in Names |-> IF n \in names THEN table[n] + 1 ELSE 0]]
    /\ scope' = [scope EXCEPT ![p] = reload]
    /\ stage' = [stage EXCEPT ![p] = "committed"]
    /\ UNCHANGED <<cache, raced, scan, promised>>

\* AllowAccess: one row of one name.
AllowAccess(p, n) ==
    /\ "AllowAccess" \in Mutations
    /\ Commit(p, {n}, {n})

(***************************************************************************)
(* ResetAccess of a user, RemoveUser, MarkUserRemoved, AddReservation,     *)
(* RemoveReservations and RemoveExcessReservations: rows of the user, of   *)
(* Everyone, or of both.                                                   *)
(***************************************************************************)
ResetAccess(p, u) ==
    /\ "ResetAccess" \in Mutations
    /\ \E names \in {{u}, {Everyone}, {u, Everyone}} : Commit(p, names, {u, Everyone})

\* ChangeRole, RemoveDeletedUsers and ResetAccess of everybody: any rows, full reload.
ChangeRole(p) ==
    /\ "ChangeRole" \in Mutations
    /\ \E names \in SUBSET Names \ {{}} : Commit(p, names, {})

\* Another process writes; this one is not told.
External(n) ==
    /\ "External" \in Mutations
    /\ table[n] < MaxWrites
    /\ table' = Written({n})
    /\ UNCHANGED <<cache, stage, scope, raced, scan, wrote, promised>>

-----------------------------------------------------------------------------
\* accessCache.Reload.

Full(p) == scope[p] = {}

\* The poller's ticker.
Poll ==
    /\ stage[Poller] = "idle"
    /\ stage' = [stage EXCEPT ![Poller] = "committed"]
    /\ UNCHANGED <<table, cache, scope, raced, scan, wrote, promised>>

\* seqBefore := c.seq, under the read lock.
ReadSeq(p) ==
    /\ stage[p] = "committed"
    /\ raced' = raced \ {p}
    /\ stage' = [stage EXCEPT ![p] = "began"]
    /\ UNCHANGED <<table, cache, scope, scan, wrote, promised>>

\* The query, on the primary database, and the loop over its rows.
Query(p) ==
    /\ stage[p] = "began"
    /\ scan' = [scan EXCEPT ![p] = table]
    /\ stage' = [stage EXCEPT ![p] = "scanned"]
    /\ UNCHANGED <<table, cache, scope, raced, wrote, promised>>

\* Reload returns and its local variables are gone.
Return(p) ==
    /\ stage' = [stage EXCEPT ![p] = "idle"]
    /\ scope' = [scope EXCEPT ![p] = {}]
    /\ scan' = [scan EXCEPT ![p] = [n \in Names |-> 0]]
    /\ wrote' = [wrote EXCEPT ![p] = [n \in Names |-> 0]]

\* ... without an error: whoever asked for the mutation may count on it.
ReturnNil(p) ==
    /\ Return(p)
    /\ promised' = [n \in Names |-> IF wrote[p][n] > promised[n] THEN wrote[p][n] ELSE promised[n]]

\* The query fails: the error goes to the caller, the rows are committed all the same.
QueryFails(p) ==
    /\ stage[p] = "began"
    /\ raced' = raced \ {p}
    /\ Return(p)
    /\ UNCHANGED <<table, cache, promised>>

\* Replace all maps, or only the entries of the names given.
Merged(p) == [n \in Names |-> IF Full(p) \/ n \in scope[p] THEN scan[p][n] ELSE cache[n]]

\* c.seq++: the other reloads under way find it changed.
BumpSeq(p) == raced' = {q \in Procs \ {p} : stage[q] \in {"began", "scanned"}}

\* Reload without a look at the sequence number.
ApplyAlways(p) ==
    /\ stage[p] = "scanned"
    /\ cache' = Merged(p)
    /\ BumpSeq(p)
    /\ ReturnNil(p)
    /\ UNCHANGED table

\* Under the write lock: only a full reload looks at the sequence number.
Apply(p) ==
    /\ stage[p] = "scanned"
    /\ Full(p) => p \notin raced
    /\ cache' = Merged(p)
    /\ BumpSeq(p)
    /\ ReturnNil(p)
    /\ UNCHANGED table

\* A raced reload that waits for its sequence number to come back.
SkipForever(p) ==
    /\ stage[p] = "scanned"
    /\ Full(p)
    /\ p \in raced
    /\ UNCHANGED cacheVars

\* "ACL cache reload skipped due to race": returns nil, too.
Skip(p) ==
    /\ stage[p] = "scanned"
    /\ Full(p)
    /\ p \in raced
    /\ raced' = raced \ {p}
    /\ ReturnNil(p)
    /\ UNCHANGED <<table, cache>>

ReloadStep(p) == ReadSeq(p) \/ Query(p) \/ Apply(p) \/ Skip(p)

CacheNext ==
    \/ \E p \in Mutators :
          \/ \E n \in Names : AllowAccess(p, n)
          \/ \E u \in Users : ResetAccess(p, u)
          \/ ChangeRole(p)
    \/ \E n \in Names : External(n)
    \/ Poll
    \/ \E p \in Procs : ReloadStep(p) \/ QueryFails(p)

(***************************************************************************)
(* The poller's ticker keeps firing, reloads under way run on, and queries *)
(* do not fail for ever.  Nobody is obliged to change an access rule.      *)
(***************************************************************************)
CacheFairness ==
    /\ WF_cacheVars(Poll)
    /\ \A p \in Procs : WF_cacheVars(ReadSeq(p)) /\ SF_cacheVars(Query(p)) /\ WF_cacheVars(Apply(p) \/ Skip(p))

CacheSpec == CacheInit /\ [][CacheNext]_cacheVars
FairCacheSpec == CacheSpec /\ CacheFairness

-----------------------------------------------------------------------------
\* Properties.

Versions == [Names -> 0 .. MaxWrites]

CacheTypeOK ==
    /\ table \in Versions
    /\ cache \in Versions
    /\ stage \in [Procs -> Stages]
    /\ scope \in [Procs -> SUBSET Names]
    /\ scope[Poller] = {}
    /\ raced \in SUBSET Procs
    /\ scan \in [Procs -> Versions]
    /\ wrote \in [Procs -> Versions]
    /\ promised \in Versions

(***************************************************************************)
(* What the sequence number is for: applying a full reload never brings    *)
(* back rules that are older than the ones the cache has, of any user      *)
(* (TestAccessCache_FullReloadDoesNotClobberConcurrentRevoke).             *)
(***************************************************************************)
FullReloadNeverGoesBack ==
    [][\A p \in Procs : (Full(p) /\ Apply(p)) => \A n \in Names : cache'[n] >= cache[n]]_cacheVars

(***************************************************************************)
(* "they refresh affected users synchronously" (user/manager.go:121), for  *)
(* any number of goroutines: a reload that is applied leaves in the cache  *)
(* what its mutation has written, for all names it touched, and takes back *)
(* what the cache had only of names it was called with, and only when      *)
(* another reload was applied since it began.                              *)
(***************************************************************************)
ReloadIsVisible ==
    [][\A p \in Procs : Apply(p) =>
          \A n \in Names :
              /\ cache'[n] >= wrote[p][n]
              /\ cache'[n] < cache[n] => p \in raced /\ n \in scope[p]]_cacheVars

(***************************************************************************)
(* Once nobody writes any more, the poller brings the cache up to date,    *)
(* whatever reloads raced, failed or were skipped before.                  *)
(***************************************************************************)
EventuallyFresh == <>[](\A n \in Names : cache[n] = table[n])

-----------------------------------------------------------------------------
\* Not guaranteed: what a comment or a document says and TLC refutes (see the README).

(***************************************************************************)
(* Reload says of its races and lost updates: "This is solved with the     *)
(* sequence number".  No reload takes a user's rules back.                 *)
(***************************************************************************)
NoLostUpdate == [][\A n \in Names : cache'[n] >= cache[n]]_cacheVars

(***************************************************************************)
(* A mutation of this process that returned nil is in the cache, for all   *)
(* names it touched, and stays there: "This Manager's own mutations do not *)
(* depend on the poller" (asyncAccessCacheReloadLoop).                     *)
(***************************************************************************)
OwnMutationsVisible == \A n \in Names : cache[n] >= promised[n]

=============================================================================
