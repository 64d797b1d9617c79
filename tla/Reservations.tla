---------------------------- MODULE Reservations ----------------------------
(***************************************************************************)
(* Topic reservations and tiers (user/manager.go), with the handlers and   *)
(* the payment webhook that change them (server/server_account.go,         *)
(* server_payments.go, server_admin.go).                                   *)
(*                                                                         *)
(* Concurrent requests interleave; a step is one query or one transaction, *)
(* which SQLite runs one after the other.  A request keeps the user it was *)
(* authenticated with, and so the tier the user had then.                  *)
(***************************************************************************)
EXTENDS Integers, FiniteSets

CONSTANTS
    Users,
    Admins,             \* the users with the role of an admin
    Topics,             \* the topics in the order of ORDER BY topic, as numbers
    Limits,             \* the reservation limits of the tiers; a tier is known by its limit
    InitialTiers,       \* the tiers that users may have at first
    AdminTiers,         \* the tiers that an admin may give them
    AdminTopics,        \* bound: the topics whose access an admin changes
    Requests,           \* bound: requests that run at the same time
    MaxFaults,          \* bound: failing updates of the message cache
    Everyone,           \* the anonymous user
    None                \* no tier, no owner

ASSUME ReservationsAssumption ==
    /\ Admins \subseteq Users
    /\ Topics \subseteq Nat
    /\ Limits \subseteq Nat
    /\ AdminTopics \subseteq Topics
    /\ InitialTiers \union AdminTiers \subseteq Limits \union {None}
    /\ None \notin Nat
    /\ None \notin Users
    /\ Everyone \notin Users \union {None}
    /\ MaxFaults \in Nat

VARIABLES
    access,             \* table user_access: who owns the entry of a user for a topic
    tier,               \* the tier of each user
    request,            \* where each request is
    excess,             \* the topics that lost a reservation to a lower tier and whose messages
                        \* are not marked as deleted yet
    faults              \* failing updates of the message cache so far

vars == <<access, tier, request, excess, faults>>

Subjects == Users \union {Everyone}
Tiers == Limits \union {None}
Entries == [user : Subjects, topic : Topics, owner : Users \union {None}]

Idle == [at |-> "idle"]
Steps ==
    {Idle} \union [at : {"allowed"}, user : Users, topic : Topics, limit : Nat]
           \union [at : {"removing"}, user : Users, topic : Topics, purge : BOOLEAN]
           \union [at : {"expiring"}, topics : SUBSET Topics]
           \union [at : {"downgrading"}, user : Users, old : Tiers, new : Tiers, topics : SUBSET Topics]
           \union [at : {"tiering"}, user : Users, old : Tiers, new : Tiers]

Init ==
    /\ access = {}
    /\ tier \in [Users -> InitialTiers]
    /\ request = [r \in Requests |-> Idle]
    /\ excess = {}
    /\ faults = 0

At(r, step) == request[r].at = step
Goto(r, step) == request' = [request EXCEPT ![r] = step]

-----------------------------------------------------------------------------
\* Queries.

\* The topics that a user has reserved.
Reserved(u) == {e.topic : e \in {f \in access : f.user = u /\ f.owner = u}}

ReservationOwners(t) == {u \in Users : t \in Reserved(u)}

otherAccess(u, t) == {e \in access : e.topic = t /\ e.owner # u}

\* The reservation limit of a tier; a user without one may have none.
LimitOf(tr) == IF tr = None THEN 0 ELSE tr

\* upsertUserAccess: one entry per user and topic.
Upsert(entries, u, t, owner) ==
    {e \in entries : e.user # u \/ e.topic # t} \union {[user |-> u, topic |-> t, owner |-> owner]}

\* deleteTopicAccess: a user's entries for a topic, and the entries the user owns.
resetTopicAccessTx(entries, u, t) == {e \in entries : e.topic # t \/ (e.user # u /\ e.owner # u)}

\* A reservation is released with the entry of Everyone left behind.
releaseOwnEntry(entries, u, t) == {e \in entries : e.topic # t \/ e.user # u}

\* A reservation is released whoever owns it.
releaseTopic(entries, u, t) == {e \in entries : e.topic # t}

removeReservationAccessTx(entries, u, t) == resetTopicAccessTx(resetTopicAccessTx(entries, u, t), Everyone, t)

-----------------------------------------------------------------------------
\* Adding a reservation.

\* The handler's checks, with the limit of the tier that the user has at this moment.
handleAccountReservationAdd(r, u, t) ==
    /\ At(r, "idle")
    /\ u \in Admins \/ tier[u] # None
    /\ otherAccess(u, t) = {}
    /\ Goto(r, [at |-> "allowed", user |-> u, topic |-> t, limit |-> IF u \in Admins THEN 0 ELSE LimitOf(tier[u])])
    /\ UNCHANGED <<access, tier, excess, faults>>

\* A limit that is checked for one more than it allows.
TooManyOffByOne(u, t, limit) == limit > 0 /\ t \notin Reserved(u) /\ Cardinality(Reserved(u)) > limit

TooMany(u, t, limit) == limit > 0 /\ t \notin Reserved(u) /\ Cardinality(Reserved(u)) >= limit

AddReservation(r) ==
    LET u == request[r].user
        t == request[r].topic
    IN /\ At(r, "allowed")
       /\ access' = IF TooMany(u, t, request[r].limit) THEN access
                    ELSE Upsert(Upsert(access, u, t, u), Everyone, t, u)
       /\ Goto(r, Idle)
       /\ UNCHANGED <<tier, excess, faults>>

-----------------------------------------------------------------------------
\* Removing a reservation.

handleAccountReservationDelete(r, u, t, deleteMessages) ==
    /\ At(r, "idle")
    /\ t \in Reserved(u)
    /\ Goto(r, [at |-> "removing", user |-> u, topic |-> t, purge |-> deleteMessages])
    /\ UNCHANGED <<access, tier, excess, faults>>

RemoveReservations(r) ==
    LET u == request[r].user
        t == request[r].topic
    IN /\ At(r, "removing")
       /\ access' = removeReservationAccessTx(access, u, t)
       /\ Goto(r, IF request[r].purge THEN [at |-> "expiring", topics |-> {t}] ELSE Idle)
       /\ UNCHANGED <<tier, excess, faults>>

-----------------------------------------------------------------------------
\* Tiers.

\* checkReservationsLimitTx: only a lower limit is checked.
CheckReservationsLimit(u, limit) ==
    (tier[u] # None /\ limit < LimitOf(tier[u])) => Cardinality(Reserved(u)) <= limit

\* ChangeTier, or ResetTier for no tier; refused if there are too many reservations.
SetTier(u, new) == tier' = IF CheckReservationsLimit(u, LimitOf(new)) THEN [tier EXCEPT ![u] = new] ELSE tier

\* An admin changes a tier.
ChangeTier(u, new) ==
    /\ SetTier(u, new)
    /\ UNCHANGED <<access, request, excess, faults>>

\* The reservations beyond the limit, in the order of their topics.
ExcessReservations(u, limit) == {t \in Reserved(u) : Cardinality({s \in Reserved(u) : s < t}) >= limit}

\* A webhook of the payment provider: RemoveExcessReservations is its first transaction.
updateSubscriptionAndTier(r, u, new) ==
    LET removed == ExcessReservations(u, LimitOf(new))
    IN /\ At(r, "idle")
       /\ access' = {e \in access : e.topic \in removed => e.user \notin {u, Everyone} /\ e.owner # u}
       /\ excess' = excess \union removed
       /\ Goto(r, IF removed = {} THEN [at |-> "tiering", user |-> u, old |-> tier[u], new |-> new]
                  ELSE [at |-> "downgrading", user |-> u, old |-> tier[u], new |-> new, topics |-> removed])
       /\ UNCHANGED <<tier, faults>>

\* The messages of the topics are marked as deleted.
ExpireMessages(r) ==
    /\ request[r].at \in {"expiring", "downgrading"}
    /\ excess' = excess \ request[r].topics
    /\ Goto(r, IF At(r, "expiring") THEN Idle
               ELSE [at |-> "tiering", user |-> request[r].user, old |-> request[r].old, new |-> request[r].new])
    /\ UNCHANGED <<access, tier, faults>>

\* ... or the request fails.
ExpireMessagesFails(r) ==
    /\ request[r].at \in {"expiring", "downgrading"}
    /\ faults < MaxFaults
    /\ faults' = faults + 1
    /\ Goto(r, Idle)
    /\ UNCHANGED <<access, tier, excess>>

\* The tier is changed if it is not the one the user had when the webhook began.
FinishTier(r) ==
    LET u == request[r].user
        new == request[r].new
    IN /\ At(r, "tiering")
       /\ IF new = request[r].old THEN UNCHANGED tier ELSE SetTier(u, new)
       /\ Goto(r, Idle)
       /\ UNCHANGED <<access, excess, faults>>

-----------------------------------------------------------------------------
\* The access control of an admin.

AllowAccess(u, t) ==
    /\ access' = Upsert(access, u, t, None)
    /\ UNCHANGED <<tier, request, excess, faults>>

ResetAccess(u, t) ==
    /\ access' = resetTopicAccessTx(access, u, t)
    /\ UNCHANGED <<tier, request, excess, faults>>

NewRequest(r) == \E u \in Users :
    \/ \E t \in Topics : handleAccountReservationAdd(r, u, t)
    \/ \E t \in Topics, purge \in BOOLEAN : handleAccountReservationDelete(r, u, t, purge)
    \/ \E new \in Tiers : updateSubscriptionAndTier(r, u, new)

RequestStep(r) ==
    \/ AddReservation(r)
    \/ RemoveReservations(r)
    \/ ExpireMessages(r)
    \/ ExpireMessagesFails(r)
    \/ FinishTier(r)

Next ==
    \/ \E r \in Requests : NewRequest(r) \/ RequestStep(r)
    \/ \E u \in Users, new \in AdminTiers : ChangeTier(u, new)
    \/ \E u \in Subjects, t \in AdminTopics : AllowAccess(u, t) \/ ResetAccess(u, t)

Spec == Init /\ [][Next]_vars

-----------------------------------------------------------------------------
\* Properties.

TypeOK ==
    /\ access \subseteq Entries
    /\ tier \in [Users -> Tiers]
    /\ request \in [Requests -> Steps]
    /\ excess \subseteq Topics
    /\ faults \in 0 .. MaxFaults

(***************************************************************************)
(* "with limit check inside the transaction to avoid races": no number of  *)
(* overlapping adds gives a user more reservations than the largest tier   *)
(* allows.  (Tiers without reservations are in ZeroIsNone.)                *)
(***************************************************************************)
WithinLargestLimit ==
    \A u \in Users \ Admins : \E limit \in Limits : Cardinality(Reserved(u)) <= limit

(***************************************************************************)
(* The entry of Everyone that a reservation made never outlives the entry  *)
(* of its owner: a released topic falls back to the default access.        *)
(***************************************************************************)
NoOrphanEveryone ==
    \A e \in access : (e.user = Everyone /\ e.owner # None) =>
        \E f \in access : f.user = e.owner /\ f.topic = e.topic

(***************************************************************************)
(* A reservation ends by a request or a tier of its owner or by an admin,  *)
(* never by what other users do with the same topic.                       *)
(***************************************************************************)
OnlyOwnerReleases == [][\A u \in Users, t \in Topics :
    (t \in Reserved(u) /\ t \notin Reserved(u)') =>
        \/ UNCHANGED request
        \/ \E r \in Requests : /\ request'[r] # request[r]
                              /\ \/ At(r, "removing") /\ request[r].user = u
                                 \/ At(r, "idle") /\ request'[r].user = u]_vars

-----------------------------------------------------------------------------
\* Not guaranteed: what a comment or a document says and TLC refutes (see the README).

\* "Admins can always reserve a topic, unless it is already reserved by someone else."
OneOwner == \A t \in Topics : Cardinality(ReservationOwners(t)) <= 1

\* "only if the user has a tier with enough remaining reservations left".
WithinLimit == \A u \in Users \ Admins : Cardinality(Reserved(u)) <= LimitOf(tier[u])

\* The same of a tier that has no reservations, as long as tiers are not changed.
ZeroIsNone == \A u \in Users \ Admins : tier[u] = 0 => Reserved(u) = {}

(***************************************************************************)
(* "marks associated messages for the topics as deleted": nothing is left  *)
(* once the downgrade went through, also if it took a second try.          *)
(***************************************************************************)
RemovedAreExpired ==
    ((\A r \in Requests : At(r, "idle")) /\ (\A u \in Users : tier[u] = None)) => excess = {}

=============================================================================
