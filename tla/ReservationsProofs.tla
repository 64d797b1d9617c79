------------------------- MODULE ReservationsProofs -------------------------
(***************************************************************************)
(* Reservations, for any number of users, topics, tiers and concurrent     *)
(* requests: types, that the entry of Everyone never outlives the entry of *)
(* the user who reserved the topic, that nobody releases the reservation   *)
(* of another user, and that overlapping adds stay within the tiers.       *)
(***************************************************************************)
EXTENDS Reservations, FiniteSetTheorems, TLAPS

(***************************************************************************)
(* A table of entries, to follow a transaction statement by statement.     *)
(* Users own no entries of other users, so deleting what a user owns does  *)
(* not take the entry of another owner away.                               *)
(***************************************************************************)
Paired(entries) ==
    /\ \A e \in entries : e.user # Everyone => e.owner \in {e.user, None}
    /\ \A e \in entries : (e.user = Everyone /\ e.owner # None) =>
          \E f \in entries : f.user = e.owner /\ f.topic = e.topic

IInv == TypeOK /\ Paired(access)

-----------------------------------------------------------------------------
\* The statements.

\* The upsert of an entry without an owner, and of an entry of the owner itself.
LEMMA UpsertPaired ==
    ASSUME NEW entries \in SUBSET Entries, Paired(entries),
           NEW u \in Subjects, NEW t \in Topics, NEW owner \in Users \union {None},
           u # Everyone => owner \in {u, None},
           u = Everyone => owner = None \/ \E f \in entries : f.user = owner /\ f.topic = t
    PROVE  Upsert(entries, u, t, owner) \subseteq Entries /\ Paired(Upsert(entries, u, t, owner))
<1> DEFINE new == [user |-> u, topic |-> t, owner |-> owner]
           after == Upsert(entries, u, t, owner)
<1>1. new \in Entries /\ new.user = u /\ new.topic = t /\ new.owner = owner
  BY DEF Entries
<1>2. \A e : e \in after <=> (e = new \/ (e \in entries /\ (e.user # u \/ e.topic # t)))
  BY DEF Upsert
<1>3. Everyone \notin Users /\ \A e \in entries : e.owner \in Users \union {None}
  BY ReservationsAssumption DEF Entries
<1> HIDE DEF new, after
<1>4. \A f \in entries : \E g \in after : g.user = f.user /\ g.topic = f.topic
  BY <1>1, <1>2
<1>5. Paired(after)
  <2>0. \A e \in after : e.user # Everyone => e.owner \in {e.user, None}
    BY <1>1, <1>2 DEF Paired
  <2> SUFFICES ASSUME NEW e \in after, e.user = Everyone, e.owner # None
               PROVE  \E f \in after : f.user = e.owner /\ f.topic = e.topic
    BY <2>0 DEF Paired
  <2>1. \E f \in entries : f.user = e.owner /\ f.topic = e.topic
    BY <1>1, <1>2 DEF Paired
  <2> QED
    BY <2>1, <1>4
<1> QED
  BY <1>1, <1>2, <1>5 DEF after

\* Deleting the entries of a user for a topic deletes those the user owns, too.
LEMMA ResetPaired ==
    ASSUME NEW entries \in SUBSET Entries, Paired(entries), NEW u \in Subjects, NEW t \in Topics
    PROVE  /\ resetTopicAccessTx(entries, u, t) \subseteq Entries
           /\ Paired(resetTopicAccessTx(entries, u, t))
<1> DEFINE after == resetTopicAccessTx(entries, u, t)
<1>1. \A e : e \in after <=> (e \in entries /\ (e.topic # t \/ (e.user # u /\ e.owner # u)))
  BY DEF resetTopicAccessTx
<1> HIDE DEF after
<1>2. Paired(after)
  <2>0. \A e \in after : e.user # Everyone => e.owner \in {e.user, None}
    BY <1>1 DEF Paired
  <2> SUFFICES ASSUME NEW e \in after, e.user = Everyone, e.owner # None
               PROVE  \E f \in after : f.user = e.owner /\ f.topic = e.topic
    BY <2>0 DEF Paired
  <2>1. PICK f \in entries : f.user = e.owner /\ f.topic = e.topic
    BY <1>1 DEF Paired
  <2>2. e \in entries /\ e.owner \in Users /\ None \notin Subjects /\ Everyone \notin Users
    BY <1>1, ReservationsAssumption DEF Entries, Subjects
  <2>3. f.owner \in {f.user, None}
    BY <2>1, <2>2 DEF Paired
  <2>4. f \in after
    BY <1>1, <2>1, <2>2, <2>3
  <2> QED
    BY <2>1, <2>4
<1> QED
  BY <1>1, <1>2 DEF after

\* Several deletes of one user, as RemoveExcessReservations does them.
LEMMA ExcessPaired ==
    ASSUME NEW entries \in SUBSET Entries, Paired(entries), NEW u \in Users, NEW removed
    PROVE  Paired({e \in entries : e.topic \in removed => e.user \notin {u, Everyone} /\ e.owner # u})
<1> DEFINE after == {e \in entries : e.topic \in removed => e.user \notin {u, Everyone} /\ e.owner # u}
<1>1. \A e : e \in after <=> (e \in entries /\ (e.topic \in removed => e.user \notin {u, Everyone} /\ e.owner # u))
  OBVIOUS
<1> HIDE DEF after
<1>2. \A e \in after : e.user # Everyone => e.owner \in {e.user, None}
  BY <1>1 DEF Paired
<1>3. ASSUME NEW e \in after, e.user = Everyone, e.owner # None
      PROVE  \E f \in after : f.user = e.owner /\ f.topic = e.topic
  <2>1. e.topic \notin removed
    BY <1>1, <1>3
  <2> QED
    BY <1>1, <1>3, <2>1 DEF Paired
<1> QED
  BY <1>2, <1>3 DEF Paired, after

-----------------------------------------------------------------------------
\* The steps.

\* The initial state satisfies the invariant.
LEMMA InitInv == Init => IInv
<1> SUFFICES ASSUME Init PROVE IInv
  OBVIOUS
<1>1. request \in [Requests -> Steps]
  BY DEF Init, Steps
<1>2. tier \in [Users -> Tiers]
  BY ReservationsAssumption DEF Init, Tiers
<1>3. faults \in 0 .. MaxFaults
  BY ReservationsAssumption DEF Init
<1> QED
  BY <1>1, <1>2, <1>3 DEF Init, IInv, TypeOK, Paired

\* What a request carries, by where it is.
LEMMA Carries ==
    ASSUME TypeOK, NEW r \in Requests
    PROVE  /\ At(r, "allowed") => request[r].user \in Users /\ request[r].topic \in Topics
           /\ At(r, "removing") => request[r].user \in Users /\ request[r].topic \in Topics
           /\ request[r].at \in {"expiring", "downgrading"} => request[r].topics \subseteq Topics
           /\ At(r, "downgrading") \/ At(r, "tiering") =>
                 request[r].user \in Users /\ request[r].old \in Tiers /\ request[r].new \in Tiers
<1>1. request[r] \in Steps
  BY DEF TypeOK
<1> QED
  BY <1>1 DEF Steps, Idle, At

\* A tier is changed to a tier.
LEMMA SetTierType ==
    ASSUME TypeOK, NEW u \in Users, NEW new \in Tiers, SetTier(u, new) PROVE tier' \in [Users -> Tiers]
  BY DEF TypeOK, SetTier

\* The first step of a request.
LEMMA NewRequestInv == ASSUME IInv, NEW r \in Requests, NewRequest(r) PROVE IInv'
<1> USE DEF IInv
<1>1. ASSUME NEW u \in Users, NEW t \in Topics, handleAccountReservationAdd(r, u, t) PROVE IInv'
  <2> DEFINE limit == IF u \in Admins THEN 0 ELSE LimitOf(tier[u])
             step == [at |-> "allowed", user |-> u, topic |-> t, limit |-> limit]
  <2>1. limit \in Nat
    BY ReservationsAssumption DEF TypeOK, Tiers, LimitOf
  <2>2. step \in Steps
    BY <2>1 DEF Steps
  <2>3. Goto(r, step) /\ UNCHANGED <<access, tier, excess, faults>>
    BY <1>1 DEF handleAccountReservationAdd
  <2> HIDE DEF step
  <2> QED
    BY <2>2, <2>3 DEF TypeOK, Goto, Paired
<1>2. ASSUME NEW u \in Users, NEW t \in Topics, NEW purge \in BOOLEAN, handleAccountReservationDelete(r, u, t, purge)
      PROVE  IInv'
  <2> DEFINE step == [at |-> "removing", user |-> u, topic |-> t, purge |-> purge]
  <2>1. step \in Steps
    BY DEF Steps
  <2>2. Goto(r, step) /\ UNCHANGED <<access, tier, excess, faults>>
    BY <1>2 DEF handleAccountReservationDelete
  <2> HIDE DEF step
  <2> QED
    BY <2>1, <2>2 DEF TypeOK, Goto, Paired
<1>3. ASSUME NEW u \in Users, NEW new \in Tiers, updateSubscriptionAndTier(r, u, new) PROVE IInv'
  <2> DEFINE removed == ExcessReservations(u, LimitOf(new))
             step == IF removed = {} THEN [at |-> "tiering", user |-> u, old |-> tier[u], new |-> new]
                     ELSE [at |-> "downgrading", user |-> u, old |-> tier[u], new |-> new, topics |-> removed]
  <2>1. removed \subseteq Topics
    BY DEF ExcessReservations, Reserved, TypeOK, Entries
  <2>2. /\ access' = {e \in access : e.topic \in removed => e.user \notin {u, Everyone} /\ e.owner # u}
        /\ excess' = excess \union removed
        /\ Goto(r, step) /\ UNCHANGED <<tier, faults>>
    BY <1>3 DEF updateSubscriptionAndTier
  <2> HIDE DEF removed
  <2>3. step \in Steps
    BY <2>1 DEF Steps, TypeOK
  <2>4. Paired(access')
    BY <2>2, ExcessPaired DEF TypeOK
  <2>5. access' \subseteq Entries
    BY <2>2 DEF TypeOK
  <2> HIDE DEF step
  <2>6. TypeOK'
    BY <2>1, <2>2, <2>3, <2>5 DEF TypeOK, Goto
  <2> QED
    BY <2>4, <2>6 DEF Paired
<1> QED
  BY <1>1, <1>2, <1>3 DEF NewRequest

\* The later steps of a request.
LEMMA RequestStepInv == ASSUME IInv, NEW r \in Requests, RequestStep(r) PROVE IInv'
<1> USE DEF IInv
<1>0. Idle \in Steps
  BY DEF Steps
<1>1. CASE AddReservation(r)
  <2> DEFINE u == request[r].user
             t == request[r].topic
             own == Upsert(access, u, t, u)
  <2>1. u \in Users /\ t \in Topics /\ u # Everyone /\ u \in Subjects /\ Everyone \in Subjects
    BY <1>1, Carries, ReservationsAssumption DEF AddReservation, Subjects
  <2>2. /\ access' = access \/ access' = Upsert(own, Everyone, t, u)
        /\ Goto(r, Idle) /\ UNCHANGED <<tier, excess, faults>>
    BY <1>1 DEF AddReservation
  <2>3. own \subseteq Entries /\ Paired(own)
    BY <2>1, UpsertPaired DEF TypeOK
  <2>4. \E f \in own : f.user = u /\ f.topic = t
    <3>1. [user |-> u, topic |-> t, owner |-> u] \in own
      BY DEF Upsert
    <3> QED
      BY <3>1
  <2> HIDE DEF u, t, own
  <2>5. Upsert(own, Everyone, t, u) \subseteq Entries /\ Paired(Upsert(own, Everyone, t, u))
    BY <2>1, <2>3, <2>4, UpsertPaired
  <2>6. access' \subseteq Entries /\ Paired(access')
    BY <2>2, <2>5 DEF TypeOK
  <2>7. TypeOK'
    BY <1>0, <2>2, <2>6 DEF TypeOK, Goto
  <2> QED
    BY <2>6, <2>7 DEF Paired
<1>2. CASE RemoveReservations(r)
  <2> DEFINE u == request[r].user
             t == request[r].topic
             own == resetTopicAccessTx(access, u, t)
             step == IF request[r].purge THEN [at |-> "expiring", topics |-> {t}] ELSE Idle
  <2>1. u \in Users /\ t \in Topics /\ u \in Subjects /\ Everyone \in Subjects
    BY <1>2, Carries DEF RemoveReservations, Subjects
  <2>2. /\ access' = resetTopicAccessTx(own, Everyone, t)
        /\ Goto(r, step) /\ UNCHANGED <<tier, excess, faults>>
    BY <1>2 DEF RemoveReservations, removeReservationAccessTx
  <2>3. step \in Steps
    BY <1>0, <2>1 DEF Steps
  <2>4. own \subseteq Entries /\ Paired(own)
    BY <2>1, ResetPaired DEF TypeOK
  <2> HIDE DEF u, t, own, step
  <2>5. access' \subseteq Entries /\ Paired(access')
    BY <2>1, <2>2, <2>4, ResetPaired
  <2>6. TypeOK'
    BY <2>2, <2>3, <2>5 DEF TypeOK, Goto
  <2> QED
    BY <2>5, <2>6 DEF Paired
<1>3. CASE ExpireMessages(r)
  <2> DEFINE step == IF At(r, "expiring") THEN Idle
                     ELSE [at |-> "tiering", user |-> request[r].user, old |-> request[r].old, new |-> request[r].new]
  <2>1. step \in Steps
    <3>1. CASE At(r, "expiring")
      BY <1>0, <3>1
    <3>2. CASE ~At(r, "expiring")
      <4>1. At(r, "downgrading")
        BY <1>3, <3>2 DEF ExpireMessages, At
      <4>2. request[r].user \in Users /\ request[r].old \in Tiers /\ request[r].new \in Tiers
        BY <4>1, Carries
      <4> QED
        BY <3>2, <4>2 DEF Steps
    <3> QED
      BY <3>1, <3>2
  <2>2. Goto(r, step) /\ excess' \subseteq excess /\ UNCHANGED <<access, tier, faults>>
    BY <1>3 DEF ExpireMessages
  <2> HIDE DEF step
  <2> QED
    BY <2>1, <2>2 DEF TypeOK, Goto, Paired
<1>4. CASE ExpireMessagesFails(r)
  <2>1. faults' \in 0 .. MaxFaults
    BY <1>4, ReservationsAssumption DEF ExpireMessagesFails, TypeOK
  <2> QED
    BY <1>0, <1>4, <2>1 DEF ExpireMessagesFails, TypeOK, Goto, Paired
<1>5. CASE FinishTier(r)
  <2>1. request[r].user \in Users /\ request[r].new \in Tiers
    BY <1>5, Carries DEF FinishTier
  <2>2. tier' \in [Users -> Tiers]
    BY <1>5, <2>1, SetTierType DEF FinishTier, TypeOK
  <2> QED
    BY <1>0, <1>5, <2>2 DEF FinishTier, TypeOK, Goto, Paired
<1> QED
  BY <1>1, <1>2, <1>3, <1>4, <1>5 DEF RequestStep

\* Every step keeps the invariant.
LEMMA NextInv == IInv /\ [Next]_vars => IInv'
<1> SUFFICES ASSUME IInv, [Next]_vars PROVE IInv'
  OBVIOUS
<1> USE DEF IInv
<1>1. ASSUME NEW u \in Users, NEW new \in AdminTiers, ChangeTier(u, new) PROVE IInv'
  <2>1. new \in Tiers
    BY ReservationsAssumption DEF Tiers
  <2>2. tier' \in [Users -> Tiers]
    BY <1>1, <2>1, SetTierType DEF ChangeTier
  <2> QED
    BY <1>1, <2>2 DEF ChangeTier, TypeOK, Paired
<1>2. ASSUME NEW u \in Subjects, NEW t \in Topics, AllowAccess(u, t) \/ ResetAccess(u, t) PROVE IInv'
  <2>1. access' \subseteq Entries /\ Paired(access')
    BY <1>2, UpsertPaired, ResetPaired DEF AllowAccess, ResetAccess, TypeOK
  <2>2. TypeOK'
    BY <1>2, <2>1 DEF AllowAccess, ResetAccess, TypeOK
  <2> QED
    BY <2>1, <2>2 DEF Paired
<1>3. CASE UNCHANGED vars
  BY <1>3 DEF vars, TypeOK, Paired
<1> QED
  BY <1>1, <1>2, <1>3, NewRequestInv, RequestStepInv, ReservationsAssumption DEF Next

\* Hence it holds always.
THEOREM InvAlways == Spec => []IInv
  BY InitInv, NextInv, PTL DEF Spec

\* The tables and the requests have their types.
THEOREM TypeCorrect == Spec => []TypeOK
<1>1. IInv => TypeOK
  BY DEF IInv
<1> QED
  BY <1>1, InvAlways, PTL

(***************************************************************************)
(* Whatever reservations, releases, downgrades and access changes overlap, *)
(* no entry of Everyone is left by a reservation that is gone.             *)
(***************************************************************************)
THEOREM NoOrphans == Spec => []NoOrphanEveryone
<1>1. IInv => NoOrphanEveryone
  BY DEF IInv, Paired, NoOrphanEveryone
<1> QED
  BY <1>1, InvAlways, PTL

-----------------------------------------------------------------------------
\* What the statements do to the reservations of each user.

\* Reserved, of any table.
ReservedIn(entries, u) == {e.topic : e \in {f \in entries : f.user = u /\ f.owner = u}}

\* A reservation is an entry of a user that the user owns.
LEMMA InReserved ==
    ASSUME NEW entries, NEW u
    PROVE  \A t : t \in ReservedIn(entries, u) <=> \E e \in entries : e.user = u /\ e.owner = u /\ e.topic = t
  BY DEF ReservedIn

\* Reserved before and after a step.
LEMMA ReservedOf == \A u : Reserved(u) = ReservedIn(access, u) /\ Reserved(u)' = ReservedIn(access', u)
  BY DEF Reserved, ReservedIn

\* An upsert that makes no reservation takes none from another user.
LEMMA UpsertOther ==
    ASSUME NEW entries, NEW v, NEW t, NEW owner, NEW w, v # w
    PROVE  ReservedIn(Upsert(entries, v, t, owner), w) = ReservedIn(entries, w)
<1> DEFINE new == [user |-> v, topic |-> t, owner |-> owner]
           after == Upsert(entries, v, t, owner)
<1>1. \A e : e \in after <=> (e = new \/ (e \in entries /\ (e.user # v \/ e.topic # t)))
  BY DEF Upsert
<1>2. new.user = v
  OBVIOUS
<1> HIDE DEF new, after
<1>3. \A s : s \in ReservedIn(after, w) <=> s \in ReservedIn(entries, w)
  BY <1>1, <1>2, InReserved
<1> QED
  BY <1>3 DEF after

\* The upsert of a reservation adds it; of another entry, it may take one of the same user.
LEMMA UpsertOwn ==
    ASSUME NEW entries, NEW v, NEW t, NEW owner
    PROVE  /\ owner = v => ReservedIn(Upsert(entries, v, t, owner), v) = ReservedIn(entries, v) \union {t}
           /\ owner # v => ReservedIn(Upsert(entries, v, t, owner), v) \subseteq ReservedIn(entries, v)
<1> DEFINE new == [user |-> v, topic |-> t, owner |-> owner]
           after == Upsert(entries, v, t, owner)
<1>1. \A e : e \in after <=> (e = new \/ (e \in entries /\ (e.user # v \/ e.topic # t)))
  BY DEF Upsert
<1>2. new.user = v /\ new.topic = t /\ new.owner = owner
  OBVIOUS
<1> HIDE DEF new, after
<1>3. owner = v => \A s : s \in ReservedIn(after, v) <=> (s \in ReservedIn(entries, v) \/ s = t)
  BY <1>1, <1>2, InReserved
<1>4. owner # v => \A s : s \in ReservedIn(after, v) => s \in ReservedIn(entries, v)
  BY <1>1, <1>2, InReserved
<1> QED
  BY <1>3, <1>4 DEF after

\* A user with fewer entries has no more reservations.
LEMMA FewerEntries ==
    ASSUME NEW entries, NEW after \in SUBSET entries, NEW u
    PROVE  ReservedIn(after, u) \subseteq ReservedIn(entries, u)
  BY InReserved

\* Deleting what a user has or owns leaves the reservations of the others.
LEMMA ResetOther ==
    ASSUME NEW entries, NEW v, NEW t, NEW w, v # w
    PROVE  ReservedIn(resetTopicAccessTx(entries, v, t), w) = ReservedIn(entries, w)
<1> DEFINE after == resetTopicAccessTx(entries, v, t)
<1>1. \A e : e \in after <=> (e \in entries /\ (e.topic # t \/ (e.user # v /\ e.owner # v)))
  BY DEF resetTopicAccessTx
<1> HIDE DEF after
<1>2. \A s : s \in ReservedIn(after, w) <=> s \in ReservedIn(entries, w)
  BY <1>1, InReserved
<1> QED
  BY <1>2 DEF after

(***************************************************************************)
(* A step adds to the reservations of a user only by the AddReservation of *)
(* that user, one topic and if there are not too many, and takes from them *)
(* only by RemoveReservations or a webhook of that user, or by an admin.   *)
(***************************************************************************)
Added(u) == \E r \in Requests :
    /\ At(r, "allowed") /\ request[r].user = u
    /\ ~TooMany(u, request[r].topic, request[r].limit)
    /\ Reserved(u)' = Reserved(u) \union {request[r].topic}

Released(u) == Reserved(u)' \subseteq Reserved(u) /\
    \/ UNCHANGED request
    \/ \E r \in Requests : /\ request'[r] # request[r]
                           /\ \/ At(r, "removing") /\ request[r].user = u
                              \/ At(r, "idle") /\ request'[r].user = u

\* What each step does to the reservations of each user.
LEMMA EachStep ==
    ASSUME IInv, [Next]_vars, NEW u \in Users
    PROVE  Reserved(u)' = Reserved(u) \/ Added(u) \/ Released(u)
<1> USE ReservedOf
<1>0. u # Everyone /\ None \notin Users
  BY ReservationsAssumption
<1>1. ASSUME access' = access PROVE Reserved(u)' = Reserved(u)
  BY <1>1
<1>2. ASSUME NEW r \in Requests, AddReservation(r) PROVE Reserved(u)' = Reserved(u) \/ Added(u)
  <2> DEFINE v == request[r].user
             t == request[r].topic
             own == Upsert(access, v, t, v)
  <2>1. access' = IF TooMany(v, t, request[r].limit) THEN access ELSE Upsert(own, Everyone, t, v)
    BY <1>2 DEF AddReservation
  <2>2. ReservedIn(Upsert(own, Everyone, t, v), u) = ReservedIn(own, u)
    BY <1>0, UpsertOther
  <2>3. CASE u # v
    <3>1. ReservedIn(own, u) = ReservedIn(access, u)
      BY <2>3, UpsertOther
    <3> QED
      BY <2>1, <2>2, <3>1
  <2>4. CASE u = v /\ TooMany(v, t, request[r].limit)
    BY <2>1, <2>4
  <2>5. CASE u = v /\ ~TooMany(v, t, request[r].limit)
    <3>1. ReservedIn(own, u) = ReservedIn(access, u) \union {t}
      BY <2>5, UpsertOwn
    <3>2. Reserved(u)' = Reserved(u) \union {request[r].topic}
      BY <2>1, <2>2, <2>5, <3>1
    <3> QED
      BY <1>2, <2>5, <3>2 DEF Added, AddReservation
  <2> QED
    BY <2>3, <2>4, <2>5
<1>3. ASSUME NEW r \in Requests, RemoveReservations(r) PROVE Reserved(u)' = Reserved(u) \/ Released(u)
  <2> DEFINE v == request[r].user
             t == request[r].topic
             own == resetTopicAccessTx(access, v, t)
             step == IF request[r].purge THEN [at |-> "expiring", topics |-> {t}] ELSE Idle
  <2>1. access' = resetTopicAccessTx(own, Everyone, t) /\ Goto(r, step) /\ At(r, "removing")
    BY <1>3 DEF RemoveReservations, removeReservationAccessTx
  <2>2. ReservedIn(access', u) = ReservedIn(own, u)
    BY <1>0, <2>1, ResetOther
  <2>3. CASE u # v
    BY <2>2, <2>3, ResetOther
  <2>4. CASE u = v
    <3>1. own \subseteq access
      BY DEF resetTopicAccessTx
    <3>2. ReservedIn(own, u) \subseteq ReservedIn(access, u)
      BY <3>1, FewerEntries
    <3>3. step.at # "removing"
      BY DEF Idle
    <3> HIDE DEF step
    <3>4. request'[r] = step
      BY <2>1 DEF Goto, IInv, TypeOK
    <3>5. request'[r] # request[r]
      BY <2>1, <3>3, <3>4 DEF At
    <3> QED
      BY <2>1, <2>2, <2>4, <3>2, <3>5 DEF Released
  <2> QED
    BY <2>3, <2>4
<1>4. ASSUME NEW r \in Requests, NEW v \in Users, NEW new \in Tiers, updateSubscriptionAndTier(r, v, new)
      PROVE  Reserved(u)' = Reserved(u) \/ Released(u)
  <2> DEFINE removed == ExcessReservations(v, LimitOf(new))
             step == IF removed = {} THEN [at |-> "tiering", user |-> v, old |-> tier[v], new |-> new]
                     ELSE [at |-> "downgrading", user |-> v, old |-> tier[v], new |-> new, topics |-> removed]
  <2>1. /\ access' = {e \in access : e.topic \in removed => e.user \notin {v, Everyone} /\ e.owner # v}
        /\ Goto(r, step) /\ At(r, "idle")
    BY <1>4 DEF updateSubscriptionAndTier
  <2> HIDE DEF removed
  <2>2. step.user = v /\ step.at # "idle"
    OBVIOUS
  <2>3. CASE u # v
    <3> DEFINE after == access'
    <3>1. \A e : e \in after <=> (e \in access /\ (e.topic \in removed => e.user \notin {v, Everyone} /\ e.owner # v))
      BY <2>1
    <3> HIDE DEF after
    <3>2. \A t : t \in ReservedIn(after, u) <=> t \in ReservedIn(access, u)
      BY <1>0, <2>3, <3>1, InReserved
    <3>3. ReservedIn(after, u) = ReservedIn(access, u)
      BY <3>2
    <3> QED
      BY <3>3 DEF after
  <2>4. CASE u = v
    <3>1. access' \subseteq access
      BY <2>1
    <3>2. ReservedIn(access', u) \subseteq ReservedIn(access, u)
      BY <3>1, FewerEntries
    <3> HIDE DEF step
    <3>3. request'[r] = step
      BY <2>1 DEF Goto, IInv, TypeOK
    <3>4. request'[r] # request[r] /\ request'[r].user = u
      BY <2>1, <2>2, <2>4, <3>3 DEF At
    <3> QED
      BY <2>1, <3>2, <3>4 DEF Released
  <2> QED
    BY <2>3, <2>4
<1>5. ASSUME NEW v \in Subjects, NEW t \in AdminTopics, AllowAccess(v, t) \/ ResetAccess(v, t)
      PROVE  Released(u)
  <2>1. request' = request
    BY <1>5 DEF AllowAccess, ResetAccess
  <2>2. CASE AllowAccess(v, t)
    <3>1. access' = Upsert(access, v, t, None)
      BY <2>2 DEF AllowAccess
    <3>2. ReservedIn(access', u) \subseteq ReservedIn(access, u)
      BY <1>0, <3>1, UpsertOther, UpsertOwn
    <3> QED
      BY <2>1, <3>2 DEF Released
  <2>3. CASE ResetAccess(v, t)
    <3>1. access' \subseteq access
      BY <2>3 DEF ResetAccess, resetTopicAccessTx
    <3>2. ReservedIn(access', u) \subseteq ReservedIn(access, u)
      BY <3>1, FewerEntries
    <3> QED
      BY <2>1, <3>2 DEF Released
  <2> QED
    BY <1>5, <2>2, <2>3
<1>6. ASSUME NEW r \in Requests, NewRequest(r) PROVE Reserved(u)' = Reserved(u) \/ Released(u)
  <2>1. CASE \E v \in Users, t \in Topics : \/ handleAccountReservationAdd(r, v, t)
                                            \/ \E purge \in BOOLEAN : handleAccountReservationDelete(r, v, t, purge)
    BY <1>1, <2>1 DEF handleAccountReservationAdd, handleAccountReservationDelete
  <2> QED
    BY <1>4, <1>6, <2>1 DEF NewRequest
<1>7. ASSUME NEW r \in Requests, ExpireMessages(r) \/ ExpireMessagesFails(r) \/ FinishTier(r)
      PROVE  Reserved(u)' = Reserved(u)
  BY <1>1, <1>7 DEF ExpireMessages, ExpireMessagesFails, FinishTier
<1>8. CASE (\E v \in Users, new \in AdminTiers : ChangeTier(v, new)) \/ UNCHANGED vars
  BY <1>1, <1>8 DEF ChangeTier, vars
<1> QED
  BY <1>2, <1>3, <1>5, <1>6, <1>7, <1>8 DEF Next, RequestStep

(***************************************************************************)
(* A reservation ends by a delete or a webhook of its owner or by an admin *)
(* and never by what another user does, however requests overlap.          *)
(***************************************************************************)
THEOREM OnlyOwnerReleasesAlways == Spec => OnlyOwnerReleases
<1>1. IInv /\ [Next]_vars => [\A u \in Users, t \in Topics :
         (t \in Reserved(u) /\ t \notin Reserved(u)') =>
             \/ UNCHANGED request
             \/ \E r \in Requests : /\ request'[r] # request[r]
                                   /\ \/ At(r, "removing") /\ request[r].user = u
                                      \/ At(r, "idle") /\ request'[r].user = u]_vars
  <2> SUFFICES ASSUME IInv, [Next]_vars, NEW u \in Users, NEW t \in Topics, t \in Reserved(u), t \notin Reserved(u)'
               PROVE  \/ UNCHANGED request
                      \/ \E r \in Requests : /\ request'[r] # request[r]
                                            /\ \/ At(r, "removing") /\ request[r].user = u
                                               \/ At(r, "idle") /\ request'[r].user = u
    OBVIOUS
  <2>1. Released(u)
    BY EachStep DEF Added
  <2> QED
    BY <2>1 DEF Released
<1> QED
  BY <1>1, InvAlways, PTL DEF Spec, OnlyOwnerReleases

-----------------------------------------------------------------------------
\* The limits.

\* A request to add carries the limit of a tier, read when it was allowed.
LimitsRead == \A r \in Requests : (At(r, "allowed") /\ request[r].user \notin Admins) => request[r].limit \in Limits

\* Every step keeps the limits that were read.
LEMMA NextLimits == IInv /\ LimitsRead /\ [Next]_vars => LimitsRead'
<1> SUFFICES ASSUME IInv, LimitsRead, [Next]_vars PROVE LimitsRead'
  OBVIOUS
<1>1. ASSUME NEW r \in Requests, NEW step, Goto(r, step),
             (step.at = "allowed" /\ step.user \notin Admins) => step.limit \in Limits
      PROVE  LimitsRead'
  <2>1. request'[r] = step /\ \A q \in Requests : q # r => request'[q] = request[q]
    BY <1>1 DEF Goto, IInv, TypeOK
  <2> QED
    BY <1>1, <2>1 DEF LimitsRead, At
<1>2. ASSUME NEW r \in Requests, NEW step, Goto(r, step), step.at # "allowed" PROVE LimitsRead'
  BY <1>1, <1>2
<1>3. ASSUME NEW r \in Requests, NEW u \in Users, NEW t \in Topics, handleAccountReservationAdd(r, u, t)
      PROVE  LimitsRead'
  <2> DEFINE limit == IF u \in Admins THEN 0 ELSE LimitOf(tier[u])
             step == [at |-> "allowed", user |-> u, topic |-> t, limit |-> limit]
  <2>1. Goto(r, step) /\ (u \in Admins \/ tier[u] # None)
    BY <1>3 DEF handleAccountReservationAdd
  <2>2. u \notin Admins => limit \in Limits
    BY <2>1 DEF IInv, TypeOK, Tiers, LimitOf
  <2>3. step.user = u /\ step.limit = limit
    OBVIOUS
  <2> HIDE DEF step, limit
  <2> QED
    BY <1>1, <2>1, <2>2, <2>3
<1>4. ASSUME NEW r \in Requests, NEW u \in Users, NEW t \in Topics, NEW purge \in BOOLEAN,
             handleAccountReservationDelete(r, u, t, purge)
      PROVE  LimitsRead'
  <2> DEFINE step == [at |-> "removing", user |-> u, topic |-> t, purge |-> purge]
  <2>1. Goto(r, step) /\ step.at # "allowed"
    BY <1>4 DEF handleAccountReservationDelete
  <2> QED
    BY <1>2, <2>1
<1>5. ASSUME NEW r \in Requests, NEW u \in Users, NEW new \in Tiers, updateSubscriptionAndTier(r, u, new)
      PROVE  LimitsRead'
  <2> DEFINE removed == ExcessReservations(u, LimitOf(new))
             step == IF removed = {} THEN [at |-> "tiering", user |-> u, old |-> tier[u], new |-> new]
                     ELSE [at |-> "downgrading", user |-> u, old |-> tier[u], new |-> new, topics |-> removed]
  <2>1. Goto(r, step)
    BY <1>5 DEF updateSubscriptionAndTier
  <2> HIDE DEF removed
  <2>2. step.at # "allowed"
    OBVIOUS
  <2> QED
    BY <1>2, <2>1, <2>2
<1>6. ASSUME NEW r \in Requests, RequestStep(r) PROVE LimitsRead'
  <2>1. Idle.at # "allowed"
    BY DEF Idle
  <2>2. CASE AddReservation(r) \/ ExpireMessagesFails(r) \/ FinishTier(r)
    BY <1>2, <2>1, <2>2 DEF AddReservation, ExpireMessagesFails, FinishTier
  <2>3. CASE RemoveReservations(r)
    <3> DEFINE step == IF request[r].purge THEN [at |-> "expiring", topics |-> {request[r].topic}] ELSE Idle
    <3>1. Goto(r, step)
      BY <2>3 DEF RemoveReservations
    <3>2. step.at # "allowed"
      BY <2>1
    <3> QED
      BY <1>2, <3>1, <3>2
  <2>4. CASE ExpireMessages(r)
    <3> DEFINE step == IF At(r, "expiring") THEN Idle
                       ELSE [at |-> "tiering", user |-> request[r].user, old |-> request[r].old, new |-> request[r].new]
    <3>1. Goto(r, step)
      BY <2>4 DEF ExpireMessages
    <3>2. step.at # "allowed"
      BY <2>1
    <3> QED
      BY <1>2, <3>1, <3>2
  <2> QED
    BY <1>6, <2>2, <2>3, <2>4 DEF RequestStep
<1>7. CASE request' = request
  BY <1>7 DEF LimitsRead, At
<1> QED
  BY <1>3, <1>4, <1>5, <1>6, <1>7 DEF Next, NewRequest, ChangeTier, AllowAccess, ResetAccess, vars

(***************************************************************************)
(* Where every tier allows a reservation, no number of overlapping adds,   *)
(* downgrades and changes of tiers gives a user more reservations than     *)
(* some tier allows: AddReservation counts again in its transaction.  For  *)
(* a tier that allows none the code checks no limit (ZeroIsNone).          *)
(***************************************************************************)
THEOREM WithinLargestLimitAlways ==
    ASSUME Limits # {}, 0 \notin Limits
    PROVE  Spec => []WithinLargestLimit
<1> DEFINE Finite == \A u \in Users : IsFiniteSet(Reserved(u))
<1>1. Init => LimitsRead /\ Finite /\ WithinLargestLimit
  <2> SUFFICES ASSUME Init PROVE LimitsRead /\ Finite /\ WithinLargestLimit
    OBVIOUS
  <2>1. LimitsRead
    BY DEF Init, LimitsRead, At, Idle
  <2>2. \A u : Reserved(u) = {}
    BY DEF Init, Reserved
  <2>3. \E limit \in Limits : 0 <= limit
    <3>1. PICK limit : limit \in Limits
      OBVIOUS
    <3>2. limit \in Nat
      BY <3>1, ReservationsAssumption
    <3> QED
      BY <3>1, <3>2
  <2> QED
    BY <2>1, <2>2, <2>3, FS_EmptySet DEF WithinLargestLimit
<1>2. IInv /\ LimitsRead /\ Finite /\ WithinLargestLimit /\ [Next]_vars => Finite' /\ WithinLargestLimit'
  <2> SUFFICES ASSUME IInv, LimitsRead, Finite, WithinLargestLimit, [Next]_vars, NEW u \in Users
               PROVE  /\ IsFiniteSet(Reserved(u)')
                      /\ u \notin Admins => \E limit \in Limits : Cardinality(Reserved(u)') <= limit
    BY DEF WithinLargestLimit
  <2> DEFINE old == Reserved(u)
             new == Reserved(u)'
  <2>1. IsFiniteSet(old) /\ Cardinality(old) \in Nat /\ Limits \subseteq Nat
    BY FS_CardinalityType, ReservationsAssumption
  <2>2. u \notin Admins => \E limit \in Limits : Cardinality(old) <= limit
    BY DEF WithinLargestLimit
  <2>3. CASE new \subseteq old
    <3> HIDE DEF old, new
    <3>1. IsFiniteSet(new) /\ Cardinality(new) <= Cardinality(old) /\ Cardinality(new) \in Nat
      BY <2>1, <2>3, FS_Subset, FS_CardinalityType
    <3>2. IsFiniteSet(new) /\ (u \notin Admins => \E limit \in Limits : Cardinality(new) <= limit)
      BY <2>1, <2>2, <3>1
    <3> QED
      BY <3>2 DEF new
  <2>4. CASE Added(u)
    <3>1. PICK r \in Requests : /\ At(r, "allowed") /\ request[r].user = u
                               /\ ~TooMany(u, request[r].topic, request[r].limit)
                               /\ new = old \union {request[r].topic}
      BY <2>4 DEF Added
    <3> DEFINE t == request[r].topic
               limit == request[r].limit
    <3>2. u \notin Admins => limit \in Limits
      BY <3>1 DEF LimitsRead
    <3>3. u \notin Admins => limit \in Nat /\ (t \in old \/ Cardinality(old) < limit)
      <4>1. ~(limit > 0 /\ t \notin old /\ Cardinality(old) >= limit)
        BY <3>1 DEF TooMany
      <4>2. u \notin Admins => limit \in Nat /\ limit # 0
        BY <2>1, <3>2
      <4> HIDE DEF old, limit, t
      <4> QED
        BY <2>1, <4>1, <4>2
    <3> HIDE DEF old, new, t, limit
    <3>4. /\ IsFiniteSet(new)
          /\ Cardinality(new) = IF t \in old THEN Cardinality(old) ELSE Cardinality(old) + 1
      BY <2>1, <3>1, FS_AddElement DEF t
    <3>5. u \notin Admins => \E l \in Limits : Cardinality(new) <= l
      <4>1. CASE t \in old
        BY <2>2, <3>4, <4>1
      <4>2. CASE t \notin old
        <5>1. u \notin Admins => Cardinality(new) <= limit
          BY <2>1, <3>3, <3>4, <4>2
        <5> QED
          BY <3>2, <5>1
      <4> QED
        BY <4>1, <4>2
    <3> QED
      BY <3>4, <3>5 DEF new
  <2> QED
    BY <2>3, <2>4, EachStep DEF Released
<1> QED
  BY <1>1, <1>2, NextLimits, InvAlways, PTL DEF Spec

=============================================================================
