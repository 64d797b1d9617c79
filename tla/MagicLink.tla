------------------------------ MODULE MagicLink ------------------------------
(***************************************************************************)
(* Email addresses of accounts and the magic links that verify an address  *)
(* or reset a password (user/manager.go), with the account handlers that   *)
(* call them (server/server_account.go).                                   *)
(*                                                                         *)
(* The handlers of concurrent requests interleave.  A step is one query or *)
(* one transaction: SQLite runs the transactions here one after the other, *)
(* because each of them begins with a write.  A refused request changes    *)
(* nothing and is left out.                                                *)
(***************************************************************************)
EXTENDS Integers, FiniteSets

CONSTANTS
    Users,              \* user IDs
    Provisioned,        \* the users that come from the config file
    Addresses,          \* email addresses
    Requests,           \* bound: requests that run at the same time
    VerifyTTL,          \* emailVerificationTokenExpiry
    ResetTTL,           \* passwordResetTokenExpiry
    MaxLinks,           \* bound: links ever made
    MaxTime,            \* bound: the clock
    None                \* no address: the NULL of a password-reset link

ASSUME MagicLinkAssumption ==
    /\ Provisioned \subseteq Users
    /\ None \notin Addresses
    /\ {VerifyTTL, ResetTTL, MaxLinks, MaxTime} \subseteq Nat

VARIABLES
    now,                \* the clock
    emails,             \* table user_email
    links,              \* table user_magic_link
    issued,             \* how many tokens were generated
    mails,              \* the emails that were sent
    request,            \* where each request is
    uses,               \* history: how often each token was honoured
    proven,             \* history: the users and addresses that VerifyEmail joined
    deleted             \* history: the addresses deleted and not asked for since

history == <<uses, proven, deleted>>
vars == <<now, emails, links, issued, mails, request, history>>

Verify == "email_verify"
Reset == "password_reset"
Tokens == 1 .. MaxLinks
Links == [token : Tokens, kind : {Verify, Reset}, user : Users, email : Addresses \union {None}, expires : Nat]
Rows == [user : Users, email : Addresses, primary : BOOLEAN]
Mails == [token : Tokens, kind : {Verify, Reset}, user : Users, to : Addresses]

Idle == [at |-> "idle"]
Steps ==
    {Idle} \union [at : {"adding", "deleting", "requesting"}, user : Users, email : Addresses]
           \union [at : {"verifying", "resetting"}, link : Links]

Init ==
    /\ now = 0
    /\ emails = {}
    /\ links = {}
    /\ issued = 0
    /\ mails = {}
    /\ request = [r \in Requests |-> Idle]
    /\ uses = [t \in Tokens |-> 0]
    /\ proven = {}
    /\ deleted = {}

-----------------------------------------------------------------------------
\* Queries.

Emails(u) == {e.email : e \in {f \in emails : f.user = u}}
PrimaryEmail(u) == {e.email : e \in {f \in emails : f.user = u /\ f.primary}}
UserIDByPrimaryEmail(a) == {e.user : e \in {f \in emails : f.email = a /\ f.primary}}
PendingEmails(u) == {l.email : l \in {k \in links : k.kind = Verify /\ k.user = u}}

\* The expiry check of VerifyEmail and ResetPassword.
Valid(l) == now <= l.expires

\* The links that a new link replaces.
Scope(kind, u, a) == {l \in links : l.kind = kind /\ l.user = u /\ (kind = Reset \/ l.email = a)}

At(r, step) == request[r].at = step
Goto(r, step) == request' = [request EXCEPT ![r] = step]

-----------------------------------------------------------------------------
\* Making links.

\* AddMagicLink without its replace-delete.
AddMagicLinkOnly(kind, u, a, ttl) ==
    /\ issued < MaxLinks
    /\ issued' = issued + 1
    /\ links' = links \union {[token |-> issued + 1, kind |-> kind, user |-> u, email |-> a, expires |-> now + ttl]}

AddMagicLink(kind, u, a, ttl) ==
    /\ issued < MaxLinks
    /\ issued' = issued + 1
    /\ links' = (links \ Scope(kind, u, a)) \union
                {[token |-> issued + 1, kind |-> kind, user |-> u, email |-> a, expires |-> now + ttl]}

\* The mailer delivers the new link, or fails and leaves it in the table.
Send(kind, u, a) == mails' \in {mails, mails \union {[token |-> issued + 1, kind |-> kind, user |-> u, to |-> a]}}

\* PUT /v1/account/email, of an address that is not verified yet.
handleAccountEmailAdd(r, u, a) ==
    /\ At(r, "idle")
    /\ a \notin Emails(u)
    /\ Goto(r, [at |-> "adding", user |-> u, email |-> a])
    /\ UNCHANGED <<now, emails, links, issued, mails, history>>

\* POST /v1/account/email/resend, of an address that is pending.
handleAccountEmailResend(r, u, a) ==
    /\ At(r, "idle")
    /\ a \in PendingEmails(u)
    /\ Goto(r, [at |-> "adding", user |-> u, email |-> a])
    /\ UNCHANGED <<now, emails, links, issued, mails, history>>

enqueueEmailVerification(r) ==
    LET u == request[r].user
        a == request[r].email
    IN /\ At(r, "adding")
       /\ AddMagicLink(Verify, u, a, VerifyTTL)
       /\ Send(Verify, u, a)
       /\ deleted' = deleted \ {<<u, a>>}
       /\ Goto(r, Idle)
       /\ UNCHANGED <<now, emails, uses, proven>>

\* The request of a reset: resolveResetPasswordTarget reads the primary address.
handleAccountPasswordResetRequest(r, u, a) ==
    /\ At(r, "idle")
    /\ u \notin Provisioned
    /\ a \in PrimaryEmail(u)
    /\ Goto(r, [at |-> "requesting", user |-> u, email |-> a])
    /\ UNCHANGED <<now, emails, links, issued, mails, history>>

\* The link is made and mailed to the address that was read.
SendPasswordReset(r) ==
    LET u == request[r].user
    IN /\ At(r, "requesting")
       /\ AddMagicLink(Reset, u, None, ResetTTL)
       /\ Send(Reset, u, request[r].email)
       /\ Goto(r, Idle)
       /\ UNCHANGED <<now, emails, history>>

-----------------------------------------------------------------------------
\* Using links.

\* A link from an email is looked up, and its kind and expiry are checked.
MagicLinkByHash(r, l, kind, step) ==
    /\ At(r, "idle")
    /\ l \in links
    /\ \E mail \in mails : mail.token = l.token
    /\ l.kind = kind
    /\ Valid(l)
    /\ Goto(r, [at |-> step, link |-> l])
    /\ UNCHANGED <<now, emails, links, issued, mails, history>>

VerifyEmail(r, l) == MagicLinkByHash(r, l, Verify, "verifying")

ResetPassword(r, l) == l.user \notin Provisioned /\ MagicLinkByHash(r, l, Reset, "resetting")

\* The link is deleted, whether or not it is still there.
Consume(r) ==
    LET l == request[r].link
    IN /\ links' = {k \in links : k.token # l.token}
       /\ uses' = [uses EXCEPT ![l.token] = @ + 1]
       /\ Goto(r, Idle)

\* Promotion of an address to primary: the account has none yet.
PromoteIfNone(u, a) == PrimaryEmail(u) = {}

\* ... and no other account has the address as its primary.
Promote(u, a) == PrimaryEmail(u) = {} /\ UserIDByPrimaryEmail(a) = {}

\* The transaction of VerifyEmail.
VerifyEmailTx(r) ==
    LET u == request[r].link.user
        a == request[r].link.email
        added == IF a \in Emails(u) THEN emails ELSE emails \union {[user |-> u, email |-> a, primary |-> FALSE]}
    IN /\ At(r, "verifying")
       /\ Consume(r)
       /\ emails' = IF Promote(u, a)
                    THEN (added \ {[user |-> u, email |-> a, primary |-> FALSE]})
                         \union {[user |-> u, email |-> a, primary |-> TRUE]}
                    ELSE added
       /\ proven' = proven \union {<<u, a>>}
       /\ UNCHANGED <<now, issued, mails, deleted>>

\* The transaction of ResetPassword, after the password was hashed.
ResetPasswordTx(r) ==
    /\ At(r, "resetting")
    /\ Consume(r)
    /\ UNCHANGED <<now, emails, issued, mails, proven, deleted>>

-----------------------------------------------------------------------------
\* Addresses.

\* DELETE /v1/account/email: first the verified address ...
RemoveEmail(r, u, a) ==
    /\ At(r, "idle")
    /\ emails' = {e \in emails : e.user # u \/ e.email # a}
    /\ Goto(r, [at |-> "deleting", user |-> u, email |-> a])
    /\ UNCHANGED <<now, links, issued, mails, history>>

\* ... then the pending verification.
DeleteEmailVerification(r) ==
    LET u == request[r].user
        a == request[r].email
    IN /\ At(r, "deleting")
       /\ links' = links \ Scope(Verify, u, a)
       /\ deleted' = deleted \union {<<u, a>>}
       /\ Goto(r, Idle)
       /\ UNCHANGED <<now, emails, issued, mails, uses, proven>>

\* A primary address that is added if it is not there.
SetPrimaryEmailAnyway(u, a) ==
    /\ UserIDByPrimaryEmail(a) \subseteq {u}
    /\ emails' = {IF e.user = u THEN [e EXCEPT !.primary = FALSE] ELSE e : e \in {f \in emails : f.user # u \/ f.email # a}}
                 \union {[user |-> u, email |-> a, primary |-> TRUE]}
    /\ UNCHANGED <<now, links, issued, mails, request, history>>

\* POST /v1/account/email/primary: clear and set in one transaction.
SetPrimaryEmail(u, a) ==
    /\ a \in Emails(u)
    /\ UserIDByPrimaryEmail(a) \subseteq {u}
    /\ emails' = {IF e.user = u THEN [e EXCEPT !.primary = (e.email = a)] ELSE e : e \in emails}
    /\ UNCHANGED <<now, links, issued, mails, request, history>>

\* A reaper that takes what expires now, too.
deleteExpiredMagicLinksEarly ==
    /\ links' = {l \in links : l.expires > now}
    /\ UNCHANGED <<now, emails, issued, mails, request, history>>

deleteExpiredMagicLinks ==
    /\ links' = {l \in links : l.expires >= now}
    /\ UNCHANGED <<now, emails, issued, mails, request, history>>

Tick ==
    /\ now < MaxTime
    /\ now' = now + 1
    /\ UNCHANGED <<emails, links, issued, mails, request, history>>

RequestStep(r) ==
    \/ enqueueEmailVerification(r)
    \/ SendPasswordReset(r)
    \/ VerifyEmailTx(r)
    \/ ResetPasswordTx(r)
    \/ DeleteEmailVerification(r)

NewRequest(r) ==
    \/ \E u \in Users, a \in Addresses :
          \/ handleAccountEmailAdd(r, u, a)
          \/ handleAccountEmailResend(r, u, a)
          \/ handleAccountPasswordResetRequest(r, u, a)
          \/ RemoveEmail(r, u, a)
    \/ \E l \in links : VerifyEmail(r, l) \/ ResetPassword(r, l)

Next ==
    \/ \E r \in Requests : NewRequest(r) \/ RequestStep(r)
    \/ \E u \in Users, a \in Addresses : SetPrimaryEmail(u, a)
    \/ deleteExpiredMagicLinks
    \/ Tick

Spec == Init /\ [][Next]_vars

-----------------------------------------------------------------------------
\* Properties.

TypeOK ==
    /\ now \in 0 .. MaxTime
    /\ emails \subseteq Rows
    /\ links \subseteq Links
    /\ issued \in 0 .. MaxLinks
    /\ mails \subseteq Mails
    /\ request \in [Requests -> Steps]
    /\ uses \in [Tokens -> Nat]
    /\ proven \subseteq Users \X Addresses
    /\ deleted \subseteq Users \X Addresses

(***************************************************************************)
(* An account has one primary address and an address is primary for one    *)
(* account: no verification or change of primary ever runs into the unique *)
(* indexes of user_email, which would undo the whole transaction.          *)
(***************************************************************************)
UniquePrimary ==
    \A e, f \in emails : (e.primary /\ f.primary /\ (e.user = f.user \/ e.email = f.email)) => e = f

(***************************************************************************)
(* "one pending verification per address", "one active reset per account", *)
(* whatever adds, resends, deletes and uses run at the same time.          *)
(***************************************************************************)
OneLinkPerScope == \A k, l \in links :
    (k.kind = l.kind /\ k.user = l.user /\ k.email = l.email) => k = l

\* The mail of a reset goes to an address that this user has verified by an earlier link.
ResetOnlyToProven == \A mail \in mails : mail.kind = Reset => <<mail.user, mail.to>> \in proven

(***************************************************************************)
(* A link that could still be used leaves the table only by being used,    *)
(* replaced by a newer one of its scope or cancelled by a delete; the      *)
(* reaper never takes one.                                                 *)
(***************************************************************************)
ValidLinkStays == [][\A l \in links \ links' :
    \/ ~Valid(l)
    \/ uses'[l.token] > uses[l.token]
    \/ \E k \in links' : k.token > l.token /\ k.kind = l.kind /\ k.user = l.user /\ k.email = l.email
    \/ \E r \in Requests : At(r, "deleting") /\ request[r].user = l.user /\ request[r].email = l.email]_vars

-----------------------------------------------------------------------------
\* Not guaranteed: what a comment or a document says and TLC refutes (see the README).

\* "single-use consume": a reset link sets a password once.
SingleUse == \A mail \in mails : mail.kind = Reset => uses[mail.token] <= 1

\* A deleted address, verified or pending, stays away until it is asked for again.
DeletedIsGone == \A pair \in deleted : pair[2] \notin Emails(pair[1])

\* Pending addresses are "unverified (pending)" ones.
PendingIsUnverified == \A u \in Users : PendingEmails(u) \intersect Emails(u) = {}

\* "Provisioned users never get a primary".
ProvisionedHasNoPrimary == \A u \in Provisioned : PrimaryEmail(u) = {}

=============================================================================
