--------------------------- MODULE MagicLinkProofs ---------------------------
(***************************************************************************)
(* Addresses and magic links, for any number of users, addresses, links    *)
(* and concurrent requests: types, that primary addresses are unique, that *)
(* a scope has one link, that resets are mailed to verified addresses only *)
(* and that a link that can still be used stays.                           *)
(***************************************************************************)
EXTENDS MagicLink, TLAPS

\* The primary key of user_email.
OneRowPerAddress == \A e, f \in emails : (e.user = f.user /\ e.email = f.email) => e = f

(***************************************************************************)
(* What a reset request has read stays proven, even if the address is      *)
(* deleted before the link is mailed.                                      *)
(***************************************************************************)
AddressesProven ==
    /\ \A e \in emails : <<e.user, e.email>> \in proven
    /\ \A r \in Requests : request[r].at = "requesting" => <<request[r].user, request[r].email>> \in proven

\* A verification has an address, a reset has none.
LinkEmails ==
    /\ \A l \in links : (l.kind = Verify) <=> (l.email # None)
    /\ \A r \in Requests : request[r].at = "verifying" => request[r].link.email # None

IInv ==
    /\ TypeOK
    /\ OneRowPerAddress
    /\ UniquePrimary
    /\ OneLinkPerScope
    /\ LinkEmails
    /\ AddressesProven
    /\ ResetOnlyToProven

-----------------------------------------------------------------------------
\* What a request carries.

\* A request that adds, deletes or asks for a reset has a user and an address.
LEMMA Carries ==
    ASSUME TypeOK, NEW r \in Requests, request[r].at \in {"adding", "deleting", "requesting"}
    PROVE  request[r].user \in Users /\ request[r].email \in Addresses
<1>1. request[r] \in Steps
  BY DEF TypeOK
<1> QED
  BY <1>1 DEF Steps, Idle

\* A request that uses a link has one.
LEMMA CarriesLink ==
    ASSUME TypeOK, NEW r \in Requests, request[r].at \in {"verifying", "resetting"}
    PROVE  request[r].link \in Links
<1>1. request[r] \in Steps
  BY DEF TypeOK
<1> QED
  BY <1>1 DEF Steps, Idle

\* After a step, the request that made it is where the step says, the others are where they were.
LEMMA GotoEach ==
    ASSUME TypeOK, NEW r \in Requests, NEW step \in Steps, Goto(r, step)
    PROVE  /\ request' \in [Requests -> Steps]
           /\ request'[r] = step
           /\ \A q \in Requests : q # r => request'[q] = request[q]
  BY DEF Goto, TypeOK

\* The initial state satisfies the invariant.
LEMMA InitInv == Init => IInv
<1> SUFFICES ASSUME Init PROVE IInv
  OBVIOUS
<1>1. now \in 0 .. MaxTime /\ issued \in 0 .. MaxLinks
  BY MagicLinkAssumption DEF Init
<1>2. request \in [Requests -> Steps]
  BY DEF Init, Steps
<1>3. TypeOK
  BY <1>1, <1>2 DEF Init, TypeOK
<1>4. \A r \in Requests : request[r].at = "idle"
  BY DEF Init, Idle
<1> QED
  BY <1>3, <1>4 DEF Init, IInv, OneRowPerAddress, UniquePrimary, OneLinkPerScope, LinkEmails,
     AddressesProven, ResetOnlyToProven

-----------------------------------------------------------------------------
\* The table of addresses.

\* Verification keeps the key and the unique indexes: it checks before it promotes.
LEMMA VerifyRows ==
    ASSUME IInv, NEW r \in Requests, VerifyEmailTx(r)
    PROVE  /\ emails' \subseteq Rows
           /\ OneRowPerAddress'
           /\ UniquePrimary'
           /\ \A e \in emails' : \/ e.user = request[r].link.user /\ e.email = request[r].link.email
                                 \/ e \in emails
<1> DEFINE u == request[r].link.user
           a == request[r].link.email
           new == [user |-> u, email |-> a, primary |-> FALSE]
           top == [user |-> u, email |-> a, primary |-> TRUE]
           added == IF a \in Emails(u) THEN emails ELSE emails \union {new}
<1>1. u \in Users /\ a \in Addresses
  <2>1. request[r].link \in Links /\ request[r].link.email # None
    BY CarriesLink DEF IInv, VerifyEmailTx, At, LinkEmails
  <2> QED
    BY <2>1 DEF Links
<1>2. emails' = IF Promote(u, a) THEN (added \ {new}) \union {top} ELSE added
  BY DEF VerifyEmailTx
<1>3. new \in Rows /\ top \in Rows
  BY <1>1 DEF Rows
<1>4. emails \subseteq Rows /\ OneRowPerAddress /\ UniquePrimary
  BY DEF IInv, TypeOK
<1>5. \A e \in emails : (e.user = u /\ e.email = a) => a \in Emails(u)
  BY DEF Emails
<1>6. Promote(u, a) => \A e \in emails : e.primary => e.user # u /\ e.email # a
  BY DEF Promote, PrimaryEmail, UserIDByPrimaryEmail
<1>7. \A e \in emails : e = [user |-> e.user, email |-> e.email, primary |-> e.primary] /\ e.primary \in BOOLEAN
  BY <1>4 DEF Rows
<1>8. /\ new.user = u /\ new.email = a /\ ~new.primary
      /\ top.user = u /\ top.email = a /\ top.primary
  OBVIOUS
<1>9. CASE ~Promote(u, a)
  <2>1. emails' = added
    BY <1>2, <1>9
  <2> HIDE DEF u, a, new, top
  <2> QED
    BY <2>1, <1>3, <1>4, <1>5, <1>8 DEF OneRowPerAddress, UniquePrimary, u, a
<1>10. CASE Promote(u, a)
  <2>1. emails' = (added \ {new}) \union {top}
    BY <1>2, <1>10
  <2>2. \A e \in emails : (e.user = u /\ e.email = a) => e = new
    BY <1>6, <1>7, <1>10
  <2>3. \A e \in emails' : e = top \/ (e \in emails /\ ~(e.user = u /\ e.email = a))
    BY <2>1, <2>2
  <2> HIDE DEF u, a, new, top
  <2>4. OneRowPerAddress'
    BY <2>3, <1>4, <1>8 DEF OneRowPerAddress
  <2>5. UniquePrimary'
    BY <2>3, <1>4, <1>6, <1>8, <1>10 DEF UniquePrimary
  <2>6. emails' \subseteq Rows
    BY <2>3, <1>3, <1>4
  <2> QED
    BY <2>3, <2>4, <2>5, <2>6, <1>8 DEF u, a
<1> QED
  BY <1>9, <1>10

\* So does a change of the primary address.
LEMMA PrimaryRows ==
    ASSUME IInv, NEW u \in Users, NEW a \in Addresses, SetPrimaryEmail(u, a)
    PROVE  /\ emails' \subseteq Rows
           /\ OneRowPerAddress'
           /\ UniquePrimary'
           /\ \A e \in emails' : \E f \in emails : e.user = f.user /\ e.email = f.email
<1> DEFINE g(e) == IF e.user = u THEN [e EXCEPT !.primary = (e.email = a)] ELSE e
<1>1. emails' = {g(e) : e \in emails}
  BY DEF SetPrimaryEmail
<1>2. emails \subseteq Rows /\ OneRowPerAddress /\ UniquePrimary
  BY DEF IInv, TypeOK
<1>3. \A e \in emails : (e.primary /\ e.email = a) => e.user = u
  BY DEF SetPrimaryEmail, UserIDByPrimaryEmail
<1>4. ASSUME NEW e \in emails
      PROVE  /\ g(e) \in Rows /\ g(e).user = e.user /\ g(e).email = e.email
             /\ e.user = u => (g(e).primary <=> e.email = a)
             /\ e.user # u => g(e) = e
  <2>1. e \in Rows
    BY <1>2
  <2> QED
    BY <2>1 DEF Rows
<1> HIDE DEF g
<1>5. \A x \in emails' : \E e \in emails : x = g(e)
  BY <1>1
<1>6. OneRowPerAddress'
  BY <1>2, <1>4, <1>5 DEF OneRowPerAddress
<1>7. UniquePrimary'
  <2> SUFFICES ASSUME NEW x \in emails', NEW y \in emails', x.primary, y.primary,
                      x.user = y.user \/ x.email = y.email
               PROVE  x = y
    BY DEF UniquePrimary
  <2>1. PICK e \in emails : x = g(e)
    BY <1>5
  <2>2. PICK f \in emails : y = g(f)
    BY <1>5
  <2>3. CASE e.user = u /\ f.user = u
    BY <2>1, <2>2, <2>3, <1>2, <1>4 DEF OneRowPerAddress
  <2>4. CASE e.user # u /\ f.user # u
    BY <2>1, <2>2, <2>4, <1>2, <1>4 DEF UniquePrimary
  <2>5. CASE (e.user = u) # (f.user = u)
    BY <2>1, <2>2, <2>5, <1>3, <1>4
  <2> QED
    BY <2>3, <2>4, <2>5
<1> QED
  BY <1>4, <1>5, <1>6, <1>7

-----------------------------------------------------------------------------
\* The table of links.

\* A new link replaces those of its scope.
LEMMA AddedLinks ==
    ASSUME IInv, NEW kind \in {Verify, Reset}, NEW u \in Users, NEW a \in Addresses \union {None},
           NEW ttl \in Nat, AddMagicLink(kind, u, a, ttl), (kind = Verify) <=> (a # None)
    PROVE  /\ links' \subseteq Links
           /\ issued' \in 0 .. MaxLinks
           /\ OneLinkPerScope'
           /\ \A l \in links' : (l.kind = Verify) <=> (l.email # None)
           /\ issued + 1 \in Tokens
<1> DEFINE new == [token |-> issued + 1, kind |-> kind, user |-> u, email |-> a, expires |-> now + ttl]
<1>1. /\ now \in Nat /\ issued \in 0 .. MaxLinks /\ MaxLinks \in Nat
      /\ links \subseteq Links
      /\ OneLinkPerScope
      /\ \A l \in links : (l.kind = Verify) <=> (l.email # None)
  BY MagicLinkAssumption DEF IInv, TypeOK, LinkEmails
<1>2. /\ issued + 1 \in Tokens
      /\ issued' \in 0 .. MaxLinks
      /\ links' = (links \ Scope(kind, u, a)) \union {new}
  BY <1>1 DEF AddMagicLink, Tokens
<1>3. new \in Links
  BY <1>1, <1>2 DEF Links
<1>4. new.kind = kind /\ new.user = u /\ new.email = a
  OBVIOUS
<1> HIDE DEF new
<1>5. \A l \in links \ Scope(kind, u, a) : ~(l.kind = kind /\ l.user = u /\ l.email = a)
  BY DEF Scope
<1>6. OneLinkPerScope'
  BY <1>1, <1>2, <1>4, <1>5 DEF OneLinkPerScope
<1> QED
  BY <1>1, <1>2, <1>3, <1>4, <1>6

\* Fewer links are fine.
LEMMA FewerLinks ==
    ASSUME IInv, links' \subseteq links
    PROVE  links' \subseteq Links /\ OneLinkPerScope' /\ \A l \in links' : (l.kind = Verify) <=> (l.email # None)
  BY DEF IInv, TypeOK, OneLinkPerScope, LinkEmails

\* Requests that are not in the middle of a verification or a reset need nothing.
LEMMA RequestsKept ==
    ASSUME IInv, NEW r \in Requests, NEW step \in Steps, Goto(r, step),
           proven \subseteq proven',
           step.at = "requesting" => <<step.user, step.email>> \in proven',
           step.at = "verifying" => step.link.email # None
    PROVE  /\ request' \in [Requests -> Steps]
           /\ \A q \in Requests : request'[q].at = "requesting" => <<request'[q].user, request'[q].email>> \in proven'
           /\ \A q \in Requests : request'[q].at = "verifying" => request'[q].link.email # None
<1>1. /\ request' \in [Requests -> Steps]
      /\ request'[r] = step
      /\ \A q \in Requests : q # r => request'[q] = request[q]
  BY GotoEach DEF IInv
<1> QED
  BY <1>1 DEF IInv, AddressesProven, LinkEmails

\* Nothing but the requests change.
LEMMA ReadOnly ==
    ASSUME IInv, NEW r \in Requests, NEW step \in Steps, Goto(r, step),
           step.at = "requesting" => <<step.user, step.email>> \in proven,
           step.at = "verifying" => step.link.email # None,
           UNCHANGED <<now, emails, links, issued, mails, history>>
    PROVE  IInv'
<1>1. UNCHANGED <<now, emails, links, issued, mails, uses, proven, deleted>>
  BY DEF history
<1>2. /\ request' \in [Requests -> Steps]
      /\ \A q \in Requests : request'[q].at = "requesting" => <<request'[q].user, request'[q].email>> \in proven'
      /\ \A q \in Requests : request'[q].at = "verifying" => request'[q].link.email # None
  BY <1>1, RequestsKept
<1>3. TypeOK'
  BY <1>1, <1>2 DEF IInv, TypeOK
<1> QED
  BY <1>1, <1>2, <1>3 DEF IInv, OneRowPerAddress, UniquePrimary, OneLinkPerScope, LinkEmails,
     AddressesProven, ResetOnlyToProven

-----------------------------------------------------------------------------
\* The steps.

\* The first step of a request.
LEMMA NewRequestInv ==
    ASSUME IInv, NEW r \in Requests, NewRequest(r) PROVE IInv'
<1>1. ASSUME NEW u \in Users, NEW a \in Addresses,
             handleAccountEmailAdd(r, u, a) \/ handleAccountEmailResend(r, u, a)
      PROVE  IInv'
  <2> DEFINE step == [at |-> "adding", user |-> u, email |-> a]
  <2>1. step \in Steps /\ step.at = "adding"
    BY DEF Steps
  <2>2. Goto(r, step) /\ UNCHANGED <<now, emails, links, issued, mails, history>>
    BY <1>1 DEF handleAccountEmailAdd, handleAccountEmailResend
  <2> QED
    BY <2>1, <2>2, ReadOnly
<1>2. ASSUME NEW u \in Users, NEW a \in Addresses, handleAccountPasswordResetRequest(r, u, a)
      PROVE  IInv'
  <2> DEFINE step == [at |-> "requesting", user |-> u, email |-> a]
  <2>1. step \in Steps /\ step.at = "requesting" /\ step.user = u /\ step.email = a
    BY DEF Steps
  <2>2. Goto(r, step) /\ UNCHANGED <<now, emails, links, issued, mails, history>>
    BY <1>2 DEF handleAccountPasswordResetRequest
  <2>3. <<u, a>> \in proven
    BY <1>2 DEF handleAccountPasswordResetRequest, PrimaryEmail, IInv, AddressesProven
  <2> QED
    BY <2>1, <2>2, <2>3, ReadOnly
<1>3. ASSUME NEW l \in links, VerifyEmail(r, l) PROVE IInv'
  <2> DEFINE step == [at |-> "verifying", link |-> l]
  <2>1. step \in Steps /\ step.at = "verifying" /\ step.link = l
    BY DEF Steps, IInv, TypeOK
  <2>2. Goto(r, step) /\ UNCHANGED <<now, emails, links, issued, mails, history>> /\ l.kind = Verify
    BY <1>3 DEF VerifyEmail, MagicLinkByHash
  <2>3. l.email # None
    BY <2>2 DEF IInv, LinkEmails
  <2> QED
    BY <2>1, <2>2, <2>3, ReadOnly
<1>4. ASSUME NEW l \in links, ResetPassword(r, l) PROVE IInv'
  <2> DEFINE step == [at |-> "resetting", link |-> l]
  <2>1. step \in Steps /\ step.at = "resetting"
    BY DEF Steps, IInv, TypeOK
  <2>2. Goto(r, step) /\ UNCHANGED <<now, emails, links, issued, mails, history>>
    BY <1>4 DEF ResetPassword, MagicLinkByHash
  <2> QED
    BY <2>1, <2>2, ReadOnly
<1>5. ASSUME NEW u \in Users, NEW a \in Addresses, RemoveEmail(r, u, a) PROVE IInv'
  <2> DEFINE step == [at |-> "deleting", user |-> u, email |-> a]
  <2>1. step \in Steps /\ step.at = "deleting"
    BY DEF Steps
  <2>2. /\ Goto(r, step) /\ emails' \subseteq emails
        /\ UNCHANGED <<now, links, issued, mails, uses, proven, deleted>>
    BY <1>5 DEF RemoveEmail, history
  <2>3. /\ request' \in [Requests -> Steps]
        /\ \A q \in Requests : request'[q].at = "requesting" => <<request'[q].user, request'[q].email>> \in proven'
        /\ \A q \in Requests : request'[q].at = "verifying" => request'[q].link.email # None
    BY <2>1, <2>2, RequestsKept
  <2>4. TypeOK'
    BY <2>2, <2>3 DEF IInv, TypeOK
  <2> QED
    BY <2>2, <2>3, <2>4 DEF IInv, OneRowPerAddress, UniquePrimary, OneLinkPerScope, LinkEmails,
       AddressesProven, ResetOnlyToProven
<1> QED
  BY <1>1, <1>2, <1>3, <1>4, <1>5 DEF NewRequest

\* The step that ends a request.
LEMMA RequestStepInv ==
    ASSUME IInv, NEW r \in Requests, RequestStep(r) PROVE IInv'
<1>0. Idle \in Steps /\ Idle.at = "idle" /\ VerifyTTL \in Nat /\ ResetTTL \in Nat /\ None \notin Addresses
  BY MagicLinkAssumption DEF Steps, Idle
<1>1. CASE enqueueEmailVerification(r)
  <2> DEFINE u == request[r].user
             a == request[r].email
  <2>1. u \in Users /\ a \in Addresses
    BY <1>1, Carries DEF enqueueEmailVerification, At, IInv
  <2>2. /\ AddMagicLink(Verify, u, a, VerifyTTL) /\ Send(Verify, u, a)
        /\ deleted' \subseteq deleted /\ Goto(r, Idle) /\ UNCHANGED <<now, emails, uses, proven>>
    BY <1>1 DEF enqueueEmailVerification
  <2> HIDE DEF u, a
  <2>3. /\ links' \subseteq Links /\ issued' \in 0 .. MaxLinks /\ OneLinkPerScope'
        /\ \A l \in links' : (l.kind = Verify) <=> (l.email # None)
        /\ issued + 1 \in Tokens
    BY <2>1, <2>2, <1>0, AddedLinks
  <2>4. mails' \subseteq Mails /\ \A mail \in mails' : mail \in mails \/ mail.kind = Verify
    BY <2>1, <2>2, <2>3 DEF Send, Mails, IInv, TypeOK
  <2>5. /\ request' \in [Requests -> Steps]
        /\ \A q \in Requests : request'[q].at = "requesting" => <<request'[q].user, request'[q].email>> \in proven'
        /\ \A q \in Requests : request'[q].at = "verifying" => request'[q].link.email # None
    BY <1>0, <2>2, RequestsKept
  <2>6. TypeOK'
    BY <2>2, <2>3, <2>4, <2>5 DEF IInv, TypeOK
  <2>7. ResetOnlyToProven'
    BY <2>2, <2>4 DEF IInv, ResetOnlyToProven, Verify, Reset
  <2> QED
    BY <2>2, <2>3, <2>5, <2>6, <2>7 DEF IInv, OneRowPerAddress, UniquePrimary, LinkEmails, AddressesProven
<1>2. CASE SendPasswordReset(r)
  <2> DEFINE u == request[r].user
             a == request[r].email
  <2>1. u \in Users /\ a \in Addresses /\ <<u, a>> \in proven
    BY <1>2, Carries DEF SendPasswordReset, At, IInv, AddressesProven
  <2>2. /\ AddMagicLink(Reset, u, None, ResetTTL) /\ Send(Reset, u, a)
        /\ Goto(r, Idle) /\ UNCHANGED <<now, emails, uses, proven, deleted>>
    BY <1>2 DEF SendPasswordReset, history
  <2> HIDE DEF u, a
  <2>3. /\ links' \subseteq Links /\ issued' \in 0 .. MaxLinks /\ OneLinkPerScope'
        /\ \A l \in links' : (l.kind = Verify) <=> (l.email # None)
        /\ issued + 1 \in Tokens
    <3>1. Reset # Verify
      BY DEF Reset, Verify
    <3> QED
      BY <2>1, <2>2, <3>1, <1>0, AddedLinks
  <2>4. /\ mails' \subseteq Mails
        /\ \A mail \in mails' : mail \in mails \/ (mail.user = u /\ mail.to = a)
    BY <2>1, <2>2, <2>3 DEF Send, Mails, IInv, TypeOK
  <2>5. /\ request' \in [Requests -> Steps]
        /\ \A q \in Requests : request'[q].at = "requesting" => <<request'[q].user, request'[q].email>> \in proven'
        /\ \A q \in Requests : request'[q].at = "verifying" => request'[q].link.email # None
    BY <1>0, <2>2, RequestsKept
  <2>6. TypeOK'
    BY <2>2, <2>3, <2>4, <2>5 DEF IInv, TypeOK
  <2>7. ResetOnlyToProven'
    BY <2>1, <2>2, <2>4 DEF IInv, ResetOnlyToProven
  <2> QED
    BY <2>2, <2>3, <2>5, <2>6, <2>7 DEF IInv, OneRowPerAddress, UniquePrimary, LinkEmails, AddressesProven
<1>3. ASSUME VerifyEmailTx(r) \/ ResetPasswordTx(r) PROVE IInv'
  <2>1. request[r].link \in Links
    BY <1>3, CarriesLink DEF VerifyEmailTx, ResetPasswordTx, At, IInv
  <2>2. /\ links' \subseteq links /\ Goto(r, Idle)
        /\ uses' = [uses EXCEPT ![request[r].link.token] = @ + 1]
        /\ UNCHANGED <<now, issued, mails, deleted>>
        /\ proven \subseteq proven'
    BY <1>3 DEF VerifyEmailTx, ResetPasswordTx, Consume
  <2>3. uses' \in [Tokens -> Nat]
    BY <2>1, <2>2 DEF IInv, TypeOK, Links
  <2>4. links' \subseteq Links /\ OneLinkPerScope' /\ \A l \in links' : (l.kind = Verify) <=> (l.email # None)
    BY <2>2, FewerLinks
  <2>5. /\ request' \in [Requests -> Steps]
        /\ \A q \in Requests : request'[q].at = "requesting" => <<request'[q].user, request'[q].email>> \in proven'
        /\ \A q \in Requests : request'[q].at = "verifying" => request'[q].link.email # None
    BY <1>0, <2>2, RequestsKept
  <2>6. /\ emails' \subseteq Rows /\ OneRowPerAddress' /\ UniquePrimary'
        /\ \A e \in emails' : <<e.user, e.email>> \in proven'
        /\ proven' \subseteq Users \X Addresses
    <3>1. CASE VerifyEmailTx(r)
      <4>1. proven' = proven \union {<<request[r].link.user, request[r].link.email>>}
        BY <3>1 DEF VerifyEmailTx
      <4>2. request[r].link.email # None
        BY <3>1 DEF VerifyEmailTx, At, IInv, LinkEmails
      <4>3. request[r].link.user \in Users /\ request[r].link.email \in Addresses
        BY <2>1, <4>2 DEF Links
      <4> QED
        BY <3>1, <4>1, <4>3, VerifyRows DEF IInv, AddressesProven, TypeOK
    <3>2. CASE ResetPasswordTx(r)
      BY <3>2 DEF ResetPasswordTx, IInv, TypeOK, OneRowPerAddress, UniquePrimary, AddressesProven
    <3> QED
      BY <1>3, <3>1, <3>2
  <2>7. TypeOK'
    BY <2>2, <2>3, <2>4, <2>5, <2>6 DEF IInv, TypeOK
  <2> QED
    BY <2>2, <2>4, <2>5, <2>6, <2>7 DEF IInv, LinkEmails, AddressesProven, ResetOnlyToProven
<1>4. CASE DeleteEmailVerification(r)
  <2>1. request[r].user \in Users /\ request[r].email \in Addresses
    BY <1>4, Carries DEF DeleteEmailVerification, At, IInv
  <2>2. /\ links' \subseteq links /\ Goto(r, Idle)
        /\ deleted' = deleted \union {<<request[r].user, request[r].email>>}
        /\ UNCHANGED <<now, emails, issued, mails, uses, proven>>
    BY <1>4 DEF DeleteEmailVerification
  <2>3. links' \subseteq Links /\ OneLinkPerScope' /\ \A l \in links' : (l.kind = Verify) <=> (l.email # None)
    BY <2>2, FewerLinks
  <2>4. /\ request' \in [Requests -> Steps]
        /\ \A q \in Requests : request'[q].at = "requesting" => <<request'[q].user, request'[q].email>> \in proven'
        /\ \A q \in Requests : request'[q].at = "verifying" => request'[q].link.email # None
    BY <1>0, <2>2, RequestsKept
  <2>5. TypeOK'
    BY <2>1, <2>2, <2>3, <2>4 DEF IInv, TypeOK
  <2> QED
    BY <2>2, <2>3, <2>4, <2>5 DEF IInv, OneRowPerAddress, UniquePrimary, LinkEmails, AddressesProven,
       ResetOnlyToProven
<1> QED
  BY <1>1, <1>2, <1>3, <1>4 DEF RequestStep

\* Every step keeps the invariant.
LEMMA NextInv == IInv /\ [Next]_vars => IInv'
<1> SUFFICES ASSUME IInv, [Next]_vars PROVE IInv'
  OBVIOUS
<1> USE DEF history
<1>1. ASSUME NEW u \in Users, NEW a \in Addresses, SetPrimaryEmail(u, a) PROVE IInv'
  <2>1. UNCHANGED <<now, links, issued, mails, request, uses, proven, deleted>>
    BY <1>1 DEF SetPrimaryEmail
  <2>2. /\ emails' \subseteq Rows /\ OneRowPerAddress' /\ UniquePrimary'
        /\ \A e \in emails' : \E f \in emails : e.user = f.user /\ e.email = f.email
    BY <1>1, PrimaryRows
  <2>3. TypeOK'
    BY <2>1, <2>2 DEF IInv, TypeOK
  <2> QED
    BY <2>1, <2>2, <2>3 DEF IInv, OneLinkPerScope, LinkEmails, AddressesProven, ResetOnlyToProven
<1>2. CASE deleteExpiredMagicLinks
  <2>1. links' \subseteq links /\ UNCHANGED <<now, emails, issued, mails, request, uses, proven, deleted>>
    BY <1>2 DEF deleteExpiredMagicLinks
  <2>2. links' \subseteq Links /\ OneLinkPerScope' /\ \A l \in links' : (l.kind = Verify) <=> (l.email # None)
    BY <2>1, FewerLinks
  <2>3. TypeOK'
    BY <2>1, <2>2 DEF IInv, TypeOK
  <2> QED
    BY <2>1, <2>2, <2>3 DEF IInv, OneRowPerAddress, UniquePrimary, LinkEmails, AddressesProven, ResetOnlyToProven
<1>3. CASE Tick \/ UNCHANGED vars
  <2>1. UNCHANGED <<emails, links, issued, mails, request, uses, proven, deleted>> /\ now' \in 0 .. MaxTime
    BY <1>3, MagicLinkAssumption DEF Tick, vars, IInv, TypeOK
  <2>2. TypeOK'
    BY <2>1 DEF IInv, TypeOK
  <2> QED
    BY <2>1, <2>2 DEF IInv, OneRowPerAddress, UniquePrimary, OneLinkPerScope, LinkEmails, AddressesProven,
       ResetOnlyToProven
<1> QED
  BY <1>1, <1>2, <1>3, NewRequestInv, RequestStepInv DEF Next

\* Hence it holds always.
THEOREM InvAlways == Spec => []IInv
  BY InitInv, NextInv, PTL DEF Spec

\* The tables and the requests have their types.
THEOREM TypeCorrect == Spec => []TypeOK
<1>1. IInv => TypeOK
  BY DEF IInv
<1> QED
  BY <1>1, InvAlways, PTL

\* No transaction of VerifyEmail or SetPrimaryEmail runs into the unique indexes of the primary flag.
THEOREM UniquePrimaryAlways == Spec => []UniquePrimary
<1>1. IInv => UniquePrimary
  BY DEF IInv
<1> QED
  BY <1>1, InvAlways, PTL

\* One pending verification per address and one active reset per account.
THEOREM OneLinkPerScopeAlways == Spec => []OneLinkPerScope
<1>1. IInv => OneLinkPerScope
  BY DEF IInv
<1> QED
  BY <1>1, InvAlways, PTL

\* A reset is mailed to no address but one that its user has verified.
THEOREM ResetsGoToProven == Spec => []ResetOnlyToProven
<1>1. IInv => ResetOnlyToProven
  BY DEF IInv
<1> QED
  BY <1>1, InvAlways, PTL

-----------------------------------------------------------------------------
\* What a step may do to a link that can still be used.

\* Tokens are generated in order, so a new link's token is above all others.
TokensIssued == \A l \in links : l.token <= issued

\* Every step keeps the order of the tokens: only AddMagicLink makes a link, and it counts it.
LEMMA NextTokens == IInv /\ TokensIssued /\ [Next]_vars => TokensIssued'
<1> SUFFICES ASSUME IInv, TokensIssued, [Next]_vars PROVE TokensIssued'
  OBVIOUS
<1>1. links' \subseteq links /\ issued' = issued => TokensIssued'
  BY DEF TokensIssued
<1>2. ASSUME NEW kind, NEW u, NEW a, NEW ttl, AddMagicLink(kind, u, a, ttl) PROVE TokensIssued'
  <2> DEFINE new == [token |-> issued + 1, kind |-> kind, user |-> u, email |-> a, expires |-> now + ttl]
  <2>1. issued' = issued + 1 /\ \A l \in links' : l \in links \/ l = new
    BY <1>2 DEF AddMagicLink
  <2>2. new.token = issued + 1
    OBVIOUS
  <2> HIDE DEF new
  <2>3. issued \in Nat /\ \A l \in links : l.token \in Nat
    BY MagicLinkAssumption DEF IInv, TypeOK, Links, Tokens
  <2> QED
    BY <2>1, <2>2, <2>3 DEF TokensIssued
<1>3. ASSUME NEW r \in Requests, NewRequest(r) PROVE TokensIssued'
  <2>1. links' = links /\ issued' = issued
    BY <1>3 DEF NewRequest, handleAccountEmailAdd, handleAccountEmailResend, handleAccountPasswordResetRequest,
       RemoveEmail, VerifyEmail, ResetPassword, MagicLinkByHash
  <2> QED
    BY <1>1, <2>1
<1>4. ASSUME NEW r \in Requests, RequestStep(r) PROVE TokensIssued'
  <2>1. CASE enqueueEmailVerification(r) \/ SendPasswordReset(r)
    BY <1>2, <2>1 DEF enqueueEmailVerification, SendPasswordReset
  <2>2. CASE VerifyEmailTx(r) \/ ResetPasswordTx(r) \/ DeleteEmailVerification(r)
    <3>1. links' \subseteq links /\ issued' = issued
      BY <2>2 DEF VerifyEmailTx, ResetPasswordTx, DeleteEmailVerification, Consume
    <3> QED
      BY <1>1, <3>1
  <2> QED
    BY <1>4, <2>1, <2>2 DEF RequestStep
<1>5. CASE (\E u \in Users, a \in Addresses : SetPrimaryEmail(u, a)) \/ deleteExpiredMagicLinks \/ Tick \/ UNCHANGED vars
  <2>1. links' \subseteq links /\ issued' = issued
    BY <1>5 DEF SetPrimaryEmail, deleteExpiredMagicLinks, Tick, vars
  <2> QED
    BY <1>1, <2>1
<1> QED
  BY <1>3, <1>4, <1>5 DEF Next

\* A link that AddMagicLink removes is replaced by a newer one of its kind, user and address.
LEMMA Replaced ==
    ASSUME IInv, TokensIssued, NEW kind, NEW u, NEW a, NEW ttl, AddMagicLink(kind, u, a, ttl),
           kind \in {Verify, Reset}, (kind = Reset) <=> (a = None), NEW l \in links \ links'
    PROVE  \E k \in links' : k.token > l.token /\ k.kind = l.kind /\ k.user = l.user /\ k.email = l.email
<1> DEFINE new == [token |-> issued + 1, kind |-> kind, user |-> u, email |-> a, expires |-> now + ttl]
<1>1. l \in Scope(kind, u, a) /\ new \in links'
  BY DEF AddMagicLink
<1>2. l.kind = kind /\ l.user = u /\ l.email = a
  BY <1>1 DEF Scope, IInv, LinkEmails, Verify, Reset
<1>3. l.token \in Nat /\ issued \in Nat /\ l.token <= issued
  BY MagicLinkAssumption DEF IInv, TypeOK, Links, Tokens, TokensIssued
<1>4. new.token > l.token /\ new.kind = l.kind /\ new.user = l.user /\ new.email = l.email
  BY <1>2, <1>3
<1> QED
  BY <1>1, <1>4

(***************************************************************************)
(* Whatever requests run at the same time, a link that has not expired     *)
(* leaves the table only because it was used, replaced by a newer link of  *)
(* its scope, or cancelled by a delete of its address.                     *)
(***************************************************************************)
THEOREM ValidLinkStaysAlways == Spec => ValidLinkStays
<1> DEFINE Stays(l) ==
      \/ ~Valid(l)
      \/ uses'[l.token] > uses[l.token]
      \/ \E k \in links' : k.token > l.token /\ k.kind = l.kind /\ k.user = l.user /\ k.email = l.email
      \/ \E r \in Requests : At(r, "deleting") /\ request[r].user = l.user /\ request[r].email = l.email
<1>1. Init => TokensIssued
  BY DEF Init, TokensIssued
<1>2. IInv /\ TokensIssued /\ [Next]_vars => [\A l \in links \ links' : Stays(l)]_vars
  <2> SUFFICES ASSUME IInv, TokensIssued, Next, NEW l \in links \ links' PROVE Stays(l)
    OBVIOUS
  <2>1. ASSUME NEW r \in Requests, NewRequest(r) PROVE FALSE
    BY <2>1 DEF NewRequest, handleAccountEmailAdd, handleAccountEmailResend, handleAccountPasswordResetRequest,
       RemoveEmail, VerifyEmail, ResetPassword, MagicLinkByHash
  <2>2. ASSUME NEW r \in Requests, enqueueEmailVerification(r) PROVE Stays(l)
    <3>1. request[r].email # None
      BY <2>2, Carries, MagicLinkAssumption DEF enqueueEmailVerification, At, IInv
    <3>2. AddMagicLink(Verify, request[r].user, request[r].email, VerifyTTL) /\ Verify # Reset
      BY <2>2 DEF enqueueEmailVerification, Verify, Reset
    <3> QED
      BY <3>1, <3>2, Replaced
  <2>3. ASSUME NEW r \in Requests, SendPasswordReset(r) PROVE Stays(l)
    <3>1. AddMagicLink(Reset, request[r].user, None, ResetTTL)
      BY <2>3 DEF SendPasswordReset
    <3> QED
      BY <3>1, Replaced
  <2>4. ASSUME NEW r \in Requests, VerifyEmailTx(r) \/ ResetPasswordTx(r) PROVE Stays(l)
    <3>1. Consume(r)
      BY <2>4 DEF VerifyEmailTx, ResetPasswordTx
    <3>2. l.token = request[r].link.token /\ uses' = [uses EXCEPT ![l.token] = @ + 1]
      BY <3>1 DEF Consume
    <3>3. l.token \in Tokens /\ uses \in [Tokens -> Nat]
      BY DEF IInv, TypeOK, Links
    <3>4. uses'[l.token] = uses[l.token] + 1 /\ uses[l.token] \in Nat
      BY <3>2, <3>3
    <3>5. uses'[l.token] > uses[l.token]
      BY <3>4
    <3> QED
      BY <3>5
  <2>5. ASSUME NEW r \in Requests, DeleteEmailVerification(r) PROVE Stays(l)
    BY <2>5 DEF DeleteEmailVerification, Scope, Verify, Reset
  <2>6. ASSUME NEW u \in Users, NEW a \in Addresses, SetPrimaryEmail(u, a) PROVE FALSE
    BY <2>6 DEF SetPrimaryEmail
  <2>7. CASE deleteExpiredMagicLinks
    <3>1. ~(l.expires >= now) /\ l.expires \in Nat /\ now \in Nat
      BY <2>7, MagicLinkAssumption DEF deleteExpiredMagicLinks, IInv, TypeOK, Links
    <3> QED
      BY <3>1 DEF Valid
  <2>8. CASE Tick
    BY <2>8 DEF Tick
  <2> QED
    BY <2>1, <2>2, <2>3, <2>4, <2>5, <2>6, <2>7, <2>8 DEF Next, RequestStep
<1> QED
  BY <1>1, <1>2, NextTokens, InvAlways, PTL DEF Spec, ValidLinkStays

=============================================================================
