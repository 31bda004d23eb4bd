------------------------------ MODULE Account ------------------------------
(***************************************************************************)
(* Accounts and their sign-in methods: signing in with Discord or with a   *)
(* code mailed to an address, stepping up, linking, exchanging and         *)
(* removing methods (identity.service.ts, oauth.service.ts and             *)
(* repositories/identity.ts and identity-security-change.ts).              *)
(*                                                                         *)
(* Every request occupies a slot and takes one step per transaction or     *)
(* statement; a transaction that locks a session first and changes rows    *)
(* later takes two, and waits for the locks of the others.  The code that  *)
(* a person types in is right here: module Challenge has the wrong ones.   *)
(* The state of an OAuth redirect is the slot that waits for the callback; *)
(* the proof of a linked address lives inside the request that made it.    *)
(***************************************************************************)
EXTENDS Session

VARIABLES
  identity,      \* identity[n]: the identities row n
  email,         \* email[e]: the verified_emails row of address e
  proof          \* proof[p]: the identity_link_proofs row p

rows == <<identity, email, proof>>

vars == <<session, request, identity, email, proof>>

IdentityRows ==
  [status : {"absent", "verified", "revoked"}, user : Users \cup {None},
   subject : Subjects \cup {None}]

NoIdentity == [status |-> "absent", user |-> None, subject |-> None]

EmailRows ==
  [status : {"absent", "active", "revoked"}, user : Users \cup {None},
   id : Ids \cup {None}]

NoEmail == [status |-> "absent", user |-> None, id |-> None]

ProofRows ==
  [status : {"absent", "open", "consumed"}, user : Users \cup {None},
   session : Sessions \cup {None}, subject : Discords \cup {None}]

NoProof == [status |-> "absent", user |-> None, session |-> None,
            subject |-> None]

Init ==
  /\ session = [s \in Sessions |-> NoSession]
  /\ request = [r \in Requests |-> NoCall]
  /\ identity = [n \in Ids |-> NoIdentity]
  /\ email = [e \in Emails |-> NoEmail]
  /\ proof = [p \in Proofs |-> NoProof]

-----------------------------------------------------------------------------
(* Reading the rows                                                        *)

\* findDiscordIdentity: the method that x opens
Verified(n, x) == identity[n].status = "verified" /\ identity[n].subject = x

IsMethod(n, u) == identity[n].status = "verified" /\ identity[n].user = u

\* findEmailAccount
IsEmailAccount(e, u, n) ==
  /\ IsMethod(n, u) /\ identity[n].subject = e
  /\ email[e] = [status |-> "active", user |-> u, id |-> n]

\* The index over provider and subject covers the revoked rows as well.
Taken(x) == \E n \in Ids : identity[n].subject = x

IsNew(u) == \A n \in Ids : identity[n].user # u

Vacant(n) == identity[n].status = "absent"

IsAddress(e, u) == email[e].status = "active" /\ email[e].user = u

HasAddress(u) == \E e \in Emails : IsAddress(e, u)

\* The index over addresses covers the revoked rows too, that over users does not.
Unrecorded(e) == email[e].status = "absent"

\* The rows that removeOwnedIdentity locks and counts.
MayRemove(n, u) == IsMethod(n, u) /\ \E m \in Ids \ {n} : IsMethod(m, u)

-----------------------------------------------------------------------------
(* Writing the rows                                                        *)

Linked(n, u, x) ==
  identity' = [identity EXCEPT ![n] = [status |-> "verified", user |-> u,
                                       subject |-> x]]

Recorded(e, u, n) ==
  email' = [email EXCEPT ![e] = [status |-> "active", user |-> u, id |-> n]]

\* Bug for the mutation checks: the address stays when its method goes.
AddressesKept(n) == email

\* The address that belongs to the identity n is revoked with it.
AddressesWithout(n) ==
  [e \in Emails |->
     IF email[e].status = "active" /\ email[e].id = n
     THEN [status |-> "revoked", user |-> email[e].user, id |-> n]
     ELSE email[e]]

\* createEmailAccount, which gives up when the address is known to anybody
CreateEmailAccount(e, u, n) ==
  /\ Unrecorded(e) /\ ~Taken(e) /\ IsNew(u) /\ Vacant(n)
  /\ Linked(n, u, e) /\ Recorded(e, u, n)
  /\ UNCHANGED proof

\* consumeIdentityLinkProof
Consumed(p) ==
  proof' = [proof EXCEPT ![p] = [NoProof EXCEPT !.status = "consumed"]]

Becomes(r, call) == request' = [request EXCEPT ![r] = call]

Offers(op, r) == op \in Offered /\ request[r] = NoCall

-----------------------------------------------------------------------------
(* Signing in                                                              *)

\* normalizeUsableEmail: an address that Discord says it has verified, or none.
UsableEmails == Emails \cup {None}

\* The first statement of signInWithDiscord, for the profile of Discord account x.
SignInDiscord(r, x, e) ==
  /\ Offers("sign-in-discord", r)
  /\ LET call == [NoCall EXCEPT !.op = "sign-in-discord", !.subject = x,
                                !.address = e, !.trusted = (e # None)]
     IN  \/ /\ \A n \in Ids : ~Verified(n, x)
            /\ Becomes(r, [call EXCEPT !.pc = "create"])
         \/ \E n \in Ids :
              /\ Verified(n, x)
              /\ Becomes(r, [call EXCEPT !.pc = "open", !.id = n,
                               !.user = identity[n].user,
                               !.trusted = (e # None \/ HasAddress(identity[n].user))])
  /\ UNCHANGED <<session, rows>>

\* createDiscordAccount: the subject may be taken by now, or revoked long ago;
\* an address that is recorded already fails the transaction (see End).
CreateDiscord(r, u, n) ==
  LET x == request[r].subject
      e == request[r].address
  IN  /\ request[r].pc = "create"
      /\ \/ /\ Taken(x)
            /\ Becomes(r, [request[r] EXCEPT !.pc = "again"])
            /\ UNCHANGED rows
         \/ /\ ~Taken(x) /\ IsNew(u) /\ Vacant(n)
            /\ Linked(n, u, x)
            /\ \/ e = None /\ UNCHANGED email
               \/ e # None /\ Unrecorded(e) /\ Recorded(e, u, n)
            /\ Becomes(r, [request[r] EXCEPT !.pc = "open", !.user = u, !.id = n])
            /\ UNCHANGED proof
      /\ UNCHANGED session

\* After a conflict: whoever won may be found now.
FindAgain(r, n) ==
  /\ request[r].pc = "again" /\ Verified(n, request[r].subject)
  /\ Becomes(r, [request[r] EXCEPT !.pc = "open", !.user = identity[n].user,
                                   !.id = n])
  /\ UNCHANGED <<session, rows>>

\* verifyEmailSignInOtp: the code is completed in one transaction, the session
\* follows later.
SignInEmail(r, e, u, n) ==
  /\ Offers("sign-in-email", r)
  /\ \/ IsEmailAccount(e, u, n) /\ UNCHANGED rows
     \/ CreateEmailAccount(e, u, n)
  /\ Becomes(r, [NoCall EXCEPT !.pc = "open", !.op = "sign-in-email", !.user = u,
                               !.id = n, !.trusted = TRUE])
  /\ UNCHANGED session

\* SessionService.issue or startDeviceSession, a statement of its own: the method
\* that was used is not read again.
Open(r, s) ==
  LET u == request[r].user
      n == request[r].id
  IN  /\ request[r].pc = "open" /\ session[s] = NoSession
      /\ UserUnlocked(u)
      /\ session' = [session EXCEPT ![s] =
                       Issued(u, request[r].trusted, n,
                              IF IsMethod(n, u) THEN "method" ELSE "late")]
      /\ Becomes(r, NoCall)
      /\ UNCHANGED rows

-----------------------------------------------------------------------------
(* Stepping up                                                             *)

\* completeOtpChallenge for a session that is not provisional: the transaction
\* locks it and ends at once.
CompletesOtp(s) == Authenticated(s) /\ Unlocked(s)

\* verifyEmailStepUpOtp
StepUpEmail(r, s) ==
  /\ Offers("step-up-email", r)
  /\ CompletesOtp(s)
  /\ session' = Refreshed(s)
  /\ UNCHANGED <<request, rows>>

\* createOAuthTransaction: a link wants a fresh session, a step-up a live one.
MayStart(op, s) ==
  Authenticated(s) /\ (op = "link-start" => HasFreshStepUp(s))

\* OAuthService.start for a session
Redirect(r, s) ==
  \E op \in {"step-up-discord", "link-start"} :
    /\ Offers(op, r)
    /\ MayStart(op, s)
    /\ Becomes(r, [NoCall EXCEPT !.pc = "redirected", !.op = op,
                     !.user = session[s].user, !.session = s])
    /\ UNCHANGED <<session, rows>>

\* OAuthService.callback: the transaction is consumed for the session it was
\* started for, and the provider is asked for the profile.
Callback(r, op) ==
  /\ request[r].pc = "redirected" /\ request[r].op = op
  /\ Authenticated(request[r].session)

\* completeCallback of a step-up: assertDiscordIdentity ...
AssertDiscord(r, n, x) ==
  /\ Callback(r, "step-up-discord")
  /\ IsMethod(n, request[r].user) /\ identity[n].subject = x
  /\ Becomes(r, [request[r] EXCEPT !.pc = "mark"])
  /\ UNCHANGED <<session, rows>>

\* ... and markSessionStepUp, in a statement of its own.
Mark(r) ==
  LET s == request[r].session
  IN  /\ request[r].pc = "mark" /\ IsLive(s, request[r].user) /\ Unlocked(s)
      /\ session' = Refreshed(s)
      /\ Becomes(r, NoCall)
      /\ UNCHANGED rows

\* completeCallback of a link: createIdentityLinkProof for Discord account x.
ProveDiscord(r, p, x) ==
  LET s == request[r].session
      u == request[r].user
  IN  /\ Callback(r, "link-start") /\ Unlocked(s) /\ UserUnlocked(u)
      /\ proof[p] = NoProof
      /\ proof' = [proof EXCEPT ![p] = [status |-> "open", user |-> u,
                                        session |-> s, subject |-> x]]
      /\ Becomes(r, NoCall)
      /\ UNCHANGED <<session, identity, email>>

-----------------------------------------------------------------------------
(* Changing the methods of an account: the checks before the transaction   *)

Change(r, op, s) ==
  [NoCall EXCEPT !.pc = "lock", !.op = op, !.user = session[s].user, !.session = s]

\* Bug for the mutation checks: a proof serves any session.
IsOpenAnywhere(p, s) == proof[p].status = "open"

\* findPendingIdentityLink, lockAndValidateProof
IsOpen(p, s) ==
  proof[p].status = "open" /\ proof[p].session = s /\ proof[p].user = session[s].user

\* confirmIdentityLink: hasFreshStepUp and findPendingLink.
BeginLinkDiscord(r, s, p) ==
  /\ Offers("link-discord", r)
  /\ HasFreshStepUp(s) /\ IsOpen(p, s)
  /\ Becomes(r, [Change(r, "link-discord", s) EXCEPT !.subject = proof[p].subject,
                                                     !.proof = p])
  /\ UNCHANGED <<session, rows>>

\* completeOtpChallenge writes the proof of the address e; applyEmailSecurityChange
\* goes on with it.
BeginEmail(r, s, e, n) ==
  \E op \in {"link-email", "change-email"} :
    /\ Offers(op, r)
    /\ CompletesOtp(s)
    /\ IF op = "link-email" THEN n = None
       ELSE n # None /\ IsMethod(n, session[s].user)
    /\ Becomes(r, [Change(r, op, s) EXCEPT !.subject = e, !.address = e, !.id = n])
    /\ UNCHANGED <<session, rows>>

\* verifyProvisionalEmailOtp
BeginPromote(r, s, e) ==
  /\ Offers("promote", r)
  /\ HasSession(s) /\ ~session[s].trusted
  /\ Becomes(r, [Change(r, "promote", s) EXCEPT !.subject = e, !.address = e])
  /\ UNCHANGED <<session, rows>>

\* Bug for the mutation checks: the methods are counted, and nothing is locked.
BeginRemoveUnlocked(r, s, n) ==
  /\ Offers("remove", r)
  /\ HasFreshStepUp(s) /\ MayRemove(n, session[s].user)
  /\ Becomes(r, [Change(r, "remove", s) EXCEPT !.pc = "locked", !.id = n])
  /\ UNCHANGED <<session, rows>>

\* removeIdentity
BeginRemove(r, s, n) ==
  /\ Offers("remove", r)
  /\ HasFreshStepUp(s) /\ IsMethod(n, session[s].user)
  /\ Becomes(r, [Change(r, "remove", s) EXCEPT !.pc = "user", !.id = n])
  /\ UNCHANGED <<session, rows>>

-----------------------------------------------------------------------------
(* ... and inside it                                                       *)

LockUser(r) ==
  /\ request[r].pc = "user" /\ UserUnlocked(request[r].user)
  /\ Becomes(r, [request[r] EXCEPT !.pc = "lock"])
  /\ UNCHANGED <<session, rows>>

\* lockActiveSessionForOtp; a promotion wants the session still provisional, and a
\* removal now counts the methods: it does not look again when it removes one.
Lock(r) ==
  LET s == request[r].session
      u == request[r].user
  IN  /\ request[r].pc = "lock" /\ IsLive(s, u) /\ Unlocked(s)
      /\ request[r].op = "promote" => ~session[s].trusted
      /\ request[r].op = "remove" => MayRemove(request[r].id, u)
      /\ Becomes(r, [request[r] EXCEPT !.pc = "locked"])
      /\ UNCHANGED <<session, rows>>

\* The last statement ends the other sessions of the user and waits for their
\* locks; a row that refers to the user waits for a removal.
Waits(r, q) ==
  /\ q # r /\ request[q].user = request[r].user
  /\ \/ request[q].pc = "locked" /\ request[q].session # request[r].session
     \/ request[r].op \in {"link-discord", "link-email", "promote"}
        /\ HoldsUser(q, request[r].user)

\* The rest of every such transaction: rotateIdentitySession, revokeOtherSessions.
Commits(r, op) ==
  LET s == request[r].session
      u == request[r].user
  IN  /\ request[r].pc = "locked" /\ request[r].op = op
      /\ \A q \in Requests : ~Waits(r, q)
      /\ IsLive(s, u)
      /\ session' = Secured(s, u, TrustAfter(s, op))
      /\ Becomes(r, NoCall)

\* executeIdentitySecurityChange for a Discord account: lockAndValidateProof and
\* consumeIdentityLinkProof see the proof again.
LinkDiscord(r, n) ==
  LET p == request[r].proof
      x == request[r].subject
  IN  /\ Commits(r, "link-discord")
      /\ IsOpen(p, request[r].session) /\ Consumed(p)
      /\ Vacant(n) /\ ~Taken(x)
      /\ Linked(n, request[r].user, x)
      /\ UNCHANGED email

\* ... and for an address: the user must not have one.
LinkEmail(r, n) ==
  LET u == request[r].user
      e == request[r].address
  IN  /\ Commits(r, "link-email")
      /\ Vacant(n) /\ ~Taken(e) /\ Unrecorded(e) /\ ~HasAddress(u)
      /\ Linked(n, u, e) /\ Recorded(e, u, n)
      /\ UNCHANGED proof

\* ... and for another address: both rows move to it.
ChangeEmail(r, old) ==
  LET u == request[r].user
      n == request[r].id
      e == request[r].address
  IN  /\ Commits(r, "change-email")
      /\ IsMethod(n, u) /\ identity[n].subject \in Emails
      /\ IsAddress(old, u) /\ email[old].id = n
      /\ e = old \/ (Unrecorded(e) /\ ~Taken(e))
      /\ Linked(n, u, e)
      /\ email' = [a \in Emails |->
                     IF a = e THEN [status |-> "active", user |-> u, id |-> n]
                     ELSE IF a = old THEN NoEmail ELSE email[a]]
      /\ UNCHANGED proof

\* linkVerifiedEmailToActor and promoteProvisionalSessionTrust
Promote(r, n) ==
  LET u == request[r].user
      e == request[r].address
      mine == [status |-> "active", user |-> u, id |-> n]
  IN  /\ Commits(r, "promote")
      /\ ~session[request[r].session].trusted
      /\ \/ IsMethod(n, u) /\ identity[n].subject = e /\ UNCHANGED identity
         \/ Vacant(n) /\ ~Taken(e) /\ Linked(n, u, e)
      /\ \/ email[e] = mine /\ UNCHANGED email
         \/ Unrecorded(e) /\ ~HasAddress(u) /\ Recorded(e, u, n)
      /\ UNCHANGED proof

\* removeOwnedIdentity, after the count: only the row itself is asked for again.
Remove(r) ==
  LET u == request[r].user
      n == request[r].id
  IN  /\ Commits(r, "remove")
      /\ IsMethod(n, u)
      /\ identity' = [identity EXCEPT ![n] = [identity[n] EXCEPT !.status = "revoked"]]
      /\ email' = AddressesWithout(n)
      /\ UNCHANGED proof

\* The request ends without a further effect: it is rejected, its transaction fails
\* or is the one PostgreSQL aborts in a deadlock, or its process dies.
End(r) ==
  /\ request[r] # NoCall
  /\ Becomes(r, NoCall)
  /\ UNCHANGED <<session, rows>>

-----------------------------------------------------------------------------
SignIn(r) ==
  \/ \E x \in Discords, e \in UsableEmails : SignInDiscord(r, x, e)
  \/ \E u \in Users, n \in Ids : CreateDiscord(r, u, n)
  \/ \E n \in Ids : FindAgain(r, n)
  \/ \E e \in Emails, u \in Users, n \in Ids : SignInEmail(r, e, u, n)
  \/ \E s \in Sessions : Open(r, s)

StepUp(r) ==
  \/ \E s \in Sessions : StepUpEmail(r, s)
  \/ \E s \in Sessions : Redirect(r, s)
  \/ \E n \in Ids, x \in Discords : AssertDiscord(r, n, x)
  \/ Mark(r)
  \/ \E p \in Proofs, x \in Discords : ProveDiscord(r, p, x)

Begin(r) ==
  \/ \E s \in Sessions, p \in Proofs : BeginLinkDiscord(r, s, p)
  \/ \E s \in Sessions, e \in Emails, n \in Ids \cup {None} : BeginEmail(r, s, e, n)
  \/ \E s \in Sessions, e \in Emails : BeginPromote(r, s, e)
  \/ \E s \in Sessions, n \in Ids : BeginRemove(r, s, n)

Commit(r) ==
  \/ \E n \in Ids : LinkDiscord(r, n)
  \/ \E n \in Ids : LinkEmail(r, n)
  \/ \E old \in Emails : ChangeEmail(r, old)
  \/ \E n \in Ids : Promote(r, n)
  \/ Remove(r)

Sessionwise ==
  \/ \E s, t \in Sessions : Revoke(s, t)
  \/ \E s \in Sessions : RevokeOthers(s)
  \/ \E s \in Sessions : Lapse(s)
  \/ \E s \in Sessions : Expire(s)

Next ==
  \/ \E r \in Requests :
       SignIn(r) \/ StepUp(r) \/ Begin(r) \/ LockUser(r) \/ Lock(r) \/ Commit(r) \/ End(r)
  \/ Sessionwise /\ UNCHANGED rows

Spec == Init /\ [][Next]_vars

-----------------------------------------------------------------------------
(* Properties                                                              *)

\* The type of the rows, and the meaning of a lock: while a request has a session
\* locked, that session stays open, is the requester's, and nobody else has it.
TypeOK ==
  /\ session \in [Sessions -> SessionRows]
  /\ request \in [Requests -> Calls]
  /\ identity \in [Ids -> IdentityRows]
  /\ email \in [Emails -> EmailRows]
  /\ proof \in [Proofs -> ProofRows]
  /\ \A r \in Requests :
       request[r].pc = "locked" =>
         /\ IsLive(request[r].session, request[r].user)
         /\ \A q \in Requests \ {r} : ~Holds(q, request[r].session)

\* Identities and addresses tell one story, whatever order linking, exchanging,
\* promoting and removing come in: a subject has one row; an address in use belongs
\* to a verified identity of the same account, to one named after it where that is
\* an address identity; every verified address identity has its address in use; and
\* an account has one address at most.
MethodsConsistent ==
  /\ \A m, n \in Ids :
       identity[m].subject # None /\ identity[m].subject = identity[n].subject => m = n
  /\ \A e \in Emails : email[e].status = "active" =>
       /\ email[e].id # None /\ IsMethod(email[e].id, email[e].user)
       /\ identity[email[e].id].subject \in Emails => identity[email[e].id].subject = e
  /\ \A n \in Ids : identity[n].status = "verified" /\ identity[n].subject \in Emails =>
       email[identity[n].subject] =
         [status |-> "active", user |-> identity[n].user, id |-> n]
  /\ \A a, b \in Emails : email[a].status = "active" /\ email[b].status = "active"
                            /\ email[a].user = email[b].user => a = b

\* A session that is open and was opened with a method of its user still has that
\* method: taking the method away ended it, wherever it was open.
SessionsHaveTheirMethod ==
  \A s \in Sessions :
    session[s].status = "live" /\ session[s].how = "method" =>
      IsMethod(session[s].via, session[s].user)

\* The methods of an account that exists change only in the hands of one of its
\* open sessions, and that one, now reauthenticated, is the only one left open.
ChangedByALiveSession ==
  [][\A n \in Ids, u \in Users :
       identity'[n] # identity[n] /\ u = identity'[n].user /\ ~IsNew(u) =>
         \E s \in Sessions :
           IsLive(s, u) /\ LiveOf(u)' = {s} /\ session'[s].fresh]_vars

\* Nobody is locked out: whoever has an open session, the sign-in that is about to
\* open one included, still has a method to come back with.
HasMethod(u) == \E n \in Ids : IsMethod(n, u)

WaysBackIn ==
  /\ \A s \in Sessions : HasSession(s) => HasMethod(session[s].user)
  /\ \A r \in Requests : request[r].pc = "open" => HasMethod(request[r].user)

\* A session that ended stays as it is; one that is open never passes to another
\* user and never loses its trust, and when it gains trust (a promotion) its user
\* has a verified address from then on.
OneSessionOneUser ==
  [][\A s \in Sessions :
       /\ session[s].status = "closed" => session'[s] = session[s]
       /\ HasSession(s) /\ HasSession(s)' =>
            /\ session'[s].user = session[s].user
            /\ session[s].trusted => session'[s].trusted
            /\ session'[s].trusted /\ ~session[s].trusted =>
                 HasAddress(session[s].user)']_vars

\* An account that exists gets a Discord method only for a proof of that very Discord
\* account, open for its user and for the open session that asks for the link, and
\* the link uses the proof up, for good.
LinkedForAProof ==
  [][/\ \A n \in Ids, u \in Users, x \in Discords :
          Vacant(n) /\ Verified(n, x)' /\ IsMethod(n, u)' /\ ~IsNew(u) =>
            \E p \in Proofs :
              /\ proof[p].status = "open" /\ proof[p].subject = x
              /\ proof[p].user = u /\ IsLive(proof[p].session, u)
              /\ LiveOf(u)' = {proof[p].session}
              /\ proof'[p].status = "consumed"
     /\ \A p \in Proofs : proof[p].status = "consumed" => proof'[p] = proof[p]]_vars

\* Every step is one of Custody: no method has two holders, none that was removed
\* comes back, and nobody who ever had one loses the last.
holder ==
  [x \in Subjects |->
     IF \E n \in Ids : Verified(n, x)
     THEN identity[CHOOSE n \in Ids : Verified(n, x)].user ELSE None]

retired == {x \in Subjects : \E n \in Ids : identity[n].status = "revoked"
                                             /\ identity[n].subject = x}

Custodian == INSTANCE Custody WITH Methods <- Subjects, Persons <- Users,
                                   Nobody <- None

ImplementsCustody == Custodian!Spec

=============================================================================
