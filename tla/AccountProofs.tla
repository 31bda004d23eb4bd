---------------------------- MODULE AccountProofs ---------------------------
(***************************************************************************)
(* Proofs about Account for any number of users, methods, sessions,        *)
(* requests in flight and proofs, and whichever operations are offered.    *)
(***************************************************************************)
EXTENDS Account, TLAPS

\* What a request still needs from the slot at each of its steps.
GoodCall(c) ==
  /\ c \in Calls
  /\ c.pc \in {"create", "again"} => c.subject \in Discords
  /\ c.pc = "open" => c.user \in Users /\ c.id \in Ids
  /\ c.pc \in {"redirected", "mark"} => c.session \in Sessions /\ c.user \in Users
  /\ c.pc \in {"user", "lock", "locked"} =>
       /\ c.user \in Users /\ c.session \in Sessions
       /\ c.op = "link-discord" => c.subject \in Discords /\ c.proof \in Proofs
       /\ c.op \in {"link-email", "change-email", "promote"} => c.address \in Emails
       /\ c.op \in {"change-email", "remove"} => c.id \in Ids

CallsInv ==
  /\ request \in [Requests -> Calls]
  /\ \A r \in Requests : GoodCall(request[r])

SessionsInv ==
  /\ session \in [Sessions -> SessionRows]
  /\ \A s \in Sessions : session[s].status = "live" =>
       /\ session[s].user \in Users
       /\ session[s].how = "method" => session[s].via \in Ids

LocksInv ==
  \A r \in Requests :
    request[r].pc = "locked" =>
      /\ IsLive(request[r].session, request[r].user)
      /\ \A q \in Requests \ {r} : ~Holds(q, request[r].session)

\* What a removal counted when it had its locks is so until it ends.
CountsInv ==
  \A r \in Requests :
    request[r].pc = "locked" /\ request[r].op = "remove" =>
      MayRemove(request[r].id, request[r].user)

RowsInv ==
  /\ identity \in [Ids -> IdentityRows]
  /\ email \in [Emails -> EmailRows]
  /\ \A n \in Ids :
       /\ identity[n].status = "absent" =>
            identity[n].subject = None /\ identity[n].user = None
       /\ identity[n].status # "absent" =>
            identity[n].subject \in Subjects /\ identity[n].user \in Users

ProofsInv ==
  /\ proof \in [Proofs -> ProofRows]
  /\ \A p \in Proofs : proof[p].status = "open" => proof[p].subject \in Discords

IInv ==
  CallsInv /\ SessionsInv /\ LocksInv /\ CountsInv /\ RowsInv /\ ProofsInv /\ MethodsConsistent
    /\ SessionsHaveTheirMethod

CustodyStep == [Custodian!Next]_(Custodian!vars)

\* The methods of an account that exists change only in its session's hands.
InHands ==
  \A n \in Ids, u \in Users :
    identity'[n] # identity[n] /\ u = identity'[n].user /\ ~IsNew(u) =>
      \E s \in Sessions :
        IsLive(s, u) /\ LiveOf(u)' = {s} /\ session'[s].fresh

Promise == IInv' /\ InHands /\ CustodyStep

-----------------------------------------------------------------------------
(* Calls                                                                   *)

LEMMA NoCallGood ==
  /\ GoodCall(NoCall) /\ NoCall \in Calls /\ NoCall.pc = "idle" /\ NoCall.op = "none"
  /\ NoCall.user = None
BY DEF NoCall, GoodCall, Calls

\* The request is at a step that needs nothing more.
LEMMA MovedCall ==
  ASSUME NEW c \in Calls, NEW pc \in {"create", "again", "mark", "lock", "locked", "user"}
  PROVE  /\ [c EXCEPT !.pc = pc] \in Calls /\ [c EXCEPT !.pc = pc].pc = pc
         /\ [c EXCEPT !.pc = pc].op = c.op /\ [c EXCEPT !.pc = pc].user = c.user
         /\ [c EXCEPT !.pc = pc].session = c.session /\ [c EXCEPT !.pc = pc].id = c.id
         /\ [c EXCEPT !.pc = pc].subject = c.subject /\ [c EXCEPT !.pc = pc].proof = c.proof
         /\ [c EXCEPT !.pc = pc].address = c.address
BY DEF Calls

LEMMA OpenCall ==
  ASSUME NEW c \in Calls, NEW u \in Users, NEW n \in Ids
  PROVE  /\ GoodCall([c EXCEPT !.pc = "open", !.user = u, !.id = n])
         /\ [c EXCEPT !.pc = "open", !.user = u, !.id = n].pc = "open"
BY DEF GoodCall, Calls

DiscordCall(x, e, t) ==
  [NoCall EXCEPT !.op = "sign-in-discord", !.subject = x, !.address = e, !.trusted = t]

LEMMA DiscordCallGood ==
  ASSUME NEW x \in Discords, NEW e \in UsableEmails, NEW t \in BOOLEAN
  PROVE  DiscordCall(x, e, t) \in Calls /\ DiscordCall(x, e, t).subject = x
<1> DEFINE a == [NoCall EXCEPT !.op = "sign-in-discord", !.subject = x, !.address = e]
<1>0. x \in Subjects /\ e \in Emails \cup {None} /\ "sign-in-discord" \in Operations
  BY DEF Subjects, UsableEmails, Operations
<1>1. a \in Calls /\ a.subject = x
  BY <1>0, NoCallGood DEF Calls
<1>2. DiscordCall(x, e, t) = [a EXCEPT !.trusted = t]
  BY DEF DiscordCall
<1> HIDE DEF a
<1> QED
  BY <1>1, <1>2 DEF Calls

\* The call of a request that Discord has answered, whether or not its address is
\* verified.
LEMMA SignedInCall ==
  ASSUME NEW x \in Discords, NEW e \in UsableEmails
  PROVE  /\ DiscordCall(x, e, (e # None)) \in Calls
         /\ DiscordCall(x, e, (e # None)).subject = x
<1>1. (e # None) \in BOOLEAN
  OBVIOUS
<1> QED
  BY <1>1, DiscordCallGood, Zenon

LEMMA TrustedCall ==
  ASSUME NEW c \in Calls, NEW n \in Ids, NEW u \in Users, NEW t \in BOOLEAN
  PROVE  /\ GoodCall([c EXCEPT !.pc = "open", !.id = n, !.user = u, !.trusted = t])
         /\ [c EXCEPT !.pc = "open", !.id = n, !.user = u, !.trusted = t].pc = "open"
<1> DEFINE a == [c EXCEPT !.pc = "open", !.id = n, !.user = u]
           b == [c EXCEPT !.pc = "open", !.id = n, !.user = u, !.trusted = t]
<1>1. a \in Calls /\ a.pc = "open" /\ a.id = n /\ a.user = u
  BY DEF Calls
<1>2. b = [a EXCEPT !.trusted = t]
  OBVIOUS
<1> HIDE DEF a, b
<1>3. b \in Calls /\ b.pc = "open" /\ b.id = n /\ b.user = u
  BY <1>1, <1>2 DEF Calls
<1>4. GoodCall(b) /\ b.pc = "open"
  BY <1>3 DEF GoodCall
<1> QED
  BY <1>4 DEF b

LEMMA EmailCall ==
  ASSUME NEW u \in Users, NEW n \in Ids
  PROVE  /\ GoodCall([NoCall EXCEPT !.pc = "open", !.op = "sign-in-email", !.user = u,
                                    !.id = n, !.trusted = TRUE])
         /\ [NoCall EXCEPT !.pc = "open", !.op = "sign-in-email", !.user = u,
                           !.id = n, !.trusted = TRUE].pc = "open"
<1> DEFINE a == [NoCall EXCEPT !.pc = "open", !.op = "sign-in-email", !.user = u]
           b == [NoCall EXCEPT !.pc = "open", !.op = "sign-in-email", !.user = u,
                               !.id = n, !.trusted = TRUE]
<1>1. a \in Calls /\ a.pc = "open" /\ a.user = u
  BY NoCallGood DEF Calls, Operations
<1>2. b = [a EXCEPT !.id = n, !.trusted = TRUE]
  OBVIOUS
<1> HIDE DEF a, b
<1>3. b \in Calls /\ b.pc = "open" /\ b.id = n /\ b.user = u
  BY <1>1, <1>2 DEF Calls
<1>4. GoodCall(b) /\ b.pc = "open"
  BY <1>3 DEF GoodCall
<1> QED
  BY <1>4 DEF b

\* A call made for a session, at step pc.
SessionCall(pc, op, u, s) ==
  [NoCall EXCEPT !.pc = pc, !.op = op, !.user = u, !.session = s]

LEMMA SessionCallFields ==
  ASSUME NEW pc \in {"redirected", "lock"}, NEW op \in Operations,
         NEW u \in Users, NEW s \in Sessions
  PROVE  /\ SessionCall(pc, op, u, s) \in Calls
         /\ SessionCall(pc, op, u, s).pc = pc /\ SessionCall(pc, op, u, s).op = op
         /\ SessionCall(pc, op, u, s).user = u /\ SessionCall(pc, op, u, s).session = s
<1> DEFINE a == [NoCall EXCEPT !.pc = pc, !.op = op]
           b == SessionCall(pc, op, u, s)
<1>1. a \in Calls /\ a.pc = pc /\ a.op = op
  BY NoCallGood DEF Calls
<1>2. b = [a EXCEPT !.user = u, !.session = s]
  BY DEF SessionCall
<1> HIDE DEF a, b
<1>3. b \in Calls /\ b.pc = pc /\ b.op = op /\ b.user = u /\ b.session = s
  BY <1>1, <1>2 DEF Calls
<1> QED
  BY <1>3 DEF b

-----------------------------------------------------------------------------
(* Requests, sessions and locks                                            *)

LEMMA CallsKept ==
  ASSUME CallsInv, NEW r \in Requests, NEW c, GoodCall(c), Becomes(r, c)
  PROVE  /\ CallsInv'
         /\ request'[r] = c /\ \A q \in Requests \ {r} : request'[q] = request[q]
<1>1. c \in Calls
  BY DEF GoodCall
<1>2. /\ request' \in [Requests -> Calls]
      /\ request'[r] = c /\ \A q \in Requests \ {r} : request'[q] = request[q]
  BY <1>1 DEF CallsInv, Becomes
<1>3. \A q \in Requests : GoodCall(request'[q])
  BY <1>2 DEF CallsInv
<1> QED
  BY <1>2, <1>3 DEF CallsInv

\* Whoever has a session locked, except r, has it live and his own afterwards.
HeldBut(r) ==
  \A q \in Requests \ {r} :
    request[q].pc = "locked" =>
      /\ session'[request[q].session].status = "live"
      /\ session'[request[q].session].user = request[q].user

LEMMA LocksKept ==
  ASSUME LocksInv, NEW r \in Requests, request'[r].pc # "locked",
         \A q \in Requests \ {r} : request'[q] = request[q], HeldBut(r)
  PROVE  LocksInv'
<1> SUFFICES ASSUME NEW q \in Requests, request'[q].pc = "locked"
             PROVE  /\ session'[request'[q].session].status = "live"
                    /\ session'[request'[q].session].user = request'[q].user
                    /\ \A p \in Requests \ {q} :
                         ~(request'[p].pc = "locked"
                             /\ request'[p].session = request'[q].session)
  BY DEF LocksInv, IsLive, Holds
<1>1. q # r /\ request'[q] = request[q]
  OBVIOUS
<1>2. ASSUME NEW p \in Requests \ {q}, request'[p].pc = "locked",
             request'[p].session = request'[q].session
      PROVE  FALSE
  <2>1. p # r /\ request'[p] = request[p]
    BY <1>2
  <2> QED
    BY <1>1, <1>2, <2>1 DEF LocksInv, Holds
<1> QED
  BY <1>1, <1>2 DEF HeldBut

\* The same when no request moves.
LEMMA LocksOfSessions ==
  ASSUME LocksInv, UNCHANGED request,
         \A q \in Requests :
           request[q].pc = "locked" =>
             /\ session'[request[q].session].status = "live"
             /\ session'[request[q].session].user = request[q].user
  PROVE  LocksInv'
<1> SUFFICES ASSUME NEW q \in Requests, request'[q].pc = "locked"
             PROVE  /\ session'[request'[q].session].status = "live"
                    /\ session'[request'[q].session].user = request'[q].user
                    /\ \A p \in Requests \ {q} :
                         ~(request'[p].pc = "locked"
                             /\ request'[p].session = request'[q].session)
  BY DEF LocksInv, IsLive, Holds
<1> QED
  BY DEF LocksInv, Holds

\* Sessions that nothing happens to are held as before.
LEMMA HeldUnchanged ==
  ASSUME LocksInv, NEW r, UNCHANGED session
  PROVE  HeldBut(r)
BY DEF LocksInv, HeldBut, IsLive

\* The methods of those who have a session locked, r apart.
MethodsBut(r) ==
  \A q \in Requests \ {r}, n \in Ids :
    request[q].pc = "locked" /\ identity[n].status = "verified"
      /\ identity[n].user = request[q].user => identity'[n] = identity[n]

LEMMA CountsKept ==
  ASSUME CallsInv, CountsInv, NEW r \in Requests, request'[r].pc # "locked",
         \A q \in Requests \ {r} : request'[q] = request[q], MethodsBut(r)
  PROVE  CountsInv'
<1> SUFFICES ASSUME NEW q \in Requests, request'[q].pc = "locked",
                    request'[q].op = "remove"
             PROVE  \E m \in Ids \ {request'[q].id} :
                      \A k \in {request'[q].id, m} :
                        /\ identity'[k].status = "verified"
                        /\ identity'[k].user = request'[q].user
  BY DEF CountsInv, MayRemove, IsMethod
<1>1. q # r /\ request'[q] = request[q]
  OBVIOUS
<1>2. request[q].id \in Ids
  BY <1>1 DEF CallsInv, GoodCall
<1>3. PICK m \in Ids \ {request[q].id} :
        \A k \in {request[q].id, m} :
          identity[k].status = "verified" /\ identity[k].user = request[q].user
  BY <1>1 DEF CountsInv, MayRemove, IsMethod
<1>4. \A k \in {request[q].id, m} : identity'[k] = identity[k]
  BY <1>1, <1>2, <1>3 DEF MethodsBut
<1> QED
  BY <1>1, <1>3, <1>4

LEMMA CountsUnchanged ==
  ASSUME CountsInv, UNCHANGED <<request, identity>>
  PROVE  CountsInv'
BY DEF CountsInv, MayRemove, IsMethod

LEMMA SessionsUnchanged ==
  ASSUME SessionsInv, UNCHANGED session
  PROVE  SessionsInv'
BY DEF SessionsInv

LEMMA RowsUnchanged ==
  ASSUME RowsInv, ProofsInv, MethodsConsistent, UNCHANGED rows
  PROVE  RowsInv' /\ ProofsInv' /\ MethodsConsistent' /\ InHands /\ CustodyStep
<1>1. identity' = identity /\ email' = email /\ proof' = proof
  BY DEF rows
<1>2. UNCHANGED Custodian!vars
  BY <1>1 DEF Custodian!vars, holder, retired, Verified
<1>3. RowsInv' /\ ProofsInv'
  BY <1>1 DEF RowsInv, ProofsInv
<1>4. MethodsConsistent'
  BY <1>1 DEF MethodsConsistent, IsMethod
<1>5. InHands
  BY <1>1 DEF InHands
<1> QED
  BY <1>2, <1>3, <1>4, <1>5 DEF CustodyStep

\* The sessions that stay, stay in the hands of the same user with the same history.
Continued ==
  \A s \in Sessions : session'[s].status = "live" =>
    \/ /\ session[s].status = "live" /\ session'[s].user = session[s].user
       /\ session'[s].how = session[s].how /\ session'[s].via = session[s].via
    \/ session'[s].how # "method"

LEMMA MethodsOfSessionsKept ==
  ASSUME SessionsHaveTheirMethod, Continued, UNCHANGED identity
  PROVE  SessionsHaveTheirMethod'
BY DEF SessionsHaveTheirMethod, Continued, IsMethod

\* A request takes a step that reads only.
LEMMA RequestStep ==
  ASSUME IInv, NEW r \in Requests, NEW c, GoodCall(c), c.pc # "locked",
         Becomes(r, c), UNCHANGED <<session, rows>>
  PROVE  Promise
<1>1. CallsInv' /\ request'[r] = c /\ \A q \in Requests \ {r} : request'[q] = request[q]
  BY CallsKept DEF IInv
<1>2. LocksInv'
  BY <1>1, LocksKept, HeldUnchanged DEF IInv
<1>3. SessionsInv'
  BY SessionsUnchanged DEF IInv
<1>4. RowsInv' /\ ProofsInv' /\ MethodsConsistent' /\ InHands /\ CustodyStep
  BY RowsUnchanged DEF IInv
<1>5. SessionsHaveTheirMethod'
  BY DEF IInv, SessionsHaveTheirMethod, IsMethod, rows
<1>6. CountsInv'
  BY <1>1, CountsKept DEF IInv, MethodsBut, rows
<1> QED
  BY <1>1, <1>2, <1>3, <1>4, <1>5, <1>6 DEF IInv, Promise

-----------------------------------------------------------------------------
(* Requests that read                                                      *)

LEMMA MethodHasUser ==
  ASSUME RowsInv, NEW n \in Ids, identity[n].status = "verified"
  PROVE  identity[n].user \in Users /\ identity[n].subject \in Subjects
BY DEF RowsInv

LEMMA SignInDiscordStep ==
  ASSUME IInv, NEW r \in Requests, NEW x \in Discords, NEW e \in UsableEmails,
         SignInDiscord(r, x, e)
  PROVE  Promise
<1> DEFINE call == DiscordCall(x, e, (e # None))
<1>1. call \in Calls /\ call.subject = x
  BY SignedInCall
<1>2. /\ \/ Becomes(r, [call EXCEPT !.pc = "create"])
         \/ \E n \in Ids :
              /\ Verified(n, x)
              /\ Becomes(r, [call EXCEPT !.pc = "open", !.id = n,
                               !.user = identity[n].user,
                               !.trusted = (e # None \/ HasAddress(identity[n].user))])
      /\ UNCHANGED <<session, rows>>
  BY DEF SignInDiscord, DiscordCall
<1> HIDE DEF call
<1>3. CASE Becomes(r, [call EXCEPT !.pc = "create"])
  <2>1. /\ GoodCall([call EXCEPT !.pc = "create"])
        /\ [call EXCEPT !.pc = "create"].pc = "create"
    BY <1>1, MovedCall DEF GoodCall
  <2> QED
    BY <1>2, <1>3, <2>1, RequestStep
<1>4. ASSUME NEW n \in Ids, Verified(n, x),
             Becomes(r, [call EXCEPT !.pc = "open", !.id = n, !.user = identity[n].user,
                               !.trusted = (e # None \/ HasAddress(identity[n].user))])
      PROVE  Promise
  <2>1. identity[n].user \in Users
    BY <1>4, MethodHasUser DEF Verified, IInv
  <2>2. PICK u \in Users : u = identity[n].user
    BY <2>1
  <2>3. (e # None \/ HasAddress(identity[n].user)) \in BOOLEAN
    OBVIOUS
  <2>4. PICK t \in BOOLEAN : t = (e # None \/ HasAddress(identity[n].user))
    BY <2>3, Zenon
  <2>5. Becomes(r, [call EXCEPT !.pc = "open", !.id = n, !.user = u, !.trusted = t])
    BY <1>4, <2>2, <2>4, Zenon
  <2>6. /\ GoodCall([call EXCEPT !.pc = "open", !.id = n, !.user = u, !.trusted = t])
        /\ [call EXCEPT !.pc = "open", !.id = n, !.user = u, !.trusted = t].pc = "open"
    BY <1>1, TrustedCall
  <2> QED
    BY <1>2, <2>5, <2>6, RequestStep
<1> QED
  BY <1>2, <1>3, <1>4

LEMMA GoodRequest ==
  ASSUME IInv, NEW r \in Requests
  PROVE  request[r] \in Calls /\ GoodCall(request[r])
BY DEF IInv, CallsInv

LEMMA FindAgainStep ==
  ASSUME IInv, NEW r \in Requests, NEW n \in Ids, FindAgain(r, n)
  PROVE  Promise
<1>1. identity[n].user \in Users
  BY MethodHasUser DEF FindAgain, Verified, IInv
<1>2. PICK u \in Users : u = identity[n].user
  BY <1>1
<1> DEFINE c == [request[r] EXCEPT !.pc = "open", !.user = u, !.id = n]
<1>3. GoodCall(c) /\ c.pc = "open"
  BY GoodRequest, OpenCall
<1>4. Becomes(r, c) /\ UNCHANGED <<session, rows>>
  BY <1>2 DEF FindAgain
<1> HIDE DEF c
<1> QED
  BY <1>3, <1>4, RequestStep

LEMMA LiveHasUser ==
  ASSUME SessionsInv, NEW s \in Sessions, session[s].status = "live"
  PROVE  session[s].user \in Users
BY DEF SessionsInv

LEMMA RedirectStep ==
  ASSUME IInv, NEW r \in Requests, NEW s \in Sessions, Redirect(r, s)
  PROVE  Promise
<1>1. PICK op \in {"step-up-discord", "link-start"} :
        /\ MayStart(op, s)
        /\ Becomes(r, SessionCall("redirected", op, session[s].user, s))
        /\ UNCHANGED <<session, rows>>
  BY DEF Redirect, SessionCall
<1>2. PICK u \in Users : u = session[s].user
  BY <1>1, LiveHasUser DEF MayStart, Authenticated, HasSession, IInv
<1>3. op \in Operations
  BY DEF Operations
<1>4. /\ SessionCall("redirected", op, u, s).pc = "redirected"
      /\ GoodCall(SessionCall("redirected", op, u, s))
  BY <1>3, SessionCallFields DEF GoodCall
<1>5. Becomes(r, SessionCall("redirected", op, u, s))
  BY <1>1, <1>2
<1> QED
  BY <1>1, <1>4, <1>5, RequestStep

LEMMA AssertDiscordStep ==
  ASSUME IInv, NEW r \in Requests, NEW n \in Ids, NEW x \in Discords,
         AssertDiscord(r, n, x)
  PROVE  Promise
<1>1. /\ GoodCall([request[r] EXCEPT !.pc = "mark"])
      /\ [request[r] EXCEPT !.pc = "mark"].pc = "mark"
  BY GoodRequest, MovedCall DEF AssertDiscord, Callback, GoodCall
<1> QED
  BY <1>1, RequestStep DEF AssertDiscord

\* Between the checks and the lock the slot needs the same.
LEMMA SlotKept ==
  ASSUME NEW c \in Calls, GoodCall(c), c.pc \in {"user", "lock"},
         NEW pc \in {"lock", "locked"}
  PROVE  /\ GoodCall([c EXCEPT !.pc = pc]) /\ [c EXCEPT !.pc = pc].pc = pc
         /\ [c EXCEPT !.pc = pc].session = c.session /\ [c EXCEPT !.pc = pc].user = c.user
         /\ [c EXCEPT !.pc = pc].op = c.op /\ [c EXCEPT !.pc = pc].id = c.id
<1> DEFINE b == [c EXCEPT !.pc = pc]
<1>0. pc \in {"create", "again", "mark", "lock", "locked", "user"}
  OBVIOUS
<1>1. /\ b \in Calls /\ b.pc = pc /\ b.op = c.op /\ b.user = c.user
      /\ b.session = c.session /\ b.id = c.id /\ b.subject = c.subject
      /\ b.proof = c.proof /\ b.address = c.address
  BY <1>0 DEF Calls
<1> HIDE DEF b
<1>2. GoodCall(b)
  BY <1>1 DEF GoodCall
<1> QED
  BY <1>1, <1>2 DEF b

LEMMA LockUserStep ==
  ASSUME IInv, NEW r \in Requests, LockUser(r)
  PROVE  Promise
<1>1. /\ GoodCall([request[r] EXCEPT !.pc = "lock"])
      /\ [request[r] EXCEPT !.pc = "lock"].pc = "lock"
  BY GoodRequest, SlotKept DEF LockUser
<1> QED
  BY <1>1, RequestStep DEF LockUser

LEMMA EndStep ==
  ASSUME IInv, NEW r \in Requests, End(r)
  PROVE  Promise
BY NoCallGood, RequestStep DEF End

LEMMA BeginLinkDiscordStep ==
  ASSUME IInv, NEW r \in Requests, NEW s \in Sessions, NEW p \in Proofs,
         BeginLinkDiscord(r, s, p)
  PROVE  Promise
<1>1. PICK u \in Users : u = session[s].user
  BY LiveHasUser DEF BeginLinkDiscord, HasFreshStepUp, Authenticated, HasSession, IInv
<1>2. PICK x \in Discords : x = proof[p].subject
  BY DEF BeginLinkDiscord, IsOpen, IInv, ProofsInv
<1> DEFINE a == SessionCall("lock", "link-discord", u, s)
           c == [a EXCEPT !.subject = x, !.proof = p]
<1>3. a \in Calls /\ a.pc = "lock" /\ a.op = "link-discord" /\ a.user = u /\ a.session = s
  BY SessionCallFields DEF Operations, SecurityChanges
<1>4. Becomes(r, c) /\ UNCHANGED <<session, rows>>
  BY <1>1, <1>2 DEF BeginLinkDiscord, Change, SessionCall
<1> HIDE DEF a
<1>5. /\ c \in Calls /\ c.pc = "lock" /\ c.op = "link-discord" /\ c.user = u
      /\ c.session = s /\ c.subject = x /\ c.proof = p
  BY <1>3 DEF Calls, Subjects
<1> HIDE DEF c
<1>6. GoodCall(c)
  BY <1>5 DEF GoodCall
<1> QED
  BY <1>4, <1>5, <1>6, RequestStep

LEMMA BeginEmailStep ==
  ASSUME IInv, NEW r \in Requests, NEW s \in Sessions, NEW e \in Emails,
         NEW n \in Ids \cup {None}, BeginEmail(r, s, e, n)
  PROVE  Promise
<1>0. PICK op \in {"link-email", "change-email"} :
        /\ CompletesOtp(s)
        /\ op = "change-email" => n # None
        /\ Becomes(r, [Change(r, op, s) EXCEPT !.subject = e, !.address = e, !.id = n])
        /\ UNCHANGED <<session, rows>>
  BY DEF BeginEmail
<1>1. PICK u \in Users : u = session[s].user
  BY <1>0, LiveHasUser DEF CompletesOtp, Authenticated, HasSession, IInv
<1> DEFINE a == SessionCall("lock", op, u, s)
           c == [a EXCEPT !.subject = e, !.address = e, !.id = n]
<1>3. a \in Calls /\ a.pc = "lock" /\ a.op = op /\ a.user = u /\ a.session = s
  BY SessionCallFields DEF Operations, SecurityChanges
<1>4. Becomes(r, c)
  BY <1>0, <1>1 DEF Change, SessionCall
<1> HIDE DEF a
<1>5. /\ c \in Calls /\ c.pc = "lock" /\ c.op = op /\ c.user = u
      /\ c.session = s /\ c.address = e /\ c.id = n
  BY <1>3 DEF Calls, Subjects
<1> HIDE DEF c
<1>6. GoodCall(c)
  BY <1>0, <1>5 DEF GoodCall
<1> QED
  BY <1>0, <1>4, <1>5, <1>6, RequestStep

LEMMA BeginPromoteStep ==
  ASSUME IInv, NEW r \in Requests, NEW s \in Sessions, NEW e \in Emails,
         BeginPromote(r, s, e)
  PROVE  Promise
<1>1. PICK u \in Users : u = session[s].user
  BY LiveHasUser DEF BeginPromote, HasSession, IInv
<1> DEFINE a == SessionCall("lock", "promote", u, s)
           c == [a EXCEPT !.subject = e, !.address = e]
<1>3. a \in Calls /\ a.pc = "lock" /\ a.op = "promote" /\ a.user = u /\ a.session = s
  BY SessionCallFields DEF Operations, SecurityChanges
<1>4. Becomes(r, c) /\ UNCHANGED <<session, rows>>
  BY <1>1 DEF BeginPromote, Change, SessionCall
<1> HIDE DEF a
<1>5. /\ c \in Calls /\ c.pc = "lock" /\ c.op = "promote" /\ c.user = u
      /\ c.session = s /\ c.address = e
  BY <1>3 DEF Calls, Subjects
<1> HIDE DEF c
<1>6. GoodCall(c)
  BY <1>5 DEF GoodCall
<1> QED
  BY <1>4, <1>5, <1>6, RequestStep

LEMMA BeginRemoveStep ==
  ASSUME IInv, NEW r \in Requests, NEW s \in Sessions, NEW n \in Ids,
         BeginRemove(r, s, n)
  PROVE  Promise
<1>1. PICK u \in Users : u = session[s].user
  BY LiveHasUser DEF BeginRemove, HasFreshStepUp, Authenticated, HasSession, IInv
<1> DEFINE a == SessionCall("lock", "remove", u, s)
           c == [a EXCEPT !.pc = "user", !.id = n]
<1>3. a \in Calls /\ a.pc = "lock" /\ a.op = "remove" /\ a.user = u /\ a.session = s
  BY SessionCallFields DEF Operations, SecurityChanges
<1>4. Becomes(r, c) /\ UNCHANGED <<session, rows>>
  BY <1>1 DEF BeginRemove, Change, SessionCall
<1> HIDE DEF a
<1>5. /\ c \in Calls /\ c.pc = "user" /\ c.op = "remove" /\ c.user = u
      /\ c.session = s /\ c.id = n
  BY <1>3 DEF Calls
<1> HIDE DEF c
<1>6. GoodCall(c)
  BY <1>5 DEF GoodCall
<1> QED
  BY <1>4, <1>5, <1>6, RequestStep

\* The lock of a session: it is live, the requester's, and held by nobody else.
LEMMA LockStep ==
  ASSUME IInv, NEW r \in Requests, Lock(r)
  PROVE  Promise
<1> DEFINE c == [request[r] EXCEPT !.pc = "locked"]
<1>0. request[r].pc = "lock" /\ Becomes(r, c) /\ UNCHANGED <<session, rows>>
  BY DEF Lock
<1>1. GoodCall(c) /\ c.pc = "locked" /\ c.session = request[r].session
      /\ c.user = request[r].user /\ c.op = request[r].op /\ c.id = request[r].id
  BY <1>0, GoodRequest, SlotKept
<1> HIDE DEF c
<1>2. CallsInv' /\ request'[r] = c /\ \A q \in Requests \ {r} : request'[q] = request[q]
  BY <1>0, <1>1, CallsKept DEF IInv
<1>3. LocksInv'
  <2>1. /\ session[c.session].status = "live" /\ session[c.session].user = c.user
        /\ \A q \in Requests : ~(request[q].pc = "locked"
                                   /\ request[q].session = c.session)
    BY <1>1 DEF Lock, IsLive, Unlocked, Holds
  <2> SUFFICES ASSUME NEW q \in Requests, request'[q].pc = "locked"
               PROVE  /\ session[request'[q].session].status = "live"
                      /\ session[request'[q].session].user = request'[q].user
                      /\ \A p \in Requests \ {q} :
                           ~(request'[p].pc = "locked"
                               /\ request'[p].session = request'[q].session)
    BY <1>0 DEF LocksInv, IsLive, Holds
  <2>2. CASE q = r
    BY <1>2, <2>1, <2>2
  <2>3. CASE q # r
    <3>1. request'[q] = request[q]
      BY <1>2, <2>3
    <3>2. /\ session[request[q].session].status = "live"
          /\ session[request[q].session].user = request[q].user
          /\ \A p \in Requests \ {q} :
               ~(request[p].pc = "locked" /\ request[p].session = request[q].session)
      BY <3>1 DEF IInv, LocksInv, IsLive, Holds
    <3>3. request[q].session # c.session
      BY <2>1, <3>1
    <3> QED
      BY <1>2, <3>1, <3>2, <3>3
  <2> QED
    BY <2>2, <2>3
<1>4. SessionsInv'
  BY <1>0, SessionsUnchanged DEF IInv
<1>5. RowsInv' /\ ProofsInv' /\ MethodsConsistent' /\ InHands /\ CustodyStep
  BY <1>0, RowsUnchanged DEF IInv
<1>6. SessionsHaveTheirMethod'
  BY <1>0 DEF IInv, SessionsHaveTheirMethod, IsMethod, rows
<1>7. CountsInv'
  <2> SUFFICES ASSUME NEW q \in Requests, request'[q].pc = "locked",
                      request'[q].op = "remove"
               PROVE  MayRemove(request'[q].id, request'[q].user)
    BY <1>0 DEF CountsInv, MayRemove, IsMethod, rows
  <2>1. CASE q = r
    BY <1>1, <1>2, <2>1 DEF Lock
  <2>2. CASE q # r
    BY <1>2, <2>2 DEF IInv, CountsInv
  <2> QED
    BY <2>1, <2>2
<1> QED
  BY <1>2, <1>3, <1>4, <1>5, <1>6, <1>7 DEF IInv, Promise

-----------------------------------------------------------------------------
(* Who holds a method                                                      *)

Opens(id, n, x) == id[n].status = "verified" /\ id[n].subject = x

HolderIn(id, x) ==
  IF \E n \in Ids : Opens(id, n, x)
  THEN id[CHOOSE n \in Ids : Opens(id, n, x)].user ELSE None

RetiredIn(id) ==
  {x \in Subjects : \E n \in Ids : id[n].status = "revoked" /\ id[n].subject = x}

LEMMA HolderAndRetired ==
  /\ holder = [x \in Subjects |-> HolderIn(identity, x)]
  /\ retired = RetiredIn(identity)
  /\ holder' = [x \in Subjects |-> HolderIn(identity', x)]
  /\ retired' = RetiredIn(identity')
BY DEF holder, retired, HolderIn, RetiredIn, Verified, Opens

LEMMA HolderOpens ==
  ASSUME NEW id, NEW x, NEW n \in Ids, Opens(id, n, x),
         \A m \in Ids : Opens(id, m, x) => m = n
  PROVE  HolderIn(id, x) = id[n].user
<1>1. (CHOOSE m \in Ids : Opens(id, m, x)) = n
  OBVIOUS
<1> QED
  BY <1>1 DEF HolderIn

LEMMA NobodyHolds ==
  ASSUME NEW id, NEW x, \A n \in Ids : ~Opens(id, n, x)
  PROVE  HolderIn(id, x) = None
BY DEF HolderIn

\* A method that no row changes about has the holder it had.
LEMMA HolderSame ==
  ASSUME NEW id, NEW jd, NEW x,
         \A m, n \in Ids : Opens(id, m, x) /\ Opens(id, n, x) => m = n,
         \A m \in Ids : Opens(id, m, x) <=> Opens(jd, m, x),
         \A m \in Ids : Opens(id, m, x) => jd[m].user = id[m].user
  PROVE  HolderIn(jd, x) = HolderIn(id, x)
<1>1. CASE \E n \in Ids : Opens(id, n, x)
  <2>1. PICK n \in Ids : Opens(id, n, x)
    BY <1>1
  <2>2. HolderIn(id, x) = id[n].user /\ HolderIn(jd, x) = jd[n].user
    BY <2>1, HolderOpens
  <2> QED
    BY <2>1, <2>2
<1>2. CASE \A n \in Ids : ~Opens(id, n, x)
  BY <1>2, NobodyHolds
<1> QED
  BY <1>1, <1>2

LEMMA RetiredSame ==
  ASSUME NEW id, NEW jd,
         \A m \in Ids : jd[m].status = "revoked" <=> id[m].status = "revoked",
         \A m \in Ids : id[m].status = "revoked" => jd[m].subject = id[m].subject
  PROVE  RetiredIn(jd) = RetiredIn(id)
<1>1. ASSUME NEW x
      PROVE  (\E n \in Ids : jd[n].status = "revoked" /\ jd[n].subject = x)
               <=> \E n \in Ids : id[n].status = "revoked" /\ id[n].subject = x
  OBVIOUS
<1> QED
  BY <1>1, Zenon DEF RetiredIn

OneRowEach(id) ==
  \A m, n \in Ids :
    id[m].subject # None /\ id[m].subject = id[n].subject => m = n

LEMMA OpensOnce ==
  ASSUME MethodsConsistent, NEW x \in Subjects, SessionAssumption
  PROVE  \A m, n \in Ids : Opens(identity, m, x) /\ Opens(identity, n, x) => m = n
<1>1. x # None
  BY DEF SessionAssumption
<1> QED
  BY <1>1 DEF MethodsConsistent, Opens

-----------------------------------------------------------------------------
(* A new method                                                            *)

NewMethod(n, u, x) ==
  /\ Vacant(n) /\ ~Taken(x) /\ Linked(n, u, x)
  /\ \/ x \in Discords /\ UNCHANGED email
     \/ \E e \in Emails :
          /\ Unrecorded(e) /\ ~HasAddress(u) /\ Recorded(e, u, n)
          /\ x = e \/ x \in Discords

LEMMA NewMethodRow ==
  ASSUME RowsInv, NEW n \in Ids, NEW u \in Users, NEW x \in Subjects, NewMethod(n, u, x)
  PROVE  /\ identity' \in [Ids -> IdentityRows]
         /\ identity'[n].status = "verified" /\ identity'[n].user = u
         /\ identity'[n].subject = x
         /\ \A m \in Ids \ {n} : identity'[m] = identity[m]
         /\ identity[n].status = "absent" /\ identity[n].subject = None
         /\ \A m \in Ids : identity[m].subject # x
<1> DEFINE row == [status |-> "verified", user |-> u, subject |-> x]
<1>1. row \in IdentityRows /\ row.status = "verified" /\ row.user = u /\ row.subject = x
  BY DEF IdentityRows
<1>2. identity' = [identity EXCEPT ![n] = row]
  BY DEF NewMethod, Linked
<1> HIDE DEF row
<1>3. /\ identity' \in [Ids -> IdentityRows] /\ identity'[n] = row
      /\ \A m \in Ids \ {n} : identity'[m] = identity[m]
  BY <1>1, <1>2 DEF RowsInv
<1> QED
  BY <1>1, <1>3 DEF NewMethod, Vacant, Taken, RowsInv

LEMMA RecordedRow ==
  ASSUME RowsInv, NEW n \in Ids, NEW u \in Users, NEW e \in Emails, Recorded(e, u, n)
  PROVE  /\ email' \in [Emails -> EmailRows]
         /\ email'[e].status = "active" /\ email'[e].user = u /\ email'[e].id = n
         /\ \A a \in Emails \ {e} : email'[a] = email[a]
<1> DEFINE row == [status |-> "active", user |-> u, id |-> n]
<1>1. row \in EmailRows /\ row.status = "active" /\ row.user = u /\ row.id = n
  BY DEF EmailRows
<1>2. email' = [email EXCEPT ![e] = row]
  BY DEF Recorded
<1> HIDE DEF row
<1>3. /\ email' \in [Emails -> EmailRows] /\ email'[e] = row
      /\ \A a \in Emails \ {e} : email'[a] = email[a]
  BY <1>1, <1>2 DEF RowsInv
<1> QED
  BY <1>1, <1>3

LEMMA NewMethodRows ==
  ASSUME RowsInv, MethodsConsistent, NEW n \in Ids, NEW u \in Users, NEW x \in Subjects,
         NewMethod(n, u, x)
  PROVE  RowsInv'
<1>1. email' \in [Emails -> EmailRows]
  BY RecordedRow DEF NewMethod, RowsInv
<1> QED
  BY <1>1, NewMethodRow DEF RowsInv

-----------------------------------------------------------------------------
(* The parts of MethodsConsistent, for any tables                          *)

Owned(id, em) ==
  \A e \in Emails : em[e].status = "active" =>
    /\ em[e].id \in Ids
    /\ id[em[e].id].status = "verified" /\ id[em[e].id].user = em[e].user
    /\ id[em[e].id].subject \in Emails => id[em[e].id].subject = e

Named(id, em) ==
  \A n \in Ids : id[n].status = "verified" /\ id[n].subject \in Emails =>
    /\ em[id[n].subject].status = "active"
    /\ em[id[n].subject].user = id[n].user
    /\ em[id[n].subject].id = n

Single(em) ==
  \A a, b \in Emails : em[a].status = "active" /\ em[b].status = "active"
                         /\ em[a].user = em[b].user => a = b

Consistent(id, em) ==
  OneRowEach(id) /\ Owned(id, em) /\ Named(id, em) /\ Single(em)

LEMMA ConsistentParts ==
  ASSUME NEW id, NEW em, em \in [Emails -> EmailRows], SessionAssumption
  PROVE  Consistent(id, em) <=>
           /\ \A m, n \in Ids :
                id[m].subject # None /\ id[m].subject = id[n].subject => m = n
           /\ \A e \in Emails : em[e].status = "active" =>
                /\ em[e].id # None
                /\ id[em[e].id].status = "verified" /\ id[em[e].id].user = em[e].user
                /\ id[em[e].id].subject \in Emails => id[em[e].id].subject = e
           /\ \A n \in Ids : id[n].status = "verified" /\ id[n].subject \in Emails =>
                em[id[n].subject] = [status |-> "active", user |-> id[n].user, id |-> n]
           /\ \A a, b \in Emails : em[a].status = "active" /\ em[b].status = "active"
                                     /\ em[a].user = em[b].user => a = b
<1>1. Named(id, em) <=>
        \A n \in Ids : id[n].status = "verified" /\ id[n].subject \in Emails =>
          em[id[n].subject] = [status |-> "active", user |-> id[n].user, id |-> n]
  <2>1. ASSUME NEW n \in Ids, id[n].subject \in Emails
        PROVE  em[id[n].subject] = [status |-> "active", user |-> id[n].user, id |-> n]
                 <=> /\ em[id[n].subject].status = "active"
                     /\ em[id[n].subject].user = id[n].user
                     /\ em[id[n].subject].id = n
    <3>1. PICK row \in EmailRows : row = em[id[n].subject]
      BY <2>1
    <3>2. row = [status |-> "active", user |-> id[n].user, id |-> n]
            <=> row.status = "active" /\ row.user = id[n].user /\ row.id = n
      BY DEF EmailRows
    <3> QED
      BY <3>1, <3>2
  <2> QED
    BY <2>1, Zenon DEF Named
<1>2. \A e \in Emails : em[e].id \in Ids <=> em[e].id # None
  BY DEF SessionAssumption, EmailRows
<1>3. Owned(id, em) <=>
        \A e \in Emails : em[e].status = "active" =>
          /\ em[e].id # None
          /\ id[em[e].id].status = "verified" /\ id[em[e].id].user = em[e].user
          /\ id[em[e].id].subject \in Emails => id[em[e].id].subject = e
  BY <1>2, Zenon DEF Owned
<1> QED
  BY <1>1, <1>3 DEF Consistent, OneRowEach, Single

LEMMA ConsistentNow ==
  ASSUME RowsInv, SessionAssumption
  PROVE  MethodsConsistent <=> Consistent(identity, email)
<1>1. email \in [Emails -> EmailRows]
  BY DEF RowsInv
<1>2. Consistent(identity, email) <=>
        /\ \A m, n \in Ids :
             identity[m].subject # None /\ identity[m].subject = identity[n].subject
               => m = n
        /\ \A e \in Emails : email[e].status = "active" =>
             /\ email[e].id # None
             /\ identity[email[e].id].status = "verified"
             /\ identity[email[e].id].user = email[e].user
             /\ identity[email[e].id].subject \in Emails
                  => identity[email[e].id].subject = e
        /\ \A n \in Ids :
             identity[n].status = "verified" /\ identity[n].subject \in Emails =>
               email[identity[n].subject] =
                 [status |-> "active", user |-> identity[n].user, id |-> n]
        /\ \A a, b \in Emails : email[a].status = "active" /\ email[b].status = "active"
                                  /\ email[a].user = email[b].user => a = b
  BY <1>1, ConsistentParts
<1> QED
  BY <1>2, Zenon DEF MethodsConsistent, IsMethod

LEMMA ConsistentNext ==
  ASSUME RowsInv', SessionAssumption
  PROVE  MethodsConsistent' <=> Consistent(identity', email')
<1>1. email' \in [Emails -> EmailRows]
  BY DEF RowsInv
<1>2. Consistent(identity', email') <=>
        /\ \A m, n \in Ids :
             identity'[m].subject # None /\ identity'[m].subject = identity'[n].subject
               => m = n
        /\ \A e \in Emails : email'[e].status = "active" =>
             /\ email'[e].id # None
             /\ identity'[email'[e].id].status = "verified"
             /\ identity'[email'[e].id].user = email'[e].user
             /\ identity'[email'[e].id].subject \in Emails
                  => identity'[email'[e].id].subject = e
        /\ \A n \in Ids :
             identity'[n].status = "verified" /\ identity'[n].subject \in Emails =>
               email'[identity'[n].subject] =
                 [status |-> "active", user |-> identity'[n].user, id |-> n]
        /\ \A a, b \in Emails :
             email'[a].status = "active" /\ email'[b].status = "active"
               /\ email'[a].user = email'[b].user => a = b
  BY <1>1, ConsistentParts
<1> QED
  BY <1>2, Zenon DEF MethodsConsistent, IsMethod

LEMMA NewConsistent ==
  ASSUME NEW id, NEW em, Consistent(id, em), SessionAssumption,
         NEW n \in Ids, NEW u \in Users, NEW x \in Subjects,
         id[n].status = "absent", id[n].subject = None,
         \A m \in Ids : id[m].subject # x,
         NEW jd, \A m \in Ids \ {n} : jd[m] = id[m],
         jd[n].status = "verified", jd[n].user = u, jd[n].subject = x,
         NEW fm,
         \/ x \in Discords /\ fm = em
         \/ \E e \in Emails :
              /\ em[e].status = "absent"
              /\ \A a \in Emails : ~(em[a].status = "active" /\ em[a].user = u)
              /\ \A a \in Emails \ {e} : fm[a] = em[a]
              /\ fm[e].status = "active" /\ fm[e].user = u /\ fm[e].id = n
              /\ x = e \/ x \in Discords
  PROVE  Consistent(jd, fm)
<1>0. x # None /\ Discords \cap Emails = {}
  BY DEF SessionAssumption
<1>1. OneRowEach(jd)
  BY DEF Consistent, OneRowEach
<1>2. CASE x \in Discords /\ fm = em
  <2>1. Owned(jd, fm)
    BY <1>2 DEF Consistent, Owned
  <2>2. Named(jd, fm)
    BY <1>0, <1>2 DEF Consistent, Named
  <2> QED
    BY <1>1, <1>2, <2>1, <2>2 DEF Consistent
<1>3. ASSUME NEW e \in Emails, em[e].status = "absent",
             \A a \in Emails : ~(em[a].status = "active" /\ em[a].user = u),
             \A a \in Emails \ {e} : fm[a] = em[a],
             fm[e].status = "active", fm[e].user = u, fm[e].id = n,
             x = e \/ x \in Discords
      PROVE  Consistent(jd, fm)
  <2>1. Owned(jd, fm)
    <3> SUFFICES ASSUME NEW a \in Emails, fm[a].status = "active"
                 PROVE  /\ fm[a].id \in Ids
                        /\ jd[fm[a].id].status = "verified"
                        /\ jd[fm[a].id].user = fm[a].user
                        /\ jd[fm[a].id].subject \in Emails => jd[fm[a].id].subject = a
      BY DEF Owned
    <3>1. CASE a = e
      BY <1>0, <1>3, <3>1
    <3>2. CASE a # e
      <4>1. fm[a] = em[a]
        BY <1>3, <3>2
      <4>2. em[a].id \in Ids /\ id[em[a].id].status = "verified"
        BY <4>1 DEF Consistent, Owned
      <4>3. em[a].id # n
        BY <4>2
      <4> QED
        BY <4>1, <4>2, <4>3 DEF Consistent, Owned
    <3> QED
      BY <3>1, <3>2
  <2>2. Named(jd, fm)
    <3> SUFFICES ASSUME NEW m \in Ids, jd[m].status = "verified", jd[m].subject \in Emails
                 PROVE  /\ fm[jd[m].subject].status = "active"
                        /\ fm[jd[m].subject].user = jd[m].user
                        /\ fm[jd[m].subject].id = m
      BY DEF Named
    <3>1. CASE m = n
      BY <1>0, <1>3, <3>1
    <3>2. CASE m # n
      <4>1. jd[m] = id[m]
        BY <3>2
      <4>2. em[id[m].subject].status = "active"
        BY <4>1 DEF Consistent, Named
      <4>3. id[m].subject # e
        BY <1>3, <4>2
      <4>4. fm[jd[m].subject] = em[id[m].subject]
        BY <1>3, <4>1, <4>3
      <4> QED
        BY <4>1, <4>4 DEF Consistent, Named
    <3> QED
      BY <3>1, <3>2
  <2>3. Single(fm)
    <3> SUFFICES ASSUME NEW a \in Emails, NEW b \in Emails, fm[a].status = "active",
                        fm[b].status = "active", fm[a].user = fm[b].user
                 PROVE  a = b
      BY DEF Single
    <3>1. CASE a = e
      BY <1>3, <3>1
    <3>2. CASE b = e
      BY <1>3, <3>2
    <3>3. CASE a # e /\ b # e
      BY <1>3, <3>3 DEF Consistent, Single
    <3> QED
      BY <3>1, <3>2, <3>3
  <2> QED
    BY <1>1, <2>1, <2>2, <2>3 DEF Consistent
<1> QED
  BY <1>2, <1>3

\* What becomes of rows and methods when somebody takes a new one.
LEMMA NewMethodTaken ==
  ASSUME RowsInv, MethodsConsistent, NEW n \in Ids, NEW u \in Users, NEW x \in Subjects,
         NewMethod(n, u, x)
  PROVE  /\ RowsInv' /\ MethodsConsistent' /\ CustodyStep
         /\ identity'[n].user = u
         /\ identity[n].status = "absent"
         /\ \A m \in Ids \ {n} : identity'[m] = identity[m]
<1>1. RowsInv'
  BY NewMethodRows
<1>2. /\ identity'[n].status = "verified" /\ identity'[n].user = u
      /\ identity'[n].subject = x
      /\ \A m \in Ids \ {n} : identity'[m] = identity[m]
      /\ identity[n].status = "absent" /\ identity[n].subject = None
      /\ \A m \in Ids : identity[m].subject # x
  BY NewMethodRow
<1>3. MethodsConsistent'
  <2>1. Consistent(identity, email)
    BY SessionAssumption, ConsistentNow
  <2>2. \/ x \in Discords /\ email' = email
        \/ \E e \in Emails :
             /\ email[e].status = "absent"
             /\ \A a \in Emails : ~(email[a].status = "active" /\ email[a].user = u)
             /\ \A a \in Emails \ {e} : email'[a] = email[a]
             /\ email'[e].status = "active" /\ email'[e].user = u /\ email'[e].id = n
             /\ x = e \/ x \in Discords
    <3>1. CASE x \in Discords /\ UNCHANGED email
      BY <3>1
    <3>2. ASSUME NEW e \in Emails, Unrecorded(e), ~HasAddress(u), Recorded(e, u, n),
                 x = e \/ x \in Discords
          PROVE  /\ email[e].status = "absent"
                 /\ \A a \in Emails : ~(email[a].status = "active" /\ email[a].user = u)
                 /\ \A a \in Emails \ {e} : email'[a] = email[a]
                 /\ email'[e].status = "active" /\ email'[e].user = u
                 /\ email'[e].id = n
                 /\ x = e \/ x \in Discords
      <4>1. email[e].status = "absent"
        BY <3>2 DEF Unrecorded
      <4>2. \A a \in Emails : ~(email[a].status = "active" /\ email[a].user = u)
        BY <3>2, Zenon DEF HasAddress, IsAddress
      <4>3. /\ \A a \in Emails \ {e} : email'[a] = email[a]
            /\ email'[e].status = "active" /\ email'[e].user = u /\ email'[e].id = n
        BY <3>2, RecordedRow DEF Recorded
      <4> QED
        BY <3>2, <4>1, <4>2, <4>3
    <3>3. \/ x \in Discords /\ UNCHANGED email
          \/ \E e \in Emails :
               /\ Unrecorded(e) /\ ~HasAddress(u) /\ Recorded(e, u, n)
               /\ x = e \/ x \in Discords
      BY DEF NewMethod
    <3>4. CASE \E e \in Emails :
                 /\ Unrecorded(e) /\ ~HasAddress(u) /\ Recorded(e, u, n)
                 /\ x = e \/ x \in Discords
      <4>1. PICK e \in Emails :
              /\ Unrecorded(e) /\ ~HasAddress(u) /\ Recorded(e, u, n)
              /\ x = e \/ x \in Discords
        BY <3>4
      <4> QED
        BY <3>2, <4>1
    <3> QED
      BY <3>1, <3>3, <3>4
  <2>3. Consistent(identity', email')
    BY <1>2, <2>1, <2>2, NewConsistent, SessionAssumption
  <2> QED
    BY <1>1, <2>3, ConsistentNext, SessionAssumption
<1>4. CustodyStep
  <2>1. \A m, k \in Ids : Opens(identity', m, x) /\ Opens(identity', k, x) => m = k
    BY <1>2 DEF Opens
  <2>2. HolderIn(identity, x) = None
    BY <1>2, NobodyHolds DEF Opens
  <2>3. HolderIn(identity', x) = u
    BY <1>2, <2>1, HolderOpens DEF Opens
  <2>4. ASSUME NEW y \in Subjects, y # x
        PROVE  HolderIn(identity', y) = HolderIn(identity, y)
    <3>1. \A m, k \in Ids : Opens(identity, m, y) /\ Opens(identity, k, y) => m = k
      BY OpensOnce, SessionAssumption
    <3>2. \A m \in Ids : Opens(identity, m, y) <=> Opens(identity', m, y)
      BY <1>2, <2>4 DEF Opens
    <3>3. \A m \in Ids : Opens(identity, m, y) => identity'[m].user = identity[m].user
      BY <1>2 DEF Opens
    <3> QED
      BY <3>1, <3>2, <3>3, HolderSame
  <2>5. holder' = [holder EXCEPT ![x] = u]
    BY <2>3, <2>4, HolderAndRetired
  <2>6. retired' = retired
    <3>1. \A m \in Ids : identity'[m].status = "revoked" <=> identity[m].status = "revoked"
      BY <1>2
    <3>2. \A m \in Ids : identity[m].status = "revoked" =>
                           identity'[m].subject = identity[m].subject
      BY <1>2
    <3>3. RetiredIn(identity') = RetiredIn(identity)
      BY <3>1, <3>2, RetiredSame
    <3> QED
      BY <3>3, HolderAndRetired
  <2>7. holder[x] = None /\ x \notin retired /\ holder'[x] = u
    BY <1>2, <2>2, <2>3, HolderAndRetired DEF RetiredIn
  <2>8. u # None
    BY SessionAssumption
  <2>9. Custodian!Take(x, u)
    BY <2>5, <2>6, <2>7 DEF Custodian!Take, Custodian!Free
  <2>10. Custodian!Next
    BY <2>7, <2>8, <2>9 DEF Custodian!Next
  <2> QED
    BY <2>10 DEF CustodyStep
<1> QED
  BY <1>1, <1>2, <1>3, <1>4

-----------------------------------------------------------------------------
(* Another address, and one method less                                    *)

LEMMA ExchangedConsistent ==
  ASSUME NEW id, NEW em, Consistent(id, em), SessionAssumption,
         NEW n \in Ids, NEW u, NEW e \in Emails, NEW old \in Emails, e # old,
         id[n].status = "verified", id[n].user = u, id[n].subject \in Emails,
         em[old].status = "active", em[old].user = u, em[old].id = n,
         \A m \in Ids : id[m].subject # e,
         NEW jd, \A m \in Ids \ {n} : jd[m] = id[m],
         jd[n].status = "verified", jd[n].user = u, jd[n].subject = e,
         NEW fm, \A a \in Emails \ {e, old} : fm[a] = em[a],
         fm[e].status = "active", fm[e].user = u, fm[e].id = n,
         fm[old].status = "absent"
  PROVE  id[n].subject = old /\ Consistent(jd, fm)
<1>0. id[n].subject = old
  BY DEF Consistent, Named, Single
<1>1. OneRowEach(jd)
  BY DEF Consistent, OneRowEach
<1>2. \A a \in Emails \ {e, old} : em[a].status = "active" =>
        em[a].user # u /\ em[a].id # n
  <2>1. ASSUME NEW a \in Emails \ {e, old}, em[a].status = "active"
        PROVE  em[a].user # u
    BY <2>1 DEF Consistent, Single
  <2>2. ASSUME NEW a \in Emails, em[a].status = "active", em[a].id = n
        PROVE  em[a].user = u
    BY <2>2 DEF Consistent, Owned
  <2> QED
    BY <2>1, <2>2
<1>3. Owned(jd, fm)
  <2> SUFFICES ASSUME NEW a \in Emails, fm[a].status = "active"
               PROVE  /\ fm[a].id \in Ids
                      /\ jd[fm[a].id].status = "verified"
                      /\ jd[fm[a].id].user = fm[a].user
                      /\ jd[fm[a].id].subject \in Emails => jd[fm[a].id].subject = a
    BY DEF Owned
  <2>1. CASE a = e
    BY <2>1
  <2>2. CASE a # e
    <3>1. a # old
      OBVIOUS
    <3>2. fm[a] = em[a] /\ em[a].id # n
      BY <1>2, <2>2, <3>1
    <3> QED
      BY <3>2 DEF Consistent, Owned
  <2> QED
    BY <2>1, <2>2
<1>4. Named(jd, fm)
  <2> SUFFICES ASSUME NEW m \in Ids, jd[m].status = "verified", jd[m].subject \in Emails
               PROVE  /\ fm[jd[m].subject].status = "active"
                      /\ fm[jd[m].subject].user = jd[m].user
                      /\ fm[jd[m].subject].id = m
    BY DEF Named
  <2>1. CASE m = n
    BY <2>1
  <2>2. CASE m # n
    <3>1. jd[m] = id[m]
      BY <2>2
    <3>2. /\ em[id[m].subject].status = "active" /\ em[id[m].subject].user = id[m].user
          /\ em[id[m].subject].id = m
      BY <3>1 DEF Consistent, Named
    <3>3. id[m].subject \in Emails \ {e, old}
      BY <2>2, <3>1, <3>2
    <3> QED
      BY <3>1, <3>2, <3>3
  <2> QED
    BY <2>1, <2>2
<1>5. Single(fm)
  <2> SUFFICES ASSUME NEW a \in Emails, NEW b \in Emails, fm[a].status = "active",
                      fm[b].status = "active", fm[a].user = fm[b].user
               PROVE  a = b
    BY DEF Single
  <2>1. a # old /\ b # old
    OBVIOUS
  <2>2. CASE a = e /\ b # e
    BY <1>2, <2>1, <2>2
  <2>3. CASE a # e /\ b = e
    BY <1>2, <2>1, <2>3
  <2>4. CASE a # e /\ b # e
    BY <2>1, <2>4 DEF Consistent, Single
  <2> QED
    BY <2>2, <2>3, <2>4
<1> QED
  BY <1>0, <1>1, <1>3, <1>4, <1>5 DEF Consistent

LEMMA WithoutConsistent ==
  ASSUME NEW id, NEW em, Consistent(id, em), NEW n \in Ids,
         NEW jd, \A m \in Ids \ {n} : jd[m] = id[m],
         jd[n].status = "revoked", jd[n].subject = id[n].subject,
         NEW fm,
         \A a \in Emails : IF em[a].status = "active" /\ em[a].id = n
                           THEN fm[a].status = "revoked" ELSE fm[a] = em[a]
  PROVE  Consistent(jd, fm)
<1>1. OneRowEach(jd)
  BY DEF Consistent, OneRowEach
<1>2. \A a \in Emails : fm[a].status = "active" => fm[a] = em[a] /\ em[a].id # n
  OBVIOUS
<1>3. Owned(jd, fm)
  BY <1>2 DEF Consistent, Owned
<1>4. Named(jd, fm)
  <2> SUFFICES ASSUME NEW m \in Ids, jd[m].status = "verified", jd[m].subject \in Emails
               PROVE  /\ fm[jd[m].subject].status = "active"
                      /\ fm[jd[m].subject].user = jd[m].user
                      /\ fm[jd[m].subject].id = m
    BY DEF Named
  <2>1. m # n /\ jd[m] = id[m]
    OBVIOUS
  <2>2. /\ em[id[m].subject].status = "active" /\ em[id[m].subject].user = id[m].user
        /\ em[id[m].subject].id = m
    BY <2>1 DEF Consistent, Named
  <2>3. fm[id[m].subject] = em[id[m].subject]
    BY <2>1, <2>2
  <2> QED
    BY <2>1, <2>2, <2>3
<1>5. Single(fm)
  BY <1>2 DEF Consistent, Single
<1> QED
  BY <1>1, <1>3, <1>4, <1>5 DEF Consistent

Exchanged(n, u, e, old) ==
  /\ IsMethod(n, u) /\ identity[n].subject \in Emails
  /\ IsAddress(old, u) /\ email[old].id = n
  /\ e = old \/ (Unrecorded(e) /\ ~Taken(e))
  /\ Linked(n, u, e)
  /\ email' = [a \in Emails |->
                 IF a = e THEN [status |-> "active", user |-> u, id |-> n]
                 ELSE IF a = old THEN NoEmail ELSE email[a]]

LEMMA ExchangedRows ==
  ASSUME RowsInv, NEW n \in Ids, NEW u \in Users, NEW e \in Emails, NEW old \in Emails,
         Exchanged(n, u, e, old)
  PROVE  /\ RowsInv'
         /\ identity'[n].status = "verified" /\ identity'[n].user = u
         /\ identity'[n].subject = e
         /\ \A m \in Ids \ {n} : identity'[m] = identity[m]
         /\ \A a \in Emails \ {e, old} : email'[a] = email[a]
         /\ email'[e].status = "active" /\ email'[e].user = u /\ email'[e].id = n
         /\ e # old => email'[old].status = "absent"
<1> DEFINE row == [status |-> "verified", user |-> u, subject |-> e]
           mine == [status |-> "active", user |-> u, id |-> n]
<1>1. row \in IdentityRows /\ row.status = "verified" /\ row.user = u /\ row.subject = e
  BY DEF IdentityRows, Subjects
<1>2. mine \in EmailRows /\ mine.status = "active" /\ mine.user = u /\ mine.id = n
  BY DEF EmailRows
<1>3. NoEmail \in EmailRows /\ NoEmail.status = "absent"
  BY DEF NoEmail, EmailRows
<1>4. identity' = [identity EXCEPT ![n] = row]
  BY DEF Exchanged, Linked
<1>5. email' = [a \in Emails |-> IF a = e THEN mine
                                 ELSE IF a = old THEN NoEmail ELSE email[a]]
  BY DEF Exchanged
<1> HIDE DEF row, mine
<1>6. /\ identity' \in [Ids -> IdentityRows] /\ identity'[n] = row
      /\ \A m \in Ids \ {n} : identity'[m] = identity[m]
  BY <1>1, <1>4 DEF RowsInv
<1>7. /\ email' \in [Emails -> EmailRows] /\ email'[e] = mine
      /\ e # old => email'[old] = NoEmail
      /\ \A a \in Emails \ {e, old} : email'[a] = email[a]
  BY <1>2, <1>3, <1>5 DEF RowsInv
<1>8. RowsInv'
  BY <1>1, <1>6, <1>7 DEF RowsInv, Subjects
<1> QED
  BY <1>1, <1>2, <1>3, <1>6, <1>7, <1>8

LEMMA IdentityRowIs ==
  ASSUME NEW row \in IdentityRows, NEW new \in IdentityRows, row.status = new.status,
         row.user = new.user, row.subject = new.subject
  PROVE  row = new
BY DEF IdentityRows

LEMMA EmailRowIs ==
  ASSUME NEW row \in EmailRows, NEW new \in EmailRows, row.status = new.status,
         row.user = new.user, row.id = new.id
  PROVE  row = new
BY DEF EmailRows

\* What becomes of rows and methods when an address is exchanged.
LEMMA MethodExchanged ==
  ASSUME RowsInv, ProofsInv, MethodsConsistent, UNCHANGED proof,
         NEW n \in Ids, NEW u \in Users, NEW e \in Emails, NEW old \in Emails,
         Exchanged(n, u, e, old)
  PROVE  /\ RowsInv' /\ MethodsConsistent' /\ CustodyStep
         /\ identity[n].status = "verified" /\ identity[n].user = u
         /\ identity'[n].status = "verified" /\ identity'[n].user = u
         /\ \A m \in Ids \ {n} : identity'[m] = identity[m]
<1>1. /\ RowsInv'
      /\ identity'[n].status = "verified" /\ identity'[n].user = u
      /\ identity'[n].subject = e
      /\ \A m \in Ids \ {n} : identity'[m] = identity[m]
      /\ \A a \in Emails \ {e, old} : email'[a] = email[a]
      /\ email'[e].status = "active" /\ email'[e].user = u /\ email'[e].id = n
      /\ e # old => email'[old].status = "absent"
  BY ExchangedRows
<1>2. /\ identity[n].status = "verified" /\ identity[n].user = u
      /\ identity[n].subject \in Emails
      /\ email[old].status = "active" /\ email[old].user = u /\ email[old].id = n
  BY DEF Exchanged, IsMethod, IsAddress
<1>3. Consistent(identity, email)
  BY SessionAssumption, ConsistentNow
<1>4. CASE e = old
  <2>1. identity[n].subject = e
    BY <1>2, <1>3, <1>4 DEF Consistent, Named, Single
  <2>2. identity'[n] = identity[n]
    <3>1. identity[n] \in IdentityRows /\ identity'[n] \in IdentityRows
      BY <1>1 DEF RowsInv
    <3> QED
      BY <1>1, <1>2, <2>1, <3>1, IdentityRowIs
  <2>3. email'[e] = email[e]
    <3>1. email[e] \in EmailRows /\ email'[e] \in EmailRows
      BY <1>1 DEF RowsInv
    <3> QED
      BY <1>1, <1>2, <1>4, <3>1, EmailRowIs
  <2>4. identity' = identity
    BY <1>1, <2>2 DEF RowsInv
  <2>5. email' = email
    BY <1>1, <1>4, <2>3 DEF RowsInv
  <2>6. UNCHANGED rows
    BY <2>4, <2>5 DEF rows
  <2> QED
    BY <1>1, <1>2, <2>6, RowsUnchanged
<1>5. CASE e # old
  <2>1. email[e].status = "absent" /\ \A m \in Ids : identity[m].subject # e
    BY <1>5 DEF Exchanged, Unrecorded, Taken
  <2>2. identity[n].subject = old /\ Consistent(identity', email')
    BY <1>1, <1>2, <1>3, <1>5, <2>1, ExchangedConsistent, SessionAssumption
  <2>3. MethodsConsistent'
    BY <1>1, <2>2, ConsistentNext, SessionAssumption
  <2>4. e \in Subjects /\ old \in Subjects
    BY DEF Subjects
  <2>5. \A x \in Subjects : \A m, k \in Ids :
          Opens(identity, m, x) /\ Opens(identity, k, x) => m = k
    BY OpensOnce, SessionAssumption
  <2>6. HolderIn(identity, old) = u
    BY <1>2, <2>2, <2>4, <2>5, HolderOpens DEF Opens
  <2>7. HolderIn(identity, e) = None
    BY <2>1, NobodyHolds DEF Opens
  <2>8. HolderIn(identity', e) = u
    <3>1. Opens(identity', n, e) /\ \A m \in Ids : Opens(identity', m, e) => m = n
      BY <1>1, <2>1 DEF Opens
    <3> QED
      BY <1>1, <3>1, HolderOpens
  <2>9. HolderIn(identity', old) = None
    <3>1. \A m \in Ids : ~Opens(identity', m, old)
      BY <1>1, <1>2, <1>5, <2>2, <2>4, <2>5, SessionAssumption
         DEF Opens, MethodsConsistent
    <3> QED
      BY <3>1, NobodyHolds
  <2>10. ASSUME NEW x \in Subjects, x # e, x # old
         PROVE  HolderIn(identity', x) = HolderIn(identity, x)
    <3>1. \A m \in Ids : Opens(identity, m, x) <=> Opens(identity', m, x)
      BY <1>1, <2>2, <2>10 DEF Opens
    <3>2. \A m \in Ids : Opens(identity, m, x) => identity'[m].user = identity[m].user
      BY <1>1, <1>2 DEF Opens
    <3> QED
      BY <2>5, <3>1, <3>2, HolderSame
  <2>11. holder' = [holder EXCEPT ![e] = holder[old], ![old] = None]
    BY <1>5, <2>4, <2>6, <2>8, <2>9, <2>10, HolderAndRetired
  <2>12. retired' = retired
    <3>1. RetiredIn(identity') = RetiredIn(identity)
      BY <1>1, <1>2, RetiredSame
    <3> QED
      BY <3>1, HolderAndRetired
  <2>13. holder[old] = u /\ holder[e] = None /\ e \notin retired /\ holder'[old] = None
    BY <2>1, <2>4, <2>6, <2>7, <2>9, HolderAndRetired DEF RetiredIn
  <2>14. u # None
    BY SessionAssumption
  <2>15. Custodian!Exchange(old, e)
    BY <2>11, <2>12, <2>13, <2>14 DEF Custodian!Exchange, Custodian!Free
  <2>16. Custodian!Next
    BY <2>4, <2>13, <2>14, <2>15 DEF Custodian!Next
  <2> QED
    BY <1>1, <1>2, <2>3, <2>16 DEF CustodyStep
<1> QED
  BY <1>4, <1>5

Removed(n, u) ==
  /\ MayRemove(n, u)
  /\ identity' = [identity EXCEPT ![n] = [identity[n] EXCEPT !.status = "revoked"]]
  /\ email' = AddressesWithout(n)

LEMMA RemovedRows ==
  ASSUME RowsInv, MethodsConsistent, NEW n \in Ids, NEW u \in Users, Removed(n, u)
  PROVE  /\ RowsInv'
         /\ identity'[n].status = "revoked" /\ identity'[n].user = u
         /\ identity'[n].subject = identity[n].subject
         /\ \A m \in Ids \ {n} : identity'[m] = identity[m]
         /\ \A a \in Emails :
              IF email[a].status = "active" /\ email[a].id = n
              THEN email'[a].status = "revoked" ELSE email'[a] = email[a]
<1> DEFINE row == [identity[n] EXCEPT !.status = "revoked"]
           gone(a) == [status |-> "revoked", user |-> email[a].user, id |-> n]
<1>0. identity[n].status = "verified" /\ identity[n].user = u
  BY DEF Removed, MayRemove, IsMethod
<1>1. /\ row \in IdentityRows /\ row.status = "revoked" /\ row.user = u
      /\ row.subject = identity[n].subject
  BY <1>0 DEF IdentityRows, RowsInv
<1>2. \A a \in Emails : gone(a) \in EmailRows /\ gone(a).status = "revoked"
  BY DEF EmailRows, RowsInv
<1>3. identity' = [identity EXCEPT ![n] = row]
  BY DEF Removed
<1>4. email' = [a \in Emails |-> IF email[a].status = "active" /\ email[a].id = n
                                 THEN gone(a) ELSE email[a]]
  BY DEF Removed, AddressesWithout
<1> HIDE DEF row, gone
<1>5. /\ identity' \in [Ids -> IdentityRows] /\ identity'[n] = row
      /\ \A m \in Ids \ {n} : identity'[m] = identity[m]
  BY <1>1, <1>3 DEF RowsInv
<1>6. email' \in [Emails -> EmailRows]
  BY <1>2, <1>4 DEF RowsInv
<1>7. \A a \in Emails : IF email[a].status = "active" /\ email[a].id = n
                        THEN email'[a].status = "revoked" ELSE email'[a] = email[a]
  BY <1>2, <1>4
<1>8. identity[n].subject \in Subjects
  BY <1>0 DEF RowsInv
<1>9. RowsInv'
  BY <1>1, <1>5, <1>6, <1>8 DEF RowsInv
<1> QED
  BY <1>1, <1>5, <1>7, <1>9

\* What becomes of rows and methods when one of several is removed.
LEMMA MethodRemoved ==
  ASSUME RowsInv, MethodsConsistent, NEW n \in Ids, NEW u \in Users, Removed(n, u)
  PROVE  /\ RowsInv' /\ MethodsConsistent' /\ CustodyStep
         /\ identity[n].user = u /\ identity'[n].user = u
         /\ \A m \in Ids \ {n} : identity'[m] = identity[m]
<1>1. /\ RowsInv'
      /\ identity'[n].status = "revoked" /\ identity'[n].user = u
      /\ identity'[n].subject = identity[n].subject
      /\ \A m \in Ids \ {n} : identity'[m] = identity[m]
      /\ \A a \in Emails :
           IF email[a].status = "active" /\ email[a].id = n
           THEN email'[a].status = "revoked" ELSE email'[a] = email[a]
  BY RemovedRows
<1>2. identity[n].status = "verified" /\ identity[n].user = u
  BY DEF Removed, MayRemove, IsMethod
<1>3. PICK m \in Ids \ {n} : identity[m].status = "verified" /\ identity[m].user = u
  BY DEF Removed, MayRemove, IsMethod
<1>4. MethodsConsistent'
  <2>1. Consistent(identity, email)
    BY SessionAssumption, ConsistentNow
  <2>2. Consistent(identity', email')
    BY <1>1, <2>1, WithoutConsistent
  <2> QED
    BY <1>1, <2>2, ConsistentNext, SessionAssumption
<1>5. PICK x \in Subjects : x = identity[n].subject
  BY <1>2 DEF RowsInv
<1>6. PICK y \in Subjects : y = identity[m].subject
  BY <1>3 DEF RowsInv
<1>7. \A z \in Subjects : \A k, l \in Ids :
        Opens(identity, k, z) /\ Opens(identity, l, z) => k = l
  BY OpensOnce, SessionAssumption
<1>8. x # y
  BY <1>2, <1>3, <1>5, <1>6, <1>7 DEF Opens
<1>9. HolderIn(identity, x) = u
  BY <1>2, <1>5, <1>7, HolderOpens DEF Opens
<1>10. HolderIn(identity, y) = u
  BY <1>3, <1>6, <1>7, HolderOpens DEF Opens
<1>11. HolderIn(identity', x) = None
  <2>1. \A k \in Ids : ~Opens(identity', k, x)
    BY <1>1, <1>2, <1>5, <1>7 DEF Opens
  <2> QED
    BY <2>1, NobodyHolds
<1>12. ASSUME NEW z \in Subjects, z # x
       PROVE  HolderIn(identity', z) = HolderIn(identity, z)
  <2>1. \A k \in Ids : Opens(identity, k, z) <=> Opens(identity', k, z)
    BY <1>1, <1>5, <1>12 DEF Opens
  <2>2. \A k \in Ids : Opens(identity, k, z) => identity'[k].user = identity[k].user
    BY <1>1, <1>2 DEF Opens
  <2> QED
    BY <1>7, <2>1, <2>2, HolderSame
<1>13. holder' = [holder EXCEPT ![x] = None]
  BY <1>11, <1>12, HolderAndRetired
<1>14. retired' = retired \cup {x}
  <2>1. ASSUME NEW z \in Subjects
        PROVE  (\E k \in Ids : identity'[k].status = "revoked" /\ identity'[k].subject = z)
                 <=> \/ \E k \in Ids : identity[k].status = "revoked"
                                         /\ identity[k].subject = z
                     \/ z = x
    BY <1>1, <1>2, <1>5
  <2>2. RetiredIn(identity') = RetiredIn(identity) \cup {x}
    BY <2>1 DEF RetiredIn
  <2> QED
    BY <2>2, HolderAndRetired
<1>15. holder[x] = u /\ holder[y] = u /\ holder'[x] = None /\ u # None
  BY <1>9, <1>10, <1>11, HolderAndRetired, SessionAssumption
<1>16. Custodian!Retire(x)
  BY <1>8, <1>13, <1>14, <1>15 DEF Custodian!Retire
<1>17. Custodian!Next
  BY <1>15, <1>16 DEF Custodian!Next
<1> QED
  BY <1>1, <1>2, <1>4, <1>17 DEF CustodyStep

-----------------------------------------------------------------------------
(* What happens to sessions                                                *)

\* The date of the last reauthentication is all that changes.
Redated ==
  /\ SessionsInv'
  /\ \A t \in Sessions :
       /\ session'[t].status = session[t].status /\ session'[t].user = session[t].user
       /\ session'[t].how = session[t].how /\ session'[t].via = session[t].via

LEMMA FreshSet ==
  ASSUME SessionsInv, NEW s \in Sessions, NEW b \in BOOLEAN,
         session' = [session EXCEPT ![s] = [session[s] EXCEPT !.fresh = b]]
  PROVE  Redated
<1> DEFINE row == [session[s] EXCEPT !.fresh = b]
<1>1. session[s] \in SessionRows
  BY DEF SessionsInv
<1>2. /\ row \in SessionRows /\ row.status = session[s].status
      /\ row.user = session[s].user /\ row.how = session[s].how
      /\ row.via = session[s].via
  BY <1>1 DEF SessionRows
<1> HIDE DEF row
<1>3. /\ session' \in [Sessions -> SessionRows] /\ session'[s] = row
      /\ \A t \in Sessions \ {s} : session'[t] = session[t]
  BY <1>2 DEF SessionsInv, row
<1>4. \A t \in Sessions :
        /\ session'[t].status = session[t].status /\ session'[t].user = session[t].user
        /\ session'[t].how = session[t].how /\ session'[t].via = session[t].via
  BY <1>2, <1>3
<1> QED
  BY <1>3, <1>4 DEF SessionsInv, Redated

\* Held sessions are sessions.
LEMMA HeldIsSession ==
  ASSUME CallsInv, NEW q \in Requests, request[q].pc = "locked"
  PROVE  request[q].session \in Sessions /\ request[q].user \in Users
BY DEF CallsInv, GoodCall

LEMMA RedatedHeld ==
  ASSUME CallsInv, LocksInv, Redated
  PROVE  \A q \in Requests :
           request[q].pc = "locked" =>
             /\ session'[request[q].session].status = "live"
             /\ session'[request[q].session].user = request[q].user
BY HeldIsSession DEF LocksInv, IsLive, Redated

LEMMA ClosedSessions ==
  ASSUME SessionsInv, NEW ts, session' = Closed(ts)
  PROVE  /\ SessionsInv'
         /\ \A t \in Sessions : t \in ts => session'[t].status = "closed"
         /\ \A t \in Sessions : t \notin ts => session'[t] = session[t]
<1>1. ClosedSession \in SessionRows /\ ClosedSession.status = "closed"
  BY DEF ClosedSession, NoSession, SessionRows
<1>2. /\ session' \in [Sessions -> SessionRows]
      /\ \A t \in Sessions : t \in ts => session'[t] = ClosedSession
      /\ \A t \in Sessions : t \notin ts => session'[t] = session[t]
  BY <1>1 DEF SessionsInv, Closed
<1> QED
  BY <1>1, <1>2 DEF SessionsInv

\* Nothing but sessions changes.
LEMMA SessionRound ==
  ASSUME IInv, UNCHANGED <<request, rows>>, SessionsInv', Continued,
         \A q \in Requests :
           request[q].pc = "locked" =>
             /\ session'[request[q].session].status = "live"
             /\ session'[request[q].session].user = request[q].user
  PROVE  Promise
<1>1. CallsInv'
  BY DEF IInv, CallsInv
<1>2. LocksInv'
  BY LocksOfSessions DEF IInv
<1>3. RowsInv' /\ ProofsInv' /\ MethodsConsistent' /\ InHands /\ CustodyStep
  BY RowsUnchanged DEF IInv
<1>4. SessionsHaveTheirMethod'
  BY MethodsOfSessionsKept DEF IInv, rows
<1>5. CountsInv'
  BY CountsUnchanged DEF IInv, rows
<1> QED
  BY <1>1, <1>2, <1>3, <1>4, <1>5 DEF IInv, Promise

LEMMA RedatedRound ==
  ASSUME IInv, UNCHANGED <<request, rows>>, Redated
  PROVE  Promise
<1>1. Continued
  BY DEF Redated, Continued
<1>2. SessionsInv'
  BY DEF Redated
<1> QED
  BY <1>1, <1>2, RedatedHeld, SessionRound DEF IInv

LEMMA ClosedRound ==
  ASSUME IInv, UNCHANGED <<request, rows>>, NEW ts, session' = Closed(ts),
         \A t \in ts : Unlocked(t)
  PROVE  Promise
<1>1. /\ SessionsInv'
      /\ \A t \in Sessions : t \in ts => session'[t].status = "closed"
      /\ \A t \in Sessions : t \notin ts => session'[t] = session[t]
  BY ClosedSessions DEF IInv
<1>2. Continued
  BY <1>1 DEF Continued
<1>3. ASSUME NEW q \in Requests, request[q].pc = "locked"
      PROVE  /\ session'[request[q].session].status = "live"
             /\ session'[request[q].session].user = request[q].user
  <2>1. request[q].session \in Sessions
    BY <1>3, HeldIsSession DEF IInv
  <2>2. request[q].session \notin ts
    BY <1>3 DEF Unlocked, Holds
  <2> QED
    BY <1>1, <1>3, <2>1, <2>2 DEF IInv, LocksInv, IsLive
<1> QED
  BY <1>1, <1>2, <1>3, SessionRound

LEMMA SessionwiseStep ==
  ASSUME IInv, Sessionwise, UNCHANGED rows
  PROVE  Promise
<1>1. ASSUME NEW s \in Sessions, NEW t \in Sessions, Revoke(s, t)
      PROVE  Promise
  BY <1>1, ClosedRound DEF Revoke
<1>2. ASSUME NEW s \in Sessions, RevokeOthers(s)
      PROVE  Promise
  BY <1>2, ClosedRound DEF RevokeOthers
<1>3. ASSUME NEW s \in Sessions, Lapse(s)
      PROVE  Promise
  <2>1. Redated
    BY <1>3, FreshSet DEF Lapse, IInv
  <2> QED
    BY <1>3, <2>1, RedatedRound DEF Lapse
<1>4. ASSUME NEW s \in Sessions, Expire(s)
      PROVE  Promise
  BY <1>4, ClosedRound DEF Expire
<1> QED
  BY <1>1, <1>2, <1>3, <1>4 DEF Sessionwise

LEMMA StepUpEmailStep ==
  ASSUME IInv, NEW r \in Requests, NEW s \in Sessions, StepUpEmail(r, s)
  PROVE  Promise
<1>1. Redated
  BY FreshSet DEF StepUpEmail, Refreshed, IInv
<1> QED
  BY <1>1, RedatedRound DEF StepUpEmail

LEMMA MarkStep ==
  ASSUME IInv, NEW r \in Requests, Mark(r)
  PROVE  Promise
<1>1. request[r].session \in Sessions
  BY GoodRequest DEF Mark, GoodCall
<1>2. Redated
  BY <1>1, FreshSet DEF Mark, Refreshed, IInv
<1>3. CallsInv' /\ request'[r] = NoCall /\ \A q \in Requests \ {r} : request'[q] = request[q]
  BY NoCallGood, CallsKept DEF Mark, IInv
<1>4. HeldBut(r)
  BY <1>2, RedatedHeld DEF HeldBut, IInv
<1>5. LocksInv'
  BY <1>3, <1>4, NoCallGood, LocksKept DEF IInv
<1>6. RowsInv' /\ ProofsInv' /\ MethodsConsistent' /\ InHands /\ CustodyStep
  BY RowsUnchanged DEF IInv, Mark
<1>7. Continued
  BY <1>2 DEF Redated, Continued
<1>8. SessionsHaveTheirMethod'
  BY <1>7, MethodsOfSessionsKept DEF IInv, Mark, rows
<1>9. CountsInv'
  BY <1>3, NoCallGood, CountsKept DEF IInv, MethodsBut, Mark, rows
<1> QED
  BY <1>2, <1>3, <1>5, <1>6, <1>8, <1>9 DEF IInv, Promise, Redated

LEMMA MethodsUnchanged ==
  ASSUME RowsInv, MethodsConsistent, UNCHANGED <<identity, email>>
  PROVE  RowsInv' /\ MethodsConsistent' /\ InHands /\ CustodyStep
<1>1. UNCHANGED Custodian!vars
  BY DEF Custodian!vars, holder, retired, Verified
<1>2. RowsInv'
  BY DEF RowsInv
<1>3. MethodsConsistent'
  BY DEF MethodsConsistent, IsMethod
<1>4. InHands
  BY DEF InHands
<1> QED
  BY <1>1, <1>2, <1>3, <1>4 DEF CustodyStep

\* The proof of a Discord account is recorded.
LEMMA ProveDiscordStep ==
  ASSUME IInv, NEW r \in Requests, NEW p \in Proofs, NEW x \in Discords,
         ProveDiscord(r, p, x)
  PROVE  Promise
<1>1. PICK s \in Sessions : s = request[r].session
  BY GoodRequest DEF ProveDiscord, Callback, GoodCall
<1>2. PICK u \in Users : u = request[r].user
  BY GoodRequest DEF ProveDiscord, Callback, GoodCall
<1> DEFINE row == [status |-> "open", user |-> u, session |-> s, subject |-> x]
<1>3. row \in ProofRows /\ row.subject = x
  BY DEF ProofRows
<1>4. proof' = [proof EXCEPT ![p] = row]
  BY <1>1, <1>2 DEF ProveDiscord
<1> HIDE DEF row
<1>5. ProofsInv'
  BY <1>3, <1>4 DEF IInv, ProofsInv
<1>6. CallsInv' /\ request'[r] = NoCall /\ \A q \in Requests \ {r} : request'[q] = request[q]
  BY NoCallGood, CallsKept DEF ProveDiscord, IInv
<1>7. UNCHANGED session /\ UNCHANGED <<identity, email>>
  BY DEF ProveDiscord
<1>8. LocksInv'
  BY <1>6, <1>7, NoCallGood, LocksKept, HeldUnchanged DEF IInv
<1>9. SessionsInv'
  BY <1>7, SessionsUnchanged DEF IInv
<1>10. RowsInv' /\ MethodsConsistent' /\ InHands /\ CustodyStep
  BY <1>7, MethodsUnchanged DEF IInv
<1>11. SessionsHaveTheirMethod'
  BY <1>7 DEF IInv, SessionsHaveTheirMethod, IsMethod
<1>12. CountsInv'
  BY <1>6, <1>7, NoCallGood, CountsKept DEF IInv, MethodsBut
<1> QED
  BY <1>5, <1>6, <1>8, <1>9, <1>10, <1>11, <1>12 DEF IInv, Promise

\* A session is opened with a method that may have gone meanwhile.
LEMMA OpenStep ==
  ASSUME IInv, NEW r \in Requests, NEW s \in Sessions, Open(r, s)
  PROVE  Promise
<1>1. PICK u \in Users : u = request[r].user
  BY GoodRequest DEF Open, GoodCall
<1>2. PICK n \in Ids : n = request[r].id
  BY GoodRequest DEF Open, GoodCall
<1>3. request[r].trusted \in BOOLEAN
  BY GoodRequest DEF Calls
<1>4. PICK t \in BOOLEAN : t = request[r].trusted
  BY <1>3, Zenon
<1>5. PICK how \in {"method", "late"} : how = IF IsMethod(n, u) THEN "method" ELSE "late"
  OBVIOUS
<1>6. session' = [session EXCEPT ![s] = Issued(u, t, n, how)]
  BY <1>1, <1>2, <1>4, <1>5, Zenon DEF Open
<1> DEFINE row == Issued(u, t, n, how)
<1>7. /\ row \in SessionRows /\ row.status = "live" /\ row.user = u /\ row.how = how
      /\ how = "method" => row.via = n
  BY DEF Issued, SessionRows
<1> HIDE DEF row
<1>8. /\ session' \in [Sessions -> SessionRows] /\ session'[s] = row
      /\ \A z \in Sessions \ {s} : session'[z] = session[z]
  BY <1>6, <1>7 DEF row, IInv, SessionsInv
<1>9. SessionsInv'
  BY <1>7, <1>8 DEF IInv, SessionsInv
<1>10. CallsInv' /\ request'[r] = NoCall /\ \A q \in Requests \ {r} : request'[q] = request[q]
  BY NoCallGood, CallsKept DEF Open, IInv
<1>11. session[s].status # "live"
  BY DEF Open, NoSession
<1>12. HeldBut(r)
  <2> SUFFICES ASSUME NEW q \in Requests \ {r}, request[q].pc = "locked"
               PROVE  /\ session'[request[q].session].status = "live"
                      /\ session'[request[q].session].user = request[q].user
    BY DEF HeldBut
  <2>1. /\ session[request[q].session].status = "live"
        /\ session[request[q].session].user = request[q].user
    BY DEF IInv, LocksInv, IsLive
  <2>2. request[q].session \in Sessions \ {s}
    BY <1>11, <2>1, HeldIsSession DEF IInv
  <2> QED
    BY <1>8, <2>1, <2>2
<1>13. LocksInv'
  BY <1>10, <1>12, NoCallGood, LocksKept DEF IInv
<1>14. UNCHANGED rows
  BY DEF Open
<1>15. RowsInv' /\ ProofsInv' /\ MethodsConsistent' /\ InHands /\ CustodyStep
  BY <1>14, RowsUnchanged DEF IInv
<1>16. SessionsHaveTheirMethod'
  <2> SUFFICES ASSUME NEW z \in Sessions, session'[z].status = "live",
                      session'[z].how = "method"
               PROVE  /\ identity'[session'[z].via].status = "verified"
                      /\ identity'[session'[z].via].user = session'[z].user
    BY DEF SessionsHaveTheirMethod, IsMethod
  <2>1. CASE z = s
    <3>1. IsMethod(n, u)
      BY <1>5, <1>7, <1>8, <2>1
    <3> QED
      BY <1>5, <1>7, <1>8, <1>14, <2>1, <3>1 DEF IsMethod, rows
  <2>2. CASE z # s
    BY <1>8, <1>14, <2>2 DEF IInv, SessionsHaveTheirMethod, IsMethod, rows
  <2> QED
    BY <2>1, <2>2
<1>17. CountsInv'
  BY <1>10, <1>14, NoCallGood, CountsKept DEF IInv, MethodsBut, rows
<1> QED
  BY <1>9, <1>10, <1>13, <1>15, <1>16, <1>17 DEF IInv, Promise

-----------------------------------------------------------------------------
(* New accounts                                                            *)

\* Methods that sessions were opened with are none that is new.
LEMMA MethodsOfSessionsApart ==
  ASSUME SessionsInv, SessionsHaveTheirMethod, Continued, NEW n \in Ids,
         identity[n].status = "absent",
         \A m \in Ids \ {n} : identity'[m] = identity[m]
  PROVE  SessionsHaveTheirMethod'
<1> SUFFICES ASSUME NEW s \in Sessions, session'[s].status = "live",
                    session'[s].how = "method"
             PROVE  /\ identity'[session'[s].via].status = "verified"
                    /\ identity'[session'[s].via].user = session'[s].user
  BY DEF SessionsHaveTheirMethod, IsMethod
<1>1. /\ session[s].status = "live" /\ session'[s].user = session[s].user
      /\ session[s].how = "method" /\ session'[s].via = session[s].via
  BY DEF Continued
<1>2. session[s].via \in Ids
  BY <1>1 DEF SessionsInv
<1>3. /\ identity[session[s].via].status = "verified"
      /\ identity[session[s].via].user = session[s].user
  BY <1>1 DEF SessionsHaveTheirMethod, IsMethod
<1> QED
  BY <1>1, <1>2, <1>3

LEMMA NewHasNoAddress ==
  ASSUME RowsInv, MethodsConsistent, NEW u, IsNew(u)
  PROVE  ~HasAddress(u)
<1>1. Consistent(identity, email)
  BY SessionAssumption, ConsistentNow
<1> QED
  BY <1>1 DEF Consistent, Owned, IsNew, HasAddress, IsAddress

\* The step of a request that makes a new account.
LEMMA AccountStep ==
  ASSUME IInv, NEW r \in Requests, NEW c, GoodCall(c), c.pc # "locked", Becomes(r, c),
         UNCHANGED <<session, proof>>,
         NEW n \in Ids, NEW u \in Users, NEW x \in Subjects, NewMethod(n, u, x), IsNew(u)
  PROVE  Promise
<1>1. CallsInv' /\ request'[r] = c /\ \A q \in Requests \ {r} : request'[q] = request[q]
  BY CallsKept DEF IInv
<1>2. LocksInv'
  BY <1>1, LocksKept, HeldUnchanged DEF IInv
<1>3. SessionsInv'
  BY SessionsUnchanged DEF IInv
<1>4. ProofsInv'
  BY DEF IInv, ProofsInv
<1>5. /\ RowsInv' /\ MethodsConsistent' /\ CustodyStep
      /\ identity'[n].user = u
      /\ identity[n].status = "absent"
      /\ \A m \in Ids \ {n} : identity'[m] = identity[m]
  BY NewMethodTaken DEF IInv
<1>6. SessionsHaveTheirMethod'
  <2>1. Continued
    BY DEF Continued
  <2> QED
    BY <1>5, <2>1, MethodsOfSessionsApart DEF IInv
<1>7. InHands
  <2> SUFFICES ASSUME NEW m \in Ids, NEW v \in Users, identity'[m] # identity[m],
                      v = identity'[m].user, ~IsNew(v)
               PROVE  FALSE
    BY DEF InHands
  <2>1. m = n /\ v = u
    BY <1>5
  <2> QED
    BY <2>1
<1>8. CountsInv'
  <2>1. MethodsBut(r)
    BY <1>5 DEF MethodsBut
  <2> QED
    BY <1>1, <2>1, CountsKept DEF IInv
<1> QED
  BY <1>1, <1>2, <1>3, <1>4, <1>5, <1>6, <1>7, <1>8 DEF IInv, Promise

LEMMA CreateDiscordStep ==
  ASSUME IInv, NEW r \in Requests, NEW u \in Users, NEW n \in Ids, CreateDiscord(r, u, n)
  PROVE  Promise
<1>1. PICK x \in Discords : x = request[r].subject
  BY GoodRequest DEF CreateDiscord, GoodCall
<1>2. PICK e \in Emails \cup {None} : e = request[r].address
  BY GoodRequest DEF Calls
<1>3. CASE Becomes(r, [request[r] EXCEPT !.pc = "again"]) /\ UNCHANGED rows
  <2>1. /\ GoodCall([request[r] EXCEPT !.pc = "again"])
        /\ [request[r] EXCEPT !.pc = "again"].pc = "again"
    <3> DEFINE c == [request[r] EXCEPT !.pc = "again"]
    <3>1. c \in Calls /\ c.pc = "again" /\ c.subject = request[r].subject
      BY GoodRequest, MovedCall
    <3> HIDE DEF c
    <3>2. GoodCall(c)
      BY <1>1, <3>1 DEF GoodCall
    <3> QED
      BY <3>1, <3>2 DEF c
  <2> QED
    BY <1>3, <2>1, RequestStep DEF CreateDiscord
<1>4. CASE /\ ~Taken(x) /\ IsNew(u) /\ Vacant(n)
           /\ Linked(n, u, x)
           /\ \/ e = None /\ UNCHANGED email
              \/ e # None /\ Unrecorded(e) /\ Recorded(e, u, n)
           /\ Becomes(r, [request[r] EXCEPT !.pc = "open", !.user = u, !.id = n])
           /\ UNCHANGED proof
  <2>1. ~HasAddress(u)
    BY <1>4, NewHasNoAddress DEF IInv
  <2>2. NewMethod(n, u, x)
    BY <1>4, <2>1 DEF NewMethod
  <2>3. /\ GoodCall([request[r] EXCEPT !.pc = "open", !.user = u, !.id = n])
        /\ [request[r] EXCEPT !.pc = "open", !.user = u, !.id = n].pc = "open"
    BY GoodRequest, OpenCall
  <2>4. x \in Subjects /\ UNCHANGED <<session, proof>>
    BY <1>4 DEF Subjects, CreateDiscord
  <2> QED
    BY <1>4, <2>2, <2>3, <2>4, AccountStep
<1> QED
  BY <1>1, <1>2, <1>3, <1>4 DEF CreateDiscord

LEMMA SignInEmailStep ==
  ASSUME IInv, NEW r \in Requests, NEW e \in Emails, NEW u \in Users, NEW n \in Ids,
         SignInEmail(r, e, u, n)
  PROVE  Promise
<1> DEFINE c == [NoCall EXCEPT !.pc = "open", !.op = "sign-in-email", !.user = u,
                               !.id = n, !.trusted = TRUE]
<1>1. GoodCall(c) /\ c.pc = "open"
  BY EmailCall
<1>2. Becomes(r, c) /\ UNCHANGED session
  BY DEF SignInEmail
<1> HIDE DEF c
<1>3. CASE UNCHANGED rows
  BY <1>1, <1>2, <1>3, RequestStep
<1>4. CASE CreateEmailAccount(e, u, n)
  <2>1. ~HasAddress(u)
    BY <1>4, NewHasNoAddress DEF IInv, CreateEmailAccount
  <2>2. NewMethod(n, u, e)
    BY <1>4, <2>1 DEF NewMethod, CreateEmailAccount
  <2>3. e \in Subjects /\ IsNew(u) /\ UNCHANGED <<session, proof>>
    BY <1>2, <1>4 DEF Subjects, CreateEmailAccount
  <2> QED
    BY <1>1, <1>2, <2>2, <2>3, AccountStep
<1> QED
  BY <1>3, <1>4 DEF SignInEmail

-----------------------------------------------------------------------------
(* The end of a security change                                            *)

LEMMA SecuredSessions ==
  ASSUME SessionsInv, NEW s \in Sessions, NEW u \in Users, NEW b \in BOOLEAN,
         session' = Secured(s, u, b)
  PROVE  /\ SessionsInv'
         /\ session'[s].status = "live" /\ session'[s].user = u
         /\ session'[s].fresh /\ session'[s].how = "kept"
         /\ \A t \in Sessions \ {s} : IsLive(t, u) => session'[t].status = "closed"
         /\ \A t \in Sessions \ {s} : ~IsLive(t, u) => session'[t] = session[t]
<1> DEFINE row == Reauthenticated(s, u, b)
<1>1. /\ row \in SessionRows /\ row.status = "live" /\ row.user = u /\ row.how = "kept"
      /\ row.fresh = TRUE
  BY DEF Reauthenticated, SessionRows
<1>2. ClosedSession \in SessionRows /\ ClosedSession.status = "closed"
  BY DEF ClosedSession, NoSession, SessionRows
<1>3. session' = [[t \in Sessions |-> IF t \in LiveOf(u) THEN ClosedSession ELSE session[t]]
                    EXCEPT ![s] = row]
  BY DEF Secured, Closed
<1> HIDE DEF row
<1>4. /\ session' \in [Sessions -> SessionRows] /\ session'[s] = row
      /\ \A t \in Sessions \ {s} : t \in LiveOf(u) => session'[t] = ClosedSession
      /\ \A t \in Sessions \ {s} : t \notin LiveOf(u) => session'[t] = session[t]
  BY <1>1, <1>2, <1>3 DEF SessionsInv
<1>5. \A t \in Sessions : t \in LiveOf(u) <=> IsLive(t, u)
  BY DEF LiveOf
<1>6. SessionsInv'
  BY <1>1, <1>2, <1>4 DEF SessionsInv
<1>7. session'[s].fresh = TRUE
  BY <1>1, <1>4
<1>8. session'[s].fresh
  BY <1>7, Zenon
<1> QED
  BY <1>1, <1>2, <1>4, <1>5, <1>6, <1>8

\* Nobody who has another session of the user locked is left when a change commits.
LEMMA CommitSlots ==
  ASSUME IInv, NEW r \in Requests, NEW op, Commits(r, op)
  PROVE  /\ CallsInv' /\ request'[r].pc # "locked"
         /\ \A q \in Requests \ {r} : request'[q] = request[q]
         /\ \A q \in Requests \ {r} :
              request[q].pc = "locked" => request[q].user # request[r].user
<1>1. CallsInv' /\ request'[r] = NoCall /\ \A q \in Requests \ {r} : request'[q] = request[q]
  BY NoCallGood, CallsKept DEF Commits, IInv
<1>2. ASSUME NEW q \in Requests \ {r}, request[q].pc = "locked"
      PROVE  request[q].user # request[r].user
  <2>1. request[q].session # request[r].session
    BY <1>2 DEF Commits, IInv, LocksInv, Holds
  <2> QED
    BY <1>2, <2>1 DEF Commits, Waits
<1> QED
  BY <1>1, <1>2, NoCallGood

\* The transaction ends the other sessions of its user and keeps its own.
LEMMA CommitSessions ==
  ASSUME IInv, NEW r \in Requests, NEW op, Commits(r, op)
  PROVE  /\ SessionsInv' /\ CallsInv' /\ LocksInv'
         /\ request[r].user \in Users
         /\ \E s \in Sessions :
              /\ IsLive(s, request[r].user)
              /\ session'[s].status = "live" /\ session'[s].user = request[r].user
              /\ session'[s].fresh /\ session'[s].how = "kept"
              /\ \A t \in Sessions \ {s} :
                   IsLive(t, request[r].user) => session'[t].status = "closed"
              /\ \A t \in Sessions \ {s} :
                   ~IsLive(t, request[r].user) => session'[t] = session[t]
<1>1. PICK s \in Sessions : s = request[r].session
  BY GoodRequest DEF Commits, GoodCall
<1>2. PICK u \in Users : u = request[r].user
  BY GoodRequest DEF Commits, GoodCall
<1>3. TrustAfter(s, op) \in BOOLEAN
  <2>1. session[s].trusted \in BOOLEAN
    BY DEF IInv, SessionsInv, SessionRows
  <2> QED
    BY <2>1, Zenon DEF TrustAfter
<1>4. PICK b \in BOOLEAN : b = TrustAfter(s, op)
  BY <1>3, Zenon
<1>5. session' = Secured(s, u, b)
  BY <1>1, <1>2, <1>4, Zenon DEF Commits
<1>6. /\ SessionsInv'
      /\ session'[s].status = "live" /\ session'[s].user = u
      /\ session'[s].fresh /\ session'[s].how = "kept"
      /\ \A t \in Sessions \ {s} : IsLive(t, u) => session'[t].status = "closed"
      /\ \A t \in Sessions \ {s} : ~IsLive(t, u) => session'[t] = session[t]
  BY <1>5, SecuredSessions DEF IInv
<1>7. /\ CallsInv' /\ request'[r].pc # "locked"
      /\ \A q \in Requests \ {r} : request'[q] = request[q]
      /\ \A q \in Requests \ {r} : request[q].pc = "locked" => request[q].user # u
  BY <1>2, CommitSlots
<1>8. request[r].pc = "locked" /\ IsLive(s, u)
  BY <1>1, <1>2 DEF Commits
<1>9. ASSUME NEW q \in Requests \ {r}, request[q].pc = "locked"
      PROVE  /\ session'[request[q].session].status = "live"
             /\ session'[request[q].session].user = request[q].user
  <2>1. PICK t \in Sessions : t = request[q].session
    BY <1>9, HeldIsSession DEF IInv
  <2>2. session[t].status = "live" /\ session[t].user = request[q].user
    BY <1>9, <2>1 DEF IInv, LocksInv, IsLive
  <2>3. t # s
    BY <1>1, <1>8, <1>9, <2>1 DEF IInv, LocksInv, Holds
  <2>4. ~IsLive(t, u)
    BY <1>7, <1>9, <2>2 DEF IsLive
  <2> QED
    BY <1>6, <2>1, <2>2, <2>3, <2>4
<1>10. LocksInv'
  <2>1. HeldBut(r)
    BY <1>9 DEF HeldBut
  <2> QED
    BY <1>7, <2>1, LocksKept DEF IInv
<1> QED
  BY <1>1, <1>2, <1>6, <1>7, <1>8, <1>10, Zenon

\* A change of the method n of the user of r, and of nothing else.
LEMMA CommitStep ==
  ASSUME IInv, NEW r \in Requests, NEW op, Commits(r, op),
         RowsInv', ProofsInv', MethodsConsistent', CustodyStep,
         NEW n \in Ids, \A m \in Ids \ {n} : identity'[m] = identity[m],
         identity'[n].user = request[r].user,
         identity[n].status = "absent" \/ identity[n].user = request[r].user
  PROVE  Promise
<1>1. SessionsInv' /\ CallsInv' /\ LocksInv' /\ request[r].user \in Users
  BY CommitSessions
<1>2. PICK u \in Users : u = request[r].user
  BY <1>1
<1>3. PICK s \in Sessions :
        /\ IsLive(s, u)
        /\ session'[s].status = "live" /\ session'[s].user = u
        /\ session'[s].fresh /\ session'[s].how = "kept"
        /\ \A t \in Sessions \ {s} : IsLive(t, u) => session'[t].status = "closed"
        /\ \A t \in Sessions \ {s} : ~IsLive(t, u) => session'[t] = session[t]
  BY <1>2, CommitSessions, Zenon
<1>4. \A t \in Sessions \ {s} :
        session'[t].status = "live" => ~IsLive(t, u) /\ session'[t] = session[t]
  BY <1>3
<1>5. SessionsHaveTheirMethod'
  <2> SUFFICES ASSUME NEW t \in Sessions, session'[t].status = "live",
                      session'[t].how = "method"
               PROVE  /\ identity'[session'[t].via].status = "verified"
                      /\ identity'[session'[t].via].user = session'[t].user
    BY DEF SessionsHaveTheirMethod, IsMethod
  <2>1. t # s
    BY <1>3
  <2>2. session'[t] = session[t] /\ ~IsLive(t, u)
    BY <1>4, <2>1
  <2>3. session[t].status = "live" /\ session[t].how = "method" /\ session[t].user # u
    BY <2>2 DEF IsLive
  <2>4. session[t].via \in Ids
    BY <2>3 DEF IInv, SessionsInv
  <2>5. /\ identity[session[t].via].status = "verified"
        /\ identity[session[t].via].user = session[t].user
    BY <2>3 DEF IInv, SessionsHaveTheirMethod, IsMethod
  <2>6. session[t].via # n
    BY <1>2, <2>3, <2>5
  <2> QED
    BY <2>2, <2>4, <2>5, <2>6
<1>6. InHands
  <2> SUFFICES ASSUME NEW m \in Ids, NEW v \in Users, identity'[m] # identity[m],
                      v = identity'[m].user
               PROVE  \E t \in Sessions :
                        IsLive(t, v) /\ LiveOf(v)' = {t} /\ session'[t].fresh
    BY DEF InHands
  <2>1. m = n /\ v = u
    BY <1>2
  <2>2. \A t \in Sessions : session'[t].status = "live" /\ session'[t].user = u <=> t = s
    <3>1. ASSUME NEW t \in Sessions \ {s}, session'[t].status = "live", session'[t].user = u
          PROVE  FALSE
      BY <1>4, <3>1 DEF IsLive
    <3> QED
      BY <1>3, <3>1
  <2>3. LiveOf(u)' = {s}
    BY <2>2 DEF LiveOf, IsLive
  <2> QED
    BY <1>3, <2>1, <2>3, Zenon
<1>7. CountsInv'
  <2>1. /\ request'[r].pc # "locked" /\ \A q \in Requests \ {r} : request'[q] = request[q]
        /\ \A q \in Requests \ {r} : request[q].pc = "locked" => request[q].user # u
    BY <1>2, CommitSlots
  <2>2. MethodsBut(r)
    BY <1>2, <2>1 DEF MethodsBut
  <2> QED
    BY <2>1, <2>2, CountsKept DEF IInv
<1> QED
  BY <1>1, <1>5, <1>6, <1>7 DEF IInv, Promise

-----------------------------------------------------------------------------
(* The five security changes                                               *)

\* What a request that has its locks goes by.
LEMMA LockedRequest ==
  ASSUME IInv, NEW r \in Requests, NEW op, Commits(r, op)
  PROVE  /\ request[r].user \in Users
         /\ op = "link-discord" =>
              request[r].subject \in Discords /\ request[r].proof \in Proofs
         /\ op \in {"link-email", "change-email", "promote"} =>
              request[r].address \in Emails
         /\ op \in {"change-email", "remove"} => request[r].id \in Ids
BY GoodRequest DEF Commits, GoodCall

LEMMA ConsumedProof ==
  ASSUME ProofsInv, NEW p \in Proofs, Consumed(p)
  PROVE  ProofsInv'
<1> DEFINE row == [NoProof EXCEPT !.status = "consumed"]
<1>1. row \in ProofRows /\ row.status = "consumed"
  BY DEF NoProof, ProofRows
<1>2. proof' = [proof EXCEPT ![p] = row]
  BY DEF Consumed
<1> HIDE DEF row
<1> QED
  BY <1>1, <1>2 DEF ProofsInv

\* A change that gives the user of r a method on a new row.
LEMMA NewMethodStep ==
  ASSUME IInv, NEW r \in Requests, NEW op, Commits(r, op), ProofsInv',
         NEW n \in Ids, NEW x \in Subjects, NewMethod(n, request[r].user, x)
  PROVE  Promise
<1>1. request[r].user \in Users
  BY LockedRequest
<1>2. /\ RowsInv' /\ MethodsConsistent' /\ CustodyStep
      /\ identity'[n].user = request[r].user
      /\ identity[n].status = "absent"
      /\ \A m \in Ids \ {n} : identity'[m] = identity[m]
  BY <1>1, NewMethodTaken DEF IInv
<1> QED
  BY <1>2, CommitStep

LEMMA LinkDiscordStep ==
  ASSUME IInv, NEW r \in Requests, NEW n \in Ids, LinkDiscord(r, n)
  PROVE  Promise
<1>1. Commits(r, "link-discord")
  BY DEF LinkDiscord
<1>2. request[r].subject \in Discords /\ request[r].proof \in Proofs
  BY <1>1, LockedRequest
<1>3. ProofsInv'
  BY <1>2, ConsumedProof DEF LinkDiscord, IInv
<1>4. NewMethod(n, request[r].user, request[r].subject)
  BY <1>2 DEF LinkDiscord, NewMethod
<1>5. request[r].subject \in Subjects
  BY <1>2 DEF Subjects
<1> QED
  BY <1>1, <1>3, <1>4, <1>5, NewMethodStep

LEMMA LinkEmailStep ==
  ASSUME IInv, NEW r \in Requests, NEW n \in Ids, LinkEmail(r, n)
  PROVE  Promise
<1>1. Commits(r, "link-email")
  BY DEF LinkEmail
<1>2. request[r].address \in Emails
  BY <1>1, LockedRequest
<1>3. ProofsInv'
  BY DEF LinkEmail, IInv, ProofsInv
<1>4. NewMethod(n, request[r].user, request[r].address)
  BY <1>2 DEF LinkEmail, NewMethod
<1>5. request[r].address \in Subjects
  BY <1>2 DEF Subjects
<1> QED
  BY <1>1, <1>3, <1>4, <1>5, NewMethodStep

LEMMA ChangeEmailStep ==
  ASSUME IInv, NEW r \in Requests, NEW old \in Emails, ChangeEmail(r, old)
  PROVE  Promise
<1>1. Commits(r, "change-email") /\ UNCHANGED proof
  BY DEF ChangeEmail
<1>2. PICK u \in Users : u = request[r].user
  BY <1>1, LockedRequest
<1>3. PICK e \in Emails : e = request[r].address
  BY <1>1, LockedRequest
<1>4. PICK n \in Ids : n = request[r].id
  BY <1>1, LockedRequest
<1>5. Exchanged(n, u, e, old)
  BY <1>2, <1>3, <1>4 DEF ChangeEmail, Exchanged
<1>6. /\ RowsInv' /\ MethodsConsistent' /\ CustodyStep
      /\ identity[n].user = u /\ identity'[n].user = u
      /\ \A m \in Ids \ {n} : identity'[m] = identity[m]
  BY <1>1, <1>5, MethodExchanged DEF IInv
<1>7. ProofsInv'
  BY <1>1 DEF IInv, ProofsInv
<1> QED
  BY <1>1, <1>2, <1>6, <1>7, CommitStep

LEMMA RemoveStep ==
  ASSUME IInv, NEW r \in Requests, Remove(r)
  PROVE  Promise
<1>1. Commits(r, "remove") /\ UNCHANGED proof
  BY DEF Remove
<1>2. PICK u \in Users : u = request[r].user
  BY <1>1, LockedRequest
<1>3. PICK n \in Ids : n = request[r].id
  BY <1>1, LockedRequest
<1>4. Removed(n, u)
  BY <1>1, <1>2, <1>3 DEF Remove, Removed, Commits, IInv, CountsInv
<1>5. /\ RowsInv' /\ MethodsConsistent' /\ CustodyStep
      /\ identity[n].user = u /\ identity'[n].user = u
      /\ \A m \in Ids \ {n} : identity'[m] = identity[m]
  BY <1>4, MethodRemoved DEF IInv
<1>6. ProofsInv'
  BY <1>1 DEF IInv, ProofsInv
<1> QED
  BY <1>1, <1>2, <1>5, <1>6, CommitStep

\* A promotion finds the address with the account, or a row to put it in.
LEMMA PromoteStep ==
  ASSUME IInv, NEW r \in Requests, NEW n \in Ids, Promote(r, n)
  PROVE  Promise
<1>1. Commits(r, "promote") /\ UNCHANGED proof
  BY DEF Promote
<1>2. PICK u \in Users : u = request[r].user
  BY <1>1, LockedRequest
<1>3. PICK e \in Emails : e = request[r].address
  BY <1>1, LockedRequest
<1>4. ProofsInv'
  BY <1>1 DEF IInv, ProofsInv
<1> DEFINE mine == [status |-> "active", user |-> u, id |-> n]
<1>5. /\ \/ IsMethod(n, u) /\ identity[n].subject = e /\ UNCHANGED identity
         \/ Vacant(n) /\ ~Taken(e) /\ Linked(n, u, e)
      /\ \/ email[e] = mine /\ UNCHANGED email
         \/ Unrecorded(e) /\ ~HasAddress(u) /\ Recorded(e, u, n)
  BY <1>2, <1>3 DEF Promote
<1>6. email[e] = mine => email[e].status = "active" /\ email[e].id = n
  BY DEF mine
<1> HIDE DEF mine
<1>7. CASE Vacant(n) /\ ~Taken(e) /\ Linked(n, u, e)
  <2>1. email[e] # mine
    BY <1>6, <1>7 DEF IInv, MethodsConsistent, IsMethod, Vacant
  <2>2. NewMethod(n, u, e)
    BY <1>5, <1>7, <2>1 DEF NewMethod
  <2>3. e \in Subjects
    BY DEF Subjects
  <2> QED
    BY <1>1, <1>2, <1>4, <2>2, <2>3, NewMethodStep
<1>8. CASE IsMethod(n, u) /\ identity[n].subject = e /\ UNCHANGED identity
  <2>1. email[e] = [status |-> "active", user |-> identity[n].user, id |-> n]
    BY <1>8 DEF IInv, MethodsConsistent, IsMethod
  <2>2. email[e].status = "active"
    BY <2>1
  <2>3. UNCHANGED email
    BY <1>5, <2>2 DEF Unrecorded
  <2>4. UNCHANGED rows
    BY <1>1, <1>8, <2>3 DEF rows
  <2>5. RowsInv' /\ MethodsConsistent' /\ CustodyStep
    BY <2>4, RowsUnchanged DEF IInv
  <2>6. identity[n].user = u
    BY <1>8 DEF IsMethod
  <2> QED
    BY <1>1, <1>2, <1>4, <1>8, <2>5, <2>6, CommitStep
<1> QED
  BY <1>5, <1>7, <1>8

-----------------------------------------------------------------------------
(* What becomes of one session                                             *)

\* Only an open session is reauthenticated.
Awake == \A s \in Sessions : session[s].status # "live" => session[s].fresh = FALSE

SessionMoves ==
  \A s \in Sessions :
    \/ session'[s] = session[s]
    \/ /\ session[s].status = "absent" /\ session'[s].status = "live"
       /\ \E r \in Requests : request[r].pc = "open" /\ session'[s].user = request[r].user
    \/ session[s].status = "live" /\ session'[s].status = "closed"
    \/ /\ session[s].status = "live" /\ session'[s].status = "live"
       /\ session'[s].user = session[s].user
       /\ \/ session'[s].trusted = session[s].trusted
          \/ session'[s].trusted = TRUE /\ HasAddress(session[s].user)'

SessionsMove == SessionMoves /\ Awake'

LEMMA ClosedMoves ==
  ASSUME SessionsInv, Awake, NEW ts, session' = Closed(ts),
         \A t \in Sessions : t \in ts => session[t].status = "live"
  PROVE  SessionsMove
<1>1. ClosedSession.status = "closed" /\ ClosedSession.fresh = FALSE
  BY DEF ClosedSession, NoSession
<1>2. /\ \A t \in Sessions : t \in ts => session'[t] = ClosedSession
      /\ \A t \in Sessions : t \notin ts => session'[t] = session[t]
  BY DEF Closed
<1> QED
  BY <1>1, <1>2 DEF SessionsMove, SessionMoves, Awake

LEMMA FreshMoves ==
  ASSUME SessionsInv, Awake, NEW s \in Sessions, session[s].status = "live",
         NEW b \in BOOLEAN,
         session' = [session EXCEPT ![s] = [session[s] EXCEPT !.fresh = b]]
  PROVE  SessionsMove
<1> DEFINE row == [session[s] EXCEPT !.fresh = b]
<1>1. session[s] \in SessionRows
  BY DEF SessionsInv
<1>2. row.status = "live" /\ row.user = session[s].user /\ row.trusted = session[s].trusted
  BY <1>1 DEF SessionRows
<1> HIDE DEF row
<1>3. session'[s] = row /\ \A t \in Sessions \ {s} : session'[t] = session[t]
  BY DEF SessionsInv, row
<1> QED
  BY <1>2, <1>3 DEF SessionsMove, SessionMoves, Awake

LEMMA OpenMoves ==
  ASSUME IInv, Awake, NEW r \in Requests, NEW s \in Sessions, Open(r, s)
  PROVE  SessionsMove
<1>1. PICK u \in Users : u = request[r].user
  BY GoodRequest DEF Open, GoodCall
<1>2. request[r].trusted \in BOOLEAN
  BY GoodRequest DEF Calls
<1>3. PICK t \in BOOLEAN : t = request[r].trusted
  BY <1>2, Zenon
<1> DEFINE how == IF IsMethod(request[r].id, u) THEN "method" ELSE "late"
           row == Issued(u, t, request[r].id, how)
<1>4. session' = [session EXCEPT ![s] = row]
  BY <1>1, <1>3, Zenon DEF Open
<1>5. row.status = "live" /\ row.user = u
  BY DEF Issued
<1> HIDE DEF row
<1>6. session'[s] = row /\ \A z \in Sessions \ {s} : session'[z] = session[z]
  BY <1>4 DEF IInv, SessionsInv
<1>7. session[s].status = "absent" /\ request[r].pc = "open"
  BY DEF Open, NoSession
<1> QED
  BY <1>1, <1>5, <1>6, <1>7 DEF SessionsMove, SessionMoves, Awake

\* A security change: a promotion is one that leaves the user with an address.
LEMMA CommitMoves ==
  ASSUME IInv, Awake, NEW r \in Requests, NEW op, Commits(r, op),
         op = "promote" => \E e \in Emails : /\ email'[e].status = "active"
                                             /\ email'[e].user = request[r].user
  PROVE  SessionsMove
<1>1. PICK s \in Sessions : s = request[r].session
  BY GoodRequest DEF Commits, GoodCall
<1>2. PICK u \in Users : u = request[r].user
  BY GoodRequest DEF Commits, GoodCall
<1>3. session[s].trusted \in BOOLEAN
  BY DEF IInv, SessionsInv, SessionRows
<1>4. PICK b \in BOOLEAN : b = TrustAfter(s, op)
  <2>1. TrustAfter(s, op) \in BOOLEAN
    BY <1>3, Zenon DEF TrustAfter
  <2> QED
    BY <2>1, Zenon
<1>5. b = session[s].trusted \/ (b = TRUE /\ op = "promote")
  BY <1>3, <1>4 DEF TrustAfter
<1> DEFINE row == Reauthenticated(s, u, b)
<1>6. row.status = "live" /\ row.user = u /\ row.trusted = b
  BY DEF Reauthenticated
<1>7. session' = [[t \in Sessions |-> IF t \in LiveOf(u) THEN ClosedSession ELSE session[t]]
                    EXCEPT ![s] = row]
  BY <1>1, <1>2, <1>4, Zenon DEF Commits, Secured, Closed
<1> HIDE DEF row
<1>8. /\ session'[s] = row
      /\ \A t \in Sessions \ {s} : t \in LiveOf(u) => session'[t] = ClosedSession
      /\ \A t \in Sessions \ {s} : t \notin LiveOf(u) => session'[t] = session[t]
  BY <1>7
<1>9. ClosedSession.status = "closed" /\ ClosedSession.fresh = FALSE
  BY DEF ClosedSession, NoSession
<1>10. \A t \in LiveOf(u) : session[t].status = "live"
  BY DEF LiveOf, IsLive
<1>11. session[s].status = "live" /\ session[s].user = u
  BY <1>1, <1>2 DEF Commits, IsLive
<1>12. Awake'
  BY <1>6, <1>8, <1>9 DEF Awake
<1>13. op = "promote" => HasAddress(session[s].user)'
  BY <1>2, <1>6, <1>8, Zenon DEF HasAddress, IsAddress
<1> QED
  BY <1>5, <1>6, <1>8, <1>9, <1>10, <1>11, <1>12, <1>13 DEF SessionsMove, SessionMoves

LEMMA SessionsStay ==
  ASSUME Awake, UNCHANGED session
  PROVE  SessionsMove
BY DEF SessionsMove, SessionMoves, Awake

LEMMA StepMovesSessions ==
  ASSUME IInv, Awake, [Next]_vars
  PROVE  SessionsMove
<1>1. ASSUME NEW r \in Requests, SignIn(r)
      PROVE  SessionsMove
  BY <1>1, OpenMoves, SessionsStay
     DEF SignIn, SignInDiscord, CreateDiscord, FindAgain, SignInEmail
<1>2. ASSUME NEW r \in Requests, StepUp(r)
      PROVE  SessionsMove
  <2>1. ASSUME NEW s \in Sessions, StepUpEmail(r, s)
        PROVE  SessionsMove
    BY <2>1, FreshMoves
       DEF StepUpEmail, CompletesOtp, Authenticated, HasSession, Refreshed, IInv
  <2>2. CASE Mark(r)
    <3>1. request[r].session \in Sessions
      BY <2>2, GoodRequest DEF Mark, GoodCall
    <3> QED
      BY <2>2, <3>1, FreshMoves DEF Mark, IsLive, Refreshed, IInv
  <2> QED
    BY <1>2, <2>1, <2>2, SessionsStay DEF StepUp, Redirect, AssertDiscord, ProveDiscord
<1>3. ASSUME NEW r \in Requests, Begin(r) \/ LockUser(r) \/ Lock(r) \/ End(r)
      PROVE  SessionsMove
  BY <1>3, SessionsStay DEF Begin, BeginLinkDiscord, BeginEmail, BeginPromote,
                            BeginRemove, LockUser, Lock, End
<1>4. ASSUME NEW r \in Requests, Commit(r)
      PROVE  SessionsMove
  <2>1. ASSUME NEW n \in Ids, Promote(r, n)
        PROVE  SessionsMove
    <3>1. Commits(r, "promote")
      BY <2>1 DEF Promote
    <3>2. PICK u \in Users : u = request[r].user
      BY <3>1, LockedRequest
    <3>3. PICK e \in Emails : e = request[r].address
      BY <3>1, LockedRequest
    <3> DEFINE mine == [status |-> "active", user |-> u, id |-> n]
    <3>4. mine.status = "active" /\ mine.user = u
      OBVIOUS
    <3>5. \/ email[e] = mine /\ UNCHANGED email
          \/ email' = [email EXCEPT ![e] = mine]
      BY <2>1, <3>2, <3>3 DEF Promote, Recorded
    <3> HIDE DEF mine
    <3>6. email'[e] = mine
      BY <3>5 DEF IInv, RowsInv
    <3> QED
      BY <3>1, <3>2, <3>4, <3>6, CommitMoves
  <2>2. ASSUME NEW op \in {"link-discord", "link-email", "change-email", "remove"},
               Commits(r, op)
        PROVE  SessionsMove
    BY <2>2, CommitMoves
  <2> QED
    BY <1>4, <2>1, <2>2 DEF Commit, LinkDiscord, LinkEmail, ChangeEmail, Remove
<1>5. CASE Sessionwise
  <2>1. ASSUME NEW s \in Sessions, NEW t \in Sessions, Revoke(s, t)
        PROVE  SessionsMove
    BY <2>1, ClosedMoves DEF Revoke, IsLive, IInv
  <2>2. ASSUME NEW s \in Sessions, RevokeOthers(s)
        PROVE  SessionsMove
    <3>1. PICK ts : ts = LiveOf(session[s].user) \ {s}
      OBVIOUS
    <3>2. \A t \in Sessions : t \in ts => session[t].status = "live"
      BY <3>1 DEF LiveOf, IsLive
    <3>3. session' = Closed(ts)
      BY <2>2, <3>1 DEF RevokeOthers
    <3> QED
      BY <3>2, <3>3, ClosedMoves DEF IInv
  <2>3. ASSUME NEW s \in Sessions, Lapse(s)
        PROVE  SessionsMove
    <3>1. session[s].status = "live"
      BY <2>3 DEF Lapse, Awake
    <3> QED
      BY <2>3, <3>1, FreshMoves DEF Lapse, IInv
  <2>4. ASSUME NEW s \in Sessions, Expire(s)
        PROVE  SessionsMove
    BY <2>4, ClosedMoves DEF Expire, HasSession, IInv
  <2> QED
    BY <1>5, <2>1, <2>2, <2>3, <2>4 DEF Sessionwise
<1>6. CASE UNCHANGED vars
  BY <1>6, SessionsStay DEF vars
<1> QED
  BY <1>1, <1>2, <1>3, <1>4, <1>5, <1>6 DEF Next

-----------------------------------------------------------------------------
(* What becomes of methods, proofs and requests                            *)

\* Whoever holds a method in the sense of Custody has one, and the other way round.
LEMMA HoldersHaveMethods ==
  ASSUME NEW id, OneRowEach(id), NEW u \in Users,
         \A n \in Ids : id[n].status = "verified" => id[n].subject \in Subjects
  PROVE  (\E n \in Ids : id[n].status = "verified" /\ id[n].user = u)
           <=> \E x \in Subjects : HolderIn(id, x) = u
<1>0. u # None /\ None \notin Subjects
  BY SessionAssumption
<1>1. ASSUME NEW n \in Ids, id[n].status = "verified", id[n].user = u
      PROVE  id[n].subject \in Subjects /\ HolderIn(id, id[n].subject) = u
  <2>1. PICK x \in Subjects : x = id[n].subject
    BY <1>1
  <2>2. Opens(id, n, x) /\ \A m \in Ids : Opens(id, m, x) => m = n
    BY <1>0, <1>1, <2>1 DEF Opens, OneRowEach
  <2>3. HolderIn(id, x) = id[n].user
    BY <2>2, HolderOpens
  <2> QED
    BY <1>1, <2>1, <2>3
<1>2. ASSUME NEW x \in Subjects, HolderIn(id, x) = u
      PROVE  \E n \in Ids : id[n].status = "verified" /\ id[n].user = u
  <2>1. PICK n \in Ids : Opens(id, n, x)
    BY <1>0, <1>2, NobodyHolds
  <2>2. \A m \in Ids : Opens(id, m, x) => m = n
    BY <1>0, <2>1 DEF Opens, OneRowEach
  <2>3. HolderIn(id, x) = id[n].user
    BY <2>1, <2>2, HolderOpens
  <2> QED
    BY <1>2, <2>1, <2>3 DEF Opens
<1> QED
  BY <1>1, <1>2

LEMMA HoldersStay ==
  ASSUME CustodyStep, NEW u \in Users, NEW x \in Subjects, holder[x] = u
  PROVE  \E y \in Subjects : holder'[y] = u
<1>0. u # None
  BY SessionAssumption
<1>1. holder = [y \in Subjects |-> HolderIn(identity, y)]
  BY HolderAndRetired
<1> HIDE DEF holder
<1>2. CASE UNCHANGED Custodian!vars
  BY <1>2 DEF Custodian!vars
<1>3. ASSUME NEW m \in Subjects, NEW v \in Users, Custodian!Take(m, v)
      PROVE  holder'[x] = u
  BY <1>0, <1>1, <1>3 DEF Custodian!Take, Custodian!Free
<1>4. ASSUME NEW m \in Subjects, NEW n \in Subjects, Custodian!Exchange(m, n)
      PROVE  \E y \in Subjects : holder'[y] = u
  <2>1. holder[n] = None /\ holder[m] # None
    BY <1>4 DEF Custodian!Exchange, Custodian!Free
  <2>2. holder'[n] = holder[m] /\ \A y \in Subjects \ {m, n} : holder'[y] = holder[y]
    BY <1>1, <1>4, <2>1 DEF Custodian!Exchange
  <2> QED
    BY <1>0, <2>1, <2>2
<1>5. ASSUME NEW m \in Subjects, Custodian!Retire(m)
      PROVE  \E y \in Subjects : holder'[y] = u
  <2>1. PICK n \in Subjects \ {m} : holder[n] = holder[m]
    BY <1>5 DEF Custodian!Retire
  <2>2. \A y \in Subjects \ {m} : holder'[y] = holder[y]
    BY <1>1, <1>5 DEF Custodian!Retire
  <2> QED
    BY <2>1, <2>2
<1> QED
  BY <1>2, <1>3, <1>4, <1>5 DEF CustodyStep, Custodian!Next

LEMMA MethodsLast ==
  ASSUME IInv, Promise, NEW u \in Users, HasMethod(u)
  PROVE  HasMethod(u)'
<1>1. /\ OneRowEach(identity)
      /\ \A n \in Ids : identity[n].status = "verified" => identity[n].subject \in Subjects
  BY DEF IInv, RowsInv, MethodsConsistent, OneRowEach
<1>2. /\ OneRowEach(identity')
      /\ \A n \in Ids : identity'[n].status = "verified" => identity'[n].subject \in Subjects
  BY DEF Promise, IInv, RowsInv, MethodsConsistent, OneRowEach
<1>3. PICK x \in Subjects : HolderIn(identity, x) = u
  BY <1>1, HoldersHaveMethods DEF HasMethod, IsMethod
<1>4. holder[x] = u
  BY <1>3, HolderAndRetired
<1>5. PICK y \in Subjects : holder'[y] = u
  BY <1>4, HoldersStay DEF Promise
<1>6. HolderIn(identity', y) = u
  BY <1>5, HolderAndRetired
<1> QED
  BY <1>2, <1>6, HoldersHaveMethods DEF HasMethod, IsMethod

\* A request that links a Discord account, from its first check to its commit.
Linking(c) == c.pc \in {"user", "lock", "locked"} /\ c.op = "link-discord"

\* One step of a request: it is let in only with a method, and it links only what
\* it linked before or what an open proof says.
HasIn(id, u) == \E n \in Ids : id[n].status = "verified" /\ id[n].user = u

FromAProof(c) ==
  /\ c.proof \in Proofs /\ proof[c.proof].status = "open"
  /\ proof[c.proof].subject = c.subject
  /\ UNCHANGED proof

Moves(c, d) ==
  /\ d.pc = "open" => HasIn(identity', d.user)
  /\ Linking(d) =>
       \/ Linking(c) /\ d.proof = c.proof /\ d.subject = c.subject
       \/ FromAProof(d)

RequestsMove ==
  \A q \in Requests : request'[q] = request[q] \/ Moves(request[q], request'[q])

ProofsMove ==
  \A p \in Proofs :
    \/ proof'[p] = proof[p]
    \/ proof[p].status = "absent" /\ proof'[p].status = "open"
    \/ proof[p].status = "open" /\ proof'[p].status = "consumed"

LEMMA OneMoves ==
  ASSUME CallsInv, NEW r \in Requests, NEW c, Becomes(r, c), Moves(request[r], c)
  PROVE  RequestsMove
<1>1. request'[r] = c /\ \A q \in Requests \ {r} : request'[q] = request[q]
  BY DEF CallsInv, Becomes
<1> QED
  BY <1>1 DEF RequestsMove

\* A step that lets nobody in and starts no link.
LEMMA QuietMoves ==
  ASSUME CallsInv, NEW r \in Requests, NEW c, Becomes(r, c), c.pc # "open", ~Linking(c)
  PROVE  RequestsMove
BY OneMoves DEF Moves

LEMMA IdleMoves ==
  ASSUME CallsInv, NEW r \in Requests, Becomes(r, NoCall)
  PROVE  RequestsMove
BY QuietMoves, NoCallGood DEF Linking

LEMMA EntersMoves ==
  ASSUME CallsInv, NEW r \in Requests, NEW c, Becomes(r, c), c.pc = "open",
         HasIn(identity', c.user)
  PROVE  RequestsMove
BY OneMoves DEF Moves, Linking

\* On the way to the lock a request keeps what it links.
LEMMA LockMoves ==
  ASSUME IInv, NEW r \in Requests, NEW pc \in {"lock", "locked"},
         request[r].pc \in {"user", "lock"},
         Becomes(r, [request[r] EXCEPT !.pc = pc])
  PROVE  RequestsMove
<1> DEFINE c == [request[r] EXCEPT !.pc = pc]
<1>1. /\ c.pc = pc /\ c.op = request[r].op /\ c.subject = request[r].subject
      /\ c.proof = request[r].proof
  BY GoodRequest, MovedCall
<1> HIDE DEF c
<1> QED
  BY <1>1, OneMoves DEF Moves, Linking, IInv, c

LEMMA BeginLinkMoves ==
  ASSUME IInv, NEW r \in Requests, NEW s \in Sessions, NEW p \in Proofs,
         BeginLinkDiscord(r, s, p)
  PROVE  RequestsMove
<1>1. PICK u \in Users : u = session[s].user
  BY LiveHasUser DEF BeginLinkDiscord, HasFreshStepUp, Authenticated, HasSession, IInv
<1>2. PICK x \in Discords : x = proof[p].subject
  BY DEF BeginLinkDiscord, IsOpen, IInv, ProofsInv
<1> DEFINE a == SessionCall("lock", "link-discord", u, s)
           c == [a EXCEPT !.subject = x, !.proof = p]
<1>3. a \in Calls /\ a.pc = "lock"
  BY SessionCallFields DEF Operations, SecurityChanges
<1>4. Becomes(r, c)
  BY <1>1, <1>2 DEF BeginLinkDiscord, Change, SessionCall
<1> HIDE DEF a
<1>5. c.pc = "lock" /\ c.subject = x /\ c.proof = p
  BY <1>3 DEF Calls
<1> HIDE DEF c
<1>6. FromAProof(c)
  BY <1>2, <1>5 DEF FromAProof, BeginLinkDiscord, IsOpen, rows
<1> QED
  BY <1>4, <1>5, <1>6, OneMoves DEF Moves, IInv

\* A change of another kind begins.
LEMMA BeginMoves ==
  ASSUME IInv, NEW r \in Requests, NEW s \in Sessions, NEW n \in Ids \cup {None},
         NEW e \in Emails \cup {None}, session[s].status = "live",
         NEW op \in {"link-email", "change-email", "promote", "remove"},
         \/ Becomes(r, [Change(r, op, s) EXCEPT !.subject = e, !.address = e, !.id = n])
         \/ Becomes(r, [Change(r, op, s) EXCEPT !.subject = e, !.address = e])
         \/ Becomes(r, [Change(r, op, s) EXCEPT !.pc = "user", !.id = n])
  PROVE  RequestsMove
<1>1. PICK u \in Users : u = session[s].user
  BY LiveHasUser DEF IInv
<1> DEFINE a == SessionCall("lock", op, u, s)
           c == [a EXCEPT !.subject = e, !.address = e, !.id = n]
           d == [a EXCEPT !.subject = e, !.address = e]
           f == [a EXCEPT !.pc = "user", !.id = n]
<1>2. a \in Calls /\ a.pc = "lock" /\ a.op = op
  BY SessionCallFields DEF Operations, SecurityChanges
<1>3. Becomes(r, c) \/ Becomes(r, d) \/ Becomes(r, f)
  BY <1>1 DEF Change, SessionCall
<1> HIDE DEF a
<1>4. /\ c.pc = "lock" /\ c.op = op
      /\ d.pc = "lock" /\ d.op = op
      /\ f.pc = "user" /\ f.op = op
  BY <1>2 DEF Calls
<1> HIDE DEF c, d, f
<1> QED
  BY <1>3, <1>4, QuietMoves DEF Linking, IInv

LEMMA SignInDiscordMoves ==
  ASSUME IInv, NEW r \in Requests, NEW x \in Discords, NEW e \in UsableEmails,
         SignInDiscord(r, x, e)
  PROVE  RequestsMove
<1> DEFINE call == DiscordCall(x, e, (e # None))
<1>1. call \in Calls
  BY SignedInCall
<1>2. /\ \/ Becomes(r, [call EXCEPT !.pc = "create"])
         \/ \E n \in Ids :
              /\ Verified(n, x)
              /\ Becomes(r, [call EXCEPT !.pc = "open", !.id = n,
                               !.user = identity[n].user,
                               !.trusted = (e # None \/ HasAddress(identity[n].user))])
      /\ UNCHANGED rows
  BY DEF SignInDiscord, DiscordCall
<1> HIDE DEF call
<1>3. CASE Becomes(r, [call EXCEPT !.pc = "create"])
  <2>1. [call EXCEPT !.pc = "create"].pc = "create"
    BY <1>1, MovedCall
  <2> QED
    BY <1>3, <2>1, QuietMoves DEF Linking, IInv
<1>4. ASSUME NEW n \in Ids, Verified(n, x),
             Becomes(r, [call EXCEPT !.pc = "open", !.id = n, !.user = identity[n].user,
                               !.trusted = (e # None \/ HasAddress(identity[n].user))])
      PROVE  RequestsMove
  <2>1. PICK u \in Users : u = identity[n].user
    BY <1>4, MethodHasUser DEF Verified, IInv
  <2>2. PICK t \in BOOLEAN : t = (e # None \/ HasAddress(identity[n].user))
    <3>1. (e # None \/ HasAddress(identity[n].user)) \in BOOLEAN
      OBVIOUS
    <3> QED
      BY <3>1, Zenon
  <2> DEFINE a == [call EXCEPT !.pc = "open", !.id = n, !.user = u]
             c == [call EXCEPT !.pc = "open", !.id = n, !.user = u, !.trusted = t]
  <2>3. Becomes(r, c)
    BY <1>4, <2>1, <2>2, Zenon
  <2>4. a \in Calls /\ a.pc = "open" /\ a.user = u
    BY <1>1 DEF Calls
  <2>5. c = [a EXCEPT !.trusted = t]
    OBVIOUS
  <2> HIDE DEF a, c
  <2>6. c.pc = "open" /\ c.user = u
    BY <2>4, <2>5 DEF Calls
  <2>7. HasIn(identity', u)
    BY <1>2, <1>4, <2>1 DEF HasIn, Verified, rows
  <2> QED
    BY <2>3, <2>6, <2>7, EntersMoves DEF IInv
<1> QED
  BY <1>2, <1>3, <1>4

\* The request is let in with the row n that it found or made.
LEMMA LetInMoves ==
  ASSUME IInv, NEW r \in Requests, NEW u \in Users, NEW n \in Ids,
         Becomes(r, [request[r] EXCEPT !.pc = "open", !.user = u, !.id = n]),
         identity'[n].status = "verified", identity'[n].user = u
  PROVE  RequestsMove
<1> DEFINE c == [request[r] EXCEPT !.pc = "open", !.user = u, !.id = n]
<1>1. c.pc = "open" /\ c.user = u
  BY GoodRequest DEF Calls
<1> HIDE DEF c
<1>2. HasIn(identity', u)
  BY DEF HasIn
<1> QED
  BY <1>1, <1>2, EntersMoves DEF IInv, c

LEMMA LinkedRow ==
  ASSUME RowsInv, NEW n \in Ids, NEW u, NEW x, Linked(n, u, x)
  PROVE  identity'[n].status = "verified" /\ identity'[n].user = u
BY DEF RowsInv, Linked

LEMMA CreateDiscordMoves ==
  ASSUME IInv, NEW r \in Requests, NEW u \in Users, NEW n \in Ids, CreateDiscord(r, u, n)
  PROVE  RequestsMove
<1>1. CASE Becomes(r, [request[r] EXCEPT !.pc = "again"])
  <2>1. [request[r] EXCEPT !.pc = "again"].pc = "again"
    BY GoodRequest, MovedCall
  <2> QED
    BY <1>1, <2>1, QuietMoves DEF Linking, IInv
<1>2. CASE /\ Linked(n, u, request[r].subject)
           /\ Becomes(r, [request[r] EXCEPT !.pc = "open", !.user = u, !.id = n])
  BY <1>2, LinkedRow, LetInMoves DEF IInv
<1> QED
  BY <1>1, <1>2 DEF CreateDiscord

LEMMA FindAgainMoves ==
  ASSUME IInv, NEW r \in Requests, NEW n \in Ids, FindAgain(r, n)
  PROVE  RequestsMove
<1>1. PICK u \in Users : u = identity[n].user
  BY MethodHasUser DEF FindAgain, Verified, IInv
<1>2. identity'[n].status = "verified" /\ identity'[n].user = u
  BY <1>1 DEF FindAgain, Verified, rows
<1>3. Becomes(r, [request[r] EXCEPT !.pc = "open", !.user = u, !.id = n])
  BY <1>1 DEF FindAgain
<1> QED
  BY <1>2, <1>3, LetInMoves

LEMMA SignInEmailMoves ==
  ASSUME IInv, NEW r \in Requests, NEW e \in Emails, NEW u \in Users, NEW n \in Ids,
         SignInEmail(r, e, u, n)
  PROVE  RequestsMove
<1> DEFINE a == [NoCall EXCEPT !.pc = "open", !.op = "sign-in-email", !.user = u]
           c == [NoCall EXCEPT !.pc = "open", !.op = "sign-in-email", !.user = u,
                               !.id = n, !.trusted = TRUE]
<1>1. a \in Calls /\ a.pc = "open" /\ a.user = u
  BY NoCallGood DEF Calls, Operations
<1>2. c = [a EXCEPT !.id = n, !.trusted = TRUE]
  OBVIOUS
<1>3. Becomes(r, c)
  BY DEF SignInEmail
<1> HIDE DEF a, c
<1>4. c.pc = "open" /\ c.user = u
  BY <1>1, <1>2 DEF Calls
<1>5. identity'[n].status = "verified" /\ identity'[n].user = u
  <2>1. CASE IsEmailAccount(e, u, n) /\ UNCHANGED rows
    BY <2>1 DEF IsEmailAccount, IsMethod, rows
  <2>2. CASE CreateEmailAccount(e, u, n)
    BY <2>2, LinkedRow DEF CreateEmailAccount, IInv
  <2> QED
    BY <2>1, <2>2 DEF SignInEmail
<1>6. HasIn(identity', u)
  BY <1>5 DEF HasIn
<1> QED
  BY <1>3, <1>4, <1>6, EntersMoves DEF IInv

LEMMA StepMovesRequests ==
  ASSUME IInv, [Next]_vars
  PROVE  RequestsMove
<1>1. ASSUME NEW r \in Requests, SignIn(r)
      PROVE  RequestsMove
  BY <1>1, SignInDiscordMoves, CreateDiscordMoves, FindAgainMoves, SignInEmailMoves,
     IdleMoves DEF SignIn, Open, IInv
<1>2. ASSUME NEW r \in Requests, StepUp(r)
      PROVE  RequestsMove
  <2>1. ASSUME NEW s \in Sessions, StepUpEmail(r, s)
        PROVE  RequestsMove
    BY <2>1 DEF StepUpEmail, RequestsMove
  <2>2. ASSUME NEW s \in Sessions, Redirect(r, s)
        PROVE  RequestsMove
    <3>1. PICK op \in {"step-up-discord", "link-start"} :
            /\ MayStart(op, s)
            /\ Becomes(r, SessionCall("redirected", op, session[s].user, s))
      BY <2>2 DEF Redirect, SessionCall
    <3>2. PICK u \in Users : u = session[s].user
      BY <3>1, LiveHasUser DEF MayStart, Authenticated, HasSession, IInv
    <3> DEFINE c == SessionCall("redirected", op, u, s)
    <3>3. c.pc = "redirected"
      <4>1. op \in Operations
        BY DEF Operations
      <4> QED
        BY <4>1, SessionCallFields
    <3>4. Becomes(r, c)
      BY <3>1, <3>2
    <3> HIDE DEF c
    <3> QED
      BY <3>3, <3>4, QuietMoves DEF Linking, IInv
  <2>3. ASSUME NEW n \in Ids, NEW x \in Discords, AssertDiscord(r, n, x)
        PROVE  RequestsMove
    <3>1. [request[r] EXCEPT !.pc = "mark"].pc = "mark"
      BY GoodRequest, MovedCall
    <3> QED
      BY <2>3, <3>1, QuietMoves DEF AssertDiscord, Linking, IInv
  <2> QED
    BY <1>2, <2>1, <2>2, <2>3, IdleMoves DEF StepUp, Mark, ProveDiscord, IInv
<1>3. ASSUME NEW r \in Requests, Begin(r)
      PROVE  RequestsMove
  <2>1. ASSUME NEW s \in Sessions, NEW e \in Emails, NEW n \in Ids \cup {None},
               BeginEmail(r, s, e, n)
        PROVE  RequestsMove
    BY <2>1, BeginMoves DEF BeginEmail, CompletesOtp, Authenticated, HasSession
  <2>2. ASSUME NEW s \in Sessions, NEW e \in Emails, BeginPromote(r, s, e)
        PROVE  RequestsMove
    BY <2>2, BeginMoves DEF BeginPromote, HasSession
  <2>3. ASSUME NEW s \in Sessions, NEW n \in Ids, BeginRemove(r, s, n)
        PROVE  RequestsMove
    <3>1. /\ session[s].status = "live"
          /\ Becomes(r, [Change(r, "remove", s) EXCEPT !.pc = "user", !.id = n])
      BY <2>3 DEF BeginRemove, HasFreshStepUp, Authenticated, HasSession
    <3>2. None \in Emails \cup {None} /\ n \in Ids \cup {None}
      OBVIOUS
    <3> QED
      BY <3>1, <3>2, BeginMoves
  <2> QED
    BY <1>3, <2>1, <2>2, <2>3, BeginLinkMoves DEF Begin
<1>4. ASSUME NEW r \in Requests, LockUser(r) \/ Lock(r) \/ End(r)
      PROVE  RequestsMove
  BY <1>4, LockMoves, IdleMoves DEF LockUser, Lock, End, IInv
<1>5. ASSUME NEW r \in Requests, Commit(r)
      PROVE  RequestsMove
  BY <1>5, IdleMoves
     DEF Commit, LinkDiscord, LinkEmail, ChangeEmail, Promote, Remove, Commits, IInv
<1>6. CASE Sessionwise \/ UNCHANGED vars
  BY <1>6 DEF Sessionwise, Revoke, RevokeOthers, Lapse, Expire, vars, RequestsMove
<1> QED
  BY <1>1, <1>2, <1>3, <1>4, <1>5, <1>6 DEF Next

LEMMA ProofSpent ==
  ASSUME ProofsInv, NEW p \in Proofs, proof[p].status = "open", Consumed(p)
  PROVE  ProofsMove
<1> DEFINE row == [NoProof EXCEPT !.status = "consumed"]
<1>1. row.status = "consumed"
  BY DEF NoProof
<1>2. proof' = [proof EXCEPT ![p] = row]
  BY DEF Consumed
<1> HIDE DEF row
<1> QED
  BY <1>1, <1>2 DEF ProofsInv, ProofsMove

LEMMA StepMovesProofs ==
  ASSUME IInv, [Next]_vars
  PROVE  ProofsMove
<1>1. ASSUME NEW r \in Requests, NEW p \in Proofs, NEW x \in Discords,
             ProveDiscord(r, p, x)
      PROVE  ProofsMove
  <2> DEFINE row == [status |-> "open", user |-> request[r].user,
                     session |-> request[r].session, subject |-> x]
  <2>1. row.status = "open"
    OBVIOUS
  <2>2. proof' = [proof EXCEPT ![p] = row] /\ proof[p].status = "absent"
    BY <1>1 DEF ProveDiscord, NoProof
  <2> HIDE DEF row
  <2> QED
    BY <2>1, <2>2 DEF IInv, ProofsInv, ProofsMove
<1>2. ASSUME NEW r \in Requests, NEW n \in Ids, LinkDiscord(r, n)
      PROVE  ProofsMove
  <2>1. request[r].proof \in Proofs
    BY <1>2, LockedRequest DEF LinkDiscord
  <2> QED
    BY <1>2, <2>1, ProofSpent DEF LinkDiscord, IsOpen, IInv
<1>3. CASE UNCHANGED proof
  BY <1>3 DEF ProofsMove
<1>4. ASSUME NEW r \in Requests, SignIn(r)
      PROVE  UNCHANGED proof
  BY <1>4 DEF SignIn, SignInDiscord, CreateDiscord, FindAgain, SignInEmail,
              CreateEmailAccount, Open, rows
<1>5. ASSUME NEW r \in Requests, StepUp(r)
      PROVE  ProofsMove
  BY <1>1, <1>3, <1>5 DEF StepUp, StepUpEmail, Redirect, AssertDiscord, Mark, rows
<1>6. ASSUME NEW r \in Requests, Begin(r) \/ LockUser(r) \/ Lock(r) \/ End(r)
      PROVE  UNCHANGED proof
  BY <1>6 DEF Begin, BeginLinkDiscord, BeginEmail, BeginPromote, BeginRemove, LockUser,
              Lock, End, rows
<1>7. ASSUME NEW r \in Requests, Commit(r)
      PROVE  ProofsMove
  BY <1>2, <1>3, <1>7 DEF Commit, LinkEmail, ChangeEmail, Promote, Remove
<1> QED
  BY <1>3, <1>4, <1>5, <1>6, <1>7 DEF Next, rows, vars

\* The invariant of these histories.  What a request links was proved: the proof is
\* open, and of the account it links, or used up by now.
LinksInv ==
  \A r \in Requests : Linking(request[r]) =>
    /\ request[r].proof \in Proofs
    /\ \/ proof[request[r].proof].status = "consumed"
       \/ /\ proof[request[r].proof].status = "open"
          /\ proof[request[r].proof].subject = request[r].subject

PastInv == Awake /\ WaysBackIn /\ LinksInv

LEMMA InitPast ==
  ASSUME Init
  PROVE  PastInv
<1>1. Awake
  BY DEF Init, Awake, NoSession
<1>2. \A s \in Sessions : session[s].status = "absent"
  BY DEF Init, NoSession
<1>3. \A r \in Requests : request[r].pc = "idle"
  BY NoCallGood DEF Init
<1> QED
  BY <1>1, <1>2, <1>3 DEF PastInv, WaysBackIn, HasSession, LinksInv, Linking

LEMMA ProofFixed ==
  ASSUME IInv, [Next]_vars, NEW p \in Proofs, proof[p].status = "open"
  PROVE  proof'[p] = proof[p] \/ proof'[p].status = "consumed"
BY StepMovesProofs DEF ProofsMove

LEMMA LinksKept ==
  ASSUME IInv, LinksInv, [Next]_vars
  PROVE  LinksInv'
<1> SUFFICES ASSUME NEW r \in Requests, Linking(request'[r])
             PROVE  /\ request'[r].proof \in Proofs
                    /\ \/ proof'[request'[r].proof].status = "consumed"
                       \/ /\ proof'[request'[r].proof].status = "open"
                          /\ proof'[request'[r].proof].subject = request'[r].subject
  BY DEF LinksInv, Linking
<1>1. CASE FromAProof(request'[r])
  BY <1>1 DEF FromAProof
<1>2. CASE /\ Linking(request[r]) /\ request'[r].proof = request[r].proof
           /\ request'[r].subject = request[r].subject
  <2>1. PICK p \in Proofs : p = request[r].proof
    BY <1>2 DEF LinksInv
  <2>2. \/ proof[p].status = "consumed"
        \/ proof[p].status = "open" /\ proof[p].subject = request[r].subject
    BY <1>2, <2>1 DEF LinksInv
  <2>3. CASE proof[p].status = "consumed"
    BY <1>2, <2>1, <2>3, StepMovesProofs DEF ProofsMove
  <2>4. CASE proof[p].status = "open" /\ proof[p].subject = request[r].subject
    BY <1>2, <2>1, <2>4, ProofFixed
  <2> QED
    BY <2>2, <2>3, <2>4
<1> QED
  BY <1>1, <1>2, StepMovesRequests DEF RequestsMove, Moves

-----------------------------------------------------------------------------
(* The theorems                                                            *)

LEMMA InitIInv ==
  ASSUME Init
  PROVE  IInv /\ Custodian!Init
<1>1. CallsInv /\ \A r \in Requests : request[r].pc = "idle"
  BY NoCallGood DEF Init, CallsInv
<1>2. SessionsInv /\ \A s \in Sessions : session[s].status = "absent"
  BY DEF Init, SessionsInv, NoSession, SessionRows
<1>3. LocksInv /\ CountsInv
  BY <1>1 DEF LocksInv, CountsInv
<1>4. \A n \in Ids : identity[n].status = "absent" /\ identity[n].subject = None
  BY DEF Init, NoIdentity
<1>5. \A e \in Emails : email[e].status = "absent"
  BY DEF Init, NoEmail
<1>6. RowsInv
  BY DEF Init, RowsInv, NoIdentity, NoEmail, IdentityRows, EmailRows
<1>7. ProofsInv
  BY DEF Init, ProofsInv, NoProof, ProofRows
<1>8. MethodsConsistent
  BY <1>4, <1>5 DEF MethodsConsistent
<1>9. SessionsHaveTheirMethod
  BY <1>2 DEF SessionsHaveTheirMethod
<1>10. Custodian!Init
  <2>1. \A x \in Subjects : HolderIn(identity, x) = None
    BY <1>4, NobodyHolds DEF Opens
  <2>2. RetiredIn(identity) = {}
    BY <1>4 DEF RetiredIn
  <2>3. holder = [x \in Subjects |-> None]
    BY <2>1, HolderAndRetired
  <2> QED
    BY <2>2, <2>3, HolderAndRetired DEF Custodian!Init
<1> QED
  BY <1>1, <1>2, <1>3, <1>6, <1>7, <1>8, <1>9, <1>10 DEF IInv

LEMMA StutterStep ==
  ASSUME IInv, UNCHANGED vars
  PROVE  Promise
<1>1. UNCHANGED rows /\ session' = session /\ request' = request
  BY DEF vars, rows
<1>2. CallsInv'
  BY <1>1 DEF IInv, CallsInv
<1>3. LocksInv'
  BY <1>1 DEF IInv, LocksInv, IsLive, Holds
<1>4. SessionsInv'
  BY <1>1, SessionsUnchanged DEF IInv
<1>5. RowsInv' /\ ProofsInv' /\ MethodsConsistent' /\ InHands /\ CustodyStep
  BY <1>1, RowsUnchanged DEF IInv
<1>6. SessionsHaveTheirMethod'
  BY <1>1 DEF IInv, SessionsHaveTheirMethod, IsMethod, rows
<1>7. CountsInv'
  BY <1>1, CountsUnchanged DEF IInv, rows
<1> QED
  BY <1>2, <1>3, <1>4, <1>5, <1>6, <1>7 DEF IInv, Promise

LEMMA InvariantKept ==
  ASSUME IInv, [Next]_vars
  PROVE  Promise
<1>1. ASSUME NEW r \in Requests, SignIn(r)
      PROVE  Promise
  BY <1>1, SignInDiscordStep, CreateDiscordStep, FindAgainStep, SignInEmailStep, OpenStep
     DEF SignIn
<1>2. ASSUME NEW r \in Requests, StepUp(r)
      PROVE  Promise
  BY <1>2, StepUpEmailStep, RedirectStep, AssertDiscordStep, MarkStep, ProveDiscordStep
     DEF StepUp
<1>3. ASSUME NEW r \in Requests, Begin(r)
      PROVE  Promise
  BY <1>3, BeginLinkDiscordStep, BeginEmailStep, BeginPromoteStep, BeginRemoveStep
     DEF Begin
<1>4. ASSUME NEW r \in Requests, Commit(r)
      PROVE  Promise
  BY <1>4, LinkDiscordStep, LinkEmailStep, ChangeEmailStep, PromoteStep, RemoveStep
     DEF Commit
<1>5. ASSUME NEW r \in Requests, LockUser(r) \/ Lock(r) \/ End(r)
      PROVE  Promise
  BY <1>5, LockUserStep, LockStep, EndStep
<1>6. CASE Sessionwise /\ UNCHANGED rows
  BY <1>6, SessionwiseStep
<1>7. CASE UNCHANGED vars
  BY <1>7, StutterStep
<1> QED
  BY <1>1, <1>2, <1>3, <1>4, <1>5, <1>6, <1>7 DEF Next

LEMMA WaysKept ==
  ASSUME IInv, Awake, WaysBackIn, [Next]_vars
  PROVE  WaysBackIn'
<1>0. Promise
  BY InvariantKept
<1>1. ASSUME NEW u \in Users, HasMethod(u)
      PROVE  HasIn(identity', u)
  BY <1>0, <1>1, MethodsLast DEF HasMethod, IsMethod, HasIn
<1>2. ASSUME NEW r \in Requests, request[r].pc = "open"
      PROVE  HasIn(identity', request[r].user)
  BY <1>1, <1>2, GoodRequest DEF GoodCall, WaysBackIn
<1>3. ASSUME NEW r \in Requests, request'[r].pc = "open"
      PROVE  HasIn(identity', request'[r].user)
  BY <1>2, <1>3, StepMovesRequests DEF RequestsMove, Moves
<1>4. ASSUME NEW s \in Sessions, session[s].status = "live"
      PROVE  HasIn(identity', session[s].user)
  BY <1>1, <1>4, LiveHasUser DEF IInv, WaysBackIn, HasSession
<1>5. ASSUME NEW s \in Sessions, session'[s].status = "live"
      PROVE  HasIn(identity', session'[s].user)
  BY <1>2, <1>4, <1>5, StepMovesSessions DEF SessionsMove, SessionMoves
<1> QED
  BY <1>3, <1>5 DEF WaysBackIn, HasSession, HasMethod, IsMethod, HasIn

\* Only the commit of a link gives an account that exists a Discord account.
LEMMA LinkedByLinkDiscord ==
  ASSUME IInv, [Next]_vars, NEW n \in Ids, NEW u \in Users, NEW x \in Discords,
         identity[n].status = "absent", identity'[n].status = "verified",
         identity'[n].subject = x, identity'[n].user = u, ~IsNew(u)
  PROVE  \E r \in Requests : LinkDiscord(r, n) /\ request[r].user = u
                             /\ request[r].subject = x
<1>0. x \notin Emails
  BY SessionAssumption
<1>1. identity' # identity
  OBVIOUS
<1>2. ASSUME NEW m \in Ids, NEW v, NEW y, Linked(m, v, y)
      PROVE  m = n /\ v = u /\ y = x
  BY <1>2 DEF Linked, IInv, RowsInv
<1>3. ASSUME NEW r \in Requests, SignIn(r)
      PROVE  FALSE
  <2>1. ASSUME NEW v \in Users, NEW m \in Ids, CreateDiscord(r, v, m)
        PROVE  FALSE
    BY <1>1, <1>2, <2>1 DEF CreateDiscord, rows
  <2>2. ASSUME NEW e \in Emails, NEW v \in Users, NEW m \in Ids, SignInEmail(r, e, v, m)
        PROVE  FALSE
    BY <1>0, <1>1, <1>2, <2>2 DEF SignInEmail, CreateEmailAccount, rows
  <2> QED
    BY <1>1, <1>3, <2>1, <2>2 DEF SignIn, SignInDiscord, FindAgain, Open, rows
<1>4. ASSUME NEW r \in Requests, StepUp(r)
      PROVE  FALSE
  BY <1>1, <1>4 DEF StepUp, StepUpEmail, Redirect, AssertDiscord, Mark, ProveDiscord, rows
<1>5. ASSUME NEW r \in Requests, Begin(r) \/ LockUser(r) \/ Lock(r) \/ End(r)
      PROVE  FALSE
  BY <1>1, <1>5 DEF Begin, BeginLinkDiscord, BeginEmail, BeginPromote, BeginRemove,
                    LockUser, Lock, End, rows
<1>6. ASSUME NEW r \in Requests, Commit(r)
      PROVE  LinkDiscord(r, n) /\ request[r].user = u /\ request[r].subject = x
  <2>1. ASSUME NEW m \in Ids, LinkDiscord(r, m)
        PROVE  LinkDiscord(r, n) /\ request[r].user = u /\ request[r].subject = x
    <3>1. m = n /\ request[r].user = u /\ request[r].subject = x
      BY <1>2, <2>1 DEF LinkDiscord
    <3> QED
      BY <2>1, <3>1
  <2>2. ASSUME NEW m \in Ids, LinkEmail(r, m)
        PROVE  FALSE
    <3>1. request[r].address \in Emails
      BY <2>2, LockedRequest DEF LinkEmail
    <3> QED
      BY <1>0, <1>2, <2>2, <3>1 DEF LinkEmail
  <2>3. ASSUME NEW old \in Emails, ChangeEmail(r, old)
        PROVE  FALSE
    <3>1. request[r].address \in Emails /\ request[r].id \in Ids
      BY <2>3, LockedRequest DEF ChangeEmail
    <3> QED
      BY <1>0, <1>2, <2>3, <3>1 DEF ChangeEmail
  <2>4. ASSUME NEW m \in Ids, Promote(r, m)
        PROVE  FALSE
    <3>1. request[r].address \in Emails
      BY <2>4, LockedRequest DEF Promote
    <3> QED
      BY <1>0, <1>1, <1>2, <2>4, <3>1 DEF Promote
  <2>5. CASE Remove(r)
    <3>1. request[r].id \in Ids
      BY <2>5, LockedRequest DEF Remove
    <3>2. identity[request[r].id].status = "verified"
      BY <2>5 DEF Remove, IsMethod
    <3>3. identity' = [identity EXCEPT ![request[r].id] =
                         [identity[request[r].id] EXCEPT !.status = "revoked"]]
      BY <2>5 DEF Remove
    <3>4. identity'[n] = identity[n]
      BY <3>1, <3>2, <3>3 DEF IInv, RowsInv
    <3> QED
      BY <3>4
  <2> QED
    BY <1>6, <2>1, <2>2, <2>3, <2>4, <2>5 DEF Commit
<1> QED
  BY <1>1, <1>3, <1>4, <1>5, <1>6 DEF Next, rows, vars

LEMMA LinkIsProved ==
  ASSUME IInv, LinksInv, [Next]_vars, NEW n \in Ids, NEW u \in Users, NEW x \in Discords,
         identity[n].status = "absent", identity'[n].status = "verified",
         identity'[n].subject = x, identity'[n].user = u, ~IsNew(u)
  PROVE  \E p \in Proofs :
           /\ proof[p].status = "open" /\ proof[p].subject = x
           /\ proof[p].user = u /\ IsLive(proof[p].session, u)
           /\ LiveOf(u)' = {proof[p].session}
           /\ proof'[p].status = "consumed"
<1>1. PICK r \in Requests : LinkDiscord(r, n) /\ request[r].user = u
                            /\ request[r].subject = x
  BY LinkedByLinkDiscord
<1>2. PICK s \in Sessions : s = request[r].session
  BY <1>1, GoodRequest DEF LinkDiscord, Commits, GoodCall
<1>3. PICK p \in Proofs : p = request[r].proof
  BY <1>1, LockedRequest DEF LinkDiscord
<1>4. IsOpen(p, s) /\ Consumed(p) /\ IsLive(s, u)
  BY <1>1, <1>2, <1>3 DEF LinkDiscord, Commits
<1>5. proof[p].status = "open" /\ proof[p].session = s /\ proof[p].user = u
  BY <1>4 DEF IsOpen, IsLive
<1>6. proof[p].subject = x
  BY <1>1, <1>3, <1>5 DEF LinksInv, Linking, LinkDiscord, Commits
<1>7. proof'[p].status = "consumed"
  <2> DEFINE row == [NoProof EXCEPT !.status = "consumed"]
  <2>1. row.status = "consumed"
    BY DEF NoProof
  <2>2. proof' = [proof EXCEPT ![p] = row]
    BY <1>4 DEF Consumed
  <2> HIDE DEF row
  <2> QED
    BY <2>1, <2>2 DEF IInv, ProofsInv
<1>8. LiveOf(u)' = {s}
  <2>1. PICK t \in Sessions : IsLive(t, u) /\ LiveOf(u)' = {t}
    BY InvariantKept DEF Promise, InHands
  <2>2. session'[s].status = "live" /\ session'[s].user = u
    <3>1. TrustAfter(s, "link-discord") \in BOOLEAN
      BY Zenon DEF TrustAfter
    <3>2. PICK b \in BOOLEAN : b = TrustAfter(s, "link-discord")
      BY <3>1, Zenon
    <3>3. session' = Secured(s, u, b)
      BY <1>1, <1>2, <3>2, Zenon DEF LinkDiscord, Commits
    <3> QED
      BY <3>3, SecuredSessions DEF IInv
  <2>3. s \in LiveOf(u)'
    BY <2>2 DEF LiveOf, IsLive
  <2> QED
    BY <2>1, <2>3
<1> QED
  BY <1>4, <1>5, <1>6, <1>7, <1>8

THEOREM Invariant == Spec => []IInv
<1>1. Init => IInv
  BY InitIInv
<1>2. IInv /\ [Next]_vars => IInv'
  BY InvariantKept DEF Promise
<1> QED
  BY <1>1, <1>2, PTL DEF Spec

\* Every row and every request has its type, and a session that a security change
\* has locked stays open, in the requester's hands and locked by nobody else.
THEOREM TypeCorrect == Spec => []TypeOK
<1>1. IInv => TypeOK
  BY DEF IInv, TypeOK, CallsInv, SessionsInv, LocksInv, RowsInv, ProofsInv
<1> QED
  BY <1>1, Invariant, PTL

\* Identities and addresses tell one story, whatever requests are in flight.
THEOREM Methods == Spec => []MethodsConsistent
<1>1. IInv => MethodsConsistent
  BY DEF IInv
<1> QED
  BY <1>1, Invariant, PTL

\* No session outlives the method of its user that opened it.
THEOREM Openings == Spec => []SessionsHaveTheirMethod
<1>1. IInv => SessionsHaveTheirMethod
  BY DEF IInv
<1> QED
  BY <1>1, Invariant, PTL

\* The methods of an account change in the hands of one open session of it, which is
\* then reauthenticated and the only one.
THEOREM Changes == Spec => ChangedByALiveSession
<1>1. IInv /\ [Next]_vars =>
        [\A n \in Ids, u \in Users :
           identity'[n] # identity[n] /\ u = identity'[n].user /\ ~IsNew(u) =>
             \E s \in Sessions :
               IsLive(s, u) /\ LiveOf(u)' = {s} /\ session'[s].fresh]_vars
  BY InvariantKept DEF Promise, InHands
<1> QED
  BY <1>1, Invariant, PTL DEF Spec, ChangedByALiveSession

\* Account implements Custody: a method has one holder, a removed one never comes
\* back, and whoever had a method never loses the last.
THEOREM Refinement == Spec => ImplementsCustody
<1>1. Init => Custodian!Init
  BY InitIInv
<1>2. IInv /\ [Next]_vars => [Custodian!Next]_(Custodian!vars)
  BY InvariantKept DEF Promise, CustodyStep
<1> QED
  BY <1>1, <1>2, Invariant, PTL DEF Spec, ImplementsCustody, Custodian!Spec

THEOREM PastInvariant == Spec => []PastInv
<1>1. Init => PastInv
  BY InitPast
<1>2. IInv /\ PastInv /\ [Next]_vars => PastInv'
  BY StepMovesSessions, WaysKept, LinksKept DEF PastInv, SessionsMove
<1> QED
  BY <1>1, <1>2, Invariant, PTL DEF Spec

\* Whoever has an open session, or is let in, has a method to come back with.
THEOREM NobodyIsLockedOut == Spec => []WaysBackIn
<1>1. PastInv => WaysBackIn
  BY DEF PastInv
<1> QED
  BY <1>1, PastInvariant, PTL

\* An ended session stays ended, an open one stays its user's and keeps its trust,
\* and gains trust only with an address of that user.
THEOREM SessionsKeepTheirUser == Spec => OneSessionOneUser
<1> DEFINE Kept == \A s \in Sessions :
             /\ session[s].status = "closed" => session'[s] = session[s]
             /\ HasSession(s) /\ HasSession(s)' =>
                  /\ session'[s].user = session[s].user
                  /\ session[s].trusted => session'[s].trusted
                  /\ session'[s].trusted /\ ~session[s].trusted =>
                       HasAddress(session[s].user)'
<1>1. IInv /\ PastInv /\ [Next]_vars => [Kept]_vars
  <2> SUFFICES ASSUME IInv, PastInv, [Next]_vars, NEW s \in Sessions
               PROVE  /\ session[s].status = "closed" => session'[s] = session[s]
                      /\ session[s].status = "live" /\ session'[s].status = "live" =>
                           /\ session'[s].user = session[s].user
                           /\ session[s].trusted => session'[s].trusted
                           /\ session'[s].trusted /\ ~session[s].trusted =>
                                HasAddress(session[s].user)'
    BY DEF HasSession
  <2>1. SessionMoves
    BY StepMovesSessions DEF PastInv, SessionsMove
  <2>2. session[s].status = "closed" => session'[s] = session[s]
    BY <2>1 DEF SessionMoves
  <2>3. ASSUME session[s].status = "live", session'[s].status = "live"
        PROVE  /\ session'[s].user = session[s].user
               /\ \/ session'[s].trusted = session[s].trusted
                  \/ session'[s].trusted = TRUE /\ HasAddress(session[s].user)'
    BY <2>1, <2>3 DEF SessionMoves
  <2>4. ASSUME session[s].status = "live", session'[s].status = "live"
        PROVE  /\ session[s].trusted => session'[s].trusted
               /\ session'[s].trusted /\ ~session[s].trusted =>
                    HasAddress(session[s].user)'
    BY <2>3, <2>4, Zenon
  <2> QED
    BY <2>2, <2>3, <2>4, Zenon
<1> HIDE DEF Kept
<1> QED
  BY <1>1, Invariant, PastInvariant, PTL DEF Spec, OneSessionOneUser, Kept

\* A Discord account is linked to an account that exists only for an open proof of it,
\* made for the user and the session that ask for the link; it is then used up.
THEOREM LinksAreProved == Spec => LinkedForAProof
<1> DEFINE Proved(n, u, x) ==
             Vacant(n) /\ Verified(n, x)' /\ IsMethod(n, u)' /\ ~IsNew(u) =>
               \E p \in Proofs :
                 /\ proof[p].status = "open" /\ proof[p].subject = x
                 /\ proof[p].user = u /\ IsLive(proof[p].session, u)
                 /\ LiveOf(u)' = {proof[p].session}
                 /\ proof'[p].status = "consumed"
           Spent == \A p \in Proofs : proof[p].status = "consumed" => proof'[p] = proof[p]
           All == /\ \A n \in Ids, u \in Users, x \in Discords : Proved(n, u, x)
                  /\ Spent
<1>1. IInv /\ PastInv /\ [Next]_vars => [All]_vars
  <2> SUFFICES ASSUME IInv, PastInv, [Next]_vars
               PROVE  All
    OBVIOUS
  <2>1. Spent
    BY StepMovesProofs DEF ProofsMove
  <2>2. ASSUME NEW n \in Ids, NEW u \in Users, NEW x \in Discords
        PROVE  Proved(n, u, x)
    <3> SUFFICES ASSUME Vacant(n), Verified(n, x)', IsMethod(n, u)', ~IsNew(u)
                 PROVE  \E p \in Proofs :
                          /\ proof[p].status = "open" /\ proof[p].subject = x
                          /\ proof[p].user = u /\ IsLive(proof[p].session, u)
                          /\ LiveOf(u)' = {proof[p].session}
                          /\ proof'[p].status = "consumed"
      OBVIOUS
    <3>1. /\ identity[n].status = "absent" /\ identity'[n].status = "verified"
          /\ identity'[n].subject = x /\ identity'[n].user = u
      BY DEF Vacant, Verified, IsMethod
    <3> QED
      BY <3>1, LinkIsProved DEF PastInv
  <2> HIDE DEF Proved, Spent
  <2> QED
    BY <2>1, <2>2
<1> HIDE DEF All
<1> QED
  BY <1>1, Invariant, PastInvariant, PTL DEF Spec, LinkedForAProof, All

=============================================================================
