------------------------------ MODULE Browser -------------------------------
(***************************************************************************)
(* One browser: its cookies, its pages, the proxy of the web application   *)
(* and what SessionGuard and CsrfGuard make of their requests.  Before a   *)
(* page changes anything it asks for a CSRF token; the cookies travel with *)
(* every request and come back, possibly changed, with every answer.  The  *)
(* pages act at the same time, so an answer can arrive long after others   *)
(* have changed the cookies.                                               *)
(*                                                                         *)
(* The sessions are those of one person and are trusted (module Account    *)
(* has provisional ones).  A CSRF token is the secret and the context that *)
(* it was made from: its HMAC is left out.  A nonce or a session token is  *)
(* new when it is in use nowhere.  MaxChanges and Tokens bound the changes *)
(* of the session, MaxLost the answers that get lost.                      *)
(***************************************************************************)
EXTENDS Naturals, FiniteSets

CONSTANTS
  Pages,           \* pages, each with at most one request at a time
  Tokens,          \* session tokens
  Nonces,          \* values of the pre-session cookie and of the CSRF secret
  Offered,         \* Offered[p]: what page p does, a subset of Operations
  MaxChanges,
  MaxLost,
  Absent           \* no cookie

\* There is a new nonce even when the cookies and every page hold different ones.
ASSUME BrowserAssumption ==
  /\ MaxChanges \in Nat /\ MaxLost \in Nat
  /\ Tokens \cap Nonces = {}
  /\ Absent \notin Tokens \cup Nonces
  /\ "keep" \notin Tokens \cup Nonces \cup {Absent}
  /\ IsFiniteSet(Pages) /\ IsFiniteSet(Nonces)
  /\ Cardinality(Nonces) > 2 + 4 * Cardinality(Pages)

VARIABLES
  jar,             \* the cookies
  token,           \* token[t]: what the database knows of session token t
  page,            \* page[p]: the request of page p
  changes,         \* how often a session was opened, rotated or closed
  lost             \* how many answers were lost

browserVars == <<jar, token, page, changes, lost>>

SessionChanges == {"sign-in", "secure", "step-up", "logout"}

\* "act" changes something in an organization; "send" stands for whatever else a
\* signed-in user sends: a new organization, an invitation, a request for a code.
Operations == SessionChanges \cup {"revoke-others", "send", "act", "audit"}

\* @Public
Public == {"sign-in"}

\* GET routes need no CSRF token.
Safe == {"audit"}

\* csrfRotation "reacquire" of the route inventory.  The transfer of ownership has it,
\* too: its answer changes no cookie, so losing it is all that can happen (Lose).
Reacquiring == {"sign-in", "secure", "step-up"}

Cookies ==
  [session : Tokens \cup {Absent}, preauth : Nonces \cup {Absent},
   secret : Nonces \cup {Absent}]

NoCookies == [session |-> Absent, preauth |-> Absent, secret |-> Absent]

\* Set-Cookie headers: a value, Absent to clear it, or nothing.
SetCookies ==
  [session : Tokens \cup {Absent, "keep"}, preauth : Nonces \cup {Absent, "keep"},
   secret : Nonces \cup {Absent, "keep"}]

Unchanged == [session |-> "keep", preauth |-> "keep", secret |-> "keep"]

\* context and secret: those of the CSRF token that the page holds; session and
\* genuine: the cookie sent along and whether the token belongs to the cookies;
\* stale: another page's change of the session has reached the browser since.
PageStates ==
  [pc : {"idle", "asked", "ready", "sent", "admitted", "replied"},
   op : Operations \cup {"none"},
   context : Tokens \cup Nonces \cup {Absent}, secret : Nonces \cup {Absent},
   session : Tokens \cup {Absent}, genuine : BOOLEAN,
   sets : SetCookies, done : BOOLEAN, stale : BOOLEAN]

Idle == [pc |-> "idle", op |-> "none", context |-> Absent, secret |-> Absent,
         session |-> Absent, genuine |-> FALSE, sets |-> Unchanged,
         done |-> FALSE, stale |-> FALSE]

BrowserInit ==
  /\ jar = NoCookies
  /\ token = [t \in Tokens |-> "unused"]
  /\ page = [p \in Pages |-> Idle]
  /\ changes = 0
  /\ lost = 0

-----------------------------------------------------------------------------
(* Cookies and tokens                                                      *)

\* bindingFor: the session, or what stands for it before there is one
ContextOf(cookies) ==
  IF cookies.session # Absent THEN cookies.session ELSE cookies.preauth

Uses(q, n) ==
  n \in {page[q].context, page[q].secret, page[q].sets.preauth, page[q].sets.secret}

FreshNonce ==
  CHOOSE n \in Nonces :
    n \notin {jar.preauth, jar.secret} /\ \A q \in Pages : ~Uses(q, n)

Unused == {t \in Tokens : token[t] = "unused"}

FreshToken == CHOOSE t \in Unused : TRUE

Live(t) == t # Absent /\ token[t] = "live"

\* Bug for the mutation checks: cookies that an answer does not mention are replaced.
Replaced(sets) == sets

\* The browser takes over the cookies of an answer.
After(sets) ==
  [k \in DOMAIN jar |-> IF sets[k] = "keep" THEN jar[k] ELSE sets[k]]

\* Bug for the mutation checks: the secret outlives the change.
KeepSecret(t) == [session |-> t, preauth |-> Absent, secret |-> "keep"]

\* rotateToSession, rotateCurrent
Rotated(t) == [session |-> t, preauth |-> Absent, secret |-> FreshNonce]

\* invalidate
Cleared == NoCookies

Moves(p, state) == page' = [page EXCEPT ![p] = state]

-----------------------------------------------------------------------------
(* The page                                                                *)

\* Bug for the mutation checks: every request for a token makes a new secret.
MintedAlways == FreshNonce

\* generateCsrf makes a secret unless the browser has one.
Minted == IF jar.secret = Absent THEN FreshNonce ELSE "keep"

\* acquireCsrf of the page, answered by CsrfController.acquire
Ask(p) ==
  LET preauth == IF ContextOf(jar) = Absent THEN FreshNonce ELSE "keep"
  IN  /\ page[p] = Idle
      /\ Offered[p] \ Safe # {}
      /\ Moves(p, [Idle EXCEPT !.pc = "asked",
                     !.context = IF preauth = "keep" THEN ContextOf(jar) ELSE preauth,
                     !.secret = IF Minted = "keep" THEN jar.secret ELSE Minted,
                     !.sets = [Unchanged EXCEPT !.preauth = preauth, !.secret = Minted]])
      /\ UNCHANGED <<jar, token, changes, lost>>

\* The answer with the token arrives.
Receive(p) ==
  /\ page[p].pc = "asked"
  /\ jar' = After(page[p].sets)
  /\ Moves(p, [page[p] EXCEPT !.pc = "ready", !.sets = Unchanged])
  /\ UNCHANGED <<token, changes, lost>>

\* Bug for the mutation checks: the token counts for any session of the browser.
SecretMatches(p) == jar.secret # Absent /\ page[p].secret = jar.secret

\* What CsrfGuard will find: it depends on the request alone.
Matches(p) ==
  /\ jar.secret # Absent /\ page[p].secret = jar.secret
  /\ ContextOf(jar) # Absent /\ page[p].context = ContextOf(jar)

\* The page sends what its user wants, with the cookies of this moment.
Post(p, op) ==
  /\ page[p].pc = "ready"
  /\ op \in Offered[p] \ Safe
  /\ op \in SessionChanges => changes < MaxChanges
  /\ changes' = IF op \in SessionChanges THEN changes + 1 ELSE changes
  /\ Moves(p, [Idle EXCEPT !.pc = "sent", !.op = op, !.session = jar.session,
                           !.genuine = Matches(p), !.stale = page[p].stale])
  /\ UNCHANGED <<jar, token, lost>>

SignInForm(p) == Post(p, "sign-in")

\* Back from Discord, to sign in or to step up
CallbackForm(p) == Post(p, "sign-in") \/ Post(p, "step-up")

\* Linking and removing
IdentityForm(p) == Post(p, "secure")

\* endSession of the current session
SessionCard(p) == Post(p, "logout")

\* revokeOthers, or endSession of one that is not the current one
SessionsPanel(p) == Post(p, "revoke-others")

CreateForm(p) == Post(p, "send")

AcceptForm(p) == Post(p, "send")

MemberForm(p) == Post(p, "act")

\* updateMembership of the editor of roles and scopes
RoleEditor(p) == Post(p, "act")

InvitationForm(p) == Post(p, "act")

LogoForm(p) == Post(p, "act")

Forms(p) ==
  \/ SignInForm(p)
  \/ CallbackForm(p)
  \/ IdentityForm(p)
  \/ SessionCard(p)
  \/ SessionsPanel(p)
  \/ CreateForm(p)
  \/ AcceptForm(p)
  \/ MemberForm(p)
  \/ RoleEditor(p)
  \/ InvitationForm(p)
  \/ LogoForm(p)

\* A page is opened that only reads.
Look(p) ==
  /\ page[p] = Idle
  /\ "audit" \in Offered[p]
  /\ Moves(p, [Idle EXCEPT !.pc = "sent", !.op = "audit", !.session = jar.session])
  /\ UNCHANGED <<jar, token, changes, lost>>

-----------------------------------------------------------------------------
(* The API                                                                 *)

Answers(p, done, sets) ==
  Moves(p, [Idle EXCEPT !.pc = "replied", !.op = page[p].op, !.done = done,
                        !.sets = sets])

Passes(p) ==
  /\ page[p].op \in Public \/ Live(page[p].session)
  /\ page[p].op \in Safe \/ page[p].genuine

\* SessionGuard and CsrfGuard
Admit(p) ==
  /\ page[p].pc = "sent" /\ Passes(p)
  /\ Moves(p, [page[p] EXCEPT !.pc = "admitted", !.genuine = FALSE])
  /\ UNCHANGED <<jar, token, changes, lost>>

Refuse(p) ==
  /\ page[p].pc = "sent" /\ ~Passes(p)
  /\ Answers(p, FALSE, Unchanged)
  /\ UNCHANGED <<jar, token, changes, lost>>

Handling(p, op) == page[p].pc = "admitted" /\ page[p].op = op

\* startEmailSession and the callback of Discord
SignIn(p) ==
  /\ Handling(p, "sign-in") /\ Unused # {}
  /\ token' = [token EXCEPT ![FreshToken] = "live"]
  /\ Answers(p, TRUE, Rotated(FreshToken))
  /\ UNCHANGED <<jar, changes, lost>>

\* A security change ends every session and goes on with a new token.
Secure(p) ==
  /\ Handling(p, "secure") /\ Live(page[p].session) /\ Unused # {}
  /\ token' = [t \in Tokens |->
                 IF t = FreshToken THEN "live"
                 ELSE IF token[t] = "live" THEN "dead" ELSE token[t]]
  /\ Answers(p, TRUE, Rotated(FreshToken))
  /\ UNCHANGED <<jar, changes, lost>>

\* A step-up keeps the session token.
StepUp(p) ==
  /\ Handling(p, "step-up") /\ Live(page[p].session)
  /\ Answers(p, TRUE, Rotated(page[p].session))
  /\ UNCHANGED <<jar, token, changes, lost>>

Logout(p) ==
  /\ Handling(p, "logout") /\ Live(page[p].session)
  /\ token' = [token EXCEPT ![page[p].session] = "dead"]
  /\ Answers(p, TRUE, Cleared)
  /\ UNCHANGED <<jar, changes, lost>>

RevokeOthers(p) ==
  /\ Handling(p, "revoke-others")
  /\ token' = [t \in Tokens |->
                 IF token[t] = "live" /\ t # page[p].session THEN "dead" ELSE token[t]]
  /\ Answers(p, TRUE, Unchanged)
  /\ UNCHANGED <<jar, changes, lost>>

\* What changes neither cookies nor sessions
Send(p) ==
  /\ Handling(p, "send")
  /\ Answers(p, TRUE, Unchanged)
  /\ UNCHANGED <<jar, token, changes, lost>>

\* The session ended under the hands of the handler.
TooLate(p) ==
  /\ page[p].pc = "admitted" /\ page[p].op \in {"secure", "step-up", "logout"}
  /\ ~Live(page[p].session)
  /\ Answers(p, FALSE, Unchanged)
  /\ UNCHANGED <<jar, token, changes, lost>>

Account(p) ==
  \/ SignIn(p)
  \/ Secure(p)
  \/ StepUp(p)
  \/ Logout(p)
  \/ RevokeOthers(p)
  \/ Send(p)
  \/ TooLate(p)

\* What module Access has decided of a request to an organization
Respond(p, allowed) ==
  /\ page[p].pc = "admitted" /\ page[p].op \in {"act", "audit"}
  /\ Answers(p, allowed, Unchanged)
  /\ UNCHANGED <<jar, token, changes, lost>>

\* The session expires, or another browser of the person closes it.
EndElsewhere(t) ==
  /\ token[t] = "live"
  /\ changes < MaxChanges
  /\ changes' = changes + 1
  /\ token' = [token EXCEPT ![t] = "dead"]
  /\ UNCHANGED <<jar, page, lost>>

-----------------------------------------------------------------------------
(* The way back                                                            *)

\* The tokens that other pages hold, or will receive, are older than the change.
Outdated(p) ==
  [q \in Pages |->
     IF q = p THEN Idle
     ELSE IF page[q].pc \in {"asked", "ready"} THEN [page[q] EXCEPT !.stale = TRUE]
     ELSE page[q]]

\* The proxy passes the answer on; where it reacquires a token, it finds the secret
\* among the cookies of the answer and makes none.
Deliver(p) ==
  /\ page[p].pc = "replied"
  /\ jar' = After(page[p].sets)
  /\ page' = IF page[p].sets.session # "keep" THEN Outdated(p)
             ELSE [page EXCEPT ![p] = Idle]
  /\ UNCHANGED <<token, changes, lost>>

\* reacquireCsrf fails: a 502 without the cookies of the answer.
Discard(p) ==
  /\ page[p].pc = "replied" /\ page[p].done /\ page[p].op \in Reacquiring
  /\ Moves(p, Idle)
  /\ UNCHANGED <<jar, token, changes, lost>>

\* The answer does not arrive.
Lose(p) ==
  /\ page[p].pc \in {"asked", "replied"}
  /\ lost < MaxLost
  /\ lost' = lost + 1
  /\ Moves(p, Idle)
  /\ UNCHANGED <<jar, token, changes>>

-----------------------------------------------------------------------------
(* Properties                                                              *)

BrowserTypeOK ==
  /\ jar \in Cookies
  /\ token \in [Tokens -> {"unused", "live", "dead"}]
  /\ page \in [Pages -> PageStates]
  /\ changes \in 0..MaxChanges
  /\ lost \in 0..MaxLost

\* Once a sign-in, a change of methods, a step-up or a logout has reached the browser,
\* no token that another page had asked for earlier opens anything that demands a
\* session, however late the answers with tokens and cookies arrive.  (A token from
\* before the first session can still open the public sign-in: its cookies come back
\* with an answer that was under way.)
RotationEndsTokens ==
  \A p \in Pages :
    page[p].pc = "admitted" /\ page[p].stale => page[p].op \in Public

=============================================================================
