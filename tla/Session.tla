------------------------------ MODULE Session -------------------------------
(***************************************************************************)
(* Sessions: the rows of repositories/sessions.ts and the statements of    *)
(* session.service.ts over them, with the row locks that transactions of   *)
(* module Account hold on them meanwhile.                                  *)
(*                                                                         *)
(* A session that was revoked or has expired is "closed"; which of the two *)
(* is told apart nowhere below.  Dates are flags: "fresh" says that        *)
(* reauthenticated_at is at most ten minutes old, Lapse ends that and      *)
(* Expire stands for the idle and the absolute limit.  Touching a session  *)
(* moves its idle limit and changes nothing here.  Devices, alert contexts *)
(* and tokens are left out: every rotation is a new token of the same row. *)
(***************************************************************************)
CONSTANTS
  Users,         \* account ids
  Ids,           \* ids of identity rows
  Sessions,      \* ids of session rows
  Requests,      \* slots for requests in flight
  Proofs,        \* ids of identity_link_proofs rows
  Discords,      \* Discord accounts
  Emails,        \* normalized addresses
  Offered,       \* the operations that are offered, a subset of Operations
  None

Subjects == Discords \cup Emails

SecurityChanges == {"link-discord", "link-email", "change-email", "promote", "remove"}

Operations ==
  SecurityChanges \cup
  {"sign-in-discord", "sign-in-email", "step-up-email", "step-up-discord",
   "link-start", "revoke", "revoke-others"}

ASSUME SessionAssumption ==
  /\ None \notin Users \cup Ids \cup Sessions \cup Proofs \cup Subjects
  /\ Discords \cap Emails = {}
  /\ Offered \subseteq Operations

VARIABLES
  session,       \* session[s]: the sessions row s
  request        \* request[r]: what slot r is doing

\* how: "method", opened with the identity row via, which was the user's then;
\* "late", opened when it no longer was; "kept", by a change that it made.
SessionRows ==
  [status : {"absent", "live", "closed"}, user : Users \cup {None},
   trusted : BOOLEAN, fresh : BOOLEAN,
   via : Ids \cup {None}, how : {"none", "method", "late", "kept"}]

NoSession == [status |-> "absent", user |-> None, trusted |-> FALSE,
              fresh |-> FALSE, via |-> None, how |-> "none"]

ClosedSession == [NoSession EXCEPT !.status = "closed"]

Calls ==
  [pc : {"idle", "create", "again", "open", "redirected", "mark",
         "user", "lock", "locked"},
   op : Operations \cup {"none"},
   user : Users \cup {None}, session : Sessions \cup {None},
   id : Ids \cup {None}, subject : Subjects \cup {None},
   address : Emails \cup {None}, proof : Proofs \cup {None},
   trusted : BOOLEAN]

NoCall == [pc |-> "idle", op |-> "none", user |-> None, session |-> None,
           id |-> None, subject |-> None, address |-> None, proof |-> None,
           trusted |-> FALSE]

IsLive(s, u) == session[s].status = "live" /\ session[s].user = u

LiveOf(u) == {s \in Sessions : IsLive(s, u)}

-----------------------------------------------------------------------------
(* Row locks                                                               *)

\* A transaction has locked its own session row (lockActiveSessionForOtp).
Holds(q, s) == request[q].pc = "locked" /\ request[q].session = s

\* Bug for the mutation checks: a statement does not wait for the row.
UnlockedAlways(s) == TRUE

Unlocked(s) == \A q \in Requests : ~Holds(q, s)

\* removeOwnedIdentity locks the row of the user before that of the session;
\* until it ends, no row that refers to the user can be inserted.
HoldsUser(q, u) ==
  /\ request[q].op = "remove" /\ request[q].user = u
  /\ request[q].pc \in {"lock", "locked"}

UserUnlocked(u) == \A q \in Requests : ~HoldsUser(q, u)

-----------------------------------------------------------------------------
(* Statements over sessions                                                *)

\* issueIdentitySession, issueSessionForDevice: the row of a new session.
Issued(u, trusted, via, how) ==
  [status |-> "live", user |-> u, trusted |-> trusted, fresh |-> FALSE,
   via |-> IF how = "method" THEN via ELSE None, how |-> how]

\* revokeSession, revokeOtherSessions
Closed(ts) == [t \in Sessions |-> IF t \in ts THEN ClosedSession ELSE session[t]]

\* Bug for the mutation checks: the session is not marked as reauthenticated.
NotReauthenticated(s, u, trusted) ==
  [status |-> "live", user |-> u, trusted |-> trusted,
   fresh |-> session[s].fresh, via |-> None, how |-> "kept"]

\* rotateIdentitySession: a new token, and reauthenticated by what it confirmed.
Reauthenticated(s, u, trusted) ==
  [status |-> "live", user |-> u, trusted |-> trusted,
   fresh |-> TRUE, via |-> None, how |-> "kept"]

\* promoteProvisionalSessionTrust
TrustAfter(s, op) == session[s].trusted \/ op = "promote"

\* Bug for the mutation checks: the other sessions stay open.
SecuredAlone(s, u, trusted) ==
  [session EXCEPT ![s] = Reauthenticated(s, u, trusted)]

\* The session that made the change stays, the others of the user end.
Secured(s, u, trusted) ==
  [Closed(LiveOf(u)) EXCEPT ![s] = Reauthenticated(s, u, trusted)]

\* markSessionStepUp
Refreshed(s) == [session EXCEPT ![s] = [session[s] EXCEPT !.fresh = TRUE]]

\* SessionGuard
HasSession(s) == session[s].status = "live"

\* PermissionGuard: all routes but those of a provisional session want trust.
Authenticated(s) == HasSession(s) /\ session[s].trusted

\* hasFreshStepUp
HasFreshStepUp(s) == Authenticated(s) /\ session[s].fresh

\* SessionService.revoke and logout, for a session of the same user
Revoke(s, t) ==
  /\ "revoke" \in Offered
  /\ Authenticated(s) /\ IsLive(t, session[s].user)
  /\ Unlocked(t)
  /\ session' = Closed({t})
  /\ UNCHANGED request

\* SessionService.revokeOthers
RevokeOthers(s) ==
  LET others == LiveOf(session[s].user) \ {s}
  IN  /\ "revoke-others" \in Offered
      /\ Authenticated(s) /\ others # {}
      /\ \A t \in others : Unlocked(t)
      /\ session' = Closed(others)
      /\ UNCHANGED request

\* Ten minutes after the last reauthentication.
Lapse(s) ==
  /\ session[s].fresh
  /\ session' = [session EXCEPT ![s] = [session[s] EXCEPT !.fresh = FALSE]]
  /\ UNCHANGED request

\* The idle or the absolute limit.
Expire(s) ==
  /\ HasSession(s) /\ Unlocked(s)
  /\ session' = Closed({s})
  /\ UNCHANGED request

=============================================================================
