------------------------------ MODULE Challenge -----------------------------
(***************************************************************************)
(* One-time codes: the auth_challenges rows of repositories/identity.ts,   *)
(* the requests of apps/api/src/identity/otp.service.ts that issue and     *)
(* verify them, and the windows of redis-auth-rate-limiter.ts.             *)
(*                                                                         *)
(* Issuing takes three statements on the connection pool (supersede,       *)
(* insert, store the mail), verifying two: the row is read and compared,   *)
(* and then the failure is recorded or the code consumed, in a             *)
(* transaction whose further effects are the matter of module Account.     *)
(* Any number of requests is between two statements at once.               *)
(*                                                                         *)
(* An IP address is shared with other people, so its windows may refuse    *)
(* anyone at any time.  The window of an address with an IP has the same   *)
(* points as that of the address and is never full before it.              *)
(***************************************************************************)
EXTENDS Integers, FiniteSets

CONSTANTS
  Challenges,    \* ids of challenge rows
  Emails,
  Bindings,      \* a purpose, with the user and session it is bound to
  Requests,      \* slots for requests in flight
  Attempts,      \* OTP_ATTEMPTS
  RequestPoints, \* points of otp-request per address
  VerifyPoints,  \* points of otp-verify per address
  MaxLost,       \* bound: failures that are never recorded, per challenge
  Faults,        \* what may go wrong, a subset of FaultKinds
  NoChallenge, NoKey

FaultKinds ==
  {"redis",      \* the limiter is unavailable
   "stop"}       \* a statement fails or the process dies: the request ends

Keys == Emails \X Bindings

ASSUME ChallengeAssumption ==
  /\ IsFiniteSet(Requests) /\ Requests # {}
  /\ Attempts \in Nat \ {0}
  /\ RequestPoints \in Nat \ {0} /\ VerifyPoints \in Nat \ {0}
  /\ MaxLost \in Nat
  /\ Faults \subseteq FaultKinds
  /\ NoChallenge \notin Challenges /\ NoKey \notin Keys

VARIABLES
  challenge,     \* challenge[c]: the auth_challenges row c
  used,          \* used[w]: the points spent in window w
  request,       \* request[r]: what slot r is doing
  wrong,         \* history: wrong[c], wrong codes compared with c
  lost,          \* history: lost[c], those whose failure was not recorded
  uses           \* history: uses[c], completions of c

vars == <<challenge, used, request, wrong, lost, uses>>

Rows ==
  [status : {"absent", "active", "superseded", "consumed"},
   key : Keys \cup {NoKey}, left : 0..Attempts, timely : BOOLEAN]

NoRow == [status |-> "absent", key |-> NoKey, left |-> Attempts, timely |-> TRUE]

Calls ==
  [pc : {"idle", "supersede", "insert", "mail", "find", "record", "complete"},
   key : Keys \cup {NoKey}, c : Challenges \cup {NoChallenge}]

NoCall == [pc |-> "idle", key |-> NoKey, c |-> NoChallenge]

\* Windows of the limiter, kept per address.
Policies == {"request", "cooldown", "verify"}
Windows == Policies \X Emails

Points(w) == CASE w[1] = "request" -> RequestPoints
               [] w[1] = "cooldown" -> 1
               [] w[1] = "verify" -> VerifyPoints

Init ==
  /\ challenge = [c \in Challenges |-> NoRow]
  /\ used = [w \in Windows |-> 0]
  /\ request = [r \in Requests |-> NoCall]
  /\ wrong = [c \in Challenges |-> 0]
  /\ lost = [c \in Challenges |-> 0]
  /\ uses = [c \in Challenges |-> 0]

-----------------------------------------------------------------------------
(* The limiter                                                             *)

Admits(ws) == \A w \in ws : used[w] < Points(w)

\* consume: every window is charged, also after one of them has refused.
Spend(ws) ==
  used' = [w \in Windows |->
             IF w \in ws /\ used[w] < Points(w) THEN used[w] + 1 ELSE used[w]]

\* consumeLimit of a call of slot r: admitted, refused by a full window or by
\* one of the IP address, or refused because the limiter does not answer.
Limit(r, ws, call) ==
  /\ request[r].pc = "idle"
  /\ \/ Admits(ws) /\ Spend(ws) /\ request' = [request EXCEPT ![r] = call]
     \/ Spend(ws) /\ UNCHANGED request
     \/ /\ "redis" \in Faults
        /\ \E charged \in SUBSET ws : Spend(charged)
        /\ UNCHANGED request
  /\ UNCHANGED <<challenge, wrong, lost, uses>>

\* The duration of a window is over.
WindowEnds(w) ==
  /\ used[w] > 0
  /\ used' = [used EXCEPT ![w] = 0]
  /\ UNCHANGED <<challenge, request, wrong, lost, uses>>

-----------------------------------------------------------------------------
(* OtpService.request                                                      *)

Request(r, key) ==
  Limit(r, {<<"request", key[1]>>, <<"cooldown", key[1]>>},
        [pc |-> "supersede", key |-> key, c |-> NoChallenge])

IsActive(c) == challenge[c].status = "active"

Ends(r) == request' = [request EXCEPT ![r] = NoCall]

\* replaceAuthChallengeDigest, its first statement
Supersede(r) ==
  /\ request[r].pc = "supersede"
  /\ challenge' = [c \in Challenges |->
       IF IsActive(c) /\ challenge[c].key = request[r].key
       THEN [challenge[c] EXCEPT !.status = "superseded"] ELSE challenge[c]]
  /\ request' = [request EXCEPT ![r] = [request[r] EXCEPT !.pc = "insert"]]
  /\ UNCHANGED <<used, wrong, lost, uses>>

\* auth_challenges_active_..._unique
KeyFree(key) == \A c \in Challenges : IsActive(c) => challenge[c].key # key

\* ... and its second, which the index rejects when another request was faster.
Insert(r, c) ==
  /\ request[r].pc = "insert"
  /\ challenge[c].status = "absent"
  /\ \/ /\ KeyFree(request[r].key)
        /\ challenge' = [challenge EXCEPT ![c] =
             [status |-> "active", key |-> request[r].key,
              left |-> Attempts, timely |-> TRUE]]
        /\ request' = [request EXCEPT ![r] =
             [request[r] EXCEPT !.pc = "mail", !.c = c]]
     \/ ~KeyFree(request[r].key) /\ Ends(r) /\ UNCHANGED challenge
  /\ UNCHANGED <<used, wrong, lost, uses>>

\* delivery.enqueue: the mail is InsertDelivery of module Notification.
Enqueue(r) ==
  /\ request[r].pc = "mail"
  /\ Ends(r)
  /\ UNCHANGED <<challenge, used, wrong, lost, uses>>

-----------------------------------------------------------------------------
(* OtpService.verify                                                       *)

Verify(r, c, key) ==
  Limit(r, {<<"verify", key[1]>>},
        [pc |-> "find", key |-> key, c |-> c])

\* Bug for the mutation checks: attempts are not looked at before comparing.
UsableSpent(c, key) ==
  IsActive(c) /\ challenge[c].key = key /\ challenge[c].timely

\* findActiveAuthChallenge, and what verify asks of the row
Usable(c, key) ==
  /\ IsActive(c) /\ challenge[c].key = key
  /\ challenge[c].left > 0 /\ challenge[c].timely

MoveTo(r, pc) == request' = [request EXCEPT ![r] = [request[r] EXCEPT !.pc = pc]]

\* The code that was sent is compared with the digest of the row.
Find(r) ==
  LET c == request[r].c
  IN  /\ request[r].pc = "find"
      /\ \/ /\ Usable(c, request[r].key)
            /\ \/ MoveTo(r, "complete") /\ UNCHANGED wrong
               \/ MoveTo(r, "record") /\ wrong' = [wrong EXCEPT ![c] = wrong[c] + 1]
         \/ ~Usable(c, request[r].key) /\ Ends(r) /\ UNCHANGED wrong
      /\ UNCHANGED <<challenge, used, lost, uses>>

\* Bug for the mutation checks: the counter goes on below zero.
CountsUnguarded(c) == IsActive(c)

\* The condition of both updates below; the clock they compare expires_at with
\* was read when the row was found.
Counts(c) == IsActive(c) /\ challenge[c].left > 0

\* recordAuthChallengeFailure
RecordFailure(r) ==
  LET c == request[r].c
  IN  /\ request[r].pc = "record"
      /\ \/ /\ Counts(c)
            /\ challenge' = [challenge EXCEPT ![c] =
                 [challenge[c] EXCEPT !.left = challenge[c].left - 1]]
         \/ ~Counts(c) /\ UNCHANGED challenge
      /\ Ends(r)
      /\ UNCHANGED <<used, wrong, lost, uses>>

\* Bug for the mutation checks: a consumed code may be consumed again.
ConsumeAgain(c) ==
  /\ challenge[c].status \in {"active", "consumed"} /\ challenge[c].left > 0
  /\ challenge' = [challenge EXCEPT ![c] =
       [challenge[c] EXCEPT !.status = "consumed"]]
  /\ uses' = [uses EXCEPT ![c] = uses[c] + 1]

\* consumeAuthChallengeByDigest
Consume(c) ==
  /\ Counts(c)
  /\ challenge' = [challenge EXCEPT ![c] =
       [challenge[c] EXCEPT !.status = "consumed"]]
  /\ uses' = [uses EXCEPT ![c] = uses[c] + 1]

\* completeOtpChallenge: the code is consumed with all that follows from it, or
\* the session or the address does not allow it and everything is rolled back.
Complete(r) ==
  /\ request[r].pc = "complete"
  /\ Consume(request[r].c) \/ UNCHANGED <<challenge, uses>>
  /\ Ends(r)
  /\ UNCHANGED <<used, wrong, lost>>

-----------------------------------------------------------------------------

\* The request ends between two statements; a failure not yet recorded is lost.
Abandon(r) ==
  LET c == request[r].c
  IN  /\ "stop" \in Faults
      /\ request[r].pc # "idle"
      /\ \/ /\ request[r].pc = "record" /\ lost[c] < MaxLost
            /\ lost' = [lost EXCEPT ![c] = lost[c] + 1]
         \/ request[r].pc # "record" /\ UNCHANGED lost
      /\ Ends(r)
      /\ UNCHANGED <<challenge, used, wrong, uses>>

Lapse(c) ==
  /\ IsActive(c) /\ challenge[c].timely
  /\ challenge' = [challenge EXCEPT ![c] =
       [challenge[c] EXCEPT !.timely = FALSE]]
  /\ UNCHANGED <<used, request, wrong, lost, uses>>

Next ==
  \/ \E r \in Requests :
       \/ \E key \in Keys :
            \/ Request(r, key)
            \/ \E c \in Challenges : Verify(r, c, key)
       \/ Supersede(r) \/ Enqueue(r)
       \/ \E c \in Challenges : Insert(r, c)
       \/ Find(r) \/ RecordFailure(r) \/ Complete(r)
       \/ Abandon(r)
  \/ \E c \in Challenges : Lapse(c)
  \/ \E w \in Windows : WindowEnds(w)

Spec == Init /\ [][Next]_vars

-----------------------------------------------------------------------------
(* Correctness                                                             *)

\* Types; whoever mails, records or completes has a row.
TypeOK ==
  /\ challenge \in [Challenges -> Rows]
  /\ used \in [Windows -> Nat]
  /\ request \in [Requests -> Calls]
  /\ wrong \in [Challenges -> Nat]
  /\ lost \in [Challenges -> Nat]
  /\ uses \in [Challenges -> Nat]
  /\ \A r \in Requests :
       /\ request[r].pc \in {"supersede", "insert"} => request[r].key \in Keys
       /\ request[r].pc = "find" =>
            request[r].c \in Challenges /\ request[r].key \in Keys
       /\ request[r].pc \in {"mail", "record", "complete"} =>
            /\ request[r].c \in Challenges
            /\ challenge[request[r].c].status # "absent"

\* Two requests at once never leave two working codes for one key.
OneActive ==
  \A c, d \in Challenges :
    IsActive(c) /\ IsActive(d) /\ challenge[c].key = challenge[d].key => c = d

\* However many verifications compare before their failures are recorded: of one
\* challenge at most Attempts wrong codes are compared, and besides one for each
\* further request in flight and one for each failure that was never recorded.
GuessesBounded ==
  \A c \in Challenges :
    wrong[c] <= Attempts + (Cardinality(Requests) - 1) + lost[c]

\* The same when no failure gets lost.
GuessesRecorded ==
  \A c \in Challenges : wrong[c] <= Attempts + (Cardinality(Requests) - 1)

\* A code is accepted at most once, and only with an attempt left.
AcceptedOnce ==
  \A c \in Challenges :
    /\ uses[c] = IF challenge[c].status = "consumed" THEN 1 ELSE 0
    /\ challenge[c].status = "consumed" => challenge[c].left > 0

\* A code that was issued only wears off: it stays with its key, gets no attempt and
\* no time back, and when it stops being active it does so for good.
OnlyWearsOff ==
  [][\A c \in Challenges : challenge[c].status # "absent" =>
       /\ challenge'[c].key = challenge[c].key
       /\ challenge'[c].left <= challenge[c].left
       /\ challenge'[c].timely => challenge[c].timely
       /\ \/ challenge'[c].status = challenge[c].status
          \/ IsActive(c) /\ challenge'[c].status \in {"superseded", "consumed"}]_vars

\* What the code of each row is worth, and for whom.
Worth ==
  LET worth == [absent |-> "absent", active |-> "valid", superseded |-> "void",
                consumed |-> "used"]
  IN  [c \in Challenges |-> worth[challenge[c].status]]

Holder == [c \in Challenges |-> challenge[c].key]

\* A code is one-time: valid beside no other of its key, accepted at most once.
O == INSTANCE OneTimeCode WITH
       Codes <- Challenges, Subjects <- Keys, NoSubject <- NoKey,
       code <- Worth, subject <- Holder

ImplementsOneTimeCode == O!Spec

=============================================================================
