------------------------------- MODULE Outbox -------------------------------
(***************************************************************************)
(* The transactional outbox (packages/database/src/outbox.ts) and the      *)
(* publishers that drain it into BullMQ (apps/worker/src/outbox/           *)
(* publisher.ts).  Every worker process runs one publisher.  Each SQL      *)
(* statement is one atomic step (claiming uses FOR UPDATE SKIP LOCKED, the *)
(* other two are single guarded UPDATEs); everything a publisher does      *)
(* between two statements is interleaved with the other publishers.        *)
(*                                                                         *)
(* Timestamps are kept relative to the present: "due" is available_at and  *)
(* "lease" is lease_expires_at, both minus the current time, so time never *)
(* needs a bound.  A publisher reads its clock BEFORE it sends a statement *)
(* and clocks differ between machines: the time a statement carries lies   *)
(* up to MaxLag in the past.  A timer stops at -MaxLag, where every        *)
(* possible reading already finds it expired.                              *)
(***************************************************************************)
EXTENDS Integers, FiniteSets

CONSTANTS
  Events,        \* ids of the outbox rows the business may append
  Supported,     \* those whose type and version mapEvent knows
  Publishers,    \* worker processes
  Tokens,        \* claim tokens (randomUUID): any token not in use is fresh
  MaxAttempts,   \* maxAttempts
  BatchSize,     \* batchSize
  LeaseTime,     \* leaseMs
  RetryBase,     \* retryBaseMs
  RetryMax,      \* retryMaxMs
  MaxLag,        \* how old the clock reading of a statement can be
  Faults,        \* which failures may happen, a subset of FaultKinds
  NoToken,       \* SQL null in claim_token
  NoEvent        \* no event in hand

FaultKinds ==
  {"crash",      \* a worker process dies and restarts
   "redis",      \* queue.add rejects, whether or not Redis kept the job
   "db",         \* a statement fails and has no effect
   "reply"}      \* a statement commits but its caller sees a failure

ASSUME OutboxAssumption ==
  /\ Supported \subseteq Events
  /\ MaxAttempts \in Nat \ {0}
  /\ BatchSize \in Nat \ {0}
  /\ LeaseTime \in Nat \ {0}
  /\ RetryBase \in Nat \ {0}
  /\ RetryMax \in Nat /\ RetryBase <= RetryMax
  /\ MaxLag \in Nat
  /\ Faults \subseteq FaultKinds
  /\ NoToken \notin Tokens
  /\ NoEvent \notin Events

\* Enough tokens for every row and every publisher to hold one of its own, as
\* with randomUUID.  Only the checked instances need it.
ASSUME EnoughTokens ==
  Cardinality(Tokens) >= Cardinality(Publishers) + Cardinality(Events)

VARIABLES
  row,           \* row[e]: the outbox_events row of e
  queued,        \* events whose job BullMQ has accepted (jobId = event id)
  pub            \* pub[p]: where publisher p is in runOnce

vars == <<row, queued, pub>>

Statuses == {"absent", "pending", "publishing", "published", "failed"}

Rows ==
  [status : Statuses, attempts : 0..MaxAttempts, due : Int, lease : Int,
   token : Tokens \cup {NoToken}]

Locations == {"idle", "drain", "mark", "retry"}

Runs ==
  [pc : Locations, token : Tokens \cup {NoToken}, batch : SUBSET Events,
   current : Events \cup {NoEvent}]

NoRow ==
  [status |-> "absent", attempts |-> 0, due |-> 0, lease |-> 0,
   token |-> NoToken]

NoRun ==
  [pc |-> "idle", token |-> NoToken, batch |-> {}, current |-> NoEvent]

Init ==
  /\ row = [e \in Events |-> NoRow]
  /\ queued = {}
  /\ pub = [p \in Publishers |-> NoRun]

-----------------------------------------------------------------------------
(* appendOutboxEvent: the INSERT commits with the business transaction.    *)

\* The availability time is the API process's own clock reading.
Append(e) ==
  /\ row[e].status = "absent"
  /\ \E lag \in 0..MaxLag :
       row' = [row EXCEPT ![e].status = "pending", ![e].due = 0 - lag]
  /\ UNCHANGED <<queued, pub>>

-----------------------------------------------------------------------------
(* claimOutboxBatch                                                        *)

\* Bug for the mutation checks: rows in state publishing are never offered
\* again, so a lease that ran out is never taken over.
EligibleNeverReclaims(e, lag) ==
  /\ row[e].attempts < MaxAttempts
  /\ row[e].status \in {"pending", "failed"}
  /\ row[e].due + lag <= 0

\* The WHERE clause of the claim, for a statement whose clock reading is lag old.
Eligible(e, lag) ==
  /\ row[e].attempts < MaxAttempts
  /\ \/ row[e].status \in {"pending", "failed"} /\ row[e].due + lag <= 0
     \/ row[e].status = "publishing" /\ row[e].lease + lag <= 0

\* The rows ORDER BY available_at LIMIT batchSize can return.  Ties on
\* available_at are broken by occurred_at and id, here in any way.
Batches(lag) ==
  LET offered == {e \in Events : Eligible(e, lag)}
  IN  {S \in SUBSET offered :
         /\ Cardinality(S) <= BatchSize
         /\ S # offered => Cardinality(S) = BatchSize
         /\ \A e \in S, f \in offered \ S : row[e].due <= row[f].due}

TokensInUse ==
  {row[e].token : e \in Events} \cup {pub[p].token : p \in Publishers}

\* Bug for the mutation checks: runs share a token instead of drawing a new one.
FreshTokenReused == CHOOSE k \in Tokens : TRUE

FreshToken == CHOOSE k \in Tokens : k \notin TokensInUse

Claimed(r, k, lag) ==
  [r EXCEPT !.status = "publishing", !.attempts = @ + 1, !.token = k,
            !.lease = LeaseTime - lag]

\* The UPDATE and its answer.  A reply fault loses the answer of a claim that
\* committed: poll logs it, and the rows wait for their lease to run out.
ClaimRows(p, S, lag) ==
  /\ row' = [e \in Events |->
               IF e \in S THEN Claimed(row[e], FreshToken, lag) ELSE row[e]]
  /\ \/ pub' = [pub EXCEPT ![p] =
                  IF S = {} THEN NoRun
                  ELSE [pc |-> "drain", token |-> FreshToken, batch |-> S,
                        current |-> NoEvent]]
     \/ "reply" \in Faults /\ UNCHANGED pub

\* runOnce up to its loop.
Claim(p) ==
  /\ pub[p].pc = "idle"
  /\ Tokens \ TokensInUse # {}
  /\ \E lag \in 0..MaxLag : \E S \in Batches(lag) : ClaimRows(p, S, lag)
  /\ UNCHANGED queued

-----------------------------------------------------------------------------
(* publishClaimedEvent                                                     *)

\* The loop of runOnce goes on to the next event of its batch, or ends.
Advance(p) ==
  LET rest == pub[p].batch \ {pub[p].current}
  IN  pub' = [pub EXCEPT ![p] =
                IF rest = {} THEN NoRun
                ELSE [@ EXCEPT !.pc = "drain", !.batch = rest,
                               !.current = NoEvent]]

Goto(p, pc, e) ==
  pub' = [pub EXCEPT ![p].pc = pc, ![p].current = e]

\* mapEvent throws: the event goes to retryEvent without reaching the queue.
RejectInvalid(p, e) ==
  /\ pub[p].pc = "drain"
  /\ e \in pub[p].batch \ Supported
  /\ Goto(p, "retry", e)
  /\ UNCHANGED <<row, queued>>

\* Bug for the mutation checks: the outcome of queue.add is not awaited.
EnqueueNotAwaited(p, e) ==
  /\ pub[p].pc = "drain"
  /\ e \in pub[p].batch \cap Supported
  /\ Goto(p, "mark", e)
  /\ queued' \in {queued, queued \cup {e}}
  /\ UNCHANGED row

\* queue.add with jobId = event id: BullMQ keeps one job per id.
Enqueue(p, e) ==
  /\ pub[p].pc = "drain"
  /\ e \in pub[p].batch \cap Supported
  /\ \/ /\ queued' = queued \cup {e}
        /\ Goto(p, "mark", e)
     \/ /\ "redis" \in Faults
        /\ queued' \in {queued, queued \cup {e}}
        /\ Goto(p, "retry", e)
  /\ UNCHANGED row

\* Bug for the mutation checks: the fencing token is not compared.
HoldsLeaseUnfenced(p, lag) ==
  LET r == row[pub[p].current]
  IN  r.status = "publishing" /\ r.lease + lag > 0

\* The WHERE clause that markOutboxPublished and retryOutboxEvent share.
HoldsLease(p, lag) ==
  LET r == row[pub[p].current]
  IN  r.status = "publishing" /\ r.token = pub[p].token /\ r.lease + lag > 0

\* Bug for the mutation checks: the outcome forgets to clear the claim token.
WithOutcomeKeepsToken(r, status, due) ==
  [status |-> status, attempts |-> r.attempts, due |-> due, lease |-> 0,
   token |-> r.token]

\* Either outcome of a claim clears the claim.
WithOutcome(r, status, due) ==
  [status |-> status, attempts |-> r.attempts, due |-> due, lease |-> 0,
   token |-> NoToken]

SetPublished(e) ==
  row' = [row EXCEPT ![e] = WithOutcome(row[e], "published", row[e].due)]

SetFailed(e, due) ==
  row' = [row EXCEPT ![e] = WithOutcome(row[e], "failed", due)]

\* markOutboxPublished; a lost lease or a failed call continues in retryEvent.
MarkPublished(p) ==
  /\ pub[p].pc = "mark"
  /\ \E lag \in 0..MaxLag :
       \/ HoldsLease(p, lag) /\ SetPublished(pub[p].current) /\ Advance(p)
       \/ /\ ~HoldsLease(p, lag)
          /\ Goto(p, "retry", pub[p].current)
          /\ UNCHANGED row
       \/ /\ "reply" \in Faults /\ HoldsLease(p, lag)
          /\ SetPublished(pub[p].current)
          /\ Goto(p, "retry", pub[p].current)
       \/ /\ "db" \in Faults
          /\ Goto(p, "retry", pub[p].current)
          /\ UNCHANGED row
  /\ UNCHANGED queued

\* The delay before the next attempt: exponential in the attempts made.
IsBackoff(delay, attempts) ==
  LET exponential == RetryBase * 2 ^ (attempts - 1)
  IN  delay = IF exponential < RetryMax THEN exponential ELSE RetryMax

\* retryOutboxEvent; whatever the outcome, the loop goes on.
Retry(p) ==
  /\ pub[p].pc = "retry"
  /\ \E lag \in 0..MaxLag :
       \/ /\ HoldsLease(p, lag)
          /\ row[pub[p].current].attempts <= MaxAttempts
          /\ \E delay \in 1..RetryMax :
               /\ IsBackoff(delay, row[pub[p].current].attempts)
               /\ SetFailed(pub[p].current, delay - lag)
       \/ (~HoldsLease(p, lag) \/ "db" \in Faults) /\ UNCHANGED row
  /\ Advance(p)
  /\ UNCHANGED queued

-----------------------------------------------------------------------------
(* The environment                                                         *)

\* The process dies between two steps and restarts with nothing claimed.
Crash(p) ==
  /\ "crash" \in Faults
  /\ pub[p].pc # "idle"
  /\ pub' = [pub EXCEPT ![p] = NoRun]
  /\ UNCHANGED <<row, queued>>

Older(t) == IF t > 0 - MaxLag THEN t - 1 ELSE t

Tick ==
  /\ row' = [e \in Events |->
               IF row[e].status = "absent" THEN row[e]
               ELSE [row[e] EXCEPT
                       !.due = Older(@),
                       !.lease = IF row[e].status = "publishing" THEN Older(@)
                                 ELSE @]]
  /\ UNCHANGED <<queued, pub>>

Step(p) ==
  \/ Claim(p)
  \/ \E e \in Events : RejectInvalid(p, e) \/ Enqueue(p, e)
  \/ MarkPublished(p)
  \/ Retry(p)

Next ==
  \/ \E e \in Events : Append(e)
  \/ \E p \in Publishers : Step(p) \/ Crash(p)
  \/ Tick

Spec == Init /\ [][Next]_vars

\* A live publisher keeps polling and each of its awaits ends; time passes.
Fairness == WF_vars(Tick) /\ \A p \in Publishers : WF_vars(Step(p))

FairSpec == Spec /\ Fairness

-----------------------------------------------------------------------------
(* Correctness                                                             *)

RunCoherent(run) ==
  /\ run.pc = "idle" <=> run.token = NoToken
  /\ run.pc = "idle" => run.batch = {}
  /\ run.pc \in {"mark", "retry"} => run.current \in run.batch

\* Types, and the coherence of a row: exactly the rows in state publishing
\* carry a claim token, and only a publisher at work has one and holds events.
TypeOK ==
  /\ row \in [Events -> Rows]
  /\ queued \subseteq Events
  /\ pub \in [Publishers -> Runs]
  /\ \A e \in Events : row[e].status = "publishing" <=> row[e].token # NoToken
  /\ \A p \in Publishers : RunCoherent(pub[p])

\* The outbox never calls an event published unless its job is in the queue,
\* whatever fails between queue.add and the update of the row.
PublishedWasEnqueued ==
  \A e \in Events : row[e].status = "published" => e \in queued

Holds(p, e) == e \in pub[p].batch /\ pub[p].token = row[e].token

\* However late a publisher is, at most one run can still update a row: taking
\* an expired claim over invalidates the run that held it.
SingleHolder ==
  \A e \in Events : \A p, q \in Publishers : Holds(p, e) /\ Holds(q, e) => p = q

TakenOver(e) == row'[e].status = "publishing" /\ row[e].lease <= 0

DecidedByHolder(e) ==
  /\ row'[e].status \in {"published", "failed"}
  /\ \E p \in Publishers :
       Holds(p, e) /\ pub[p].current = e /\ pub'[p] # pub[p]

\* A claimed row changes hands only after its lease ran out, and its outcome is
\* written only by the run that holds the claim: a stale run changes nothing.
FencedTransitions ==
  [][\A e \in Events :
       row[e].status = "publishing" /\ row'[e].token # row[e].token =>
         TakenOver(e) \/ DecidedByHolder(e)]_vars

\* The outbox hands every event over at least once before it reports it.
H == INSTANCE Handoff WITH
       committed <- {e \in Events : row[e].status # "absent"},
       handed <- queued,
       acknowledged <- {e \in Events : row[e].status = "published"}

ImplementsHandoff == H!Spec

\* Nothing is in flight for e any more: published, or out of attempts.
Settled(e) ==
  /\ row[e].status = "published" \/ row[e].attempts = MaxAttempts
  /\ \A p \in Publishers : e \notin pub[p].batch

\* Whatever fails and however often a publisher dies, the outbox never forgets
\* a row half way: it ends published or with every attempt spent.
EventuallySettled ==
  \A e \in Events : row[e].status # "absent" ~> [] Settled(e)

\* "A database failure leaves the publishing lease recoverable for a later
\* claim" (publisher.ts:231): a row in state publishing can be claimed again
\* once its lease has run out, or a run still holds it.
PublishingIsRecoverable ==
  \A e \in Events : row[e].status = "publishing" =>
    row[e].attempts < MaxAttempts \/ \E p \in Publishers : Holds(p, e)


\* While nothing crashes and every statement is answered, a claim whose lease
\* still runs has its run: no slow loop, lost lease, clock lag or queue failure
\* leaves a row in state publishing that nobody works on and nobody may claim.
\* Only a crash or a failed statement does (publisher.ts:215, retryEvent).
RunningLeaseIsHeld ==
  \A e \in Events :
    row[e].status = "publishing" /\ row[e].lease > 0 =>
      \E p \in Publishers : Holds(p, e)

\* What the statements may do to the history of a row: an appended row is never
\* removed, a published one never claimed or failed again, and an attempt is
\* only ever counted, one at a time, by the claim that draws a new token, so
\* that maxAttempts bounds the claims whatever is retried or lost.
RowHistory ==
  [][\A e \in Events :
       /\ row[e].status # "absent" => row'[e].status # "absent"
       /\ row[e].status = "published" =>
            /\ row'[e].status = "published"
            /\ row'[e].attempts = row[e].attempts
       /\ row'[e].attempts # row[e].attempts =>
            /\ row'[e].attempts = row[e].attempts + 1
            /\ row'[e].status = "publishing"
            /\ row'[e].token \notin TokensInUse]_vars

=============================================================================
