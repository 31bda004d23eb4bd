---------------------------- MODULE Notification ----------------------------
(***************************************************************************)
(* The delivery of notifications: the rows with encrypted payloads of      *)
(* packages/database/src/repositories/notifications.ts, the BullMQ job of  *)
(* each row, and the processor of apps/worker/src/notifications/           *)
(* processor.ts in any number of worker processes, with the mail provider  *)
(* behind resend-email-sender.ts.                                          *)
(*                                                                         *)
(* The row of an invitation or of an alert commits together with its       *)
(* outbox event; the row of a one-time code does not, since the identity   *)
(* runtime passes the pool and not a transaction.  The provider answers a  *)
(* key it has seen before without mailing again.  A payload is cleared     *)
(* exactly when its row leaves "pending".                                  *)
(***************************************************************************)
EXTENDS Integers

CONSTANTS
  Deliveries,    \* ids of delivery rows
  Transactional, \* those whose event is appended in their transaction
  Workers,       \* worker processes; each runs one job at a time
  JobAttempts,   \* attempts of createQueue
  MaxStalls,     \* maxStalledCount of BullMQ
  Lifetime,      \* ticks from creation to payloadExpiresAt
  MaxLag,        \* how far the clock of a worker may lag, in ticks
  Faults,        \* what may go wrong, a subset of FaultKinds
  NoDelivery, NoWorker

FaultKinds ==
  {"crash",      \* a worker process dies
   "stall",      \* a live worker fails to renew the lock of its job
   "provider",   \* the provider fails, with or without effect
   "key",        \* no key for the version of the payload
   "db",         \* a statement fails
   "reply"}      \* a statement commits and its reply is lost

ASSUME NotificationAssumption ==
  /\ Transactional \subseteq Deliveries
  /\ NoDelivery \notin Deliveries /\ NoWorker \notin Workers
  /\ JobAttempts \in Nat \ {0} /\ MaxStalls \in Nat
  /\ Lifetime \in Nat \ {0} /\ MaxLag \in Nat
  /\ Faults \subseteq FaultKinds

VARIABLES
  delivery,      \* delivery[d]: the notification_deliveries row d
  event,         \* the rows whose outbox event is committed
  mails,         \* mails[d]: the mails that left for d
  job,           \* job[d]: the job of that event
  run            \* run[w]: the job that worker w is processing

vars == <<delivery, event, mails, job, run>>

Outcomes == {"delivered", "expired"}

Rows == [status : {"absent", "pending"} \cup Outcomes,
         left : (0 - MaxLag)..Lifetime]

NoRow == [status |-> "absent", left |-> Lifetime]

\* What the processor returned is the state of a completed job.
Results == Outcomes \cup {"ignored"}
Settled == Results \cup {"failed"}

Jobs == [state : {"none", "waiting", "delayed", "active"} \cup Settled,
         holder : Workers \cup {NoWorker},
         made : 0..JobAttempts, stalls : 0..MaxStalls]

NoJob == [state |-> "none", holder |-> NoWorker, made |-> 0, stalls |-> 0]

\* Nobody reads the counters of a settled job, nor the dates of a decided row.
SettledJob(state) == [NoJob EXCEPT !.state = state]

Runs == [pc : {"idle", "find", "send"} \cup Outcomes,
         d : Deliveries \cup {NoDelivery}]

NoRun == [pc |-> "idle", d |-> NoDelivery]

Init ==
  /\ delivery = [d \in Deliveries |-> NoRow]
  /\ event = {}
  /\ mails = [d \in Deliveries |-> 0]
  /\ job = [d \in Deliveries |-> NoJob]
  /\ run = [w \in Workers |-> NoRun]

-----------------------------------------------------------------------------
(* The row and its job come into being                                     *)

\* createEncryptedNotificationDelivery: the row, and in a transaction its event.
InsertDelivery(d) ==
  /\ delivery[d].status = "absent"
  /\ delivery' = [delivery EXCEPT ![d] =
       [status |-> "pending", left |-> Lifetime]]
  /\ event' = event \cup ({d} \cap Transactional)
  /\ UNCHANGED <<mails, job, run>>

\* Outside a transaction the event is a statement of its own, which an API
\* process that dies or fails in between never gets to.
AppendEvent(d) ==
  /\ delivery[d].status # "absent" /\ d \notin event
  /\ event' = event \cup {d}
  /\ UNCHANGED <<delivery, mails, job, run>>

\* The outbox publisher adds the job (module Outbox says when it does not).
AddJob(d) ==
  /\ d \in event /\ job[d].state = "none"
  /\ job' = [job EXCEPT ![d].state = "waiting"]
  /\ UNCHANGED <<delivery, event, mails, run>>

-----------------------------------------------------------------------------
(* BullMQ                                                                  *)

Deliver(w, d) ==
  /\ run[w].pc = "idle"
  /\ job[d].state = "waiting"
  /\ job' = [job EXCEPT ![d].state = "active", ![d].holder = w]
  /\ run' = [run EXCEPT ![w] = [pc |-> "find", d |-> d]]
  /\ UNCHANGED <<delivery, event, mails>>

\* Bug for the mutation checks: whoever returns settles the job.
JobReturnsWithoutLock(w, result) ==
  /\ run' = [run EXCEPT ![w] = NoRun]
  /\ job' = [d \in Deliveries |->
               IF run[w].d # d THEN job[d]
               ELSE [job[d] EXCEPT !.state = result]]

\* The processor returns or throws; a worker that lost the lock of the job has
\* no say any more.
JobReturns(w, result) ==
  /\ run' = [run EXCEPT ![w] = NoRun]
  /\ job' = [d \in Deliveries |->
               IF job[d].holder # w THEN job[d] ELSE SettledJob(result)]

\* Bug for the mutation checks: a failure is never retried, nor given up.
AfterFailureForgotten(j) == [j EXCEPT !.state = "delayed", !.made = @ + 1]

AfterFailure(j) ==
  IF j.made + 1 = JobAttempts THEN SettledJob("failed")
  ELSE [j EXCEPT !.state = "delayed", !.holder = NoWorker, !.made = @ + 1]

JobThrows(w) ==
  /\ run' = [run EXCEPT ![w] = NoRun]
  /\ job' = [d \in Deliveries |->
               IF job[d].holder # w THEN job[d] ELSE AfterFailure(job[d])]

\* The backoff of a failed attempt is over.
Promote(d) ==
  /\ job[d].state = "delayed" /\ job[d].holder = NoWorker
  /\ job' = [job EXCEPT ![d].state = "waiting"]
  /\ UNCHANGED <<delivery, event, mails, run>>

LockLost(d) ==
  \/ /\ job[d].stalls = MaxStalls
     /\ job' = [job EXCEPT ![d] = SettledJob("failed")]
  \/ /\ job[d].stalls # MaxStalls
     /\ job' = [job EXCEPT ![d] =
          [job[d] EXCEPT !.state = "waiting", !.holder = NoWorker,
                         !.stalls = @ + 1]]

\* The job of a dead worker is found stalled.
Recover(d) ==
  /\ job[d].state = "active" /\ job[d].holder = NoWorker
  /\ LockLost(d)
  /\ UNCHANGED <<delivery, event, mails, run>>

\* A live worker does not renew its lock in time.
Stall(d) ==
  /\ "stall" \in Faults
  /\ job[d].state = "active" /\ job[d].holder # NoWorker
  /\ LockLost(d)
  /\ UNCHANGED <<delivery, event, mails, run>>

-----------------------------------------------------------------------------
(* The processor                                                           *)

\* What a clock that lags makes of payloadExpiresAt and availableAt.
IsPending(d) == delivery[d].status = "pending"
LooksExpired(d, lag) == delivery[d].left + lag <= 0
LooksEarly(d, lag) == Lifetime - delivery[d].left < lag

MoveTo(w, pc) ==
  /\ run' = [run EXCEPT ![w] = [pc |-> pc, d |-> run[w].d]]
  /\ UNCHANGED job

\* findById and what follows up to the call of the provider: a row that is
\* decided, or looks early, settles the job.
Find(w) ==
  LET d == run[w].d
  IN  /\ run[w].pc = "find"
      /\ \E lag \in 0..MaxLag :
           \/ ~IsPending(d) /\ JobReturns(w, "ignored")
           \/ IsPending(d) /\ LooksExpired(d, lag) /\ MoveTo(w, "expired")
           \/ /\ IsPending(d) /\ ~LooksExpired(d, lag) /\ LooksEarly(d, lag)
              /\ JobReturns(w, "ignored")
           \/ /\ IsPending(d) /\ ~LooksExpired(d, lag) /\ ~LooksEarly(d, lag)
              /\ MoveTo(w, "send") \/ ("key" \in Faults /\ JobThrows(w))
           \/ "db" \in Faults /\ JobThrows(w)
      /\ UNCHANGED <<delivery, event, mails>>

\* Bug for the mutation checks: every attempt has an idempotency key of its own.
MailLeavesAgain(d) == mails' = [mails EXCEPT ![d] = @ + 1]

\* The provider mails once per idempotency key, and that is the key of the row.
MailLeaves(d) == mails' = [mails EXCEPT ![d] = 1]

\* ResendEmailSender.send: an error in the response throws.
Send(w) ==
  /\ run[w].pc = "send"
  /\ \/ MailLeaves(run[w].d) /\ MoveTo(w, "delivered")
     \/ /\ "provider" \in Faults
        /\ MailLeaves(run[w].d) \/ UNCHANGED mails
        /\ JobThrows(w)
  /\ UNCHANGED <<delivery, event>>

\* clearNotificationPayload, where payload_cleared_at is null
Clear(d, outcome) ==
  /\ IsPending(d)
  /\ delivery' = [delivery EXCEPT ![d] = [NoRow EXCEPT !.status = outcome]]

\* Bug for the mutation checks: whatever the other outcome was will do.
PersistUnchecked(w) ==
  LET d == run[w].d
      outcome == run[w].pc
  IN  /\ outcome \in Outcomes
      /\ \/ Clear(d, outcome) /\ JobReturns(w, outcome)
         \/ ~IsPending(d) /\ JobReturns(w, outcome) /\ UNCHANGED delivery
         \/ "db" \in Faults /\ JobReturns(w, outcome) /\ UNCHANGED delivery
      /\ UNCHANGED <<event, mails>>

\* persistTerminalOutcome
Persist(w) ==
  LET d == run[w].d
      outcome == run[w].pc
  IN  /\ outcome \in Outcomes
      /\ \/ /\ Clear(d, outcome)
            /\ JobReturns(w, outcome) \/ ("reply" \in Faults /\ JobThrows(w))
         \/ /\ delivery[d].status = outcome
            /\ JobReturns(w, "ignored") /\ UNCHANGED delivery
         \/ /\ delivery[d].status \in Outcomes \ {outcome}
            /\ JobThrows(w) /\ UNCHANGED delivery
         \/ "db" \in Faults /\ JobThrows(w) /\ UNCHANGED delivery
      /\ UNCHANGED <<event, mails>>

\* The process dies between two steps; the queue will find its job stalled.
Die(w) ==
  /\ run' = [run EXCEPT ![w] = NoRun]
  /\ job' = [d \in Deliveries |-> IF job[d].holder # w THEN job[d]
                                  ELSE [job[d] EXCEPT !.holder = NoWorker]]
  /\ UNCHANGED <<delivery, event, mails>>

Crash(w) ==
  /\ "crash" \in Faults
  /\ run[w].pc # "idle"
  /\ Die(w)

-----------------------------------------------------------------------------

Tick ==
  /\ delivery' = [d \in Deliveries |->
       IF IsPending(d) /\ delivery[d].left > 0 - MaxLag
       THEN [delivery[d] EXCEPT !.left = @ - 1] ELSE delivery[d]]
  /\ UNCHANGED <<event, mails, job, run>>

Process(w) == Find(w) \/ Send(w) \/ Persist(w)

Queue(d) == AddJob(d) \/ Promote(d) \/ Recover(d)

Next ==
  \/ \E d \in Deliveries :
       \/ InsertDelivery(d) \/ AppendEvent(d)
       \/ Queue(d) \/ Stall(d)
       \/ \E w \in Workers : Deliver(w, d)
  \/ \E w \in Workers : Process(w) \/ Crash(w)
  \/ Tick

Spec == Init /\ [][Next]_vars

-----------------------------------------------------------------------------
(* Correctness                                                             *)

\* Types; a job exists only for an event, an event only for a row, and the
\* holder of the lock of a job is working on it.
TypeOK ==
  /\ delivery \in [Deliveries -> Rows]
  /\ event \subseteq {d \in Deliveries : delivery[d].status # "absent"}
  /\ mails \in [Deliveries -> Nat]
  /\ job \in [Deliveries -> Jobs]
  /\ run \in [Workers -> Runs]
  /\ \A d \in Deliveries : job[d].state # "none" => d \in event
  /\ \A d \in Deliveries : job[d].holder # NoWorker =>
       /\ job[d].state = "active"
       /\ run[job[d].holder].pc # "idle" /\ run[job[d].holder].d = d
  /\ \A w \in Workers : run[w].pc # "idle" => run[w].d \in event

\* "Persisted terminal outcome required before success response": a job that
\* reports an outcome has it on record, however many deliveries of the job
\* overlapped, failed or lost their replies.
SuccessIsPersisted ==
  \A d \in Deliveries :
    job[d].state \in Outcomes => delivery[d].status = job[d].state

\* Of each row at most one mail leaves, and it did when the row says delivered.
DeliveredIsMailed ==
  \A d \in Deliveries :
    mails[d] <= 1 /\ (delivery[d].status = "delivered" => mails[d] = 1)

\* A job that is done with its row, "ignored" included, leaves none pending: no
\* payload stays behind a job that reported success.
ResultIsDecided ==
  \A d \in Deliveries : job[d].state \in Results => delivery[d].status \in Outcomes

\* A worker that works on a job holds its lock, and so is the only one; and what
\* it goes to the provider with, or to the database, is still pending.
RunsAlone ==
  \A w \in Workers :
    /\ run[w].pc # "idle" => job[run[w].d].holder = w
    /\ run[w].pc \notin {"idle", "find"} => IsPending(run[w].d)

Recorded == [d \in Deliveries |-> delivery[d].status]

M == INSTANCE Mailing WITH Messages <- Deliveries, outcome <- Recorded

\* Of each row at most one mail leaves, whatever is retried; a row says delivered
\* only when it did, and no outcome is ever changed.
ImplementsMailing == M!Spec

=============================================================================
