---------------------------- MODULE LogoCleanup -----------------------------
(***************************************************************************)
(* The clean-up of logo objects: the ledger of packages/database/src/      *)
(* repositories/organizations.ts, the BullMQ job of each ledger row, and   *)
(* the processor of apps/worker/src/storage/logo-cleanup.processor.ts in   *)
(* any number of worker processes.                                         *)
(*                                                                         *)
(* A ledger row belongs to one object key ((provider, digest) is unique)   *)
(* and one job (its id is the id of the outbox event appended with the     *)
(* row).  The processor runs in steps between its awaits: claim the row,   *)
(* delete the object, then record the outcome.  BullMQ is external: it     *)
(* retries a job that threw, and delivers it anew when its worker died or  *)
(* failed to renew its lock, whatever that worker goes on to do.           *)
(*                                                                         *)
(* Time: a row keeps the ticks left until it is due and until its claim is *)
(* stale, a run the age of the clock reading it works with.  The clocks of *)
(* the processes lag 0..MaxLag behind.                                     *)
(***************************************************************************)
EXTENDS Integers, FiniteSets

CONSTANTS
  Keys,          \* object keys
  Workers,       \* worker processes; each runs one job at a time
  LeaseTime,     \* CLEANUP_LEASE_MS
  RetryBase,     \* retryBaseDelayMs of the processor
  RetryMax,      \* its cap of 60000 ms
  QueueDelay,    \* the exponential backoff delay of createQueue
  JobAttempts,   \* attempts of createQueue
  MaxStalls,     \* maxStalledCount of BullMQ
  MaxLag,        \* how far a clock may lag, in ticks
  Faults,        \* what may go wrong, a subset of FaultKinds
  NoKey, NoWorker

FaultKinds ==
  {"crash",      \* a worker process dies
   "stall",      \* a live worker fails to renew the lock of its job
   "storage",    \* deleteObject fails, with or without effect
   "db",         \* a statement fails
   "reply"}      \* a statement commits and its reply is lost

ASSUME LogoCleanupAssumption ==
  /\ NoKey \notin Keys /\ NoWorker \notin Workers
  /\ LeaseTime \in Nat \ {0} /\ RetryBase \in Nat \ {0}
  /\ RetryMax \in Nat \ {0} /\ QueueDelay \in Nat \ {0}
  /\ JobAttempts \in Nat \ {0} /\ MaxStalls \in Nat /\ MaxLag \in Nat
  /\ Faults \subseteq FaultKinds

VARIABLES
  bucket,        \* the objects that exist
  ledger,        \* ledger[k]: the orphan_storage_cleanup_ledger row of k
  job,           \* job[k]: the job of that row
  run            \* run[w]: the delivery that worker w is processing

vars == <<bucket, ledger, job, run>>

Rows ==
  [status : {"absent", "pending", "claimed", "completed", "failed"},
   attempts : Nat, due : Int, lease : Int]

NoRow == [status |-> "absent", attempts |-> 0, due |-> 0, lease |-> 0]

Jobs ==
  [state : {"none", "waiting", "delayed", "active", "completed", "failed"},
   holder : Workers \cup {NoWorker}, made : 0..JobAttempts,
   wait : Nat, stalls : 0..MaxStalls]

NoJob ==
  [state |-> "none", holder |-> NoWorker, made |-> 0, wait |-> 0, stalls |-> 0]

MaxAge == RetryMax + MaxLag

Runs ==
  [pc : {"idle", "claim", "delete", "complete", "retry"},
   key : Keys \cup {NoKey}, attempts : Nat, age : 0..MaxAge]

NoRun == [pc |-> "idle", key |-> NoKey, attempts |-> 0, age |-> 0]

Init ==
  /\ bucket = Keys
  /\ ledger = [k \in Keys |-> NoRow]
  /\ job = [k \in Keys |-> NoJob]
  /\ run = [w \in Workers |-> NoRun]

Listed == {k \in Keys : ledger[k].status # "absent"}
Completed == {k \in Keys : ledger[k].status = "completed"}

-----------------------------------------------------------------------------
(* The row and its job come into being                                     *)

\* enqueueOrphanCleanup: for a replaced logo, or for one whose upload failed
\* and whose immediate deletion failed too, perhaps after taking effect.
EnqueueOrphanCleanup(k) ==
  /\ ledger[k].status = "absent"
  /\ \E lag \in 0..MaxLag :
       ledger' = [ledger EXCEPT ![k] = [status |-> "pending", attempts |-> 0,
                                        due |-> 0 - lag, lease |-> 0]]
  /\ bucket' \in {bucket, bucket \ {k}}
  /\ UNCHANGED <<job, run>>

\* The outbox publisher adds the job (module Outbox says when it does not).
AddJob(k) ==
  /\ k \in Listed /\ job[k].state = "none"
  /\ job' = [job EXCEPT ![k].state = "waiting"]
  /\ UNCHANGED <<bucket, ledger, run>>

-----------------------------------------------------------------------------
(* BullMQ                                                                  *)

Deliver(w, k) ==
  /\ run[w].pc = "idle"
  /\ job[k].state = "waiting"
  /\ job' = [job EXCEPT ![k].state = "active", ![k].holder = w]
  /\ run' = [run EXCEPT ![w] = [NoRun EXCEPT !.pc = "claim", !.key = k]]
  /\ UNCHANGED <<bucket, ledger>>

\* Bug for the mutation checks: whoever returns settles the job.
JobReturnsWithoutLock(w) ==
  /\ run' = [run EXCEPT ![w] = NoRun]
  /\ job' = [k \in Keys |->
               IF run[w].key # k THEN job[k]
               ELSE [job[k] EXCEPT !.state = "completed"]]

\* The processor returns or throws; a worker that lost the lock of the job has
\* no say any more.
JobReturns(w) ==
  /\ run' = [run EXCEPT ![w] = NoRun]
  /\ job' = [k \in Keys |->
               IF job[k].holder # w THEN job[k]
               ELSE [job[k] EXCEPT !.state = "completed", !.holder = NoWorker]]

\* Exponential backoff of BullMQ after so many attempts.
IsQueueBackoff(wait, made) == wait = QueueDelay * 2 ^ (made - 1)

AfterFailure(j, wait) ==
  IF j.made + 1 = JobAttempts
  THEN [j EXCEPT !.state = "failed", !.holder = NoWorker, !.made = @ + 1]
  ELSE [j EXCEPT !.state = "delayed", !.holder = NoWorker, !.made = @ + 1,
                 !.wait = wait]

JobThrows(w) ==
  /\ run' = [run EXCEPT ![w] = NoRun]
  /\ \E wait \in 1..QueueDelay * 2 ^ JobAttempts :
       /\ \A k \in Keys :
            job[k].holder = w => IsQueueBackoff(wait, job[k].made + 1)
       /\ job' = [k \in Keys |-> IF job[k].holder # w THEN job[k]
                                 ELSE AfterFailure(job[k], wait)]

Promote(k) ==
  /\ job[k].state = "delayed" /\ job[k].wait = 0
  /\ job' = [job EXCEPT ![k].state = "waiting"]
  /\ UNCHANGED <<bucket, ledger, run>>

LockLost(k) ==
  \/ /\ job[k].stalls = MaxStalls
     /\ job' = [job EXCEPT ![k] =
          [job[k] EXCEPT !.state = "failed", !.holder = NoWorker]]
  \/ /\ job[k].stalls # MaxStalls
     /\ job' = [job EXCEPT ![k] =
          [job[k] EXCEPT !.state = "waiting", !.holder = NoWorker,
                         !.stalls = @ + 1]]

\* The job of a dead worker is found stalled.
Recover(k) ==
  /\ job[k].state = "active" /\ job[k].holder = NoWorker
  /\ LockLost(k)
  /\ UNCHANGED <<bucket, ledger, run>>

\* A live worker does not renew its lock in time.
Stall(k) ==
  /\ "stall" \in Faults
  /\ job[k].state = "active" /\ job[k].holder # NoWorker
  /\ LockLost(k)
  /\ UNCHANGED <<bucket, ledger, run>>

-----------------------------------------------------------------------------
(* The processor                                                           *)

Claimable(k, lag) ==
  \/ ledger[k].status \in {"pending", "failed"} /\ ledger[k].due + lag <= 0
  \/ ledger[k].status = "claimed" /\ ledger[k].lease + lag <= 0

SetClaimed(k, lag) ==
  ledger' = [ledger EXCEPT ![k] =
    [ledger[k] EXCEPT !.status = "claimed", !.lease = LeaseTime - lag]]

\* claimOrphanCleanup; a job whose row cannot be claimed is done.
Claim(w) ==
  LET k == run[w].key
  IN  /\ run[w].pc = "claim"
      /\ \E lag \in 0..MaxLag :
           \/ /\ Claimable(k, lag)
              /\ SetClaimed(k, lag)
              /\ run' = [run EXCEPT ![w] =
                   [pc |-> "delete", key |-> k,
                    attempts |-> ledger[k].attempts, age |-> lag]]
              /\ UNCHANGED job
           \/ ~Claimable(k, lag) /\ JobReturns(w) /\ UNCHANGED ledger
           \/ "db" \in Faults /\ JobThrows(w) /\ UNCHANGED ledger
           \/ /\ "reply" \in Faults /\ Claimable(k, lag)
              /\ SetClaimed(k, lag)
              /\ JobThrows(w)
      /\ UNCHANGED bucket

\* Bug for the mutation checks: every failure counts as an object missing.
DeleteSwallowing(w) ==
  /\ run[w].pc = "delete"
  /\ \/ bucket' = bucket \ {run[w].key}
     \/ "storage" \in Faults /\ UNCHANGED bucket
  /\ run' = [run EXCEPT ![w].pc = "complete"]
  /\ UNCHANGED <<ledger, job>>

\* deleteObject; an object that is already missing counts as deleted.
Delete(w) ==
  LET k == run[w].key
  IN  /\ run[w].pc = "delete"
      /\ \/ /\ bucket' = bucket \ {k}
            /\ run' = [run EXCEPT ![w].pc = "complete"]
         \/ /\ "storage" \in Faults
            /\ bucket' \in {bucket, bucket \ {k}}
            /\ run' = [run EXCEPT ![w].pc = "retry"]
      /\ UNCHANGED <<ledger, job>>

SetCompleted(k) ==
  ledger' = [ledger EXCEPT ![k] =
    [ledger[k] EXCEPT !.status = "completed", !.attempts = @ + 1, !.lease = 0]]

\* completeOrphanCleanup
Complete(w) ==
  LET k == run[w].key
  IN  /\ run[w].pc = "complete"
      /\ \/ /\ ledger[k].status = "claimed"
            /\ SetCompleted(k)
            /\ JobReturns(w) \/ ("reply" \in Faults /\ JobThrows(w))
         \/ ledger[k].status = "completed" /\ JobReturns(w) /\ UNCHANGED ledger
         \/ /\ ledger[k].status \notin {"claimed", "completed"}
            /\ JobThrows(w) /\ UNCHANGED ledger
         \/ "db" \in Faults /\ JobThrows(w) /\ UNCHANGED ledger
      /\ UNCHANGED bucket

\* Bug for the mutation checks: off by one in the exponent.
IsRetryDelayTooLong(delay, attempts) ==
  LET exponential == RetryBase * 2 ^ (attempts + 1)
  IN  delay = IF exponential < RetryMax THEN exponential ELSE RetryMax

\* scheduleRetry: the delay is exponential in the attempts on record.
IsRetryDelay(delay, attempts) ==
  LET exponential == RetryBase * 2 ^ (IF attempts < 10 THEN attempts ELSE 10)
  IN  delay = IF exponential < RetryMax THEN exponential ELSE RetryMax

Clamped(t) == IF t < 0 - MaxLag THEN 0 - MaxLag ELSE t

SetFailed(k, due) ==
  ledger' = [ledger EXCEPT ![k] =
    [ledger[k] EXCEPT !.status = "failed", !.attempts = @ + 1,
                      !.due = Clamped(due), !.lease = 0]]

\* retryOrphanCleanup, from the clock reading of the claim; then the job throws.
ScheduleRetry(w) ==
  LET k == run[w].key
  IN  /\ run[w].pc = "retry"
      /\ \/ /\ ledger[k].status = "claimed"
            /\ \E delay \in 1..RetryMax :
                 /\ IsRetryDelay(delay, run[w].attempts)
                 /\ SetFailed(k, delay - run[w].age)
         \/ (ledger[k].status # "claimed" \/ "db" \in Faults) /\ UNCHANGED ledger
      /\ JobThrows(w)
      /\ UNCHANGED bucket

\* The process dies between two steps; the queue will find its job stalled.
Crash(w) ==
  /\ "crash" \in Faults
  /\ run[w].pc # "idle"
  /\ run' = [run EXCEPT ![w] = NoRun]
  /\ job' = [k \in Keys |-> IF job[k].holder # w THEN job[k]
                            ELSE [job[k] EXCEPT !.holder = NoWorker]]
  /\ UNCHANGED <<bucket, ledger>>

-----------------------------------------------------------------------------
(* Time                                                                    *)

Older(t) == IF t > 0 - MaxLag THEN t - 1 ELSE t

Tick ==
  /\ ledger' = [k \in Keys |->
       CASE ledger[k].status \in {"pending", "failed"} ->
              [ledger[k] EXCEPT !.due = Older(@)]
         [] ledger[k].status = "claimed" -> [ledger[k] EXCEPT !.lease = Older(@)]
         [] OTHER -> ledger[k]]
  /\ job' = [k \in Keys |->
       IF job[k].wait = 0 THEN job[k] ELSE [job[k] EXCEPT !.wait = @ - 1]]
  /\ run' = [w \in Workers |->
       IF run[w].pc \in {"idle", "claim"} \/ run[w].age = MaxAge THEN run[w]
       ELSE [run[w] EXCEPT !.age = @ + 1]]
  /\ UNCHANGED bucket

Process(w) == Claim(w) \/ Delete(w) \/ Complete(w) \/ ScheduleRetry(w)

Next ==
  \/ \E k \in Keys :
       \/ EnqueueOrphanCleanup(k) \/ AddJob(k)
       \/ Promote(k) \/ Recover(k) \/ Stall(k)
       \/ \E w \in Workers : Deliver(w, k)
  \/ \E w \in Workers : Process(w) \/ Crash(w)
  \/ Tick

Spec == Init /\ [][Next]_vars

\* The publisher adds every job, BullMQ delivers and recovers jobs, the awaits of
\* a live worker end, and time passes.
Fairness ==
  /\ WF_vars(Tick)
  /\ \A k \in Keys :
       /\ WF_vars(AddJob(k)) /\ WF_vars(Promote(k)) /\ WF_vars(Recover(k))
       /\ WF_vars(\E w \in Workers : Deliver(w, k))
  /\ \A w \in Workers : WF_vars(Process(w))

FairSpec == Spec /\ Fairness

-----------------------------------------------------------------------------
(* Correctness                                                             *)

\* Types; a job exists only for a row on the ledger, and the holder of its lock
\* is working on it.
TypeOK ==
  /\ bucket \subseteq Keys
  /\ ledger \in [Keys -> Rows]
  /\ job \in [Keys -> Jobs]
  /\ run \in [Workers -> Runs]
  /\ \A k \in Keys : job[k].state # "none" => k \in Listed
  /\ \A k \in Keys : job[k].holder # NoWorker =>
       /\ job[k].state = "active"
       /\ run[job[k].holder].pc # "idle" /\ run[job[k].holder].key = k
  /\ \A w \in Workers : run[w].pc # "idle" => run[w].key \in Listed

\* The ledger never says completed of an object that still exists, whichever of
\* two deliveries of the job fails or comes last.
CompletedIsDeleted == Completed \cap bucket = {}

\* A late delivery neither reopens a completed row nor counts it twice.
CompletedIsFinal ==
  [][\A k \in Keys :
       ledger[k].status = "completed" => ledger'[k] = ledger[k]]_vars

\* The clean-up is a disposal of condemned objects.
D == INSTANCE Disposal WITH
       stored <- bucket,
       condemned <- Listed,
       recorded <- Completed

ImplementsDisposal == D!Spec

\* Every object on the ledger is deleted, or every attempt of its job was used.
CleanedOrGivenUp ==
  \A k \in Keys : k \in Listed ~>
    \/ ledger[k].status = "completed" /\ k \notin bucket
    \/ job[k].state = "failed"

\* A job that was settled left its row settled: completed only with the object
\* gone, given up only with the row marked failed.  It needs the row to come due
\* before the queue retries the job: a job that finds nothing to claim returns,
\* and BullMQ counts it as done (logo-cleanup.processor.ts:42).
SettledJobsAgree ==
  \A k \in Keys :
    /\ job[k].state = "completed" =>
         ledger[k].status = "completed" /\ k \notin bucket
    /\ job[k].state = "failed" => ledger[k].status = "failed"

=============================================================================
