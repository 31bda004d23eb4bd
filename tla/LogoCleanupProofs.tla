------------------------- MODULE LogoCleanupProofs --------------------------
(***************************************************************************)
(* Proofs about LogoCleanup for any number of objects, workers, attempts   *)
(* and stalls, any delays, lease and clock lag, and every combination of   *)
(* faults.                                                                 *)
(***************************************************************************)
EXTENDS LogoCleanup, TLAPS

\* A run that goes on to record the deletion has seen the object gone.
GoneBeforeRecord ==
  \A w \in Workers : run[w].pc = "complete" => run[w].key \notin bucket

\* A job that is not settled has an attempt left.
JobsHaveAttempts ==
  \A k \in Keys :
    job[k].state \notin {"completed", "failed"} => job[k].made < JobAttempts

\* The inductive invariant.
IInv == TypeOK /\ CompletedIsDeleted /\ GoneBeforeRecord /\ JobsHaveAttempts

-----------------------------------------------------------------------------
(* What a step does, in the terms the invariant needs                      *)

\* Rows never leave the ledger; a completed row does not change, and a row is
\* completed only when its object is gone.
KeepsRows ==
  /\ ledger' \in [Keys -> Rows]
  /\ \A k \in Keys :
       /\ ledger[k].status # "absent" => ledger'[k].status # "absent"
       /\ ledger[k].status = "completed" => ledger'[k] = ledger[k]
       /\ ledger'[k].status = "completed" =>
            ledger[k].status = "completed" \/ k \notin bucket

KeepsJobs ==
  /\ job' \in [Keys -> Jobs]
  /\ \A k \in Keys :
       /\ job'[k].state # "none" => k \in Listed
       /\ job'[k].holder # NoWorker =>
            /\ job'[k].state = "active"
            /\ run'[job'[k].holder].pc # "idle" /\ run'[job'[k].holder].key = k
       /\ job'[k].state \notin {"completed", "failed"} =>
            job'[k].made < JobAttempts

KeepsRuns ==
  /\ run' \in [Workers -> Runs]
  /\ \A w \in Workers :
       /\ run'[w].pc # "idle" => run'[w].key \in Listed
       /\ run'[w].pc = "complete" => run'[w].key \notin bucket'

LEMMA InvariantKept ==
  ASSUME IInv, KeepsRows, KeepsJobs, KeepsRuns, bucket' \subseteq bucket
  PROVE  IInv'
<1>1. \A k \in Listed : k \in Listed'
  BY DEF KeepsRows, Listed
<1>2. CompletedIsDeleted'
  BY DEF IInv, KeepsRows, CompletedIsDeleted, Completed
<1>3. TypeOK'
  BY <1>1 DEF IInv, TypeOK, KeepsRows, KeepsJobs, KeepsRuns
<1> QED
  BY <1>2, <1>3 DEF IInv, KeepsJobs, KeepsRuns, GoneBeforeRecord, JobsHaveAttempts

LEMMA RowsUntouched ==
  ASSUME IInv, UNCHANGED ledger
  PROVE  KeepsRows
BY DEF IInv, TypeOK, KeepsRows

\* One row changes that was on the ledger and not completed.
LEMMA OneRowChanges ==
  ASSUME IInv, NEW k \in Keys, NEW row \in Rows,
         ledger' = [ledger EXCEPT ![k] = row],
         row.status # "absent", ledger[k].status # "completed",
         row.status = "completed" => k \notin bucket
  PROVE  KeepsRows
BY DEF IInv, TypeOK, KeepsRows

LEMMA RunsUntouched ==
  ASSUME IInv, UNCHANGED run, bucket' \subseteq bucket
  PROVE  KeepsRuns
BY DEF IInv, TypeOK, GoneBeforeRecord, KeepsRuns

LEMMA OneRunChanges ==
  ASSUME IInv, NEW w \in Workers, NEW r \in Runs,
         run' = [run EXCEPT ![w] = r], bucket' \subseteq bucket,
         r.pc # "idle" => r.key \in Listed,
         r.pc = "complete" => r.key \notin bucket'
  PROVE  KeepsRuns
BY DEF IInv, TypeOK, GoneBeforeRecord, KeepsRuns

LEMMA NoRunType == NoRun \in Runs /\ NoRun.pc = "idle"
BY LogoCleanupAssumption DEF NoRun, Runs, MaxAge

\* The jobs stay as they are, and a worker that works stays with its key.
LEMMA JobsUntouched ==
  ASSUME IInv, UNCHANGED job,
         \A w \in Workers : run[w].pc # "idle" =>
           run'[w].pc # "idle" /\ run'[w].key = run[w].key
  PROVE  KeepsJobs
BY LogoCleanupAssumption DEF IInv, TypeOK, JobsHaveAttempts, KeepsJobs, Jobs

\* One job changes that existed, gives up its lock, and no run ends.
LEMMA OneJobChanges ==
  ASSUME IInv, UNCHANGED run, NEW k \in Listed, NEW j \in Jobs,
         job' = [job EXCEPT ![k] = j], j.holder = NoWorker,
         j.state \notin {"completed", "failed"} => j.made < JobAttempts
  PROVE  KeepsJobs
BY LogoCleanupAssumption
   DEF IInv, TypeOK, JobsHaveAttempts, KeepsJobs, Jobs, Listed

\* Worker w ends its run; the job whose lock it holds, if any, is let go.
Releases(w) ==
  /\ job' \in [Keys -> Jobs]
  /\ \A k \in Keys :
       \/ job'[k] = job[k] /\ job[k].holder # w
       \/ /\ job[k].holder = w /\ job'[k].holder = NoWorker
          /\ job'[k].state \notin {"completed", "failed"} =>
               job'[k].made < JobAttempts

LEMMA ReleaseKeepsJobs ==
  ASSUME IInv, NEW w \in Workers, Releases(w), run' = [run EXCEPT ![w] = NoRun]
  PROVE  KeepsJobs
<1>1. \A k \in Keys : job[k].holder \in Workers \cup {NoWorker}
  BY DEF IInv, TypeOK, Jobs
<1>2. \A k \in Keys : job[k].holder \notin {w, NoWorker} =>
        run'[job[k].holder] = run[job[k].holder]
  BY <1>1 DEF IInv, TypeOK
<1>3. \A k \in Keys : job[k].holder = w => job[k].state = "active" /\ k \in Listed
  BY LogoCleanupAssumption DEF IInv, TypeOK
<1> QED
  BY <1>1, <1>2, <1>3, LogoCleanupAssumption
     DEF IInv, TypeOK, JobsHaveAttempts, KeepsJobs, Releases

-----------------------------------------------------------------------------
(* Updates of records                                                      *)

LEMMA SettledJob ==
  ASSUME NEW j \in Jobs
  PROVE  /\ [j EXCEPT !.state = "completed", !.holder = NoWorker] \in Jobs
         /\ [j EXCEPT !.state = "failed", !.holder = NoWorker] \in Jobs
         /\ [j EXCEPT !.holder = NoWorker] \in Jobs
BY Zenon DEF Jobs

LEMMA SettledJobFields ==
  ASSUME NEW j \in Jobs
  PROVE  /\ [j EXCEPT !.state = "completed", !.holder = NoWorker].holder = NoWorker
         /\ [j EXCEPT !.state = "completed", !.holder = NoWorker].state = "completed"
         /\ [j EXCEPT !.state = "failed", !.holder = NoWorker].holder = NoWorker
         /\ [j EXCEPT !.state = "failed", !.holder = NoWorker].state = "failed"
         /\ [j EXCEPT !.holder = NoWorker].holder = NoWorker
         /\ [j EXCEPT !.holder = NoWorker].state = j.state
         /\ [j EXCEPT !.holder = NoWorker].made = j.made
BY DEF Jobs

LEMMA WaitingJob ==
  ASSUME NEW j \in Jobs, j.stalls # MaxStalls
  PROVE  LET waiting == [j EXCEPT !.state = "waiting", !.holder = NoWorker,
                                  !.stalls = @ + 1]
         IN  waiting \in Jobs /\ waiting.holder = NoWorker /\ waiting.made = j.made
<1>1. j.stalls + 1 \in 0..MaxStalls
  BY LogoCleanupAssumption DEF Jobs
<1>2. ASSUME NEW stalls \in 0..MaxStalls
      PROVE  [j EXCEPT !.state = "waiting", !.holder = NoWorker,
                       !.stalls = stalls] \in Jobs
  BY Zenon DEF Jobs
<1>3. ASSUME NEW stalls \in 0..MaxStalls
      PROVE  LET waiting == [j EXCEPT !.state = "waiting", !.holder = NoWorker,
                                      !.stalls = stalls]
             IN  waiting.holder = NoWorker /\ waiting.made = j.made
  BY DEF Jobs
<1> QED
  BY <1>1, <1>2, <1>3

LEMMA FailedJob ==
  ASSUME NEW j \in Jobs, j.made < JobAttempts, NEW wait \in Nat
  PROVE  /\ AfterFailure(j, wait) \in Jobs
         /\ AfterFailure(j, wait).holder = NoWorker
         /\ AfterFailure(j, wait).state # "failed" =>
              AfterFailure(j, wait).made < JobAttempts
<1>1. j.made + 1 \in 0..JobAttempts
  BY LogoCleanupAssumption DEF Jobs
<1>2. CASE j.made + 1 = JobAttempts
  <2>1. ASSUME NEW made \in 0..JobAttempts
        PROVE  LET failed == [j EXCEPT !.state = "failed", !.holder = NoWorker,
                                       !.made = made]
               IN  failed \in Jobs /\ failed.holder = NoWorker /\ failed.state = "failed"
    BY Zenon DEF Jobs
  <2> QED
    BY <1>1, <1>2, <2>1 DEF AfterFailure
<1>3. CASE j.made + 1 # JobAttempts
  <2>1. ASSUME NEW made \in 0..JobAttempts
        PROVE  LET delayed == [j EXCEPT !.state = "delayed", !.holder = NoWorker,
                                        !.made = made, !.wait = wait]
               IN  delayed \in Jobs /\ delayed.holder = NoWorker /\ delayed.made = made
    BY Zenon DEF Jobs
  <2>2. j.made + 1 < JobAttempts
    BY <1>1, <1>3, LogoCleanupAssumption
  <2> QED
    BY <1>1, <1>3, <2>1, <2>2 DEF AfterFailure
<1> QED
  BY <1>2, <1>3

-----------------------------------------------------------------------------
(* The ways a run ends                                                     *)

LEMMA ReturnReleases ==
  ASSUME IInv, NEW w \in Workers, JobReturns(w)
  PROVE  KeepsJobs /\ run' = [run EXCEPT ![w] = NoRun]
<1>1. \A k \in Keys : job[k] \in Jobs
  BY DEF IInv, TypeOK
<1>2. \A k \in Keys :
        \/ job'[k] = job[k] /\ job[k].holder # w
        \/ /\ job'[k] = [job[k] EXCEPT !.state = "completed", !.holder = NoWorker]
           /\ job[k].holder = w
  BY DEF JobReturns
<1>3. \A k \in Keys : job'[k] \in Jobs
  BY <1>1, <1>2, SettledJob
<1>4. job' \in [Keys -> Jobs]
  BY <1>3 DEF JobReturns
<1>5. ASSUME NEW k \in Keys, job[k].holder = w
      PROVE  job'[k].holder = NoWorker /\ job'[k].state = "completed"
  <2>1. job[k] \in Jobs
    BY <1>1
  <2>2. job'[k] = [job[k] EXCEPT !.state = "completed", !.holder = NoWorker]
    BY <1>2, <1>5
  <2> QED
    BY <2>1, <2>2 DEF Jobs
<1>6. Releases(w)
  BY <1>2, <1>4, <1>5 DEF Releases
<1> QED
  BY <1>6, ReleaseKeepsJobs DEF JobReturns

LEMMA ThrowReleases ==
  ASSUME IInv, NEW w \in Workers, JobThrows(w)
  PROVE  KeepsJobs /\ run' = [run EXCEPT ![w] = NoRun]
<1>1. \A k \in Keys : job[k] \in Jobs
  BY DEF IInv, TypeOK
<1>2. PICK wait \in 1..QueueDelay * 2 ^ JobAttempts :
        job' = [k \in Keys |-> IF job[k].holder # w THEN job[k]
                               ELSE AfterFailure(job[k], wait)]
  BY DEF JobThrows
<1>3. wait \in Nat
  OBVIOUS
<1>4. \A k \in Keys : job[k].holder = w => job[k].made < JobAttempts
  BY LogoCleanupAssumption DEF IInv, TypeOK, JobsHaveAttempts
<1>5. \A k \in Keys : job[k].holder = w =>
        /\ AfterFailure(job[k], wait) \in Jobs
        /\ AfterFailure(job[k], wait).holder = NoWorker
        /\ AfterFailure(job[k], wait).state # "failed" =>
             AfterFailure(job[k], wait).made < JobAttempts
  BY <1>1, <1>3, <1>4, FailedJob
<1>6. \A k \in Keys :
        \/ job'[k] = job[k] /\ job[k].holder # w
        \/ job'[k] = AfterFailure(job[k], wait) /\ job[k].holder = w
  BY <1>2
<1>7. \A k \in Keys : job'[k] \in Jobs
  BY <1>1, <1>5, <1>6
<1>8. job' \in [Keys -> Jobs]
  BY <1>2, <1>7
<1>9. Releases(w)
  BY <1>5, <1>6, <1>8 DEF Releases
<1> QED
  BY <1>9, ReleaseKeepsJobs DEF JobThrows

LEMMA EndKeepsRuns ==
  ASSUME IInv, NEW w \in Workers, run' = [run EXCEPT ![w] = NoRun],
         bucket' \subseteq bucket
  PROVE  KeepsRuns
BY NoRunType, OneRunChanges

LEMMA CrashStep ==
  ASSUME IInv, NEW w \in Workers, Crash(w)
  PROVE  IInv'
<1>1. \A k \in Keys : job[k] \in Jobs
  BY DEF IInv, TypeOK
<1>2. \A k \in Keys :
        \/ job'[k] = job[k] /\ job[k].holder # w
        \/ job'[k] = [job[k] EXCEPT !.holder = NoWorker] /\ job[k].holder = w
  BY DEF Crash
<1>3. \A k \in Keys : job'[k] \in Jobs
  BY <1>1, <1>2, SettledJob
<1>4. job' \in [Keys -> Jobs]
  BY <1>3 DEF Crash
<1>5. \A k \in Keys :
        job[k].state \notin {"completed", "failed"} => job[k].made < JobAttempts
  BY DEF IInv, JobsHaveAttempts
<1>6. ASSUME NEW k \in Keys, job[k].holder = w
      PROVE  /\ job'[k].holder = NoWorker /\ job'[k].state = job[k].state
             /\ job'[k].made = job[k].made
  <2>1. job[k] \in Jobs
    BY <1>1
  <2>2. job'[k] = [job[k] EXCEPT !.holder = NoWorker]
    BY <1>2, <1>6
  <2> QED
    BY <2>1, <2>2, Zenon, SettledJobFields
<1>7. Releases(w)
  BY <1>2, <1>4, <1>5, <1>6 DEF Releases
<1>8. run' = [run EXCEPT ![w] = NoRun] /\ UNCHANGED <<bucket, ledger>>
  BY DEF Crash
<1> QED
  BY <1>7, <1>8, ReleaseKeepsJobs, EndKeepsRuns, RowsUntouched, InvariantKept

-----------------------------------------------------------------------------
(* The queue                                                               *)

LEMMA LockLostStep ==
  ASSUME IInv, NEW k \in Keys, job[k].state = "active", LockLost(k),
         UNCHANGED <<bucket, ledger, run>>
  PROVE  IInv'
<1> DEFINE failed == [job[k] EXCEPT !.state = "failed", !.holder = NoWorker]
           waiting == [job[k] EXCEPT !.state = "waiting", !.holder = NoWorker,
                                     !.stalls = @ + 1]
<1>1. job[k] \in Jobs /\ job[k].made < JobAttempts /\ k \in Listed
  BY DEF IInv, TypeOK, JobsHaveAttempts
<1>2. failed \in Jobs /\ failed.holder = NoWorker /\ failed.state = "failed"
  BY <1>1, SettledJob, SettledJobFields
<1>3. job[k].stalls # MaxStalls =>
        waiting \in Jobs /\ waiting.holder = NoWorker /\ waiting.made = job[k].made
  BY <1>1, WaitingJob
<1>4. \/ job' = [job EXCEPT ![k] = failed]
      \/ job[k].stalls # MaxStalls /\ job' = [job EXCEPT ![k] = waiting]
  <2>1. CASE job[k].stalls = MaxStalls
    BY <2>1 DEF LockLost
  <2>2. CASE job[k].stalls # MaxStalls
    BY <2>2 DEF LockLost
  <2> QED
    BY <2>1, <2>2
<1> HIDE DEF failed, waiting
<1>5. KeepsJobs
  BY <1>1, <1>2, <1>3, <1>4, OneJobChanges
<1> QED
  BY <1>5, RunsUntouched, RowsUntouched, InvariantKept

LEMMA AddJobStep ==
  ASSUME IInv, NEW k \in Keys, AddJob(k)
  PROVE  IInv'
<1> DEFINE j == [job[k] EXCEPT !.state = "waiting"]
<1>1. job[k] \in Jobs /\ job[k].made < JobAttempts /\ k \in Listed
  BY DEF IInv, TypeOK, JobsHaveAttempts, AddJob
<1>2. job[k].holder = NoWorker
  BY <1>1 DEF IInv, TypeOK, AddJob
<1>3. j \in Jobs /\ j.holder = job[k].holder /\ j.made = job[k].made
  BY <1>1, Zenon DEF Jobs
<1>4. job' = [job EXCEPT ![k] = j]
  BY DEF AddJob
<1>5. UNCHANGED <<bucket, ledger, run>>
  BY DEF AddJob
<1> HIDE DEF j
<1>6. KeepsJobs
  BY <1>1, <1>2, <1>3, <1>4, <1>5, OneJobChanges
<1> QED
  BY <1>5, <1>6, RunsUntouched, RowsUntouched, InvariantKept

LEMMA PromoteStep ==
  ASSUME IInv, NEW k \in Keys, Promote(k)
  PROVE  IInv'
<1> DEFINE j == [job[k] EXCEPT !.state = "waiting"]
<1>1. job[k] \in Jobs /\ job[k].made < JobAttempts /\ k \in Listed
  BY DEF IInv, TypeOK, JobsHaveAttempts, Promote
<1>2. job[k].holder = NoWorker
  BY <1>1 DEF IInv, TypeOK, Promote
<1>3. j \in Jobs /\ j.holder = job[k].holder /\ j.made = job[k].made
  BY <1>1, Zenon DEF Jobs
<1>4. job' = [job EXCEPT ![k] = j]
  BY DEF Promote
<1>5. UNCHANGED <<bucket, ledger, run>>
  BY DEF Promote
<1> HIDE DEF j
<1>6. KeepsJobs
  BY <1>1, <1>2, <1>3, <1>4, <1>5, OneJobChanges
<1> QED
  BY <1>5, <1>6, RunsUntouched, RowsUntouched, InvariantKept

LEMMA DeliverStep ==
  ASSUME IInv, NEW w \in Workers, NEW k \in Keys, Deliver(w, k)
  PROVE  IInv'
<1> DEFINE j == [job[k] EXCEPT !.state = "active", !.holder = w]
           r == [NoRun EXCEPT !.pc = "claim", !.key = k]
<1>1. job[k] \in Jobs /\ job[k].made < JobAttempts /\ k \in Listed
  BY DEF IInv, TypeOK, JobsHaveAttempts, Deliver
<1>2. j \in Jobs /\ j.state = "active" /\ j.holder = w /\ j.made = job[k].made
  BY <1>1, Zenon DEF Jobs
<1>3. NoRun \in Runs
  BY NoRunType
<1>4. r \in Runs /\ r.pc = "claim" /\ r.key = k
  BY <1>3, Zenon DEF Runs
<1>5. /\ job' = [job EXCEPT ![k] = j] /\ run' = [run EXCEPT ![w] = r]
      /\ UNCHANGED <<bucket, ledger>>
  BY DEF Deliver
<1> HIDE DEF j, r
<1>6. \A i \in Keys : job[i].holder # w
  BY LogoCleanupAssumption DEF IInv, TypeOK, Deliver
<1>7. \A i \in Keys : job[i].holder \in Workers \cup {NoWorker}
  BY DEF IInv, TypeOK, Jobs
<1>8. KeepsJobs
  BY <1>1, <1>2, <1>4, <1>5, <1>6, <1>7, LogoCleanupAssumption
     DEF IInv, TypeOK, JobsHaveAttempts, KeepsJobs
<1>9. KeepsRuns
  BY <1>1, <1>4, <1>5, OneRunChanges
<1> QED
  BY <1>5, <1>8, <1>9, RowsUntouched, InvariantKept

-----------------------------------------------------------------------------
(* The ledger                                                              *)

LEMMA ClaimedRow ==
  ASSUME NEW r \in Rows, NEW lease \in Int
  PROVE  LET row == [r EXCEPT !.status = "claimed", !.lease = lease]
         IN  row \in Rows /\ row.status = "claimed"
BY Zenon DEF Rows

LEMMA CompletedRow ==
  ASSUME NEW r \in Rows
  PROVE  LET row == [r EXCEPT !.status = "completed", !.attempts = @ + 1,
                              !.lease = 0]
         IN  row \in Rows /\ row.status = "completed"
<1>1. r.attempts + 1 \in Nat /\ 0 \in Int
  BY DEF Rows
<1>2. ASSUME NEW attempts \in Nat, NEW zero \in Int
      PROVE  LET row == [r EXCEPT !.status = "completed", !.attempts = attempts,
                                  !.lease = zero]
             IN  row \in Rows /\ row.status = "completed"
  BY Zenon DEF Rows
<1> QED
  BY <1>1, <1>2, Zenon

LEMMA FailedRow ==
  ASSUME NEW r \in Rows, NEW due \in Int
  PROVE  LET row == [r EXCEPT !.status = "failed", !.attempts = @ + 1,
                              !.due = due, !.lease = 0]
         IN  row \in Rows /\ row.status = "failed"
<1>1. r.attempts + 1 \in Nat /\ 0 \in Int
  BY DEF Rows
<1>2. ASSUME NEW attempts \in Nat, NEW zero \in Int
      PROVE  LET row == [r EXCEPT !.status = "failed", !.attempts = attempts,
                                  !.due = due, !.lease = zero]
             IN  row \in Rows /\ row.status = "failed"
  BY Zenon DEF Rows
<1> QED
  BY <1>1, <1>2, Zenon

LEMMA EnqueueStep ==
  ASSUME IInv, NEW k \in Keys, EnqueueOrphanCleanup(k)
  PROVE  IInv' /\ KeepsRows
<1>1. PICK lag \in 0..MaxLag :
        ledger' = [ledger EXCEPT ![k] = [status |-> "pending", attempts |-> 0,
                                         due |-> 0 - lag, lease |-> 0]]
  BY DEF EnqueueOrphanCleanup
<1>2. [status |-> "pending", attempts |-> 0, due |-> 0 - lag, lease |-> 0] \in Rows
  BY DEF Rows
<1>3. ledger[k].status # "completed" /\ bucket' \subseteq bucket
  BY DEF EnqueueOrphanCleanup, IInv, TypeOK
<1>4. UNCHANGED <<job, run>>
  BY DEF EnqueueOrphanCleanup
<1>5. KeepsRows
  BY <1>1, <1>2, <1>3, OneRowChanges
<1> QED
  BY <1>3, <1>4, <1>5, JobsUntouched, RunsUntouched, InvariantKept

LEMMA ClaimedKeepsRows ==
  ASSUME IInv, NEW k \in Keys, NEW lag \in 0..MaxLag, Claimable(k, lag),
         SetClaimed(k, lag)
  PROVE  KeepsRows
<1> DEFINE row == [ledger[k] EXCEPT !.status = "claimed", !.lease = LeaseTime - lag]
<1>1. LeaseTime - lag \in Int
  BY LogoCleanupAssumption
<1>2. ledger[k] \in Rows
  BY DEF IInv, TypeOK
<1>3. row \in Rows /\ row.status = "claimed"
  BY <1>1, <1>2, ClaimedRow
<1>4. ledger' = [ledger EXCEPT ![k] = row]
  BY DEF SetClaimed
<1>5. ledger[k].status # "completed"
  BY DEF Claimable
<1> HIDE DEF row
<1> QED
  BY <1>3, <1>4, <1>5, OneRowChanges

LEMMA CompletedKeepsRows ==
  ASSUME IInv, NEW k \in Keys, ledger[k].status = "claimed", k \notin bucket,
         SetCompleted(k)
  PROVE  KeepsRows
<1> DEFINE row == [ledger[k] EXCEPT !.status = "completed", !.attempts = @ + 1,
                                    !.lease = 0]
<1>1. ledger[k] \in Rows
  BY DEF IInv, TypeOK
<1>2. row \in Rows /\ row.status = "completed"
  BY <1>1, CompletedRow
<1>3. ledger' = [ledger EXCEPT ![k] = row]
  BY DEF SetCompleted
<1> HIDE DEF row
<1> QED
  BY <1>2, <1>3, OneRowChanges

LEMMA FailedKeepsRows ==
  ASSUME IInv, NEW k \in Keys, ledger[k].status = "claimed", NEW due \in Int,
         SetFailed(k, due)
  PROVE  KeepsRows
<1> DEFINE row == [ledger[k] EXCEPT !.status = "failed", !.attempts = @ + 1,
                                    !.due = Clamped(due), !.lease = 0]
<1>1. ledger[k] \in Rows /\ Clamped(due) \in Int
  BY LogoCleanupAssumption DEF IInv, TypeOK, Clamped
<1>2. row \in Rows /\ row.status = "failed"
  BY <1>1, FailedRow
<1>3. ledger' = [ledger EXCEPT ![k] = row]
  BY DEF SetFailed
<1> HIDE DEF row
<1> QED
  BY <1>2, <1>3, OneRowChanges

-----------------------------------------------------------------------------
(* The processor                                                           *)

LEMMA WorkerHasKey ==
  ASSUME IInv, NEW w \in Workers, run[w].pc # "idle"
  PROVE  run[w].key \in Listed /\ run[w].key \in Keys
BY DEF IInv, TypeOK, Listed

LEMMA ClaimStep ==
  ASSUME IInv, NEW w \in Workers, Claim(w)
  PROVE  IInv' /\ KeepsRows
<1> DEFINE k == run[w].key
<1>1. k \in Listed /\ k \in Keys
  BY WorkerHasKey DEF Claim
<1>2. UNCHANGED bucket
  BY DEF Claim
<1>3. PICK lag \in 0..MaxLag :
        \/ /\ Claimable(k, lag) /\ SetClaimed(k, lag)
           /\ run' = [run EXCEPT ![w] =
                [pc |-> "delete", key |-> k,
                 attempts |-> ledger[k].attempts, age |-> lag]]
           /\ UNCHANGED job
        \/ JobReturns(w) /\ UNCHANGED ledger
        \/ JobThrows(w) /\ UNCHANGED ledger
        \/ Claimable(k, lag) /\ SetClaimed(k, lag) /\ JobThrows(w)
  BY DEF Claim
<1> HIDE DEF k
<1>4. CASE /\ Claimable(k, lag) /\ SetClaimed(k, lag)
           /\ run' = [run EXCEPT ![w] =
                [pc |-> "delete", key |-> k,
                 attempts |-> ledger[k].attempts, age |-> lag]]
           /\ UNCHANGED job
  <2> DEFINE r == [pc |-> "delete", key |-> k,
                   attempts |-> ledger[k].attempts, age |-> lag]
  <2>1. KeepsRows
    BY <1>1, <1>4, ClaimedKeepsRows
  <2>2. lag \in 0..MaxAge /\ ledger[k].attempts \in Nat
    BY <1>1, LogoCleanupAssumption DEF MaxAge, IInv, TypeOK, Rows
  <2>3. r \in Runs /\ r.pc = "delete" /\ r.key = k
    BY <1>1, <2>2 DEF Runs
  <2>4. run' = [run EXCEPT ![w] = r]
    BY <1>4
  <2>5. run[w].key = k
    BY DEF k
  <2> HIDE DEF r
  <2>6. KeepsRuns
    BY <1>1, <1>2, <2>3, <2>4, OneRunChanges
  <2>7. \A v \in Workers : run[v].pc # "idle" =>
          run'[v].pc # "idle" /\ run'[v].key = run[v].key
    BY <2>3, <2>4, <2>5 DEF IInv, TypeOK
  <2>8. KeepsJobs
    BY <1>4, <2>7, JobsUntouched
  <2> QED
    BY <1>2, <2>1, <2>6, <2>8, InvariantKept
<1>5. CASE (JobReturns(w) \/ JobThrows(w)) /\ UNCHANGED ledger
  BY <1>2, <1>5, ReturnReleases, ThrowReleases, EndKeepsRuns, RowsUntouched,
     InvariantKept
<1>6. CASE Claimable(k, lag) /\ SetClaimed(k, lag) /\ JobThrows(w)
  BY <1>1, <1>2, <1>6, ThrowReleases, EndKeepsRuns, ClaimedKeepsRows, InvariantKept
<1> QED
  BY <1>3, <1>4, <1>5, <1>6

LEMMA DeleteStep ==
  ASSUME IInv, NEW w \in Workers, Delete(w)
  PROVE  IInv' /\ KeepsRows
<1>1. PICK pc \in {"complete", "retry"} :
        /\ run' = [run EXCEPT ![w] = [run[w] EXCEPT !.pc = pc]]
        /\ pc = "complete" => run[w].key \notin bucket'
  BY DEF Delete
<1>2. bucket' \subseteq bucket /\ UNCHANGED <<ledger, job>>
  BY DEF Delete
<1>3. run[w].key \in Listed /\ run[w] \in Runs
  BY WorkerHasKey DEF Delete, IInv, TypeOK
<1>4. /\ [run[w] EXCEPT !.pc = pc] \in Runs
      /\ [run[w] EXCEPT !.pc = pc].pc = pc
      /\ [run[w] EXCEPT !.pc = pc].key = run[w].key
  BY <1>3 DEF Runs
<1>5. KeepsRuns
  BY <1>1, <1>2, <1>3, <1>4, OneRunChanges
<1>6. \A v \in Workers : run[v].pc # "idle" =>
        run'[v].pc # "idle" /\ run'[v].key = run[v].key
  BY <1>1, <1>4 DEF IInv, TypeOK
<1> QED
  BY <1>2, <1>5, <1>6, JobsUntouched, RowsUntouched, InvariantKept

LEMMA CompleteStep ==
  ASSUME IInv, NEW w \in Workers, Complete(w)
  PROVE  IInv' /\ KeepsRows
<1>1. run[w].key \in Keys /\ run[w].key \notin bucket
  BY WorkerHasKey DEF Complete, IInv, GoneBeforeRecord
<1>2. UNCHANGED bucket
  BY DEF Complete
<1>3. JobReturns(w) \/ JobThrows(w)
  BY DEF Complete
<1>4. UNCHANGED ledger \/ (ledger[run[w].key].status = "claimed" /\ SetCompleted(run[w].key))
  BY DEF Complete
<1>5. KeepsRows
  BY <1>1, <1>4, RowsUntouched, CompletedKeepsRows
<1> QED
  BY <1>2, <1>3, <1>5, ReturnReleases, ThrowReleases, EndKeepsRuns, InvariantKept

LEMMA ScheduleRetryStep ==
  ASSUME IInv, NEW w \in Workers, ScheduleRetry(w)
  PROVE  IInv' /\ KeepsRows
<1>1. run[w].key \in Keys
  BY WorkerHasKey DEF ScheduleRetry
<1>2. UNCHANGED bucket /\ JobThrows(w)
  BY DEF ScheduleRetry
<1>3. ASSUME UNCHANGED ledger
      PROVE  KeepsRows
  BY <1>3, RowsUntouched
<1>4. ASSUME ledger[run[w].key].status = "claimed",
             \E delay \in 1..RetryMax : SetFailed(run[w].key, delay - run[w].age)
      PROVE  KeepsRows
  <2>1. PICK delay \in 1..RetryMax : SetFailed(run[w].key, delay - run[w].age)
    BY <1>4
  <2>2. run[w].age \in 0..MaxAge
    BY DEF IInv, TypeOK, Runs
  <2>3. delay - run[w].age \in Int
    BY <2>2
  <2> QED
    BY <1>1, <1>4, <2>1, <2>3, FailedKeepsRows
<1>5. KeepsRows
  BY <1>3, <1>4 DEF ScheduleRetry
<1> QED
  BY <1>2, <1>5, ThrowReleases, EndKeepsRuns, InvariantKept

-----------------------------------------------------------------------------
(* Time                                                                    *)

LEMMA TickKeepsRows ==
  ASSUME IInv, Tick
  PROVE  KeepsRows
<1>1. ASSUME NEW r \in Rows
      PROVE  /\ [r EXCEPT !.due = Older(@)] \in Rows
             /\ [r EXCEPT !.due = Older(@)].status = r.status
             /\ [r EXCEPT !.lease = Older(@)] \in Rows
             /\ [r EXCEPT !.lease = Older(@)].status = r.status
  <2>1. Older(r.due) \in Int /\ Older(r.lease) \in Int
    BY LogoCleanupAssumption DEF Older, Rows
  <2>2. ASSUME NEW t \in Int
        PROVE  /\ [r EXCEPT !.due = t] \in Rows
               /\ [r EXCEPT !.due = t].status = r.status
               /\ [r EXCEPT !.lease = t] \in Rows
               /\ [r EXCEPT !.lease = t].status = r.status
    BY DEF Rows
  <2> QED
    BY <2>1, <2>2, Zenon
<1>2. \A k \in Keys : ledger[k] \in Rows
  BY DEF IInv, TypeOK
<1>3. \A k \in Keys :
        \/ /\ ledger[k].status \in {"pending", "failed"}
           /\ ledger'[k] = [ledger[k] EXCEPT !.due = Older(@)]
        \/ /\ ledger[k].status = "claimed"
           /\ ledger'[k] = [ledger[k] EXCEPT !.lease = Older(@)]
        \/ ledger'[k] = ledger[k]
  BY DEF Tick
<1>4. \A k \in Keys :
        /\ ledger'[k] \in Rows /\ ledger'[k].status = ledger[k].status
        /\ ledger[k].status = "completed" => ledger'[k] = ledger[k]
  <2> TAKE k \in Keys
  <2>1. ledger[k] \in Rows
    BY <1>2
  <2>2. ledger'[k] \in Rows /\ ledger'[k].status = ledger[k].status
    BY <1>1, <1>3, <2>1, Zenon
  <2>3. ledger[k].status = "completed" => ledger'[k] = ledger[k]
    BY <1>3
  <2> QED
    BY <2>2, <2>3
<1>5. ledger' \in [Keys -> Rows]
  BY <1>4 DEF Tick
<1> QED
  BY <1>4, <1>5 DEF KeepsRows

LEMMA TickKeepsRuns ==
  ASSUME IInv, Tick
  PROVE  /\ KeepsRuns
         /\ \A w \in Workers : run'[w].pc = run[w].pc /\ run'[w].key = run[w].key
<1>1. \A w \in Workers : run[w] \in Runs
  BY DEF IInv, TypeOK
<1>2. \A w \in Workers :
        \/ run'[w] = run[w]
        \/ run[w].age # MaxAge /\ run'[w] = [run[w] EXCEPT !.age = @ + 1]
  BY DEF Tick
<1>3. ASSUME NEW r \in Runs, r.age # MaxAge
      PROVE  LET older == [r EXCEPT !.age = @ + 1]
             IN  older \in Runs /\ older.pc = r.pc /\ older.key = r.key
  <2>1. r.age + 1 \in 0..MaxAge
    BY <1>3, LogoCleanupAssumption DEF Runs, MaxAge
  <2>2. ASSUME NEW age \in 0..MaxAge
        PROVE  LET older == [r EXCEPT !.age = age]
               IN  older \in Runs /\ older.pc = r.pc /\ older.key = r.key
    BY Zenon DEF Runs
  <2> QED
    BY <2>1, <2>2, Zenon
<1>4. \A w \in Workers :
        run'[w] \in Runs /\ run'[w].pc = run[w].pc /\ run'[w].key = run[w].key
  BY <1>1, <1>2, <1>3, Zenon
<1>5. run' \in [Workers -> Runs]
  BY <1>4 DEF Tick
<1>6. bucket' = bucket
  BY DEF Tick
<1> QED
  BY <1>4, <1>5, <1>6 DEF KeepsRuns, IInv, TypeOK, GoneBeforeRecord

LEMMA TickKeepsJobs ==
  ASSUME IInv, Tick
  PROVE  KeepsJobs
<1>1. \A k \in Keys : job[k] \in Jobs
  BY DEF IInv, TypeOK
<1>2. \A k \in Keys :
        \/ job'[k] = job[k]
        \/ job[k].wait # 0 /\ job'[k] = [job[k] EXCEPT !.wait = @ - 1]
  BY DEF Tick
<1>3. ASSUME NEW j \in Jobs, j.wait # 0
      PROVE  LET sooner == [j EXCEPT !.wait = @ - 1]
             IN  /\ sooner \in Jobs /\ sooner.state = j.state
                 /\ sooner.holder = j.holder /\ sooner.made = j.made
  <2>1. j.wait - 1 \in Nat
    BY <1>3 DEF Jobs
  <2>2. ASSUME NEW wait \in Nat
        PROVE  LET sooner == [j EXCEPT !.wait = wait]
               IN  /\ sooner \in Jobs /\ sooner.state = j.state
                   /\ sooner.holder = j.holder /\ sooner.made = j.made
    BY Zenon DEF Jobs
  <2> QED
    BY <2>1, <2>2, Zenon
<1>4. \A k \in Keys :
        /\ job'[k] \in Jobs /\ job'[k].state = job[k].state
        /\ job'[k].holder = job[k].holder /\ job'[k].made = job[k].made
  BY <1>1, <1>2, <1>3, Zenon
<1>5. job' \in [Keys -> Jobs]
  BY <1>4 DEF Tick
<1>6. \A k \in Keys : job[k].holder \in Workers \cup {NoWorker}
  BY <1>1 DEF Jobs
<1> QED
  BY <1>4, <1>5, <1>6, TickKeepsRuns
     DEF KeepsJobs, IInv, TypeOK, JobsHaveAttempts

LEMMA TickStep ==
  ASSUME IInv, Tick
  PROVE  IInv' /\ KeepsRows
BY TickKeepsRows, TickKeepsRuns, TickKeepsJobs, InvariantKept DEF Tick

-----------------------------------------------------------------------------
(* The theorems                                                            *)

LEMMA InitInvariant == Init => IInv
<1> SUFFICES ASSUME Init PROVE IInv
  OBVIOUS
<1>1. NoJob \in Jobs /\ NoJob.holder = NoWorker /\ NoJob.state = "none" /\ NoJob.made = 0
  BY LogoCleanupAssumption DEF NoJob, Jobs
<1>2. NoRow \in Rows /\ NoRow.status = "absent"
  BY DEF NoRow, Rows
<1>3. TypeOK
  BY <1>1, <1>2, NoRunType DEF Init, TypeOK
<1>4. CompletedIsDeleted /\ GoneBeforeRecord /\ JobsHaveAttempts
  BY <1>1, <1>2, NoRunType, LogoCleanupAssumption
     DEF Init, CompletedIsDeleted, Completed, GoneBeforeRecord, JobsHaveAttempts
<1> QED
  BY <1>3, <1>4 DEF IInv

LEMMA StepInvariant ==
  ASSUME IInv, [Next]_vars
  PROVE  IInv' /\ KeepsRows
<1>1. CASE UNCHANGED vars
  BY <1>1, RowsUntouched, RunsUntouched, JobsUntouched, InvariantKept DEF vars
<1>2. ASSUME NEW k \in Keys, EnqueueOrphanCleanup(k)
      PROVE  IInv' /\ KeepsRows
  BY <1>2, EnqueueStep
<1>3. ASSUME NEW k \in Keys, AddJob(k) \/ Promote(k)
      PROVE  IInv' /\ KeepsRows
  BY <1>3, AddJobStep, PromoteStep, RowsUntouched DEF AddJob, Promote
<1>4. ASSUME NEW k \in Keys, Recover(k) \/ Stall(k)
      PROVE  IInv' /\ KeepsRows
  BY <1>4, LockLostStep, RowsUntouched DEF Recover, Stall
<1>5. ASSUME NEW k \in Keys, NEW w \in Workers, Deliver(w, k)
      PROVE  IInv' /\ KeepsRows
  BY <1>5, DeliverStep, RowsUntouched DEF Deliver
<1>6. ASSUME NEW w \in Workers, Process(w)
      PROVE  IInv' /\ KeepsRows
  BY <1>6, ClaimStep, DeleteStep, CompleteStep, ScheduleRetryStep DEF Process
<1>7. ASSUME NEW w \in Workers, Crash(w)
      PROVE  IInv' /\ KeepsRows
  BY <1>7, CrashStep, RowsUntouched DEF Crash
<1>8. CASE Tick
  BY <1>8, TickStep
<1> QED
  BY <1>1, <1>2, <1>3, <1>4, <1>5, <1>6, <1>7, <1>8 DEF Next

LEMMA Invariance == Spec => []IInv
<1>1. IInv /\ [Next]_vars => IInv'
  BY StepInvariant
<1> QED
  BY <1>1, InitInvariant, PTL DEF Spec

\* Rows, jobs and runs keep their types; a job exists only for a row on the
\* ledger, and only the worker that works on it holds its lock.
THEOREM TypeCorrect == Spec => []TypeOK
BY Invariance, PTL DEF IInv

\* A row says completed only of an object that no longer exists, with any number
\* of overlapping deliveries of its job, crashes, lost replies and failures.
THEOREM CompletedDeleted == Spec => []CompletedIsDeleted
BY Invariance, PTL DEF IInv

\* No delivery of a job changes a completed row, however late it comes.
THEOREM CompletedFinal == Spec => CompletedIsFinal
<1> DEFINE Final == \A k \in Keys :
                      ledger[k].status = "completed" => ledger'[k] = ledger[k]
<1>1. IInv /\ [Next]_vars => Final
  BY StepInvariant DEF KeepsRows
<1>2. IInv /\ [Next]_vars => [Final]_vars
  BY <1>1
<1> HIDE DEF Final
<1>3. Spec => [][Final]_vars
  BY <1>2, Invariance, PTL DEF Spec
<1> QED
  BY <1>3 DEF Final, CompletedIsFinal

-----------------------------------------------------------------------------
(* The ledger is a disposal                                                *)

\* One row changes from a status to another that the disposal does not tell
\* apart.
LEMMA SameOutcome ==
  ASSUME NEW k \in Keys, NEW row,
         ledger \in [Keys -> Rows], ledger' = [ledger EXCEPT ![k] = row],
         ledger[k].status \notin {"absent", "completed"},
         row.status \notin {"absent", "completed"}
  PROVE  UNCHANGED <<Listed, Completed>>
BY DEF Listed, Completed

LEMMA ClaimIsStutter ==
  ASSUME IInv, NEW k \in Listed, NEW lag \in 0..MaxLag, Claimable(k, lag),
         SetClaimed(k, lag)
  PROVE  UNCHANGED <<Listed, Completed>>
<1> DEFINE row == [ledger[k] EXCEPT !.status = "claimed", !.lease = LeaseTime - lag]
<1>1. LeaseTime - lag \in Int
  BY LogoCleanupAssumption
<1>2. k \in Keys /\ ledger[k] \in Rows /\ ledger \in [Keys -> Rows]
  BY DEF IInv, TypeOK, Listed
<1>3. row.status = "claimed"
  BY <1>1, <1>2, ClaimedRow
<1>4. ledger' = [ledger EXCEPT ![k] = row]
  BY DEF SetClaimed
<1>5. ledger[k].status \notin {"absent", "completed"}
  BY DEF Claimable
<1> HIDE DEF row
<1> QED
  BY <1>2, <1>3, <1>4, <1>5, SameOutcome

LEMMA RetryIsStutter ==
  ASSUME IInv, NEW k \in Keys, ledger[k].status = "claimed", NEW due \in Int,
         SetFailed(k, due)
  PROVE  UNCHANGED <<Listed, Completed>>
<1> DEFINE row == [ledger[k] EXCEPT !.status = "failed", !.attempts = @ + 1,
                                    !.due = Clamped(due), !.lease = 0]
<1>1. ledger[k] \in Rows /\ ledger \in [Keys -> Rows] /\ Clamped(due) \in Int
  BY LogoCleanupAssumption DEF IInv, TypeOK, Clamped
<1>2. row.status = "failed"
  BY <1>1, FailedRow
<1>3. ledger' = [ledger EXCEPT ![k] = row]
  BY DEF SetFailed
<1> HIDE DEF row
<1> QED
  BY <1>1, <1>2, <1>3, SameOutcome

LEMMA CompleteIsRecord ==
  ASSUME IInv, NEW k \in Keys, ledger[k].status = "claimed", k \notin bucket,
         SetCompleted(k), UNCHANGED bucket
  PROVE  D!Record(k)
<1> DEFINE row == [ledger[k] EXCEPT !.status = "completed", !.attempts = @ + 1,
                                    !.lease = 0]
<1>1. ledger[k] \in Rows /\ ledger \in [Keys -> Rows]
  BY DEF IInv, TypeOK
<1>2. row.status = "completed"
  BY <1>1, CompletedRow
<1>3. ledger' = [ledger EXCEPT ![k] = row]
  BY DEF SetCompleted
<1> HIDE DEF row
<1>4. Completed' = Completed \cup {k} /\ UNCHANGED Listed
  BY <1>1, <1>2, <1>3 DEF Completed, Listed
<1>5. k \in Listed
  BY DEF Listed
<1> QED
  BY <1>4, <1>5 DEF D!Record

LEMMA EnqueueIsCondemn ==
  ASSUME IInv, NEW k \in Keys, EnqueueOrphanCleanup(k)
  PROVE  D!Condemn(k)
<1>1. PICK lag \in 0..MaxLag :
        ledger' = [ledger EXCEPT ![k] = [status |-> "pending", attempts |-> 0,
                                         due |-> 0 - lag, lease |-> 0]]
  BY DEF EnqueueOrphanCleanup
<1>2. ledger \in [Keys -> Rows] /\ ledger[k].status = "absent"
  BY DEF IInv, TypeOK, EnqueueOrphanCleanup
<1>3. Listed' = Listed \cup {k} /\ k \notin Listed /\ UNCHANGED Completed
  BY <1>1, <1>2 DEF Listed, Completed
<1> QED
  BY <1>3 DEF D!Condemn, EnqueueOrphanCleanup

LEMMA ProcessIsDisposal ==
  ASSUME IInv, NEW w \in Workers, Process(w)
  PROVE  D!Next \/ UNCHANGED <<bucket, Listed, Completed>>
<1> DEFINE k == run[w].key
<1>1. k \in Listed /\ k \in Keys
  BY WorkerHasKey DEF Process, Claim, Delete, Complete, ScheduleRetry
<1>2. ASSUME UNCHANGED ledger
      PROVE  UNCHANGED <<Listed, Completed>>
  BY <1>2 DEF Listed, Completed
<1>3. CASE Claim(w)
  <2>1. PICK lag \in 0..MaxLag :
          UNCHANGED ledger \/ (Claimable(k, lag) /\ SetClaimed(k, lag))
    BY <1>3 DEF Claim
  <2>2. UNCHANGED bucket
    BY <1>3 DEF Claim
  <2> HIDE DEF k
  <2> QED
    BY <1>1, <1>2, <2>1, <2>2, ClaimIsStutter
<1>4. CASE Delete(w)
  <2>1. bucket' = bucket \/ bucket' = bucket \ {k}
    BY <1>4 DEF Delete
  <2>2. UNCHANGED <<Listed, Completed>>
    BY <1>2, <1>4 DEF Delete
  <2> HIDE DEF k
  <2>3. bucket' = bucket \ {k} => D!Dispose(k)
    BY <1>1, <2>2 DEF D!Dispose
  <2> QED
    BY <1>1, <2>1, <2>2, <2>3 DEF D!Next
<1>5. CASE Complete(w)
  <2>1. k \notin bucket /\ UNCHANGED bucket
    BY <1>5 DEF Complete, IInv, GoneBeforeRecord
  <2>2. UNCHANGED ledger \/ (ledger[k].status = "claimed" /\ SetCompleted(k))
    BY <1>5 DEF Complete
  <2> HIDE DEF k
  <2> QED
    BY <1>1, <1>2, <2>1, <2>2, CompleteIsRecord DEF D!Next
<1>6. CASE ScheduleRetry(w)
  <2>1. UNCHANGED bucket
    BY <1>6 DEF ScheduleRetry
  <2>2. run[w].age \in 0..MaxAge
    BY DEF IInv, TypeOK, Runs
  <2>3. \/ UNCHANGED ledger
        \/ /\ ledger[k].status = "claimed"
           /\ \E delay \in 1..RetryMax : SetFailed(k, delay - run[w].age)
    BY <1>6 DEF ScheduleRetry
  <2> HIDE DEF k
  <2>4. \/ UNCHANGED ledger
        \/ ledger[k].status = "claimed" /\ \E due \in Int : SetFailed(k, due)
    BY <2>2, <2>3
  <2> QED
    BY <1>1, <1>2, <2>1, <2>4, RetryIsStutter
<1> QED
  BY <1>3, <1>4, <1>5, <1>6 DEF Process

LEMMA TickIsStutter ==
  ASSUME IInv, Tick
  PROVE  UNCHANGED <<bucket, Listed, Completed>>
<1>1. \A k \in Keys : ledger[k] \in Rows
  BY DEF IInv, TypeOK
<1>2. \A k \in Keys :
        \/ \E t \in Int : ledger'[k] = [ledger[k] EXCEPT !.due = t]
        \/ \E t \in Int : ledger'[k] = [ledger[k] EXCEPT !.lease = t]
        \/ ledger'[k] = ledger[k]
  <2>1. \A k \in Keys : Older(ledger[k].due) \in Int /\ Older(ledger[k].lease) \in Int
    BY <1>1, LogoCleanupAssumption DEF Older, Rows
  <2> QED
    BY <2>1 DEF Tick
<1>3. \A k \in Keys : ledger'[k].status = ledger[k].status
  BY <1>1, <1>2 DEF Rows
<1> QED
  BY <1>3 DEF Tick, Listed, Completed

\* The ledger, its jobs and its processor implement a disposal of condemned
\* objects: only an object on the ledger is deleted, and one is recorded as gone
\* only when it is.
THEOREM Refinement == Spec => ImplementsDisposal
<1>1. Init => D!Init
  BY DEF Init, D!Init, Listed, Completed, NoRow
<1>2. ASSUME IInv, [Next]_vars
      PROVE  D!Next \/ UNCHANGED <<bucket, Listed, Completed>>
  <2>1. ASSUME UNCHANGED <<bucket, ledger>>
        PROVE  UNCHANGED <<bucket, Listed, Completed>>
    BY <2>1 DEF Listed, Completed
  <2>2. ASSUME NEW k \in Keys, EnqueueOrphanCleanup(k) PROVE D!Next
    BY <1>2, <2>2, EnqueueIsCondemn DEF D!Next
  <2>3. ASSUME NEW k \in Keys,
               \/ AddJob(k) \/ Promote(k) \/ Recover(k) \/ Stall(k)
               \/ \E w \in Workers : Deliver(w, k)
        PROVE  UNCHANGED <<bucket, ledger>>
    BY <2>3 DEF AddJob, Promote, Recover, Stall, Deliver
  <2>4. ASSUME NEW w \in Workers, Crash(w)
        PROVE  UNCHANGED <<bucket, ledger>>
    BY <2>4 DEF Crash
  <2>5. ASSUME NEW w \in Workers, Process(w)
        PROVE  D!Next \/ UNCHANGED <<bucket, Listed, Completed>>
    BY <1>2, <2>5, ProcessIsDisposal
  <2>6. CASE Tick
    BY <1>2, <2>6, TickIsStutter
  <2>7. CASE UNCHANGED vars
    BY <2>1, <2>7 DEF vars
  <2> QED
    BY <1>2, <2>1, <2>2, <2>3, <2>4, <2>5, <2>6, <2>7 DEF Next
<1>3. IInv /\ [Next]_vars => [D!Next]_(D!vars)
  BY <1>2 DEF D!vars
<1> QED
  BY Invariance, <1>1, <1>3, PTL DEF Spec, ImplementsDisposal, D!Spec

-----------------------------------------------------------------------------
(* With nothing but the storage failing, a settled job has a settled row.  *)

\* A job attempt waits at least as long as the row of the same attempt: with the
\* 1000 ms that both back-offs start from, this is 2^min(n, 10) <= 2^n.
RowsComeDueFirst ==
  \A n \in Nat : \A delay, wait \in Nat :
    IsRetryDelay(delay, n) /\ IsQueueBackoff(wait, n + 1) => delay <= wait

RowOpen(k) == ledger[k].status \in {"pending", "failed"}

\* The row as a delivery of its job finds and leaves it.
Attended(k, r) ==
  /\ ledger[k].attempts = job[k].made
  /\ r.pc = "claim" => RowOpen(k) /\ ledger[k].due <= 0
  /\ r.pc \in {"delete", "complete", "retry"} =>
       ledger[k].status = "claimed" /\ r.attempts = job[k].made

\* Row and job go through their states together: the row is due whenever the
\* job is delivered, and nobody else works on it in between.
Orderly(k) ==
  /\ job[k].state = "none" =>
       /\ job[k].made = 0 /\ ledger[k].attempts = 0
       /\ ledger[k].status \in {"absent", "pending"} /\ ledger[k].due <= 0
  /\ job[k].state = "waiting" =>
       RowOpen(k) /\ ledger[k].due <= 0 /\ ledger[k].attempts = job[k].made
  /\ job[k].state = "delayed" =>
       /\ RowOpen(k) /\ ledger[k].due <= job[k].wait
       /\ ledger[k].attempts = job[k].made
  /\ job[k].state = "active" =>
       job[k].holder # NoWorker /\ Attended(k, run[job[k].holder])
  /\ job[k].state = "completed" => ledger[k].status = "completed"
  /\ job[k].state = "failed" => ledger[k].status = "failed"

\* Whoever works on a job holds its lock.
WorkersHoldLocks ==
  \A w \in Workers : run[w].pc # "idle" => job[run[w].key].holder = w

OrderlyInv == WorkersHoldLocks /\ \A k \in Keys : Orderly(k)

Calm == MaxLag = 0 /\ Faults \subseteq {"storage"} /\ RowsComeDueFirst

\* Whoever changes something changes it for the key in hand.
OnlyKeyChanges(k) ==
  \A i \in Keys \ {k} :
    /\ ledger'[i] = ledger[i] /\ job'[i] = job[i]
    /\ job[i].holder # NoWorker => run'[job[i].holder] = run[job[i].holder]

LEMMA OthersStayOrderly ==
  ASSUME OrderlyInv, NEW k \in Keys, OnlyKeyChanges(k), Orderly(k)'
  PROVE  \A i \in Keys : Orderly(i)'
<1> SUFFICES ASSUME NEW i \in Keys, i # k PROVE Orderly(i)'
  OBVIOUS
<1>1. /\ ledger'[i] = ledger[i] /\ job'[i] = job[i] /\ Orderly(i)
      /\ job[i].holder # NoWorker => run'[job[i].holder] = run[job[i].holder]
  BY DEF OnlyKeyChanges, OrderlyInv
<1> QED
  BY <1>1 DEF Orderly, Attended, RowOpen

\* The steps of worker w touch no other key than the one it works on.
LEMMA KeyInHand ==
  ASSUME IInv, OrderlyInv, NEW w \in Workers, run[w].pc # "idle"
  PROVE  /\ run[w].key \in Keys
         /\ job[run[w].key].holder = w /\ job[run[w].key].state = "active"
         /\ \A i \in Keys \ {run[w].key} : job[i].holder # w
         /\ Attended(run[w].key, run[w])
<1>1. run[w].key \in Keys /\ job[run[w].key].holder = w
  BY WorkerHasKey DEF OrderlyInv, WorkersHoldLocks
<1>2. w # NoWorker
  BY LogoCleanupAssumption
<1>3. job[run[w].key].state = "active"
  BY <1>1, <1>2 DEF IInv, TypeOK
<1>4. \A i \in Keys \ {run[w].key} : job[i].holder # w
  BY <1>2 DEF IInv, TypeOK
<1> QED
  BY <1>1, <1>3, <1>4 DEF OrderlyInv, Orderly

\* A worker that changes only its own run leaves the runs of other keys alone.
LEMMA WorkerStepIsLocal ==
  ASSUME IInv, OrderlyInv, NEW w \in Workers, run[w].pc # "idle", NEW r,
         run' = [run EXCEPT ![w] = r],
         \A i \in Keys \ {run[w].key} : ledger'[i] = ledger[i] /\ job'[i] = job[i]
  PROVE  OnlyKeyChanges(run[w].key)
<1>1. \A i \in Keys \ {run[w].key} : job[i].holder # w
  BY KeyInHand
<1>2. run \in [Workers -> Runs] /\ \A i \in Keys : job[i].holder \in Workers \cup {NoWorker}
  BY DEF IInv, TypeOK, Jobs
<1> QED
  BY <1>1, <1>2 DEF OnlyKeyChanges

LEMMA LocksKept ==
  ASSUME IInv, WorkersHoldLocks, NEW w \in Workers, run[w].pc # "idle", NEW r,
         run' = [run EXCEPT ![w] = r],
         \/ r.pc = "idle"
         \/ r.key = run[w].key /\ job'[run[w].key].holder = w,
         \A i \in Keys \ {run[w].key} : job'[i] = job[i]
  PROVE  WorkersHoldLocks'
<1> SUFFICES ASSUME NEW v \in Workers, run'[v].pc # "idle"
             PROVE  job'[run'[v].key].holder = v
  BY DEF WorkersHoldLocks
<1>1. run \in [Workers -> Runs]
  BY DEF IInv, TypeOK
<1>2. CASE v = w
  BY <1>1, <1>2
<1>3. CASE v # w
  <2>1. run'[v] = run[v] /\ run[v].key \in Keys /\ job[run[v].key].holder = v
    BY <1>1, <1>3, WorkerHasKey DEF WorkersHoldLocks
  <2>2. job[run[w].key].holder = w
    BY DEF WorkersHoldLocks
  <2>3. run[v].key # run[w].key
    BY <1>3, <2>1, <2>2
  <2> QED
    BY <2>1, <2>3
<1> QED
  BY <1>2, <1>3

LEMMA EnqueueIsOrderly ==
  ASSUME Calm, IInv, OrderlyInv, NEW k \in Keys, EnqueueOrphanCleanup(k)
  PROVE  OrderlyInv'
<1>1. PICK lag \in 0..MaxLag :
        ledger' = [ledger EXCEPT ![k] = [status |-> "pending", attempts |-> 0,
                                         due |-> 0 - lag, lease |-> 0]]
  BY DEF EnqueueOrphanCleanup
<1>2. lag = 0 /\ UNCHANGED <<job, run>> /\ ledger \in [Keys -> Rows]
  BY DEF Calm, EnqueueOrphanCleanup, IInv, TypeOK
<1>3. job[k].state = "none"
  BY DEF EnqueueOrphanCleanup, IInv, TypeOK, Listed
<1>4. Orderly(k)'
  BY <1>1, <1>2, <1>3 DEF OrderlyInv, Orderly
<1>5. OnlyKeyChanges(k)
  BY <1>1, <1>2 DEF OnlyKeyChanges
<1>6. WorkersHoldLocks'
  BY <1>2 DEF OrderlyInv, WorkersHoldLocks
<1> QED
  BY <1>4, <1>5, <1>6, OthersStayOrderly DEF OrderlyInv

LEMMA AddJobIsOrderly ==
  ASSUME IInv, OrderlyInv, NEW k \in Keys, AddJob(k)
  PROVE  OrderlyInv'
<1>1. /\ job[k].state = "none" /\ k \in Listed
      /\ job' = [job EXCEPT ![k].state = "waiting"]
      /\ UNCHANGED <<ledger, run>> /\ job \in [Keys -> Jobs]
  BY DEF AddJob, IInv, TypeOK
<1>2. /\ job'[k].state = "waiting" /\ job'[k].made = job[k].made
      /\ job'[k].holder = job[k].holder
      /\ \A i \in Keys \ {k} : job'[i] = job[i]
  BY <1>1 DEF Jobs
<1>3. Orderly(k)'
  BY <1>1, <1>2 DEF OrderlyInv, Orderly, RowOpen, Listed
<1>4. OnlyKeyChanges(k)
  BY <1>1, <1>2 DEF OnlyKeyChanges
<1>5. WorkersHoldLocks'
  BY <1>1, <1>2, WorkerHasKey DEF OrderlyInv, WorkersHoldLocks
<1> QED
  BY <1>3, <1>4, <1>5, OthersStayOrderly DEF OrderlyInv

LEMMA PromoteIsOrderly ==
  ASSUME IInv, OrderlyInv, NEW k \in Keys, Promote(k)
  PROVE  OrderlyInv'
<1>1. /\ job[k].state = "delayed" /\ job[k].wait = 0
      /\ job' = [job EXCEPT ![k].state = "waiting"]
      /\ UNCHANGED <<ledger, run>> /\ job \in [Keys -> Jobs]
  BY DEF Promote, IInv, TypeOK
<1>2. /\ job'[k].state = "waiting" /\ job'[k].made = job[k].made
      /\ job'[k].holder = job[k].holder
      /\ \A i \in Keys \ {k} : job'[i] = job[i]
  BY <1>1 DEF Jobs
<1>3. Orderly(k)'
  BY <1>1, <1>2 DEF OrderlyInv, Orderly, RowOpen
<1>4. OnlyKeyChanges(k)
  BY <1>1, <1>2 DEF OnlyKeyChanges
<1>5. WorkersHoldLocks'
  BY <1>1, <1>2, WorkerHasKey DEF OrderlyInv, WorkersHoldLocks
<1> QED
  BY <1>3, <1>4, <1>5, OthersStayOrderly DEF OrderlyInv

LEMMA DeliverIsOrderly ==
  ASSUME IInv, OrderlyInv, NEW w \in Workers, NEW k \in Keys, Deliver(w, k)
  PROVE  OrderlyInv'
<1>1. /\ run[w].pc = "idle" /\ job[k].state = "waiting"
      /\ job' = [job EXCEPT ![k].state = "active", ![k].holder = w]
      /\ run' = [run EXCEPT ![w] = [NoRun EXCEPT !.pc = "claim", !.key = k]]
      /\ ledger' = ledger
      /\ job \in [Keys -> Jobs] /\ run \in [Workers -> Runs]
  BY DEF Deliver, IInv, TypeOK
<1>2. /\ job'[k].state = "active" /\ job'[k].holder = w
      /\ job'[k].made = job[k].made
      /\ \A i \in Keys \ {k} : job'[i] = job[i]
  BY <1>1 DEF Jobs
<1>3. /\ run'[w].pc = "claim" /\ run'[w].key = k
      /\ \A v \in Workers \ {w} : run'[v] = run[v]
  BY <1>1 DEF NoRun
<1>4. w # NoWorker /\ job[k].holder = NoWorker
      /\ \A i \in Keys : job[i].holder # w
  BY <1>1, LogoCleanupAssumption DEF IInv, TypeOK
<1>5. Orderly(k)'
  BY <1>1, <1>2, <1>3, <1>4 DEF OrderlyInv, Orderly, Attended, RowOpen
<1>6. OnlyKeyChanges(k)
  <2>1. \A i \in Keys : job[i].holder \in Workers \cup {NoWorker}
    BY <1>1 DEF Jobs
  <2> QED
    BY <1>1, <1>2, <1>3, <1>4, <2>1 DEF OnlyKeyChanges
<1>7. WorkersHoldLocks'
  <2> SUFFICES ASSUME NEW v \in Workers, v # w, run'[v].pc # "idle"
               PROVE  job'[run'[v].key].holder = v
    BY <1>2, <1>3 DEF WorkersHoldLocks
  <2>1. run'[v] = run[v] /\ run[v].key \in Keys /\ job[run[v].key].holder = v
    BY <1>3, WorkerHasKey DEF OrderlyInv, WorkersHoldLocks
  <2>2. run[v].key # k
    BY <1>4, <2>1, LogoCleanupAssumption
  <2> QED
    BY <1>2, <2>1, <2>2
<1> QED
  BY <1>5, <1>6, <1>7, OthersStayOrderly DEF OrderlyInv

LEMMA ClaimIsOrderly ==
  ASSUME Calm, IInv, OrderlyInv, NEW w \in Workers, Claim(w)
  PROVE  OrderlyInv'
<1>0. PICK k \in Keys : k = run[w].key
  BY KeyInHand DEF Claim
<1> DEFINE r == [pc |-> "delete", key |-> k, attempts |-> ledger[k].attempts,
                 age |-> 0]
<1>1. /\ k \in Keys /\ job[k].holder = w /\ job[k].state = "active"
      /\ Attended(k, run[w]) /\ run[w].pc = "claim"
  BY <1>0, KeyInHand DEF Claim
<1>2. RowOpen(k) /\ ledger[k].due <= 0 /\ ledger[k].attempts = job[k].made
  BY <1>1 DEF Attended
<1>3. Claimable(k, 0) /\ 0 \in 0..MaxLag /\ \A lag \in 0..MaxLag : lag = 0
  <2>1. ledger[k].due \in Int
    BY <1>1 DEF IInv, TypeOK, Rows
  <2> QED
    BY <1>2, <2>1 DEF Claimable, RowOpen, Calm
<1>4. /\ SetClaimed(k, 0) /\ run' = [run EXCEPT ![w] = r] /\ UNCHANGED job
  BY <1>0, <1>3 DEF Claim, Calm
<1>5. /\ ledger \in [Keys -> Rows] /\ run \in [Workers -> Runs]
      /\ r.pc = "delete" /\ r.key = k /\ r.attempts = ledger[k].attempts
  BY DEF IInv, TypeOK
<1> HIDE DEF r
<1>6. /\ ledger'[k].status = "claimed" /\ ledger'[k].attempts = ledger[k].attempts
      /\ \A i \in Keys \ {k} : ledger'[i] = ledger[i]
  BY <1>1, <1>4, <1>5 DEF SetClaimed, Rows
<1>7. run'[w] = r
  BY <1>4, <1>5
<1>8. Orderly(k)'
  BY <1>1, <1>2, <1>4, <1>5, <1>6, <1>7, LogoCleanupAssumption
     DEF Orderly, Attended
<1>9. OnlyKeyChanges(k)
  BY <1>0, <1>1, <1>4, <1>6, WorkerStepIsLocal
<1>10. WorkersHoldLocks'
  BY <1>0, <1>1, <1>4, <1>5, LocksKept DEF OrderlyInv
<1> QED
  BY <1>1, <1>8, <1>9, <1>10, OthersStayOrderly DEF OrderlyInv

LEMMA DeleteIsOrderly ==
  ASSUME IInv, OrderlyInv, NEW w \in Workers, Delete(w)
  PROVE  OrderlyInv'
<1>0. PICK k \in Keys : k = run[w].key
  BY KeyInHand DEF Delete
<1>1. PICK pc \in {"complete", "retry"} :
        run' = [run EXCEPT ![w] = [run[w] EXCEPT !.pc = pc]]
  BY DEF Delete
<1> DEFINE r == [run[w] EXCEPT !.pc = pc]
<1>2. /\ k \in Keys /\ job[k].holder = w /\ job[k].state = "active"
      /\ Attended(k, run[w]) /\ run[w].pc = "delete"
  BY <1>0, KeyInHand DEF Delete
<1>3. /\ UNCHANGED <<ledger, job>> /\ run \in [Workers -> Runs]
      /\ run[w] \in Runs
  BY DEF Delete, IInv, TypeOK
<1>4. r.pc = pc /\ r.key = k /\ r.attempts = run[w].attempts
  BY <1>0, <1>3 DEF Runs
<1>5. run' = [run EXCEPT ![w] = r]
  BY <1>1
<1> HIDE DEF r
<1>6. run'[w] = r
  BY <1>3, <1>5
<1>7. Orderly(k)'
  BY <1>2, <1>3, <1>4, <1>6, LogoCleanupAssumption DEF Orderly, Attended
<1>8. OnlyKeyChanges(k)
  BY <1>0, <1>2, <1>3, <1>5, WorkerStepIsLocal
<1>9. WorkersHoldLocks'
  BY <1>0, <1>2, <1>3, <1>4, <1>5, LocksKept DEF OrderlyInv
<1> QED
  BY <1>2, <1>7, <1>8, <1>9, OthersStayOrderly DEF OrderlyInv

\* A run that ends has let go of its job.
LEMMA EndIsOrderly ==
  ASSUME IInv, OrderlyInv, NEW w \in Workers, run[w].pc # "idle",
         NEW k \in Keys, k = run[w].key, run' = [run EXCEPT ![w] = NoRun],
         \A i \in Keys \ {k} : ledger'[i] = ledger[i] /\ job'[i] = job[i],
         Orderly(k)'
  PROVE  OrderlyInv'
<1>1. NoRun.pc = "idle"
  BY DEF NoRun
<1>2. OnlyKeyChanges(k)
  BY WorkerStepIsLocal
<1>3. WorkersHoldLocks'
  BY <1>1, LocksKept DEF OrderlyInv
<1> QED
  BY <1>1, <1>2, <1>3, OthersStayOrderly DEF OrderlyInv

LEMMA CompleteIsOrderly ==
  ASSUME Calm, IInv, OrderlyInv, NEW w \in Workers, Complete(w)
  PROVE  OrderlyInv'
<1>0. PICK k \in Keys : k = run[w].key
  BY KeyInHand DEF Complete
<1>1. /\ k \in Keys /\ job[k].holder = w /\ job[k].state = "active"
      /\ Attended(k, run[w]) /\ run[w].pc = "complete"
      /\ \A i \in Keys \ {k} : job[i].holder # w
  BY <1>0, KeyInHand DEF Complete
<1>2. SetCompleted(k) /\ JobReturns(w)
  BY <1>0, <1>1 DEF Complete, Attended, Calm
<1>3. /\ ledger \in [Keys -> Rows] /\ job \in [Keys -> Jobs]
  BY DEF IInv, TypeOK
<1>4. ledger'[k].status = "completed" /\ \A i \in Keys \ {k} : ledger'[i] = ledger[i]
  BY <1>1, <1>2, <1>3 DEF SetCompleted, Rows
<1>5. job'[k].state = "completed" /\ \A i \in Keys \ {k} : job'[i] = job[i]
  BY <1>1, <1>2, <1>3 DEF JobReturns, Jobs
<1>6. Orderly(k)'
  BY <1>4, <1>5 DEF Orderly
<1> QED
  BY <1>0, <1>1, <1>2, <1>4, <1>5, <1>6, EndIsOrderly DEF JobReturns

LEMMA ScheduleRetryIsOrderly ==
  ASSUME Calm, IInv, OrderlyInv, NEW w \in Workers, ScheduleRetry(w)
  PROVE  OrderlyInv'
<1>0. PICK k \in Keys : k = run[w].key
  BY KeyInHand DEF ScheduleRetry
<1>1. /\ k \in Keys /\ job[k].holder = w /\ job[k].state = "active"
      /\ Attended(k, run[w]) /\ run[w].pc = "retry"
      /\ \A i \in Keys \ {k} : job[i].holder # w
  BY <1>0, KeyInHand DEF ScheduleRetry
<1>2. /\ ledger[k].attempts = job[k].made /\ ledger[k].status = "claimed"
      /\ run[w].attempts = job[k].made
  BY <1>1 DEF Attended
<1>3. PICK delay \in 1..RetryMax :
        IsRetryDelay(delay, run[w].attempts) /\ SetFailed(k, delay - run[w].age)
  BY <1>0, <1>2 DEF ScheduleRetry, Calm
<1>4. JobThrows(w)
  BY DEF ScheduleRetry
<1>5. PICK wait \in 1..QueueDelay * 2 ^ JobAttempts :
        /\ \A i \in Keys :
             job[i].holder = w => IsQueueBackoff(wait, job[i].made + 1)
        /\ job' = [i \in Keys |-> IF job[i].holder # w THEN job[i]
                                  ELSE AfterFailure(job[i], wait)]
  BY <1>4 DEF JobThrows
<1>6. /\ ledger \in [Keys -> Rows] /\ job[k] \in Jobs /\ run[w].age \in Nat
      /\ run' = [run EXCEPT ![w] = NoRun]
  BY <1>1, <1>4, LogoCleanupAssumption DEF IInv, TypeOK, JobThrows, Runs, MaxAge
<1>7. job[k].made \in Nat /\ delay \in Nat /\ wait \in Nat
  BY <1>6, LogoCleanupAssumption DEF Jobs
<1>8. IsQueueBackoff(wait, job[k].made + 1)
  BY <1>1, <1>5
<1>9. delay <= wait
  BY <1>2, <1>3, <1>7, <1>8 DEF Calm, RowsComeDueFirst
<1> DEFINE due == Clamped(delay - run[w].age)
<1>10. due \in Int /\ due <= wait
  BY <1>6, <1>7, <1>9 DEF Clamped, Calm
<1> HIDE DEF due
<1>11. /\ ledger'[k].status = "failed" /\ ledger'[k].due = due
       /\ ledger'[k].attempts = ledger[k].attempts + 1
       /\ \A i \in Keys \ {k} : ledger'[i] = ledger[i]
  <2>1. ledger' = [ledger EXCEPT ![k] =
           [ledger[k] EXCEPT !.status = "failed", !.attempts = @ + 1,
                             !.due = due, !.lease = 0]]
    BY <1>3 DEF SetFailed, due
  <2> QED
    BY <1>1, <1>6, <2>1 DEF Rows
<1>12. /\ job'[k] = AfterFailure(job[k], wait)
       /\ \A i \in Keys \ {k} : job'[i] = job[i]
  BY <1>1, <1>5
<1>13. \/ job'[k].state = "failed"
       \/ /\ job'[k].state = "delayed" /\ job'[k].made = job[k].made + 1
          /\ job'[k].wait = wait
  <2>1. CASE job[k].made + 1 = JobAttempts
    BY <1>6, <1>12, <2>1 DEF AfterFailure, Jobs
  <2>2. CASE job[k].made + 1 # JobAttempts
    BY <1>6, <1>12, <2>2 DEF AfterFailure, Jobs
  <2> QED
    BY <2>1, <2>2
<1>14. Orderly(k)'
  BY <1>2, <1>10, <1>11, <1>13 DEF Orderly, RowOpen
<1> QED
  BY <1>0, <1>1, <1>6, <1>11, <1>12, <1>14, EndIsOrderly

LEMMA TickIsOrderly ==
  ASSUME Calm, IInv, OrderlyInv, Tick
  PROVE  OrderlyInv'
<1>1. /\ \A w \in Workers : run'[w].pc = run[w].pc /\ run'[w].key = run[w].key
      /\ \A w \in Workers : run'[w].attempts = run[w].attempts
  <2>1. \A w \in Workers : run[w] \in Runs
    BY DEF IInv, TypeOK
  <2> QED
    BY <2>1, TickKeepsRuns DEF Tick, Runs
<1>2. \A k \in Keys :
        /\ job'[k].state = job[k].state /\ job'[k].made = job[k].made
        /\ job'[k].holder = job[k].holder
        /\ job'[k].wait = IF job[k].wait = 0 THEN 0 ELSE job[k].wait - 1
  <2>1. \A k \in Keys : job[k] \in Jobs
    BY DEF IInv, TypeOK
  <2> QED
    BY <2>1 DEF Tick, Jobs
<1>3. \A k \in Keys :
        /\ ledger'[k].status = ledger[k].status
        /\ ledger'[k].attempts = ledger[k].attempts
        /\ RowOpen(k) => ledger'[k].due = Older(ledger[k].due)
        /\ ~RowOpen(k) => ledger'[k].due = ledger[k].due
  <2>1. \A k \in Keys : ledger[k] \in Rows
    BY DEF IInv, TypeOK
  <2> QED
    BY <2>1 DEF Tick, Rows, RowOpen
<1>4. WorkersHoldLocks'
  BY <1>1, <1>2, WorkerHasKey DEF OrderlyInv, WorkersHoldLocks
<1>5. ASSUME NEW k \in Keys PROVE Orderly(k)'
  <2>1. ledger[k].due \in Int /\ job[k].wait \in Nat
    BY DEF IInv, TypeOK, Rows, Jobs
  <2>2. ledger[k].due <= 0 => ledger'[k].due <= 0
    BY <1>3, <2>1 DEF Older, Calm
  <2>3. RowOpen(k) /\ ledger[k].due <= job[k].wait => ledger'[k].due <= job'[k].wait
    BY <1>2, <1>3, <2>1 DEF Older, Calm
  <2>4. job[k].holder \in Workers \cup {NoWorker}
    BY DEF IInv, TypeOK, Jobs
  <2>5. Orderly(k)
    BY DEF OrderlyInv
  <2> QED
    BY <1>1, <1>2, <1>3, <2>2, <2>3, <2>4, <2>5 DEF Orderly, Attended, RowOpen
<1> QED
  BY <1>4, <1>5 DEF OrderlyInv

LEMMA StepIsOrderly ==
  ASSUME Calm, IInv, OrderlyInv, [Next]_vars
  PROVE  OrderlyInv'
<1>1. CASE UNCHANGED vars
  BY <1>1 DEF vars, OrderlyInv, WorkersHoldLocks, Orderly, Attended, RowOpen
<1>2. ASSUME NEW k \in Keys,
             \/ EnqueueOrphanCleanup(k) \/ AddJob(k) \/ Promote(k)
             \/ \E w \in Workers : Deliver(w, k)
      PROVE  OrderlyInv'
  BY <1>2, EnqueueIsOrderly, AddJobIsOrderly, PromoteIsOrderly, DeliverIsOrderly
<1>3. ASSUME NEW k \in Keys, Recover(k) PROVE FALSE
  BY <1>3 DEF Recover, OrderlyInv, Orderly
<1>4. ASSUME NEW k \in Keys, Stall(k) PROVE FALSE
  BY <1>4 DEF Stall, Calm
<1>5. ASSUME NEW w \in Workers, Crash(w) PROVE FALSE
  BY <1>5 DEF Crash, Calm
<1>6. ASSUME NEW w \in Workers, Process(w) PROVE OrderlyInv'
  BY <1>6, ClaimIsOrderly, DeleteIsOrderly, CompleteIsOrderly,
     ScheduleRetryIsOrderly DEF Process
<1>7. CASE Tick
  BY <1>7, TickIsOrderly
<1> QED
  BY <1>1, <1>2, <1>3, <1>4, <1>5, <1>6, <1>7 DEF Next

\* As long as only the object storage fails and clocks agree, no job that ends
\* leaves its row behind: the back-off of the row never outlasts the queue's.
THEOREM SettledJobsLeaveNothing ==
  ASSUME MaxLag = 0, Faults \subseteq {"storage"}, RowsComeDueFirst
  PROVE  Spec => []SettledJobsAgree
<1>1. Calm
  BY DEF Calm
<1>2. Init => OrderlyInv
  BY DEF Init, OrderlyInv, WorkersHoldLocks, Orderly, NoRow, NoJob, NoRun
<1>3. IInv /\ OrderlyInv /\ [Next]_vars => OrderlyInv'
  BY <1>1, StepIsOrderly
<1>4. IInv /\ OrderlyInv => SettledJobsAgree
  BY DEF IInv, OrderlyInv, Orderly, CompletedIsDeleted, Completed, SettledJobsAgree
<1> QED
  BY Invariance, <1>2, <1>3, <1>4, PTL DEF Spec

=============================================================================
