---------------------------- MODULE WorkerProofs ----------------------------
(***************************************************************************)
(* Proofs about Notification and Worker for any number of rows and         *)
(* processes, any numbers of attempts and stalls, any lifetime and lag,    *)
(* any combination of faults and any number of upsets.                     *)
(***************************************************************************)
EXTENDS Worker, TLAPS

Unsettled == {"none", "waiting", "delayed", "active"}

\* A job that is not settled has an attempt left; only an active one is locked.
Sound(j) ==
  /\ j \in Jobs
  /\ j.state \in Unsettled => j.made < JobAttempts
  /\ j.holder # NoWorker => j.state = "active"

JobsInv ==
  /\ job \in [Deliveries -> Jobs] /\ run \in [Workers -> Runs]
  /\ \A d \in Deliveries : Sound(job[d])
  /\ \A d \in Deliveries : job[d].holder # NoWorker =>
       run[job[d].holder].pc # "idle" /\ run[job[d].holder].d = d
  /\ \A d \in Deliveries : job[d].state # "none" => d \in event
  /\ \A w \in Workers : run[w].pc # "idle" => run[w].d \in event

RowsInv ==
  /\ delivery \in [Deliveries -> Rows]
  /\ event \subseteq {d \in Deliveries : delivery[d].status # "absent"}

\* A run about to record a delivery has seen the mail leave.
MailsInv ==
  /\ mails \in [Deliveries -> {0, 1}]
  /\ \A w \in Workers : run[w].pc = "delivered" => mails[run[w].d] = 1

IInv == JobsInv /\ RowsInv /\ SuccessIsPersisted /\ MailsInv

MailingStep == [M!Next]_(M!vars)

-----------------------------------------------------------------------------
(* What a step does to jobs and runs                                       *)

\* Worker w is done with its job, and no longer holds the lock of any.
Leaves(w) ==
  /\ run' = [run EXCEPT ![w] = NoRun]
  /\ job' \in [Deliveries -> Jobs]
  /\ \A d \in Deliveries :
       IF job[d].holder # w THEN job'[d] = job[d]
       ELSE Sound(job'[d]) /\ job'[d].holder = NoWorker /\ job'[d].state # "none"

\* It goes on with it.
GoesOn(w, pc) ==
  /\ run' = [run EXCEPT ![w] = [pc |-> pc, d |-> run[w].d]]
  /\ UNCHANGED job

\* The queue does something with job d that no worker holds afterwards.
Requeues(d, j) ==
  /\ UNCHANGED run
  /\ job' = [job EXCEPT ![d] = j]
  /\ Sound(j) /\ j.holder = NoWorker /\ j.state # "none"

LEMMA NoRunType == NoRun \in Runs /\ NoRun.pc = "idle"
BY DEF NoRun, Runs

LEMMA SettledSound ==
  ASSUME NEW state \in Settled
  PROVE  /\ Sound(SettledJob(state)) /\ SettledJob(state).holder = NoWorker
         /\ SettledJob(state).state = state
<1>1. /\ SettledJob(state) \in Jobs /\ SettledJob(state).holder = NoWorker
      /\ SettledJob(state).state = state
  BY NotificationAssumption DEF SettledJob, NoJob, Jobs
<1>2. state \notin Unsettled
  BY DEF Settled, Results, Outcomes, Unsettled
<1> QED
  BY <1>1, <1>2 DEF Sound

LEMMA ActiveStates ==
  ASSUME NEW j \in Jobs
  PROVE  /\ j.state \in Unsettled \cup Settled /\ j.holder \in Workers \cup {NoWorker}
         /\ j.made \in 0..JobAttempts /\ j.stalls \in 0..MaxStalls
BY DEF Jobs, Unsettled

LEMMA LeavesKeeps ==
  ASSUME JobsInv, NEW w \in Workers, Leaves(w), UNCHANGED event,
         run[w].pc # "idle"
  PROVE  JobsInv'
<1>1. run' \in [Workers -> Runs] /\ run'[w].pc = "idle"
      /\ \A v \in Workers \ {w} : run'[v] = run[v]
  BY NoRunType DEF Leaves, JobsInv
<1>2. \A d \in Deliveries : Sound(job'[d])
  BY DEF Leaves, JobsInv
<1>3. ASSUME NEW d \in Deliveries, job'[d].holder # NoWorker
      PROVE  run'[job'[d].holder].pc # "idle" /\ run'[job'[d].holder].d = d
  <2>1. job[d].holder # w /\ job'[d] = job[d]
    BY <1>3 DEF Leaves
  <2>2. job[d].holder \in Workers \ {w}
    BY <1>3, <2>1, ActiveStates DEF JobsInv
  <2> QED
    BY <1>1, <1>3, <2>1, <2>2 DEF JobsInv
<1>4. ASSUME NEW d \in Deliveries, job'[d].state # "none"
      PROVE  d \in event'
  <2>1. CASE job[d].holder = w
    <3>1. job[d].holder # NoWorker
      BY <2>1, NotificationAssumption
    <3> QED
      BY <2>1, <3>1 DEF JobsInv
  <2>2. CASE job[d].holder # w
    BY <1>4, <2>2 DEF Leaves, JobsInv
  <2> QED
    BY <2>1, <2>2
<1>5. \A v \in Workers : run'[v].pc # "idle" => run'[v].d \in event'
  BY <1>1 DEF JobsInv
<1> QED
  BY <1>1, <1>2, <1>3, <1>4, <1>5 DEF JobsInv, Leaves

LEMMA GoesOnKeeps ==
  ASSUME JobsInv, NEW w \in Workers, run[w].pc # "idle", UNCHANGED event,
         NEW pc \in {"find", "send"} \cup Outcomes, GoesOn(w, pc)
  PROVE  /\ JobsInv'
         /\ run'[w].pc = pc /\ run'[w].d = run[w].d
         /\ \A v \in Workers \ {w} : run'[v] = run[v]
<1> DEFINE new == [pc |-> pc, d |-> run[w].d]
<1>1. run[w].d \in Deliveries \cup {NoDelivery}
  BY DEF JobsInv, Runs
<1>2. new \in Runs /\ new.pc = pc /\ new.d = run[w].d /\ pc # "idle"
  BY <1>1 DEF Runs, Outcomes
<1> HIDE DEF new
<1>3. run' = [run EXCEPT ![w] = new] /\ job' = job
  BY DEF GoesOn, new
<1>4. run' \in [Workers -> Runs] /\ run'[w] = new
      /\ \A v \in Workers \ {w} : run'[v] = run[v]
  BY <1>2, <1>3 DEF JobsInv
<1>5. \A v \in Workers : /\ run'[v].pc # "idle" <=> run[v].pc # "idle"
                         /\ run'[v].d = run[v].d
  BY <1>2, <1>4
<1>6. \A d \in Deliveries : job[d].holder # NoWorker => job[d].holder \in Workers
  BY ActiveStates DEF JobsInv
<1> QED
  BY <1>2, <1>3, <1>4, <1>5, <1>6 DEF JobsInv

LEMMA RequeuesKeeps ==
  ASSUME JobsInv, NEW d \in Deliveries, NEW j, Requeues(d, j), d \in event,
         UNCHANGED event
  PROVE  JobsInv'
<1>1. j \in Jobs
  BY DEF Requeues, Sound
<1>2. job' \in [Deliveries -> Jobs] /\ job'[d] = j /\ run' = run
      /\ \A c \in Deliveries \ {d} : job'[c] = job[c]
  BY <1>1 DEF Requeues, JobsInv
<1> QED
  BY <1>2 DEF Requeues, JobsInv

-----------------------------------------------------------------------------
(* How a run ends                                                          *)

LEMMA ReturnLeaves ==
  ASSUME JobsInv, NEW w \in Workers, NEW result \in Results, JobReturns(w, result)
  PROVE  /\ Leaves(w)
         /\ \A d \in Deliveries :
              job[d].holder = w => job'[d].state = result /\ d = run[w].d
<1>1. w # NoWorker
  BY NotificationAssumption
<1>2. ASSUME NEW d \in Deliveries, job[d].holder = w
      PROVE  /\ Sound(job'[d]) /\ job'[d].holder = NoWorker /\ job'[d].state = result
             /\ d = run[w].d
  <2>1. job'[d] = SettledJob(result) /\ result \in Settled
    BY <1>2 DEF JobReturns, Settled
  <2> QED
    BY <1>1, <1>2, <2>1, SettledSound DEF JobsInv
<1>3. \A d \in Deliveries : job[d].holder # w => job'[d] = job[d]
  BY DEF JobReturns
<1>4. job' \in [Deliveries -> Jobs]
  <2>1. \A d \in Deliveries : job'[d] \in Jobs
    BY <1>2, <1>3 DEF Sound, JobsInv
  <2>2. job' = [d \in Deliveries |-> job'[d]]
    BY DEF JobReturns
  <2> QED
    BY <2>1, <2>2
<1>5. result # "none"
  BY DEF Results, Outcomes
<1> QED
  BY <1>2, <1>3, <1>4, <1>5 DEF Leaves, JobReturns

LEMMA AfterFailureSound ==
  ASSUME NEW j, Sound(j), j.state = "active"
  PROVE  /\ Sound(AfterFailure(j)) /\ AfterFailure(j).holder = NoWorker
         /\ AfterFailure(j).state \in {"failed", "delayed"}
<1>1. j \in Jobs /\ j.made \in Nat /\ j.made < JobAttempts /\ JobAttempts \in Nat
  BY ActiveStates, NotificationAssumption DEF Sound, Unsettled
<1>2. j.made + 1 \in 0..JobAttempts
  BY <1>1
<1>3. CASE j.made + 1 = JobAttempts
  <2>1. AfterFailure(j) = SettledJob("failed") /\ "failed" \in Settled
    BY <1>3 DEF AfterFailure, Settled
  <2> QED
    BY <2>1, SettledSound
<1>4. CASE j.made + 1 # JobAttempts
  <2> DEFINE new == [j EXCEPT !.state = "delayed", !.holder = NoWorker, !.made = @ + 1]
  <2>1. new \in Jobs /\ new.state = "delayed" /\ new.holder = NoWorker
        /\ new.made = j.made + 1
    BY <1>1, <1>2 DEF Jobs
  <2>2. AfterFailure(j) = new
    BY <1>4 DEF AfterFailure
  <2> HIDE DEF new
  <2>3. new.made < JobAttempts
    BY <1>1, <1>4, <2>1
  <2> QED
    BY <2>1, <2>2, <2>3 DEF Sound, Unsettled
<1> QED
  BY <1>3, <1>4

LEMMA ThrowLeaves ==
  ASSUME JobsInv, NEW w \in Workers, JobThrows(w)
  PROVE  /\ Leaves(w)
         /\ \A d \in Deliveries : job[d].holder = w => job'[d].state \notin Outcomes
<1>1. w # NoWorker
  BY NotificationAssumption
<1>2. ASSUME NEW d \in Deliveries, job[d].holder = w
      PROVE  /\ Sound(job'[d]) /\ job'[d].holder = NoWorker
             /\ job'[d].state \in {"failed", "delayed"}
  <2>1. Sound(job[d]) /\ job[d].state = "active"
    BY <1>1, <1>2 DEF JobsInv, Sound
  <2>2. job'[d] = AfterFailure(job[d])
    BY <1>2 DEF JobThrows
  <2> QED
    BY <2>1, <2>2, AfterFailureSound
<1>3. \A d \in Deliveries : job[d].holder # w => job'[d] = job[d]
  BY DEF JobThrows
<1>4. job' \in [Deliveries -> Jobs]
  <2>1. \A d \in Deliveries : job'[d] \in Jobs
    BY <1>2, <1>3 DEF Sound, JobsInv
  <2>2. job' = [d \in Deliveries |-> job'[d]]
    BY DEF JobThrows
  <2> QED
    BY <2>1, <2>2
<1> QED
  BY <1>2, <1>3, <1>4 DEF Leaves, JobThrows, Outcomes

LEMMA DieLeaves ==
  ASSUME JobsInv, NEW w \in Workers, Die(w)
  PROVE  /\ Leaves(w)
         /\ \A d \in Deliveries : job[d].holder = w => job'[d].state \notin Outcomes
<1>1. w # NoWorker
  BY NotificationAssumption
<1>2. ASSUME NEW d \in Deliveries, job[d].holder = w
      PROVE  /\ Sound(job'[d]) /\ job'[d].holder = NoWorker /\ job'[d].state = "active"
  <2> DEFINE j == [job[d] EXCEPT !.holder = NoWorker]
  <2>1. Sound(job[d]) /\ job[d].state = "active"
    BY <1>1, <1>2 DEF JobsInv, Sound
  <2>2. j \in Jobs /\ j.state = job[d].state /\ j.holder = NoWorker /\ j.made = job[d].made
    BY <2>1 DEF Jobs, Sound
  <2>3. job'[d] = j
    BY <1>2 DEF Die
  <2> HIDE DEF j
  <2> QED
    BY <2>1, <2>2, <2>3 DEF Sound
<1>3. \A d \in Deliveries : job[d].holder # w => job'[d] = job[d]
  BY DEF Die
<1>4. job' \in [Deliveries -> Jobs]
  <2>1. \A d \in Deliveries : job'[d] \in Jobs
    BY <1>2, <1>3 DEF Sound, JobsInv
  <2>2. job' = [d \in Deliveries |-> job'[d]]
    BY DEF Die
  <2> QED
    BY <2>1, <2>2
<1> QED
  BY <1>2, <1>3, <1>4 DEF Leaves, Die, Outcomes

-----------------------------------------------------------------------------
(* Steps on rows and jobs                                                  *)

LEMMA RowWritten ==
  ASSUME RowsInv, NEW d \in Deliveries, NEW row \in Rows,
         delivery' = [delivery EXCEPT ![d] = row]
  PROVE  /\ delivery' \in [Deliveries -> Rows] /\ delivery'[d] = row
         /\ \A c \in Deliveries \ {d} : delivery'[c] = delivery[c]
         /\ Recorded' = [Recorded EXCEPT ![d] = row.status]
BY DEF RowsInv, Recorded

LEMMA InsertDeliverySafe ==
  ASSUME IInv, NEW d \in Deliveries, InsertDelivery(d)
  PROVE  IInv' /\ MailingStep
<1> DEFINE row == [status |-> "pending", left |-> Lifetime]
<1>1. row \in Rows /\ row.status = "pending"
  BY NotificationAssumption DEF Rows
<1>2. delivery' = [delivery EXCEPT ![d] = row] /\ delivery[d].status = "absent"
      /\ event' = event \cup ({d} \cap Transactional) /\ UNCHANGED <<mails, job, run>>
  BY DEF InsertDelivery
<1> HIDE DEF row
<1>3. /\ delivery' \in [Deliveries -> Rows] /\ delivery'[d] = row
      /\ \A c \in Deliveries \ {d} : delivery'[c] = delivery[c]
      /\ Recorded' = [Recorded EXCEPT ![d] = "pending"]
  BY <1>1, <1>2, RowWritten DEF IInv
<1>4. JobsInv' /\ MailsInv'
  BY <1>2 DEF IInv, JobsInv, MailsInv
<1>5. RowsInv'
  BY <1>1, <1>2, <1>3 DEF IInv, RowsInv
<1>6. SuccessIsPersisted'
  <2>1. job[d].state \notin Outcomes
    BY <1>2 DEF IInv, SuccessIsPersisted, Outcomes
  <2> QED
    BY <1>2, <1>3, <2>1 DEF IInv, SuccessIsPersisted
<1>7. MailingStep
  BY <1>2, <1>3 DEF MailingStep, M!Next, M!Request, Recorded
<1> QED
  BY <1>4, <1>5, <1>6, <1>7 DEF IInv

LEMMA AppendEventSafe ==
  ASSUME IInv, NEW d \in Deliveries, AppendEvent(d)
  PROVE  IInv' /\ MailingStep
<1>1. /\ delivery[d].status # "absent" /\ event' = event \cup {d}
      /\ UNCHANGED <<delivery, mails, job, run>>
  BY DEF AppendEvent
<1>2. JobsInv' /\ RowsInv' /\ MailsInv' /\ SuccessIsPersisted'
  BY <1>1 DEF IInv, JobsInv, RowsInv, MailsInv, SuccessIsPersisted
<1>3. MailingStep
  BY <1>1 DEF MailingStep, M!vars, Recorded
<1> QED
  BY <1>2, <1>3 DEF IInv

\* The queue handles a job: only one that ended with an outcome before still does.
LEMMA RequeuesSafe ==
  ASSUME IInv, NEW d \in Deliveries, NEW j, Requeues(d, j), d \in event,
         j.state \notin Outcomes, UNCHANGED <<delivery, event, mails>>
  PROVE  IInv' /\ MailingStep
<1>1. JobsInv'
  BY RequeuesKeeps DEF IInv
<1>2. RowsInv' /\ MailsInv'
  BY DEF IInv, RowsInv, MailsInv, Requeues
<1>3. SuccessIsPersisted'
  BY DEF IInv, JobsInv, SuccessIsPersisted, Requeues
<1>4. MailingStep
  BY DEF MailingStep, M!vars, Recorded
<1> QED
  BY <1>1, <1>2, <1>3, <1>4 DEF IInv

LEMMA AddJobSafe ==
  ASSUME IInv, NEW d \in Deliveries, AddJob(d)
  PROVE  IInv' /\ MailingStep
<1> DEFINE j == [job[d] EXCEPT !.state = "waiting"]
<1>1. Sound(job[d]) /\ job[d].state = "none" /\ d \in event
  BY DEF AddJob, IInv, JobsInv
<1>2. /\ j \in Jobs /\ j.state = "waiting" /\ j.holder = job[d].holder
      /\ j.made = job[d].made
  BY <1>1 DEF Sound, Jobs
<1>3. job' = [job EXCEPT ![d] = j] /\ UNCHANGED <<delivery, event, mails, run>>
  BY DEF AddJob
<1> HIDE DEF j
<1>4. j.holder = NoWorker
  BY <1>1, <1>2 DEF Sound
<1>5. Sound(j)
  BY <1>1, <1>2, <1>4 DEF Sound, Unsettled
<1>6. Requeues(d, j)
  BY <1>2, <1>3, <1>4, <1>5 DEF Requeues
<1> QED
  BY <1>1, <1>2, <1>3, <1>6, RequeuesSafe DEF Outcomes

LEMMA PromoteSafe ==
  ASSUME IInv, NEW d \in Deliveries, Promote(d)
  PROVE  IInv' /\ MailingStep
<1> DEFINE j == [job[d] EXCEPT !.state = "waiting"]
<1>1. Sound(job[d]) /\ job[d].state = "delayed" /\ job[d].holder = NoWorker /\ d \in event
  BY DEF Promote, IInv, JobsInv
<1>2. /\ j \in Jobs /\ j.state = "waiting" /\ j.holder = NoWorker
      /\ j.made = job[d].made
  BY <1>1 DEF Sound, Jobs
<1>3. job' = [job EXCEPT ![d] = j] /\ UNCHANGED <<delivery, event, mails, run>>
  BY DEF Promote
<1> HIDE DEF j
<1>4. Sound(j)
  BY <1>1, <1>2 DEF Sound, Unsettled
<1>5. Requeues(d, j)
  BY <1>2, <1>3, <1>4 DEF Requeues
<1> QED
  BY <1>1, <1>2, <1>3, <1>5, RequeuesSafe DEF Outcomes

LEMMA LockLostSafe ==
  ASSUME IInv, NEW d \in Deliveries, job[d].state = "active", LockLost(d),
         UNCHANGED <<delivery, event, mails, run>>
  PROVE  IInv' /\ MailingStep
<1>1. /\ Sound(job[d]) /\ d \in event /\ job[d] \in Jobs
      /\ job[d].stalls \in 0..MaxStalls /\ MaxStalls \in Nat
  BY ActiveStates, NotificationAssumption DEF IInv, JobsInv, Sound
<1>2. CASE job[d].stalls = MaxStalls /\ job' = [job EXCEPT ![d] = SettledJob("failed")]
  <2>1. "failed" \in Settled /\ "failed" \notin Outcomes /\ "failed" # "none"
    BY DEF Settled, Outcomes
  <2>2. Requeues(d, SettledJob("failed")) /\ SettledJob("failed").state = "failed"
    BY <1>2, <2>1, SettledSound DEF Requeues
  <2> QED
    BY <1>1, <2>1, <2>2, RequeuesSafe
<1>3. CASE /\ job[d].stalls # MaxStalls
           /\ job' = [job EXCEPT ![d] =
                [job[d] EXCEPT !.state = "waiting", !.holder = NoWorker, !.stalls = @ + 1]]
  <2> DEFINE j == [job[d] EXCEPT !.state = "waiting", !.holder = NoWorker, !.stalls = @ + 1]
  <2>1. job[d].stalls + 1 \in 0..MaxStalls
    BY <1>1, <1>3
  <2>2. j \in Jobs /\ j.state = "waiting" /\ j.holder = NoWorker /\ j.made = job[d].made
    BY <1>1, <2>1 DEF Jobs
  <2>3. job' = [job EXCEPT ![d] = j]
    BY <1>3
  <2> HIDE DEF j
  <2>4. Requeues(d, j)
    BY <1>1, <2>2, <2>3 DEF Requeues, Sound, Unsettled
  <2> QED
    BY <1>1, <2>2, <2>4, RequeuesSafe DEF Outcomes
<1> QED
  BY <1>2, <1>3 DEF LockLost

LEMMA DeliverSafe ==
  ASSUME IInv, NEW d \in Deliveries, NEW w \in Workers, Deliver(w, d)
  PROVE  IInv' /\ MailingStep
<1> DEFINE j == [job[d] EXCEPT !.state = "active", !.holder = w]
           new == [pc |-> "find", d |-> d]
<1>1. Sound(job[d]) /\ job[d].state = "waiting" /\ run[w].pc = "idle" /\ w # NoWorker
  BY NotificationAssumption DEF Deliver, IInv, JobsInv
<1>2. /\ j \in Jobs /\ j.state = "active" /\ j.holder = w /\ j.made = job[d].made
      /\ new \in Runs /\ new.pc = "find" /\ new.d = d
  BY <1>1 DEF Sound, Jobs, Runs
<1>3. job' = [job EXCEPT ![d] = j] /\ run' = [run EXCEPT ![w] = new]
      /\ UNCHANGED <<delivery, event, mails>>
  BY DEF Deliver, IInv, JobsInv
<1> HIDE DEF j, new
<1>4. Sound(j)
  BY <1>1, <1>2 DEF Sound, Unsettled
<1>5. /\ job' \in [Deliveries -> Jobs] /\ run' \in [Workers -> Runs]
      /\ job'[d] = j /\ \A c \in Deliveries \ {d} : job'[c] = job[c]
      /\ run'[w] = new /\ \A v \in Workers \ {w} : run'[v] = run[v]
  BY <1>2, <1>3 DEF IInv, JobsInv
<1>6. JobsInv'
  <2>1. \A c \in Deliveries : Sound(job'[c])
    BY <1>4, <1>5 DEF IInv, JobsInv
  <2>2. ASSUME NEW c \in Deliveries, job'[c].holder # NoWorker
        PROVE  run'[job'[c].holder].pc # "idle" /\ run'[job'[c].holder].d = c
    <3>1. CASE c = d
      BY <1>2, <1>5, <3>1
    <3>2. CASE c # d
      <4>1. job[c].holder # NoWorker /\ job'[c] = job[c]
        BY <1>5, <2>2, <3>2
      <4>2. job[c].holder \in Workers \ {w}
        BY <1>1, <4>1, ActiveStates DEF IInv, JobsInv
      <4> QED
        BY <1>5, <4>1, <4>2 DEF IInv, JobsInv
    <3> QED
      BY <3>1, <3>2
  <2>3. d \in event
    BY <1>1 DEF IInv, JobsInv
  <2> QED
    BY <1>2, <1>3, <1>5, <2>1, <2>2, <2>3 DEF IInv, JobsInv
<1>7. RowsInv' /\ MailsInv'
  BY <1>2, <1>3, <1>5 DEF IInv, RowsInv, MailsInv
<1>8. SuccessIsPersisted'
  BY <1>2, <1>3, <1>5 DEF IInv, SuccessIsPersisted, Outcomes
<1>9. MailingStep
  BY <1>3 DEF MailingStep, M!vars, Recorded
<1> QED
  BY <1>6, <1>7, <1>8, <1>9 DEF IInv

-----------------------------------------------------------------------------
(* Steps of the processor                                                  *)

LEMMA LeavesSafe ==
  ASSUME IInv, NEW w \in Workers, run[w].pc # "idle", Leaves(w),
         \A d \in Deliveries : job[d].holder = w => job'[d].state \notin Outcomes,
         UNCHANGED <<delivery, event, mails>>
  PROVE  IInv' /\ MailingStep
<1>1. JobsInv' /\ RowsInv'
  BY LeavesKeeps DEF IInv, RowsInv
<1>2. MailsInv'
  BY NoRunType DEF IInv, MailsInv, JobsInv, Leaves
<1>3. SuccessIsPersisted'
  BY DEF IInv, SuccessIsPersisted, Leaves
<1>4. MailingStep
  BY DEF MailingStep, M!vars, Recorded
<1> QED
  BY <1>1, <1>2, <1>3, <1>4 DEF IInv

LEMMA ThrowSafe ==
  ASSUME IInv, NEW w \in Workers, run[w].pc # "idle", JobThrows(w),
         UNCHANGED <<delivery, event, mails>>
  PROVE  IInv' /\ MailingStep
BY ThrowLeaves, LeavesSafe DEF IInv

LEMMA IgnoreSafe ==
  ASSUME IInv, NEW w \in Workers, run[w].pc # "idle", JobReturns(w, "ignored"),
         UNCHANGED <<delivery, event, mails>>
  PROVE  IInv' /\ MailingStep
<1>1. "ignored" \in Results /\ "ignored" \notin Outcomes
  BY DEF Results, Outcomes
<1> QED
  BY <1>1, ReturnLeaves, LeavesSafe DEF IInv

LEMMA DieSafe ==
  ASSUME IInv, NEW w \in Workers, Die(w)
  PROVE  IInv' /\ MailingStep
<1>1. CASE run[w].pc = "idle"
  <2>1. \A d \in Deliveries : job[d].holder # w
    BY <1>1, NotificationAssumption DEF IInv, JobsInv
  <2>2. job' = job
    BY <2>1 DEF Die, IInv, JobsInv
  <2>3. run' \in [Workers -> Runs] /\ run'[w].pc = "idle"
        /\ \A v \in Workers \ {w} : run'[v] = run[v]
    BY NoRunType DEF Die, IInv, JobsInv
  <2>4. UNCHANGED <<delivery, event, mails>>
    BY DEF Die
  <2>5. JobsInv'
    BY <1>1, <2>1, <2>2, <2>3, <2>4, ActiveStates DEF IInv, JobsInv
  <2>6. RowsInv' /\ MailsInv' /\ SuccessIsPersisted'
    BY <2>2, <2>3, <2>4 DEF IInv, RowsInv, MailsInv, SuccessIsPersisted
  <2>7. MailingStep
    BY <2>4 DEF MailingStep, M!vars, Recorded
  <2> QED
    BY <2>5, <2>6, <2>7 DEF IInv
<1>2. CASE run[w].pc # "idle"
  BY <1>2, DieLeaves, LeavesSafe DEF IInv, Die
<1> QED
  BY <1>1, <1>2

LEMMA GoesOnSafe ==
  ASSUME IInv, NEW w \in Workers, run[w].pc # "idle",
         NEW pc \in {"find", "send", "expired"}, MoveTo(w, pc),
         UNCHANGED <<delivery, event, mails>>
  PROVE  IInv' /\ MailingStep
<1>1. pc \in {"find", "send"} \cup Outcomes /\ pc # "delivered"
  BY DEF Outcomes
<1>2. GoesOn(w, pc)
  BY DEF MoveTo, GoesOn
<1>3. /\ JobsInv' /\ run'[w].pc = pc
      /\ \A v \in Workers \ {w} : run'[v] = run[v]
  BY <1>1, <1>2, GoesOnKeeps DEF IInv
<1>4. RowsInv' /\ MailsInv' /\ SuccessIsPersisted'
  BY <1>1, <1>3 DEF IInv, RowsInv, MailsInv, SuccessIsPersisted, MoveTo
<1>5. MailingStep
  BY DEF MailingStep, M!vars, Recorded
<1> QED
  BY <1>3, <1>4, <1>5 DEF IInv

LEMMA FindSafe ==
  ASSUME IInv, NEW w \in Workers, Find(w)
  PROVE  IInv' /\ MailingStep
<1>1. run[w].pc = "find" /\ UNCHANGED <<delivery, event, mails>>
  BY DEF Find
<1>2. \/ JobReturns(w, "ignored") \/ JobThrows(w)
      \/ MoveTo(w, "expired") \/ MoveTo(w, "send")
  BY DEF Find
<1> QED
  BY <1>1, <1>2, ThrowSafe, IgnoreSafe, GoesOnSafe

LEMMA SendSafe ==
  ASSUME IInv, NEW w \in Workers, Send(w)
  PROVE  IInv' /\ MailingStep
<1>1. run[w].pc = "send" /\ UNCHANGED <<delivery, event>>
  BY DEF Send
<1>2. PICK d \in Deliveries : d = run[w].d /\ d \in event /\ delivery[d].status # "absent"
  BY <1>1 DEF IInv, JobsInv, RowsInv, Runs
<1>3. RowsInv'
  BY <1>1 DEF IInv, RowsInv
<1>4. ASSUME mails' = mails
      PROVE  MailingStep
  BY <1>1, <1>4 DEF MailingStep, M!vars, Recorded
<1>5. ASSUME MailLeaves(d)
      PROVE  /\ mails' \in [Deliveries -> {0, 1}] /\ mails'[d] = 1
             /\ \A c \in Deliveries : mails[c] = 1 => mails'[c] = 1
             /\ MailingStep
  <2>1. mails' = [mails EXCEPT ![d] = 1] /\ mails \in [Deliveries -> {0, 1}]
    BY <1>5 DEF MailLeaves, IInv, MailsInv
  <2>2. CASE mails[d] = 1
    <3>1. mails' = mails
      BY <2>1, <2>2
    <3> QED
      BY <2>1, <2>2, <3>1, <1>4
  <2>3. CASE mails[d] = 0
    <3>1. Recorded[d] # "absent" /\ Recorded' = Recorded
      BY <1>1, <1>2 DEF Recorded
    <3>2. MailingStep
      BY <2>1, <2>3, <3>1 DEF MailingStep, M!Next, M!Mail
    <3> QED
      BY <2>1, <3>2
  <2> QED
    BY <2>1, <2>2, <2>3
<1>6. CASE MailLeaves(d) /\ MoveTo(w, "delivered")
  <2>1. GoesOn(w, "delivered") /\ "delivered" \in Outcomes
    BY <1>6 DEF MoveTo, GoesOn, Outcomes
  <2>2. /\ JobsInv' /\ run'[w].pc = "delivered" /\ run'[w].d = d
        /\ \A v \in Workers \ {w} : run'[v] = run[v]
    BY <1>1, <1>2, <2>1, GoesOnKeeps DEF IInv
  <2>3. MailsInv'
    <3> SUFFICES ASSUME NEW v \in Workers, run'[v].pc = "delivered"
                 PROVE  mails'[run'[v].d] = 1
      BY <1>5, <1>6 DEF MailsInv
    <3>1. CASE v = w
      BY <1>5, <1>6, <2>2, <3>1
    <3>2. CASE v # w
      <4>1. mails[run[v].d] = 1 /\ run'[v] = run[v] /\ run[v].d \in Deliveries
        BY <2>2, <3>2 DEF IInv, MailsInv, JobsInv, RowsInv
      <4> QED
        BY <1>5, <1>6, <4>1
    <3> QED
      BY <3>1, <3>2
  <2>4. SuccessIsPersisted'
    BY <1>1, <1>6 DEF IInv, SuccessIsPersisted, MoveTo
  <2> QED
    BY <1>3, <1>5, <1>6, <2>2, <2>3, <2>4 DEF IInv
<1>7. CASE MailLeaves(d) /\ JobThrows(w)
  <2>1. Leaves(w) /\ \A c \in Deliveries : job[c].holder = w => job'[c].state \notin Outcomes
    BY <1>7, ThrowLeaves DEF IInv
  <2>2. JobsInv'
    BY <1>1, <2>1, LeavesKeeps DEF IInv
  <2>3. MailsInv'
    <3> SUFFICES ASSUME NEW v \in Workers, run'[v].pc = "delivered"
                 PROVE  mails'[run'[v].d] = 1
      BY <1>5, <1>7 DEF MailsInv
    <3>1. v # w /\ run'[v] = run[v]
      BY <2>1, NoRunType DEF Leaves, IInv, JobsInv
    <3>2. mails[run[v].d] = 1 /\ run[v].d \in Deliveries
      BY <3>1 DEF IInv, MailsInv, JobsInv, RowsInv
    <3> QED
      BY <1>5, <1>7, <3>1, <3>2
  <2>4. SuccessIsPersisted'
    BY <1>1, <2>1 DEF IInv, SuccessIsPersisted, Leaves
  <2> QED
    BY <1>3, <1>5, <1>7, <2>2, <2>3, <2>4 DEF IInv
<1>8. CASE mails' = mails /\ JobThrows(w)
  BY <1>1, <1>8, ThrowSafe
<1> QED
  BY <1>2, <1>6, <1>7, <1>8 DEF Send

LEMMA PersistSafe ==
  ASSUME IInv, NEW w \in Workers, Persist(w)
  PROVE  IInv' /\ MailingStep
<1>1. PICK o \in Outcomes : o = run[w].pc /\ UNCHANGED <<event, mails>>
  BY DEF Persist
<1>2. run[w].pc # "idle" /\ o \in Results
  BY <1>1 DEF Outcomes, Results
<1>3. PICK d \in Deliveries : d = run[w].d /\ d \in event
  BY <1>2 DEF IInv, JobsInv, RowsInv
<1>4. CASE UNCHANGED delivery /\ (JobThrows(w) \/ JobReturns(w, "ignored"))
  BY <1>1, <1>2, <1>4, ThrowSafe, IgnoreSafe
<1>5. CASE Clear(d, o) /\ (JobReturns(w, o) \/ JobThrows(w))
  <2> DEFINE row == [NoRow EXCEPT !.status = o]
  <2>1. row \in Rows /\ row.status = o /\ o # "absent"
    BY NotificationAssumption DEF NoRow, Rows, Outcomes
  <2>2. delivery' = [delivery EXCEPT ![d] = row] /\ delivery[d].status = "pending"
    BY <1>5 DEF Clear, IsPending
  <2> HIDE DEF row
  <2>3. /\ delivery' \in [Deliveries -> Rows] /\ delivery'[d] = row
        /\ \A c \in Deliveries \ {d} : delivery'[c] = delivery[c]
        /\ Recorded' = [Recorded EXCEPT ![d] = o]
    BY <2>1, <2>2, RowWritten DEF IInv
  <2>4. /\ Leaves(w)
        /\ \A c \in Deliveries : job[c].holder = w =>
             job'[c].state \notin Outcomes \/ (job'[c].state = o /\ c = d)
    <3>1. CASE JobReturns(w, o)
      BY <1>2, <1>3, <3>1, ReturnLeaves DEF IInv
    <3>2. CASE JobThrows(w)
      BY <3>2, ThrowLeaves DEF IInv
    <3> QED
      BY <1>5, <3>1, <3>2
  <2>5. JobsInv'
    BY <1>1, <1>2, <2>4, LeavesKeeps DEF IInv
  <2>6. RowsInv'
    BY <1>1, <2>1, <2>3 DEF IInv, RowsInv
  <2>7. MailsInv'
    BY <1>1, <2>4, NoRunType DEF IInv, MailsInv, JobsInv, Leaves
  <2>8. SuccessIsPersisted'
    <3> SUFFICES ASSUME NEW c \in Deliveries, job'[c].state \in Outcomes
                 PROVE  delivery'[c].status = job'[c].state
      BY DEF SuccessIsPersisted
    <3>1. CASE job[c].holder = w
      BY <2>1, <2>3, <2>4, <3>1
    <3>2. CASE job[c].holder # w
      <4>1. job'[c] = job[c] /\ delivery[c].status = job[c].state
        BY <2>4, <3>2 DEF Leaves, IInv, SuccessIsPersisted
      <4>2. c # d
        BY <2>2, <4>1 DEF Outcomes
      <4> QED
        BY <2>3, <4>1, <4>2
    <3> QED
      BY <3>1, <3>2
  <2>9. MailingStep
    <3>1. Recorded[d] = "pending" /\ (o = "delivered" => mails[d] = 1)
      BY <1>1, <1>3, <2>2 DEF Recorded, IInv, MailsInv
    <3>2. o = "delivered" \/ o = "expired"
      BY DEF Outcomes
    <3> QED
      BY <1>1, <2>3, <3>1, <3>2 DEF MailingStep, M!Next, M!Deliver, M!Expire
  <2> QED
    BY <2>5, <2>6, <2>7, <2>8, <2>9 DEF IInv
<1> QED
  BY <1>1, <1>3, <1>4, <1>5 DEF Persist

LEMMA TickSafe ==
  ASSUME IInv, Tick
  PROVE  IInv' /\ MailingStep
<1>1. UNCHANGED <<event, mails, job, run>>
  BY DEF Tick
<1>2. \A d \in Deliveries : delivery'[d] \in Rows /\ delivery'[d].status = delivery[d].status
  <2> TAKE d \in Deliveries
  <2>1. CASE IsPending(d) /\ delivery[d].left > 0 - MaxLag
    <3> DEFINE row == [delivery[d] EXCEPT !.left = @ - 1]
    <3>1. delivery[d] \in Rows /\ delivery[d].left \in (0 - MaxLag)..Lifetime
      BY DEF IInv, RowsInv, Rows
    <3>2. delivery[d].left - 1 \in (0 - MaxLag)..Lifetime
      BY <2>1, <3>1, NotificationAssumption
    <3>3. row \in Rows /\ row.status = delivery[d].status
      BY <3>1, <3>2 DEF Rows
    <3>4. delivery'[d] = row
      BY <2>1 DEF Tick
    <3> QED
      BY <3>3, <3>4
  <2>2. CASE ~(IsPending(d) /\ delivery[d].left > 0 - MaxLag)
    BY <2>2 DEF Tick, IInv, RowsInv
  <2> QED
    BY <2>1, <2>2
<1>3. delivery' \in [Deliveries -> Rows]
  <2>1. delivery' = [d \in Deliveries |-> delivery'[d]]
    BY DEF Tick
  <2> QED
    BY <1>2, <2>1
<1>4. Recorded' = Recorded
  BY <1>2 DEF Recorded
<1>5. JobsInv' /\ MailsInv'
  BY <1>1 DEF IInv, JobsInv, MailsInv
<1>6. RowsInv' /\ SuccessIsPersisted'
  BY <1>1, <1>2, <1>3 DEF IInv, RowsInv, SuccessIsPersisted
<1>7. MailingStep
  BY <1>1, <1>4 DEF MailingStep, M!vars
<1> QED
  BY <1>5, <1>6, <1>7 DEF IInv

-----------------------------------------------------------------------------
(* Every step of Notification, and of a process that ends                  *)

LEMMA InitSafe == Init => IInv /\ M!Init
<1> SUFFICES ASSUME Init PROVE IInv /\ M!Init
  OBVIOUS
<1>1. NoRow \in Rows /\ NoRow.status = "absent"
  BY NotificationAssumption DEF NoRow, Rows
<1>2. Sound(NoJob) /\ NoJob.state = "none" /\ NoJob.holder = NoWorker
  BY NotificationAssumption DEF NoJob, Sound, Jobs, Unsettled
<1>3. JobsInv
  BY <1>2, NoRunType DEF Init, JobsInv, Sound
<1>4. RowsInv
  BY <1>1 DEF Init, RowsInv
<1>5. MailsInv
  BY NoRunType DEF Init, MailsInv
<1>6. SuccessIsPersisted
  BY <1>2 DEF Init, SuccessIsPersisted, Outcomes
<1>7. M!Init
  BY <1>1 DEF Init, M!Init, Recorded
<1> QED
  BY <1>3, <1>4, <1>5, <1>6, <1>7 DEF IInv

LEMMA StutterSafe ==
  ASSUME IInv, UNCHANGED vars
  PROVE  IInv' /\ MailingStep
<1>1. UNCHANGED <<delivery, event, mails, job, run>>
  BY DEF vars
<1> QED
  BY <1>1 DEF IInv, JobsInv, RowsInv, MailsInv, SuccessIsPersisted, MailingStep, M!vars, Recorded

LEMMA QueueSafe ==
  ASSUME IInv, NEW d \in Deliveries, Outside(d) \/ Stall(d)
  PROVE  IInv' /\ MailingStep
<1>1. CASE InsertDelivery(d)
  BY <1>1, InsertDeliverySafe
<1>2. CASE AppendEvent(d)
  BY <1>2, AppendEventSafe
<1>3. CASE AddJob(d)
  BY <1>3, AddJobSafe
<1>4. CASE Promote(d)
  BY <1>4, PromoteSafe
<1>5. CASE Recover(d) \/ Stall(d)
  BY <1>5, LockLostSafe DEF Recover, Stall
<1> QED
  BY <1>1, <1>2, <1>3, <1>4, <1>5 DEF Outside, Queue

LEMMA ProcessSafe ==
  ASSUME IInv, NEW w \in Workers, Process(w)
  PROVE  IInv' /\ MailingStep
BY FindSafe, SendSafe, PersistSafe DEF Process

LEMMA NextSafe == IInv /\ [Next]_vars => IInv' /\ MailingStep
<1> SUFFICES ASSUME IInv, [Next]_vars PROVE IInv' /\ MailingStep
  OBVIOUS
<1>1. CASE UNCHANGED vars
  BY <1>1, StutterSafe
<1>2. ASSUME NEW d \in Deliveries, Outside(d) \/ Stall(d)
      PROVE  IInv' /\ MailingStep
  BY <1>2, QueueSafe
<1>3. ASSUME NEW d \in Deliveries, NEW w \in Workers, Deliver(w, d)
      PROVE  IInv' /\ MailingStep
  BY <1>3, DeliverSafe
<1>4. ASSUME NEW w \in Workers, Process(w)
      PROVE  IInv' /\ MailingStep
  BY <1>4, ProcessSafe
<1>5. ASSUME NEW w \in Workers, Crash(w)
      PROVE  IInv' /\ MailingStep
  BY <1>5, DieSafe DEF Crash
<1>6. CASE Tick
  BY <1>6, TickSafe
<1> QED
  BY <1>1, <1>2, <1>3, <1>4, <1>5, <1>6 DEF Next, Outside

LEMMA WNextSafe == IInv /\ [WNext]_wvars => IInv' /\ MailingStep
<1> SUFFICES ASSUME IInv, [WNext]_wvars PROVE IInv' /\ MailingStep
  OBVIOUS
<1>1. CASE UNCHANGED wvars
  BY <1>1, StutterSafe DEF wvars, vars
<1>2. ASSUME NEW d \in Deliveries, Outside(d)
      PROVE  IInv' /\ MailingStep
  BY <1>2, QueueSafe
<1>3. ASSUME NEW d \in Deliveries, NEW w \in Workers, Take(w, d) \/ LosesLock(w, d)
      PROVE  IInv' /\ MailingStep
  BY <1>3, DeliverSafe, QueueSafe DEF Take, LosesLock
<1>4. ASSUME NEW w \in Workers, Work(w)
      PROVE  IInv' /\ MailingStep
  BY <1>4, ProcessSafe DEF Work
<1>5. ASSUME NEW w \in Workers, Exit(w) \/ Unreported(w) \/ Killed(w)
      PROVE  IInv' /\ MailingStep
  BY <1>5, DieSafe DEF Exit, Unreported, Killed, Crash
<1>6. ASSUME NEW w \in Workers, Starting(w) \/ StartFails(w) \/ Signal(w) \/ Close(w)
      PROVE  IInv' /\ MailingStep
  <2>1. UNCHANGED vars
    BY <1>6 DEF Starting, Ping, QueuesReady, ConsumersReady, Listen, StartFails, Signal,
                Close, Set
  <2> QED
    BY <2>1, StutterSafe
<1>7. CASE Tick
  BY <1>7, TickSafe
<1> QED
  BY <1>1, <1>2, <1>3, <1>4, <1>5, <1>6, <1>7 DEF WNext

LEMMA IInvTypes == IInv => TypeOK
<1> SUFFICES ASSUME IInv PROVE TypeOK
  OBVIOUS
<1>1. mails \in [Deliveries -> Nat]
  BY DEF IInv, MailsInv
<1>2. \A d \in Deliveries : job[d].holder # NoWorker => job[d].state = "active"
  BY DEF IInv, JobsInv, Sound
<1> QED
  BY <1>1, <1>2 DEF IInv, JobsInv, RowsInv, TypeOK

-----------------------------------------------------------------------------
(* The process around the jobs                                             *)

\* Once start() has assigned its handles, a shutdown passes the consumers before
\* the pool, and waits there for the job under way.
Orderly(w) ==
  LET p == proc[w]
  IN  /\ p.start \in {"listen", "ready"} => "consumers" \in p.known
      /\ p.stop # NotStopping /\ ~p.early =>
           "consumers" \in p.known /\ p.start \notin {"ping", "queues", "consumers"}
      /\ p.stop <= 5 => "database" \in p.open
      /\ p.stop > 3 /\ ~p.early => "consumers" \notin p.open /\ run[w].pc = "idle"

ProcsInv ==
  /\ proc \in [Workers -> Procs]
  /\ upsets \in 0..MaxUpsets
  /\ \A w \in Workers : Orderly(w)

WInv == IInv /\ ProcsInv

LEMMA Order ==
  /\ DOMAIN CloseOrder = 1..6 /\ Done = 7
  /\ CloseOrder[1] = "publisher" /\ CloseOrder[2] = "queues" /\ CloseOrder[3] = "consumers"
  /\ CloseOrder[4] = "server" /\ CloseOrder[5] = "database" /\ CloseOrder[6] = "redis"
BY DEF CloseOrder, Done

LEMMA OrderComponents ==
  Components = {"publisher", "queues", "consumers", "server", "database", "redis"}
<1>1. \A i \in 1..6 : i = 1 \/ i = 2 \/ i = 3 \/ i = 4 \/ i = 5 \/ i = 6
  OBVIOUS
<1> QED
  BY <1>1, Order DEF Components

LEMMA FreshType ==
  /\ Fresh \in Procs /\ Fresh.start = "ping" /\ Fresh.stop = 0
  /\ "database" \in Fresh.open
BY Order, OrderComponents DEF Fresh, Procs, Connections, NotStopping

LEMMA ProcFields ==
  ASSUME NEW p \in Procs
  PROVE  /\ p.start \in {"ping", "queues", "consumers", "listen", "ready", "failed", "thrown"}
         /\ p.stop \in 0..7 /\ p.early \in BOOLEAN
         /\ p.open \subseteq Components /\ p.known \subseteq Components
BY Order DEF Procs, NotStopping

\* The step of one process, the runs of the others being left alone.
LEMMA ProcWritten ==
  ASSUME ProcsInv, NEW w \in Workers, NEW p \in Procs, proc' = [proc EXCEPT ![w] = p],
         upsets' \in 0..MaxUpsets, \A v \in Workers \ {w} : run'[v] = run[v],
         p.start \in {"listen", "ready"} => "consumers" \in p.known,
         p.stop # 0 /\ ~p.early =>
           "consumers" \in p.known /\ p.start \notin {"ping", "queues", "consumers"},
         p.stop <= 5 => "database" \in p.open,
         p.stop > 3 /\ ~p.early => "consumers" \notin p.open /\ run'[w].pc = "idle"
  PROVE  ProcsInv'
<1>1. /\ proc' \in [Workers -> Procs] /\ proc'[w] = p
      /\ \A v \in Workers \ {w} : proc'[v] = proc[v]
  BY DEF ProcsInv
<1>2. Orderly(w)'
  BY <1>1 DEF Orderly, NotStopping
<1>3. \A v \in Workers \ {w} : Orderly(v)'
  BY <1>1 DEF ProcsInv, Orderly
<1> QED
  BY <1>1, <1>2, <1>3 DEF ProcsInv

\* A job goes on inside a process that is not quiet.
LEMMA ProcStays ==
  ASSUME ProcsInv, UNCHANGED <<proc, upsets>>,
         \A v \in Workers : run'[v].pc = "idle" \/ run'[v] = run[v] \/ run[v].pc # "idle"
                            \/ "consumers" \in proc[v].open
  PROVE  ProcsInv'
BY DEF ProcsInv, Orderly

LEMMA PingSafe ==
  ASSUME ProcsInv, NEW w \in Workers, Ping(w) \/ QueuesReady(w) \/ ConsumersReady(w)
  PROVE  ProcsInv'
<1>1. PICK p \in Procs : p = proc[w]
  BY DEF ProcsInv
<1>2. UNCHANGED upsets /\ UNCHANGED run
  BY DEF Ping, QueuesReady, ConsumersReady, Set, vars
<1>3. Orderly(w)
  BY DEF ProcsInv
<1>4. CASE Ping(w)
  <2> DEFINE new == [p EXCEPT !.start = "queues",
                              !.open = @ \cup {"queues"}, !.known = @ \cup {"queues"}]
  <2>1. p.open \cup {"queues"} \subseteq Components /\ p.known \cup {"queues"} \subseteq Components
    BY OrderComponents, ProcFields
  <2>2. /\ new \in Procs /\ new.start = "queues" /\ new.stop = p.stop /\ new.early = p.early
        /\ new.open = p.open \cup {"queues"} /\ new.known = p.known \cup {"queues"}
    BY <2>1 DEF Procs
  <2>3. proc' = [proc EXCEPT ![w] = new] /\ p.start = "ping"
    BY <1>1, <1>4 DEF Ping, Set
  <2> HIDE DEF new
  <2>4. p.stop = 0 \/ p.early
    BY <1>1, <1>3, <2>3 DEF Orderly, NotStopping
  <2> QED
    BY <1>1, <1>2, <1>3, <2>2, <2>3, <2>4, ProcFields, ProcWritten DEF ProcsInv, Orderly
<1>5. CASE QueuesReady(w)
  <2> DEFINE new == [p EXCEPT !.start = "consumers", !.open = @ \cup {"consumers"}]
  <2>1. p.open \cup {"consumers"} \subseteq Components
    BY OrderComponents, ProcFields
  <2>2. /\ new \in Procs /\ new.start = "consumers" /\ new.stop = p.stop /\ new.early = p.early
        /\ new.open = p.open \cup {"consumers"} /\ new.known = p.known
    BY <2>1 DEF Procs
  <2>3. proc' = [proc EXCEPT ![w] = new] /\ p.start = "queues"
    BY <1>1, <1>5 DEF QueuesReady, Set
  <2> HIDE DEF new
  <2>4. p.stop = 0 \/ p.early
    BY <1>1, <1>3, <2>3 DEF Orderly, NotStopping
  <2> QED
    BY <1>1, <1>2, <1>3, <2>2, <2>3, <2>4, ProcFields, ProcWritten DEF ProcsInv, Orderly
<1>6. CASE ConsumersReady(w)
  <2> DEFINE new == [p EXCEPT !.start = "listen",
                              !.open = @ \cup {"publisher"},
                              !.known = @ \cup {"consumers", "publisher"}]
  <2>1. /\ p.open \cup {"publisher"} \subseteq Components
        /\ p.known \cup {"consumers", "publisher"} \subseteq Components
    BY OrderComponents, ProcFields
  <2>2. /\ new \in Procs /\ new.start = "listen" /\ new.stop = p.stop /\ new.early = p.early
        /\ new.open = p.open \cup {"publisher"}
        /\ new.known = p.known \cup {"consumers", "publisher"}
    BY <2>1 DEF Procs
  <2>3. proc' = [proc EXCEPT ![w] = new] /\ p.start = "consumers"
    BY <1>1, <1>6 DEF ConsumersReady, Set
  <2> HIDE DEF new
  <2>4. p.stop = 0 \/ p.early
    BY <1>1, <1>3, <2>3 DEF Orderly, NotStopping
  <2> QED
    BY <1>1, <1>2, <1>3, <2>2, <2>3, <2>4, ProcFields, ProcWritten DEF ProcsInv, Orderly
<1> QED
  BY <1>4, <1>5, <1>6

LEMMA ListenSafe ==
  ASSUME ProcsInv, NEW w \in Workers, Listen(w)
  PROVE  ProcsInv'
<1>1. PICK p \in Procs : p = proc[w]
  BY DEF ProcsInv
<1> DEFINE new == [p EXCEPT !.start = "ready"]
<1>2. /\ new \in Procs /\ new.start = "ready" /\ new.stop = p.stop /\ new.early = p.early
      /\ new.open = p.open /\ new.known = p.known
  BY DEF Procs
<1>3. proc' = [proc EXCEPT ![w] = new] /\ p.start = "listen" /\ UNCHANGED <<run, upsets>>
  BY <1>1 DEF Listen, Set, vars
<1> HIDE DEF new
<1>4. Orderly(w)
  BY DEF ProcsInv
<1> QED
  BY <1>1, <1>2, <1>3, <1>4, ProcFields, ProcWritten DEF ProcsInv, Orderly, NotStopping

LEMMA CountType ==
  ASSUME ProcsInv, NEW w, CountUpset(w)
  PROVE  upsets' \in 0..MaxUpsets
BY WorkerAssumption DEF ProcsInv, CountUpset

LEMMA BeginSafe ==
  ASSUME ProcsInv, NEW w \in Workers, proc[w].stop = 0, CountUpset(w), UNCHANGED run,
         NEW start \in {proc[w].start, "failed"},
         proc' = [proc EXCEPT ![w] = [Begin(proc[w]) EXCEPT !.start = start]]
  PROVE  ProcsInv'
<1>1. PICK p \in Procs : p = proc[w]
  BY DEF ProcsInv
<1>2. PICK e \in BOOLEAN : e = (p.start \notin {"listen", "ready"})
  OBVIOUS
<1> DEFINE new == [[p EXCEPT !.stop = 1, !.early = e] EXCEPT !.start = start]
<1>3. proc' = [proc EXCEPT ![w] = new]
  BY <1>1, <1>2 DEF Begin
<1>4. /\ new \in Procs /\ new.start = start /\ new.stop = 1 /\ new.early = e
      /\ new.open = p.open /\ new.known = p.known
  <2>1. start \in {"ping", "queues", "consumers", "listen", "ready", "failed", "thrown"}
    BY <1>1, ProcFields
  <2>2. 1 \in NotStopping..Done
    BY Order DEF NotStopping
  <2> QED
    BY <2>1, <2>2 DEF Procs
<1> HIDE DEF new
<1>5. ~e => start \notin {"ping", "queues", "consumers"}
            /\ p.start \in {"listen", "ready"}
  BY <1>1, <1>2
<1>6. start \in {"listen", "ready"} => p.start = start
  BY <1>1
<1>7. /\ p.start \in {"listen", "ready"} => "consumers" \in p.known
      /\ "database" \in p.open
  BY <1>1 DEF ProcsInv, Orderly
<1>8. upsets' \in 0..MaxUpsets
  BY CountType
<1>9. /\ new.start \in {"listen", "ready"} => "consumers" \in new.known
      /\ new.stop # 0 /\ ~new.early =>
           "consumers" \in new.known /\ new.start \notin {"ping", "queues", "consumers"}
      /\ new.stop <= 5 => "database" \in new.open
      /\ ~(new.stop > 3)
  BY <1>4, <1>5, <1>6, <1>7
<1>10. new \in Procs /\ \A v \in Workers \ {w} : run'[v] = run[v]
  BY <1>4
<1> QED
  BY <1>3, <1>8, <1>9, <1>10, ProcWritten

LEMMA StopSafe ==
  ASSUME ProcsInv, NEW w \in Workers, StartFails(w) \/ Signal(w)
  PROVE  ProcsInv'
<1>1. PICK p \in Procs : p = proc[w]
  BY DEF ProcsInv
<1>2. UNCHANGED run
  BY DEF StartFails, Signal, vars
<1>3. CASE Signal(w)
  <2>1. [Begin(proc[w]) EXCEPT !.start = proc[w].start] = Begin(proc[w])
    <3>1. p.start = Begin(p).start
      BY DEF Begin, Procs
    <3>2. Begin(p) = [Begin(p) EXCEPT !.start = Begin(p).start]
      BY Zenon DEF Begin, Procs
    <3> QED
      BY <1>1, <3>1, <3>2
  <2> QED
    BY <1>2, <1>3, <2>1, BeginSafe DEF Signal, NotStopping
<1>4. CASE proc[w].stop = NotStopping /\ StartFails(w)
  BY <1>2, <1>4, BeginSafe DEF StartFails, NotStopping
<1>5. CASE proc[w].stop # NotStopping /\ StartFails(w)
  <2> DEFINE new == [p EXCEPT !.start = "thrown"]
  <2>1. /\ new \in Procs /\ new.start = "thrown" /\ new.stop = p.stop /\ new.early = p.early
        /\ new.open = p.open /\ new.known = p.known
    BY DEF Procs
  <2>2. proc' = [proc EXCEPT ![w] = new] /\ UNCHANGED upsets
    BY <1>1, <1>5 DEF StartFails
  <2> HIDE DEF new
  <2>3. Orderly(w)
    BY DEF ProcsInv
  <2> QED
    BY <1>1, <1>2, <2>1, <2>2, <2>3, ProcWritten DEF ProcsInv, Orderly, NotStopping
<1> QED
  BY <1>3, <1>4, <1>5

LEMMA CloseSafe ==
  ASSUME ProcsInv, NEW w \in Workers, Close(w)
  PROVE  ProcsInv'
<1>1. PICK p \in Procs : p = proc[w]
  BY DEF ProcsInv
<1>2. p.stop \in 1..6 /\ UNCHANGED <<run, upsets>>
  BY <1>1, Order DEF Close, Set, vars
<1>3. PICK c : c = CloseOrder[p.stop]
  OBVIOUS
<1>4. /\ p.stop = 5 <=> c = "database"
      /\ p.stop = 3 <=> c = "consumers"
  <2>1. \/ p.stop = 1 \/ p.stop = 2 \/ p.stop = 3 \/ p.stop = 4 \/ p.stop = 5 \/ p.stop = 6
    BY <1>2
  <2> QED
    BY <1>3, <2>1, Order
<1>5. Orderly(w)
  BY DEF ProcsInv
<1>6. PICK open \in SUBSET Components :
        /\ proc' = [proc EXCEPT ![w] = [p EXCEPT !.stop = @ + 1, !.open = open]]
        /\ \/ open = p.open \ {c} /\ Quiescent(w, c) /\ c \in p.known
           \/ open = p.open /\ c \notin p.known
  <2>1. p.open \ {c} \subseteq Components /\ p.open \subseteq Components
    BY ProcFields
  <2>2. CASE /\ c \in p.known /\ Quiescent(w, c)
             /\ Set(w, [p EXCEPT !.stop = @ + 1, !.open = @ \ {c}])
    BY <2>1, <2>2 DEF Set
  <2>3. CASE c \notin p.known /\ Set(w, [p EXCEPT !.stop = @ + 1])
    <3>1. [p EXCEPT !.stop = @ + 1] = [p EXCEPT !.stop = @ + 1, !.open = p.open]
      BY DEF Procs
    <3> QED
      BY <2>1, <2>3, <3>1 DEF Set
  <2> QED
    BY <1>1, <1>3, <2>2, <2>3 DEF Close
<1> DEFINE new == [p EXCEPT !.stop = @ + 1, !.open = open]
<1>7. p.stop + 1 \in NotStopping..Done
  BY <1>2, Order DEF NotStopping
<1>8. /\ new \in Procs /\ new.start = p.start /\ new.stop = p.stop + 1
      /\ new.early = p.early /\ new.open = open /\ new.known = p.known
  BY <1>7 DEF Procs
<1>9. proc' = [proc EXCEPT ![w] = new]
  BY <1>6
<1> HIDE DEF new
<1>10. p.stop + 1 <= 5 => "database" \in open
  BY <1>1, <1>2, <1>4, <1>5, <1>6 DEF Orderly
<1>11. ~p.early => /\ "consumers" \in p.known
                   /\ p.start \notin {"ping", "queues", "consumers"}
  BY <1>1, <1>2, <1>5 DEF Orderly, NotStopping
<1>12. p.stop + 1 > 3 /\ ~p.early => "consumers" \notin open /\ run'[w].pc = "idle"
  <2> SUFFICES ASSUME p.stop + 1 > 3, ~p.early
               PROVE  "consumers" \notin open /\ run[w].pc = "idle"
    BY <1>2
  <2>1. CASE p.stop = 3
    BY <1>4, <1>6, <1>11, <2>1 DEF Quiescent
  <2>2. CASE p.stop > 3
    BY <1>1, <1>5, <1>6, <2>2 DEF Orderly
  <2> QED
    BY <1>2, <2>1, <2>2
<1>13. p.start \in {"listen", "ready"} => "consumers" \in p.known
  BY <1>1, <1>5 DEF Orderly
<1>14. /\ new.start \in {"listen", "ready"} => "consumers" \in new.known
       /\ new.stop # 0 /\ ~new.early =>
            "consumers" \in new.known /\ new.start \notin {"ping", "queues", "consumers"}
       /\ new.stop <= 5 => "database" \in new.open
       /\ new.stop > 3 /\ ~new.early => "consumers" \notin new.open /\ run'[w].pc = "idle"
  BY <1>8, <1>10, <1>11, <1>12, <1>13
<1>15. new \in Procs /\ upsets' \in 0..MaxUpsets /\ \A v \in Workers \ {w} : run'[v] = run[v]
  BY <1>2, <1>8 DEF ProcsInv
<1> QED
  BY <1>9, <1>14, <1>15, ProcWritten

\* A process that begins anew runs nothing.
LEMMA RestartSafe ==
  ASSUME IInv, ProcsInv, NEW w \in Workers, Die(w), proc' = [proc EXCEPT ![w] = Fresh],
         upsets' \in 0..MaxUpsets
  PROVE  ProcsInv'
<1>1. \A v \in Workers \ {w} : run'[v] = run[v]
  BY NoRunType DEF Die, IInv, JobsInv
<1>2. /\ ~(Fresh.start \in {"listen", "ready"}) /\ ~(Fresh.stop # 0)
      /\ "database" \in Fresh.open /\ ~(Fresh.stop > 3)
  BY FreshType
<1> QED
  BY <1>1, <1>2, FreshType, ProcWritten

LEMMA ProcsKept == WInv /\ [WNext]_wvars => ProcsInv'
<1> SUFFICES ASSUME IInv, ProcsInv, [WNext]_wvars PROVE ProcsInv'
  BY DEF WInv
<1>1. CASE UNCHANGED wvars
  BY <1>1 DEF wvars, ProcsInv, Orderly
<1>2. ASSUME NEW d \in Deliveries, Outside(d) /\ UNCHANGED <<proc, upsets>>
      PROVE  ProcsInv'
  <2>1. UNCHANGED run
    BY <1>2 DEF Outside, InsertDelivery, AppendEvent, Queue, AddJob, Promote, Recover
  <2> QED
    BY <1>2, <2>1, ProcStays
<1>3. ASSUME NEW d \in Deliveries, NEW w \in Workers, Take(w, d)
      PROVE  ProcsInv'
  <2>1. \A v \in Workers \ {w} : run'[v] = run[v]
    BY <1>3 DEF Take, Deliver, IInv, JobsInv
  <2>2. "consumers" \in proc[w].open /\ UNCHANGED <<proc, upsets>>
    BY <1>3 DEF Take, IsOpen
  <2> QED
    BY <2>1, <2>2, ProcStays
<1>4. ASSUME NEW w \in Workers, Work(w)
      PROVE  ProcsInv'
  <2>1. run[w].pc # "idle" /\ UNCHANGED <<proc, upsets>>
    BY <1>4 DEF Work, Process, Find, Send, Persist, Outcomes
  <2>2. \A v \in Workers \ {w} : run'[v] = run[v]
    BY <1>4, NoRunType DEF Work, Process, Find, Send, Persist, JobReturns, JobThrows, MoveTo,
                           IInv, JobsInv
  <2> QED
    BY <2>1, <2>2, ProcStays
<1>5. ASSUME NEW w \in Workers, Unreported(w)
      PROVE  ProcsInv'
  <2>1. \A v \in Workers \ {w} : run'[v] = run[v]
    BY <1>5, NoRunType DEF Unreported, Die, IInv, JobsInv
  <2> QED
    BY <1>5, <2>1, ProcStays DEF Unreported
<1>6. ASSUME NEW w \in Workers, Exit(w)
      PROVE  ProcsInv'
  BY <1>6, RestartSafe DEF Exit, ProcsInv
<1>7. ASSUME NEW w \in Workers, Killed(w)
      PROVE  ProcsInv'
  BY <1>7, CountType, RestartSafe DEF Killed, Crash
<1>8. ASSUME NEW w \in Workers, Starting(w) \/ StartFails(w) \/ Signal(w) \/ Close(w)
      PROVE  ProcsInv'
  BY <1>8, PingSafe, ListenSafe, StopSafe, CloseSafe DEF Starting
<1>9. CASE Tick /\ UNCHANGED <<proc, upsets>>
  BY <1>9, ProcStays DEF Tick
<1>10. ASSUME NEW d \in Deliveries, NEW w \in Workers, LosesLock(w, d)
      PROVE  ProcsInv'
  <2>1. UNCHANGED <<proc, run>> /\ upsets' \in 0..MaxUpsets
    BY <1>10, CountType DEF LosesLock, Stall
  <2> QED
    BY <2>1 DEF ProcsInv, Orderly
<1> QED
  BY <1>1, <1>2, <1>3, <1>4, <1>5, <1>6, <1>7, <1>8, <1>9, <1>10 DEF WNext

LEMMA WInitSafe == WInit => WInv
<1> SUFFICES ASSUME WInit PROVE IInv /\ ProcsInv
  BY DEF WInv
<1>1. IInv
  BY InitSafe DEF WInit
<1>2. proc \in [Workers -> Procs] /\ \A w \in Workers : proc[w] = Fresh
  BY FreshType DEF WInit
<1>3. \A w \in Workers : Orderly(w)
  BY <1>2, FreshType DEF Orderly, NotStopping
<1>4. upsets \in 0..MaxUpsets
  BY WorkerAssumption DEF WInit
<1> QED
  BY <1>1, <1>2, <1>3, <1>4 DEF ProcsInv

LEMMA Invariant == WSpec => []WInv
<1>1. WInit => WInv
  BY WInitSafe
<1>2. WInv /\ [WNext]_wvars => WInv'
  BY WNextSafe, ProcsKept DEF WInv
<1> QED
  BY <1>1, <1>2, PTL DEF WSpec

-----------------------------------------------------------------------------
(* Theorems                                                                *)

\* The types, the only lock of a job and the state of the processes, whatever
\* fails, stalls, stops or dies.
THEOREM TypeCorrect == WSpec => []WTypeOK
<1>1. WInv => WTypeOK
  BY IInvTypes DEF WInv, ProcsInv, WTypeOK
<1> QED
  BY <1>1, Invariant, PTL

\* A job of the notification queue reports an outcome only when it is on record.
THEOREM Reported == WSpec => []SuccessIsPersisted
<1>1. WInv => SuccessIsPersisted
  BY DEF WInv, IInv
<1> QED
  BY <1>1, Invariant, PTL

\* A shutdown of a process that is up closes the pool under no job.
THEOREM Quiet == WSpec => []ClosesQuietly
<1>1. WInv => ClosesQuietly
  <2> SUFFICES ASSUME WInv, NEW w \in Workers,
                      proc[w].stop # NotStopping, ~proc[w].early, ~IsOpen(w, "database")
               PROVE  run[w].pc = "idle"
    BY DEF ClosesQuietly
  <2>1. Orderly(w) /\ proc[w] \in Procs
    BY DEF WInv, ProcsInv
  <2>2. proc[w].stop \in 0..7
    BY <2>1, ProcFields
  <2>3. ~(proc[w].stop <= 5)
    BY <2>1 DEF Orderly, IsOpen
  <2> QED
    BY <2>1, <2>2, <2>3 DEF Orderly
<1> QED
  BY <1>1, Invariant, PTL

\* Of each message at most one mail leaves, and its outcome is recorded once, also
\* with processes that start and stop around the jobs.
THEOREM Refinement == WSpec => ImplementsMailing
<1>1. WInit => M!Init
  BY InitSafe DEF WInit
<1>2. WInv /\ [WNext]_wvars => [M!Next]_(M!vars)
  BY WNextSafe DEF WInv, MailingStep
<1> QED
  BY <1>1, <1>2, Invariant, PTL DEF WSpec, ImplementsMailing, M!Spec

\* The same of the queue by itself.
THEOREM QueueRefinement == Spec => ImplementsMailing
<1>1. Init => IInv /\ M!Init
  BY InitSafe
<1>2. IInv /\ [Next]_vars => IInv' /\ [M!Next]_(M!vars)
  BY NextSafe DEF MailingStep
<1> QED
  BY <1>1, <1>2, PTL DEF Spec, ImplementsMailing, M!Spec

-----------------------------------------------------------------------------
(* What is on record stays there                                           *)

LEMMA RecordKept ==
  ASSUME IInv, MailingStep
  PROVE  \A d \in Deliveries : delivery[d].status \in Outcomes =>
           delivery'[d].status = delivery[d].status
<1> SUFFICES ASSUME NEW d \in Deliveries, delivery[d].status \in Outcomes
             PROVE  delivery'[d].status = delivery[d].status
  OBVIOUS
<1>1. /\ Recorded[d] = delivery[d].status /\ Recorded'[d] = delivery'[d].status
      /\ Recorded \in [Deliveries -> {delivery[c].status : c \in Deliveries}]
  BY DEF Recorded
<1>2. Recorded[d] \notin {"absent", "pending"}
  BY <1>1 DEF Outcomes
<1>3. Recorded'[d] = Recorded[d]
  BY <1>1, <1>2 DEF MailingStep, M!Next, M!vars, M!Request, M!Mail, M!Deliver, M!Expire
<1> QED
  BY <1>1, <1>3

LEMMA MailedKept ==
  ASSUME IInv, IInv', DeliveredIsMailed, MailingStep
  PROVE  DeliveredIsMailed'
<1> SUFFICES ASSUME NEW d \in Deliveries
             PROVE  /\ mails'[d] <= 1
                    /\ delivery'[d].status = "delivered" => mails'[d] = 1
  BY DEF DeliveredIsMailed
<1>1. mails'[d] \in {0, 1} /\ mails \in [Deliveries -> {0, 1}]
  BY DEF IInv, MailsInv
<1>2. /\ Recorded[d] = delivery[d].status /\ Recorded'[d] = delivery'[d].status
      /\ Recorded \in [Deliveries -> {delivery[c].status : c \in Deliveries}]
  BY DEF Recorded
<1>3. Recorded[d] = "delivered" => mails[d] = 1
  BY <1>2 DEF DeliveredIsMailed
<1>4. Recorded'[d] = "delivered" => mails'[d] = 1
  BY <1>1, <1>2, <1>3 DEF MailingStep, M!Next, M!vars, M!Request, M!Mail, M!Deliver, M!Expire
<1> QED
  BY <1>1, <1>2, <1>4

\* Of each row at most one mail leaves, however many attempts, workers and lost
\* replies its job sees, and no row says delivered whose mail did not leave.
THEOREM Mailed == WSpec => []DeliveredIsMailed
<1>1. WInit => DeliveredIsMailed
  <2>1. NoRow.status = "absent"
    BY DEF NoRow
  <2> SUFFICES ASSUME WInit, NEW d \in Deliveries
               PROVE  mails[d] <= 1 /\ delivery[d].status # "delivered"
    BY DEF DeliveredIsMailed
  <2>2. mails[d] = 0 /\ delivery[d] = NoRow
    BY DEF WInit, Init
  <2>3. mails[d] \in Nat /\ mails[d] <= 1
    BY <2>2
  <2> QED
    BY <2>1, <2>2, <2>3
<1>2. WInv /\ WInv' /\ DeliveredIsMailed /\ [WNext]_wvars => DeliveredIsMailed'
  BY WNextSafe, MailedKept DEF WInv
<1> QED
  BY <1>1, <1>2, Invariant, PTL DEF WSpec

\* The outcome of a row is decided once: no retry, no overlapping delivery and no
\* restart of a process changes it.
THEOREM OutcomeIsFinal == WSpec => DecidedIsFinal
<1> DEFINE A == \A d \in Deliveries : delivery[d].status \in Outcomes =>
       delivery'[d].status = delivery[d].status
<1>1. WInv /\ [WNext]_wvars => [A]_wvars
  BY WNextSafe, RecordKept DEF WInv
<1> HIDE DEF A
<1> QED
  BY <1>1, Invariant, PTL DEF WSpec, DecidedIsFinal, A

-----------------------------------------------------------------------------
(* Clocks that agree                                                       *)

\* A step settles a job only together with, or after, its row.
SettlesDecided ==
  \A d \in Deliveries : job'[d].state \in Results =>
    job'[d].state = job[d].state \/ delivery'[d].status \in Outcomes

LEMMA ThrowSettlesNone ==
  ASSUME IInv, NEW w \in Workers, JobThrows(w)
  PROVE  SettlesDecided
<1> SUFFICES ASSUME NEW d \in Deliveries, job[d].holder = w
             PROVE  job'[d].state \notin Results
  BY DEF SettlesDecided, JobThrows
<1>1. Sound(job[d]) /\ job[d].state = "active"
  BY NotificationAssumption DEF IInv, JobsInv, Sound
<1>2. job'[d] = AfterFailure(job[d])
  BY DEF JobThrows
<1> QED
  BY <1>1, <1>2, AfterFailureSound DEF Results, Outcomes

LEMMA ReturnSettlesDecided ==
  ASSUME IInv, NEW w \in Workers, NEW result \in Results, JobReturns(w, result),
         \A d \in Deliveries : d = run[w].d => delivery'[d].status \in Outcomes
  PROVE  SettlesDecided
<1>1. \A d \in Deliveries : job[d].holder = w => d = run[w].d
  BY ReturnLeaves DEF IInv
<1> QED
  BY <1>1 DEF SettlesDecided, JobReturns

LEMMA DieSettlesNone ==
  ASSUME IInv, NEW w \in Workers, Die(w)
  PROVE  SettlesDecided
<1> SUFFICES ASSUME NEW d \in Deliveries
             PROVE  job'[d].state = job[d].state
  BY DEF SettlesDecided
<1>1. job[d] \in Jobs
  BY DEF IInv, JobsInv
<1>2. [job[d] EXCEPT !.holder = NoWorker].state = job[d].state
  BY <1>1 DEF Jobs
<1> QED
  BY <1>2 DEF Die

\* The queue never makes a result of a job by itself.
LEMMA QueueSettlesNone ==
  ASSUME IInv, NEW d \in Deliveries,
         \/ AddJob(d) \/ Promote(d) \/ Recover(d) \/ Stall(d)
         \/ \E w \in Workers : Deliver(w, d)
  PROVE  SettlesDecided
<1>1. job[d] \in Jobs /\ job \in [Deliveries -> Jobs]
  BY DEF IInv, JobsInv
<1>2. \A c \in Deliveries \ {d} : job'[c] = job[c]
  BY <1>1 DEF AddJob, Promote, Recover, Stall, LockLost, Deliver
<1>3. job'[d].state \in {"waiting", "failed", "active"}
  <2>1. "failed" \in Settled /\ SettledJob("failed").state = "failed"
    BY SettledSound DEF Settled
  <2>2. CASE AddJob(d) \/ Promote(d)
    BY <1>1, <2>2 DEF AddJob, Promote, Jobs
  <2>3. CASE Recover(d) \/ Stall(d)
    BY <1>1, <2>1, <2>3 DEF Recover, Stall, LockLost, Jobs
  <2>4. ASSUME NEW w \in Workers, Deliver(w, d)
        PROVE  job'[d].state = "active"
    BY <1>1, <2>4 DEF Deliver, Jobs
  <2> QED
    BY <2>2, <2>3, <2>4
<1> QED
  BY <1>2, <1>3 DEF SettlesDecided, Results, Outcomes

LEMMA ProcessSettlesDecided ==
  ASSUME MaxLag = 0, IInv, NEW w \in Workers, Process(w)
  PROVE  SettlesDecided
<1>1. run[w].pc # "idle"
  BY DEF Process, Find, Send, Persist, Outcomes
<1>2. PICK d \in Deliveries : d = run[w].d /\ delivery[d].status # "absent"
  BY <1>1 DEF IInv, JobsInv, RowsInv, Runs
<1>3. /\ delivery[d].status \in {"pending"} \cup Outcomes
      /\ delivery \in [Deliveries -> Rows]
  BY <1>2 DEF IInv, RowsInv, Rows
<1>4. "ignored" \in Results /\ Outcomes \subseteq Results
  BY DEF Results
<1>5. ASSUME UNCHANGED job
      PROVE  SettlesDecided
  BY <1>5 DEF SettlesDecided
<1>6. CASE Find(w)
  <2>1. UNCHANGED delivery
    BY <1>6 DEF Find
  <2>2. \/ ~IsPending(d) /\ JobReturns(w, "ignored")
        \/ UNCHANGED job \/ JobThrows(w)
    <3>1. PICK lag \in 0..MaxLag :
            \/ ~IsPending(d) /\ JobReturns(w, "ignored")
            \/ IsPending(d) /\ LooksExpired(d, lag) /\ MoveTo(w, "expired")
            \/ /\ IsPending(d) /\ ~LooksExpired(d, lag) /\ LooksEarly(d, lag)
               /\ JobReturns(w, "ignored")
            \/ /\ IsPending(d) /\ ~LooksExpired(d, lag) /\ ~LooksEarly(d, lag)
               /\ MoveTo(w, "send") \/ ("key" \in Faults /\ JobThrows(w))
            \/ "db" \in Faults /\ JobThrows(w)
      BY <1>2, <1>6 DEF Find
    <3>2. delivery[d].left \in (0 - MaxLag)..Lifetime /\ lag = 0
      BY <1>3, <3>1 DEF Rows
    <3>3. ~LooksEarly(d, lag)
      BY <3>2, NotificationAssumption DEF LooksEarly
    <3> QED
      BY <3>1, <3>3 DEF MoveTo
  <2> QED
    BY <1>2, <1>3, <1>4, <1>5, <2>1, <2>2, ThrowSettlesNone, ReturnSettlesDecided DEF IsPending
<1>7. CASE Send(w)
  BY <1>5, <1>7, ThrowSettlesNone DEF Send, MoveTo
<1>8. CASE Persist(w)
  <2>1. PICK o \in Outcomes : o = run[w].pc
    BY <1>8 DEF Persist
  <2>2. CASE JobThrows(w)
    BY <2>2, ThrowSettlesNone
  <2>3. CASE Clear(d, o) /\ JobReturns(w, o)
    <3> DEFINE row == [NoRow EXCEPT !.status = o]
    <3>1. delivery' = [delivery EXCEPT ![d] = row] /\ row.status = o
      BY <2>3 DEF Clear, NoRow
    <3> HIDE DEF row
    <3>2. delivery'[d].status = o
      BY <1>3, <3>1
    <3> QED
      BY <1>2, <1>4, <2>3, <3>2, ReturnSettlesDecided
  <2>4. CASE delivery[d].status = o /\ JobReturns(w, "ignored") /\ UNCHANGED delivery
    BY <1>2, <1>4, <2>4, ReturnSettlesDecided
  <2> QED
    BY <1>2, <1>8, <2>1, <2>2, <2>3, <2>4 DEF Persist
<1> QED
  BY <1>6, <1>7, <1>8 DEF Process

LEMMA StepSettlesDecided ==
  ASSUME MaxLag = 0, IInv, [WNext]_wvars
  PROVE  SettlesDecided
<1>1. ASSUME UNCHANGED job
      PROVE  SettlesDecided
  BY <1>1 DEF SettlesDecided
<1>2. CASE UNCHANGED wvars
  BY <1>1, <1>2 DEF wvars
<1>3. ASSUME NEW d \in Deliveries, Outside(d)
      PROVE  SettlesDecided
  BY <1>1, <1>3, QueueSettlesNone DEF Outside, Queue, InsertDelivery, AppendEvent
<1>4. ASSUME NEW d \in Deliveries, NEW w \in Workers, Take(w, d) \/ LosesLock(w, d)
      PROVE  SettlesDecided
  BY <1>4, QueueSettlesNone DEF Take, LosesLock
<1>5. ASSUME NEW w \in Workers, Work(w)
      PROVE  SettlesDecided
  BY <1>5, ProcessSettlesDecided DEF Work
<1>6. ASSUME NEW w \in Workers, Exit(w) \/ Unreported(w) \/ Killed(w)
      PROVE  SettlesDecided
  BY <1>6, DieSettlesNone DEF Exit, Unreported, Killed, Crash
<1>7. ASSUME NEW w \in Workers, Starting(w) \/ StartFails(w) \/ Signal(w) \/ Close(w)
      PROVE  SettlesDecided
  BY <1>1, <1>7 DEF Starting, Ping, QueuesReady, ConsumersReady, Listen, StartFails, Signal,
                    Close, Set, vars
<1>8. CASE Tick
  BY <1>1, <1>8 DEF Tick
<1> QED
  BY <1>2, <1>3, <1>4, <1>5, <1>6, <1>7, <1>8 DEF WNext

\* Where the clocks of the workers do not lag behind that of the database, a job
\* that ends with a result leaves no row pending, whatever fails, stalls, stops or
\* dies: only a clock that lags makes a job give up a row that waits to be sent.
THEOREM ResultsDecided ==
  ASSUME MaxLag = 0
  PROVE  WSpec => []ResultIsDecided
<1>1. WInit => ResultIsDecided
  BY DEF WInit, Init, NoJob, ResultIsDecided, Results, Outcomes
<1>2. WInv /\ ResultIsDecided /\ [WNext]_wvars => ResultIsDecided'
  <2> SUFFICES ASSUME WInv, ResultIsDecided, [WNext]_wvars PROVE ResultIsDecided'
    OBVIOUS
  <2>1. SettlesDecided
    BY StepSettlesDecided DEF WInv
  <2>2. \A d \in Deliveries : delivery[d].status \in Outcomes =>
          delivery'[d].status = delivery[d].status
    BY WNextSafe, RecordKept DEF WInv
  <2> QED
    BY <2>1, <2>2 DEF ResultIsDecided, SettlesDecided
<1> QED
  BY <1>1, <1>2, Invariant, PTL DEF WSpec

-----------------------------------------------------------------------------
(* No lock of a live worker is lost                                        *)

LEMMA BusyRun ==
  ASSUME IInv, NEW w \in Workers, run[w].pc # "idle"
  PROVE  /\ run[w].d \in Deliveries /\ w # NoWorker
         /\ delivery[run[w].d].status \in {"pending"} \cup Outcomes
<1>1. run[w].d \in Deliveries /\ delivery[run[w].d].status # "absent"
  BY DEF IInv, JobsInv, RowsInv
<1> QED
  BY <1>1, NotificationAssumption DEF IInv, RowsInv, Rows

\* A worker is done with its job; the row of that job is the only one it decides.
LEMMA AloneAfterLeaving ==
  ASSUME IInv, RunsAlone, NEW w \in Workers, Leaves(w),
         \A d \in Deliveries : d # run[w].d /\ IsPending(d) => IsPending(d)',
         run[w].pc # "idle"
  PROVE  RunsAlone'
<1>1. run'[w].pc = "idle" /\ \A v \in Workers \ {w} : run'[v] = run[v]
  BY NoRunType DEF Leaves, IInv, JobsInv
<1> SUFFICES ASSUME NEW v \in Workers \ {w}, run[v].pc # "idle"
             PROVE  /\ job'[run[v].d].holder = v
                    /\ run[v].pc \notin {"idle", "find"} => IsPending(run[v].d)'
  BY <1>1 DEF RunsAlone, IsPending
<1>2. PICK d \in Deliveries : d = run[v].d
  BY BusyRun
<1>3. job[d].holder = v /\ job[run[w].d].holder = w
  BY <1>2 DEF RunsAlone
<1>4. d # run[w].d /\ job'[d] = job[d]
  BY <1>2, <1>3 DEF Leaves
<1>5. run[v].pc \notin {"idle", "find"} => IsPending(d)
  BY <1>2 DEF RunsAlone
<1> QED
  BY <1>1, <1>2, <1>3, <1>4, <1>5 DEF IsPending

\* The queue handles a job that nobody holds.
LEMMA AloneAfterQueueing ==
  ASSUME IInv, RunsAlone, NEW d \in Deliveries, job[d].holder = NoWorker,
         \A c \in Deliveries \ {d} : job'[c] = job[c],
         UNCHANGED run,
         \A c \in Deliveries : IsPending(c) => IsPending(c)'
  PROVE  RunsAlone'
<1> SUFFICES ASSUME NEW w \in Workers, run[w].pc # "idle"
             PROVE  /\ job'[run[w].d].holder = w
                    /\ run[w].pc \notin {"idle", "find"} => IsPending(run[w].d)'
  BY DEF RunsAlone, IsPending
<1>1. PICK c \in Deliveries : c = run[w].d /\ w # NoWorker
  BY BusyRun
<1>2. job[c].holder = w /\ (run[w].pc \notin {"idle", "find"} => IsPending(c))
  BY <1>1 DEF RunsAlone
<1>3. c # d /\ job'[c] = job[c]
  BY <1>1, <1>2
<1> QED
  BY <1>1, <1>2, <1>3 DEF IsPending

LEMMA AloneOnRows ==
  ASSUME IInv, RunsAlone, UNCHANGED <<job, run>>,
         \A c \in Deliveries : IsPending(c) => IsPending(c)'
  PROVE  RunsAlone'
<1>1. \A w \in Workers : run[w].pc # "idle" => run[w].d \in Deliveries
  BY BusyRun
<1> QED
  BY <1>1 DEF RunsAlone, IsPending

LEMMA AloneGoingOn ==
  ASSUME IInv, RunsAlone, NEW w \in Workers, run[w].pc # "idle",
         NEW pc \in {"find", "send"} \cup Outcomes, MoveTo(w, pc), UNCHANGED <<delivery, event>>,
         IsPending(run[w].d)
  PROVE  RunsAlone'
<1>1. GoesOn(w, pc)
  BY DEF MoveTo, GoesOn
<1>2. /\ run'[w].pc = pc /\ run'[w].d = run[w].d
      /\ \A v \in Workers \ {w} : run'[v] = run[v]
  BY <1>1, GoesOnKeeps DEF IInv
<1> QED
  BY <1>2 DEF RunsAlone, IsPending, MoveTo

LEMMA QueueAlone ==
  ASSUME IInv, RunsAlone, NEW d \in Deliveries, Outside(d)
  PROVE  RunsAlone'
<1>1. CASE InsertDelivery(d)
  <2> DEFINE row == [status |-> "pending", left |-> Lifetime]
  <2>1. delivery' = [delivery EXCEPT ![d] = row] /\ row.status = "pending"
        /\ UNCHANGED <<job, run>>
    BY <1>1 DEF InsertDelivery
  <2> HIDE DEF row
  <2>2. \A c \in Deliveries : IsPending(c) => IsPending(c)'
    BY <2>1 DEF IsPending, IInv, RowsInv
  <2> QED
    BY <2>1, <2>2, AloneOnRows
<1>2. CASE AppendEvent(d)
  BY <1>2, AloneOnRows DEF AppendEvent, IsPending
<1>3. CASE Queue(d)
  <2>1. job[d].holder = NoWorker
    BY <1>3 DEF Queue, AddJob, Promote, Recover, IInv, JobsInv, Sound
  <2>2. /\ \A c \in Deliveries \ {d} : job'[c] = job[c]
        /\ UNCHANGED <<delivery, run>>
    BY <1>3 DEF Queue, AddJob, Promote, Recover, LockLost, IInv, JobsInv
  <2>3. \A c \in Deliveries : IsPending(c) => IsPending(c)'
    BY <2>2 DEF IsPending
  <2> QED
    BY <2>1, <2>2, <2>3, AloneAfterQueueing
<1> QED
  BY <1>1, <1>2, <1>3 DEF Outside

LEMMA DeliverAlone ==
  ASSUME IInv, RunsAlone, NEW d \in Deliveries, NEW w \in Workers, Deliver(w, d)
  PROVE  RunsAlone'
<1> DEFINE j == [job[d] EXCEPT !.state = "active", !.holder = w]
           new == [pc |-> "find", d |-> d]
<1>1. Sound(job[d]) /\ job[d].state = "waiting"
  BY DEF Deliver, IInv, JobsInv
<1>2. j.holder = w /\ new.pc = "find" /\ new.d = d /\ job[d].holder = NoWorker
  BY <1>1 DEF Sound, Jobs
<1>3. job' = [job EXCEPT ![d] = j] /\ run' = [run EXCEPT ![w] = new] /\ UNCHANGED delivery
  BY DEF Deliver, IInv, JobsInv
<1> HIDE DEF j, new
<1>4. /\ job'[d] = j /\ \A c \in Deliveries \ {d} : job'[c] = job[c]
      /\ run'[w] = new /\ \A v \in Workers \ {w} : run'[v] = run[v]
  BY <1>3 DEF IInv, JobsInv
<1>5. \A v \in Workers : run[v].pc # "idle" => run[v].d \in Deliveries \ {d}
  BY <1>2, BusyRun DEF RunsAlone
<1> QED
  BY <1>2, <1>3, <1>4, <1>5 DEF RunsAlone, IsPending

LEMMA DieAlone ==
  ASSUME IInv, RunsAlone, NEW w \in Workers, Die(w)
  PROVE  RunsAlone'
<1>1. UNCHANGED delivery
  BY DEF Die
<1>2. CASE run[w].pc # "idle"
  BY <1>1, <1>2, DieLeaves, AloneAfterLeaving DEF IInv, IsPending
<1>3. CASE run[w].pc = "idle"
  <2>1. \A d \in Deliveries : job[d].holder # w
    BY <1>3, NotificationAssumption DEF IInv, JobsInv
  <2>2. job' = job
    BY <2>1 DEF Die, IInv, JobsInv
  <2>3. run'[w].pc = "idle" /\ \A v \in Workers \ {w} : run'[v] = run[v]
    BY NoRunType DEF Die, IInv, JobsInv
  <2> QED
    BY <1>1, <2>2, <2>3 DEF RunsAlone, IsPending
<1> QED
  BY <1>2, <1>3

LEMMA ProcessAlone ==
  ASSUME IInv, RunsAlone, NEW w \in Workers, Process(w)
  PROVE  RunsAlone'
<1>1. run[w].pc # "idle"
  BY DEF Process, Find, Send, Persist, Outcomes
<1>2. PICK d \in Deliveries : d = run[w].d
  BY <1>1, BusyRun
<1>3. UNCHANGED event /\ \A c \in Deliveries : c # d /\ IsPending(c) => IsPending(c)'
  BY <1>2 DEF Process, Find, Send, Persist, Clear, IsPending, IInv, RowsInv
<1>4. ASSUME JobThrows(w) \/ \E result \in Results : JobReturns(w, result)
      PROVE  RunsAlone'
  <2>1. Leaves(w)
    BY <1>4, ThrowLeaves, ReturnLeaves DEF IInv
  <2> QED
    BY <1>1, <1>2, <1>3, <2>1, AloneAfterLeaving
<1>5. "ignored" \in Results /\ Outcomes \subseteq Results
  BY DEF Results
<1>6. CASE Find(w)
  <2>1. \/ JobReturns(w, "ignored") \/ JobThrows(w)
        \/ IsPending(d) /\ \E pc \in {"send", "expired"} : MoveTo(w, pc)
    BY <1>2, <1>6 DEF Find
  <2>2. UNCHANGED delivery
    BY <1>6 DEF Find
  <2> QED
    BY <1>1, <1>2, <1>3, <1>4, <1>5, <2>1, <2>2, AloneGoingOn DEF Outcomes
<1>7. CASE Send(w)
  <2>1. IsPending(d) /\ UNCHANGED delivery
    BY <1>2, <1>7 DEF Send, RunsAlone
  <2>2. MoveTo(w, "delivered") \/ JobThrows(w)
    BY <1>7 DEF Send
  <2> QED
    BY <1>1, <1>2, <1>3, <1>4, <2>1, <2>2, AloneGoingOn DEF Outcomes
<1>8. CASE Persist(w)
  BY <1>4, <1>5, <1>8 DEF Persist
<1> QED
  BY <1>6, <1>7, <1>8 DEF Process

LEMMA StepAlone ==
  ASSUME "stall" \notin Faults, IInv, RunsAlone, [WNext]_wvars
  PROVE  RunsAlone'
<1>1. ASSUME UNCHANGED <<delivery, job, run>>
      PROVE  RunsAlone'
  BY <1>1, AloneOnRows DEF IsPending
<1>2. CASE UNCHANGED wvars
  BY <1>1, <1>2 DEF wvars
<1>3. ASSUME NEW d \in Deliveries, Outside(d)
      PROVE  RunsAlone'
  BY <1>3, QueueAlone
<1>4. ASSUME NEW d \in Deliveries, NEW w \in Workers, Take(w, d) \/ LosesLock(w, d)
      PROVE  RunsAlone'
  BY <1>4, DeliverAlone DEF Take, LosesLock, Stall
<1>5. ASSUME NEW w \in Workers, Work(w)
      PROVE  RunsAlone'
  BY <1>5, ProcessAlone DEF Work
<1>6. ASSUME NEW w \in Workers, Exit(w) \/ Unreported(w) \/ Killed(w)
      PROVE  RunsAlone'
  BY <1>6, DieAlone DEF Exit, Unreported, Killed, Crash
<1>7. ASSUME NEW w \in Workers, Starting(w) \/ StartFails(w) \/ Signal(w) \/ Close(w)
      PROVE  RunsAlone'
  BY <1>1, <1>7 DEF Starting, Ping, QueuesReady, ConsumersReady, Listen, StartFails, Signal,
                    Close, Set, vars
<1>8. CASE Tick
  <2>1. UNCHANGED <<job, run>>
    BY <1>8 DEF Tick
  <2>2. \A c \in Deliveries : IsPending(c) => IsPending(c)'
    BY <1>8 DEF Tick, IsPending, IInv, RowsInv, Rows
  <2> QED
    BY <2>1, <2>2, AloneOnRows
<1> QED
  BY <1>2, <1>3, <1>4, <1>5, <1>6, <1>7, <1>8 DEF WNext

\* As long as live workers renew their locks, a job is worked on by one worker at a
\* time, whose row is pending from the moment it is read: with processes that die,
\* stop and start, a provider, a database and keys that fail and replies that are
\* lost.  Two attempts that disagree on an outcome take a lost lock.
THEOREM OneRunAtATime ==
  ASSUME "stall" \notin Faults
  PROVE  WSpec => []RunsAlone
<1>1. WInit => RunsAlone
  BY NoRunType DEF WInit, Init, RunsAlone
<1>2. WInv /\ RunsAlone /\ [WNext]_wvars => RunsAlone'
  BY StepAlone DEF WInv
<1> QED
  BY <1>1, <1>2, Invariant, PTL DEF WSpec

\* Under the same condition no mail leaves for a row that is delivered or expired.
THEOREM NoLateMail ==
  ASSUME "stall" \notin Faults
  PROVE  WSpec => MailsArePending
<1> DEFINE A == \A d \in Deliveries : mails'[d] # mails[d] => IsPending(d)
<1>1. WInv /\ RunsAlone /\ [WNext]_wvars => [A]_wvars
  <2> SUFFICES ASSUME WInv, RunsAlone, WNext, NEW d \in Deliveries, mails'[d] # mails[d]
               PROVE  IsPending(d)
    OBVIOUS
  <2>1. ASSUME NEW w \in Workers, Work(w)
        PROVE  IsPending(d)
    <3>1. Send(w)
      BY <2>1 DEF Work, Process, Find, Persist
    <3>2. run[w].pc = "send" /\ IsPending(run[w].d)
      BY <3>1 DEF Send, RunsAlone
    <3>3. MailLeaves(run[w].d)
      BY <3>1 DEF Send
    <3>4. d = run[w].d
      BY <3>3 DEF MailLeaves, WInv, IInv, MailsInv
    <3> QED
      BY <3>2, <3>4
  <2>2. PICK w \in Workers : Work(w)
    BY DEF WNext, Outside, InsertDelivery, AppendEvent, Queue, AddJob, Promote, Recover,
           Take, Deliver, LosesLock, Stall, Starting, Ping, QueuesReady, ConsumersReady,
           Listen, StartFails, Signal, Close, Set, vars, Exit, Die, Unreported, Killed,
           Crash, Tick
  <2> QED
    BY <2>1, <2>2
<1>2. WSpec => []RunsAlone
  BY OneRunAtATime
<1> HIDE DEF A
<1> QED
  BY <1>1, <1>2, Invariant, PTL DEF WSpec, MailsArePending, A

=============================================================================
