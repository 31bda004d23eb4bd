------------------------------- MODULE Worker -------------------------------
(***************************************************************************)
(* The worker processes that run module Notification: the start and the    *)
(* shutdown of apps/worker/src/main.ts around the jobs.                    *)
(*                                                                         *)
(* start() and shutdown() are two asynchronous functions of one process.   *)
(* start() assigns the handle of a component only when it is ready, and    *)
(* shutdown() closes what has a handle by then, one component after the    *)
(* other.  A supervisor starts a process anew after it ended.  A close     *)
(* that rejects is logged and counts here as having closed.  The queues of *)
(* notifications and of clean-ups are created and closed next to each      *)
(* other and are one component here; so are their consumers.               *)
(***************************************************************************)
EXTENDS Notification, Sequences

CONSTANTS
  MaxUpsets,     \* bound: signals, deaths, failed starts and lost locks
  Upset          \* the processes they happen to

ASSUME WorkerAssumption ==
  MaxUpsets \in Nat /\ Upset \subseteq Workers /\ "db" \in Faults

VARIABLES
  proc,          \* proc[w]: how far start() and shutdown() of process w are
  upsets         \* signals, deaths, failed starts and lost locks so far

wvars == <<delivery, event, mails, job, run, proc, upsets>>

\* What shutdown() closes, in its order; storage and telemetry come last and
\* nothing below depends on them.
CloseOrder ==
  <<"publisher", "queues", "consumers", "server", "database", "redis">>

Components == {CloseOrder[i] : i \in DOMAIN CloseOrder}

Connections == {"server", "database", "redis"}

NotStopping == 0
Done == Len(CloseOrder) + 1

Procs ==
  [start : {"ping", "queues", "consumers", "listen", "ready", "failed", "thrown"},
   stop : NotStopping..Done,
   early : BOOLEAN,              \* shutdown began before start was through
   open : SUBSET Components,     \* what runs or is connected
   known : SUBSET Components]    \* what shutdown finds a handle of

Fresh ==
  [start |-> "ping", stop |-> NotStopping, early |-> FALSE,
   open |-> Connections, known |-> Connections]

WInit ==
  /\ Init
  /\ proc = [w \in Workers |-> Fresh]
  /\ upsets = 0

-----------------------------------------------------------------------------
(* start()                                                                 *)

IsOpen(w, c) == c \in proc[w].open

Set(w, p) ==
  /\ proc' = [proc EXCEPT ![w] = p]
  /\ UNCHANGED <<vars, upsets>>

\* PostgreSQL and Redis answer; the queues are created.
Ping(w) ==
  /\ proc[w].start = "ping"
  /\ IsOpen(w, "database") /\ IsOpen(w, "redis")
  /\ Set(w, [proc[w] EXCEPT !.start = "queues",
                            !.open = @ \cup {"queues"}, !.known = @ \cup {"queues"}])

\* The queues are ready; the consumers are created and take jobs at once.
QueuesReady(w) ==
  /\ proc[w].start = "queues"
  /\ IsOpen(w, "redis") /\ IsOpen(w, "queues")
  /\ Set(w, [proc[w] EXCEPT !.start = "consumers", !.open = @ \cup {"consumers"}])

\* The consumers are ready: their handles are assigned and the publisher starts.
ConsumersReady(w) ==
  /\ proc[w].start = "consumers"
  /\ IsOpen(w, "redis")
  /\ Set(w, [proc[w] EXCEPT !.start = "listen",
                            !.open = @ \cup {"publisher"},
                            !.known = @ \cup {"consumers", "publisher"}])

Listen(w) ==
  /\ proc[w].start = "listen"
  /\ IsOpen(w, "server")
  /\ Set(w, [proc[w] EXCEPT !.start = "ready"])

CountUpset(w) ==
  w \in Upset /\ upsets < MaxUpsets /\ upsets' = upsets + 1

Begin(p) == [p EXCEPT !.stop = 1, !.early = p.start \notin {"listen", "ready"}]

\* An await of start() rejects: the catch awaits shutdown() and throws; when a
\* signal began the shutdown already, it throws at once.
StartFails(w) ==
  /\ proc[w].start \in {"ping", "queues", "consumers", "listen"}
  /\ \/ /\ proc[w].stop = NotStopping
        /\ CountUpset(w)
        /\ proc' = [proc EXCEPT ![w] = [Begin(proc[w]) EXCEPT !.start = "failed"]]
     \/ /\ proc[w].stop # NotStopping
        /\ proc' = [proc EXCEPT ![w] = [proc[w] EXCEPT !.start = "thrown"]]
        /\ UNCHANGED upsets
  /\ UNCHANGED vars

-----------------------------------------------------------------------------
(* shutdown()                                                              *)

\* SIGINT or SIGTERM; shutdownStarted makes a second one harmless.
Signal(w) ==
  /\ proc[w].stop = NotStopping
  /\ CountUpset(w)
  /\ proc' = [proc EXCEPT ![w] = Begin(proc[w])]
  /\ UNCHANGED vars

Closing(w, c) ==
  /\ proc[w].stop \in DOMAIN CloseOrder
  /\ CloseOrder[proc[w].stop] = c
  /\ c \in proc[w].known

\* Bug for the mutation checks: close() does not wait for what is under way.
QuiescentAlways(w, c) == TRUE

\* close() of a consumer waits for its job.
Quiescent(w, c) == c = "consumers" => run[w].pc = "idle"

\* One component after the other; one without a handle is passed over.
Close(w) ==
  LET p == proc[w]
      c == CloseOrder[p.stop]
  IN  /\ p.stop \in DOMAIN CloseOrder
      /\ \/ /\ c \in p.known /\ Quiescent(w, c)
            /\ Set(w, [p EXCEPT !.stop = @ + 1, !.open = @ \ {c}])
         \/ c \notin p.known /\ Set(w, [p EXCEPT !.stop = @ + 1])

\* The process ends: start() threw, or the shutdown it waited for is over, or a
\* process that was up has nothing left to do.  What it ran is lost.
Exit(w) ==
  /\ \/ proc[w].start = "thrown"
     \/ proc[w].start \in {"failed", "ready"} /\ proc[w].stop = Done
  /\ proc[w].start = "ready" => proc[w].open = {}
  /\ proc' = [proc EXCEPT ![w] = Fresh]
  /\ Die(w)
  /\ UNCHANGED upsets

-----------------------------------------------------------------------------
(* Jobs inside the process                                                 *)

Take(w, d) ==
  /\ IsOpen(w, "consumers") /\ IsOpen(w, "redis")
  /\ ~Closing(w, "consumers")
  /\ Deliver(w, d)
  /\ UNCHANGED <<proc, upsets>>

\* A statement on a closed pool rejects, and so the processor throws.
Work(w) ==
  /\ IsOpen(w, "redis")
  /\ Process(w)
  /\ run[w].pc # "send" /\ ~IsOpen(w, "database") => JobThrows(w)
  /\ UNCHANGED <<proc, upsets>>

\* Without Redis nothing is reported: the queue will find the job stalled.
Unreported(w) ==
  /\ ~IsOpen(w, "redis") /\ run[w].pc # "idle"
  /\ Die(w)
  /\ UNCHANGED <<proc, upsets>>

Killed(w) ==
  /\ CountUpset(w)
  /\ Crash(w)
  /\ proc' = [proc EXCEPT ![w] = Fresh]

\* A live process fails to renew the lock of its job.
LosesLock(w, d) ==
  /\ job[d].holder = w
  /\ CountUpset(w)
  /\ Stall(d)
  /\ UNCHANGED proc

-----------------------------------------------------------------------------

Starting(w) == Ping(w) \/ QueuesReady(w) \/ ConsumersReady(w) \/ Listen(w)

Outside(d) == InsertDelivery(d) \/ AppendEvent(d) \/ Queue(d)

WNext ==
  \/ \E d \in Deliveries :
       \/ Outside(d) /\ UNCHANGED <<proc, upsets>>
       \/ \E w \in Workers : Take(w, d) \/ LosesLock(w, d)
  \/ \E w \in Workers :
       \/ Starting(w) \/ StartFails(w)
       \/ Signal(w) \/ Close(w) \/ Exit(w)
       \/ Work(w) \/ Unreported(w) \/ Killed(w)
  \/ Tick /\ UNCHANGED <<proc, upsets>>

WSpec == WInit /\ [][WNext]_wvars

\* A process goes on while it can: with start() and shutdown(), with the steps of
\* its job, and to its end.
Advance(w) ==
  \/ Starting(w) \/ Close(w) \/ Exit(w) \/ Work(w) \/ Unreported(w)
  \/ proc[w].stop # NotStopping /\ StartFails(w)

\* The outbox hands an event over, and BullMQ delivers, promotes or recovers its
\* job.
Serve(d) ==
  \/ Queue(d) /\ UNCHANGED <<proc, upsets>>
  \/ \E w \in Workers : Take(w, d)

\* A job is served, awaits end, and an ended process is started anew.
Fairness ==
  /\ \A d \in Deliveries : WF_wvars(Serve(d))
  /\ \A w \in Workers : WF_wvars(Advance(w))

FairWSpec == WSpec /\ Fairness

-----------------------------------------------------------------------------
(* Correctness                                                             *)

\* Types of the process state, and of the jobs in it.
WTypeOK ==
  /\ TypeOK
  /\ proc \in [Workers -> Procs]
  /\ upsets \in 0..MaxUpsets

\* A shutdown that begins when start() is through with its handles interrupts
\* no job: the pool is closed only when none is under way.
ClosesQuietly ==
  \A w \in Workers :
    proc[w].stop # NotStopping /\ ~proc[w].early /\ ~IsOpen(w, "database")
      => run[w].pc = "idle"

\* What the record says of a row is never changed once it is decided, and a mail
\* leaves only for a row that is not.
DecidedIsFinal ==
  [][\A d \in Deliveries : delivery[d].status \in Outcomes =>
       delivery'[d].status = delivery[d].status]_wvars

MailsArePending ==
  [][\A d \in Deliveries : mails'[d] # mails[d] => IsPending(d)]_wvars

\* Every job whose event is committed ends with a result or with its attempts
\* spent, whichever processes stop, start, fail to start or die meanwhile.
EventuallyAnswered ==
  \A d \in Deliveries : d \in event ~> job[d].state \in Settled

=============================================================================
