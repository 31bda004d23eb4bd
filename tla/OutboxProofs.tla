---------------------------- MODULE OutboxProofs ----------------------------
(***************************************************************************)
(* Proofs about Outbox for any number of events, publishers and attempts,  *)
(* any durations and clock lag, and every combination of faults.           *)
(***************************************************************************)
EXTENDS Outbox, TLAPS

\* Two runs never work with one claim token.
RunsFenced ==
  \A p, q \in Publishers :
    pub[p].token # NoToken /\ pub[p].token = pub[q].token => p = q

\* A run asks to publish only what the queue has accepted.
MarkedIsQueued ==
  \A p \in Publishers : pub[p].pc = "mark" => pub[p].current \in queued

\* A run, and the queue, only hold events whose transaction committed.
OnlyCommitted ==
  /\ \A p \in Publishers : \A e \in pub[p].batch : row[e].status # "absent"
  /\ \A e \in queued : row[e].status # "absent"

\* The inductive invariant.
IInv ==
  /\ TypeOK
  /\ RunsFenced
  /\ MarkedIsQueued
  /\ OnlyCommitted
  /\ PublishedWasEnqueued

-----------------------------------------------------------------------------

\* A claim draws a token that no row and no run carries (randomUUID).
LEMMA FreshTokenIsFresh ==
  ASSUME Tokens \ TokensInUse # {}
  PROVE  FreshToken \in Tokens /\ FreshToken \notin TokensInUse
BY DEF FreshToken

\* Whatever a run or the queue holds is an event.
LEMMA HeldAreEvents ==
  ASSUME IInv
  PROVE  queued \subseteq Events /\ \A p \in Publishers : pub[p].batch \subseteq Events
BY DEF IInv, TypeOK, Runs

LEMMA ClaimPreserves ==
  ASSUME IInv, NEW p \in Publishers, Claim(p)
  PROVE  IInv'
<1> USE OutboxAssumption
<1>1. PICK lag \in 0..MaxLag, S \in SUBSET Events :
        S \in Batches(lag) /\ ClaimRows(p, S, lag)
  <2>1. PICK lag \in 0..MaxLag : \E S \in Batches(lag) : ClaimRows(p, S, lag)
    BY DEF Claim
  <2>2. Batches(lag) \subseteq SUBSET Events
    BY DEF Batches
  <2> QED
    BY <2>1, <2>2
<1>2. FreshToken \in Tokens /\ FreshToken \notin TokensInUse
  BY FreshTokenIsFresh DEF Claim
<1>3. /\ S \subseteq Events
      /\ \A e \in S : row[e].attempts < MaxAttempts
                      /\ row[e].status \in {"pending", "failed", "publishing"}
  BY <1>1 DEF Batches, Eligible
<1>4. queued' = queued /\ pub[p].pc = "idle"
  BY DEF Claim
<1>5. \A e \in Events :
        \/ e \in S /\ row'[e] = Claimed(row[e], FreshToken, lag)
        \/ e \notin S /\ row'[e] = row[e]
  BY <1>1 DEF ClaimRows
<1>6. \A q \in Publishers :
        \/ pub'[q] = pub[q]
        \/ q = p /\ S = {} /\ pub'[q] = NoRun
        \/ /\ q = p /\ S # {}
           /\ pub'[q] = [pc |-> "drain", token |-> FreshToken, batch |-> S,
                         current |-> NoEvent]
  BY <1>1 DEF ClaimRows, IInv, TypeOK
<1>7. row' \in [Events -> Rows]
  <2>1. \A e \in Events : row'[e] \in Rows
    <3> TAKE e \in Events
    <3>1. row[e] \in Rows
      BY DEF IInv, TypeOK
    <3>2. CASE e \in S
      <4>1. row[e].attempts + 1 \in 0..MaxAttempts
        BY <1>3, <3>1, <3>2 DEF Rows
      <4>2. LeaseTime - lag \in Int
        OBVIOUS
      <4>3. row'[e] = Claimed(row[e], FreshToken, lag)
        BY <1>5, <3>2
      <4> QED
        BY <1>2, <3>1, <4>1, <4>2, <4>3 DEF Rows, Claimed, Statuses
    <3> QED
      BY <1>5, <3>1, <3>2
  <2> QED
    BY <1>1, <2>1 DEF ClaimRows
<1>8. pub' \in [Publishers -> Runs]
  <2>1. NoRun \in Runs
    BY DEF NoRun, Runs, Locations
  <2>2. [pc |-> "drain", token |-> FreshToken, batch |-> S, current |-> NoEvent]
          \in Runs
    BY <1>1, <1>2 DEF Runs, Locations
  <2> QED
    BY <1>1, <2>1, <2>2 DEF ClaimRows, IInv, TypeOK
<1>9. \A e \in Events :
        row'[e].status = "publishing" <=> row'[e].token # NoToken
  <2>1. \A e \in Events :
          /\ row[e] \in Rows
          /\ row[e].status = "publishing" <=> row[e].token # NoToken
    BY DEF IInv, TypeOK
  <2> QED
    BY <1>2, <1>5, <2>1 DEF Claimed, Rows
<1>10. \A q \in Publishers : RunCoherent(pub'[q])
  BY <1>2, <1>6 DEF IInv, TypeOK, RunCoherent, NoRun
<1>11. TypeOK'
  BY <1>4, <1>7, <1>8, <1>9, <1>10 DEF IInv, TypeOK
<1>12. RunsFenced'
  <2>1. \A q \in Publishers : pub[q].token # FreshToken
    BY <1>2 DEF TokensInUse
  <2>2. \A q \in Publishers :
          \/ pub'[q].token = pub[q].token
          \/ q = p /\ pub'[q].token \in {NoToken, FreshToken}
    BY <1>6 DEF NoRun
  <2> QED
    BY <2>1, <2>2 DEF IInv, RunsFenced
<1>13. MarkedIsQueued'
  BY <1>4, <1>6 DEF IInv, MarkedIsQueued, NoRun
<1>14. \A e \in Events :
         /\ row[e].status # "absent" => row'[e].status # "absent"
         /\ row'[e].status = "published" => row[e].status = "published"
  <2>1. \A e \in Events : row[e] \in Rows
    BY DEF IInv, TypeOK
  <2>2. \A e \in S : row'[e].status = "publishing"
    BY <1>5, <2>1 DEF Claimed, Rows
  <2> QED
    BY <1>5, <2>2
<1>15. OnlyCommitted'
  <2>1. \A e \in S : row[e].status # "absent"
    BY <1>3
  <2> QED
    BY <1>1, <1>4, <1>6, <1>14, <2>1
       DEF IInv, TypeOK, OnlyCommitted, NoRun, Runs
<1>16. PublishedWasEnqueued'
  BY <1>4, <1>14 DEF IInv, PublishedWasEnqueued
<1> QED
  BY <1>11, <1>12, <1>13, <1>15, <1>16 DEF IInv

\* Append and Tick leave the runs and the queue alone, and change no status,
\* token or number of attempts but that of the appended row.
LEMMA AppendPreserves ==
  ASSUME IInv, NEW e \in Events, Append(e)
  PROVE  IInv'
<1> USE OutboxAssumption
<1>1. PICK lag \in 0..MaxLag :
        row' = [row EXCEPT ![e].status = "pending", ![e].due = 0 - lag]
  BY DEF Append
<1>2. UNCHANGED <<queued, pub>> /\ row[e].status = "absent"
  BY DEF Append
<1>3. row \in [Events -> Rows]
  BY DEF IInv, TypeOK
<1>4. row' \in [Events -> Rows]
  <2>1. 0 - lag \in Int /\ row[e] \in Rows
    BY <1>3
  <2>2. [row[e] EXCEPT !.status = "pending", !.due = 0 - lag] \in Rows
    BY <2>1 DEF Rows, Statuses
  <2> QED
    BY <1>1, <1>3, <2>2
<1>5. /\ \A f \in Events : row'[f].token = row[f].token
      /\ \A f \in Events : f # e => row'[f].status = row[f].status
      /\ row'[e].status = "pending"
  BY <1>1, <1>3 DEF Rows
<1>6. TypeOK'
  BY <1>2, <1>4, <1>5 DEF IInv, TypeOK
<1>7. RunsFenced' /\ MarkedIsQueued'
  BY <1>2 DEF IInv, RunsFenced, MarkedIsQueued
<1>8. OnlyCommitted'
  BY <1>2, <1>5, HeldAreEvents DEF IInv, OnlyCommitted
<1>9. PublishedWasEnqueued'
  BY <1>2, <1>5 DEF IInv, PublishedWasEnqueued
<1> QED
  BY <1>6, <1>7, <1>8, <1>9 DEF IInv

LEMMA TickPreserves ==
  ASSUME IInv, Tick
  PROVE  IInv'
<1> USE OutboxAssumption
<1>1. UNCHANGED <<queued, pub>> /\ row \in [Events -> Rows]
  BY DEF IInv, TypeOK, Tick
<1>2. \A t \in Int : Older(t) \in Int
  <2>1. MaxLag \in Int
    OBVIOUS
  <2> QED
    BY <2>1 DEF Older
<1>3. \A e \in Events :
        /\ row'[e] \in Rows
        /\ row'[e].status = row[e].status
        /\ row'[e].token = row[e].token
  <2> TAKE e \in Events
  <2>1. row[e] \in Rows
    BY <1>1
  <2>2. CASE row[e].status = "absent"
    BY <2>1, <2>2 DEF Tick
  <2>3. CASE row[e].status # "absent"
    <3>1. row'[e] = [row[e] EXCEPT
                       !.due = Older(@),
                       !.lease = IF row[e].status = "publishing" THEN Older(@)
                                 ELSE @]
      BY <2>3 DEF Tick
    <3> QED
      BY <1>2, <2>1, <3>1 DEF Rows
  <2> QED
    BY <2>2, <2>3
<1>4. row' \in [Events -> Rows]
  BY <1>3 DEF Tick
<1>5. TypeOK'
  BY <1>1, <1>3, <1>4 DEF IInv, TypeOK
<1>6. RunsFenced' /\ MarkedIsQueued'
  BY <1>1 DEF IInv, RunsFenced, MarkedIsQueued
<1>7. OnlyCommitted' /\ PublishedWasEnqueued'
  BY <1>1, <1>3, HeldAreEvents DEF IInv, OnlyCommitted, PublishedWasEnqueued
<1> QED
  BY <1>5, <1>6, <1>7 DEF IInv

-----------------------------------------------------------------------------
(* The steps of publishClaimedEvent leave every run with its own token or   *)
(* none, and with no event it did not hold before.                         *)

KeepsRuns ==
  /\ pub' \in [Publishers -> Runs]
  /\ \A q \in Publishers :
       /\ RunCoherent(pub'[q])
       /\ pub'[q].token \in {pub[q].token, NoToken}
       /\ pub'[q].batch \subseteq pub[q].batch

LEMMA KeepsRunsFenced ==
  ASSUME IInv, KeepsRuns
  PROVE  RunsFenced'
BY DEF IInv, KeepsRuns, RunsFenced

LEMMA AdvanceKeepsRuns ==
  ASSUME IInv, NEW p \in Publishers, pub[p].pc # "idle", Advance(p)
  PROVE  KeepsRuns /\ \A q \in Publishers : pub'[q].pc = "mark" => pub'[q] = pub[q]
<1> DEFINE rest == pub[p].batch \ {pub[p].current}
           next == [pub[p] EXCEPT !.pc = "drain", !.batch = rest,
                                  !.current = NoEvent]
<1>1. pub \in [Publishers -> Runs] /\ pub[p] \in Runs /\ RunCoherent(pub[p])
  BY DEF IInv, TypeOK
<1>2. NoRun \in Runs /\ RunCoherent(NoRun)
  BY DEF NoRun, Runs, RunCoherent, Locations
<1>3. next \in Runs /\ RunCoherent(next)
  BY <1>1 DEF Runs, RunCoherent, Locations
<1>4. pub'[p] \in {NoRun, next} /\ \A q \in Publishers : q # p => pub'[q] = pub[q]
  BY <1>1 DEF Advance
<1>5. pub' \in [Publishers -> Runs]
  BY <1>1, <1>2, <1>3 DEF Advance
<1>6. \A q \in Publishers : RunCoherent(pub'[q])
  BY <1>2, <1>3, <1>4 DEF IInv, TypeOK
<1>7. /\ next.token = pub[p].token /\ next.batch \subseteq pub[p].batch
      /\ next.pc = "drain"
  BY <1>1 DEF Runs
<1>8. NoRun.token = NoToken /\ NoRun.batch = {} /\ NoRun.pc = "idle"
  BY DEF NoRun
<1> HIDE DEF next
<1>9. \A q \in Publishers :
        /\ pub'[q].token \in {pub[q].token, NoToken}
        /\ pub'[q].batch \subseteq pub[q].batch
        /\ pub'[q].pc = "mark" => pub'[q] = pub[q]
  BY <1>4, <1>7, <1>8
<1> QED
  BY <1>5, <1>6, <1>9 DEF KeepsRuns

LEMMA GotoKeepsRuns ==
  ASSUME IInv, NEW p \in Publishers, pub[p].pc # "idle",
         NEW pc \in {"mark", "retry"}, NEW e \in pub[p].batch, Goto(p, pc, e)
  PROVE  /\ KeepsRuns
         /\ \A q \in Publishers :
              pub'[q].pc = "mark" =>
                \/ pub'[q] = pub[q]
                \/ q = p /\ pc = "mark" /\ pub'[q].current = e
<1>1. pub \in [Publishers -> Runs] /\ pub[p] \in Runs /\ RunCoherent(pub[p])
  BY DEF IInv, TypeOK
<1>2. e \in Events
  BY HeldAreEvents
<1>3. pub' = [pub EXCEPT ![p] = [pub[p] EXCEPT !.pc = pc, !.current = e]]
  BY <1>1 DEF Goto
<1>4. [pub[p] EXCEPT !.pc = pc, !.current = e] \in Runs
  BY <1>1, <1>2 DEF Runs, Locations
<1>5. /\ pub'[p].pc = pc /\ pub'[p].current = e
      /\ pub'[p].token = pub[p].token /\ pub'[p].batch = pub[p].batch
      /\ \A q \in Publishers : q # p => pub'[q] = pub[q]
  BY <1>1, <1>3 DEF Runs
<1>6. RunCoherent(pub'[p])
  BY <1>1, <1>5 DEF RunCoherent
<1> QED
  BY <1>1, <1>3, <1>4, <1>5, <1>6 DEF KeepsRuns, IInv, TypeOK

LEMMA CrashPreserves ==
  ASSUME IInv, NEW p \in Publishers, Crash(p)
  PROVE  IInv'
<1>1. /\ UNCHANGED <<row, queued>>
      /\ \A q \in Publishers : pub'[q] = IF q = p THEN NoRun ELSE pub[q]
  BY DEF Crash, IInv, TypeOK
<1>2. NoRun \in Runs /\ RunCoherent(NoRun)
  BY DEF NoRun, Runs, RunCoherent, Locations
<1>3. KeepsRuns
  BY <1>1, <1>2 DEF Crash, KeepsRuns, IInv, TypeOK, NoRun
<1>4. TypeOK'
  BY <1>1, <1>3 DEF IInv, TypeOK, KeepsRuns
<1>5. RunsFenced'
  BY <1>3, KeepsRunsFenced
<1>6. MarkedIsQueued'
  BY <1>1 DEF IInv, MarkedIsQueued, NoRun
<1>7. OnlyCommitted' /\ PublishedWasEnqueued'
  BY <1>1, <1>3 DEF IInv, KeepsRuns, OnlyCommitted, PublishedWasEnqueued
<1> QED
  BY <1>4, <1>5, <1>6, <1>7 DEF IInv

-----------------------------------------------------------------------------
(* Rows that a run writes an outcome to.                                   *)

WritesOutcome(e, status) ==
  /\ row' \in [Events -> Rows]
  /\ row'[e].status = status /\ row'[e].token = NoToken
  /\ \A f \in Events : f # e => row'[f] = row[f]

LEMMA OutcomeWrites ==
  ASSUME IInv, NEW e \in Events, NEW status \in Statuses, NEW due \in Int,
         row' = [row EXCEPT ![e] = WithOutcome(row[e], status, due)]
  PROVE  WritesOutcome(e, status)
<1>1. row \in [Events -> Rows] /\ row[e].attempts \in 0..MaxAttempts
  BY DEF IInv, TypeOK, Rows
<1>2. /\ WithOutcome(row[e], status, due) \in Rows
      /\ WithOutcome(row[e], status, due).status = status
      /\ WithOutcome(row[e], status, due).token = NoToken
  BY <1>1 DEF WithOutcome, Rows
<1> QED
  BY <1>1, <1>2 DEF WritesOutcome

LEMMA SetPublishedWrites ==
  ASSUME IInv, NEW e \in Events, SetPublished(e)
  PROVE  WritesOutcome(e, "published")
<1>1. row[e].due \in Int
  BY DEF IInv, TypeOK, Rows
<1> QED
  BY <1>1, OutcomeWrites DEF SetPublished, Statuses

\* A step that keeps the runs, writes at most one outcome to the rows and only
\* adds committed events to the queue preserves the invariant.
LEMMA RunStepPreserves ==
  ASSUME IInv, KeepsRuns, MarkedIsQueued',
         NEW e \in Events, row[e].status # "absent",
         queued' \in {queued, queued \cup {e}},
         \/ UNCHANGED row
         \/ WritesOutcome(e, "failed")
         \/ WritesOutcome(e, "published") /\ e \in queued
  PROVE  IInv'
<1>1. row' \in [Events -> Rows]
  BY DEF IInv, TypeOK, WritesOutcome
<1>2. \A f \in Events : row'[f].status = "publishing" <=> row'[f].token # NoToken
  BY DEF IInv, TypeOK, WritesOutcome
<1>3. TypeOK'
  BY <1>1, <1>2 DEF IInv, TypeOK, KeepsRuns
<1>4. \A f \in Events : row[f].status # "absent" => row'[f].status # "absent"
  BY DEF WritesOutcome
<1>5. OnlyCommitted'
  BY <1>4, HeldAreEvents DEF IInv, KeepsRuns, OnlyCommitted
<1>6. PublishedWasEnqueued'
  BY DEF IInv, PublishedWasEnqueued, WritesOutcome
<1> QED
  BY <1>3, <1>5, <1>6, KeepsRunsFenced DEF IInv

\* What a run has in hand at mark or retry is a committed event of its batch.
LEMMA CurrentIsHeld ==
  ASSUME IInv, NEW p \in Publishers, pub[p].pc \in {"mark", "retry"}
  PROVE  /\ pub[p].current \in pub[p].batch
         /\ pub[p].current \in Events
         /\ row[pub[p].current].status # "absent"
BY HeldAreEvents DEF IInv, TypeOK, RunCoherent, OnlyCommitted

LEMMA RejectInvalidPreserves ==
  ASSUME IInv, NEW p \in Publishers, NEW e \in Events, RejectInvalid(p, e)
  PROVE  IInv'
<1>1. /\ pub[p].pc # "idle" /\ e \in pub[p].batch
      /\ Goto(p, "retry", e) /\ UNCHANGED <<row, queued>>
  BY DEF RejectInvalid
<1>2. KeepsRuns /\ \A q \in Publishers : pub'[q].pc = "mark" => pub'[q] = pub[q]
  BY <1>1, GotoKeepsRuns
<1>3. MarkedIsQueued'
  BY <1>1, <1>2 DEF IInv, MarkedIsQueued
<1> QED
  BY <1>1, <1>2, <1>3, RunStepPreserves DEF IInv, OnlyCommitted

LEMMA EnqueuePreserves ==
  ASSUME IInv, NEW p \in Publishers, NEW e \in Events, Enqueue(p, e)
  PROVE  IInv'
<1>1. /\ pub[p].pc # "idle" /\ e \in pub[p].batch /\ UNCHANGED row
      /\ \/ queued' = queued \cup {e} /\ Goto(p, "mark", e)
         \/ queued' \in {queued, queued \cup {e}} /\ Goto(p, "retry", e)
  BY DEF Enqueue
<1>2. /\ KeepsRuns
      /\ \A q \in Publishers :
           pub'[q].pc = "mark" =>
             \/ pub'[q] = pub[q]
             \/ pub'[q].current = e /\ queued' = queued \cup {e}
  <2>1. CASE queued' = queued \cup {e} /\ Goto(p, "mark", e)
    BY <1>1, <2>1, GotoKeepsRuns
  <2>2. CASE Goto(p, "retry", e)
    BY <1>1, <2>2, GotoKeepsRuns
  <2> QED
    BY <1>1, <2>1, <2>2
<1>3. MarkedIsQueued'
  BY <1>1, <1>2 DEF IInv, MarkedIsQueued
<1> QED
  BY <1>1, <1>2, <1>3, RunStepPreserves DEF IInv, OnlyCommitted

LEMMA MarkPublishedPreserves ==
  ASSUME IInv, NEW p \in Publishers, MarkPublished(p)
  PROVE  IInv'
<1> DEFINE e == pub[p].current
<1>1. /\ e \in pub[p].batch /\ e \in Events /\ row[e].status # "absent"
      /\ pub[p].pc = "mark" /\ e \in queued /\ queued' = queued
  BY CurrentIsHeld DEF MarkPublished, IInv, MarkedIsQueued
<1>2. /\ SetPublished(e) \/ UNCHANGED row
      /\ Advance(p) \/ Goto(p, "retry", e)
  BY DEF MarkPublished
<1>3. KeepsRuns /\ \A q \in Publishers : pub'[q].pc = "mark" => pub'[q] = pub[q]
  BY <1>1, <1>2, AdvanceKeepsRuns, GotoKeepsRuns
<1>4. MarkedIsQueued'
  BY <1>1, <1>3 DEF IInv, MarkedIsQueued
<1>5. WritesOutcome(e, "published") \/ UNCHANGED row
  BY <1>1, <1>2, SetPublishedWrites
<1> QED
  BY <1>1, <1>3, <1>4, <1>5, RunStepPreserves

LEMMA RetryPreserves ==
  ASSUME IInv, NEW p \in Publishers, Retry(p)
  PROVE  IInv'
<1> USE OutboxAssumption
<1> DEFINE e == pub[p].current
<1>1. /\ e \in Events /\ row[e].status # "absent"
      /\ pub[p].pc = "retry" /\ queued' = queued /\ Advance(p)
  BY CurrentIsHeld DEF Retry
<1>2. \/ \E due \in Int : SetFailed(e, due)
      \/ UNCHANGED row
  BY DEF Retry
<1>3. KeepsRuns /\ \A q \in Publishers : pub'[q].pc = "mark" => pub'[q] = pub[q]
  BY <1>1, AdvanceKeepsRuns
<1>4. MarkedIsQueued'
  BY <1>1, <1>3 DEF IInv, MarkedIsQueued
<1>5. WritesOutcome(e, "failed") \/ UNCHANGED row
  BY <1>1, <1>2, OutcomeWrites DEF SetFailed, Statuses
<1> QED
  BY <1>1, <1>3, <1>4, <1>5, RunStepPreserves

-----------------------------------------------------------------------------

LEMMA InitEstablishes == Init => IInv
BY OutboxAssumption
   DEF Init, IInv, TypeOK, RunsFenced, MarkedIsQueued, OnlyCommitted,
       PublishedWasEnqueued, NoRow, NoRun, Rows, Runs, RunCoherent, Statuses,
       Locations

LEMMA NextPreserves == IInv /\ [Next]_vars => IInv'
<1> SUFFICES ASSUME IInv, [Next]_vars PROVE IInv'
  OBVIOUS
<1>1. CASE \E e \in Events : Append(e)
  BY <1>1, AppendPreserves
<1>2. ASSUME NEW p \in Publishers, Step(p) PROVE IInv'
  BY <1>2, ClaimPreserves, RejectInvalidPreserves, EnqueuePreserves,
     MarkPublishedPreserves, RetryPreserves DEF Step
<1>3. ASSUME NEW p \in Publishers, Crash(p) PROVE IInv'
  BY <1>3, CrashPreserves
<1>4. CASE Tick
  BY <1>4, TickPreserves
<1>5. CASE UNCHANGED vars
  BY <1>5 DEF vars, IInv, TypeOK, RunsFenced, MarkedIsQueued, OnlyCommitted,
              PublishedWasEnqueued
<1> QED
  BY <1>1, <1>2, <1>3, <1>4, <1>5 DEF Next

\* The inductive invariant holds in every reachable state.
THEOREM Invariance == Spec => []IInv
<1> QED
  BY InitEstablishes, NextPreserves, PTL DEF Spec

\* Rows, runs and queue keep their types, and claim tokens mark exactly the
\* rows being published.
THEOREM TypeCorrect == Spec => []TypeOK
<1>1. IInv => TypeOK
  BY DEF IInv
<1> QED
  BY Invariance, <1>1, PTL

\* markOutboxPublished never reports an event whose job the queue lacks.
THEOREM NoLostEvent == Spec => []PublishedWasEnqueued
<1>1. IInv => PublishedWasEnqueued
  BY DEF IInv
<1> QED
  BY Invariance, <1>1, PTL

\* At most one run can still write the outcome of a claimed event.
THEOREM OneHolder == Spec => []SingleHolder
<1>1. IInv => SingleHolder
  <2> SUFFICES ASSUME IInv, NEW e \in Events, NEW p \in Publishers,
                      NEW q \in Publishers, Holds(p, e), Holds(q, e)
               PROVE  p = q
    BY DEF SingleHolder
  <2>1. pub[p].token = pub[q].token /\ pub[p].batch # {}
    BY DEF Holds
  <2>2. pub[p].token # NoToken
    BY <2>1 DEF IInv, TypeOK, RunCoherent
  <2> QED
    BY <2>1, <2>2 DEF IInv, RunsFenced
<1> QED
  BY Invariance, <1>1, PTL

-----------------------------------------------------------------------------
(* What a step may do to a claimed row.                                    *)

LEMMA ClaimFenced ==
  ASSUME IInv, NEW p \in Publishers, Claim(p), NEW e \in Events,
         row[e].status = "publishing", row'[e].token # row[e].token
  PROVE  TakenOver(e)
<1> USE OutboxAssumption
<1>1. PICK lag \in 0..MaxLag : \E S \in Batches(lag) : ClaimRows(p, S, lag)
  BY DEF Claim
<1>2. PICK S \in Batches(lag) : ClaimRows(p, S, lag)
  BY <1>1
<1>3. row[e] \in Rows
  BY DEF IInv, TypeOK
<1>4. e \in S /\ row'[e] = Claimed(row[e], FreshToken, lag)
  BY <1>2 DEF ClaimRows
<1>5. row[e].lease + lag <= 0
  BY <1>4 DEF Batches, Eligible
<1>6. row[e].lease \in Int /\ lag >= 0
  BY <1>3 DEF Rows
<1>7. row[e].lease <= 0
  BY <1>5, <1>6
<1> QED
  BY <1>3, <1>4, <1>7 DEF TakenOver, Claimed, Rows

\* A run that writes an outcome moves on.
LEMMA AdvanceMoves ==
  ASSUME IInv, NEW p \in Publishers, pub[p].pc \in {"mark", "retry"},
         Advance(p) \/ (pub[p].pc = "mark" /\ Goto(p, "retry", pub[p].current))
  PROVE  pub'[p] # pub[p]
<1>1. pub \in [Publishers -> Runs] /\ pub[p] \in Runs
  BY DEF IInv, TypeOK
<1>2. CASE Advance(p)
  <2>1. /\ NoRun.pc = "idle"
        /\ \A S \in SUBSET Events :
             [pub[p] EXCEPT !.pc = "drain", !.batch = S,
                            !.current = NoEvent].pc = "drain"
    BY <1>1 DEF NoRun, Runs
  <2>2. pub'[p].pc \in {"idle", "drain"}
    BY <1>1, <1>2, <2>1 DEF Advance, Runs
  <2> QED
    BY <2>2
<1>3. CASE pub[p].pc = "mark" /\ Goto(p, "retry", pub[p].current)
  BY <1>1, <1>3 DEF Goto, Runs
<1> QED
  BY <1>2, <1>3

LEMMA MarkPublishedFenced ==
  ASSUME IInv, NEW p \in Publishers, MarkPublished(p), NEW e \in Events,
         row'[e].token # row[e].token
  PROVE  DecidedByHolder(e)
<1>1. /\ SetPublished(pub[p].current)
      /\ row[pub[p].current].token = pub[p].token
      /\ Advance(p) \/ Goto(p, "retry", pub[p].current)
      /\ pub[p].pc = "mark"
  BY DEF MarkPublished, HoldsLease
<1>2. pub[p].current \in pub[p].batch /\ pub[p].current \in Events
  BY <1>1, CurrentIsHeld
<1>3. pub[p].current = e /\ row'[e].status = "published"
  BY <1>1, <1>2, SetPublishedWrites DEF WritesOutcome
<1> QED
  BY <1>1, <1>2, <1>3, AdvanceMoves DEF DecidedByHolder, Holds

LEMMA RetryFenced ==
  ASSUME IInv, NEW p \in Publishers, Retry(p), NEW e \in Events,
         row'[e].token # row[e].token
  PROVE  DecidedByHolder(e)
<1>1. /\ \E due \in Int : SetFailed(pub[p].current, due)
      /\ row[pub[p].current].token = pub[p].token
      /\ Advance(p) /\ pub[p].pc = "retry"
  BY OutboxAssumption DEF Retry, HoldsLease
<1>2. pub[p].current \in pub[p].batch /\ pub[p].current \in Events
  BY <1>1, CurrentIsHeld
<1>3. pub[p].current = e /\ row'[e].status = "failed"
  BY <1>1, <1>2, OutcomeWrites DEF SetFailed, WritesOutcome, Statuses
<1> QED
  BY <1>1, <1>2, <1>3, AdvanceMoves DEF DecidedByHolder, Holds

\* The steps that write no claim and no outcome keep every token.
LEMMA OtherStepsKeepTokens ==
  ASSUME IInv, NEW e \in Events,
         \/ \E f \in Events : Append(f)
         \/ \E p \in Publishers, f \in Events : RejectInvalid(p, f) \/ Enqueue(p, f)
         \/ \E p \in Publishers : Crash(p)
         \/ Tick
         \/ UNCHANGED vars
  PROVE  row'[e].token = row[e].token
<1>1. row \in [Events -> Rows]
  BY DEF IInv, TypeOK
<1>2. ASSUME NEW f \in Events, Append(f) PROVE row'[e].token = row[e].token
  BY <1>1, <1>2 DEF Append, Rows
<1>3. CASE Tick
  BY <1>1, <1>3 DEF Tick, Rows
<1> QED
  BY <1>2, <1>3 DEF RejectInvalid, Enqueue, Crash, vars

\* A stale run changes nothing: rows change hands after their lease, and an
\* outcome comes from the holder.
THEOREM Fencing == Spec => FencedTransitions
<1>1. ASSUME IInv, [Next]_vars, NEW e \in Events,
             row[e].status = "publishing", row'[e].token # row[e].token
      PROVE  TakenOver(e) \/ DecidedByHolder(e)
  BY <1>1, ClaimFenced, MarkPublishedFenced, RetryFenced, OtherStepsKeepTokens
     DEF Next, Step
<1>2. IInv /\ [Next]_vars =>
        [\A e \in Events :
           row[e].status = "publishing" /\ row'[e].token # row[e].token =>
             TakenOver(e) \/ DecidedByHolder(e)]_vars
  BY <1>1
<1> QED
  BY Invariance, <1>2, PTL DEF Spec, FencedTransitions

-----------------------------------------------------------------------------
(* The refinement of Handoff.                                              *)

committedBar == {e \in Events : row[e].status # "absent"}
acknowledgedBar == {e \in Events : row[e].status = "published"}

\* A claim moves rows that were neither absent nor published.
LEMMA ClaimIsStutter ==
  ASSUME IInv, NEW p \in Publishers, Claim(p)
  PROVE  UNCHANGED <<committedBar, queued, acknowledgedBar>>
<1>1. PICK lag \in 0..MaxLag : \E S \in Batches(lag) : ClaimRows(p, S, lag)
  BY DEF Claim
<1>2. PICK S \in Batches(lag) : ClaimRows(p, S, lag)
  BY <1>1
<1>3. \A e \in S : row[e].status \in {"pending", "failed", "publishing"}
  BY DEF Batches, Eligible
<1>4. \A e \in Events : \/ e \notin S /\ row'[e] = row[e]
                        \/ e \in S /\ row'[e] = Claimed(row[e], FreshToken, lag)
  BY <1>2 DEF ClaimRows
<1>5. \A e \in Events : row[e] \in Rows
  BY DEF IInv, TypeOK
<1>6. \A e \in S : e \in Events => row'[e].status = "publishing"
  BY <1>4, <1>5 DEF Claimed, Rows
<1>7. queued' = queued
  BY DEF Claim
<1> QED
  BY <1>3, <1>4, <1>6, <1>7 DEF committedBar, acknowledgedBar

LEMMA AppendIsCommit ==
  ASSUME IInv, NEW e \in Events, Append(e)
  PROVE  H!Commit(e)
<1>1. row \in [Events -> Rows] /\ row[e].status = "absent"
  BY DEF IInv, TypeOK, Append
<1>2. /\ row'[e].status = "pending"
      /\ \A f \in Events : f # e => row'[f] = row[f]
  BY <1>1 DEF Append, Rows
<1>3. queued' = queued
  BY DEF Append
<1> QED
  BY <1>1, <1>2, <1>3 DEF H!Commit

LEMMA EnqueueIsHand ==
  ASSUME IInv, NEW p \in Publishers, NEW e \in Events, Enqueue(p, e)
  PROVE  H!Hand(e) \/ UNCHANGED <<committedBar, queued, acknowledgedBar>>
<1>1. UNCHANGED row /\ queued' \in {queued, queued \cup {e}} /\ e \in pub[p].batch
  BY DEF Enqueue
<1>2. row[e].status # "absent"
  BY <1>1 DEF IInv, OnlyCommitted
<1> QED
  BY <1>1, <1>2 DEF H!Hand, committedBar, acknowledgedBar

LEMMA MarkIsAcknowledge ==
  ASSUME IInv, NEW p \in Publishers, MarkPublished(p)
  PROVE  \/ \E e \in Events : H!Acknowledge(e)
         \/ UNCHANGED <<committedBar, queued, acknowledgedBar>>
<1> DEFINE e == pub[p].current
<1>1. /\ e \in Events /\ e \in queued /\ queued' = queued
      /\ row[e].status # "absent"
  BY CurrentIsHeld DEF MarkPublished, IInv, MarkedIsQueued
<1>2. SetPublished(e) \/ UNCHANGED row
  BY DEF MarkPublished
<1>3. CASE UNCHANGED row
  BY <1>1, <1>3 DEF committedBar, acknowledgedBar
<1>4. CASE SetPublished(e)
  <2>1. WritesOutcome(e, "published")
    BY <1>1, <1>4, SetPublishedWrites
  <2> QED
    BY <1>1, <2>1 DEF WritesOutcome, H!Acknowledge
<1> QED
  BY <1>2, <1>3, <1>4

LEMMA RetryIsStutter ==
  ASSUME IInv, NEW p \in Publishers, Retry(p)
  PROVE  UNCHANGED <<committedBar, queued, acknowledgedBar>>
<1> DEFINE e == pub[p].current
<1>1. e \in Events /\ queued' = queued
  BY CurrentIsHeld DEF Retry
<1>2. \/ (\E due \in Int : SetFailed(e, due)) /\ row[e].status = "publishing"
      \/ UNCHANGED row
  BY OutboxAssumption DEF Retry, HoldsLease
<1>3. CASE UNCHANGED row
  BY <1>1, <1>3 DEF committedBar, acknowledgedBar
<1>4. CASE (\E due \in Int : SetFailed(e, due)) /\ row[e].status = "publishing"
  <2>1. WritesOutcome(e, "failed")
    BY <1>1, <1>4, OutcomeWrites DEF SetFailed, Statuses
  <2> QED
    BY <1>1, <1>4, <2>1 DEF WritesOutcome, committedBar, acknowledgedBar
<1> QED
  BY <1>2, <1>3, <1>4

LEMMA TickIsStutter ==
  ASSUME IInv, Tick
  PROVE  UNCHANGED <<committedBar, queued, acknowledgedBar>>
<1>1. queued' = queued
  BY DEF Tick
<1>2. \A e \in Events : row'[e].status = row[e].status
  BY DEF Tick, IInv, TypeOK, Rows
<1> QED
  BY <1>1, <1>2 DEF committedBar, acknowledgedBar

\* The outbox implements the hand-over it promises.
THEOREM Refinement == Spec => ImplementsHandoff
<1>1. Init => H!Init
  BY DEF Init, H!Init, NoRow
<1>2. ASSUME IInv, [Next]_vars
      PROVE  H!Next \/ UNCHANGED <<committedBar, queued, acknowledgedBar>>
  <2>1. ASSUME NEW e \in Events, Append(e) PROVE H!Next
    BY <1>2, <2>1, AppendIsCommit DEF H!Next
  <2>2. ASSUME NEW p \in Publishers, Step(p)
        PROVE  H!Next \/ UNCHANGED <<committedBar, queued, acknowledgedBar>>
    <3>1. CASE Claim(p) \/ Retry(p)
      BY <1>2, <3>1, ClaimIsStutter, RetryIsStutter
    <3>2. ASSUME NEW e \in Events, RejectInvalid(p, e)
          PROVE  UNCHANGED <<committedBar, queued, acknowledgedBar>>
      BY <3>2 DEF RejectInvalid, committedBar, acknowledgedBar
    <3>3. ASSUME NEW e \in Events, Enqueue(p, e)
          PROVE  H!Next \/ UNCHANGED <<committedBar, queued, acknowledgedBar>>
      BY <1>2, <3>3, EnqueueIsHand DEF H!Next
    <3>4. CASE MarkPublished(p)
      BY <1>2, <3>4, MarkIsAcknowledge DEF H!Next
    <3> QED
      BY <2>2, <3>1, <3>2, <3>3, <3>4 DEF Step
  <2>3. ASSUME NEW p \in Publishers, Crash(p)
        PROVE  UNCHANGED <<committedBar, queued, acknowledgedBar>>
    BY <2>3 DEF Crash, committedBar, acknowledgedBar
  <2>4. CASE Tick
    BY <1>2, <2>4, TickIsStutter
  <2>5. CASE UNCHANGED vars
    BY <2>5 DEF vars, committedBar, acknowledgedBar
  <2> QED
    BY <1>2, <2>1, <2>2, <2>3, <2>4, <2>5 DEF Next
<1>3. IInv /\ [Next]_vars => [H!Next]_(H!vars)
  BY <1>2 DEF H!vars, committedBar, acknowledgedBar
<1> QED
  BY Invariance, <1>1, <1>3, PTL DEF Spec, ImplementsHandoff, H!Spec

-----------------------------------------------------------------------------
(* Without crashes and database failures a running lease has its run.      *)

\* The loop keeps hold of every event of its batch but the one it is done with.
LEMMA AdvanceKeepsHolding ==
  ASSUME IInv, NEW p \in Publishers, Advance(p),
         NEW q \in Publishers, NEW f \in pub[q].batch,
         q = p => f # pub[p].current
  PROVE  f \in pub'[q].batch /\ pub'[q].token = pub[q].token
<1>1. pub \in [Publishers -> Runs] /\ pub[p] \in Runs
  BY DEF IInv, TypeOK
<1>2. CASE q # p
  BY <1>1, <1>2 DEF Advance
<1>3. CASE q = p
  <2>1. f \in pub[p].batch \ {pub[p].current}
    BY <1>3
  <2>2. pub'[p] = [pub[p] EXCEPT !.pc = "drain",
                                 !.batch = pub[p].batch \ {pub[p].current},
                                 !.current = NoEvent]
    BY <1>1, <2>1 DEF Advance
  <2> QED
    BY <1>1, <1>3, <2>1, <2>2 DEF Runs
<1> QED
  BY <1>2, <1>3

LEMMA GotoKeepsHolding ==
  ASSUME IInv, NEW p \in Publishers, NEW pc, NEW e, Goto(p, pc, e),
         NEW q \in Publishers
  PROVE  pub'[q].batch = pub[q].batch /\ pub'[q].token = pub[q].token
<1>1. pub \in [Publishers -> Runs] /\ pub[q] \in Runs
  BY DEF IInv, TypeOK
<1> QED
  BY <1>1 DEF Goto, Runs

\* An answered claim leaves every claimed row with the run that claimed it.
LEMMA ClaimKeepsHolders ==
  ASSUME IInv, RunningLeaseIsHeld, "reply" \notin Faults,
         NEW p \in Publishers, Claim(p)
  PROVE  RunningLeaseIsHeld'
<1>1. PICK lag \in 0..MaxLag : \E S \in Batches(lag) : ClaimRows(p, S, lag)
  BY DEF Claim
<1>2. PICK S \in Batches(lag) : ClaimRows(p, S, lag)
  BY <1>1
<1>3. \A q \in Publishers :
        \/ q # p /\ pub'[q] = pub[q]
        \/ /\ q = p /\ S # {}
           /\ pub'[q].token = FreshToken /\ pub'[q].batch = S
        \/ q = p /\ S = {}
  BY <1>2 DEF ClaimRows, IInv, TypeOK
<1>4. pub[p].batch = {}
  BY DEF Claim, IInv, TypeOK, RunCoherent
<1> SUFFICES ASSUME NEW e \in Events, row'[e].status = "publishing",
                    row'[e].lease > 0
             PROVE  \E q \in Publishers : Holds(q, e)'
  BY DEF RunningLeaseIsHeld
<1>5. CASE e \in S
  <2>1. row'[e] = Claimed(row[e], FreshToken, lag) /\ row[e] \in Rows
    BY <1>2, <1>5 DEF ClaimRows, IInv, TypeOK
  <2>2. row'[e].token = FreshToken
    BY <2>1 DEF Claimed, Rows
  <2> QED
    BY <1>3, <1>5, <2>2 DEF Holds
<1>6. CASE e \notin S
  <2>1. row'[e] = row[e]
    BY <1>2, <1>6 DEF ClaimRows
  <2>2. PICK q \in Publishers : Holds(q, e)
    BY <2>1 DEF RunningLeaseIsHeld
  <2> QED
    BY <1>3, <1>4, <2>1, <2>2 DEF Holds
<1> QED
  BY <1>5, <1>6

\* A run that goes on in its loop has decided the row in hand, or had lost it.
LEMMA AdvanceKeepsHolders ==
  ASSUME IInv, RunningLeaseIsHeld,
         NEW p \in Publishers, pub[p].pc \in {"mark", "retry"}, Advance(p),
         NEW lag \in 0..MaxLag,
         \/ WritesOutcome(pub[p].current, "published")
         \/ WritesOutcome(pub[p].current, "failed")
         \/ ~HoldsLease(p, lag) /\ UNCHANGED row
  PROVE  RunningLeaseIsHeld'
<1> SUFFICES ASSUME NEW e \in Events, row'[e].status = "publishing",
                    row'[e].lease > 0
             PROVE  \E q \in Publishers : Holds(q, e)'
  BY DEF RunningLeaseIsHeld
<1>1. row'[e] = row[e]
  BY DEF WritesOutcome
<1>2. PICK q \in Publishers : Holds(q, e)
  BY <1>1 DEF RunningLeaseIsHeld
<1>3. q = p => e # pub[p].current
  <2> SUFFICES ASSUME q = p, e = pub[p].current PROVE FALSE
    OBVIOUS
  <2>1. ~HoldsLease(p, lag)
    BY DEF WritesOutcome
  <2>2. row[e].lease \in Int /\ lag >= 0 /\ lag \in Int
    BY OutboxAssumption DEF IInv, TypeOK, Rows
  <2>3. row[e].lease + lag > 0
    BY <1>1, <2>2
  <2> QED
    BY <1>1, <1>2, <2>1, <2>3 DEF HoldsLease, Holds
<1>4. e \in pub'[q].batch /\ pub'[q].token = pub[q].token
  BY <1>2, <1>3, AdvanceKeepsHolding DEF Holds
<1> QED
  BY <1>1, <1>2, <1>4 DEF Holds

LEMMA GotoKeepsHolders ==
  ASSUME IInv, RunningLeaseIsHeld, NEW p \in Publishers, NEW pc, NEW e,
         Goto(p, pc, e), UNCHANGED row
  PROVE  RunningLeaseIsHeld'
BY GotoKeepsHolding DEF RunningLeaseIsHeld, Holds

LEMMA TickKeepsHolders ==
  ASSUME IInv, RunningLeaseIsHeld, Tick
  PROVE  RunningLeaseIsHeld'
<1> SUFFICES ASSUME NEW e \in Events, row'[e].status = "publishing",
                    row'[e].lease > 0
             PROVE  \E q \in Publishers : Holds(q, e)'
  BY DEF RunningLeaseIsHeld
<1>1. row[e] \in Rows
  BY DEF IInv, TypeOK
<1>2. /\ row[e].status = "publishing" /\ row'[e].token = row[e].token
      /\ row'[e].lease = Older(row[e].lease)
  BY <1>1 DEF Tick, Rows
<1>3. row[e].lease \in Int /\ MaxLag \in Nat
  BY <1>1, OutboxAssumption DEF Rows
<1>4. row[e].lease > 0
  BY <1>2, <1>3 DEF Older
<1>5. pub' = pub
  BY DEF Tick
<1> QED
  BY <1>2, <1>4, <1>5 DEF RunningLeaseIsHeld, Holds

LEMMA HoldersKept ==
  ASSUME Faults \subseteq {"redis"}, IInv, RunningLeaseIsHeld, [Next]_vars
  PROVE  RunningLeaseIsHeld'
<1> USE OutboxAssumption
<1>1. ASSUME NEW e \in Events, Append(e) PROVE RunningLeaseIsHeld'
  <2>1. row'[e].status = "pending" /\ \A f \in Events : f # e => row'[f] = row[f]
    BY <1>1 DEF Append, IInv, TypeOK, Rows
  <2>2. \A f \in Events : row'[f].status = "publishing" => row'[f] = row[f]
    BY <2>1
  <2>3. pub' = pub
    BY <1>1 DEF Append
  <2> QED
    BY <2>2, <2>3 DEF RunningLeaseIsHeld, Holds
<1>2. ASSUME NEW p \in Publishers, Claim(p) PROVE RunningLeaseIsHeld'
  BY <1>2, ClaimKeepsHolders
<1>3. ASSUME NEW p \in Publishers, NEW e \in Events,
             RejectInvalid(p, e) \/ Enqueue(p, e)
      PROVE  RunningLeaseIsHeld'
  BY <1>3, GotoKeepsHolders DEF RejectInvalid, Enqueue
<1>4. ASSUME NEW p \in Publishers, MarkPublished(p) PROVE RunningLeaseIsHeld'
  <2>1. pub[p].current \in Events /\ 0 \in 0..MaxLag /\ pub[p].pc = "mark"
    BY <1>4, CurrentIsHeld DEF MarkPublished
  <2>2. \/ SetPublished(pub[p].current) /\ Advance(p)
        \/ Goto(p, "retry", pub[p].current) /\ UNCHANGED row
    BY <1>4 DEF MarkPublished
  <2> QED
    BY <2>1, <2>2, SetPublishedWrites, AdvanceKeepsHolders, GotoKeepsHolders
<1>5. ASSUME NEW p \in Publishers, Retry(p) PROVE RunningLeaseIsHeld'
  <2>1. pub[p].current \in Events /\ pub[p].pc = "retry" /\ Advance(p)
    BY <1>5, CurrentIsHeld DEF Retry
  <2>2. PICK lag \in 0..MaxLag :
          \/ \E due \in Int : SetFailed(pub[p].current, due)
          \/ ~HoldsLease(p, lag) /\ UNCHANGED row
    BY <1>5 DEF Retry
  <2>3. \/ WritesOutcome(pub[p].current, "failed")
        \/ ~HoldsLease(p, lag) /\ UNCHANGED row
    BY <2>1, <2>2, OutcomeWrites DEF SetFailed, Statuses
  <2> QED
    BY <2>1, <2>3, AdvanceKeepsHolders
<1>6. ASSUME NEW p \in Publishers, Crash(p) PROVE FALSE
  BY <1>6 DEF Crash
<1>7. CASE Tick
  BY <1>7, TickKeepsHolders
<1>8. CASE UNCHANGED vars
  BY <1>8 DEF vars, RunningLeaseIsHeld, Holds
<1> QED
  BY <1>1, <1>2, <1>3, <1>4, <1>5, <1>6, <1>7, <1>8 DEF Next, Step

\* A claim can lose its run before its lease ends only to a crash or to a
\* statement that failed, or whose answer was lost: whatever else goes wrong, a
\* row in state publishing has its run or may be claimed again.
THEOREM LeaseHasItsRun ==
  ASSUME Faults \subseteq {"redis"}
  PROVE  Spec => []RunningLeaseIsHeld
<1>1. Init => RunningLeaseIsHeld
  BY DEF Init, RunningLeaseIsHeld, NoRow
<1>2. IInv /\ RunningLeaseIsHeld /\ [Next]_vars => RunningLeaseIsHeld'
  BY HoldersKept
<1> QED
  BY Invariance, <1>1, <1>2, PTL DEF Spec

-----------------------------------------------------------------------------
(* The history of a row.                                                   *)

\* What RowHistory says of one row.
HistoryKept(e) ==
  /\ row[e].status # "absent" => row'[e].status # "absent"
  /\ row[e].status = "published" =>
       row'[e].status = "published" /\ row'[e].attempts = row[e].attempts
  /\ row'[e].attempts # row[e].attempts =>
       /\ row'[e].attempts = row[e].attempts + 1
       /\ row'[e].status = "publishing"
       /\ row'[e].token \notin TokensInUse

LEMMA ClaimKeepsHistory ==
  ASSUME IInv, NEW p \in Publishers, Claim(p), NEW e \in Events
  PROVE  HistoryKept(e)
<1>1. PICK lag \in 0..MaxLag : \E S \in Batches(lag) : ClaimRows(p, S, lag)
  BY DEF Claim
<1>2. PICK S \in Batches(lag) : ClaimRows(p, S, lag)
  BY <1>1
<1>3. FreshToken \notin TokensInUse
  BY FreshTokenIsFresh DEF Claim
<1>4. CASE e \notin S
  BY <1>2, <1>4 DEF ClaimRows, HistoryKept
<1>5. CASE e \in S
  <2>1. /\ row'[e] = Claimed(row[e], FreshToken, lag) /\ row[e] \in Rows
        /\ row[e].status \in {"pending", "failed", "publishing"}
    BY <1>2, <1>5 DEF ClaimRows, Batches, Eligible, IInv, TypeOK
  <2>2. /\ row'[e].status = "publishing" /\ row'[e].token = FreshToken
        /\ row'[e].attempts = row[e].attempts + 1
    BY <2>1 DEF Claimed, Rows
  <2> QED
    BY <1>3, <2>1, <2>2 DEF HistoryKept
<1> QED
  BY <1>4, <1>5

\* An outcome is only written over a claim, and counts no attempt.
LEMMA OutcomeKeepsHistory ==
  ASSUME IInv, NEW f \in Events, NEW status \in {"published", "failed"},
         NEW due, row[f].status = "publishing",
         row' = [row EXCEPT ![f] = WithOutcome(row[f], status, due)],
         NEW e \in Events
  PROVE  HistoryKept(e)
<1>1. row \in [Events -> Rows]
  BY DEF IInv, TypeOK
<1>2. CASE e = f
  <2>1. row'[e].status = status /\ row'[e].attempts = row[e].attempts
    BY <1>1, <1>2 DEF WithOutcome
  <2> QED
    BY <1>2, <2>1 DEF HistoryKept
<1>3. CASE e # f
  BY <1>1, <1>3 DEF HistoryKept
<1> QED
  BY <1>2, <1>3

LEMMA StepKeepsHistory ==
  ASSUME IInv, [Next]_vars, NEW e \in Events
  PROVE  HistoryKept(e)
<1> USE OutboxAssumption
<1>1. row[e] \in Rows /\ row \in [Events -> Rows]
  BY DEF IInv, TypeOK
<1>2. ASSUME NEW f \in Events, Append(f) PROVE HistoryKept(e)
  <2>1. row[f].status = "absent" /\ row'[f].status = "pending"
        /\ row'[f].attempts = row[f].attempts
        /\ \A g \in Events : g # f => row'[g] = row[g]
    BY <1>1, <1>2 DEF Append, Rows
  <2> QED
    BY <2>1 DEF HistoryKept
<1>3. CASE UNCHANGED row
  BY <1>3 DEF HistoryKept
<1>4. ASSUME NEW p \in Publishers, MarkPublished(p) PROVE HistoryKept(e)
  <2>1. /\ pub[p].current \in Events
        /\ \/ SetPublished(pub[p].current)
              /\ row[pub[p].current].status = "publishing"
           \/ UNCHANGED row
    BY <1>4, CurrentIsHeld DEF MarkPublished, HoldsLease
  <2> QED
    BY <1>3, <2>1, OutcomeKeepsHistory DEF SetPublished
<1>5. ASSUME NEW p \in Publishers, Retry(p) PROVE HistoryKept(e)
  <2>1. /\ pub[p].current \in Events
        /\ \/ (\E due \in Int : SetFailed(pub[p].current, due))
              /\ row[pub[p].current].status = "publishing"
           \/ UNCHANGED row
    BY <1>5, CurrentIsHeld DEF Retry, HoldsLease
  <2> QED
    BY <1>3, <2>1, OutcomeKeepsHistory DEF SetFailed
<1>6. CASE Tick
  <2>1. row'[e].status = row[e].status /\ row'[e].attempts = row[e].attempts
    BY <1>1, <1>6 DEF Tick, Rows
  <2> QED
    BY <2>1 DEF HistoryKept
<1> QED
  BY <1>2, <1>3, <1>4, <1>5, <1>6, ClaimKeepsHistory
     DEF Next, Step, RejectInvalid, Enqueue, Crash, vars

\* Publication is final, and attempts are the claims: the bound on attempts
\* bounds the claims of an event whatever fails.
THEOREM HistoryIsKept == Spec => RowHistory
<1>1. IInv /\ [Next]_vars =>
        [\A e \in Events :
           /\ row[e].status # "absent" => row'[e].status # "absent"
           /\ row[e].status = "published" =>
                /\ row'[e].status = "published"
                /\ row'[e].attempts = row[e].attempts
           /\ row'[e].attempts # row[e].attempts =>
                /\ row'[e].attempts = row[e].attempts + 1
                /\ row'[e].status = "publishing"
                /\ row'[e].token \notin TokensInUse]_vars
  BY StepKeepsHistory DEF HistoryKept
<1> QED
  BY Invariance, <1>1, PTL DEF Spec, RowHistory

=============================================================================
