-------------------------- MODULE ChallengeProofs ---------------------------
(***************************************************************************)
(* Proofs about Challenge for any number of rows, addresses, bindings and  *)
(* requests in flight, and any numbers of attempts and points.             *)
(***************************************************************************)
EXTENDS Challenge, FiniteSetTheorems, TLAPS

\* The requests that have compared a wrong code with c and not yet recorded it.
Recording(c) == {r \in Requests : request[r].pc = "record" /\ request[r].c = c}

\* While a code still counts, every wrong code that was compared with it is counted, about
\* to be recorded or lost.
Accounted ==
  \A c \in Challenges :
    /\ challenge[c].status = "absent" => wrong[c] = 0
    /\ Counts(c) =>
         wrong[c] <= Attempts - challenge[c].left + Cardinality(Recording(c)) + lost[c]

IInv == TypeOK /\ OneActive /\ Accounted /\ GuessesBounded

-----------------------------------------------------------------------------
(* Requests and what they are recording                                    *)

LEMMA RecordingFinite ==
  ASSUME NEW c
  PROVE  /\ IsFiniteSet(Recording(c)) /\ Cardinality(Recording(c)) \in Nat
         /\ Cardinality(Recording(c)) <= Cardinality(Requests)
         /\ Cardinality(Requests) \in Nat
BY ChallengeAssumption, FS_Subset, FS_CardinalityType DEF Recording

\* Somebody who is not recording is one request more.
LEMMA OtherThanRecording ==
  ASSUME NEW c, NEW r \in Requests, r \notin Recording(c)
  PROVE  Cardinality(Recording(c)) <= Cardinality(Requests) - 1
<1>1. Recording(c) \subseteq Requests \ {r}
  BY DEF Recording
<1>2. /\ IsFiniteSet(Requests \ {r})
      /\ Cardinality(Requests \ {r}) = Cardinality(Requests) - 1
  BY ChallengeAssumption, FS_RemoveElement
<1> QED
  BY <1>1, <1>2, FS_Subset

LEMMA OwnCall ==
  ASSUME request \in [Requests -> Calls], NEW r \in Requests, NEW call \in Calls,
         request' = [request EXCEPT ![r] = call]
  PROVE  /\ request' \in [Requests -> Calls]
         /\ request'[r] = call /\ \A q \in Requests \ {r} : request'[q] = request[q]
OBVIOUS

LEMMA NoCallType == NoCall \in Calls /\ NoCall.pc = "idle"
BY DEF NoCall, Calls

LEMMA NoRowType == NoRow \in Rows /\ NoRow.status = "absent"
BY ChallengeAssumption DEF NoRow, Rows

\* The request goes on without beginning or ending to record.
LEMMA RecordingStays ==
  ASSUME NEW r \in Requests, \A q \in Requests \ {r} : request'[q] = request[q],
         request[r].pc # "record", request'[r].pc # "record", NEW c
  PROVE  Recording(c)' = Recording(c)
BY DEF Recording

-----------------------------------------------------------------------------
(* Types                                                                   *)

LEMMA CallMoves ==
  ASSUME NEW call \in Calls,
         NEW pc \in {"idle", "supersede", "insert", "mail", "find", "record", "complete"},
         NEW c \in Challenges
  PROVE  /\ [call EXCEPT !.pc = pc] \in Calls
         /\ [call EXCEPT !.pc = pc].pc = pc
         /\ [call EXCEPT !.pc = pc].c = call.c /\ [call EXCEPT !.pc = pc].key = call.key
         /\ [call EXCEPT !.pc = pc, !.c = c] \in Calls
         /\ [call EXCEPT !.pc = pc, !.c = c].pc = pc
         /\ [call EXCEPT !.pc = pc, !.c = c].c = c
BY DEF Calls

LEMMA RowMoves ==
  ASSUME NEW row \in Rows,
         NEW status \in {"absent", "active", "superseded", "consumed"}, NEW left \in 0..Attempts
  PROVE  /\ [row EXCEPT !.status = status] \in Rows
         /\ [row EXCEPT !.status = status].status = status
         /\ [row EXCEPT !.status = status].key = row.key
         /\ [row EXCEPT !.status = status].left = row.left
         /\ [row EXCEPT !.left = left] \in Rows
         /\ [row EXCEPT !.left = left].status = row.status
         /\ [row EXCEPT !.left = left].key = row.key
         /\ [row EXCEPT !.left = left].left = left
         /\ [row EXCEPT !.timely = FALSE] \in Rows
         /\ [row EXCEPT !.timely = FALSE].status = row.status
         /\ [row EXCEPT !.timely = FALSE].key = row.key
         /\ [row EXCEPT !.timely = FALSE].left = row.left
BY DEF Rows

LEMMA SpendType ==
  ASSUME used \in [Windows -> Nat], NEW ws, Spend(ws)
  PROVE  used' \in [Windows -> Nat]
BY DEF Spend

CallFine(call) ==
  /\ call.pc \in {"supersede", "insert"} => call.key \in Keys
  /\ call.pc = "find" => call.c \in Challenges /\ call.key \in Keys
  /\ call.pc \in {"mail", "record", "complete"} => call.c \in Challenges

LEMMA TypeStep ==
  ASSUME TypeOK, NEW r \in Requests, NEW call \in Calls, CallFine(call),
         call.pc \in {"mail", "record", "complete"} =>
           challenge'[call.c].status # "absent",
         request' = [request EXCEPT ![r] = call],
         challenge' \in [Challenges -> Rows],
         \A c \in Challenges :
           challenge[c].status # "absent" => challenge'[c].status # "absent",
         used' \in [Windows -> Nat], wrong' \in [Challenges -> Nat],
         lost' \in [Challenges -> Nat], uses' \in [Challenges -> Nat]
  PROVE  TypeOK'
<1>1. /\ request' \in [Requests -> Calls] /\ request'[r] = call
      /\ \A q \in Requests \ {r} : request'[q] = request[q]
  BY OwnCall DEF TypeOK
<1>2. ASSUME NEW q \in Requests
      PROVE  /\ request'[q].pc \in {"supersede", "insert"} => request'[q].key \in Keys
             /\ request'[q].pc = "find" =>
                  request'[q].c \in Challenges /\ request'[q].key \in Keys
             /\ request'[q].pc \in {"mail", "record", "complete"} =>
                  /\ request'[q].c \in Challenges
                  /\ challenge'[request'[q].c].status # "absent"
  <2>1. CASE q = r
    BY <1>1, <2>1 DEF CallFine
  <2>2. CASE q # r
    BY <1>1, <2>2 DEF TypeOK
  <2> QED
    BY <2>1, <2>2
<1> QED
  BY <1>1, <1>2 DEF TypeOK

-----------------------------------------------------------------------------
(* Steps                                                                   *)

\* No row becomes active, and what counts still counts as much.
Weaker ==
  \A c \in Challenges :
    /\ challenge[c].status # "absent" => challenge'[c].status # "absent"
    /\ challenge'[c].status = "absent" => challenge[c].status = "absent"
    /\ IsActive(c)' => IsActive(c) /\ challenge'[c].key = challenge[c].key
    /\ Counts(c)' => challenge'[c].left = challenge[c].left

LEMMA WeakerKeeps ==
  ASSUME IInv, Weaker, UNCHANGED <<wrong, lost>>,
         \A c \in Challenges : Recording(c)' = Recording(c)
  PROVE  OneActive' /\ Accounted' /\ GuessesBounded'
<1>1. OneActive'
  BY DEF IInv, OneActive, Weaker
<1>2. ASSUME NEW c \in Challenges
      PROVE  /\ challenge'[c].status = "absent" => wrong'[c] = 0
             /\ Counts(c)' => wrong'[c] <= Attempts - challenge'[c].left
                                + Cardinality(Recording(c)') + lost'[c]
  <2>1. Counts(c)' => Counts(c)
    BY DEF Counts, Weaker
  <2> QED
    BY <2>1 DEF IInv, Accounted, Weaker
<1>3. Accounted'
  BY <1>2 DEF Accounted
<1>4. GuessesBounded'
  BY DEF IInv, GuessesBounded
<1> QED
  BY <1>1, <1>3, <1>4

LEMMA SameIsWeaker ==
  ASSUME challenge' = challenge
  PROVE  Weaker
BY DEF Weaker, IsActive

\* A request goes on, neither recording before nor afterwards.
LEMMA QuietStep ==
  ASSUME IInv, NEW r \in Requests, NEW call \in Calls, CallFine(call),
         call.pc \in {"mail", "complete"} => challenge'[call.c].status # "absent",
         call.pc # "record", request[r].pc # "record",
         request' = [request EXCEPT ![r] = call],
         challenge' \in [Challenges -> Rows], Weaker,
         UNCHANGED <<wrong, lost>>,
         used' \in [Windows -> Nat], uses' \in [Challenges -> Nat]
  PROVE  IInv'
<1>1. TypeOK'
  BY TypeStep DEF IInv, TypeOK, Weaker
<1>2. request'[r] = call /\ \A q \in Requests \ {r} : request'[q] = request[q]
  BY OwnCall DEF IInv, TypeOK
<1>3. \A c \in Challenges : Recording(c)' = Recording(c)
  BY <1>2, RecordingStays
<1> QED
  BY <1>1, <1>3, WeakerKeeps DEF IInv

\* Only the limiter, the rows or the history move.
LEMMA CallsStay ==
  ASSUME IInv, UNCHANGED <<request, wrong, lost>>, Weaker,
         challenge' \in [Challenges -> Rows],
         used' \in [Windows -> Nat], uses' \in [Challenges -> Nat]
  PROVE  IInv'
<1>1. \A c \in Challenges : Recording(c)' = Recording(c)
  BY DEF Recording
<1>2. TypeOK'
  BY DEF IInv, TypeOK, Weaker
<1> QED
  BY <1>1, <1>2, WeakerKeeps DEF IInv

LEMMA LimitStep ==
  ASSUME IInv, NEW r \in Requests, NEW ws, NEW call \in Calls, CallFine(call),
         call.pc \in {"supersede", "find"}, Limit(r, ws, call)
  PROVE  IInv'
<1>1. used' \in [Windows -> Nat]
  <2>1. \A charged : Spend(charged) => used' \in [Windows -> Nat]
    BY SpendType DEF IInv, TypeOK
  <2> QED
    BY <2>1 DEF Limit
<1>2. Weaker /\ challenge' \in [Challenges -> Rows] /\ uses' \in [Challenges -> Nat]
  BY SameIsWeaker DEF Limit, IInv, TypeOK
<1>3. CASE request' = request
  BY <1>1, <1>2, <1>3, CallsStay DEF Limit
<1>4. CASE request' = [request EXCEPT ![r] = call]
  BY <1>1, <1>2, <1>4, QuietStep DEF Limit
<1> QED
  BY <1>3, <1>4 DEF Limit

LEMMA RequestStep ==
  ASSUME IInv, NEW r \in Requests, NEW key \in Keys, Request(r, key)
  PROVE  IInv'
<1> DEFINE call == [pc |-> "supersede", key |-> key, c |-> NoChallenge]
<1>1. call \in Calls /\ CallFine(call) /\ call.pc = "supersede"
  BY DEF Calls, CallFine
<1> QED
  BY <1>1, LimitStep DEF Request

LEMMA VerifyStep ==
  ASSUME IInv, NEW r \in Requests, NEW c \in Challenges, NEW key \in Keys, Verify(r, c, key)
  PROVE  IInv'
<1> DEFINE call == [pc |-> "find", key |-> key, c |-> c]
<1>1. call \in Calls /\ CallFine(call) /\ call.pc = "find"
  BY DEF Calls, CallFine
<1> QED
  BY <1>1, LimitStep DEF Verify

LEMMA SupersedeStep ==
  ASSUME IInv, NEW r \in Requests, Supersede(r)
  PROVE  IInv'
<1> DEFINE call == [request[r] EXCEPT !.pc = "insert"]
<1>1. request[r] \in Calls /\ request[r].pc = "supersede" /\ request[r].key \in Keys
  BY DEF Supersede, IInv, TypeOK
<1>2. call \in Calls /\ call.pc = "insert" /\ call.key = request[r].key
  BY <1>1 DEF Calls
<1>3. CallFine(call)
  BY <1>1, <1>2 DEF CallFine
<1>4. ASSUME NEW c \in Challenges
      PROVE  /\ challenge'[c] \in Rows
             /\ challenge'[c] = challenge[c] \/ (IsActive(c) /\ challenge'[c].status = "superseded")
  <2>1. challenge[c] \in Rows
    BY DEF IInv, TypeOK
  <2>2. challenge'[c] \in {challenge[c], [challenge[c] EXCEPT !.status = "superseded"]}
        /\ (challenge'[c] # challenge[c] => IsActive(c))
    BY DEF Supersede
  <2>3. 0 \in 0..Attempts
    BY ChallengeAssumption
  <2>4. /\ [challenge[c] EXCEPT !.status = "superseded"] \in Rows
        /\ [challenge[c] EXCEPT !.status = "superseded"].status = "superseded"
    BY <2>1, <2>3, RowMoves
  <2> QED
    BY <2>1, <2>2, <2>4
<1>5. challenge' \in [Challenges -> Rows]
  BY <1>4 DEF Supersede
<1>6. Weaker
  BY <1>4 DEF Weaker, IsActive, Counts
<1> HIDE DEF call
<1>7. request' = [request EXCEPT ![r] = call]
  BY DEF Supersede, call
<1>8. UNCHANGED <<used, wrong, lost, uses>>
  BY DEF Supersede
<1> QED
  BY <1>1, <1>2, <1>3, <1>5, <1>6, <1>7, <1>8, QuietStep DEF IInv, TypeOK

\* The new row counts in full, and nobody has compared anything with it.
LEMMA InsertStep ==
  ASSUME IInv, NEW r \in Requests, NEW c \in Challenges, Insert(r, c)
  PROVE  IInv'
<1> DEFINE call == [request[r] EXCEPT !.pc = "mail", !.c = c]
           row == [status |-> "active", key |-> request[r].key, left |-> Attempts,
                   timely |-> TRUE]
<1>1. /\ request[r] \in Calls /\ request[r].pc = "insert" /\ request[r].key \in Keys
      /\ challenge \in [Challenges -> Rows] /\ challenge[c].status = "absent"
      /\ UNCHANGED <<used, wrong, lost, uses>>
  BY DEF Insert, IInv, TypeOK
<1>2. CASE Ends(r) /\ UNCHANGED challenge
  <2>1. CallFine(NoCall)
    BY DEF CallFine, NoCall
  <2> QED
    BY <1>1, <1>2, <2>1, NoCallType, SameIsWeaker, QuietStep DEF Ends, IInv, TypeOK
<1>3. CASE KeyFree(request[r].key) /\ challenge' = [challenge EXCEPT ![c] = row]
           /\ request' = [request EXCEPT ![r] = call]
  <2>1. call \in Calls /\ call.pc = "mail" /\ call.c = c
    BY <1>1 DEF Calls
  <2>2. row \in Rows
    BY <1>1, ChallengeAssumption DEF Rows
  <2> HIDE DEF call
  <2>3. /\ challenge' \in [Challenges -> Rows] /\ challenge'[c] = row
        /\ \A d \in Challenges \ {c} : challenge'[d] = challenge[d]
    BY <1>1, <1>3, <2>2
  <2>4. TypeOK'
    <3>1. \A d \in Challenges :
            challenge[d].status # "absent" => challenge'[d].status # "absent"
      BY <1>1, <2>3
    <3>2. CallFine(call) /\ challenge'[call.c].status # "absent"
      BY <2>1, <2>3 DEF CallFine
    <3> QED
      BY <1>1, <1>3, <2>1, <2>3, <3>1, <3>2, TypeStep DEF IInv, TypeOK
  <2>5. OneActive'
    BY <1>3, <2>3 DEF IInv, OneActive, KeyFree, IsActive
  <2>6. \A d \in Challenges : Recording(d)' = Recording(d)
    <3>1. request'[r] = call /\ \A q \in Requests \ {r} : request'[q] = request[q]
      BY <1>3, <2>1, OwnCall DEF IInv, TypeOK
    <3> QED
      BY <1>1, <2>1, <3>1, RecordingStays
  <2>7. ASSUME NEW d \in Challenges
        PROVE  /\ challenge'[d].status = "absent" => wrong'[d] = 0
               /\ Counts(d)' => wrong'[d] <= Attempts - challenge'[d].left
                                  + Cardinality(Recording(d)') + lost'[d]
    <3>1. CASE d = c
      <4>1. wrong'[d] = 0 /\ lost'[d] \in Nat
        BY <1>1, <3>1 DEF IInv, Accounted, TypeOK
      <4>2. Cardinality(Recording(d)') \in Nat
        BY <2>6, RecordingFinite
      <4> QED
        BY <2>3, <3>1, <4>1, <4>2, ChallengeAssumption
    <3>2. CASE d # c
      BY <1>1, <2>3, <2>6, <3>2 DEF IInv, Accounted, Counts, IsActive
    <3> QED
      BY <3>1, <3>2
  <2>8. Accounted'
    BY <2>7 DEF Accounted
  <2>9. GuessesBounded'
    BY <1>1 DEF IInv, GuessesBounded
  <2> QED
    BY <2>4, <2>5, <2>8, <2>9 DEF IInv
<1> QED
  BY <1>2, <1>3 DEF Insert

\* A step that ends a request which records nothing.
LEMMA EndStep ==
  ASSUME IInv, NEW r \in Requests, Ends(r), request[r].pc # "record", Weaker,
         challenge' \in [Challenges -> Rows], UNCHANGED <<used, wrong, lost>>,
         uses' \in [Challenges -> Nat]
  PROVE  IInv'
<1>1. CallFine(NoCall)
  BY DEF CallFine, NoCall
<1> QED
  BY <1>1, NoCallType, QuietStep DEF Ends, IInv, TypeOK

LEMMA EnqueueStep ==
  ASSUME IInv, NEW r \in Requests, Enqueue(r)
  PROVE  IInv'
BY EndStep, SameIsWeaker DEF Enqueue, IInv, TypeOK

\* Whoever compares a code was not recording yet: that is one request less, and an
\* attempt was left.
LEMMA FindStep ==
  ASSUME IInv, NEW r \in Requests, Find(r)
  PROVE  IInv'
<1>0. PICK c \in Challenges : c = request[r].c
  BY DEF Find, IInv, TypeOK
<1> DEFINE right == [request[r] EXCEPT !.pc = "complete"]
           mistaken == [request[r] EXCEPT !.pc = "record"]
<1>1. /\ request[r] \in Calls /\ request[r].pc = "find" /\ c = request[r].c
      /\ challenge \in [Challenges -> Rows]
      /\ UNCHANGED <<challenge, used, lost, uses>>
  BY <1>0 DEF Find, IInv, TypeOK
<1>2. /\ right \in Calls /\ right.pc = "complete" /\ right.c = c
      /\ mistaken \in Calls /\ mistaken.pc = "record" /\ mistaken.c = c
  BY <1>1, CallMoves
<1>3. CallFine(right) /\ CallFine(mistaken)
  BY <1>1, <1>2 DEF CallFine
<1>4. Usable(c, request[r].key) => IsActive(c) /\ Counts(c) /\ challenge[c].status # "absent"
  BY DEF Usable, Counts, IsActive
<1>5. CASE Ends(r) /\ UNCHANGED wrong
  BY <1>1, <1>5, EndStep, SameIsWeaker DEF IInv, TypeOK
<1>6. CASE Usable(c, request[r].key) /\ request' = [request EXCEPT ![r] = right]
           /\ UNCHANGED wrong
  <2> HIDE DEF right
  <2> QED
    BY <1>1, <1>2, <1>3, <1>4, <1>6, QuietStep, SameIsWeaker DEF IInv, TypeOK
<1>7. CASE Usable(c, request[r].key) /\ request' = [request EXCEPT ![r] = mistaken]
           /\ wrong' = [wrong EXCEPT ![c] = wrong[c] + 1]
  <2> HIDE DEF mistaken, right
  <2>1. /\ wrong' \in [Challenges -> Nat] /\ wrong'[c] = wrong[c] + 1
        /\ \A d \in Challenges \ {c} : wrong'[d] = wrong[d]
    BY <1>1, <1>7 DEF IInv, TypeOK
  <2>2. TypeOK'
    BY <1>1, <1>2, <1>3, <1>4, <1>7, <2>1, TypeStep DEF IInv, TypeOK
  <2>3. request'[r] = mistaken /\ \A q \in Requests \ {r} : request'[q] = request[q]
    BY <1>2, <1>7, OwnCall DEF IInv, TypeOK
  <2>4. Recording(c)' = Recording(c) \cup {r} /\ r \notin Recording(c)
    BY <1>1, <1>2, <2>3 DEF Recording
  <2>5. \A d \in Challenges \ {c} : Recording(d)' = Recording(d)
    BY <1>1, <1>2, <2>3 DEF Recording
  <2>6. /\ Cardinality(Recording(c)') = Cardinality(Recording(c)) + 1
        /\ Cardinality(Recording(c)) \in Nat
        /\ Cardinality(Recording(c)) <= Cardinality(Requests) - 1
        /\ Cardinality(Requests) \in Nat
    <3>1. IsFiniteSet(Recording(c)) /\ Cardinality(Recording(c)) \in Nat
      BY RecordingFinite
    <3> QED
      BY <2>4, <3>1, FS_AddElement, OtherThanRecording, RecordingFinite
  <2>7. /\ wrong[c] <= Attempts - challenge[c].left + Cardinality(Recording(c)) + lost[c]
        /\ challenge[c].left \in 1..Attempts /\ lost[c] \in Nat /\ wrong[c] \in Nat
        /\ challenge[c].status # "absent"
    BY <1>1, <1>4, <1>7 DEF IInv, Accounted, TypeOK, Rows, Counts
  <2>8a. /\ challenge'[c].status # "absent"
         /\ wrong'[c] <= Attempts - challenge'[c].left + Cardinality(Recording(c)') + lost'[c]
    <3> DEFINE n == Cardinality(Recording(c))
    <3>1. challenge' = challenge /\ lost' = lost
      BY <1>1
    <3>2. n \in Nat /\ Cardinality(Recording(c)') = n + 1
      BY <2>6
    <3> HIDE DEF n
    <3>3. wrong[c] <= Attempts - challenge[c].left + n + lost[c]
      BY <2>7 DEF n
    <3> QED
      BY <2>1, <2>7, <3>1, <3>2, <3>3, ChallengeAssumption
  <2>8. ASSUME NEW d \in Challenges
        PROVE  /\ challenge'[d].status = "absent" => wrong'[d] = 0
               /\ Counts(d)' => wrong'[d] <= Attempts - challenge'[d].left
                                  + Cardinality(Recording(d)') + lost'[d]
    <3>1. CASE d = c
      BY <2>8a, <3>1
    <3>2. CASE d # c
      BY <1>1, <2>1, <2>5, <3>2 DEF IInv, Accounted, Counts, IsActive
    <3> QED
      BY <3>1, <3>2
  <2>9. Accounted'
    BY <2>8 DEF Accounted
  <2>10. ASSUME NEW d \in Challenges
         PROVE  wrong'[d] <= Attempts + (Cardinality(Requests) - 1) + lost'[d]
    <3>1. CASE d = c
      BY <1>1, <2>1, <2>6, <2>7, <3>1, ChallengeAssumption
    <3>2. CASE d # c
      BY <1>1, <2>1, <3>2 DEF IInv, GuessesBounded
    <3> QED
      BY <3>1, <3>2
  <2>11. OneActive'
    BY <1>1 DEF IInv, OneActive, IsActive
  <2> QED
    BY <2>2, <2>9, <2>10, <2>11 DEF IInv, GuessesBounded
<1> QED
  BY <1>1, <1>5, <1>6, <1>7 DEF Find, MoveTo

LEMMA RecordingEnds ==
  ASSUME TypeOK, NEW r \in Requests, NEW c \in Challenges, request[r].pc = "record",
         request[r].c = c, Ends(r)
  PROVE  /\ Cardinality(Recording(c)') = Cardinality(Recording(c)) - 1
         /\ Cardinality(Recording(c)) \in Nat
         /\ \A d \in Challenges \ {c} : Recording(d)' = Recording(d)
<1>1. request'[r] = NoCall /\ \A q \in Requests \ {r} : request'[q] = request[q]
  BY NoCallType, OwnCall DEF Ends, TypeOK
<1>2. Recording(c)' = Recording(c) \ {r} /\ r \in Recording(c)
  BY <1>1, NoCallType DEF Recording
<1>3. Cardinality(Recording(c)') = Cardinality(Recording(c)) - 1
  BY <1>2, RecordingFinite, FS_RemoveElement
<1>4. \A d \in Challenges \ {c} : Recording(d)' = Recording(d)
  BY <1>1, NoCallType DEF Recording
<1> QED
  BY <1>3, <1>4, RecordingFinite

\* A failure leaves the account of its code as an attempt, or as one that is lost.
LEMMA AccountStep ==
  ASSUME IInv, NEW r \in Requests, NEW c \in Challenges, request[r].pc = "record",
         request[r].c = c, Ends(r),
         challenge' \in [Challenges -> Rows], lost' \in [Challenges -> Nat],
         \A d \in Challenges \ {c} : challenge'[d] = challenge[d] /\ lost'[d] = lost[d],
         challenge'[c].status = challenge[c].status, challenge'[c].key = challenge[c].key,
         challenge'[c].left <= challenge[c].left, lost'[c] >= lost[c],
         Counts(c) => challenge'[c].left + 1 <= challenge[c].left + (lost'[c] - lost[c]),
         UNCHANGED <<used, wrong, uses>>
  PROVE  IInv'
<1>1. /\ Cardinality(Recording(c)') = Cardinality(Recording(c)) - 1
      /\ Cardinality(Recording(c)) \in Nat
      /\ \A d \in Challenges \ {c} : Recording(d)' = Recording(d)
  BY RecordingEnds DEF IInv
<1>2. TypeOK'
  <2>1. CallFine(NoCall)
    BY DEF CallFine, NoCall
  <2> QED
    BY <2>1, NoCallType, TypeStep DEF Ends, IInv, TypeOK
<1>3. /\ challenge[c] \in Rows /\ challenge'[c] \in Rows
      /\ lost[c] \in Nat /\ lost'[c] \in Nat /\ wrong[c] \in Nat
  BY DEF IInv, TypeOK
<1>4. challenge[c].left \in Int /\ challenge'[c].left \in Int
  BY <1>3, ChallengeAssumption DEF Rows
<1>5. Counts(c)' => wrong'[c] <= Attempts - challenge'[c].left
                                   + Cardinality(Recording(c)') + lost'[c]
  <2>1. SUFFICES ASSUME Counts(c)'
                 PROVE  wrong[c] <= Attempts - challenge'[c].left
                                     + (Cardinality(Recording(c)) - 1) + lost'[c]
    BY <1>1
  <2>2. Counts(c)
    BY <1>4, <2>1 DEF Counts, IsActive
  <2>3. wrong[c] <= Attempts - challenge[c].left + Cardinality(Recording(c)) + lost[c]
    BY <2>2 DEF IInv, Accounted
  <2> DEFINE n == Cardinality(Recording(c))
  <2>4. n \in Nat
    BY <1>1
  <2>5. challenge'[c].left + 1 <= challenge[c].left + (lost'[c] - lost[c])
    BY <2>2
  <2> HIDE DEF n
  <2>6. wrong[c] <= Attempts - challenge[c].left + n + lost[c]
    BY <2>3 DEF n
  <2>7. wrong[c] <= Attempts - challenge'[c].left + (n - 1) + lost'[c]
    BY <1>3, <1>4, <2>4, <2>5, <2>6, ChallengeAssumption
  <2> QED
    BY <2>7 DEF n
<1>6. ASSUME NEW d \in Challenges
      PROVE  /\ challenge'[d].status = "absent" => wrong'[d] = 0
             /\ Counts(d)' => wrong'[d] <= Attempts - challenge'[d].left
                                + Cardinality(Recording(d)') + lost'[d]
  <2>1. CASE d = c
    BY <1>5, <2>1 DEF IInv, Accounted
  <2>2. CASE d # c
    BY <1>1, <2>2 DEF IInv, Accounted, Counts, IsActive
  <2> QED
    BY <2>1, <2>2
<1>7. ASSUME NEW d \in Challenges
      PROVE  wrong'[d] <= Attempts + (Cardinality(Requests) - 1) + lost'[d]
  <2>1. lost'[d] >= lost[d] /\ lost'[d] \in Nat /\ lost[d] \in Nat /\ wrong[d] \in Nat
    BY DEF IInv, TypeOK
  <2>2. wrong[d] <= Attempts + (Cardinality(Requests) - 1) + lost[d] /\ wrong'[d] = wrong[d]
    BY DEF IInv, GuessesBounded
  <2> QED
    BY <2>1, <2>2, RecordingFinite, ChallengeAssumption
<1>8. OneActive'
  BY DEF IInv, OneActive, IsActive
<1> QED
  BY <1>2, <1>6, <1>7, <1>8 DEF IInv, Accounted, GuessesBounded

LEMMA RecordFailureStep ==
  ASSUME IInv, NEW r \in Requests, RecordFailure(r)
  PROVE  IInv'
<1>1. PICK c \in Challenges : c = request[r].c
  BY DEF RecordFailure, IInv, TypeOK
<1>2. /\ request[r].pc = "record" /\ Ends(r) /\ UNCHANGED <<used, wrong, lost, uses>>
      /\ challenge \in [Challenges -> Rows] /\ challenge[c] \in Rows
      /\ lost \in [Challenges -> Nat]
  BY DEF RecordFailure, IInv, TypeOK
<1>3. challenge[c].left \in 0..Attempts
  BY <1>2 DEF Rows
<1>4. CASE ~Counts(c) /\ UNCHANGED challenge
  BY <1>1, <1>2, <1>3, <1>4, AccountStep, ChallengeAssumption
<1>5. CASE Counts(c) /\ challenge' = [challenge EXCEPT ![c] =
                          [challenge[c] EXCEPT !.left = challenge[c].left - 1]]
  <2> DEFINE row == [challenge[c] EXCEPT !.left = challenge[c].left - 1]
  <2>1. challenge[c].left - 1 \in 0..Attempts
    BY <1>3, <1>5, ChallengeAssumption DEF Counts
  <2>2. /\ row \in Rows /\ row.status = challenge[c].status /\ row.key = challenge[c].key
        /\ row.left = challenge[c].left - 1
    BY <1>2, <2>1 DEF Rows
  <2>3. challenge' = [challenge EXCEPT ![c] = row]
    BY <1>5
  <2> HIDE DEF row
  <2>4. /\ challenge' \in [Challenges -> Rows] /\ challenge'[c] = row
        /\ \A d \in Challenges \ {c} : challenge'[d] = challenge[d]
    BY <1>2, <2>2, <2>3
  <2>5. lost[c] \in Nat
    BY <1>2
  <2> QED
    BY <1>1, <1>2, <1>3, <2>2, <2>4, <2>5, AccountStep, ChallengeAssumption
<1> QED
  BY <1>1, <1>4, <1>5 DEF RecordFailure

LEMMA AbandonStep ==
  ASSUME IInv, NEW r \in Requests, Abandon(r)
  PROVE  IInv'
<1>1. /\ Ends(r) /\ UNCHANGED <<challenge, used, wrong, uses>>
      /\ challenge \in [Challenges -> Rows] /\ lost \in [Challenges -> Nat]
      /\ uses \in [Challenges -> Nat]
  BY DEF Abandon, IInv, TypeOK
<1>2. CASE request[r].pc # "record" /\ UNCHANGED lost
  BY <1>1, <1>2, EndStep, SameIsWeaker
<1>3. CASE request[r].pc = "record" /\ lost' = [lost EXCEPT ![request[r].c] = lost[request[r].c] + 1]
  <2>1. PICK c \in Challenges : c = request[r].c
    BY <1>3 DEF IInv, TypeOK
  <2>2. /\ lost' \in [Challenges -> Nat] /\ lost'[c] = lost[c] + 1 /\ lost[c] \in Nat
        /\ \A d \in Challenges \ {c} : lost'[d] = lost[d]
    BY <1>1, <1>3, <2>1
  <2>3. challenge[c].left \in 0..Attempts
    BY <1>1 DEF Rows
  <2> QED
    BY <1>1, <1>3, <2>1, <2>2, <2>3, AccountStep, ChallengeAssumption
<1> QED
  BY <1>2, <1>3 DEF Abandon

LEMMA ConsumeShape ==
  ASSUME IInv, NEW c \in Challenges, Consume(c)
  PROVE  /\ IsActive(c) /\ challenge' \in [Challenges -> Rows]
         /\ challenge'[c].status = "consumed" /\ challenge'[c].key = challenge[c].key
         /\ \A d \in Challenges \ {c} : challenge'[d] = challenge[d]
         /\ uses' \in [Challenges -> Nat]
<1> DEFINE row == [challenge[c] EXCEPT !.status = "consumed"]
<1>1. challenge[c] \in Rows /\ challenge \in [Challenges -> Rows] /\ uses \in [Challenges -> Nat]
  BY DEF IInv, TypeOK
<1>2. row \in Rows /\ row.status = "consumed" /\ row.key = challenge[c].key
  BY <1>1 DEF Rows
<1>3. challenge' = [challenge EXCEPT ![c] = row]
  BY DEF Consume
<1> HIDE DEF row
<1> QED
  BY <1>1, <1>2, <1>3 DEF Consume, Counts

LEMMA CompleteStep ==
  ASSUME IInv, NEW r \in Requests, Complete(r)
  PROVE  IInv'
<1>1. PICK c \in Challenges : c = request[r].c
  BY DEF Complete, IInv, TypeOK
<1>2. request[r].pc = "complete" /\ Ends(r) /\ UNCHANGED <<used, wrong, lost>>
  BY DEF Complete
<1>3. CASE Consume(c)
  <2>1. Weaker
    BY <1>3, ConsumeShape DEF Weaker, IsActive, Counts
  <2> QED
    BY <1>2, <1>3, <2>1, ConsumeShape, EndStep
<1>4. CASE UNCHANGED <<challenge, uses>>
  BY <1>2, <1>4, EndStep, SameIsWeaker DEF IInv, TypeOK
<1> QED
  BY <1>1, <1>3, <1>4 DEF Complete

LEMMA LapseShape ==
  ASSUME IInv, NEW c \in Challenges, Lapse(c)
  PROVE  /\ challenge' \in [Challenges -> Rows]
         /\ \A d \in Challenges :
              /\ challenge'[d].status = challenge[d].status
              /\ challenge'[d].key = challenge[d].key
              /\ challenge'[d].left = challenge[d].left
<1> DEFINE row == [challenge[c] EXCEPT !.timely = FALSE]
<1>1. challenge[c] \in Rows /\ challenge \in [Challenges -> Rows]
  BY DEF IInv, TypeOK
<1>2. /\ row \in Rows /\ row.status = challenge[c].status /\ row.key = challenge[c].key
      /\ row.left = challenge[c].left
  BY <1>1 DEF Rows
<1>3. challenge' = [challenge EXCEPT ![c] = row]
  BY DEF Lapse
<1> HIDE DEF row
<1> QED
  BY <1>1, <1>2, <1>3

LEMMA LapseStep ==
  ASSUME IInv, NEW c \in Challenges, Lapse(c)
  PROVE  IInv'
<1>1. Weaker
  BY LapseShape DEF Weaker, IsActive
<1> QED
  BY <1>1, LapseShape, CallsStay DEF Lapse, IInv, TypeOK

LEMMA WindowStep ==
  ASSUME IInv, NEW w \in Windows, WindowEnds(w)
  PROVE  IInv'
<1>1. used' \in [Windows -> Nat]
  BY DEF WindowEnds, IInv, TypeOK
<1> QED
  BY <1>1, SameIsWeaker, CallsStay DEF WindowEnds, IInv, TypeOK

LEMMA InvariantFirst == Init => IInv
<1> SUFFICES ASSUME Init
             PROVE  IInv
  OBVIOUS
<1>1. TypeOK
  BY NoCallType, NoRowType DEF Init, TypeOK
<1>2. Cardinality(Requests) \in Nat /\ Cardinality(Requests) >= 1
  <2>1. Cardinality(Requests) \in Nat /\ Cardinality(Requests) # 0
    BY ChallengeAssumption, FS_CardinalityType, FS_EmptySet
  <2> QED
    BY <2>1
<1> QED
  BY <1>1, <1>2, NoRowType, ChallengeAssumption
  DEF Init, IInv, OneActive, Accounted, GuessesBounded, IsActive, Counts

LEMMA Invariance == Spec => []IInv
<1>1. IInv /\ [Next]_vars => IInv'
  <2> SUFFICES ASSUME IInv, [Next]_vars
               PROVE  IInv'
    OBVIOUS
  <2>1. CASE UNCHANGED vars
    BY <2>1, CallsStay, SameIsWeaker DEF vars, IInv, TypeOK
  <2>2. CASE Next
    BY <2>2, RequestStep, VerifyStep, SupersedeStep, EnqueueStep, InsertStep, FindStep,
       RecordFailureStep, CompleteStep, AbandonStep, LapseStep, WindowStep DEF Next
  <2> QED
    BY <2>1, <2>2
<1> QED
  BY <1>1, InvariantFirst, PTL DEF Spec

\* Rows, windows and requests keep their form, and whoever mails, records or completes
\* has a row (otp.service.ts, identity.ts).
THEOREM TypeCorrect == Spec => []TypeOK
<1>1. IInv => TypeOK
  BY DEF IInv
<1> QED
  BY <1>1, Invariance, PTL

\* Two requests at once never leave two working codes for one key (identity.ts:366 and
\* the unique indexes of schema/identity.ts).
THEOREM OneCode == Spec => []OneActive
<1>1. IInv => OneActive
  BY DEF IInv
<1> QED
  BY <1>1, Invariance, PTL

\* Reading the attempts and counting a failure are two statements (otp.service.ts:213,
\* 231); still no more codes are compared than attempts, further requests and lost
\* failures make.
THEOREM Guesses == Spec => []GuessesBounded
<1>1. IInv => GuessesBounded
  BY DEF IInv
<1> QED
  BY <1>1, Invariance, PTL

-----------------------------------------------------------------------------
(* One-time codes                                                          *)

LEMMA WorthOf ==
  ASSUME NEW c \in Challenges
  PROVE  /\ Holder[c] = challenge[c].key
         /\ challenge[c].status = "absent" => Worth[c] = "absent"
         /\ challenge[c].status = "active" => Worth[c] = "valid"
         /\ challenge[c].status = "superseded" => Worth[c] = "void"
         /\ challenge[c].status = "consumed" => Worth[c] = "used"
BY DEF Worth, Holder

LEMMA StatusFromWorth ==
  ASSUME TypeOK, NEW c \in Challenges
  PROVE  Worth[c] = "valid" <=> IsActive(c)
<1>1. challenge[c].status \in {"absent", "active", "superseded", "consumed"}
  BY DEF TypeOK, Rows
<1> QED
  BY <1>1, WorthOf DEF IsActive

LEMMA SameWorth ==
  ASSUME \A c \in Challenges :
           challenge'[c].status = challenge[c].status /\ challenge'[c].key = challenge[c].key
  PROVE  UNCHANGED <<Worth, Holder>>
BY DEF Worth, Holder

LEMMA OneWorth ==
  ASSUME NEW c \in Challenges, NEW v, Worth'[c] = v,
         \A d \in Challenges \ {c} : challenge'[d] = challenge[d]
  PROVE  Worth' = [Worth EXCEPT ![c] = v]
<1> DEFINE V == Worth
           W == Worth'
<1>1. V = [d \in Challenges |-> V[d]] /\ W = [d \in Challenges |-> W[d]]
  BY DEF Worth
<1>2. \A d \in Challenges \ {c} : W[d] = V[d]
  BY DEF Worth
<1>3. W[c] = v
  OBVIOUS
<1> HIDE DEF V, W
<1>4. W = [V EXCEPT ![c] = v]
  BY <1>1, <1>2, <1>3
<1> QED
  BY <1>4 DEF V, W

LEMMA SupersedeIsVoid ==
  ASSUME TypeOK, NEW r \in Requests, Supersede(r)
  PROVE  O!Void(request[r].key)
<1> DEFINE key == request[r].key
           Voided(c) == [challenge[c] EXCEPT !.status = "superseded"]
<1>1. ASSUME NEW c \in Challenges
      PROVE  /\ challenge[c] \in Rows
             /\ Voided(c).status = "superseded" /\ Voided(c).key = challenge[c].key
  BY DEF TypeOK, Rows
<1>2. ASSUME NEW c \in Challenges
      PROVE  challenge'[c] = IF IsActive(c) /\ challenge[c].key = key
                             THEN Voided(c) ELSE challenge[c]
  BY DEF Supersede
<1> HIDE DEF Voided
<1>3. \A c \in Challenges : challenge'[c].key = challenge[c].key
  BY <1>1, <1>2
<1>4. Holder' = Holder
  BY <1>3 DEF Holder
<1>5. ASSUME NEW c \in Challenges
      PROVE  Worth'[c] = IF Worth[c] = "valid" /\ Holder[c] = key THEN "void" ELSE Worth[c]
  <2>1. challenge'[c].status = "superseded" => Worth'[c] = "void"
    BY DEF Worth
  <2>2. challenge'[c] = challenge[c] => Worth'[c] = Worth[c]
    BY DEF Worth
  <2> QED
    BY <1>1, <1>2, <2>1, <2>2, StatusFromWorth, WorthOf
<1>6. Worth' = [c \in Challenges |-> Worth'[c]]
  BY DEF Worth
<1>7. Worth' = [c \in Challenges |->
                 IF Worth[c] = "valid" /\ Holder[c] = key THEN "void" ELSE Worth[c]]
  <2> DEFINE W == Worth'
  <2>1. W = [c \in Challenges |-> W[c]]
    BY <1>6
  <2>2. \A c \in Challenges :
          W[c] = IF Worth[c] = "valid" /\ Holder[c] = key THEN "void" ELSE Worth[c]
    BY <1>5
  <2> HIDE DEF W
  <2>3. W = [c \in Challenges |->
               IF Worth[c] = "valid" /\ Holder[c] = key THEN "void" ELSE Worth[c]]
    BY <2>1, <2>2
  <2> QED
    BY <2>3 DEF W
<1> QED
  BY <1>4, <1>7 DEF O!Void, Supersede

LEMMA InsertIsIssue ==
  ASSUME TypeOK, NEW r \in Requests, NEW c \in Challenges, Insert(r, c)
  PROVE  O!Next \/ UNCHANGED <<Worth, Holder, uses>>
<1> DEFINE key == request[r].key
           row == [status |-> "active", key |-> key, left |-> Attempts, timely |-> TRUE]
<1>1. challenge[c].status = "absent" /\ UNCHANGED uses /\ key \in Keys
  BY DEF Insert, TypeOK
<1>2. CASE UNCHANGED challenge
  BY <1>1, <1>2, SameWorth
<1>3. CASE KeyFree(key) /\ challenge' = [challenge EXCEPT ![c] = row]
  <2>1. /\ challenge'[c].status = "active" /\ challenge'[c].key = key
        /\ \A d \in Challenges \ {c} : challenge'[d] = challenge[d]
    BY <1>3 DEF TypeOK
  <2>2. Worth[c] = "absent" /\ \A d \in Challenges : Worth[d] = "valid" => Holder[d] # key
    BY <1>1, <1>3, WorthOf, StatusFromWorth DEF KeyFree
  <2>3. Worth' = [Worth EXCEPT ![c] = "valid"]
    <3>1. Worth'[c] = "valid"
      BY <2>1 DEF Worth
    <3> QED
      BY <2>1, <3>1, OneWorth
  <2>4. Holder' = [Holder EXCEPT ![c] = key]
    BY <2>1 DEF Holder
  <2>5. O!Issue(c, key)
    BY <1>1, <2>2, <2>3, <2>4 DEF O!Issue
  <2> QED
    BY <1>1, <2>5 DEF O!Next
<1> QED
  BY <1>2, <1>3 DEF Insert

LEMMA ConsumeIsUse ==
  ASSUME IInv, NEW c \in Challenges, Consume(c)
  PROVE  O!Use(c)
<1>1. /\ IsActive(c) /\ challenge'[c].status = "consumed"
      /\ challenge'[c].key = challenge[c].key
      /\ \A d \in Challenges \ {c} : challenge'[d] = challenge[d]
  BY ConsumeShape
<1>2. Worth[c] = "valid"
  BY <1>1, StatusFromWorth DEF IInv
<1>3. Worth' = [Worth EXCEPT ![c] = "used"]
  <2>1. Worth'[c] = "used"
    BY <1>1 DEF Worth
  <2> QED
    BY <1>1, <2>1, OneWorth
<1>4. Holder' = Holder
  BY <1>1 DEF Holder
<1>5. uses' = [uses EXCEPT ![c] = uses[c] + 1]
  BY DEF Consume
<1> QED
  BY <1>2, <1>3, <1>4, <1>5 DEF O!Use

LEMMA RecordIsStutter ==
  ASSUME TypeOK, NEW r \in Requests, RecordFailure(r)
  PROVE  UNCHANGED <<Worth, Holder, uses>>
<1>1. PICK c \in Challenges : c = request[r].c
  BY DEF RecordFailure, TypeOK
<1> DEFINE row == [challenge[c] EXCEPT !.left = challenge[c].left - 1]
<1>2. challenge[c] \in Rows /\ challenge \in [Challenges -> Rows]
  BY DEF TypeOK
<1>3. row.status = challenge[c].status /\ row.key = challenge[c].key
  BY <1>2 DEF Rows
<1>4. challenge' = challenge \/ challenge' = [challenge EXCEPT ![c] = row]
  BY <1>1 DEF RecordFailure
<1> HIDE DEF row
<1>5. \A d \in Challenges :
        challenge'[d].status = challenge[d].status /\ challenge'[d].key = challenge[d].key
  BY <1>2, <1>3, <1>4
<1> QED
  BY <1>5, SameWorth DEF RecordFailure

\* Requests, verifications and expiry, statement by statement, implement one-time codes:
\* valid beside no other of their key, accepted at most once (identity.ts:366, 461).
THEOREM Refinement == Spec => ImplementsOneTimeCode
<1>1. Init => O!Init
  <2>1. ASSUME Init, NEW c \in Challenges
        PROVE  challenge[c].status = "absent" /\ challenge[c].key = NoKey
    BY <2>1 DEF Init, NoRow
  <2>2. Init => Worth = [c \in Challenges |-> "absent"]
    BY <2>1 DEF Worth
  <2>3. Init => Holder = [c \in Challenges |-> NoKey]
    BY <2>1 DEF Holder
  <2> QED
    BY <2>2, <2>3 DEF Init, O!Init
<1>2. IInv /\ [Next]_vars => [O!Next]_(O!vars)
  <2> SUFFICES ASSUME IInv, [Next]_vars
               PROVE  O!Next \/ UNCHANGED <<Worth, Holder, uses>>
    BY DEF O!vars
  <2>1. ASSUME UNCHANGED <<challenge, uses>>
        PROVE  UNCHANGED <<Worth, Holder, uses>>
    BY <2>1, SameWorth
  <2>2. ASSUME NEW r \in Requests, Supersede(r)
        PROVE  O!Next
    <3>1. request[r].key \in Keys
      BY <2>2 DEF Supersede, IInv, TypeOK
    <3> QED
      BY <2>2, <3>1, SupersedeIsVoid DEF O!Next, IInv
  <2>3. ASSUME NEW r \in Requests, Complete(r)
        PROVE  O!Next \/ UNCHANGED <<Worth, Holder, uses>>
    <3>1. PICK c \in Challenges : c = request[r].c
      BY <2>3 DEF Complete, IInv, TypeOK
    <3> QED
      BY <2>1, <2>3, <3>1, ConsumeIsUse DEF Complete, O!Next
  <2>4. ASSUME NEW c \in Challenges, Lapse(c)
        PROVE  UNCHANGED <<Worth, Holder, uses>>
    BY <2>4, LapseShape, SameWorth DEF Lapse
  <2>5. CASE UNCHANGED vars
    BY <2>1, <2>5 DEF vars
  <2>6. CASE Next
    <3>1. CASE \E r \in Requests, c \in Challenges : Insert(r, c)
      BY <3>1, InsertIsIssue DEF IInv
    <3>2. CASE \E r \in Requests : RecordFailure(r)
      BY <3>2, RecordIsStutter DEF IInv
    <3>3. CASE UNCHANGED <<challenge, uses>>
      BY <2>1, <3>3
    <3> QED
      BY <2>2, <2>3, <2>4, <2>6, <3>1, <3>2, <3>3
      DEF Next, Request, Verify, Limit, Enqueue, Find, Abandon, WindowEnds
  <2> QED
    BY <2>5, <2>6
<1> QED
  BY <1>1, <1>2, Invariance, PTL DEF Spec, ImplementsOneTimeCode, O!Spec

-----------------------------------------------------------------------------
(* The life of a code                                                      *)

\* What a step can do to row c and to the count of its uses.
Evolves(c) ==
  \/ challenge'[c] = challenge[c] /\ uses'[c] = uses[c]
  \/ challenge[c].status = "absent" /\ challenge'[c].status = "active" /\ uses'[c] = uses[c]
  \/ /\ IsActive(c) /\ uses'[c] = uses[c]
     /\ \/ challenge'[c] = [challenge[c] EXCEPT !.status = "superseded"]
        \/ challenge'[c] = [challenge[c] EXCEPT !.timely = FALSE]
        \/ challenge[c].left > 0
           /\ challenge'[c] = [challenge[c] EXCEPT !.left = challenge[c].left - 1]
  \/ /\ IsActive(c) /\ challenge[c].left > 0 /\ uses'[c] = uses[c] + 1
     /\ challenge'[c] = [challenge[c] EXCEPT !.status = "consumed"]

LEMMA RequestEvolves ==
  ASSUME IInv, NEW r \in Requests, NEW c \in Challenges,
         \/ Supersede(r) \/ Enqueue(r) \/ Find(r) \/ RecordFailure(r) \/ Complete(r)
         \/ Abandon(r) \/ \E d \in Challenges : Insert(r, d)
  PROVE  Evolves(c)
<1>1. challenge \in [Challenges -> Rows] /\ uses \in [Challenges -> Nat]
  BY DEF IInv, TypeOK
<1>2. ASSUME UNCHANGED <<challenge, uses>>
      PROVE  Evolves(c)
  BY <1>2 DEF Evolves
<1>3. CASE Enqueue(r) \/ Find(r) \/ Abandon(r)
  BY <1>2, <1>3 DEF Enqueue, Find, Abandon
<1>4. CASE Supersede(r)
  BY <1>4 DEF Supersede, Evolves
<1>5. ASSUME NEW d \in Challenges, Insert(r, d)
      PROVE  Evolves(c)
  <2>1. UNCHANGED uses /\ challenge[d].status = "absent"
    BY <1>5 DEF Insert
  <2>2. UNCHANGED challenge \/
          challenge' = [challenge EXCEPT ![d] =
             [status |-> "active", key |-> request[r].key,
              left |-> Attempts, timely |-> TRUE]]
    BY <1>5 DEF Insert
  <2> QED
    BY <1>1, <2>1, <2>2 DEF Evolves
<1>6. CASE RecordFailure(r)
  <2>1. PICK d \in Challenges : d = request[r].c
    BY <1>6 DEF RecordFailure, IInv, TypeOK
  <2> DEFINE row == [challenge[d] EXCEPT !.left = challenge[d].left - 1]
  <2>2. /\ UNCHANGED uses
        /\ \/ UNCHANGED challenge
           \/ Counts(d) /\ challenge' = [challenge EXCEPT ![d] = row]
    BY <1>6, <2>1, Zenon DEF RecordFailure
  <2> HIDE DEF row
  <2>3. \/ challenge'[c] = challenge[c]
        \/ Counts(c) /\ challenge'[c] = row /\ c = d
    BY <1>1, <2>2
  <2> QED
    BY <2>2, <2>3 DEF Evolves, Counts, row
<1>7. CASE Complete(r)
  <2>1. PICK d \in Challenges : d = request[r].c
    BY <1>7 DEF Complete, IInv, TypeOK
  <2>2. CASE Consume(d)
    <3> DEFINE row == [challenge[d] EXCEPT !.status = "consumed"]
    <3>1. /\ challenge' = [challenge EXCEPT ![d] = row]
          /\ uses' = [uses EXCEPT ![d] = uses[d] + 1] /\ Counts(d)
      BY <2>2 DEF Consume
    <3> HIDE DEF row
    <3>2. \/ c # d /\ challenge'[c] = challenge[c] /\ uses'[c] = uses[c]
          \/ c = d /\ Counts(c) /\ challenge'[c] = row /\ uses'[c] = uses[c] + 1
      BY <1>1, <3>1
    <3> QED
      BY <3>2 DEF Evolves, Counts, row
  <2> QED
    BY <1>2, <1>7, <2>1, <2>2 DEF Complete
<1> QED
  BY <1>3, <1>4, <1>5, <1>6, <1>7

LEMMA StepEvolves ==
  ASSUME IInv, [Next]_vars, NEW c \in Challenges
  PROVE  Evolves(c)
<1>1. ASSUME UNCHANGED <<challenge, uses>>
      PROVE  Evolves(c)
  BY <1>1 DEF Evolves
<1>2. ASSUME NEW d \in Challenges, Lapse(d)
      PROVE  Evolves(c)
  <2> DEFINE row == [challenge[d] EXCEPT !.timely = FALSE]
  <2>1. challenge' = [challenge EXCEPT ![d] = row] /\ IsActive(d) /\ UNCHANGED uses
    BY <1>2 DEF Lapse
  <2> HIDE DEF row
  <2>2. challenge'[c] = challenge[c] \/ (c = d /\ challenge'[c] = row)
    BY <2>1 DEF IInv, TypeOK
  <2> QED
    BY <2>1, <2>2 DEF Evolves, row
<1>3. CASE UNCHANGED vars
  BY <1>1, <1>3 DEF vars
<1>4. ASSUME NEW r \in Requests, NEW key \in Keys,
             Request(r, key) \/ \E d \in Challenges : Verify(r, d, key)
      PROVE  Evolves(c)
  BY <1>1, <1>4 DEF Request, Verify, Limit
<1>5. ASSUME NEW w \in Windows, WindowEnds(w)
      PROVE  Evolves(c)
  BY <1>1, <1>5 DEF WindowEnds
<1> QED
  BY <1>2, <1>3, <1>4, <1>5, RequestEvolves DEF Next

LEMMA RowFields ==
  ASSUME TypeOK, NEW c \in Challenges
  PROVE  /\ challenge[c] \in Rows /\ challenge[c].left \in 0..Attempts
         /\ challenge[c].left \in Nat /\ challenge[c].timely \in BOOLEAN
         /\ challenge[c].status \in {"absent", "active", "superseded", "consumed"}
         /\ uses[c] \in Nat
BY ChallengeAssumption DEF TypeOK, Rows

\* A row in the terms of its fields, whichever way it has evolved.
LEMMA EvolvedRow ==
  ASSUME TypeOK, NEW c \in Challenges, Evolves(c)
  PROVE  \/ challenge'[c] = challenge[c] /\ uses'[c] = uses[c]
         \/ /\ challenge[c].status = "absent" /\ challenge'[c].status = "active"
            /\ uses'[c] = uses[c]
         \/ /\ challenge[c].status = "active" /\ challenge'[c].key = challenge[c].key
            /\ challenge'[c].left <= challenge[c].left
            /\ challenge'[c].timely => challenge[c].timely
            /\ \/ challenge'[c].status \in {"active", "superseded"} /\ uses'[c] = uses[c]
               \/ /\ challenge'[c].status = "consumed" /\ uses'[c] = uses[c] + 1
                  /\ challenge'[c].left > 0
<1> DEFINE row == challenge[c]
           status(s) == [row EXCEPT !.status = s]
           late == [row EXCEPT !.timely = FALSE]
           fewer == [row EXCEPT !.left = row.left - 1]
<1>1. row \in Rows /\ row.left \in Nat
  BY RowFields
<1>2. \A s \in {"superseded", "consumed"} :
        /\ status(s).status = s /\ status(s).key = row.key /\ status(s).left = row.left
        /\ status(s).timely = row.timely
  BY <1>1 DEF Rows
<1>3. /\ late.status = row.status /\ late.key = row.key /\ late.left = row.left
      /\ late.timely = FALSE
  BY <1>1 DEF Rows
<1>4. /\ fewer.status = row.status /\ fewer.key = row.key /\ fewer.left = row.left - 1
      /\ fewer.timely = row.timely
  BY <1>1 DEF Rows
<1>5. \/ challenge'[c] = row /\ uses'[c] = uses[c]
      \/ row.status = "absent" /\ challenge'[c].status = "active" /\ uses'[c] = uses[c]
      \/ /\ row.status = "active" /\ uses'[c] = uses[c]
         /\ challenge'[c] \in {status("superseded"), late, fewer}
      \/ /\ row.status = "active" /\ row.left > 0 /\ uses'[c] = uses[c] + 1
         /\ challenge'[c] = status("consumed")
  BY DEF Evolves, IsActive
<1> HIDE DEF row, status, late, fewer
<1>6. row.left <= row.left /\ row.left - 1 <= row.left
  BY <1>1
<1> QED
  BY <1>2, <1>3, <1>4, <1>5, <1>6 DEF row

\* A code is accepted at most once, however many verifications of it are under way,
\* and never with its attempts spent (identity.ts:461).
THEOREM OneUse == Spec => []AcceptedOnce
<1>1. Init => AcceptedOnce
  BY NoRowType DEF Init, AcceptedOnce
<1>2. IInv /\ AcceptedOnce /\ [Next]_vars => AcceptedOnce'
  <2> SUFFICES ASSUME IInv, AcceptedOnce, [Next]_vars, NEW c \in Challenges
               PROVE  /\ uses'[c] = IF challenge'[c].status = "consumed" THEN 1 ELSE 0
                      /\ challenge'[c].status = "consumed" => challenge'[c].left > 0
    BY DEF AcceptedOnce
  <2>1. Evolves(c) /\ TypeOK
    BY StepEvolves DEF IInv
  <2>2. /\ uses[c] = IF challenge[c].status = "consumed" THEN 1 ELSE 0
        /\ challenge[c].status = "consumed" => challenge[c].left > 0
    BY DEF AcceptedOnce
  <2> QED
    BY <2>1, <2>2, EvolvedRow
<1> QED
  BY <1>1, <1>2, Invariance, PTL DEF Spec

\* No step gives a code an attempt or time back, moves it to another address or
\* binding, or revives it: not a new request, not a failure recorded late, not a
\* verification that overlaps another (identity.ts:366, 432, 461).
THEOREM CodesWearOff == Spec => OnlyWearsOff
<1> DEFINE A == \A c \in Challenges : challenge[c].status # "absent" =>
       /\ challenge'[c].key = challenge[c].key
       /\ challenge'[c].left <= challenge[c].left
       /\ challenge'[c].timely => challenge[c].timely
       /\ \/ challenge'[c].status = challenge[c].status
          \/ IsActive(c) /\ challenge'[c].status \in {"superseded", "consumed"}
<1>1. IInv /\ [Next]_vars => [A]_vars
  <2> SUFFICES ASSUME IInv, [Next]_vars, NEW c \in Challenges,
                      challenge[c].status # "absent"
               PROVE  /\ challenge'[c].key = challenge[c].key
                      /\ challenge'[c].left <= challenge[c].left
                      /\ challenge'[c].timely => challenge[c].timely
                      /\ \/ challenge'[c].status = challenge[c].status
                         \/ IsActive(c) /\ challenge'[c].status \in {"superseded", "consumed"}
    OBVIOUS
  <2>1. Evolves(c) /\ TypeOK
    BY StepEvolves DEF IInv
  <2>2. challenge[c].left <= challenge[c].left
    BY <2>1, RowFields
  <2> QED
    BY <2>1, <2>2, EvolvedRow DEF IsActive
<1> HIDE DEF A
<1> QED
  BY <1>1, Invariance, PTL DEF Spec, OnlyWearsOff, A

\* When no request ends between comparing and recording, one code stands at most as
\* many wrong guesses as it has attempts, and one more for each further request in
\* flight; a single request at a time gets no guess more than the attempts.
THEOREM EveryFailureCounts ==
  ASSUME "stop" \notin Faults
  PROVE  Spec => []GuessesRecorded
<1> DEFINE NoneLost == \A c \in Challenges : lost[c] = 0
<1>1. Init => NoneLost
  BY DEF Init
<1>2. NoneLost /\ [Next]_vars => NoneLost'
  <2> SUFFICES ASSUME NoneLost, [Next]_vars PROVE UNCHANGED lost
    OBVIOUS
  <2> QED
    BY DEF Next, vars, Request, Verify, Limit, Supersede, Enqueue, Insert, Find,
           RecordFailure, Complete, Abandon, Lapse, WindowEnds
<1>3. IInv /\ NoneLost => GuessesRecorded
  <2> SUFFICES ASSUME IInv, NoneLost, NEW c \in Challenges
               PROVE  wrong[c] <= Attempts + (Cardinality(Requests) - 1)
    BY DEF GuessesRecorded
  <2>1. lost[c] = 0 /\ wrong[c] \in Nat
    BY DEF IInv, TypeOK
  <2>2. Cardinality(Requests) \in Nat /\ Attempts \in Nat
    BY RecordingFinite, ChallengeAssumption
  <2>3. wrong[c] <= Attempts + (Cardinality(Requests) - 1) + lost[c]
    BY DEF IInv, GuessesBounded
  <2> QED
    BY <2>1, <2>2, <2>3
<1> HIDE DEF NoneLost
<1> QED
  BY <1>1, <1>2, <1>3, Invariance, PTL DEF Spec

=============================================================================
