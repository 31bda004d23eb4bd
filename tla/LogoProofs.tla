----------------------------- MODULE LogoProofs -----------------------------
(***************************************************************************)
(* Proofs about Logo for any number of uploads.  The type invariant holds  *)
(* whatever fails; what the other theorems assume of Faults is part of     *)
(* their statements.                                                       *)
(***************************************************************************)
EXTENDS Logo, TLAPS

\* The labels of an upload that creates the organization.
Founding == {"storeNew", "create"}

\* The labels of an upload that has committed nothing yet.
Uncommitted == Founding \cup {"idle", "store"} \cup InTransaction

\* What is not committed is on no record, and an object is stored before its
\* transaction begins.
Fresh ==
  \A u \in Uploads :
    /\ pc[u] \in Uncommitted => asset[u] = "none" /\ u \notin ledger
    /\ pc[u] \in {"create"} \cup InTransaction => u \in bucket

\* Without organization there are no assets and no replacement is under way;
\* one upload at most creates it.
OneFounder ==
  /\ ~exists => \A u \in Uploads :
       asset[u] = "none" /\ pc[u] \notin {"store"} \cup InTransaction
  /\ \A u \in Uploads : pc[u] \in Founding =>
       ~exists /\ \A v \in Uploads : pc[v] \in Founding => v = u

\* The inductive invariant, whatever fails.
IInv == TypeOK /\ Fresh /\ OneFounder /\ Replaced \subseteq ledger

\* What holds besides when no reply of a commit is lost.
Kept ==
  /\ \A u \in Uploads : asset[u] # "none" => pc[u] = "done"
  /\ Active \subseteq bucket /\ Active \cap ledger = {}

-----------------------------------------------------------------------------

LEMMA InitInvariant == Init => IInv
BY DEF Init, IInv, TypeOK, Fresh, OneFounder, Replaced, Active, Uncommitted,
       Founding, InTransaction, Working, Ended, Errors

LEMMA QuietStep ==
  ASSUME IInv, NEW u \in Uploads, NEW label \in {"idle"} \cup Working \cup Ended,
         pc' = [pc EXCEPT ![u] = label],
         UNCHANGED <<exists, asset, previous>>,
         bucket' \subseteq Uploads, ledger' \subseteq Uploads,
         \A v \in Uploads \ {u} : (v \in bucket => v \in bucket') /\ (v \in ledger' <=> v \in ledger),
         ledger \subseteq ledger',
         label \in Uncommitted => pc[u] \in Uncommitted /\ u \notin ledger',
         label \in {"create"} \cup InTransaction => u \in bucket',
         label \in {"store"} \cup InTransaction => exists,
         label \in Founding => ~exists /\ \A v \in Uploads \ {u} : pc[v] \notin Founding,
         label = "inserted" => \A v \in Uploads : pc[v] # "locked",
         label # "locked"
  PROVE  IInv'
<1> USE DEF IInv
<1>1. Active' = Active /\ Replaced' = Replaced
  BY DEF Active, Replaced
<1>2. pc' \in [Uploads -> {"idle"} \cup Working \cup Ended]
  BY DEF TypeOK
<1>3. pc'[u] = label /\ \A v \in Uploads \ {u} : pc'[v] = pc[v]
  BY DEF TypeOK
<1>4. TypeOK'
  <2>1. \A v \in Uploads : pc'[v] = "locked" =>
          /\ previous'[v] = Active'
          /\ \A w \in Uploads \ {v} : pc'[w] \notin {"inserted", "locked"}
    BY <1>1, <1>3 DEF TypeOK
  <2> QED
    BY <1>2, <2>1 DEF TypeOK
<1>5. Fresh'
  BY <1>3 DEF Fresh
<1>6. OneFounder'
  BY <1>3 DEF OneFounder
<1> QED
  BY <1>1, <1>4, <1>5, <1>6
LEMMA StartStep ==
  ASSUME IInv, NEW u \in Uploads, Start(u)
  PROVE  IInv'
<1> USE DEF Uncommitted, Founding, InTransaction, Working, Ended, Errors
<1>1. PICK label \in {"store", "storeNew"} :
        /\ pc' = [pc EXCEPT ![u] = label]
        /\ label = "store" => exists
        /\ label = "storeNew" => ~exists /\ ~Creating
  BY DEF Start, Goto
<1>2. /\ pc[u] = "idle" /\ u \notin ledger
      /\ UNCHANGED <<exists, bucket, asset, ledger, previous>>
  BY DEF Start, IInv, Fresh
<1>3. bucket \subseteq Uploads /\ ledger \subseteq Uploads
  BY DEF IInv, TypeOK
<1> QED
  BY <1>1, <1>2, <1>3, QuietStep DEF Creating

LEMMA StoreStep ==
  ASSUME IInv, NEW u \in Uploads, Store(u)
  PROVE  IInv'
<1> USE DEF Uncommitted, Founding, InTransaction, Working, Ended, Errors
<1>1. PICK label \in {"begin", "create", "unstored"} :
        /\ pc' = [pc EXCEPT ![u] = label]
        /\ label = "begin" => pc[u] = "store" /\ u \in bucket'
        /\ label = "create" => pc[u] = "storeNew" /\ u \in bucket'
  BY DEF Store, Goto
<1>2. /\ pc[u] \in {"store", "storeNew"} /\ u \notin ledger
      /\ bucket' \in {bucket, bucket \cup {u}}
      /\ UNCHANGED <<exists, asset, ledger, previous>>
  BY DEF Store, IInv, Fresh
<1>3. bucket \subseteq Uploads /\ ledger \subseteq Uploads
  BY DEF IInv, TypeOK
<1>4. /\ pc[u] = "store" => exists
      /\ pc[u] = "storeNew" =>
           ~exists /\ \A v \in Uploads \ {u} : pc[v] \notin Founding
  BY DEF IInv, OneFounder
<1> QED
  BY <1>1, <1>2, <1>3, <1>4, QuietStep

\* A transaction that ends without having committed anything.
LEMMA AbortStep ==
  ASSUME IInv, NEW u \in Uploads, pc' = [pc EXCEPT ![u] = "compensate"],
         UNCHANGED <<exists, bucket, asset, ledger, previous>>
  PROVE  IInv'
<1> USE DEF Uncommitted, Founding, InTransaction, Working, Ended, Errors
<1>1. bucket \subseteq Uploads /\ ledger \subseteq Uploads
  BY DEF IInv, TypeOK
<1> QED
  BY <1>1, QuietStep

LEMMA CreatePendingLogoStep ==
  ASSUME IInv, NEW u \in Uploads, CreatePendingLogo(u)
  PROVE  IInv'
<1> USE DEF Uncommitted, Founding, InTransaction, Working, Ended, Errors
<1>1. /\ pc' = [pc EXCEPT ![u] = "inserted"]
      /\ pc[u] = "begin" /\ \A v \in Uploads : pc[v] # "locked"
      /\ UNCHANGED <<exists, bucket, asset, ledger, previous>>
  BY DEF CreatePendingLogo, Goto
<1>2. bucket \subseteq Uploads /\ ledger \subseteq Uploads
  BY DEF IInv, TypeOK
<1>3. u \notin ledger /\ u \in bucket /\ exists
  BY <1>1 DEF IInv, Fresh, OneFounder
<1> QED
  BY <1>1, <1>2, <1>3, QuietStep

LEMMA CompensateStep ==
  ASSUME IInv, NEW u \in Uploads, Compensate(u)
  PROVE  IInv'
<1> USE DEF Uncommitted, Founding, InTransaction, Working, Ended, Errors
<1>1. PICK label \in {"failed", "enqueue"} : pc' = [pc EXCEPT ![u] = label]
  BY DEF Compensate, Goto
<1>2. /\ bucket' \in {bucket, bucket \ {u}}
      /\ UNCHANGED <<exists, asset, ledger, previous>>
  BY DEF Compensate
<1>3. bucket \subseteq Uploads /\ ledger \subseteq Uploads
  BY DEF IInv, TypeOK
<1> QED
  BY <1>1, <1>2, <1>3, QuietStep

LEMMA EnqueueStep ==
  ASSUME IInv, NEW u \in Uploads, EnqueueOrphanCleanup(u)
  PROVE  IInv'
<1> USE DEF Uncommitted, Founding, InTransaction, Working, Ended, Errors
<1>1. PICK label \in {"failed", "unlisted"} : pc' = [pc EXCEPT ![u] = label]
  BY DEF EnqueueOrphanCleanup, Goto
<1>2. /\ ledger' \in {ledger, ledger \cup {u}}
      /\ UNCHANGED <<exists, bucket, asset, previous>>
  BY DEF EnqueueOrphanCleanup
<1>3. bucket \subseteq Uploads /\ ledger \subseteq Uploads
  BY DEF IInv, TypeOK
<1> QED
  BY <1>1, <1>2, <1>3, QuietStep

LEMMA CrashStep ==
  ASSUME IInv, NEW u \in Uploads, Crash(u)
  PROVE  IInv'
<1> USE DEF Uncommitted, Founding, InTransaction, Working, Ended, Errors
<1>1. /\ pc' = [pc EXCEPT ![u] = "dead"]
      /\ UNCHANGED <<exists, bucket, asset, ledger, previous>>
  BY DEF Crash, Goto
<1>2. bucket \subseteq Uploads /\ ledger \subseteq Uploads
  BY DEF IInv, TypeOK
<1> QED
  BY <1>1, <1>2, QuietStep

LEMMA CleanupStep ==
  ASSUME IInv, NEW u \in Uploads, Cleanup(u)
  PROVE  IInv'
<1>1. /\ u \in ledger /\ bucket' = bucket \ {u}
      /\ UNCHANGED <<exists, asset, ledger, pc, previous>>
  BY DEF Cleanup
<1>2. Active' = Active /\ Replaced' = Replaced
  BY <1>1 DEF Active, Replaced
<1>3. TypeOK' /\ OneFounder'
  BY <1>1, <1>2 DEF IInv, TypeOK, OneFounder
<1>4. Fresh'
  BY <1>1 DEF IInv, Fresh, Uncommitted, Founding
<1> QED
  BY <1>1, <1>2, <1>3, <1>4 DEF IInv

LEMMA CreateWithoutLogoStep ==
  ASSUME IInv, CreateWithoutLogo
  PROVE  IInv'
<1>1. /\ ~exists /\ ~Creating /\ exists' = TRUE
      /\ UNCHANGED <<bucket, asset, ledger, pc, previous>>
  BY DEF CreateWithoutLogo
<1>2. Active' = Active /\ Replaced' = Replaced
  BY <1>1 DEF Active, Replaced
<1>3. TypeOK' /\ Fresh'
  BY <1>1, <1>2 DEF IInv, TypeOK, Fresh
<1>4. OneFounder'
  BY <1>1 DEF IInv, OneFounder, Creating, Founding
<1> QED
  BY <1>1, <1>2, <1>3, <1>4 DEF IInv

LEMMA ActivateLogoStep ==
  ASSUME IInv, NEW u \in Uploads, ActivateLogo(u)
  PROVE  IInv'
<1> USE DEF Uncommitted, Founding, InTransaction, Working, Ended, Errors
<1>1. /\ pc[u] = "inserted" /\ pc' = [pc EXCEPT ![u] = "locked"]
      /\ \A v \in Uploads \ {u} : pc[v] \notin {"inserted", "locked"}
      /\ previous' = [previous EXCEPT ![u] = Active]
      /\ UNCHANGED <<exists, bucket, asset, ledger>>
  BY DEF ActivateLogo, Goto
<1>2. Active' = Active /\ Replaced' = Replaced /\ Active \subseteq Uploads
  BY <1>1 DEF Active, Replaced
<1>3. pc'[u] = "locked" /\ \A v \in Uploads \ {u} : pc'[v] = pc[v]
  BY <1>1 DEF IInv, TypeOK
<1>4. TypeOK'
  BY <1>1, <1>2, <1>3 DEF IInv, TypeOK
<1>5. Fresh' /\ OneFounder'
  BY <1>1, <1>3 DEF IInv, Fresh, OneFounder
<1> QED
  BY <1>1, <1>2, <1>4, <1>5 DEF IInv

LEMMA CreateStep ==
  ASSUME IInv, NEW u \in Uploads, Create(u)
  PROVE  IInv' /\ Active' = {u} /\ u \in bucket /\ Active = {}
<1> USE DEF Uncommitted, Founding, InTransaction, Working, Ended, Errors
<1>1. PICK label \in {"done", "compensate"} : pc' = [pc EXCEPT ![u] = label]
  BY DEF Create, Answered, Goto
<1>2. /\ pc[u] = "create" /\ exists' = TRUE
      /\ asset' = [asset EXCEPT ![u] = "active"]
      /\ UNCHANGED <<bucket, ledger, previous>>
  BY DEF Create
<1>3. /\ \A v \in Uploads : asset[v] = "none" /\ pc[v] \notin {"store"} \cup InTransaction
      /\ \A v \in Uploads \ {u} : pc[v] \notin Founding
      /\ u \in bucket
  BY <1>2 DEF IInv, OneFounder, Fresh
<1>4. pc'[u] = label /\ \A v \in Uploads \ {u} : pc'[v] = pc[v]
  BY <1>1 DEF IInv, TypeOK
<1>5. asset'[u] = "active" /\ \A v \in Uploads \ {u} : asset'[v] = "none"
  BY <1>2, <1>3 DEF IInv, TypeOK
<1>6. Active' = {u} /\ Active = {} /\ Replaced' = {}
  BY <1>3, <1>5 DEF Active, Replaced
<1>7. TypeOK'
  BY <1>1, <1>2, <1>3, <1>4 DEF IInv, TypeOK
<1>8. Fresh' /\ OneFounder'
  BY <1>2, <1>3, <1>4, <1>5 DEF IInv, Fresh, OneFounder
<1> QED
  BY <1>3, <1>6, <1>7, <1>8 DEF IInv

LEMMA ReplaceLogoStep ==
  ASSUME IInv, NEW u \in Uploads, ReplaceLogo(u)
  PROVE  /\ IInv' /\ Active' = {u} /\ u \in bucket
         /\ \A v \in Uploads \ {u} : asset'[v] = "none" <=> asset[v] = "none"
         /\ ledger' = ledger \cup Active
<1> USE DEF Uncommitted, Founding, InTransaction, Working, Ended, Errors
<1>1. PICK label \in {"done", "compensate"} : pc' = [pc EXCEPT ![u] = label]
  BY DEF ReplaceLogo, Answered, Goto
<1>2. /\ pc[u] = "locked" /\ previous[u] = Active
      /\ asset' = [v \in Uploads |-> IF v = u THEN "active"
                                     ELSE IF v \in Active THEN "delete_pending"
                                     ELSE asset[v]]
      /\ ledger' = ledger \cup Active
      /\ UNCHANGED <<exists, bucket, previous>>
  BY DEF ReplaceLogo, IInv, TypeOK
<1>3. /\ asset[u] = "none" /\ u \notin ledger /\ u \in bucket /\ exists
      /\ \A v \in Uploads \ {u} : pc[v] \notin {"inserted", "locked"}
  BY <1>2 DEF IInv, TypeOK, OneFounder, Fresh
<1>4. pc'[u] = label /\ \A v \in Uploads \ {u} : pc'[v] = pc[v]
  BY <1>1 DEF IInv, TypeOK
<1>5. /\ asset'[u] = "active"
      /\ \A v \in Active : asset'[v] = "delete_pending"
      /\ \A v \in Uploads \ ({u} \cup Active) : asset'[v] = asset[v]
  BY <1>2, <1>3 DEF Active
<1>6. Active' = {u} /\ Replaced' = Replaced \cup Active
  BY <1>3, <1>5 DEF Active, Replaced
<1>7. TypeOK'
  BY <1>1, <1>2, <1>3, <1>4 DEF IInv, TypeOK, Active
<1>8. Fresh'
  BY <1>2, <1>3, <1>4, <1>5 DEF IInv, Fresh, Active
<1>9. OneFounder'
  BY <1>2, <1>3, <1>4 DEF IInv, OneFounder
<1>10. \A v \in Uploads \ {u} : asset'[v] = "none" <=> asset[v] = "none"
  BY <1>5 DEF Active
<1> QED
  BY <1>2, <1>3, <1>6, <1>7, <1>8, <1>9, <1>10 DEF IInv

-----------------------------------------------------------------------------
(* Whatever fails                                                          *)

LEMMA StepInvariant ==
  ASSUME IInv, [Next]_vars
  PROVE  IInv'
<1>1. CASE UNCHANGED vars
  BY <1>1 DEF vars, IInv, TypeOK, Fresh, OneFounder, Active, Replaced
<1>2. CASE CreateWithoutLogo
  BY <1>2, CreateWithoutLogoStep
<1>3. ASSUME NEW u \in Uploads, Start(u) \/ Crash(u) \/ Cleanup(u)
      PROVE  IInv'
  BY <1>3, StartStep, CrashStep, CleanupStep
<1>4. ASSUME NEW u \in Uploads, Handle(u)
      PROVE  IInv'
  <2>1. CASE Store(u) \/ Create(u) \/ CreatePendingLogo(u)
    BY <2>1, StoreStep, CreateStep, CreatePendingLogoStep
  <2>2. CASE Refuse(u) \/ Deadlock(u) \/ Rollback(u)
    BY <2>2, AbortStep DEF Refuse, Deadlock, Rollback, Goto
  <2>3. CASE ActivateLogo(u) \/ ReplaceLogo(u)
    BY <2>3, ActivateLogoStep, ReplaceLogoStep
  <2>4. CASE Compensate(u) \/ EnqueueOrphanCleanup(u)
    BY <2>4, CompensateStep, EnqueueStep
  <2> QED
    BY <1>4, <2>1, <2>2, <2>3, <2>4 DEF Handle, Proceed
<1> QED
  BY <1>1, <1>2, <1>3, <1>4 DEF Next

LEMMA Invariance == Spec => []IInv
<1>1. IInv /\ [Next]_vars => IInv'
  BY StepInvariant
<1> QED
  BY <1>1, InitInvariant, PTL DEF Spec

\* Assets, bucket and ledger keep their types, one transaction at a time holds the
\* lock of the organization, and the active asset it has read stays current.
THEOREM TypeCorrect == Spec => []TypeOK
BY Invariance, PTL DEF IInv

-----------------------------------------------------------------------------
(* When no reply of a commit is lost                                       *)

\* A step that commits nothing and removes nothing that is shown.
LEMMA KeptByQuietStep ==
  ASSUME IInv, Kept, NEW u \in Uploads, pc[u] # "done",
         \A v \in Uploads \ {u} : pc'[v] = pc[v],
         UNCHANGED asset, bucket \ {u} \subseteq bucket', ledger' \subseteq ledger \cup {u}
  PROVE  Kept' /\ Active' = Active /\ u \notin Active
<1>1. Active' = Active /\ u \notin Active
  BY DEF Active, Kept
<1>2. \A v \in Uploads : asset'[v] # "none" => pc'[v] = "done"
  BY DEF Kept
<1> QED
  BY <1>1, <1>2 DEF Kept

LEMMA PcStep ==
  ASSUME IInv, NEW u \in Uploads, NEW label, Goto(u, label)
  PROVE  pc'[u] = label /\ \A v \in Uploads \ {u} : pc'[v] = pc[v]
BY DEF Goto, IInv, TypeOK

LEMMA HandleKeeps ==
  ASSUME "reply" \notin Faults, IInv, Kept, NEW u \in Uploads, Handle(u)
  PROVE  /\ Kept'
         /\ \/ Active' = Active /\ bucket' = bucket
            \/ Active' = Active /\ bucket' = bucket \cup {u}
            \/ Active' = Active /\ bucket' = bucket \ {u} /\ u \notin Active
            \/ Active' = {u} /\ bucket' = bucket /\ u \in bucket
<1>1. CASE Store(u)
  <2>1. /\ pc[u] # "done" /\ bucket' \in {bucket, bucket \cup {u}}
        /\ UNCHANGED <<asset, ledger>>
    BY <1>1 DEF Store
  <2>2. \A v \in Uploads \ {u} : pc'[v] = pc[v]
    BY <1>1, PcStep DEF Store
  <2> QED
    BY <2>1, <2>2, KeptByQuietStep
<1>2. CASE Create(u)
  <2>1. pc'[u] = "done" /\ \A v \in Uploads \ {u} : pc'[v] = pc[v]
    BY <1>2, PcStep DEF Create, Answered
  <2>2. /\ pc[u] = "create" /\ asset' = [asset EXCEPT ![u] = "active"]
        /\ UNCHANGED <<bucket, ledger>>
    BY <1>2 DEF Create
  <2>3. Active' = {u} /\ u \in bucket
    BY <1>2, CreateStep
  <2>4. \A v \in Uploads \ {u} : asset'[v] = asset[v]
    BY <2>2 DEF IInv, TypeOK
  <2>5. u \notin ledger
    BY <2>2 DEF IInv, Fresh, Uncommitted, Founding
  <2> QED
    BY <2>1, <2>2, <2>3, <2>4, <2>5 DEF Kept
<1>3. CASE Refuse(u) \/ CreatePendingLogo(u) \/ ActivateLogo(u) \/ Deadlock(u) \/ Rollback(u)
  <2>1. pc[u] # "done" /\ UNCHANGED <<asset, bucket, ledger>>
    BY <1>3 DEF Refuse, CreatePendingLogo, ActivateLogo, Deadlock, Rollback,
                InTransaction
  <2>2. \A v \in Uploads \ {u} : pc'[v] = pc[v]
    BY <1>3, PcStep DEF Refuse, CreatePendingLogo, ActivateLogo, Deadlock, Rollback
  <2> QED
    BY <2>1, <2>2, KeptByQuietStep
<1>4. CASE ReplaceLogo(u)
  <2>1. pc'[u] = "done" /\ \A v \in Uploads \ {u} : pc'[v] = pc[v]
    BY <1>4, PcStep DEF ReplaceLogo, Answered
  <2>2. pc[u] = "locked" /\ UNCHANGED bucket
    BY <1>4 DEF ReplaceLogo
  <2>3. /\ Active' = {u} /\ u \in bucket /\ ledger' = ledger \cup Active
        /\ \A v \in Uploads \ {u} : asset'[v] = "none" <=> asset[v] = "none"
    BY <1>4, ReplaceLogoStep
  <2>4. u \notin ledger /\ u \notin Active
    BY <2>2 DEF IInv, Fresh, Uncommitted, InTransaction, Active
  <2> QED
    BY <2>1, <2>2, <2>3, <2>4 DEF Kept
<1>5. CASE Compensate(u) \/ EnqueueOrphanCleanup(u)
  <2>1. /\ pc[u] # "done" /\ UNCHANGED asset
        /\ bucket' \in {bucket, bucket \ {u}} /\ ledger' \in {ledger, ledger \cup {u}}
    BY <1>5 DEF Compensate, EnqueueOrphanCleanup
  <2>2. \A v \in Uploads \ {u} : pc'[v] = pc[v]
    BY <1>5, PcStep DEF Compensate, EnqueueOrphanCleanup
  <2> QED
    BY <2>1, <2>2, KeptByQuietStep
<1> QED
  BY <1>1, <1>2, <1>3, <1>4, <1>5 DEF Handle, Proceed

LEMMA StepKeeps ==
  ASSUME "reply" \notin Faults, IInv, Kept, [Next]_vars
  PROVE  Kept' /\ [B!Next]_(B!vars)
<1>1. CASE UNCHANGED vars \/ CreateWithoutLogo
  <2>1. UNCHANGED <<bucket, asset, ledger, pc>>
    BY <1>1 DEF vars, CreateWithoutLogo
  <2> QED
    BY <2>1 DEF Kept, Active, B!vars
<1>2. ASSUME NEW u \in Uploads, Start(u) \/ Crash(u)
      PROVE  Kept' /\ [B!Next]_(B!vars)
  <2>1. pc[u] # "done" /\ UNCHANGED <<asset, bucket, ledger>>
    BY <1>2 DEF Start, Crash, Working, InTransaction
  <2>2. \A v \in Uploads \ {u} : pc'[v] = pc[v]
    BY <1>2, PcStep DEF Start, Crash
  <2> QED
    BY <2>1, <2>2, KeptByQuietStep DEF B!vars
<1>3. ASSUME NEW u \in Uploads, Cleanup(u)
      PROVE  Kept' /\ [B!Next]_(B!vars)
  <2>1. /\ u \in ledger /\ bucket' = bucket \ {u}
        /\ UNCHANGED <<asset, ledger, pc>>
    BY <1>3 DEF Cleanup
  <2>2. u \notin Active /\ Active' = Active
    BY <2>1 DEF Kept, Active
  <2>3. B!Remove(u)
    BY <2>1, <2>2 DEF B!Remove
  <2> QED
    BY <2>1, <2>2, <2>3 DEF Kept, B!Next
<1>4. ASSUME NEW u \in Uploads, Handle(u)
      PROVE  Kept' /\ [B!Next]_(B!vars)
  BY <1>4, HandleKeeps DEF B!vars, B!Next, B!Put, B!Show, B!Remove
<1> QED
  BY <1>1, <1>2, <1>3, <1>4 DEF Next

LEMMA KeptInvariance ==
  ASSUME "reply" \notin Faults
  PROVE  Spec => []Kept
<1>1. Init => Kept
  BY DEF Init, Kept, Active
<1>2. IInv /\ Kept /\ [Next]_vars => Kept'
  BY StepKeeps
<1> QED
  BY <1>1, <1>2, Invariance, PTL DEF Spec

\* Unless the reply of a commit is lost, an upload that is answered with an error
\* has changed nothing: the logo of before is still the logo.
THEOREM FailureHarmless ==
  ASSUME "reply" \notin Faults
  PROVE  Spec => []FailureKeepsLogo
<1>1. Kept => FailureKeepsLogo
  BY DEF Kept, FailureKeepsLogo, Errors
<1> QED
  BY <1>1, KeptInvariance, PTL

\* Unless the reply of a commit is lost, the organization shows at most one logo,
\* which is stored, which only another one replaces, and which no compensation
\* and no clean-up removes: with any number of concurrent uploads, crashes and
\* failures of the store and of the database.
THEOREM Refinement ==
  ASSUME "reply" \notin Faults
  PROVE  Spec => ImplementsBranding
<1>1. Init => B!Init
  BY DEF Init, B!Init, Active
<1>2. IInv /\ Kept /\ [Next]_vars => [B!Next]_(B!vars)
  BY StepKeeps
<1> QED
  BY <1>1, <1>2, Invariance, KeptInvariance, PTL DEF Spec, ImplementsBranding, B!Spec

-----------------------------------------------------------------------------
(* No object is forgotten, whatever fails                                  *)

Abandoned == {"dead", "unstored", "unlisted"}

LEMMA StepLeaksNothing ==
  ASSUME IInv, NothingLeaks, [Next]_vars
  PROVE  NothingLeaks'
\* Upload u moves on; its object stays in its hands, or leaves the bucket, or is
\* on record.
<1>1. ASSUME NEW u \in Uploads, NEW label, Goto(u, label),
             \A v \in Uploads \ {u} : v \in Active \cup ledger => v \in Active' \cup ledger',
             bucket' \subseteq bucket \cup {u},
             u \in bucket' => u \in Active' \cup ledger' \/ label \in Working \cup Abandoned
      PROVE  NothingLeaks'
  <2>1. pc'[u] = label /\ \A v \in Uploads \ {u} : pc'[v] = pc[v]
    BY <1>1, PcStep
  <2>2. bucket \subseteq Uploads
    BY DEF IInv, TypeOK
  <2> QED
    BY <1>1, <2>1, <2>2 DEF NothingLeaks, Abandoned
<1>2. CASE UNCHANGED vars \/ CreateWithoutLogo
  <2>1. UNCHANGED <<bucket, asset, ledger, pc>>
    BY <1>2 DEF vars, CreateWithoutLogo
  <2>2. Active' = Active
    BY <2>1 DEF Active
  <2> QED
    BY <2>1, <2>2 DEF NothingLeaks, Abandoned
<1>3. ASSUME NEW u \in Uploads, Start(u)
      PROVE  NothingLeaks'
  <2>1. PICK label \in {"store", "storeNew"} : Goto(u, label)
    BY <1>3 DEF Start
  <2>2. UNCHANGED <<asset, bucket, ledger>> /\ Active' = Active
    BY <1>3 DEF Start, Active
  <2> QED
    BY <1>1, <2>1, <2>2 DEF Working
<1>4. ASSUME NEW u \in Uploads, Cleanup(u)
      PROVE  NothingLeaks'
  <2>1. bucket' \subseteq bucket /\ UNCHANGED <<asset, ledger, pc>>
    BY <1>4 DEF Cleanup
  <2>2. Active' = Active
    BY <2>1 DEF Active
  <2> QED
    BY <2>1, <2>2 DEF NothingLeaks, Abandoned
<1>5. ASSUME NEW u \in Uploads, Handle(u)
      PROVE  NothingLeaks'
  <2>1. CASE Store(u)
    <3>1. PICK label \in {"begin", "create", "unstored"} : Goto(u, label)
      BY <2>1 DEF Store
    <3>2. bucket' \subseteq bucket \cup {u} /\ UNCHANGED ledger /\ Active' = Active
      BY <2>1 DEF Store, Active
    <3> QED
      BY <1>1, <3>1, <3>2 DEF Working, InTransaction, Abandoned
  <2>2. CASE Create(u)
    <3>1. PICK label \in {"done", "compensate"} : Goto(u, label)
      BY <2>2 DEF Create, Answered
    <3>2. UNCHANGED <<bucket, ledger>>
      BY <2>2 DEF Create
    <3>3. Active' = {u} /\ Active = {}
      BY <2>2, CreateStep
    <3> QED
      BY <1>1, <3>1, <3>2, <3>3
  <2>3. CASE Refuse(u) \/ CreatePendingLogo(u) \/ ActivateLogo(u) \/ Deadlock(u) \/ Rollback(u)
    <3>1. PICK label \in {"compensate", "inserted", "locked"} : Goto(u, label)
      BY <2>3 DEF Refuse, CreatePendingLogo, ActivateLogo, Deadlock, Rollback
    <3>2. UNCHANGED <<bucket, ledger>> /\ Active' = Active
      BY <2>3 DEF Refuse, CreatePendingLogo, ActivateLogo, Deadlock, Rollback, Active
    <3> QED
      BY <1>1, <3>1, <3>2 DEF Working, InTransaction
  <2>4. CASE ReplaceLogo(u)
    <3>1. PICK label \in {"done", "compensate"} : Goto(u, label)
      BY <2>4 DEF ReplaceLogo, Answered
    <3>2. UNCHANGED bucket
      BY <2>4 DEF ReplaceLogo
    <3>3. Active' = {u} /\ ledger' = ledger \cup Active
      BY <2>4, ReplaceLogoStep
    <3> QED
      BY <1>1, <3>1, <3>2, <3>3
  <2>5. CASE Compensate(u)
    <3>1. PICK label \in {"failed", "enqueue"} :
            /\ Goto(u, label)
            /\ label = "failed" => u \notin bucket'
      BY <2>5 DEF Compensate
    <3>2. bucket' \subseteq bucket /\ UNCHANGED ledger /\ Active' = Active
      BY <2>5 DEF Compensate, Active
    <3> QED
      BY <1>1, <3>1, <3>2 DEF Working
  <2>6. CASE EnqueueOrphanCleanup(u)
    <3>1. PICK label \in {"failed", "unlisted"} :
            /\ Goto(u, label)
            /\ label = "failed" => u \in ledger'
      BY <2>6 DEF EnqueueOrphanCleanup
    <3>2. ledger \subseteq ledger' /\ UNCHANGED bucket /\ Active' = Active
      BY <2>6 DEF EnqueueOrphanCleanup, Active
    <3> QED
      BY <1>1, <3>1, <3>2 DEF Abandoned
  <2> QED
    BY <1>5, <2>1, <2>2, <2>3, <2>4, <2>5, <2>6 DEF Handle, Proceed
<1>6. ASSUME NEW u \in Uploads, Crash(u)
      PROVE  NothingLeaks'
  <2>1. Goto(u, "dead") /\ UNCHANGED <<asset, bucket, ledger>> /\ Active' = Active
    BY <1>6 DEF Crash, Active
  <2> QED
    BY <1>1, <2>1 DEF Abandoned
<1> QED
  BY <1>2, <1>3, <1>4, <1>5, <1>6 DEF Next

\* No object is forgotten whatever fails, lost replies of commits included: it is
\* the logo, on the ledger, or in the hands of its upload, unless that died, its
\* store failed, or both the deletion and the ledger failed it.
THEOREM NoLeak == Spec => []NothingLeaks
<1>1. Init => NothingLeaks
  BY DEF Init, NothingLeaks
<1>2. IInv /\ NothingLeaks /\ [Next]_vars => NothingLeaks'
  BY StepLeaksNothing
<1> QED
  BY <1>1, <1>2, Invariance, PTL DEF Spec

-----------------------------------------------------------------------------
(* The logo that is shown, whatever fails                                  *)

\* One logo at most, which is stored until its own upload compensates.
Shown == OneLogo /\ ShownIsStored

\* What a step may do to the logo: keep it, or let it give way to a stored one.
ShowsAnother ==
  \E u \in Uploads : Active' = {u} /\ u \in bucket' /\ Active \subseteq ledger'

LEMMA NewLogoShown ==
  ASSUME IInv, IInv', NEW u \in Uploads, pc[u] \in Uncommitted,
         Active' = {u}, u \in bucket, bucket' = bucket, ledger' = ledger \cup Active
  PROVE  Shown' /\ ShowsAnother
<1>1. u \notin Active /\ u \notin ledger
  BY DEF IInv, Fresh, Active
<1> QED
  BY <1>1 DEF Shown, OneLogo, ShownIsStored, ShowsAnother

\* A step of upload u that commits nothing.
LEMMA ShownStays ==
  ASSUME IInv, Shown, NEW u \in Uploads, NEW label, Goto(u, label), UNCHANGED asset,
         \A v \in Uploads \ {u} :
           (v \in bucket => v \in bucket') /\ (v \in ledger' => v \in ledger),
         u \in Active => label \notin {"done", "compensate"}
  PROVE  Shown' /\ Active' = Active
<1>1. Active' = Active /\ Active \subseteq Uploads
  BY DEF Active
<1>2. pc'[u] = label /\ \A v \in Uploads \ {u} : pc'[v] = pc[v]
  BY PcStep
<1> QED
  BY <1>1, <1>2 DEF Shown, OneLogo, ShownIsStored

LEMMA HandleShows ==
  ASSUME IInv, IInv', Shown, NEW u \in Uploads, Handle(u)
  PROVE  Shown' /\ (Active' = Active \/ ShowsAnother)
<1> USE DEF Uncommitted, Founding, InTransaction
<1>1. pc[u] \in Uncommitted => u \notin Active
  BY DEF IInv, Fresh, Active
<1>2. CASE Create(u)
  <2>1. pc[u] = "create" /\ UNCHANGED <<bucket, ledger>>
    BY <1>2 DEF Create
  <2>2. Active' = {u} /\ Active = {} /\ u \in bucket
    BY <1>2, CreateStep
  <2> QED
    BY <2>1, <2>2, NewLogoShown
<1>3. CASE ReplaceLogo(u)
  <2>1. pc[u] = "locked" /\ UNCHANGED bucket
    BY <1>3 DEF ReplaceLogo
  <2>2. Active' = {u} /\ u \in bucket /\ ledger' = ledger \cup Active
    BY <1>3, ReplaceLogoStep
  <2> QED
    BY <2>1, <2>2, NewLogoShown
<1>4. CASE Store(u)
  <2>1. PICK label \in {"begin", "create", "unstored"} : Goto(u, label)
    BY <1>4 DEF Store
  <2>2. bucket \subseteq bucket' /\ UNCHANGED <<asset, ledger>>
    BY <1>4 DEF Store
  <2> QED
    BY <2>1, <2>2, ShownStays
<1>5. CASE Refuse(u) \/ CreatePendingLogo(u) \/ ActivateLogo(u) \/ Deadlock(u) \/ Rollback(u)
  <2>1. PICK label \in {"compensate", "inserted", "locked"} : Goto(u, label)
    BY <1>5 DEF Refuse, CreatePendingLogo, ActivateLogo, Deadlock, Rollback
  <2>2. pc[u] \in Uncommitted /\ UNCHANGED <<asset, bucket, ledger>>
    BY <1>5 DEF Refuse, CreatePendingLogo, ActivateLogo, Deadlock, Rollback
  <2> QED
    BY <1>1, <2>1, <2>2, ShownStays
<1>6. CASE Compensate(u) \/ EnqueueOrphanCleanup(u)
  <2>1. PICK label \in {"failed", "enqueue", "unlisted"} : Goto(u, label)
    BY <1>6 DEF Compensate, EnqueueOrphanCleanup
  <2>2. /\ bucket' \in {bucket, bucket \ {u}} /\ ledger' \in {ledger, ledger \cup {u}}
        /\ UNCHANGED asset
    BY <1>6 DEF Compensate, EnqueueOrphanCleanup
  <2> QED
    BY <2>1, <2>2, ShownStays
<1> QED
  BY <1>2, <1>3, <1>4, <1>5, <1>6 DEF Handle, Proceed

LEMMA StepShows ==
  ASSUME IInv, Shown, [Next]_vars
  PROVE  Shown' /\ (Active' = Active \/ ShowsAnother)
<1>1. IInv'
  BY StepInvariant
<1>2. CASE UNCHANGED vars \/ CreateWithoutLogo
  <2>1. UNCHANGED <<bucket, asset, ledger, pc>>
    BY <1>2 DEF vars, CreateWithoutLogo
  <2>2. Active' = Active
    BY <2>1 DEF Active
  <2> QED
    BY <2>1, <2>2 DEF Shown, OneLogo, ShownIsStored
<1>3. ASSUME NEW u \in Uploads, Start(u) \/ Crash(u)
      PROVE  Shown' /\ Active' = Active
  <2>1. PICK label \in {"store", "storeNew", "dead"} : Goto(u, label)
    BY <1>3 DEF Start, Crash
  <2>2. UNCHANGED <<asset, bucket, ledger>>
    BY <1>3 DEF Start, Crash
  <2> QED
    BY <2>1, <2>2, ShownStays
<1>4. ASSUME NEW u \in Uploads, Cleanup(u)
      PROVE  Shown' /\ Active' = Active
  <2>1. u \in ledger /\ bucket' = bucket \ {u} /\ UNCHANGED <<asset, ledger, pc>>
    BY <1>4 DEF Cleanup
  <2>2. Active' = Active
    BY <2>1 DEF Active
  <2> QED
    BY <2>1, <2>2 DEF Shown, OneLogo, ShownIsStored
<1>5. ASSUME NEW u \in Uploads, Handle(u)
      PROVE  Shown' /\ (Active' = Active \/ ShowsAnother)
  BY <1>1, <1>5, HandleShows
<1> QED
  BY <1>2, <1>3, <1>4, <1>5 DEF Next

LEMMA ShownInvariance == Spec => []Shown
<1>1. Init => Shown
  BY DEF Init, Shown, OneLogo, ShownIsStored, Active
<1>2. IInv /\ Shown /\ [Next]_vars => Shown'
  BY StepShows
<1> QED
  BY <1>1, <1>2, Invariance, PTL DEF Spec

\* Whatever fails, lost replies of commits included, and without the unique index
\* over active assets: the lock of the organization alone keeps the logo single.
THEOREM OneLogoShown == Spec => []OneLogo
BY ShownInvariance, PTL DEF Shown

\* The object of the logo is stored and not on the ledger whatever fails, except
\* after a lost reply made its own upload compensate: no other upload, no other
\* failure and no clean-up takes it away.
THEOREM StoredUntilCompensated == Spec => []ShownIsStored
BY ShownInvariance, PTL DEF Shown

\* Whatever fails, every step leaves the logo as it is or shows a stored one
\* instead, with the replaced one on the ledger.
THEOREM OnlyReplaced == Spec => GivesWayToAnother
<1> DEFINE A == Active' # Active =>
       \E u \in Uploads : Active' = {u} /\ u \in bucket' /\ Active \subseteq ledger'
<1>1. IInv /\ Shown /\ [Next]_vars => [A]_vars
  BY StepShows DEF ShowsAnother
<1> HIDE DEF A
<1> QED
  BY <1>1, Invariance, ShownInvariance, PTL DEF Spec, GivesWayToAnother, A

=============================================================================
