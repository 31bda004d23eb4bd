-------------------------------- MODULE Logo --------------------------------
(***************************************************************************)
(* The logo of one organization: create and updateLogo of apps/api/src/    *)
(* organizations/organizations.service.ts with the transactions of         *)
(* packages/database/src/repositories/organizations.ts.                    *)
(*                                                                         *)
(* An upload first puts its object into the bucket, then records it in a   *)
(* transaction, and compensates with a deletion when the transaction       *)
(* fails.  Any number of uploads run at once; their transactions meet at   *)
(* the row of the organization: the insertion of the asset takes a key     *)
(* share lock on it (its foreign key), the activation locks it for update. *)
(*                                                                         *)
(* The clean-up of objects on the ledger is the disposal that module       *)
(* LogoCleanup implements.  The unique index over active assets is left    *)
(* out: the lock alone must do.                                            *)
(***************************************************************************)
EXTENDS FiniteSets

CONSTANTS
  Uploads,       \* requests with a logo; also their object keys
  Faults         \* what may go wrong, a subset of FaultKinds

FaultKinds ==
  {"crash",      \* the API process dies
   "put",        \* store fails, with or without effect
   "delete",     \* deleteObject fails, with or without effect
   "db",         \* a statement fails and its transaction is rolled back
   "reply"}      \* a transaction commits and its reply is lost

ASSUME LogoAssumption == Faults \subseteq FaultKinds

VARIABLES
  exists,        \* the organization is in the database
  bucket,        \* the objects stored
  asset,         \* asset[u]: the committed status of the asset of u
  ledger,        \* the keys on the clean-up ledger
  pc,            \* pc[u]: where upload u stands
  previous       \* previous[u]: the active asset its transaction has read

vars == <<exists, bucket, asset, ledger, pc, previous>>

InTransaction == {"begin", "inserted", "locked"}
Working ==
  {"storeNew", "create", "store", "compensate", "enqueue"} \cup InTransaction

\* Answers with an error: the transaction failed and its object is taken care of,
\* store failed, or the object could neither be deleted nor put on the ledger.
Errors == {"failed", "unstored", "unlisted"}
Ended == {"done", "dead"} \cup Errors

Active == {u \in Uploads : asset[u] = "active"}
Replaced == {u \in Uploads : asset[u] = "delete_pending"}

Init ==
  /\ exists = FALSE
  /\ bucket = {} /\ ledger = {}
  /\ asset = [u \in Uploads |-> "none"]
  /\ pc = [u \in Uploads |-> "idle"]
  /\ previous = [u \in Uploads |-> {}]

Goto(u, label) == pc' = [pc EXCEPT ![u] = label]

-----------------------------------------------------------------------------
(* The object                                                              *)

Creating == \E u \in Uploads : pc[u] \in {"storeNew", "create"}

CreateWithoutLogo ==
  /\ ~exists /\ ~Creating
  /\ exists' = TRUE
  /\ UNCHANGED <<bucket, asset, ledger, pc, previous>>

\* create with a logo, or updateLogo of an authorized actor.
Start(u) ==
  /\ pc[u] = "idle"
  /\ \/ exists /\ Goto(u, "store")
     \/ ~exists /\ ~Creating /\ Goto(u, "storeNew")
  /\ UNCHANGED <<exists, bucket, asset, ledger, previous>>

\* A failed store is not compensated: there is no key to delete yet.
Store(u) ==
  /\ pc[u] \in {"store", "storeNew"}
  /\ \/ /\ bucket' = bucket \cup {u}
        /\ Goto(u, IF pc[u] = "store" THEN "begin" ELSE "create")
     \/ /\ "put" \in Faults
        /\ bucket' \in {bucket, bucket \cup {u}}
        /\ Goto(u, "unstored")
  /\ UNCHANGED <<exists, asset, ledger, previous>>

-----------------------------------------------------------------------------
(* The transaction                                                         *)

\* Bug for the mutation checks: what follows the commit is inside the try.
AnsweredInsideTry(u) == \E label \in {"done", "compensate"} : Goto(u, label)

\* The commit is answered; a lost answer looks like a failed transaction.
Answered(u) ==
  \E label \in IF "reply" \in Faults THEN {"done", "compensate"} ELSE {"done"} :
    Goto(u, label)

\* The organization with its first logo, in one transaction nobody else sees.
Create(u) ==
  /\ pc[u] = "create"
  /\ exists' = TRUE
  /\ asset' = [asset EXCEPT ![u] = "active"]
  /\ Answered(u)
  /\ UNCHANGED <<bucket, ledger, previous>>

\* replaceLogo asks for the membership again before it inserts the asset.
Refuse(u) ==
  /\ pc[u] = "begin"
  /\ Goto(u, "compensate")
  /\ UNCHANGED <<exists, bucket, asset, ledger, previous>>

CreatePendingLogo(u) ==
  /\ pc[u] = "begin"
  /\ \A v \in Uploads : pc[v] # "locked"
  /\ Goto(u, "inserted")
  /\ UNCHANGED <<exists, bucket, asset, ledger, previous>>

\* Bug for the mutation checks: the organization is not locked.
ActivateLogoUnlocked(u) ==
  /\ pc[u] = "inserted"
  /\ previous' = [previous EXCEPT ![u] = Active]
  /\ Goto(u, "locked")
  /\ UNCHANGED <<exists, bucket, asset, ledger>>

\* activateLogo waits for the lock, then reads the active asset.
ActivateLogo(u) ==
  /\ pc[u] = "inserted"
  /\ \A v \in Uploads \ {u} : pc[v] \notin {"inserted", "locked"}
  /\ previous' = [previous EXCEPT ![u] = Active]
  /\ Goto(u, "locked")
  /\ UNCHANGED <<exists, bucket, asset, ledger>>

\* Bug for the mutation checks: they wait for each other outside the database,
\* where nobody notices.
DeadlockUnnoticed(u) == FALSE

\* Two that have inserted wait for each other; the database aborts one.
Deadlock(u) ==
  /\ pc[u] = "inserted"
  /\ \E v \in Uploads \ {u} : pc[v] = "inserted"
  /\ Goto(u, "compensate")
  /\ UNCHANGED <<exists, bucket, asset, ledger, previous>>

\* Bug for the mutation checks: the replaced logo is not put on the ledger.
ReplaceLogoWithoutCleanup(u) ==
  /\ pc[u] = "locked"
  /\ asset' = [v \in Uploads |-> IF v = u THEN "active"
                                 ELSE IF v \in previous[u] THEN "delete_pending"
                                 ELSE asset[v]]
  /\ Answered(u)
  /\ UNCHANGED <<exists, bucket, ledger, previous>>

\* The rest of replaceLogo up to the commit.
ReplaceLogo(u) ==
  /\ pc[u] = "locked"
  /\ asset' = [v \in Uploads |-> IF v = u THEN "active"
                                 ELSE IF v \in previous[u] THEN "delete_pending"
                                 ELSE asset[v]]
  /\ ledger' = ledger \cup previous[u]
  /\ Answered(u)
  /\ UNCHANGED <<exists, bucket, previous>>

Rollback(u) ==
  /\ "db" \in Faults
  /\ pc[u] \in InTransaction \cup {"create"}
  /\ Goto(u, "compensate")
  /\ UNCHANGED <<exists, bucket, asset, ledger, previous>>

-----------------------------------------------------------------------------
(* The compensation                                                        *)

\* Bug for the mutation checks: the failure of the deletion is swallowed.
CompensateForgetting(u) ==
  /\ pc[u] = "compensate"
  /\ \/ bucket' = bucket \ {u}
     \/ "delete" \in Faults /\ UNCHANGED bucket
  /\ Goto(u, "failed")
  /\ UNCHANGED <<exists, asset, ledger, previous>>

\* compensateStoredObject
Compensate(u) ==
  /\ pc[u] = "compensate"
  /\ \/ /\ bucket' = bucket \ {u}
        /\ Goto(u, "failed")
     \/ /\ "delete" \in Faults
        /\ bucket' \in {bucket, bucket \ {u}}
        /\ Goto(u, "enqueue")
  /\ UNCHANGED <<exists, asset, ledger, previous>>

\* enqueueOrphanCleanup in a transaction of its own; if it fails, so be it.
EnqueueOrphanCleanup(u) ==
  /\ pc[u] = "enqueue"
  /\ \/ ledger' = ledger \cup {u} /\ Goto(u, "failed")
     \/ "db" \in Faults /\ UNCHANGED ledger /\ Goto(u, "unlisted")
  /\ UNCHANGED <<exists, bucket, asset, previous>>

Crash(u) ==
  /\ "crash" \in Faults
  /\ pc[u] \in Working
  /\ Goto(u, "dead")
  /\ UNCHANGED <<exists, bucket, asset, ledger, previous>>

\* The disposal of what is on the ledger.
Cleanup(k) ==
  /\ k \in ledger \cap bucket
  /\ bucket' = bucket \ {k}
  /\ UNCHANGED <<exists, asset, ledger, pc, previous>>

\* What a live request goes on with by itself.
Proceed(u) ==
  \/ Store(u) \/ Create(u)
  \/ CreatePendingLogo(u) \/ ActivateLogo(u) \/ ReplaceLogo(u)
  \/ Compensate(u) \/ EnqueueOrphanCleanup(u)

Handle(u) == Proceed(u) \/ Refuse(u) \/ Deadlock(u) \/ Rollback(u)

Next ==
  \/ CreateWithoutLogo
  \/ \E u \in Uploads : Start(u) \/ Handle(u) \/ Crash(u) \/ Cleanup(u)

Spec == Init /\ [][Next]_vars

\* The awaits of a live process end, with a result or an error, and the database
\* notices a deadlock.  Nothing makes a transaction fail or be refused, and nothing
\* makes the clean-up delete an object: it may give up (see LogoCleanup).
Fairness ==
  \A u \in Uploads : WF_vars(Proceed(u)) /\ WF_vars(Deadlock(u))

FairSpec == Spec /\ Fairness

-----------------------------------------------------------------------------
(* Correctness                                                             *)

\* Types; who holds the lock holds it alone, and what it has read is current.
TypeOK ==
  /\ exists \in BOOLEAN
  /\ bucket \subseteq Uploads /\ ledger \subseteq Uploads
  /\ asset \in [Uploads -> {"none", "active", "delete_pending"}]
  /\ pc \in [Uploads -> {"idle"} \cup Working \cup Ended]
  /\ previous \in [Uploads -> SUBSET Uploads]
  /\ \A u \in Uploads : pc[u] = "locked" =>
       /\ previous[u] = Active
       /\ \A v \in Uploads \ {u} : pc[v] \notin {"inserted", "locked"}

\* An upload that is answered with an error has left the logo as it was.
FailureKeepsLogo ==
  \A u \in Uploads : pc[u] \in Errors => asset[u] = "none"

\* Every object is the logo, or on the ledger, or in the hands of its upload;
\* only the three losses the code accepts escape: the process died, store did
\* not say what it did, or deletion and ledger failed one after the other.
NothingLeaks ==
  \A k \in bucket :
    \/ k \in Active \cup ledger
    \/ pc[k] \in Working \cup {"dead", "unstored", "unlisted"}

\* With any number of concurrent uploads, one logo at most is shown.
OneLogo == \A u, v \in Active : u = v

\* A logo that is shown is stored, and no clean-up is after it, as long as its
\* own upload has not compensated a commit whose reply was lost.
ShownIsStored ==
  \A u \in Active : pc[u] \in {"done", "compensate"} => u \in bucket \ ledger

\* The logo is never just taken away: it gives way to a stored one, in a step that
\* puts it on the ledger.
GivesWayToAnother ==
  [][Active' # Active =>
       \E u \in Uploads : Active' = {u} /\ u \in bucket' /\ Active \subseteq ledger']_vars

\* The logo that is shown is stored; it gives way only to another one, in one
\* step; and no compensation or clean-up removes it.
B == INSTANCE Branding WITH stored <- bucket, shown <- Active

ImplementsBranding == B!Spec

\* Every upload is answered or dies: uploads wait for each other's locks, in a
\* circle even, but not for ever.
EventuallyAnswered == \A u \in Uploads : pc[u] \in Working ~> pc[u] \in Ended

=============================================================================
