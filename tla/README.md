# Verification of the tabela-pubg platform

TLA+ models, TLC configurations and TLAPS proofs for the platform that runs PUBG
training camps: an HTTP API (`apps/api`), a worker (`apps/worker`), a web
front end that proxies to the API (`apps/web`), PostgreSQL, Redis/BullMQ, an
S3-compatible object store and a mail provider. Every definition is translated
from the source; the `map` of `PROJECT.json` names the lines of each.

## 1. Inventory

### 1.1 Components

| Component | State | Operations | Talks to |
|---|---|---|---|
| Transactional outbox (`packages/database/src/outbox.ts`) | `outbox_events`: status, attempts, available_at, lease, claim token | append, claim batch, mark published, retry | every transaction of the API appends; the publisher claims |
| Outbox publisher (`apps/worker/src/outbox/publisher.ts`) | the batch in hand, its token | poll: claim, then per event map, `queue.add`, mark or retry | outbox, job queues |
| Job queues (`packages/queue`) | BullMQ jobs in Redis: id, attempts, delay | add (one job per id), deliver, retry with exponential backoff, redeliver when stalled | publisher, processors |
| Organization membership (`repositories/organizations.ts`, `members.service.ts`) | organizations, memberships, role assignments | create, update roles, revoke, transfer ownership | permission guard, audit, outbox |
| Invitations (`repositories/organizations.ts`, `invitations.service.ts`) | invitations with token digest, expiry, offered roles | create, resend, revoke, preview, accept | identity (verified addresses), notifications |
| Logo assets (`organizations.service.ts`, `repositories/organizations.ts`) | asset rows, one active per organization; objects in the bucket | store, activate, replace, compensate | object store, cleanup ledger |
| Logo cleanup (`repositories/organizations.ts`, `apps/worker/src/storage/logo-cleanup.processor.ts`) | orphan cleanup ledger: status, attempts, due date, claim date | enqueue, claim, delete, complete, retry | object store, job queue |
| Notification delivery (`repositories/notifications.ts`, `apps/worker/src/notifications`) | deliveries with encrypted payload, expiry | create, process, clear payload, expire | mail provider, outbox, job queue |
| OTP challenges (`otp.service.ts`, `repositories/identity.ts`) | challenges: digest, attempts, expiry, consumed | request, replace, verify, consume | rate limiter, notifications, sessions |
| Sessions and devices (`repositories/sessions.ts`, `session.service.ts`) | sessions (provisional or trusted, idle and absolute expiry, step-up), devices, alert contexts | issue, resolve and touch, rotate, promote, revoke, revoke others | guards, identity |
| Identities and security changes (`repositories/identity.ts`, `identity-security-change.ts`) | users, identities, verified addresses, link proofs | create account, link, remove, change address | sessions, notifications, audit |
| OAuth with Discord (`oauth.service.ts`) | OAuth transactions, PKCE verifiers in Redis | start, consume, link | Discord, identity |
| Authentication rate limiter (`redis-auth-rate-limiter.ts`) | windows per key in Redis | consume, store/take verifier | OTP, OAuth |
| Permission policy and guards (`packages/authorization`, `permission.guard.ts`) | none (reads memberships, assignments, sessions) | decide | every route |
| Audit trail (`repositories/audit.ts`) | append-only audit events | append, list | every mutation |
| CSRF tokens (`apps/api/src/security`) | cookies of the browser: session, pre-session nonce, CSRF secret | acquire, check, rotate, clear | every route that changes something |
| Web application (`apps/web`) | the cookie jar, the token a page holds | acquire a token, send a form, pass an answer on, reacquire | API |
| Worker lifecycle (`apps/worker/src/main.ts`) | handles of pool, queues, consumers, publisher, server | start, shutdown | everything the worker runs |
| Configuration, logging, health, Discord bot, scripts | none that matters | | |

Stateless parts (configuration, logging, contracts, rendering, image inspection)
are listed in `PROJECT.json` with the reason they are left out. Nothing of the tournament domain itself exists in the code yet.

### 1.2 What is hard

- **Several processes on one table.** Any number of workers claims outbox rows
  and cleanup rows; a lease may run out under a worker that is still busy, and
  the clocks of the workers differ.
- **Steps outside a transaction.** `queue.add`, `deleteObject`, `store` and
  sending mail lie between two database statements; the process may die or the
  reply be lost at each point.
- **Reads before the lock.** The permission guard and the services read
  memberships, invitations, clocks and sessions before the transaction has its
  row lock; `createInvitation` takes no lock at all.
- **At least once.** Every job may be delivered again, while its first delivery
  still runs.
- **Lock modes.** The foreign keys take share locks that later `FOR UPDATE`
  statements of the same transaction have to upgrade.
- **One step of several failing.** Rotating a session and revoking the others
  are two calls; compensation of a stored logo follows a failed transaction
  whose outcome may be unknown.

`hazards` in `PROJECT.json` lists each with its line and the properties that
watch it.

### 1.3 What makes each component correct

- Outbox: an event is reported published only when its job is in the queue; a
  claim is exclusive and fenced; every event is eventually published or has
  spent its attempts.
- Organization: one owner for ever; nobody acts with authority lost before the
  commit; who has left does not return.
- Invitations: a token makes one membership, for the invited address only; one
  working invitation per address; used, revoked and replaced ones stay so.
- Logos: at most one active logo, whose object exists; no object without an
  owner row or a ledger row. While only the store fails and clocks agree, the
  clean-up deletes what is condemned or has spent the attempts at it; a worker that
  dies may leave an object for ever (`cleanup_crash`).
- Notifications: one outcome and one mail at most per message. An outcome clears the
  payload; a job that spent its attempts may leave a pending one. A mail after the
  outcome takes a delivery that stalled.
- One-time codes: one valid code per purpose and address, accepted once; a bounded
  number of guesses.
- Identities and sessions: an account always keeps a way in; a removed method never
  comes back; a change of methods leaves no other session open.
- Guards: nobody passes whom the rows did not entitle at some moment of the request.
- Browser and proxy: no CSRF token survives a change of the session; who goes on
  trying is let in.
- Worker: an orderly shutdown interrupts no job, and every job ends.

## 2. Modules

| Module | What it is |
|---|---|
| `Handoff` | Abstract: at-least-once hand-over of committed events |
| `Outbox` | Outbox rows, publisher processes, the queue as a set of job ids, lagging clocks, faults |
| `Membership` | Abstract: who belongs to an organization |
| `Organization` | Memberships, invitations, verified addresses, requests in flight |
| `Disposal` | Abstract: condemned objects are deleted and recorded as gone |
| `LogoCleanup` | The clean-up ledger, the BullMQ job of each row, the processor in several workers |
| `Branding` | Abstract: what an organization promises about its logo |
| `Logo` | Uploads of a logo: store, transaction, locks, compensation, ledger |
| `Mailing` | Abstract: one mail per message, one outcome per message |
| `Notification` | Delivery rows with their payloads, the job of each, the processor, the mail provider |
| `Worker` | EXTENDS `Notification`: the processes that run it, with `start` and `shutdown` |
| `OneTimeCode` | Abstract: of the codes for one subject one is valid, and it is accepted once |
| `Challenge` | OTP challenges, the requests that issue and verify them, the limiter's windows |
| `Session` | Sessions, their row locks and the statements over them |
| `Custody` | Abstract: who a sign-in method belongs to |
| `Account` | EXTENDS `Session`: identities, addresses, link proofs and the transactions that change them |
| `Policy` | The permission policy, a pure operator |
| `Access` | EXTENDS `Policy`: the permission guard and the audit trail's reads while roles change |
| `Browser` | Cookies, pages, CSRF tokens, the proxy, the session and CSRF guards |
| `Gateway` | Composition of `Browser` and `Access`: the way of a request through all guards |
| `...Proofs` | Theorems about the module of that name |
| `MC...` | Instances for TLC (symmetry sets, tables) |

`Worker` composes the processes with the jobs, `Account` the sessions with the
methods, `Gateway` the browser with the guards. `Challenge` mails through
`InsertDelivery` of `Notification`, whose event `Outbox` hands over; each is checked
against what the other promises (`OneTimeCode`, `Mailing`, `Handoff`) rather than
in one state space.

### 2.1 Outbox

`row[e]` is the `outbox_events` row of event `e`, `queued` the job ids BullMQ
has accepted, `pub[p]` what `runOnce` of worker process `p` holds: its claim
token, the rest of its batch, the event in hand and whether it is about to mark
or to retry it. Actions: `Append` (`appendOutboxEvent`), `Claim`
(`claimOutboxBatch`, one statement with `FOR UPDATE SKIP LOCKED`), and the steps
of `publishClaimedEvent` between its awaits: `RejectInvalid` (`mapEvent`
throws), `Enqueue` (`queue.add`), `MarkPublished`, `Retry`. `Crash` ends a
process between two steps.

*Time.* A row keeps the time left until it is due and until its lease ends;
`Tick` counts both down, to `-MaxLag` and no further. The statements compare
these dates with the clock of the process that runs them; a process may lag
`0..MaxLag` behind, chosen anew for each statement. `MaxLag` stands for clock skew
between workers as well as for the age of a `now` read before an await.

*Faults*, each a member of the constant `Faults`: `crash`, `redis` (`queue.add`
rejects, whether or not the job was kept), `db` (a statement fails), `reply` (a
statement commits and its reply is lost).

*Abstractions.* Payloads are reduced to whether `mapEvent` knows the event
(`Supported`: `notification.delivery.requested` and `storage.logo.cleanup`,
version 1). Claim tokens are drawn from a finite set and no token in use is drawn
again (`randomUUID`). The order of a batch is left open.

### 2.2 Organization

`member[u]` is the membership row of user `u` in one organization (role, status
and operational duties; the rows are per organization and no function relates
two organizations), `invitation[i]` an `invitations` row, `verified[a]` the
`verified_emails` row of address `a`, `request[r]` an API request in flight.

A request runs in two or three steps. `Begin` stands for the permission guard,
the service reading its clock and the transaction's own first read of the
caller's membership: everything read before the row lock of the organization.
The next step is the body of the transaction under `SELECT ... FOR UPDATE` of the
organization row, which every other writer of these tables takes as well, so the
body is one step: `Update`, `Remove`, `Transfer`, `Resend`, `Withdraw`, `Accept`.
`createInvitation` takes no lock and has two steps, `CheckInviter` and
`InsertInvitation`, which race with everything else; only the partial unique
index arbitrates. `Abort` is a failure at any point before the commit.

`Verify` and `RemoveAddress` are what the identity module does to an address:
the unique keys count removed rows, so an address belongs to the first account
that verified it, for ever.

*Abstractions.* Tokens are invitation ids: whoever knows a token can name the
invitation, and `Accept` may be called by anyone with any of them. Expiry is a
flag that `Lapse` sets; the service's clock is read at `Begin` (`timely`), so an
acceptance may commit after the date, but only one that was asked for before it
(`JoinsByInvitation`). Audit and outbox rows are appended in the same
transactions and nobody reads them back here; they are left out. Roles in
`role_assignments` are the set `duties`; revoking a membership leaves them in
place.

### 2.3 LogoCleanup

`ledger[k]` is the `orphan_storage_cleanup_ledger` row of object key `k` (the
keys are unique there), `job[k]` the BullMQ job whose id is the outbox event
appended with that row, `run[w]` the delivery worker `w` is processing,
`bucket` the objects that exist. `EnqueueOrphanCleanup` makes the row and
`AddJob` stands for outbox and publisher. The processor is `Claim`, `Delete`, then
`Complete` or `ScheduleRetry`, one step per await, each with its statement and,
where the processor returns or throws there, with what BullMQ makes of it
(`JobReturns`, `JobThrows`).

BullMQ is external and modelled from the settings of `packages/queue`: five
attempts with exponential backoff, one job per worker, a stalled job delivered
again once (`maxStalledCount`). `Recover` finds the job of a dead worker, `Stall`
takes it from a live one, which goes on working and whose return no longer
matters to the job. Retention of settled jobs is left out, and so is the refusal
of a malformed key, which `enqueueOrphanCleanup` never writes. Time is kept as in
`Outbox`; `run[w].age` is the age of the clock reading taken before the claim,
from which completion and retry compute their dates.

### 2.4 Logo

`asset[u]` is the committed row of upload `u` (each upload has its own object
key), `pc[u]` where `create` or `updateLogo` stands, `previous[u]` the active
asset that `activateLogo` has read under its lock, `ledger` the keys on the
clean-up ledger. A pending row is never committed, so it is a label of `pc`. The
lock modes are explicit: `CreatePendingLogo` needs that nobody holds the
organization for update (the foreign key takes a key share lock), `ActivateLogo`
that nobody else has inserted or holds the lock, `Deadlock` is PostgreSQL aborting
one of two that wait for each other. `Answered` is the commit, whose reply may be
lost. The partial unique index over active assets is left out on purpose: the lock
alone is shown to suffice. Four labels of `pc` are endings with an error or a death:
`failed` (compensated), `unstored` (`store` failed), `unlisted` (neither deleted nor on
the ledger), `dead`. `Refuse` (the membership asked for again) may happen to
anyone: who is a member is the matter of `Organization`. `Cleanup` is a step of the
disposal that `LogoCleanup` implements; whether it ever comes is asked there, not here.

### 2.5 Notification and Worker

`delivery[d]` is the `notification_deliveries` row (status and the time left until
`payload_expires_at`), `event` the rows whose outbox event is committed, `mails[d]`
how many mails left for the row, `job[d]` and `run[w]` as in `LogoCleanup`. A
delivery in `Transactional` (invitations, alerts) commits its event with its row; that
of a one-time code does not, because `identity.runtime.ts` passes the pool:
`AppendEvent` is a statement of its own, and without it nobody is mailed. `Find`,
`Send` and `Persist` are the awaits of the processor. The provider mails once per
idempotency key, which is that of the row. A payload is cleared exactly when its row
leaves `pending`, so it is no variable of its own; encryption is a key that is there or
not (fault `key`).

`Worker` puts processes around the jobs. `start()` and `shutdown()` are two
asynchronous functions of one process that may run at once: `proc[w].start` and
`proc[w].stop` are their places, `open` what is running, `known` the handles that
`shutdown` can see; a consumer takes jobs before `start` has assigned its handle.
`Close` walks through `CloseOrder`. Work on a closed pool throws; without Redis nothing
is reported and the job is found stalled. A supervisor starts an ended process again.

*Abstractions.* The queues and consumers of notifications and of clean-ups are created
and closed next to each other and are one component each; a close that rejects is
logged and counts as closed. The counters and dates of a settled job or a decided row
are reset, since nobody reads them any more. `expireNotificationPayloads`
(`notifications.ts:191`) is called by no program and is not in the model.

### 2.6 Challenge

`challenge[c]` is an `auth_challenges` row: status, its key (address and binding, which
stands for purpose, user and session), attempts left, whether it is timely. Issuing
takes three statements on the pool (`Supersede`, `Insert`, `Enqueue`), verifying two
(`Find`, then `RecordFailure` or `Complete`); any number of requests is between two of
them. `used[w]` are the points of a window of the limiter. `wrong`, `lost` and `uses` are
histories: wrong codes compared, failures never recorded, completions.

*Abstractions.* A window per IP address is shared with strangers and may refuse at any
time. The window of an address with an IP has the points of that of the address and
is never full before it. Expiry counts when a statement sees it. What a completed code
changes besides is `Account`, where every code is right.

### 2.7 Session and Account

`session[s]` is a `sessions` row with its two dates as flags (`fresh`: reauthenticated
within ten minutes; `Lapse` and `Expire` end them), and with a history (`via`, `how`) of
the method that opened it. `request[r]` is a request between two statements;
`pc = "locked"` holds the row lock of its session, and `Unlocked`, `UserUnlocked`, `Waits`
are who waits for whom. `identity[n]`, `email[e]` and `proof[p]` are the rows of
`identities`, `verified_emails` and `identity_link_proofs`; the unique indexes over them
cover revoked rows too (`Taken`, `Unrecorded`).

A security change takes its checks (`BeginLinkDiscord`, `BeginEmail`, `BeginPromote`,
`BeginRemove`), then the lock of its own session (`Lock`; `LockUser` before it for a
removal), then the rest of the transaction in one step (`LinkDiscord`, `LinkEmail`,
`ChangeEmail`, `Promote`, `Remove`), which waits until no other transaction holds what
it needs. A removal counts the methods with `Lock` and does not count again in `Remove`,
so that two removals go wrong together as soon as nothing keeps them apart. Two things
do: the lock of the user, and the lock of the session with the end of the other
sessions. TLC finds `ImplementsCustody` kept when one of the locks is left
out, whichever it is, and violated when both are. Two that wait for each other are ended by `End`, which stands for every
rejection, rolled-back transaction, deadlock victim and death.

*Abstractions.* A session opened with a method that has gone meanwhile is marked
`late`. Freshness is not asked again at the commit, as in the code. Routes that only
need a session check it and act in one step. Devices and alert contexts are left out:
the device fingerprint of a sign-in by mail is the pre-session or session cookie,
sign-ins with Discord use the fixed device `identity:<user>`, and nothing in this module
depends on either. `rotateCurrentAndRevokeOthers` is used by `linkIdentity` only,
which no route calls.

### 2.8 Policy, Access, Browser and Gateway

`Policy` is the decision table of `packages/authorization`. `Access` has one person's
rows (`member[o]`, `assigned[o]`) change between the two statements of
`loadAuthorizationSnapshot`, and between the reads of the audit trail; `check[r]` is how
far request `r` has come. `earned[r]` is a history that every step extends: what a
look at all rows at one moment since the request came would have justified. No controller
demands a tournament permission yet; the guard's branch for it is exercised here as
in its own tests. The contexts of path and header always agree, because the
proxy takes both from the path.

`Browser` is one browser: `jar` its cookies, `page[p]` the request of a page (asking for
a token, holding it, sent, admitted, answered), `token[t]` what the database knows of a
session token. `Ask` is answered by `CsrfController.acquire`; every form is `Post` with its
operation; `Admit` and `Refuse` are `SessionGuard` and `CsrfGuard`; the handlers return
`Set-Cookie` headers, which `Deliver` brings to the jar, `Discard` throws away (the proxy
could not reacquire a token and answers 502) and `Lose` loses. A CSRF token is the
secret and context it was made from, without its HMAC. `Gateway` runs the guards in
their order and puts `Access` behind them.

*Abstractions.* The sessions are of one person and trusted. `Tokens`, `MaxChanges` and
`MaxLost` bound what happens to the session. Transferring the ownership also has the
proxy reacquire a token, but its answer changes no cookie.

## 3. Runs

| Run | Question | Instance |
|---|---|---|
| `outbox` | Can an event be lost, reported early, published by a stale process? Is the outbox a `Handoff`? Does every event end published or spent? | 2 events (one supported), 2 processes, 4 tokens, 3 attempts, batches of 2, lag 1, all faults |
| `outbox_stuck` | Is a row in state publishing always recoverable, as `publisher.ts:231` says? (violation) | 1 event, 2 attempts, `db` faults |
| `organization` | One owner, authority at the commit, `Membership` implemented? Is a token used once, one invitation working, a used one final? Does only the invited person join, with what was offered and before it expires? | 3 users, 1 address that is verified and removed, 2 invitations, 2 requests, all operations, rollback, expiry, removal |
| `cleanup_safety` | Can the ledger report an object gone that is not, or a late delivery undo a completion? Is it a `Disposal`? | 1 object, 2 workers, 3 attempts, 1 stall, lag 1, all faults |
| `cleanup_retries` | Does the delay of the row ever make a retry of the job idle? Is every object deleted or given up? | 2 objects, 2 workers, 3 attempts, clocks that agree, `storage` faults |
| `cleanup_crash` | Is the clean-up durable when a worker dies? (violation) | 1 object, 2 workers, `crash` faults |
| `logo_uploads` | Does a failed upload change anything? Is the logo always one, stored, never removed (`Branding`)? Is any object forgotten, any upload never answered, two that wait for each other included? | 3 uploads, all faults but lost replies |
| `logo_reply` | Does a failed upload leave the logo as it was when replies are lost? (violation) | 2 uploads, `reply` faults |
| `worker_mail` | Is a mail sent twice, an outcome reported that is not on record, a job interrupted by an orderly shutdown, an event never answered? | 1 delivery outside a transaction, 2 processes, 2 attempts, 1 stall, lifetime and lag 1, 2 upsets of one process (signals, deaths, failed starts, lost locks), all faults |
| `challenge` | Are codes valid and used once? How many guesses does a code allow? | 2 challenges of one key, 2 requests at once, 2 attempts, 1 request and 2 verifications per window, 1 lost failure, all faults |
| `account` | Do the rows of a method agree, does an account keep a way in, does a change of methods end every other session? Is a Discord account linked only for its open proof? | 2 accounts, 2 identities, 2 sessions, 2 requests, 1 Discord account, 2 addresses, 1 proof, all operations |
| `gateway` | Does anything pass unearned? Does a token survive a change of the session? Is who goes on trying let in? | 2 pages, 1 organization with a scope, 2 session tokens, 2 changes, 1 lost answer |

*Why the bounds are enough.* The races involve two actors and one row; two processes,
requests or pages and a second row beside show every interleaving of them.

- Outbox and clean-up: three attempts leave a first, a middle and a last one. A lease of
  two ticks can run out while its holder works; a lag of one makes two processes disagree
  about it. Objects share nothing in the clean-up but the workers, so one object
  shows every overlap of its deliveries; the second one in `cleanup_retries` keeps a
  worker busy while a job waits. The lease is longer than a job's first retries, as five
  minutes are in the code.
- Organization: three users are an owner, a target and a bystander; two invitation ids are
  an invitation and its replacement. Operational duties travel as data only; the
  proofs cover any number.
- Logo: three uploads are the logo that is replaced and two that race to replace it.
- Worker: two attempts are one to fail and one to spend; two processes make the second
  delivery of a job overlap with the first; two upsets are a signal, failed start or lost
  lock and a death on top of it. `Upset` names the one process they happen to, the
  other is its undisturbed witness.
- Challenge: two challenges are a code and its replacement; two attempts a guess that is
  left and the last one.
- Account: two accounts and two identities make every collision of a subject; both
  requests may work for one account or for two.
- Gateway: one page acts, the other does everything that changes cookies; two changes are
  a sign-in and what ends or replaces it. Eleven nonces are what two pages can hold plus
  a fresh one, so the supply is never short.

Deadlock is not checked where ids and slots are bounded and the system may really stop
(`organization`, `logo_*`, `account`, `gateway`). Symmetry is used in runs that check
safety only.

*Fairness.* `Tick`: time passes. `Step(p)` of the outbox: `poll` re-arms its timer after
each run, also after a failing one, and every await inside it ends, with a result or
an error. In the clean-up, `AddJob`, `Deliver`, `Promote` and `Recover` are what outbox
and BullMQ do for every job, `Process(w)` the awaits of a live worker. In `Logo`,
`Proceed(u)` the awaits of a live API process and `Deadlock(u)` the deadlock detector of
the database, each for itself, so that no fault has to end a wait; `Refuse`,
`Rollback`, `Crash` and `Cleanup` may happen or not. In
`Worker`, `Serve(d)` is the queue for one job, `Advance(w)` whatever a process does
next, its restart by a supervisor included. In `Gateway`, `Step(p)` for those pages whose
user goes on trying; any other may be left at any moment, answers may be late for
ever, and nothing makes a session change happen. Nothing is assumed about which
fault happens, nor that faults stop (bounded kinds apart).

## 4. Findings

`outbox_stuck`: `publisher.ts:231` says that a database failure "leaves the
publishing lease recoverable for a later claim". `claimOutboxBatch` only offers
rows with `attempts < maxAttempts` (`outbox.ts:121`), and the claim itself counts
the attempt. When the last attempt's `retryEvent` fails, the row stays in state
`publishing` for ever, and no later claim takes it.

`cleanup_crash`: plan 02-21, line 113, says that the ledger guarantees durable
"enqueue, claim, retry e conclusão". A worker that dies between claim and delete
leaves the row `claimed` for five minutes; BullMQ delivers the stalled job again
long before that, `claimOrphanCleanup` finds nothing, the processor answers
`ignored` (`logo-cleanup.processor.ts:42`) and the job completes. Nothing looks at
the row again. The same happens when `completeOrphanCleanup` fails or the reply of a
claim is lost.

`logo_reply`: plan 02-21, line 27, says that a failure to persist keeps the
previous logo. `create` and `updateLogo` take every rejection of the transaction
for a rollback; when it committed and the reply was lost, they delete the object of
the logo that is active now (`organizations.service.ts:298`, `:350`).

Noted while reading, and the subject of no run:

- 02-09-SUMMARY.md:43 says that a transfer of ownership revokes the sessions of the new
  owner; `members.service.ts:187` revokes those of the old one.
- `confirm-sensitive-action-dialog.tsx:51`, `:77` and `identity-cards.tsx:261`, `:292` post
  to `/identity/email/otp/request` and `/verify`, which are not in the proxy's inventory
  (`route.spec.ts:397` asserts that it refuses them): stepping up by mail from there
  always ends in a 404.
- The callback of a link does not return the id of the proof, which confirming the link
  demands (`identity-cards.tsx:49`).
- Forms say that no change was sent ("Nenhuma alteração foi enviada") on any exception, a
  lost answer to a change that was made included.

## 5. Proofs

Each holds for every value of the constants that the module's assumption admits; a
theorem that needs more says so in its ASSUME. The first invariant of a module is proved
alone, and later theorems add a second one that is inductive relative to it.

`OutboxProofs`: any number of events, processes, tokens and attempts,
any durations and lag and every combination of faults.
The inductive invariant adds to the checked properties that two runs never share a
token (`RunsFenced`), that a run about to mark an event has queued it
(`MarkedIsQueued`) and that runs and queue hold committed events only
(`OnlyCommitted`). The heart is `RunStepPreserves`: a step of a run writes at
most one outcome and keeps or drops its own token. Fencing follows because only a
claim writes a token and only over an expired lease. `HistoryIsKept` reads the life of
a row off the same steps. `LeaseHasItsRun` assumes that redis is the only fault
(`Faults \subseteq {"redis"}`): then a lease that still runs is always in the hands of a
run. `outbox_stuck` shows an event stuck when the statement that records a failure fails, which
is what the assumption excludes.

`OrganizationProofs`: any number of users, addresses, duties,
invitations and requests, whichever operations are offered and whatever mishaps
occur. `SoleOwner` is not inductive by itself: the step that needs help is
acceptance, which must know that an organization with an invitation has been founded
(`InvitesAfterFoundation`), and `SingleUse` needs that whoever accepted is still
on record (`AcceptedAreMembers`), so that a new member cannot have accepted
before. `MemberSteps` and `InvitationSteps` reduce every step to one of five
changes of a membership and five of an invitation; the theorems are read off
those. That the last owner can be neither updated nor removed is `OwnerStays`
(a set equal to `{u}` does not have more than one element). A second invariant,
`HistoryInv`, says where things came from: an invitation names an address, the address of
a used token is its member's (`AddressesOfMembers`), and the actor of a guarded request is or was
a member (`ActorsBelonged`). From it follow `JoinedThroughOwnAddress`,
`InvitationsComeFromWithin`, which bounds what the unlocked check of `createInvitation`
(`organizations.ts:425`) can let in, `LeavingIsFinal` and `OwnershipComesFromTheOwner`.

`LogoCleanupProofs`: any number of objects, workers, attempts and stalls,
any delays, lease and lag and every combination of faults.
`CompletedIsDeleted` needs that a run about to record the
deletion has seen the object gone (`GoneBeforeRecord`), which stays true because
keys are never used again and nothing brings an object back; the types need that a
job that is not settled has an attempt left (`JobsHaveAttempts`). `InvariantKept`
reduces every step to what it does to rows, jobs and runs (`KeepsRows`,
`KeepsJobs`, `KeepsRuns`). No fencing token is needed for these results.
`SettledJobsLeaveNothing` assumes that only the storage fails, that clocks agree and that
`RowsComeDueFirst`: the back-off of a row is no longer than that of its job. The code has
it so, since both double from 1000 ms and the row's is capped (`logo-cleanup.processor.ts:31`
and `:79`, `packages/queue/src/index.ts:22`); for all n it is a fact about powers, which
needs induction, so it stays a hypothesis. `Orderly` then holds row and job together
through every state. Each part of the hypothesis is needed: with one unit of lag,
with a crash, or with a longer back-off of the rows TLC finds a completed job whose row is
still open, because a delivery that finds nothing due returns and counts as done.

`LogoProofs`: any number of uploads. `TypeCorrect`, with the exclusion by
the lock and the currency of what was read under it, holds whatever fails. The
invariant adds that an upload before its commit is on no record and its object is
stored (`Fresh`) and that one upload at most creates the organization
(`OneFounder`). `NoLeak` holds whatever fails as well: only a dead process, a store
that does not say what it did, or a deletion and a ledger insertion that both fail
leave an object that nobody knows of. (Plan 02-21, line 27, has the ledger row
persist whenever the deletion fails; the row is written only then, and that
statement may fail too.) `FailureHarmless` and `Refinement` assume that no reply of a
commit is lost; `logo_reply` shows that the assumption is needed. `Shown` is the second
invariant, about the logo itself whatever fails: one at most (`OneLogoShown`: the lock
of the organization does it alone, the unique index over active assets is only a
second guard), stored until its own upload
compensates a commit whose reply was lost (`StoredUntilCompensated`), and replaced
by a stored one only, with the old one condemned in the same step (`OnlyReplaced`).

`WorkerProofs`: any number of deliveries, processes, attempts and upsets. The
invariant says that an unsettled job has an attempt left, that only an active one is
locked and its holder works on it (`JobsInv`), that a run about to record a delivery has
seen the mail leave (`MailsInv`), and that a shutdown passes the consumers before the
pool and waits there (`ProcsInv`, `Orderly`). Every way a run can end (it returns,
throws, dies, exits with its process) is one form, `Leaves`. `Refinement` states
`Mailing` for the processes, `QueueRefinement` for the queue alone. `Mailed` and
`OutcomeIsFinal` hold whatever fails. `ResultsDecided` assumes `MaxLag = 0`: a clock that lags
lets a job find nothing to do and settle while its row is pending. `OneRunAtATime` and
`NoLateMail` assume that no process stalls past its lock (`"stall" \notin Faults`); with a
stall a second run starts beside the first, and what remains true of it is
`Reported` and `Mailed`.

`ChallengeProofs`: any number of codes, keys, requests and attempts. The bound on
guesses needs the account of them: while a code counts, its wrong comparisons are at
most the attempts spent, the requests about to record one and the recordings that
were lost (`Accounted`); the bound follows because whoever compares is one request
that is not recording. `OneCode` rests on the unique index alone. `OneUse` and
`CodesWearOff` follow the row of a code step by step. `EveryFailureCounts` is the bound
without the lost recordings, under the assumption that the API does not stop between a
comparison and its record (`"stop" \notin Faults`).

`GatewayProofs`: any number of pages, organizations, scopes, demands, grants, changes
and lost answers. For the guard: what it found in its first statement, with the
assignments of now, was earned (`Sound`), since a removal leaves the
assignments but the membership read before it counts only with what was assigned
while the request was there. For the tokens: a secret under way in an answer is in no
other page and not in the jar (`UnderWay`), and a stale token was made from a secret
that has been replaced or without a session. That a fresh nonce exists is counted
from `BrowserAssumption`. Five theorems are about the permission policy
(`packages/authorization/src/index.ts:119`) as a function, for every question and every
snapshot of rows: assignments that are revoked, of another organization or of
another scope change no answer (`OnlyRelevantDutiesCount`), a further assignment
(`DutiesOnlyAdd`) or a higher role (`PromotionOnlyAdds`) takes nothing away, the transfer of
ownership is an active owner's alone (`OnlyOwnersTransfer`), and a plain member without
assignments may at most see himself (`PlainMembersSeeThemselves`). They assume that the value
for "no role" is not a role.

`AccountProofs`: any number of users, identities, addresses, sessions, requests and
proofs, whichever operations are offered. The assumption is that `None` is no id and
that Discord accounts and addresses are told apart, as the provider column does. The
invariant adds what a request still needs from its slot (`CallsInv`), that an open
session has a user (`SessionsInv`), who holds which lock (`LocksInv`), that what a
removal counted under its locks is so until it ends (`CountsInv`), that a row
that exists has a subject and a user (`RowsInv`) and that an open proof is one of a
Discord account (`ProofsInv`). `MethodsConsistent` is restated for any pair of tables
(`Consistent`), and every change of the tables is one of three forms: a new method
(`NewMethodTaken`), an exchanged address (`MethodExchanged`), a removal
(`MethodRemoved`); `CommitStep` joins them to what every security change does to the
sessions. That a commit waits for the locks of the other requests is what keeps
`LocksInv`, since it closes no session that somebody else has locked, and `CountsInv`,
since it changes the methods of no user whose removal is under way (`CommitSlots`). The
refinement reads
the holder of a method off the row of its subject, of which there is only one.
`PastInv` is the second invariant: only an open session is reauthenticated
(`Awake`), whoever has a session or is about to be given one has a method (`WaysBackIn`), and
what a request links was proved by a proof that is open or used up (`LinksInv`).
`NobodyIsLockedOut` takes from the refinement that a user who has a method keeps one
(`MethodsLast`); it covers the session that a late sign-in opens after its method
was removed. `SessionsKeepTheirUser` and `LinksAreProved` are read off what each step does
to the sessions (`StepMovesSessions`), the requests (`StepMovesRequests`) and the proofs
(`StepMovesProofs`).

Proved but not repeated as properties of a run, some because the refinements imply them:
`PublishedWasEnqueued`, `CompletedIsDeleted`, `CompletedIsFinal`, `OneActive`. TLC checked the
others on the instances of the runs before they were proved:

| Component | Definitions |
| --- | --- |
| Outbox | `RunningLeaseIsHeld`, `RowHistory` |
| Organization | `AcceptedAddressIsTheirs`, `InvitedFromWithin`, `RevokedIsFinal`, `OwnershipIsHandedOver` |
| Logo clean-up | `SettledJobsAgree` |
| Logo | `OneLogo`, `ShownIsStored`, `GivesWayToAnother` |
| Notifications | `DeliveredIsMailed`, `DecidedIsFinal`, `ResultIsDecided`, `RunsAlone`, `MailsArePending` |
| Challenges | `AcceptedOnce`, `OnlyWearsOff`, `GuessesRecorded` |
| Account | `WaysBackIn`, `OneSessionOneUser` |

Only model-checked: liveness under fairness (`EventuallySettled`, `CleanedOrGivenUp`,
`EventuallyAnswered` of `Logo` and of `Worker`, `EventuallyLetIn`),
which the proof system cannot handle. No recursive operator is used.

## 6. What is not modelled

- Devices and alert contexts (`repositories/sessions.ts:64`): a death between the device
  and its announcement leaves a device that is never announced (a hazard listed without
  a property).
- Writing the audit trail: its rows are appended in the transactions of `Organization` and
  `Account` and are read by nothing there; filters, paging and the projection of a row.
- The exchange of the OAuth code with Discord: any account and any address may come back.
- Rendering, size limits, header filters and the cookie of the invitation context of
  the web application.
- Encryption of payloads, digests, HMACs and image inspection: pure functions without
  state.
- API bootstrap, health routes, the Discord bot (a login without handlers),
  configuration, logging, contracts and the scripts of the repository.
- Retention of settled jobs in BullMQ, and the refusal of malformed jobs, which nothing
  in the code makes.
