# Verification of the Masarifi backend

This directory holds TLA+ specifications of the parts of Masarifi whose
correctness depends on the order in which things happen: workers that lease rows
and lose their leases, requests that are repeated, transactions that overlap, one
command that has to follow another, a process that ends between two steps. TLC
checks every specification on small instances; TLAPS proves the safety properties
of most of them for all values of the constants.

- [The system](#the-system)
- [Modules](#modules)
- [Runs, bounds and fairness](#runs-bounds-and-fairness)
- [Proofs](#proofs)
- [What was found](#what-was-found)
- [Not modelled](#not-modelled)
- [Plan and how to run](#plan-and-how-to-run)

`PROJECT.json` has the details: for each definition the lines of code it models
("map"), for each property a fault of the code that breaks it ("mutants"), and for
each hazard its line in the source and the properties about it.

## The system

The repository holds one backend and its clients:

| Part | Where | State |
|---|---|---|
| API, workers (NestJS, one process or several) | `apps/api/src` | none of its own beyond a request or a batch |
| Database (PostgreSQL, most of the logic in SQL functions) | `supabase/migrations` | everything durable |
| Mobile application (Expo) | `apps/mobile` | SQLite copy of the user's data, sync cursors |
| Administration web application | `apps/admin-web` | screens, mostly over prepared data |

The API calls SQL functions; a function runs in one database transaction, under row
locks or advisory locks, so *one function call is one atomic step* in all
specifications here. What is not atomic is everything made of several calls: a
worker's claim, work and completion; a request that reads, checks and then writes;
two database transactions that overlap. Those are the interleavings that the models
explore.

The components, the state each keeps, its operations, and what makes it correct:

| Component | State | Operations | Correct when | Hard because of |
|---|---|---|---|---|
| Transactional outbox (`platform/outbox`) | `outbox_events`, the pgmq queue | enqueue, claim, publish, complete, fail | every committed event reaches the queue, none that was rolled back does | leases that run out, crashes of the worker and of the database (claims commit asynchronously) |
| Ledger (`ledger`, phase 05 SQL) | transactions, postings, balances | post, transfer, revise, refund, reverse, delete, restore | balances are sums of postings, postings are what the row says, dependents keep their originals | long sequences of legal commands; checks made from a row read earlier |
| Accounts (`reference`, partly) | status, opening balance | create, archive, restore, close | nothing is posted to a closed account | – |
| Planning (`planning`, phase 07 SQL) | obligations, items, payments, matches | pay, reverse, match, settle, overdue job, triggers on the ledger | items say what confirmed payments allocate, payments follow the ledger | caches written from five places; the ledger takes payments away and brings them back |
| Tracking (`tracking`, phase 08 SQL) | import sessions, items, reviews, candidates | claim, prepare, post, accept, defer, decide | one transaction for one message, and only the owner settles what the owner was asked | the ledger is called without a fence |
| Sync mutation queue (`sync/sync.worker.ts`) | `client_mutations`, idempotency keys | receive, claim, dispatch, finish, retry | each mutation takes effect once, in the order of its dependencies, and settles | replays after lost answers; leases that run out in a batch |
| Sync change feed (`sync/sync.service.ts`) | cursors, outbox events, checkpoints | number, bootstrap, delta, acknowledge, clean up | a device that has a cursor has everything up to it | writers that commit out of order; pages read at different times; retention |
| Mobile download (`mobile/src/services/live`) | cursor and snapshots in SQLite | synchronize | as above, and it catches up | the application ends between any two requests |
| Voice and assistant (`ai`, phase 09 SQL) | sessions, messages, proposals | record, process, purge, confirm, reject, expire | a proposal is executed at most once and only if confirmed | confirmation is three transactions; two jobs share the claim columns |
| Reports, notifications, operations, security, privacy, identity, reference data | their tables | see [Not modelled](#not-modelled) | | |

How they interact. A command of the ledger writes an outbox row in its own
transaction; the trigger that numbers the change for the sync feed runs in the same
transaction. The mutation queue, tracking and the assistant all call the ledger (and
planning) as any request does: through an idempotency key, without holding their
own claim while they do. The ledger never calls planning; planning follows the
ledger through triggers on the status of linked transactions, in the transaction of
the ledger's command. Devices read the feed and acknowledge; retention of the outbox
table waits for their checkpoints.

## Modules

| Module | What it specifies |
|---|---|
| `EventDelivery` | Abstract: an event is stored, delivered at least once, and retired only after delivery. |
| `Outbox` | Producers, workers, database; implements `EventDelivery` (`KeepsPromise`). |
| `TransactionStatus` | Abstract: how the status of a transaction may change. |
| `Ledger` | All commands of the ledger and of accounts, with the API's check of recent authentication; implements `TransactionStatus` (`KeepsLifecycle`). |
| `Planning` | Obligations, items, payments and matches on top of `TransactionStatus`: its transactions are proved to move only as the ledger's do (`LifecycleFollowed`). |
| `Tracking` | Import sessions, their worker's attempts, the owner's decisions, and the calls of the ledger by idempotency key; its transactions too follow `TransactionStatus`. |
| `SyncQueue` | The mutation queue and what commands do with the operation id they are given. |
| `SyncFeed` | Writers, feed, bootstrap and delta, checkpoints, retention, devices. |
| `AiActions` | Voice sessions and assistant messages, the workers, the purge, proposals and their confirmation. |
| `Totals` | The sum over a finite set of rows, used by `Ledger` and `Planning`. |
| `*MC` | Small instances for TLC. |
| `*Proofs` | Theorems about the module of that name. |

Conventions. Time is never counted: a lease may run out, a backoff may end and an
expiry may pass at any moment, which covers every setting of the durations. A claim
token is represented by the worker that drew it where a worker holds one claim of a
row at a time. A crash forgets what a process was doing and leaves the database as
it is (`DatabaseCrash` of `Outbox` also takes back what was not yet flushed, because
`claim_outbox_batch` runs with `synchronous_commit` off). A lost answer is an action
of its own, or a choice inside one, with the effect in place. Optimistic versions are kept where
a property depends on them (`Ledger`, `SyncQueue`, `AiActions`).

### Outbox

A row is committed by its producer (`tx`), leased (`holder`, `expired`, `waiting`,
`attempts`), sent (`queue`) and marked (`published`). `ClaimBatch` is
`claim_outbox_batch`; a dispatch `<<w, e, c>>` is one promise of
`OutboxWorkerService.runOnce`'s `Promise.all`, which goes on running when a sibling
has thrown; its `pc` says where in `OutboxDispatcher.dispatch` it is. `undo` is what the
claim was before it was flushed. A send that timed out is not cancelled: it stays in `late`,
and the queue may take the message at any later time (`Arrive`), even after the failure
was recorded. `Fail` may commit and lose its answer, which rejects the batch. The code
counts attempts without a limit; `AttemptCap` is only how far the model follows them, no
property is about it, and the theorems hold for every value of it.

### Ledger

Each SQL command is one action because `ledger_begin` takes the user's advisory lock
for the whole transaction. A request on an existing transaction takes two steps:
`Prepare` reads version and amount and decides on recent authentication, as
`LedgerService.compensate` does, and the command runs later against whatever the row
is by then. `posted[id]` is the sum of the (immutable) postings of a transaction for
each account; `saved[id]` the effect in the audit snapshot of the latest deletion,
which `Restore` reposts. Amounts, balances and their sums are kept within `Limit`,
as the code keeps them within the safe integers.

### Planning

`RecordPayment` and `ReversePayment` are `allocate_obligation_payment` as replaced by
`20260901170100`; `ProposeMatches`, `AcceptMatch` and `RejectMatch`, `SaveObligation` and
`GenerateSchedule` are the functions of `20260831120100`. `MarkOverdue` is the overdue
job, which looks at the item again when it runs. The triggers of `20260901170000` are part
of the actions that change a transaction: `InvalidateTransaction` takes its payments out,
`RestoreTransaction` brings back those that the deletion took, or is refused. An item's
`paid` and `status` are the columns the code caches; `Derived` is what they should be.

### Tracking

`run` holds one worker's attempt at a session, at whatever line of
`TrackingWorkerService.process` it has reached; a newer attempt may be under way at
the same time, since a lost lease does not stop the older one. `tx` is the ledger,
keyed as the ledger knows commands: by source identity, so that the same message in
two imports answers with the same transaction. `client` holds the owner's requests,
which claim a decision, call the ledger and then record the decision. The messages are
those of income and expenses: one that announces a transfer never gets as far as a
recorded decision, see below.

### SyncQueue

`Lookup`, `Check` and `Mutate*` are the three transactions in which a command
looks up its idempotency key, reads the version, and runs. Which of them it goes through
depends on its `Kind`: one that creates a transaction or an account looks up its key
first, a revision reads the version too, planning goes straight to the transaction that
claims the key. Updates of accounts and categories (`reference`) and their archiving or
restoration (`switch`) have no key: an update recognises its replay by the version, and a
switch that finds nothing left to switch succeeds without an effect. `moved` says that the
target is no longer at `base_version`, which the operation itself brings about too. A
payload its normalizer rejects (`Invalid`) is refused first, and between its steps a
command may be refused by rate limit or recent authentication (`Admitted`) or by another
domain error (`MutateWithoutEffect`). A conflict is recorded in two transactions,
`FindTarget` and `RecordConflict`. The code goes on counting attempts when a lease runs out
in the last one; the model stops at `MaxAttempts`, beyond which `IsLast` sees no difference.

### SyncFeed

`Write`, `Attach` and `Commit` are the steps of a writer's transaction that others
may overlap; `Attach` is the trigger that takes the feed's advisory lock and draws
the cursor. A read is one step on the committed state (repeatable read). `call[d]`
is the request a device has under way with the page it received; `saved` and `known`
are what is on the device. `feed` is every change ever committed, of which `retained`
is still in the table. The devices are those without local edits (nothing in the
application records any) and without open conflicts. When the server lists a conflict,
which only another client of the API can have caused, the application stores it and from
then on keeps changes of that transaction back while it saves the cursor: for such a
transaction a cursor does not promise what it promises here.

### AiActions

A row of `voice_sessions` or `assistant_messages` goes from `created` or `queued`
through `processing` to `done` (proposed, completed), `failed` or `cancelled`.
`created` and `queued` of a voice session are `uploaded` without and with
`finalized_at`. `run[p]` is the worker's line in `ai.worker.ts`, for both jobs that
use the claim columns, processing and purge. A confirmation is `Confirm` (or
`Resume` by the key that confirmed), `Execute`, `Complete`; `EndCall` may come
between any two. A repetition may name any version (`Resume`). A message the API can answer
without a provider is done at once (`SaveDeterministicMessage`). `effects[w]` are the commands that took effect for a proposal, each
named by its operation and by the expected version in its domain key, because these
are the two handles by which the domains recognise a repetition: `transaction.create`
by both, a command on an existing resource by its version, a savings goal by the
domain key alone.

## Runs, bounds and fairness

| Run | Instance | What it shows |
|---|---|---|
| `outbox_safety` | 2 events, one of them malformed; 2 workers; batches of 2; attempts to 2 | exclusive leases, none on a published row nor before a backoff ends, refinement of `EventDelivery` |
| `outbox_liveness` | the same with 1 worker, fair | every committed event is published although its neighbour rejects the batch |
| `ledger_safety` | 2 accounts, 3 transactions, amounts 1 and 2, fees 0 and 1, range ±2, 2 requests | balances, conservation of money, postings, dependents, recent authentication, refinement of `TransactionStatus` |
| `ledger_refunds` | 2 transactions, 1 request | a violation, see below |
| `planning_safety` | 2 transactions, 1 obligation with items of 2 and 1, 3 payments | caches, payments that follow the ledger, no undeclared excess |
| `sync_safety` | 3 operations (a revision, a creation that depends on it, the archiving of an account), 2 workers, 2 attempts | one effect, dependencies, terminal rows stay |
| `sync_single` | 3 operations (a revision, a planning command that depends on it, an invalid one), 1 worker, 3 attempts, fair | replays are recognised, what is rejected had no effect, every mutation settles |
| `sync_race` | 1 operation, 2 workers | a violation, see below |
| `feed_safety` | 2 rows, 2 writers, 1 device, 4 changes | no change is missed, acknowledgements are accepted |
| `feed_devices` | 2 rows, 1 writer, 2 devices of which one is revoked and returns, 2 changes, fair | retention keeps what a steady device needs, which catches up |
| `tracking_safety` | 2 sessions, 2 items, 2 sources, 1 transaction entered by hand, 2 requests, 2 attempts | one transaction for a message, open reviews, settled sessions, right links, the owner decides |
| `ai_safety` | 1 recording and 3 kinds of messages, 2 workers, 2 calls, 2 keys | results, effects and decisions agree; recordings outlive their work |

**Why the bounds are enough for the cases that matter.** Two workers are what it
takes for one to lose its lease to another, and a worker that crashes and returns
under its own name stands for a third. Two attempts reach the last attempt and the
one before. The ledger needs a third transaction only as the reversal of a refund,
and a second request only to change the transaction the first has read. Two sources
and two items give both a session with two messages and one message in two sessions.
Four changes of two rows let a row change between two pages of a bootstrap and again
after them. In planning, three payments let a transaction come back after another
has filled its item.

**Constraints on the explored part.** Four instances are cut down by a constraint
`Focus`, written out and explained in the MC module: in the ledger, a third
transaction is explored only as a dependent of a single original, and racing
requests only on a single transaction; in planning, the clock, the status of the
obligation and matches vary less the more payments there are; in tracking the number
of attempts, requests and disturbances together is at most four; in `AiActions` one
row is taken up in a behaviour, at most one worker is busy once a proposal has
been decided, and repetitions name three versions. (The others: `SYMMETRY` only where names are interchangeable, and never
in a run with liveness.) A constraint may hide a violation beyond it: the theorems
below have no such limits, and hold the same properties of the ledger, tracking,
`AiActions`, and of planning.

**Deadlock.** `CHECK_DEADLOCK FALSE` is set where the bounds let the system stop:
versions, cursors, payments, attempts and identities are finite, and when all are
used up and all rows are terminal nothing remains to be done. The two runs of the
outbox check deadlock, since workers there poll for ever.

**Fairness**, in the three runs with liveness, and why the code justifies it:

- Workers poll in a loop and carry on with a batch they hold: weak fairness of a
  worker's steps, of a restart after `stop()`, and of the clock.
- Claims order rows by age (`available_at`, `next_attempt_at`), so a row that is
  claimable again and again is claimed: strong fairness of the claim of each row.
- In the outbox, publication and completion succeed if tried again and again
  (strong fairness): outages end. In the sync queue no such assumption is made of
  commands, which may fail for ever; exhaustion settles them.
- Devices synchronize on each start, and a writer's transaction ends.
- Disruptions (crashes, leases that run out *under* a worker, abandoned requests)
  may happen any number of times but eventually cease, `<>[][~Disruption]_vars`. A
  lease is thirty times a publication's timeout; without this assumption the system
  may be disturbed for ever and nothing follows.

No liveness is claimed for tracking and the assistant: sessions and proposals can be
stuck there, see below.

## Proofs

Eight modules hold theorems. Those about a specification are of the specification itself, so for every number of
workers, rows, devices, amounts and every bound, and without `Focus`. They assume only the named
assumptions of the module (disjointness of name spaces, positive bounds, finite sets of accounts, rows, payments and items).

| Module | Proved | Inductive invariant |
|---|---|---|
| `OutboxProofs` | `TypeOK`, `PublishedIsUnlocked`, `BackoffIsKept`, `LeaseIsExclusive`, `KeepsPromise`; `OneDispatch` and `AttemptsGrow` as long as `LeasesLast` | a dispatch in flight is of a committed row, one that completes is of a queued row, what is still to arrive is of a committed row, published ⊆ queued ⊆ committed, a waiting row is unpublished and held by nobody, nor would it be after a database crash; with `LeasesLast`, a dispatch holds a live lease and has seen the row's attempts (`Current`) |
| `LedgerProofs` | all seven properties of `ledger_safety`; `RefundsWithinOriginal` as long as `RevisionsCoverRefunds` | see below |
| `SyncQueueProofs` | `TypeOK`, `AppliedExactlyOnce`, `DependenciesFirst`, `TerminalIsFinal`; `ReplayIsRecognised`, `RejectedHasNoEffect` and `ConflictHasNoEffect` with one worker, or with any number whose leases last (`LeasesSuffice`) | `EffectInv`: an operation with an effect is recognisable (its key is stored, or its target has moved), and what has succeeded has its effect; `DepsInv`: what is under way has its dependencies applied; `Fresh`: past its lookup, a command has no effect yet unless its worker has just made it, which holds because no two workers have one operation in hand (`Holding`, `HeldInTime`) |
| `SyncFeedProofs` | all the safety properties of `feed_safety` and `feed_devices`; `Genuine`, `UpToDate` | cursors of open writers lie above the feed's and are held by one of them; a page a device holds brings every change up to its boundary, each at its version or later; checkpoints never pass the device |
| `PlanningProofs` | all five properties of `planning_safety`; `ExcessStaysWithItem`; `PaysItsAmount` as long as `RevisesUnpaid`; refinement of `TransactionStatus` | below |
| `TotalsProofs` | facts about `Total` (below) | – |
| `TrackingProofs` | all six properties of `tracking_safety`; `OwnersOnly`, `ClosedForGood`; refinement of `TransactionStatus` | transactions are keyed by what posted them; an attempt's remaining items were fresh or are under review; links |
| `AiActionsProofs` | all six properties of `ai_safety`; savings goals once too (`GoalsOnceToo`) and no execution refused (`NeverRefused`), as long as `RepeatsUnchanged` | below |

**Ledger.** No single invariant: `Links` (refunds and reversals with their originals, one reversal, kinds that stay) carries `DependentsKeepOriginal`; `RequestAllowed` says what a request under way still knows of the row it
has read - either the version has moved on, and the command will refuse it, or amount
and status are as they were read - and carries `LargeChangesAreRecent`; `Follows`
carries `PostingsFollowHeader`, for which the snapshot of a deletion has to be kept
in it, although no balance depends on it meanwhile.

**AiActions.** `DoneHasResult` is inductive only with `Working`: a worker that has
asked or failed and *still holds the claim* works on a row without a result, so a late
save or failure finds its token gone. `Calling` says that a call past its claim is of a
proposal that is confirmed, or already executed, for that call's own key; with
`Executing` - all effects of a proposal carry the one operation that confirmed it - it
gives at most one effect, since a domain refuses a second command with the same
`external_ref` or the same expected version. `DecisionIsFinal` needs the same
facts: after the completion by one call, another may still execute, and is answered or
refused. `FirstVersion` says that version 1 is the only one that calls and effects are
named by; it holds as long as a repeated confirmation names the version that was confirmed
(`RepeatsUnchanged`), and then the domain key recognises repetitions of goals as well.

**SyncFeed.** The heart is `DeltaInv`/`BootstrapInv`: what a device would have after
applying the page it holds covers the feed up to the page's cursor. It rests on the
feed lock (`FeedIsFree`): a cursor is drawn only when no earlier one is uncommitted,
so the committed cursors have no gap a later commit could fill. The invariant speaks of the
devices that stay registered (`Steady`), whatever the others do. In the other direction
`Genuine` says that no device ever has a version that was not committed; together they give
`CaughtUp`: a device whose cursor is the newest has exactly the rows of the database, so
an answer without `hasMore` really means that nothing is left.

**Composition.** `Planning` and `Tracking` each keep the part of the ledger they need. As
far as the status of transactions goes, this part is proved to be no freer than what every
module may rely on: under all actions of either module it is a behaviour of
`TransactionStatus` (`LifecycleFollowed`), which `Ledger` implements as well.

**Tracking.** The attempts of several workers and the owner's requests meet on the items.
An attempt changes an item only while it is still parsed, and asks about it only then
(`OwnersOnly`, `WorkerAsksParsed`); after that only a decision changes it and no new
question is opened, so that it stays as it is once the last has been answered (`ClosedForGood`).

**Sums.** `BalancesAddUp` and the properties of planning are about sums over sets of any
finite size, which the community modules define by recursion over the set. `TotalsProofs`
derives what is needed of them - a sum is an integer, it is monotone and additive, it
changes by what one row changes, rows and columns may be summed in either order - each
from the equation that takes one row out, by a smallest set for which it would fail
(`WFMin` of the library), since the induction theorems themselves have an operator as a
parameter and are out of the provers' reach. The balance then follows command by command:
`Post` adds the same effect to the balances and to the postings of one transaction.
`MoneyIsConserved` follows in the same way from `Net`, what a row does to all accounts
together: by `PostingsFollowHeader` a command changes the sum of the balances by exactly
what it changes the `Net` of the one or two rows it writes (a reversal has none of its own
and takes away that of its original).

**Planning.** The invariant of the first four properties has, besides them, what a
transaction may still bring back: of its payments at most one is marked as taken out by
its deletion (`OneComesBack`), so that an undo cannot make a transaction pay twice. For `NoImplicitExcess` a sum over items has to be bounded by
a sum over payments. The invariant `Covered` splits what each payment declared
over the items, so that on each item what is allocated beyond its amount is covered by
what the payments of that item set aside; the two sums are then the columns and the
rows of one table. A payment that is taken out takes its own share of the cover
along, and one that is recorded or comes back declares at least what it now exceeds. The
same cover gives `ExcessStaysWithItem`: what an item has received beyond its amount was
declared by payments of that very item.

**Diagnoses.** Where a property fails or had to leave something out, a theorem of the form
`Spec /\ Condition => []Property` says what it takes: the condition restricts single steps,
names the check that the code lacks or the timing it relies on, and leaves everything else
free. (Its inductive step assumes the condition of that step only.)

| Theorem | Condition on the steps | Property | Without the condition |
|---|---|---|---|
| `OnlyRevisionsExceed` (Ledger) | `RevisionsCoverRefunds`: no expense is revised below its refunds | `RefundsWithinOriginal` | violated by `ledger_refunds` |
| `ConflictsInTime`, `ReplayedInTime`, `RejectedInTime` (SyncQueue) | `LeasesSuffice`: no lease runs out under a worker at work on the row | `ConflictHasNoEffect`, `ReplayIsRecognised`, `RejectedHasNoEffect` | violated by `sync_race` (the first) |
| `UnchangedExecutesOnce`, `UnchangedIsAnswered` (AiActions) | `RepeatsUnchanged`: a resumed confirmation names version 1 | one effect for goals too; no repetition is refused | TLC finds a second goal, and a refusal |
| `OnlyRevisionsDiverge` (Planning) | `RevisesUnpaid`: no transaction is revised while it pays | `PaysItsAmount`: a payment allocates its transaction's amount | TLC finds a payment that no longer does |
| `DispatchedAlone`, `LateFailuresOnly` (Outbox) | `LeasesLast`: no lease runs out under a dispatch, and no database crash takes back an unflushed claim of a row in dispatch | `OneDispatch`: a row is in one dispatch at a time; `AttemptsGrow` | TLC finds two dispatches of a row, and a falling `attempt_count` |

Every safety property of the passing runs is proved, without further conditions except for
`ReplayIsRecognised` and `RejectedHasNoEffect`, whose run has one worker as their theorems
have. `TypeOK` of `Outbox` and `SyncQueue` is proved and not checked by a run: apart from
bounds of the model it says nothing that could fail. Only model-checked: all liveness (`EventuallyPublished`, `EverySettles`,
`EveryDeviceCatchesUp`), since the provers do not handle `ENABLED`, hence no fairness. No module that has theorems declares a recursive operator.

## What was found

Checked as runs that are expected to fail:

- **A refunded expense can be revised below its refunds** (`ledger_refunds`).
  `revise_transaction` checks kind, status, version and accounts, not the refunds;
  `specs/005-transactions-ledger-integrity/spec.md:194-195` says cumulative refunds
  never exceed the original. It is the only check missing (`OnlyRevisionsExceed`).
- **A mutation is reported as a conflict although it took effect** (`sync_race`). The
  key is looked up in one transaction and the version read in the next; if another
  worker runs the same operation in between, the version it produced itself is taken
  for someone else's change. It takes a lease that runs out under a worker (`ConflictsInTime`).

Behaviour the models have (no property that excludes it holds) or that was met while
reading; each is a hazard in `PROJECT.json` unless marked *:

- **Change feed.** A device that saved cursor 0, was revoked past the retention
  period and is registered again misses changes without an error: the expiry check
  exempts 0 (`sync.service.ts:113`). With `Revocable = {d1}` TLC violates
  the formula of `NothingMissed`, stated for all devices instead of the steady ones, by: bootstrap of the empty domain, revocation, two changes, of which
  retention deletes the first (no checkpoint is below), registration, delta. A device that
  *is* answered `SYNC_CURSOR_EXPIRED` never bootstraps again (`core-finance-service.ts:929`).
  *Events become deletable in an order other than that of their cursors, and the gap makes
  `check_sync_reconciliation` refuse every later cleanup.
- **Sync queue.** *A mutation whose last attempt commits and loses its answer is rejected
  as `SYNC_RETRY_EXHAUSTED`; by `RejectedHasNoEffect` and its theorems this and a deactivated
  profile are the only ways in which something rejected took effect, as long as leases last.
  *Archiving a category through the queue is always rejected: `sync.handlers.ts:173` passes the
  expected version only, and `reference.service.ts:283-286` demands the expected number of
  linked transactions as well. *The cleanup of keys and mutations is refused by
  their own guard triggers (`20260830080000:58-81`, `20260831061405:219-252`).
- **Outbox.** A row whose envelope cannot be built is leased for ever and never counted
  as failed. *The fence of a failure is the worker's id, not the lease: a late failure can lower
  `attempt_count`. It takes a lease that does not last (`LateFailuresOnly`).
- **Planning.** The undo of a deletion can be refused although nothing but a deletion
  happened, when a prepayment has filled the room in between. *A transaction that pays can
  be revised; its payment keeps the old allocation, which `reconcile_planning` does not
  compare with the transaction either (`20260831120100:1506-1538`).
- **Tracking.** A worker that dies between the ledger and its own record leaves a
  transaction that the next attempt takes for a duplicate; a review and a duplicate
  question of one item are decided independently, so an item can be settled twice, but
  only while both are open: a settled item without an open question stays as it is
  (`ClosedStays`); sessions get stuck at the tenth attempt
  and in review. *A message that announces a transfer can never be accepted: it always goes to
  review (`20260905081000:185`); `normalizeTransfer` (`ledger.dto.ts:137`) demands a destination
  account, which imports do not have; and although `decideReview` lets the owner name one
  (`tracking.service.ts:445`), `decide_review_item` does not (`20260902120100:297`). It refuses
  only after the ledger was called, so such an edit leaves a confirmed transaction without a
  record. (Of income and expenses the model has this: `PostDecision`, and the request gets no
  further.)
- **Assistant.** The domain key of a confirmation contains the version of the request,
  which a resumed confirmation does not compare: `Confirm` at version 1, `Execute`,
  the answer is lost, `Resume` by the same key with the version now read, 2, `Execute`
  creates a second savings goal (`ExecutesOnce` therefore excludes `Goals`); a
  transaction is refused instead, and its proposal stays confirmed though it took
  effect. *Only the key that confirmed can resume, so a confirmation whose client has
  gone stays confirmed for ever. *`complete_ai_work` compares the token and not the lease,
  against `contracts/events-jobs.md:37-38` (the claim of a superseded worker is gone, so
  `DoneHasResult` holds all the same). Twenty claims that end in a crash
  make the claim statement itself fail (`attempt_count` is checked to be at most 20).
- **Notifications.*** Deliveries left in `sending` by a worker that died are never claimed
  again (`20260905070618:262` takes `queued` and `failed` only; `specs/011`
  `contracts/events-jobs.md:58` says expired claims are reclaimable); a campaign skips
  users who become eligible after their id has been passed.
- **Ledger.*** A transfer whose amount and fee together exceed the largest safe integer can
  be posted but neither reversed nor deleted, since those post the sum.
  `LargeChangesAreRecent` is about the requests of the ledger's own API: a revision made by
  the resolution of a sync conflict (below) runs without that check.

## Not modelled

- **Reports, exports, schedules**: read-only views, and the leased queue once more around
  rendering and mail.
- **Notifications, campaigns, support, content**: the outbox's queue again, and single records.
- **Budgets, salary cycles, savings goals**: single-row commands under their own row lock
  that no other component invalidates.
- **Operations, security, identity, reference data**: single-row commands with
  permissions; row level security belongs to PostgreSQL.
- **Privacy**: one bulk statement per domain over all of its tables; what could go wrong
  is a table that is forgotten, which a review of the schema shows and a model does not.
- **Resolution of sync conflicts**: one transaction under the lock of the conflict's row. It
  closes the conflict and, when the client's side or a merge is chosen, calls `private.revise_transaction`
  directly with the conflict's server version (`20260831061405:811-816`): `Revise` of `Ledger`
  without the request before it.
- **Changes kept back on a device** by an open conflict, see [SyncFeed](#syncfeed).
- **Mobile storage, capture and screens**: the queue for uploads has no producer
  (`SyncRepository.enqueue` is called by tests only).
- **Administration and marketing web, deployment files**: no protocol.
- Within the modelled components: texts, formats, quotas, rate limits, audit records,
  metrics; several users (every lock is per user, so users do not meet except in the
  workers' batches); several currencies; versions where a refused request has no effect.
  `PROJECT.json` says for each component what is left out.

The specifications cover the transactional core, a small part of the repository by lines:
most of the rest is validation, mapping, views, screens and tests, which have no
interleavings to explore.

## Plan and how to run

The order in which the modules were written, most important behaviour first: outbox
(every other component publishes through it); sync queue and ledger (money moves once,
and as recorded); change feed (devices see it); planning and tracking (what follows the
ledger and what feeds it, both on `TransactionStatus` and on the ledger's keys); the
assistant. Abstract specifications are stated where another module relies on them:
`EventDelivery` for consumers of events, `TransactionStatus` for planning. Next would be
a composition of `SyncFeed` with uploads once the application has them, and notifications, whose stuck deliveries are described above.

    tlc -workers 2 -config LedgerSafety.cfg LedgerMC.tla
    tlapm LedgerProofs.tla

Each run ends within three minutes on two cores; the largest, `outbox_safety`, has 2.3 million distinct states.
