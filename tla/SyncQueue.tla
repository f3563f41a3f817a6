----------------------------- MODULE SyncQueue -----------------------------
(***************************************************************************)
(* The queue of client mutations: rows of public.client_mutations written  *)
(* by POST /sync/mutations and applied by the sync workers                 *)
(* (apps/api/src/sync/sync.worker.ts), with what the ledger, reference and *)
(* planning commands do with the operation id they get as idempotency key. *)
(*                                                                         *)
(* A claim draws a fresh lease_token.  A worker claims only when it has    *)
(* let go of its previous batch, so at any time it holds one token of a    *)
(* row: the token is represented by the worker that drew it.               *)
(* Time is abstract: a lease may run out, and a backoff may end, at any    *)
(* moment.                                                                 *)
(***************************************************************************)
EXTENDS Naturals, FiniteSets

CONSTANTS
  Ops,          \* operation ids one user's devices may ever submit
  Deps,         \* depends_on of each operation
  Kind,         \* which command handles the operation (see Keyed)
  Invalid,      \* operations whose payload the command's normalizer rejects
  Workers,      \* workerId of each SyncWorker process
  BatchLimit,   \* MASARIFI_SYNC_BATCH_SIZE
  MaxAttempts,  \* MASARIFI_SYNC_MAX_ATTEMPTS
  NoWorker      \* lease_token is null

ASSUME OpsAssumption == Invalid \subseteq Ops /\ Deps \in [Ops -> SUBSET Ops]
ASSUME KindAssumption ==
  Kind \in [Ops -> {"create", "revision", "planning", "reference", "switch"}]
ASSUME NoWorkerAssumption == NoWorker \notin Workers
ASSUME LimitsAssumption == BatchLimit \in Nat \ {0} /\ MaxAttempts \in Nat \ {0}

VARIABLES
  active,       \* the user's profile is active
  moved,        \* operations whose target is no longer at their base_version
  keys,         \* completed idempotency keys
  effects,      \* how often the operation's command has committed
  status,       \* client_mutations.status, "none" before the row exists
  lease,        \* holder of the row's lease_token
  expired,      \* rows whose locked_until has passed
  waiting,      \* rows whose next_attempt_at is still to come
  attempts,     \* attempt_count
  pc            \* what each worker is doing with each row of its batch

domain == <<active, moved, keys, effects>>
rows == <<status, lease, expired, waiting, attempts>>
vars == <<active, moved, keys, effects, status, lease, expired, waiting, attempts, pc>>

Terminal == {"applied", "conflict", "rejected"}
Statuses == {"none", "received", "processing"} \union Terminal
Dispatching == {"lookup", "check", "mutate"}
Caught == {"refused", "outdated", "targeted", "unlisted", "failed"}  \* in the catch block
Steps == {"none", "queued", "succeeded"} \union Dispatching \union Caught

\* "create" is a transaction or an account, "revision" a change of a
\* transaction, "planning" a command of planning (or a new category, which
\* nobody moves); "reference" updates an account or a category, "switch"
\* archives or restores one.
Switches == {o \in Ops : Kind[o] = "switch"}
Keyed == {o \in Ops : Kind[o] \in {"create", "revision", "planning"}}
Versioned == {o \in Ops : Kind[o] # "create"}

TypeOK ==
  /\ active \in BOOLEAN
  /\ moved \in SUBSET Versioned
  /\ keys \in SUBSET Keyed
  /\ effects \in [Ops -> 0..2]
  /\ status \in [Ops -> Statuses]
  /\ lease \in [Ops -> Workers \union {NoWorker}]
  /\ expired \in SUBSET Ops
  /\ waiting \in SUBSET Ops
  /\ attempts \in [Ops -> 0..MaxAttempts]
  /\ pc \in [Workers \X Ops -> Steps]

Init ==
  /\ active = TRUE
  /\ moved = {} /\ keys = {}
  /\ effects = [o \in Ops |-> 0]
  /\ status = [o \in Ops |-> "none"]
  /\ lease = [o \in Ops |-> NoWorker]
  /\ expired = {} /\ waiting = {}
  /\ attempts = [o \in Ops |-> 0]
  /\ pc = [d \in Workers \X Ops |-> "none"]

(***************************************************************************)
(* The devices, the account administration and the clock.                  *)
(***************************************************************************)

\* Each mutation of a batch is received in a transaction of its own, after
\* the mutations it depends on; a replayed operation id changes nothing.
Receive(o) ==
  /\ active
  /\ status[o] = "none"
  /\ \A d \in Deps[o] : status[d] # "none"
  /\ status' = [status EXCEPT ![o] = "received"]
  /\ UNCHANGED <<domain, lease, expired, waiting, attempts, pc>>

\* Another device, or another operation, changes the target first.
TargetMoves(o) ==
  /\ o \in Versioned \ moved
  /\ moved' = moved \union {o}
  /\ UNCHANGED <<active, keys, effects, rows, pc>>

Deactivate ==
  /\ active
  /\ active' = FALSE
  /\ UNCHANGED <<moved, keys, effects, rows, pc>>

LeaseRunsOut(o) ==
  /\ status[o] = "processing"
  /\ o \notin expired
  /\ expired' = expired \union {o}
  /\ UNCHANGED <<domain, status, lease, waiting, attempts, pc>>

BackoffEnds(o) ==
  /\ o \in waiting
  /\ waiting' = waiting \ {o}
  /\ UNCHANGED <<domain, status, lease, expired, attempts, pc>>

(***************************************************************************)
(* Claiming.                                                               *)
(***************************************************************************)

\* Fault: dependencies that failed do not block.
BlockedNever(o) == FALSE

Blocked(o) ==
  status[o] = "received" /\ \E d \in Deps[o] : status[d] \in {"conflict", "rejected"}

\* Fault: a claimed dependency is as good as an applied one.
EligibleEarly(o) ==
  \/ /\ status[o] = "received" /\ o \notin waiting
     /\ \A d \in Deps[o] : status[d] \in {"processing", "applied"}
  \/ status[o] = "processing" /\ o \in expired

Eligible(o) ==
  \/ /\ status[o] = "received" /\ o \notin waiting
     /\ \A d \in Deps[o] : status[d] = "applied"
  \/ status[o] = "processing" /\ o \in expired

\* Bound: the code counts on when a lease runs out in the last attempt, but
\* only looks at whether the maximum is reached (IsLast).
NextAttempt(n) == IF n < MaxAttempts THEN n + 1 ELSE MaxAttempts

\* One call of claim_client_mutations: it rejects the rows R and leases the
\* rows S.  SKIP LOCKED may pass over any row.
Claim(w, R, S) ==
  /\ \A o \in Ops : pc[<<w, o>>] = "none"
  /\ \A o \in R : Blocked(o)
  /\ \A o \in S : Eligible(o)
  /\ status' = [o \in Ops |-> IF o \in R THEN "rejected" ELSE
                              IF o \in S THEN "processing" ELSE status[o]]
  /\ lease' = [o \in Ops |-> IF o \in S THEN w ELSE lease[o]]
  /\ expired' = expired \ S
  /\ attempts' = [o \in Ops |-> IF o \in S THEN NextAttempt(attempts[o]) ELSE attempts[o]]
  /\ pc' = [d \in Workers \X Ops |-> IF d[1] = w /\ d[2] \in S THEN "queued" ELSE pc[d]]
  /\ UNCHANGED <<domain, waiting>>

Batches == {S \in SUBSET Ops : Cardinality(S) <= BatchLimit}
ClaimBatch(w) == \E R, S \in Batches : R \union S # {} /\ Claim(w, R, S)

(***************************************************************************)
(* Dispatch: process() runs the command, one row of the batch at a time.   *)
(***************************************************************************)
At(w, o, p) == pc[<<w, o>>] = p
Go(w, o, p) == pc' = [pc EXCEPT ![<<w, o>>] = p]

\* The normalizers run first.  The commands of the ledger then look at their
\* key in a transaction of their own before mutate().
LookedUp == {o \in Ops : Kind[o] \in {"create", "revision"}}

\* Fault: a revision compares versions before it looks for a replay.
FirstStepUnchecked(o) ==
  IF o \in Invalid THEN "refused" ELSE IF Kind[o] = "revision" THEN "check" ELSE "mutate"

FirstStep(o) ==
  IF o \in Invalid THEN "refused" ELSE IF o \in LookedUp THEN "lookup" ELSE "mutate"

Start(w, o) ==
  /\ At(w, o, "queued")
  /\ \A p \in Ops : pc[<<w, p>>] \in {"none", "queued"}
  /\ Go(w, o, FirstStep(o))
  /\ UNCHANGED <<domain, rows>>

\* assertWriteRate and assertRecentAuth pass, or refuse with a code that is
\* not in permanent().
Admitted(w, o) == Go(w, o, "mutate") \/ Go(w, o, "unlisted")

\* replayCompleted.
Lookup(w, o) ==
  /\ At(w, o, "lookup")
  /\ \/ ~active /\ Go(w, o, "refused")
     \/ active /\ o \in keys /\ Go(w, o, "succeeded")
     \/ active /\ o \notin keys /\ IF Kind[o] = "revision" THEN Go(w, o, "check") ELSE Admitted(w, o)
  /\ UNCHANGED <<domain, rows>>

\* effect() and the comparison with expectedVersion.  Row security hides the
\* transaction of an inactive profile: NOT_FOUND is not in permanent().
Check(w, o) ==
  /\ At(w, o, "check")
  /\ \/ ~active /\ Go(w, o, "unlisted")
     \/ active /\ o \in moved /\ Go(w, o, "outdated")
     \/ active /\ o \notin moved /\ Admitted(w, o)
  /\ UNCHANGED <<domain, rows>>

\* How the worker reads the version conflict of each command.
OnVersionConflict(o) ==
  CASE Kind[o] = "planning" -> "refused"     \* PLANNING_VERSION_CONFLICT
    [] Kind[o] = "revision" -> "outdated"    \* VERSION_CONFLICT of a transaction
    [] OTHER -> "unlisted"                   \* VERSION_CONFLICT of an account or category

\* Fault: the claim of the key does not see that it is completed.
NeverReplays(o) == FALSE

Replays(o) == o \in keys

Moved(o) == o \in Versioned /\ o \in moved

\* The command refuses, or finds its key completed: nothing is written.
MutateWithoutEffect(w, o) ==
  /\ At(w, o, "mutate")
  /\ \/ ~active /\ Go(w, o, "refused")
     \/ active /\ Replays(o) /\ Go(w, o, "succeeded")
     \/ active /\ ~Replays(o) /\ Moved(o) /\ Go(w, o, OnVersionConflict(o))
     \/ active /\ o \in Switches /\ Moved(o) /\ Go(w, o, "succeeded")  \* switched already
     \/ /\ active /\ ~Replays(o) /\ ~Moved(o)                 \* another domain error
        /\ Go(w, o, "refused") \/ Go(w, o, "unlisted")
  /\ UNCHANGED <<domain, rows>>

\* Key, effect and new version commit together; the reply may be lost.
MutateWithEffect(w, o) ==
  /\ At(w, o, "mutate")
  /\ active /\ ~Replays(o) /\ ~Moved(o)
  /\ effects' = [effects EXCEPT ![o] = IF @ < 2 THEN @ + 1 ELSE @]
  /\ keys' = keys \union ({o} \intersect Keyed)
  /\ moved' = moved \union ({o} \intersect Versioned)
  /\ Go(w, o, "succeeded") \/ Go(w, o, "failed")
  /\ UNCHANGED <<active, rows>>

Transient(w, o) ==
  /\ pc[<<w, o>>] \in Dispatching
  /\ Go(w, o, "failed")
  /\ UNCHANGED <<domain, rows>>

(***************************************************************************)
(* Recording the outcome.  Every write is fenced by the lease token.       *)
(***************************************************************************)

\* Fault: the row is written by its id alone.
OwnsAny(w, o) == TRUE

Owns(w, o) == status[o] = "processing" /\ lease[o] = w

Released(o) ==
  /\ lease' = [lease EXCEPT ![o] = NoWorker]
  /\ expired' = expired \ {o}

\* An error thrown by process() ends the run: the batch is forgotten and its
\* rows stay leased.
DropBatch(w) == pc' = [d \in Workers \X Ops |-> IF d[1] = w THEN "none" ELSE pc[d]]

\* complete_client_mutation, with its reply received or lost.
Settle(w, o, s, lost) ==
  /\ Owns(w, o)
  /\ status' = [status EXCEPT ![o] = s]
  /\ Released(o)
  /\ waiting' = waiting \ {o}
  /\ Go(w, o, "none") \/ lost
  /\ UNCHANGED <<domain, attempts>>

\* An error while recording success is handled like an error of the command.
FinishApplied(w, o) ==
  /\ At(w, o, "succeeded")
  /\ Settle(w, o, "applied", Go(w, o, "failed"))

FinishFails(w, o) ==
  /\ At(w, o, "succeeded")
  /\ Go(w, o, "failed")
  /\ UNCHANGED <<domain, rows>>

\* conflictTarget finds the transaction ...
FindTarget(w, o) ==
  /\ At(w, o, "outdated") /\ active
  /\ Go(w, o, "targeted")
  /\ UNCHANGED <<domain, rows>>

\* ... or row security hides it: the error is handled as any other.
NoTarget(w, o) ==
  /\ At(w, o, "outdated") /\ ~active
  /\ Go(w, o, "failed")
  /\ UNCHANGED <<domain, rows>>

\* createConflict opens the conflict and completes the mutation in one
\* transaction, which refuses an inactive profile.
RecordConflict(w, o) ==
  /\ At(w, o, "targeted") /\ active
  /\ Settle(w, o, "conflict", DropBatch(w))

Refuse(w, o) ==
  /\ At(w, o, "refused")
  /\ Settle(w, o, "rejected", DropBatch(w))

IsLast(o) == attempts[o] >= MaxAttempts

Exhaust(w, o) ==
  /\ pc[<<w, o>>] \in {"unlisted", "failed"} /\ IsLast(o)
  /\ Settle(w, o, "rejected", DropBatch(w))

Retry(w, o) ==
  /\ pc[<<w, o>>] \in {"unlisted", "failed"} /\ ~IsLast(o)
  /\ Owns(w, o)
  /\ status' = [status EXCEPT ![o] = "received"]
  /\ Released(o)
  /\ waiting' = waiting \union {o}
  /\ Go(w, o, "none") \/ DropBatch(w)
  /\ UNCHANGED <<domain, attempts>>

\* The lease was lost, or the database cannot be reached, in the catch block.
Throw(w, o) ==
  /\ pc[<<w, o>>] \in Caught
  /\ DropBatch(w)
  /\ UNCHANGED <<domain, rows>>

\* The process dies; its successor has a worker id, and tokens, of its own,
\* but what the dead process held is gone, so its name can be used again.
Crash(w) ==
  /\ \E o \in Ops : pc[<<w, o>>] # "none"
  /\ DropBatch(w)
  /\ UNCHANGED <<domain, rows>>

Dispatch(w, o) ==
  \/ Start(w, o) \/ Lookup(w, o) \/ Check(w, o) \/ Transient(w, o)
  \/ MutateWithoutEffect(w, o) \/ MutateWithEffect(w, o)
Record(w, o) ==
  \/ FinishApplied(w, o) \/ FinishFails(w, o)
  \/ FindTarget(w, o) \/ NoTarget(w, o) \/ RecordConflict(w, o) \/ Refuse(w, o)
  \/ Exhaust(w, o) \/ Retry(w, o) \/ Throw(w, o)

Next ==
  \/ \E o \in Ops : Receive(o) \/ TargetMoves(o) \/ LeaseRunsOut(o) \/ BackoffEnds(o)
  \/ Deactivate
  \/ \E w \in Workers : ClaimBatch(w) \/ Crash(w)
  \/ \E w \in Workers, o \in Ops : Dispatch(w, o) \/ Record(w, o)

Spec == Init /\ [][Next]_vars

(***************************************************************************)
(* Safety.                                                                 *)
(***************************************************************************)

\* However often an operation is leased, retried or raced for, its command
\* commits once (spec.md AC-001 "exactly one financial effect"), and it is
\* only reported applied when it has, or had nothing to switch any more.
AppliedExactlyOnce ==
  \A o \in Ops : effects[o] <= 1 /\ (status[o] = "applied" => effects[o] = 1 \/ o \in Switches)

\* A command takes effect only when everything it depends on is applied, also
\* when a worker that lost its lease long ago runs it (claim_client_mutations).
DependenciesFirst ==
  \A o \in Ops : effects[o] > 0 => \A d \in Deps[o] : status[d] = "applied"

\* "Terminal rows cannot transition back" (data-model.md:117): a late answer of
\* a worker whose lease was taken over changes no outcome.
TerminalIsFinal ==
  [][\A o \in Ops : status[o] \in Terminal => status'[o] = status[o]]_vars

\* An operation reported to its device as a conflict has changed nothing
\* (AC-001: a replay "returns the original result").
ConflictHasNoEffect == \A o \in Ops : status[o] = "conflict" => effects[o] = 0

\* A command with a key that has committed is never refused for its version
\* or its target when it is replayed: the replay finds the original result
\* (spec.md, User Story 1, scenario 1).
ReplayIsRecognised ==
  \A w \in Workers, o \in Keyed : pc[<<w, o>>] \in {"outdated", "unlisted"} => effects[o] = 0

\* An operation reported to its device as rejected has changed nothing, unless
\* its attempts were used up or its user's profile was deactivated: a replay
\* whose first answer was lost is not refused as a new command would be
\* (AC-001: a replay "returns the original result").
RejectedHasNoEffect ==
  \A o \in Ops : status[o] = "rejected" /\ effects[o] > 0 => attempts[o] >= MaxAttempts \/ ~active

(***************************************************************************)
(* Liveness.  Idle workers poll again and again and the claim orders its   *)
(* rows by age, so a row that stays claimable is claimed; workers carry on *)
(* with their batch; crashes, outages in the catch block and leases that   *)
(* run out under a worker eventually stop.  Commands may fail for ever.    *)
(***************************************************************************)
Held(o) == \E w \in Workers : lease[o] = w /\ pc[<<w, o>>] # "none"
Disruption ==
  \/ \E w \in Workers : Crash(w)
  \/ \E o \in Ops : Held(o) /\ LeaseRunsOut(o)
  \/ \E w \in Workers, o \in Ops : Owns(w, o) /\ Throw(w, o)

Fairness ==
  /\ <>[][~Disruption]_vars
  /\ \A o \in Ops : WF_vars(LeaseRunsOut(o) \/ BackoffEnds(o))
  /\ \A o \in Ops : SF_vars(\E w \in Workers, R, S \in Batches : o \in R \union S /\ Claim(w, R, S))
  /\ \A w \in Workers : WF_vars(\E o \in Ops : Dispatch(w, o) \/ Record(w, o))

FairSpec == Spec /\ Fairness

\* Every received mutation reaches a terminal status, "never leave an unbounded
\* hot loop" (internal-contracts.md:66): also when its command fails for ever,
\* and when the mutation it waits for is refused.
EverySettles ==
  \A o \in Ops : status[o] = "received" ~> status[o] \in Terminal
=============================================================================
