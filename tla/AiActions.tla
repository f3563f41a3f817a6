----------------------------- MODULE AiActions -----------------------------
(***************************************************************************)
(* Voice recordings and assistant messages (apps/api/src/ai): a worker     *)
(* turns each into at most one proposal, the owner confirms or rejects it, *)
(* and a confirmed proposal is executed as one command of another domain.  *)
(*                                                                         *)
(* Three parties touch a row: the workers (with a claim that may run out), *)
(* the purge of recordings (which borrows the same claim columns) and the  *)
(* owner's calls.  A confirmation is three transactions, the claim of the  *)
(* decision, the command and the completion; a call may end between any    *)
(* two, and the same Idempotency-Key takes it up again.                    *)
(*                                                                         *)
(* Time is abstract: leases, backoffs and expiries pass at any moment.  A  *)
(* claim token is the worker (or call) that drew it: each works on one row *)
(* at a time, so an older token of the same one is held by nobody.         *)
(***************************************************************************)
EXTENDS Naturals, FiniteSets

CONSTANTS
  Voice,          \* voice sessions
  Messages,       \* assistant messages of the user
  Goals,          \* messages answered with savings_goal.create
  Targeted,       \* messages answered with a command that names a version of what it changes
  Workers,        \* slots of worker processes, each with one claim at a time
  Calls,          \* requests to confirm that may be in progress at once
  Keys,           \* Idempotency-Keys, as the operation ids made of them
  RetryLimit,     \* attempts after which a provider error is final
  AttemptCap,     \* the check on attempt_count: 20 in the code
  MaxVersion,     \* bound: version of a proposal
  None

Work == Voice \union Messages

ASSUME WorkAssumption ==
  /\ Voice \intersect Messages = {}
  /\ Goals \subseteq Messages
  /\ Targeted \subseteq Messages
  /\ Goals \intersect Targeted = {}
ASSUME NoneAssumption == None \notin Workers \union Calls \union Keys \union Work
ASSUME BoundsAssumption ==
  /\ RetryLimit \in Nat
  /\ AttemptCap \in Nat
  /\ MaxVersion \in Nat \ {0}

VARIABLES
  work,        \* the rows of voice_sessions and of assistant_messages with role user
  recorded,    \* sessions whose object is in storage
  results,     \* transcripts or replies written for each
  consent,     \* the owner has an active assistant_consents row
  run,         \* what each worker is doing
  proposal,    \* the voice_proposals and assistant_action_previews rows
  call,        \* the confirmations in progress
  effects      \* the commands committed for each proposal, by operation and domain key

vars == <<work, recorded, results, consent, run, proposal, call, effects>>

Versions == 0..MaxVersion        \* 0 before there is a proposal
Effects == Keys \X Versions      \* operation id, version in the domain key
Decided == {"executed", "rejected", "expired"}
Approved == {"confirmed", "executed"}

Row == [status : {"none", "created", "queued", "processing", "done", "failed", "cancelled"},
        due : BOOLEAN,                        \* next_attempt_at has passed
        holder : Workers \union {None},       \* claim_token
        live : BOOLEAN,                       \* lease_until is still to come
        attempts : 0..AttemptCap,
        ref : BOOLEAN,                        \* storage_ref is set
        old : BOOLEAN]                        \* expires_at of the session has passed
Run == [pc : {"idle", "claimed", "asked", "failing", "erase", "purging", "purged", "unpurged"},
        item : Work \union {None},
        attempt : 0..AttemptCap,
        retry : BOOLEAN]
Proposal == [status : {"none", "validated"} \union Approved \union Decided,
             version : Versions,
             op : Keys \union {None},         \* confirmation_operation_id
             decider : Calls \union {None},   \* decision_token
             live : BOOLEAN,                  \* decision_lease_until is still to come
             late : BOOLEAN,                  \* expires_at has passed
             resource : Effects \union {None}]
Call == [pc : {"idle", "claimed", "executed"},
         item : Work \union {None},
         op : Keys \union {None},
         version : Versions]                   \* expectedVersion of the request

Resting == [pc |-> "idle", item |-> None, attempt |-> 0, retry |-> FALSE]
NoCall == [pc |-> "idle", item |-> None, op |-> None, version |-> 0]
NoProposal == [status |-> "none", version |-> 0, op |-> None, decider |-> None,
               live |-> FALSE, late |-> FALSE, resource |-> None]

TypeOK ==
  /\ work \in [Work -> Row]
  /\ recorded \subseteq Voice
  /\ results \in [Work -> Nat]
  /\ consent \in BOOLEAN
  /\ run \in [Workers -> Run]
  /\ proposal \in [Work -> Proposal]
  /\ call \in [Calls -> Call]
  /\ effects \in [Work -> SUBSET Effects]

Init ==
  /\ work = [w \in Work |-> [status |-> "none", due |-> TRUE, holder |-> None, live |-> FALSE,
                             attempts |-> 0, ref |-> FALSE, old |-> FALSE]]
  /\ recorded = {}
  /\ results = [w \in Work |-> 0]
  /\ consent = FALSE
  /\ run = [p \in Workers |-> Resting]
  /\ proposal = [w \in Work |-> NoProposal]
  /\ call = [c \in Calls |-> NoCall]
  /\ effects = [w \in Work |-> {}]

Owner == <<proposal, call, effects>>

(***************************************************************************)
(* What the owner asks for.                                                *)
(***************************************************************************)
CreateVoiceSession(v) ==
  /\ work[v].status = "none"
  /\ work' = [work EXCEPT ![v].status = "created", ![v].ref = TRUE]
  /\ UNCHANGED <<recorded, results, consent, run, Owner>>

\* The client puts the recording at the signed address, before it asks for the
\* session to be processed.
Upload(v) ==
  /\ work[v].status = "created" /\ ~work[v].old
  /\ recorded' = recorded \union {v}
  /\ UNCHANGED <<work, results, consent, run, Owner>>

\* Whether the recording has arrived is not asked; it may be said again.
FinalizeVoiceSession(v) ==
  /\ work[v].status \in {"created", "queued"}
  /\ work' = [work EXCEPT ![v].status = "queued", ![v].due = TRUE]
  /\ UNCHANGED <<recorded, results, consent, run, Owner>>

EnqueueMessage(m) ==
  /\ consent
  /\ work[m].status = "none"
  /\ work' = [work EXCEPT ![m].status = "queued"]
  /\ UNCHANGED <<recorded, results, consent, run, Owner>>

\* A question the API can answer by itself is stored with its answer.
SaveDeterministicMessage(m) ==
  /\ consent
  /\ work[m].status = "none"
  /\ work' = [work EXCEPT ![m].status = "done"]
  /\ results' = [results EXCEPT ![m] = @ + 1]
  /\ UNCHANGED <<recorded, consent, run, Owner>>

\* A queued or processing message; the claim goes with it.
Withdrawn(r) == [r EXCEPT !.status = "cancelled", !.holder = None, !.live = FALSE]

CancelMessage(m) ==
  /\ work[m].status \in {"queued", "processing"}
  /\ work' = [work EXCEPT ![m] = Withdrawn(@)]
  /\ UNCHANGED <<recorded, results, consent, run, Owner>>

Grant ==
  /\ ~consent
  /\ consent' = TRUE
  /\ UNCHANGED <<work, recorded, results, run, Owner>>

\* Messages still queued are cancelled; one in progress is left to its save.
Revoke ==
  /\ consent
  /\ consent' = FALSE
  /\ work' = [w \in Work |-> IF w \in Messages /\ work[w].status = "queued"
                             THEN Withdrawn(work[w]) ELSE work[w]]
  /\ UNCHANGED <<recorded, results, run, Owner>>

(***************************************************************************)
(* The worker.                                                             *)
(***************************************************************************)
Free(r) == r.holder = None \/ ~r.live

\* Fault: the check of the table counts one more.
ClaimableOnceMore(r) ==
  r.status \in {"queued", "processing"} /\ r.due /\ Free(r) /\ r.attempts <= AttemptCap

\* A row at AttemptCap would break the check of the table: the statement fails.
Claimable(r) ==
  r.status \in {"queued", "processing"} /\ r.due /\ Free(r) /\ r.attempts < AttemptCap

Claim(p, w) ==
  /\ run[p] = Resting
  /\ Claimable(work[w])
  /\ work' = [work EXCEPT ![w].status = "processing", ![w].holder = p, ![w].live = TRUE,
                          ![w].attempts = @ + 1]
  /\ run' = [run EXCEPT ![p] = [pc |-> "claimed", item |-> w,
                                attempt |-> work[w].attempts + 1, retry |-> FALSE]]
  /\ UNCHANGED <<recorded, results, consent, Owner>>

\* Fault: a worker whose claim has been taken over is still heard.
OwnsAnything(p) == TRUE

Owns(p) == work[run[p].item].holder = p

Fenced(p) == Owns(p) /\ work[run[p].item].live /\ work[run[p].item].status = "processing"

\* The input and the recording are there, and the provider answers.
Ask(p) ==
  /\ run[p].pc = "claimed" /\ Fenced(p)
  /\ run[p].item \in Voice => run[p].item \in recorded
  /\ run[p].item \in Messages => consent
  /\ run' = [run EXCEPT ![p].pc = "asked"]
  /\ UNCHANGED <<work, recorded, results, consent, Owner>>

\* Only errors of the gateway are retryable, and only before RetryLimit.
Error(p, retry) ==
  /\ run[p].pc \in {"claimed", "asked"}
  /\ retry => run[p].attempt < RetryLimit
  /\ run' = [run EXCEPT ![p].pc = "failing", ![p].retry = retry]
  /\ UNCHANGED <<work, recorded, results, consent, Owner>>

\* One transaction: the result (one transcript or reply by a unique index), its
\* proposal, the status and the claim.  A message may be answered without a
\* proposal.  The database's answer may be lost.
Save(p, proposes, lost) ==
  LET w == run[p].item IN
  /\ run[p].pc = "asked" /\ Fenced(p)
  /\ w \in Messages => consent
  /\ w \in Voice => proposes
  /\ results[w] = 0
  /\ results' = [results EXCEPT ![w] = @ + 1]
  /\ proposal' = IF proposes
                   THEN [proposal EXCEPT ![w].status = "validated", ![w].version = 1]
                   ELSE proposal
  /\ work' = [work EXCEPT ![w].status = "done", ![w].holder = None, ![w].live = FALSE]
  /\ run' = [run EXCEPT ![p] = IF lost THEN [@ EXCEPT !.pc = "failing", !.retry = FALSE]
                               ELSE IF w \in Voice THEN [@ EXCEPT !.pc = "erase"]
                               ELSE Resting]
  /\ UNCHANGED <<recorded, consent, call, effects>>

\* Only the token is asked for, neither the lease nor the status.
CompleteWork(p) ==
  LET w == run[p].item IN
  /\ run[p].pc = "failing"
  /\ work' = IF ~Owns(p) THEN work
             ELSE IF ~run[p].retry
               THEN [work EXCEPT ![w].status = "failed", ![w].holder = None, ![w].live = FALSE]
             ELSE [work EXCEPT ![w].status = IF w \in Voice THEN @ ELSE "queued",
                               ![w].due = FALSE, ![w].holder = None, ![w].live = FALSE]
  /\ run' = [run EXCEPT ![p] = Resting]
  /\ UNCHANGED <<recorded, results, consent, Owner>>

\* After a voice result has been saved; an error is left to the purge.
Erase(p, works) ==
  /\ run[p].pc = "erase"
  /\ recorded' = IF works THEN recorded \ {run[p].item} ELSE recorded
  /\ run' = [run EXCEPT ![p] = Resting]
  /\ UNCHANGED <<work, results, consent, Owner>>

\* The end of a worker process, or of the connection it writes through.
Crash(p) ==
  /\ run[p].pc # "idle"
  /\ run' = [run EXCEPT ![p] = Resting]
  /\ UNCHANGED <<work, recorded, results, consent, Owner>>

(***************************************************************************)
(* The purge of recordings.                                                *)
(***************************************************************************)
\* Fault: a recording goes as soon as a worker has taken it up.
PurgeableOnceTaken(r) == r.ref /\ (r.old \/ r.status \in {"processing", "done", "failed"})

Purgeable(r) == r.ref /\ (r.old \/ r.status \in {"done", "failed"})

ClaimPurge(p, v) ==
  /\ run[p] = Resting
  /\ Purgeable(work[v]) /\ Free(work[v])
  /\ work' = [work EXCEPT ![v].holder = p, ![v].live = TRUE]
  /\ run' = [run EXCEPT ![p] = [Resting EXCEPT !.pc = "purging", !.item = v]]
  /\ UNCHANGED <<recorded, results, consent, Owner>>

Purge(p, works) ==
  /\ run[p].pc = "purging"
  /\ recorded' = IF works THEN recorded \ {run[p].item} ELSE recorded
  /\ run' = [run EXCEPT ![p].pc = IF works THEN "purged" ELSE "unpurged"]
  /\ UNCHANGED <<work, results, consent, Owner>>

CompletePurge(p) ==
  LET v == run[p].item
      gone == run[p].pc = "purged" IN
  /\ run[p].pc \in {"purged", "unpurged"}
  /\ work' = IF ~Owns(p) THEN work
             ELSE [work EXCEPT ![v].ref = @ /\ ~gone, ![v].due = @ /\ gone,
                               ![v].holder = None, ![v].live = FALSE]
  /\ run' = [run EXCEPT ![p] = Resting]
  /\ UNCHANGED <<recorded, results, consent, Owner>>

(***************************************************************************)
(* The clock.                                                              *)
(***************************************************************************)
Clock(w) ==
  /\ \/ work[w].live /\ work' = [work EXCEPT ![w].live = FALSE]
     \/ ~work[w].due /\ work' = [work EXCEPT ![w].due = TRUE]
     \/ /\ w \in Voice /\ work[w].status # "none" /\ ~work[w].old
        /\ work' = [work EXCEPT ![w].old = TRUE]
  /\ UNCHANGED <<recorded, results, consent, run, Owner>>

ProposalClock(w) ==
  /\ \/ proposal[w].live /\ proposal' = [proposal EXCEPT ![w].live = FALSE]
     \/ /\ proposal[w].status = "validated" /\ ~proposal[w].late
        /\ proposal' = [proposal EXCEPT ![w].late = TRUE]
  /\ UNCHANGED <<work, recorded, results, consent, run, call, effects>>

(***************************************************************************)
(* The decision.                                                           *)
(***************************************************************************)
Decidable(w) == proposal[w].status = "validated" /\ proposal[w].version < MaxVersion

\* Fault: an unanswered confirmation can be rejected.
OpenDespiteClaim(w) ==
  proposal[w].status \in {"validated", "confirmed"} /\ proposal[w].version < MaxVersion

\* draft or validated: no code writes a draft.
Open(w) == Decidable(w)

Reject(w) ==
  /\ Open(w)
  /\ proposal' = [proposal EXCEPT ![w].status = "rejected", ![w].version = @ + 1]
  /\ UNCHANGED <<work, recorded, results, consent, run, call, effects>>

\* expire_ai_proposals
Expire(w) ==
  /\ Decidable(w) /\ proposal[w].late
  /\ proposal' = [proposal EXCEPT ![w].status = "expired", ![w].version = @ + 1]
  /\ UNCHANGED <<work, recorded, results, consent, run, call, effects>>

\* confirm_ai_action for a proposal nobody has confirmed: expectedVersion is
\* compared, and it names the command.
Confirm(c, w, k) ==
  /\ call[c] = NoCall
  /\ Decidable(w) /\ ~proposal[w].late
  /\ w \in Messages => consent
  /\ proposal' = [proposal EXCEPT ![w].status = "confirmed", ![w].op = k, ![w].decider = c,
                                  ![w].live = TRUE, ![w].version = @ + 1]
  /\ call' = [call EXCEPT ![c] = [pc |-> "claimed", item |-> w, op |-> k,
                                  version |-> proposal[w].version]]
  /\ UNCHANGED <<work, recorded, results, consent, run, effects>>

\* Fault: whoever asks takes an unfinished confirmation up.
ResumableByAll(w, k) == proposal[w].status = "confirmed"

Resumable(w, k) == proposal[w].status = "confirmed" /\ proposal[w].op = k

\* confirm_ai_action for the operation that confirmed before: neither the
\* expected version, which may be any, nor the expiry nor the consent is asked
\* for again.
Resume(c, w, k, v) ==
  /\ call[c] = NoCall
  /\ Resumable(w, k) /\ proposal[w].version < MaxVersion
  /\ v # 0
  /\ proposal' = [proposal EXCEPT ![w].decider = c, ![w].live = TRUE, ![w].version = @ + 1]
  /\ call' = [call EXCEPT ![c] = [pc |-> "claimed", item |-> w, op |-> k, version |-> v]]
  /\ UNCHANGED <<work, recorded, results, consent, run, effects>>

\* What the domain says to operation k under the domain key of version v.
\* transaction.create carries the operation as its external_ref, which is
\* unique; commands on an existing resource name the version they change; a
\* goal is only known by the domain key.
Answered(w, k, v) ==
  IF w \in Goals \union Targeted THEN \E e \in effects[w] : e[2] = v
                                 ELSE <<k, v>> \in effects[w]

\* Fault: transaction.create is only known by the domain key.
RefusedByDomainKey(w, k, v) ==
  CASE w \in Goals -> FALSE
    [] w \in Targeted -> effects[w] # {}
    [] OTHER -> \E e \in effects[w] : e[2] = v

Refused(w, k, v) ==
  CASE w \in Goals -> FALSE
    [] w \in Targeted -> effects[w] # {}
    [] OTHER -> \E e \in effects[w] : e[1] = k \/ e[2] = v

\* The command commits, or is known already and answers as before.
Execute(c) ==
  LET w == call[c].item
      k == call[c].op
      v == call[c].version IN
  /\ call[c].pc = "claimed"
  /\ Answered(w, k, v) \/ ~Refused(w, k, v)
  /\ effects' = IF Answered(w, k, v) THEN effects
                ELSE [effects EXCEPT ![w] = @ \union {<<k, v>>}]
  /\ call' = [call EXCEPT ![c].pc = "executed"]
  /\ UNCHANGED <<work, recorded, results, consent, run, proposal>>

Decides(c) ==
  LET q == proposal[call[c].item] IN q.status = "confirmed" /\ q.decider = c /\ q.live

\* complete_ai_action with the resource the command answered with.
Complete(c) ==
  LET w == call[c].item IN
  /\ call[c].pc = "executed" /\ Decides(c) /\ proposal[w].version < MaxVersion
  /\ \E e \in effects[w] :
       /\ e[2] = call[c].version
       /\ proposal' = [proposal EXCEPT ![w].status = "executed", ![w].resource = e,
                         ![w].decider = None, ![w].live = FALSE, ![w].version = @ + 1]
  /\ call' = [call EXCEPT ![c] = NoCall]
  /\ UNCHANGED <<work, recorded, results, consent, run, effects>>

\* The command is refused, the completion finds its token gone, or the process
\* or connection ends: the proposal stays as it is.
EndCall(c) ==
  /\ call[c].pc # "idle"
  /\ call' = [call EXCEPT ![c] = NoCall]
  /\ UNCHANGED <<work, recorded, results, consent, run, proposal, effects>>

-----------------------------------------------------------------------------
WorkerStep(p) ==
  \/ \E w \in Work : Claim(p, w)
  \/ Ask(p) \/ CompleteWork(p) \/ Crash(p) \/ CompletePurge(p)
  \/ \E retry \in BOOLEAN : Error(p, retry)
  \/ \E proposes, lost \in BOOLEAN : Save(p, proposes, lost)
  \/ \E works \in BOOLEAN : Erase(p, works) \/ Purge(p, works)
  \/ \E v \in Voice : ClaimPurge(p, v)

CallStep(c) ==
  \/ \E w \in Work, k \in Keys : Confirm(c, w, k)
  \/ \E w \in Work, k \in Keys, v \in Versions : Resume(c, w, k, v)
  \/ Execute(c) \/ Complete(c) \/ EndCall(c)

OwnerStep ==
  \/ \E v \in Voice : CreateVoiceSession(v) \/ Upload(v) \/ FinalizeVoiceSession(v)
  \/ \E m \in Messages : EnqueueMessage(m) \/ SaveDeterministicMessage(m) \/ CancelMessage(m)
  \/ \E w \in Work : Reject(w)
  \/ Grant \/ Revoke

Next ==
  \/ \E p \in Workers : WorkerStep(p)
  \/ \E c \in Calls : CallStep(c)
  \/ OwnerStep
  \/ \E w \in Work : Clock(w) \/ ProposalClock(w) \/ Expire(w)

Spec == Init /\ [][Next]_vars

-----------------------------------------------------------------------------
\* A session or message is done exactly when its one result has been written:
\* neither a worker that lost its claim nor a cancellation, nor an error after
\* the save, tells the owner otherwise (save_*_result, complete_ai_work).
DoneHasResult == \A w \in Work : results[w] = IF work[w].status = "done" THEN 1 ELSE 0

\* Nothing is executed for a proposal the owner has not confirmed, and a proposal
\* called executed names a command that has been committed, whichever of several
\* calls recorded it (confirm_ai_action, AiService.confirm, complete_ai_action).
EffectsAreConfirmed == \A w \in Work :
  /\ effects[w] # {} => proposal[w].status \in Approved
  /\ proposal[w].status = "executed" => proposal[w].resource \in effects[w]

\* However often a confirmation is repeated, taken up and raced, and whatever
\* versions the repetitions name, it has one effect; a savings goal is the
\* exception (AiService.confirm, transactions_external_ref_uq).
ExecutesOnce == \A w \in Work \ Goals : Cardinality(effects[w]) <= 1

\* A decided proposal is never decided again, and a call that was on its way
\* when the decision fell does not execute anything afterwards.
DecisionIsFinal ==
  [][\A w \in Work : proposal[w].status \in Decided =>
       /\ proposal'[w].status = proposal[w].status
       /\ proposal'[w].resource = proposal[w].resource
       /\ w \notin Goals => effects'[w] = effects[w]]_vars

\* A recording is deleted only when its session has been worked off or has
\* expired, although the purge and the worker delete without any claim.
RecordingOutlivesWork ==
  [][\A v \in recorded : v \notin recorded' => work[v].old \/ work[v].status \in {"done", "failed"}]_vars
=============================================================================
