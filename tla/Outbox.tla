------------------------------- MODULE Outbox -------------------------------
(***************************************************************************)
(* The transactional outbox of apps/api/src/platform/outbox and the SQL    *)
(* functions behind it.  Producers insert a row in their own transaction;  *)
(* worker processes lease committed rows in batches, publish each to the   *)
(* pgmq queue and then mark it published, or schedule a retry.             *)
(*                                                                         *)
(* Time is abstract: a lease may run out, and a backoff may end, at any    *)
(* moment.  A dispatch <<w, e, c>> is one promise of a Promise.all of      *)
(* worker w; it goes on running when that Promise.all has been rejected,   *)
(* so w may claim row e again (as another copy c) while it is in flight.   *)
(***************************************************************************)
EXTENDS Naturals, FiniteSets

CONSTANTS
  Events,       \* outbox rows that may ever be written
  Malformed,    \* the events on which buildEventEnvelope throws
  Workers,      \* worker ids, one process each
  Copies,       \* bound: dispatches of one row one process may have in flight
  BatchLimit,   \* MASARIFI_OUTBOX_BATCH_SIZE
  AttemptCap,   \* bound: attempt_count is not followed beyond this
  NoWorker,     \* locked_by is null
  Flushed       \* marks a row whose last claim is already in the durable log

ASSUME EventsAssumption == Malformed \subseteq Events
ASSUME WorkersAssumption ==
  /\ NoWorker \notin Workers
  /\ Flushed \notin Workers \union {NoWorker}
ASSUME BoundsAssumption == BatchLimit \in Nat \ {0} /\ AttemptCap \in Nat \ {0}

VARIABLES
  tx,           \* the producer's transaction around each row
  published,    \* rows with published_at set
  holder,       \* locked_by
  expired,      \* rows whose locked_until has passed
  waiting,      \* rows whose available_at is still to come
  attempts,     \* attempt_count
  undo,         \* the locked_by a database crash would restore, or Flushed
  queue,        \* events the pgmq queue has accepted
  late,         \* events sent by somebody who no longer waits for the answer
  flight,       \* the dispatches in flight
  awaited,      \* the dispatches the loop still waits for
  stopping      \* workers whose loop has been aborted by stop()

vars == <<tx, published, holder, expired, waiting, attempts, undo, queue, late, flight, awaited, stopping>>

Holders == Workers \union {NoWorker}
Dispatches == Workers \X Events \X Copies
Flight == [pc : {"idle", "publish", "fail", "complete"},
           seen : 0..AttemptCap]       \* attemptCount of the claimed snapshot
Idle == [pc |-> "idle", seen |-> 0]

TypeOK ==
  /\ tx \in [Events -> {"none", "open", "committed", "aborted"}]
  /\ published \in SUBSET Events
  /\ holder \in [Events -> Holders]
  /\ expired \in SUBSET Events
  /\ waiting \in SUBSET Events
  /\ attempts \in [Events -> 0..AttemptCap]
  /\ undo \in [Events -> Holders \union {Flushed}]
  /\ queue \in SUBSET Events
  /\ late \in SUBSET Events
  /\ flight \in [Dispatches -> Flight]
  /\ awaited \in SUBSET Dispatches
  /\ stopping \in SUBSET Workers

Init ==
  /\ tx = [e \in Events |-> "none"]
  /\ published = {}
  /\ holder = [e \in Events |-> NoWorker]
  /\ expired = {}
  /\ waiting = {}
  /\ attempts = [e \in Events |-> 0]
  /\ undo = [e \in Events |-> Flushed]
  /\ queue = {}
  /\ late = {}
  /\ flight = [d \in Dispatches |-> Idle]
  /\ awaited = {}
  /\ stopping = {}

(***************************************************************************)
(* Producers.  enqueue_outbox_event runs inside the domain transaction, so *)
(* the row exists for others exactly when that transaction commits.        *)
(***************************************************************************)
Enqueue(e) ==
  /\ tx[e] = "none"
  /\ tx' = [tx EXCEPT ![e] = "open"]
  /\ UNCHANGED <<published, holder, expired, waiting, attempts, undo, queue, late, flight, awaited, stopping>>

\* A synchronous commit flushes every log record written before it.
FlushLog == undo' = [e \in Events |-> Flushed]

Commit(e) ==
  /\ tx[e] = "open"
  /\ tx' = [tx EXCEPT ![e] = "committed"]
  /\ FlushLog
  /\ UNCHANGED <<published, holder, expired, waiting, attempts, queue, late, flight, awaited, stopping>>

Rollback(e) ==
  /\ tx[e] = "open"
  /\ tx' = [tx EXCEPT ![e] = "aborted"]
  /\ UNCHANGED <<published, holder, expired, waiting, attempts, undo, queue, late, flight, awaited, stopping>>

(***************************************************************************)
(* The clock.                                                              *)
(***************************************************************************)
LeaseRunsOut(e) ==
  /\ holder[e] # NoWorker
  /\ e \notin expired
  /\ expired' = expired \union {e}
  /\ UNCHANGED <<tx, published, holder, waiting, attempts, undo, queue, late, flight, awaited, stopping>>

BackoffEnds(e) ==
  /\ e \in waiting
  /\ waiting' = waiting \ {e}
  /\ UNCHANGED <<tx, published, holder, expired, attempts, undo, queue, late, flight, awaited, stopping>>

(***************************************************************************)
(* The worker loop: claim a batch, dispatch its rows concurrently, wait    *)
(* for the Promise.all.  The loop claims again once nothing is awaited.    *)
(***************************************************************************)
\* Fault: the claim ignores available_at.
EligibleAtOnce(e) ==
  /\ tx[e] = "committed"
  /\ e \notin published
  /\ holder[e] = NoWorker \/ e \in expired

\* Fault: the claim ignores leases.
EligibleDespiteLease(e) == tx[e] = "committed" /\ e \notin published /\ e \notin waiting

\* Fault: a lease that ran out is never recovered.
EligibleUnlessLeased(e) == EligibleDespiteLease(e) /\ holder[e] = NoWorker

Eligible(e) ==
  /\ tx[e] = "committed"
  /\ e \notin published
  /\ e \notin waiting
  /\ holder[e] = NoWorker \/ e \in expired

Of(w) == {w} \X Events \X Copies
Settled(w) == awaited \cap Of(w) = {}

\* FOR UPDATE SKIP LOCKED may skip any row, so any eligible subset can be
\* claimed.  The claim commits asynchronously: it does not flush the log.
Claim(w, S, c) ==
  /\ w \notin stopping
  /\ Settled(w)
  /\ \A e \in S : Eligible(e) /\ flight[<<w, e, c>>].pc = "idle"
  /\ holder' = [e \in Events |-> IF e \in S THEN w ELSE holder[e]]
  /\ expired' = expired \ S
  /\ undo' = [e \in Events |-> IF e \in S /\ undo[e] = Flushed THEN holder[e] ELSE undo[e]]
  /\ flight' = [d \in Dispatches |->
                  IF d[1] = w /\ d[2] \in S /\ d[3] = c
                  THEN [pc |-> "publish", seen |-> attempts[d[2]]]
                  ELSE flight[d]]
  /\ awaited' = awaited \union ({w} \X S \X {c})
  /\ UNCHANGED <<tx, published, waiting, attempts, queue, late, stopping>>

Batches == {S \in SUBSET Events : Cardinality(S) \in 1..BatchLimit}
ClaimBatch(w) == \E S \in Batches, c \in Copies : Claim(w, S, c)

\* A dispatch that throws rejects the Promise.all: the loop stops waiting for
\* the rest of the batch, which keeps running.
Reject(w, d) ==
  /\ flight' = [flight EXCEPT ![d] = Idle]
  /\ awaited' = awaited \ Of(w)

\* A dispatch that returns.
Resolve(d) ==
  /\ flight' = [flight EXCEPT ![d] = Idle]
  /\ awaited' = awaited \ {d}

\* buildEventEnvelope runs before the try: its error leaves the row leased.
BuildFails(w, e, c) ==
  /\ e \in Malformed
  /\ flight[<<w, e, c>>].pc = "publish"
  /\ Reject(w, <<w, e, c>>)
  /\ UNCHANGED <<tx, published, holder, expired, waiting, attempts, undo, queue, late, stopping>>

\* pgmq.send commits before its reply is received.
PublishAccepted(w, e, c) ==
  /\ e \notin Malformed
  /\ flight[<<w, e, c>>].pc = "publish"
  /\ flight' = [flight EXCEPT ![<<w, e, c>>].pc = "complete"]
  /\ queue' = queue \union {e}
  /\ FlushLog
  /\ UNCHANGED <<tx, published, holder, expired, waiting, attempts, late, awaited, stopping>>

\* Fault: a publish error is swallowed and the row goes on to complete().
PublishErrorSwallowed(w, e, c) ==
  /\ e \notin Malformed
  /\ flight[<<w, e, c>>].pc = "publish"
  /\ flight' = [flight EXCEPT ![<<w, e, c>>].pc = "complete"]
  /\ UNCHANGED <<tx, published, holder, expired, waiting, attempts, undo, queue, late, awaited, stopping>>

\* The send failed, or timed out: PoolService.query gives up without cancelling
\* it, so the queue may still take the message.
PublishFails(w, e, c) ==
  /\ e \notin Malformed
  /\ flight[<<w, e, c>>].pc = "publish"
  /\ flight' = [flight EXCEPT ![<<w, e, c>>].pc = "fail"]
  /\ late' = late \union {e}
  /\ UNCHANGED <<tx, published, holder, expired, waiting, attempts, undo, queue, awaited, stopping>>

\* Such a send commits after all.
Arrive(e) ==
  /\ e \in late
  /\ late' = late \ {e}
  /\ queue' = queue \union {e}
  /\ FlushLog
  /\ UNCHANGED <<tx, published, holder, expired, waiting, attempts, flight, awaited, stopping>>

\* The fence of fail() and complete(): the worker id, not the lease.
Owns(w, e) == holder[e] = w /\ e \notin published

\* Fault: the lease columns are not cleared.
KeepLease(e) == FlushLog /\ UNCHANGED <<holder, expired>>

Release(e) ==
  /\ holder' = [holder EXCEPT ![e] = NoWorker]
  /\ expired' = expired \ {e}
  /\ FlushLog

\* attempt = row.attemptCount + 1.  Bound: the code counts on for ever, the
\* model stops at AttemptCap.
NextAttempt(n) == IF n < AttemptCap THEN n + 1 ELSE AttemptCap

\* repository.fail: reschedule with the attempt number of the snapshot.  The
\* dispatch returns, or throws because the reply to the commit was lost.
Fail(w, e, c) ==
  /\ flight[<<w, e, c>>].pc = "fail"
  /\ Resolve(<<w, e, c>>) \/ Reject(w, <<w, e, c>>)
  /\ IF Owns(w, e)
     THEN /\ attempts' = [attempts EXCEPT ![e] = NextAttempt(flight[<<w, e, c>>].seen)]
          /\ waiting' = waiting \union {e}
          /\ Release(e)
     ELSE UNCHANGED <<holder, expired, waiting, attempts, undo>>
  /\ UNCHANGED <<tx, published, queue, late, stopping>>

\* repository.fail throws (the database is unreachable): nothing is written.
FailErrors(w, e, c) ==
  /\ flight[<<w, e, c>>].pc = "fail"
  /\ Reject(w, <<w, e, c>>)
  /\ UNCHANGED <<tx, published, holder, expired, waiting, attempts, undo, queue, late, stopping>>

\* repository.complete under its fence.
Complete(w, e, c) ==
  /\ flight[<<w, e, c>>].pc = "complete"
  /\ Owns(w, e)
  /\ Resolve(<<w, e, c>>)
  /\ published' = published \union {e}
  /\ Release(e)
  /\ UNCHANGED <<tx, waiting, attempts, queue, late, stopping>>

\* The fence matched no row, or complete() threw and the error was swallowed.
CompleteIsLost(w, e, c) ==
  /\ flight[<<w, e, c>>].pc = "complete"
  /\ Resolve(<<w, e, c>>)
  /\ UNCHANGED <<tx, published, holder, expired, waiting, attempts, undo, queue, late, stopping>>

(***************************************************************************)
(* Shutdown and crashes.                                                   *)
(***************************************************************************)
Stop(w) ==
  /\ w \notin stopping
  /\ stopping' = stopping \union {w}
  /\ UNCHANGED <<tx, published, holder, expired, waiting, attempts, undo, queue, late, flight, awaited>>

\* What the process has sent may still reach the queue.
Forget(w) ==
  /\ late' = late \union {e \in Events \ Malformed : \E c \in Copies : flight[<<w, e, c>>].pc = "publish"}
  /\ flight' = [d \in Dispatches |-> IF d \in Of(w) THEN Idle ELSE flight[d]]
  /\ awaited' = awaited \ Of(w)
  /\ stopping' = stopping \ {w}

\* stop() awaits the loop; the process exits and the next one starts.
Restart(w) ==
  /\ w \in stopping /\ Settled(w)
  /\ Forget(w)
  /\ UNCHANGED <<tx, published, holder, expired, waiting, attempts, undo, queue>>

Crash(w) ==
  /\ Forget(w)
  /\ UNCHANGED <<tx, published, holder, expired, waiting, attempts, undo, queue>>

\* PostgreSQL crashes: open transactions, sends under way and unflushed claims
\* are gone.
DatabaseCrash ==
  /\ tx' = [e \in Events |-> IF tx[e] = "open" THEN "aborted" ELSE tx[e]]
  /\ holder' = [e \in Events |-> IF undo[e] = Flushed THEN holder[e] ELSE undo[e]]
  /\ expired' = {e \in Events : IF undo[e] = Flushed THEN e \in expired ELSE undo[e] # NoWorker}
  /\ FlushLog
  /\ late' = {}
  /\ UNCHANGED <<published, waiting, attempts, queue, flight, awaited, stopping>>

Producer(e) == Enqueue(e) \/ Commit(e) \/ Rollback(e)
Clock(e) == LeaseRunsOut(e) \/ BackoffEnds(e)
Send(w, e, c) == BuildFails(w, e, c) \/ PublishAccepted(w, e, c) \/ PublishFails(w, e, c)
Record(w, e, c) ==
  Fail(w, e, c) \/ FailErrors(w, e, c) \/ Complete(w, e, c) \/ CompleteIsLost(w, e, c)

Next ==
  \/ \E e \in Events : Producer(e) \/ Clock(e) \/ Arrive(e)
  \/ \E w \in Workers : ClaimBatch(w) \/ Stop(w) \/ Restart(w) \/ Crash(w)
  \/ \E w \in Workers, e \in Events, c \in Copies : Send(w, e, c) \/ Record(w, e, c)
  \/ DatabaseCrash

Spec == Init /\ [][Next]_vars

(***************************************************************************)
(* Safety.                                                                 *)
(***************************************************************************)

\* The outbox keeps its promise: every behaviour, projected on the committed,
\* the queued and the published rows, is one of EventDelivery.  A row is never
\* queued before its producer commits (enqueue_outbox_event) nor marked
\* published before the queue has accepted it (OutboxDispatcher.dispatch).
Committed == {e \in Events : tx[e] = "committed"}
Delivery == INSTANCE EventDelivery WITH
              Deliverable <- Events \ Malformed,
              stored <- Committed, delivered <- queue, retired <- published
KeepsPromise == Delivery!Safety

\* A published row holds no lease, and no database crash brings one back
\* (the check constraint outbox_events_published_lease_check).
PublishedIsUnlocked ==
  \A e \in published : holder[e] = NoWorker /\ undo[e] = Flushed

\* A row whose publication failed is left alone until its backoff ends: no
\* worker leases it, no second dispatch retires it, and no database crash brings
\* back a claim that was lost with the log (OutboxRepository.fail,
\* claim_outbox_batch).
BackoffIsKept ==
  \A e \in waiting : holder[e] = NoWorker /\ undo[e] = Flushed /\ e \notin published

\* A live lease never passes straight to another live lease: only its release,
\* or its expiry, makes the row claimable again (claim_outbox_batch).
HandOver(e) ==
  holder[e] # NoWorker /\ e \notin expired /\ holder'[e] # holder[e]
    => holder'[e] = NoWorker \/ e \in expired'
LeaseIsExclusive == [][\A e \in Events : HandOver(e)]_vars

(***************************************************************************)
(* Liveness.  Publishing and completing succeed again and again (outages   *)
(* end); every claimable row is claimed again and again (the claim orders  *)
(* by available_at); crashes, and leases that run out under a dispatch,    *)
(* eventually stop: a publication times out after a second, a lease lasts  *)
(* thirty.                                                                 *)
(***************************************************************************)
Dispatching(e) == \E c \in Copies, w \in Workers : holder[e] = w /\ flight[<<w, e, c>>].pc # "idle"
Disruption ==
  \/ DatabaseCrash
  \/ \E w \in Workers : Crash(w)
  \/ \E e \in Events : Dispatching(e) /\ LeaseRunsOut(e)

Fairness ==
  /\ <>[][~Disruption]_vars
  /\ \A e \in Events : WF_vars(Clock(e))
  /\ \A e \in Events : SF_vars(\E w \in Workers, S \in Batches, c \in Copies : e \in S /\ Claim(w, S, c))
  /\ \A e \in Events : SF_vars(\E w \in Workers, c \in Copies : PublishAccepted(w, e, c))
  /\ \A e \in Events : SF_vars(\E w \in Workers, c \in Copies : Complete(w, e, c))
  /\ \A w \in Workers : WF_vars(Restart(w))
  /\ \A w \in Workers, e \in Events, c \in Copies :
       WF_vars(Send(w, e, c)) /\ WF_vars(Record(w, e, c))

FairSpec == Spec /\ Fairness

\* "The row is never silently dropped" (spec.md, Job outbox.dispatch): each
\* committed event is published in the end, whatever fails on the way and
\* although a malformed neighbour rejects the batches it is claimed in.
EventuallyPublished ==
  \A e \in Events \ Malformed : tx[e] = "committed" ~> e \in published
=============================================================================
