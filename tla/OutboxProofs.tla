---------------------------- MODULE OutboxProofs ----------------------------
(***************************************************************************)
(* Proofs about Outbox, for every set of events, workers and copies.       *)
(***************************************************************************)
EXTENDS Outbox, TLAPS

USE EventsAssumption, WorkersAssumption, BoundsAssumption
    DEF EventsAssumption, WorkersAssumption, BoundsAssumption

(***************************************************************************)
(* The inductive invariant: who is in flight, or was sent, was committed,  *)
(* who is about to be completed was queued.                                *)
(***************************************************************************)
FlightIsCommitted ==
  \A d \in Dispatches : flight[d].pc # "idle" => tx[d[2]] = "committed"
CompletingIsQueued ==
  \A d \in Dispatches : flight[d].pc = "complete" => d[2] \in queue
QueuedIsCommitted == \A e \in queue : tx[e] = "committed"
LateIsCommitted == \A e \in late : tx[e] = "committed"
PublishedIsQueued == published \subseteq queue

IInv ==
  /\ TypeOK
  /\ FlightIsCommitted
  /\ CompletingIsQueued
  /\ QueuedIsCommitted
  /\ LateIsCommitted
  /\ PublishedIsQueued
  /\ PublishedIsUnlocked
  /\ BackoffIsKept

\* A dispatch record updated at one dispatch stays a dispatch record.
LEMMA FlightTyping ==
  /\ Idle \in Flight
  /\ \A r \in Flight, p \in {"idle", "publish", "fail", "complete"} :
       [r EXCEPT !.pc = p] \in Flight
BY DEF Idle, Flight

\* Typing is preserved by every step of the outbox.
LEMMA Typing == ASSUME TypeOK, [Next]_vars PROVE TypeOK'
<1> USE DEF TypeOK, Holders, FlushLog
<1>1. CASE UNCHANGED vars
  BY <1>1 DEF vars
<1>2. ASSUME NEW e \in Events, Producer(e) PROVE TypeOK'
  BY <1>2 DEF Producer, Enqueue, Commit, Rollback
<1>3. ASSUME NEW e \in Events, Clock(e) \/ Arrive(e) PROVE TypeOK'
  BY <1>3 DEF Clock, LeaseRunsOut, BackoffEnds, Arrive
<1>4. ASSUME NEW w \in Workers, ClaimBatch(w) PROVE TypeOK'
  <2>1. PICK S \in SUBSET Events, c \in Copies : Claim(w, S, c)
    BY <1>4 DEF ClaimBatch, Batches
  <2>2. flight' \in [Dispatches -> Flight]
    BY <2>1 DEF Claim, Dispatches, Flight
  <2>3. awaited' \in SUBSET Dispatches
    BY <2>1 DEF Claim, Dispatches
  <2>4. holder' \in [Events -> Holders] /\ undo' \in [Events -> Holders \union {Flushed}]
    BY <2>1 DEF Claim
  <2>5. QED
    BY <2>1, <2>2, <2>3, <2>4 DEF Claim
<1>5. ASSUME NEW w \in Workers, Stop(w) \/ Restart(w) \/ Crash(w) PROVE TypeOK'
  BY <1>5, FlightTyping DEF Stop, Restart, Crash, Forget
<1>6. ASSUME NEW w \in Workers, NEW e \in Events, NEW c \in Copies, Send(w, e, c)
      PROVE  TypeOK'
  <2> <<w, e, c>> \in Dispatches
    BY DEF Dispatches
  <2>1. CASE BuildFails(w, e, c)
    BY <2>1, FlightTyping DEF BuildFails, Reject
  <2>2. CASE PublishAccepted(w, e, c)
    <3>1. flight' \in [Dispatches -> Flight]
      BY <2>2, FlightTyping DEF PublishAccepted
    <3>2. QED
      BY <2>2, <3>1 DEF PublishAccepted
  <2>3. CASE PublishFails(w, e, c)
    <3>1. flight' \in [Dispatches -> Flight]
      BY <2>3, FlightTyping DEF PublishFails
    <3>2. QED
      BY <2>3, <3>1 DEF PublishFails
  <2>4. QED
    BY <1>6, <2>1, <2>2, <2>3 DEF Send
<1>7. ASSUME NEW w \in Workers, NEW e \in Events, NEW c \in Copies, Record(w, e, c)
      PROVE  TypeOK'
  <2> <<w, e, c>> \in Dispatches
    BY DEF Dispatches
  <2>1. CASE Fail(w, e, c)
    <3>1. NextAttempt(flight[<<w, e, c>>].seen) \in 0..AttemptCap
      BY DEF NextAttempt, Flight
    <3>2. attempts' \in [Events -> 0..AttemptCap]
      BY <2>1, <3>1 DEF Fail
    <3>3. flight' \in [Dispatches -> Flight] /\ awaited' \in SUBSET Dispatches
      BY <2>1, FlightTyping DEF Fail, Resolve, Reject
    <3>4. QED
      BY <2>1, <3>2, <3>3 DEF Fail, Release
  <2>2. CASE FailErrors(w, e, c)
    BY <2>2, FlightTyping DEF FailErrors, Reject
  <2>3. CASE Complete(w, e, c)
    BY <2>3, FlightTyping DEF Complete, Resolve, Release
  <2>4. CASE CompleteIsLost(w, e, c)
    BY <2>4, FlightTyping DEF CompleteIsLost, Resolve
  <2>5. QED
    BY <1>7, <2>1, <2>2, <2>3, <2>4 DEF Record
<1>8. CASE DatabaseCrash
  BY <1>8 DEF DatabaseCrash
<1>9. QED
  BY <1>1, <1>2, <1>3, <1>4, <1>5, <1>6, <1>7, <1>8 DEF Next

\* A flush of the log makes every row's claim durable.
LEMMA Flush == ASSUME FlushLog PROVE \A e \in Events : undo'[e] = Flushed
BY DEF FlushLog

\* One step of the outbox keeps the inductive invariant.
LEMMA Inductive == ASSUME IInv, [Next]_vars PROVE IInv'
<1> USE DEF IInv, FlightIsCommitted, CompletingIsQueued, QueuedIsCommitted,
            LateIsCommitted, PublishedIsQueued, PublishedIsUnlocked, BackoffIsKept
<1> SUFFICES ASSUME TypeOK'
             PROVE  IInv'
  BY Typing
<1> USE DEF TypeOK
<1>1. CASE UNCHANGED vars
  BY <1>1 DEF vars
<1>2. ASSUME NEW e \in Events, Producer(e) PROVE IInv'
  BY <1>2, Flush DEF Producer, Enqueue, Commit, Rollback, Dispatches
<1>3. ASSUME NEW e \in Events, Clock(e) \/ Arrive(e) PROVE IInv'
  BY <1>3, Flush DEF Clock, LeaseRunsOut, BackoffEnds, Arrive
<1>4. ASSUME NEW w \in Workers, ClaimBatch(w) PROVE IInv'
  <2>1. PICK S \in SUBSET Events, c \in Copies : Claim(w, S, c)
    BY <1>4 DEF ClaimBatch, Batches
  <2>2. FlightIsCommitted' /\ CompletingIsQueued'
    BY <2>1 DEF Claim, Eligible, Dispatches
  <2>3. PublishedIsUnlocked' /\ BackoffIsKept'
    BY <2>1 DEF Claim, Eligible
  <2>4. QED
    BY <2>1, <2>2, <2>3 DEF Claim
<1>5. ASSUME NEW w \in Workers, Stop(w) \/ Restart(w) \/ Crash(w) PROVE IInv'
  <2>1. FlightIsCommitted' /\ CompletingIsQueued'
    BY <1>5 DEF Stop, Restart, Crash, Forget, Idle
  <2>2. LateIsCommitted'
    <3>1. \A e \in late' : e \in late \/ \E c \in Copies : flight[<<w, e, c>>].pc # "idle"
      BY <1>5 DEF Stop, Restart, Crash, Forget
    <3>2. \A e \in Events, c \in Copies : flight[<<w, e, c>>].pc # "idle" => tx[e] = "committed"
      <4>1. \A e \in Events, c \in Copies : <<w, e, c>> \in Dispatches /\ <<w, e, c>>[2] = e
        BY DEF Dispatches
      <4> QED  BY <4>1
    <3>3. \A e \in late' : tx[e] = "committed"
      BY <3>1, <3>2
    <3> QED  BY <1>5, <3>3 DEF Stop, Restart, Crash
  <2>3. QED
    BY <1>5, <2>1, <2>2 DEF Stop, Restart, Crash
<1>6. ASSUME NEW w \in Workers, NEW e \in Events, NEW c \in Copies, Send(w, e, c)
      PROVE  IInv'
  <2> DEFINE d == <<w, e, c>>
  <2>0. d \in Dispatches /\ d[2] = e
    BY DEF Dispatches
  <2>1. CASE BuildFails(w, e, c)
    BY <2>1 DEF BuildFails, Reject, Idle
  <2>2. CASE PublishAccepted(w, e, c)
    BY <2>0, <2>2, Flush DEF PublishAccepted, Flight
  <2>3. CASE PublishFails(w, e, c)
    <3>1. tx[e] = "committed" /\ flight[d].pc = "publish"
      BY <2>0, <2>3 DEF PublishFails
    <3>2. FlightIsCommitted' /\ CompletingIsQueued'
      BY <2>0, <2>3, <3>1 DEF PublishFails, Flight
    <3>3. LateIsCommitted'
      BY <2>3, <3>1 DEF PublishFails
    <3>4. QED
      BY <2>3, <3>2, <3>3 DEF PublishFails
  <2>4. QED
    BY <1>6, <2>1, <2>2, <2>3 DEF Send
<1>7. ASSUME NEW w \in Workers, NEW e \in Events, NEW c \in Copies, Record(w, e, c)
      PROVE  IInv'
  <2> DEFINE d == <<w, e, c>>
  <2>0. d \in Dispatches /\ d[2] = e
    BY DEF Dispatches
  <2>1. CASE Fail(w, e, c)
    BY <2>1, Flush DEF Fail, Resolve, Reject, Release, Owns, Idle
  <2>2. CASE FailErrors(w, e, c)
    BY <2>2 DEF FailErrors, Reject, Idle
  <2>3. CASE Complete(w, e, c)
    BY <2>0, <2>3, Flush DEF Complete, Resolve, Release, Owns, Idle
  <2>4. CASE CompleteIsLost(w, e, c)
    BY <2>4 DEF CompleteIsLost, Resolve, Idle
  <2>5. QED
    BY <1>7, <2>1, <2>2, <2>3, <2>4 DEF Record
<1>8. CASE DatabaseCrash
  <2>1. FlightIsCommitted' /\ QueuedIsCommitted'
    BY <1>8 DEF DatabaseCrash, Dispatches
  <2>2. PublishedIsUnlocked' /\ BackoffIsKept'
    BY <1>8, Flush DEF DatabaseCrash
  <2>3. QED
    BY <1>8, <2>1, <2>2 DEF DatabaseCrash
<1>9. QED
  BY <1>1, <1>2, <1>3, <1>4, <1>5, <1>6, <1>7, <1>8 DEF Next

\* The inductive invariant holds in every reachable state of the outbox.
THEOREM Invariance == Spec => []IInv
<1>1. Init => IInv
  BY DEF Init, IInv, TypeOK, FlightIsCommitted, CompletingIsQueued, QueuedIsCommitted,
         LateIsCommitted, PublishedIsQueued, PublishedIsUnlocked, BackoffIsKept, Holders, Idle, Flight
<1>2. IInv /\ [Next]_vars => IInv'
  BY Inductive
<1>3. QED
  BY <1>1, <1>2, PTL DEF Spec

\* Every reachable state of the outbox is well typed (the row columns, the
\* dispatches in flight).
THEOREM TypeCorrect == Spec => []TypeOK
BY Invariance, PTL DEF IInv

\* The check constraint outbox_events_published_lease_check never fires: no
\* completion, late failure, claim or database crash leaves a published row
\* leased.
THEOREM PublishedUnlocked == Spec => []PublishedIsUnlocked
BY Invariance, PTL DEF IInv

\* A row that OutboxRepository.fail has rescheduled is held by nobody until its
\* backoff ends, whatever late dispatches, rival workers and crashes do.
THEOREM BackoffKept == Spec => []BackoffIsKept
BY Invariance, PTL DEF IInv

\* A live lease never passes straight to another live lease, whatever workers
\* claim, fail, crash or recover.
THEOREM LeaseExclusive == Spec => LeaseIsExclusive
<1>1. ASSUME IInv, Next, NEW e \in Events PROVE HandOver(e)
  <2> USE <1>1 DEF IInv, TypeOK, HandOver
  <2>1. ASSUME NEW w \in Workers, ClaimBatch(w) PROVE HandOver(e)
    BY <2>1 DEF ClaimBatch, Batches, Claim, Eligible
  <2>2. CASE DatabaseCrash
    BY <2>2 DEF DatabaseCrash, Holders
  <2>3. ASSUME NEW w \in Workers, NEW f \in Events, NEW c \in Copies, Record(w, f, c)
        PROVE  HandOver(e)
    BY <2>3 DEF Record, Fail, FailErrors, Complete, CompleteIsLost, Release
  <2>4. ASSUME holder' = holder PROVE HandOver(e)
    BY <2>4
  <2>5. QED
    BY <2>1, <2>2, <2>3, <2>4 DEF Next, Producer, Enqueue, Commit, Rollback, Clock,
       LeaseRunsOut, BackoffEnds, Arrive, Stop, Restart, Crash, Send, BuildFails, PublishAccepted,
       PublishFails
<1>2. IInv /\ [Next]_vars => [\A e \in Events : HandOver(e)]_vars
  BY <1>1
<1>3. QED
  BY <1>2, Invariance, PTL DEF LeaseIsExclusive, Spec

\* Every step of the outbox is a step of EventDelivery, or leaves it alone.
LEMMA StepRefines == ASSUME IInv, [Next]_vars PROVE [Delivery!Next]_Delivery!vars
<1> USE DEF IInv, TypeOK, Committed, Delivery!Next, Delivery!vars, Delivery!Store, Delivery!Deliver, Delivery!Retire
<1>1. CASE \E e \in Events : Commit(e)
  <2>1. PICK e \in Events : Commit(e)
    BY <1>1
  <2>2. Committed' = Committed \union {e}
    BY <2>1 DEF Commit
  <2>3. QED
    BY <2>1, <2>2 DEF Commit
<1>2. CASE \E e \in Events : Enqueue(e) \/ Rollback(e)
  <2>1. Committed' = Committed
    BY <1>2 DEF Enqueue, Rollback
  <2>2. QED
    BY <1>2, <2>1 DEF Enqueue, Rollback
<1>3. CASE \E w \in Workers, e \in Events, c \in Copies : Send(w, e, c)
  <2>1. PICK w \in Workers, e \in Events, c \in Copies : Send(w, e, c)
    BY <1>3
  <2>2. e \in Committed
    BY <2>1 DEF Send, BuildFails, PublishAccepted, PublishFails, FlightIsCommitted, Dispatches
  <2>3. Committed' = Committed /\ published' = published
    BY <2>1 DEF Send, BuildFails, PublishAccepted, PublishFails
  <2>4. queue' = queue \/ queue' = queue \union {e}
    BY <2>1 DEF Send, BuildFails, PublishAccepted, PublishFails
  <2>5. QED
    BY <2>2, <2>3, <2>4
<1>4. CASE \E w \in Workers, e \in Events, c \in Copies : Record(w, e, c)
  <2>1. PICK w \in Workers, e \in Events, c \in Copies : Record(w, e, c)
    BY <1>4
  <2>2. Committed' = Committed /\ queue' = queue
    BY <2>1 DEF Record, Fail, FailErrors, Complete, CompleteIsLost
  <2>3. CASE Complete(w, e, c)
    <3>1. e \in queue
      BY <2>3 DEF Complete, CompletingIsQueued, Dispatches
    <3>2. QED
      BY <2>2, <2>3, <3>1 DEF Complete
  <2>4. CASE ~Complete(w, e, c)
    BY <2>1, <2>2, <2>4 DEF Record, Fail, FailErrors, CompleteIsLost
  <2>5. QED
    BY <2>3, <2>4
<1>5. CASE DatabaseCrash
  <2>1. Committed' = Committed
    BY <1>5 DEF DatabaseCrash
  <2>2. QED
    BY <1>5, <2>1 DEF DatabaseCrash
<1>6. CASE \E w \in Workers : ClaimBatch(w) \/ Stop(w) \/ Restart(w) \/ Crash(w)
  BY <1>6 DEF ClaimBatch, Claim, Stop, Restart, Crash
<1>7. CASE \E e \in Events : Clock(e)
  BY <1>7 DEF Clock, LeaseRunsOut, BackoffEnds
<1>8. CASE UNCHANGED vars \/ \E e \in Events : Arrive(e)
  BY <1>8 DEF vars, Arrive, LateIsCommitted
<1>9. QED
  BY <1>1, <1>2, <1>3, <1>4, <1>5, <1>6, <1>7, <1>8 DEF Next, Producer

\* The outbox implements its promise: no row reaches the queue before its
\* producer commits, none is marked published before the queue accepted it,
\* and neither is ever undone, across crashes of workers and of the database.
THEOREM Refinement == Spec => KeepsPromise
<1>1. Init => Delivery!Init
  BY DEF Init, Delivery!Init, Committed
<1>2. IInv /\ [Next]_vars => [Delivery!Next]_Delivery!vars
  BY StepRefines
<1>3. QED
  BY <1>1, <1>2, Invariance, PTL DEF Spec, KeepsPromise, Delivery!Safety

(***************************************************************************)
(* Dispatches and leases.  A dispatch is not fenced by its lease: when the *)
(* lease runs out under it, the row is dispatched twice at the same time,  *)
(* and the later failure writes an older attempt number.  This is what it  *)
(* takes: with leases that last there is one dispatch of a row at a time.  *)
(***************************************************************************)
Busy(d) == flight[d].pc # "idle"

\* No lease runs out while its row is being dispatched, and no crash of the
\* database takes back the claim of such a row (which has not been flushed).
LeasesLast ==
  [][\A e \in Events : Dispatching(e) =>
       ~LeaseRunsOut(e) /\ (DatabaseCrash => undo[e] = Flushed)]_vars

\* Whatever is in flight is in flight once, so no row is sent by two at a time.
OneDispatch == \A d, f \in Dispatches : Busy(d) /\ Busy(f) /\ d[2] = f[2] => d = f

\* A dispatch still has its lease, and the row has the attempt number that
\* the dispatch has seen.
UpToDate(d) ==
  Busy(d) => /\ holder[d[2]] = d[1] /\ d[2] \notin expired
             /\ flight[d].seen = attempts[d[2]]
Current == \A d \in Dispatches : UpToDate(d)

\* The number of failed attempts never falls, so that
\* OUTBOX_DELIVERY_EXHAUSTED is reported when it is due (outbox-dispatcher.ts:48).
AttemptsGrow == [][\A e \in Events : attempts'[e] >= attempts[e]]_vars

\* What a dispatch does at its end concerns only its own row, of which it is
\* the only dispatch.
LEMMA EndKeepsCurrent ==
  ASSUME TypeOK, OneDispatch, Current, NEW w \in Workers, NEW e \in Events, NEW c \in Copies,
         Record(w, e, c)
  PROVE  /\ OneDispatch' /\ Current'
         /\ \A f \in Events : attempts'[f] >= attempts[f]
<1> DEFINE d == <<w, e, c>>
<1>1. d \in Dispatches /\ d[2] = e /\ d[1] = w /\ Busy(d)
  BY DEF Dispatches, Record, Fail, FailErrors, Complete, CompleteIsLost, Busy
<1>2. flight' = [flight EXCEPT ![d] = Idle]
  BY DEF Record, Fail, FailErrors, Complete, CompleteIsLost, Resolve, Reject
<1>3. flight[d].seen = attempts[e] /\ attempts[e] \in 0..AttemptCap
  BY <1>1 DEF Current, UpToDate, TypeOK
<1>4. /\ \A f \in Events : f # e => holder'[f] = holder[f] /\ attempts'[f] = attempts[f]
      /\ \A f \in expired' : f \in expired
  <2>1. CASE Fail(w, e, c)
    <3>1. CASE Owns(w, e)
      BY <2>1, <3>1 DEF Fail, Release, TypeOK
    <3>2. CASE ~Owns(w, e)
      BY <2>1, <3>2 DEF Fail
    <3> QED  BY <3>1, <3>2
  <2>2. CASE Complete(w, e, c)
    BY <2>2 DEF Complete, Release, TypeOK
  <2>3. CASE FailErrors(w, e, c) \/ CompleteIsLost(w, e, c)
    BY <2>3 DEF FailErrors, CompleteIsLost
  <2> QED  BY <2>1, <2>2, <2>3 DEF Record
<1>5. attempts'[e] >= attempts[e] /\ \A f \in Events : attempts[f] \in 0..AttemptCap
  <2>1. \A n \in 0..AttemptCap : NextAttempt(n) >= n /\ n >= n
    BY DEF NextAttempt
  <2>2. attempts' = attempts \/ attempts' = [attempts EXCEPT ![e] = NextAttempt(flight[d].seen)]
    BY DEF Record, Fail, FailErrors, Complete, CompleteIsLost
  <2>3. attempts'[e] = attempts[e] \/ attempts'[e] = NextAttempt(attempts[e])
    BY <1>3, <2>2 DEF TypeOK
  <2> QED  BY <1>3, <2>1, <2>3 DEF TypeOK
<1>6. \A f \in Dispatches : f # d => flight'[f] = flight[f]
  BY <1>2 DEF TypeOK
<1>7. ~Busy(d)'
  BY <1>1, <1>2 DEF TypeOK, Busy, Idle
<1> HIDE DEF d
<1>8. OneDispatch'
  BY <1>6, <1>7 DEF OneDispatch, Busy
<1>9. Current'
  <2> SUFFICES ASSUME NEW f \in Dispatches PROVE UpToDate(f)'
    BY DEF Current
  <2>1. CASE f = d
    BY <1>7, <2>1 DEF UpToDate
  <2>2. CASE f # d
    <3>1. Busy(f)' <=> Busy(f)
      BY <1>6, <2>2 DEF Busy
    <3>2. Busy(f) => f[2] # e
      BY <1>1, <2>2 DEF OneDispatch
    <3>3. f[2] \in Events
      BY DEF Dispatches
    <3> QED  BY <1>4, <1>6, <2>2, <3>1, <3>2, <3>3 DEF Current, UpToDate
  <2> QED  BY <2>1, <2>2
<1>10. \A f \in Events : attempts'[f] >= attempts[f]
  BY <1>4, <1>5
<1> QED  BY <1>8, <1>9, <1>10

LEMMA ClaimKeepsCurrent ==
  ASSUME TypeOK, OneDispatch, Current, NEW w \in Workers, NEW S \in SUBSET Events, NEW c \in Copies,
         Claim(w, S, c)
  PROVE  OneDispatch' /\ Current'
<1> DEFINE New(d) == d[1] = w /\ d[2] \in S /\ d[3] = c
<1>1. \A d \in Dispatches : New(d) => flight'[d].seen = attempts[d[2]]
  BY DEF Claim
<1>2. \A d \in Dispatches : ~New(d) => flight'[d] = flight[d]
  BY DEF Claim
<1>3. ASSUME NEW d \in Dispatches, Busy(d) PROVE d[2] \notin S
  <2>1. holder[d[2]] = d[1] /\ d[2] \notin expired /\ d[1] # NoWorker
    BY <1>3 DEF Current, UpToDate, Dispatches
  <2> QED  BY <2>1 DEF Claim, Eligible
<1>4. \A e \in Events : /\ e \in S => holder'[e] = w /\ e \notin expired'
                        /\ e \notin S => holder'[e] = holder[e]
                        /\ e \in expired' => e \in expired
  BY DEF Claim
<1>5. attempts' = attempts
  BY DEF Claim
<1>6. \A d \in Dispatches : d = <<d[1], d[2], d[3]>> /\ d[2] \in Events
  BY DEF Dispatches
<1>7. ASSUME NEW d \in Dispatches PROVE UpToDate(d)'
  <2>1. CASE New(d)
    <3>1. flight'[d].seen = attempts[d[2]]
      BY <1>1, <2>1
    <3>2. holder'[d[2]] = d[1] /\ d[2] \notin expired'
      BY <1>4, <1>6, <2>1
    <3>3. attempts'[d[2]] = attempts[d[2]]
      BY <1>5
    <3> HIDE DEF New
    <3> QED  BY <3>1, <3>2, <3>3 DEF UpToDate
  <2>2. CASE ~New(d)
    BY <1>2, <1>3, <1>4, <1>5, <1>6, <2>2 DEF UpToDate, Busy, Current
  <2> QED  BY <2>1, <2>2
<1>8. OneDispatch'
  <2> SUFFICES ASSUME NEW d \in Dispatches, NEW f \in Dispatches, Busy(d)', Busy(f)', d[2] = f[2]
               PROVE  d = f
    BY DEF OneDispatch
  <2>1. CASE New(d) /\ New(f)
    BY <1>6, <2>1
  <2>2. CASE ~New(d) /\ ~New(f)
    BY <1>2, <2>2 DEF Busy, OneDispatch
  <2>3. ASSUME NEW g \in Dispatches, NEW h \in Dispatches, New(g), ~New(h), Busy(h)', g[2] = h[2]
        PROVE  FALSE
    BY <1>2, <1>3, <2>3 DEF Busy
  <2> QED  BY <2>1, <2>2, <2>3
<1> QED  BY <1>7, <1>8 DEF Current

LEMMA CurrentStep ==
  ASSUME TypeOK, OneDispatch, Current, [Next]_vars,
         \A e \in Events : Dispatching(e) => ~LeaseRunsOut(e) /\ (DatabaseCrash => undo[e] = Flushed)
  PROVE  OneDispatch' /\ Current' /\ \A e \in Events : attempts'[e] >= attempts[e]
<1>a. \A e \in Events : attempts[e] \in Nat
  BY DEF TypeOK
<1>b. ASSUME NEW d \in Dispatches, Busy(d)
      PROVE  d[2] \in Events /\ Dispatching(d[2]) /\ holder[d[2]] = d[1] /\ d[2] \notin expired
  <2>1. d = <<d[1], d[2], d[3]>> /\ d[1] \in Workers /\ d[2] \in Events /\ d[3] \in Copies
    BY DEF Dispatches
  <2>2. holder[d[2]] = d[1] /\ d[2] \notin expired
    BY <1>b DEF Current, UpToDate
  <2> QED  BY <1>b, <2>1, <2>2 DEF Dispatching, Busy
\* Steps that start no dispatch and change no lease of a row in dispatch.
<1>1. ASSUME attempts' = attempts,
             \A d \in Dispatches : Busy(d)' => Busy(d) /\ flight'[d].seen = flight[d].seen,
             \A d \in Dispatches : Busy(d) =>
               holder'[d[2]] = holder[d[2]] /\ (d[2] \in expired' => d[2] \in expired)
      PROVE  OneDispatch' /\ Current' /\ \A e \in Events : attempts'[e] >= attempts[e]
  <2>1. OneDispatch'
    BY <1>1 DEF OneDispatch
  <2>2. Current'
    BY <1>1 DEF Current, UpToDate
  <2>3. \A e \in Events : attempts'[e] >= attempts[e]
    BY <1>1, <1>a
  <2> QED  BY <2>1, <2>2, <2>3
<1>2. CASE UNCHANGED vars
  BY <1>1, <1>2 DEF vars, Busy
<1>3. CASE \E e \in Events : Producer(e) \/ BackoffEnds(e) \/ Arrive(e)
  BY <1>1, <1>3 DEF Producer, Enqueue, Commit, Rollback, BackoffEnds, Arrive, Busy
<1>4. ASSUME NEW e \in Events, LeaseRunsOut(e)
      PROVE  OneDispatch' /\ Current' /\ \A f \in Events : attempts'[f] >= attempts[f]
  <2>1. \A d \in Dispatches : Busy(d) => d[2] # e
    BY <1>b, <1>4
  <2> QED  BY <1>1, <1>4, <2>1 DEF LeaseRunsOut, Busy
<1>5. ASSUME NEW w \in Workers, ClaimBatch(w)
      PROVE  OneDispatch' /\ Current' /\ \A e \in Events : attempts'[e] >= attempts[e]
  <2>1. PICK S \in SUBSET Events, c \in Copies : Claim(w, S, c)
    BY <1>5 DEF ClaimBatch, Batches
  <2>2. OneDispatch' /\ Current'
    BY <2>1, ClaimKeepsCurrent
  <2>3. attempts' = attempts
    BY <2>1 DEF Claim
  <2> QED  BY <1>a, <2>2, <2>3
<1>6. CASE \E w \in Workers : Stop(w) \/ Restart(w) \/ Crash(w)
  BY <1>1, <1>6 DEF Stop, Restart, Crash, Forget, Busy, Idle
<1>7. ASSUME NEW w \in Workers, NEW e \in Events, NEW c \in Copies, Send(w, e, c)
      PROVE  OneDispatch' /\ Current' /\ \A f \in Events : attempts'[f] >= attempts[f]
  <2> DEFINE d == <<w, e, c>>
  <2>1. d \in Dispatches /\ Busy(d)
    BY <1>7 DEF Send, BuildFails, PublishAccepted, PublishFails, Dispatches, Busy
  <2>2. \/ flight' = [flight EXCEPT ![d] = Idle]
        \/ flight' = [flight EXCEPT ![d].pc = "complete"]
        \/ flight' = [flight EXCEPT ![d].pc = "fail"]
    BY <1>7 DEF Send, BuildFails, PublishAccepted, PublishFails, Reject
  <2>3. attempts' = attempts /\ holder' = holder /\ expired' = expired
    BY <1>7 DEF Send, BuildFails, PublishAccepted, PublishFails
  <2> HIDE DEF d
  <2>4. \A f \in Dispatches : Busy(f)' => Busy(f) /\ flight'[f].seen = flight[f].seen
    BY <2>1, <2>2 DEF TypeOK, Flight, Busy, Idle
  <2> QED  BY <1>1, <2>3, <2>4
<1>8. CASE DatabaseCrash
  <2>1. \A d \in Dispatches : Busy(d) => undo[d[2]] = Flushed /\ d[2] \in Events
    BY <1>b, <1>8
  <2> QED  BY <1>1, <1>8, <2>1 DEF DatabaseCrash, Busy
<1> QED
  BY <1>2, <1>3, <1>4, <1>5, <1>6, <1>7, <1>8, EndKeepsCurrent DEF Next, Clock

\* With leases that last, a row is never dispatched twice at a time, by
\* whatever workers, copies of one worker and restarts, and a dispatch that
\* records its result still owns its row.
THEOREM DispatchedAlone == Spec /\ LeasesLast => [](OneDispatch /\ Current)
<1> DEFINE Last == \A e \in Events : Dispatching(e) =>
                     ~LeaseRunsOut(e) /\ (DatabaseCrash => undo[e] = Flushed)
<1>1. Init => OneDispatch /\ Current
  BY DEF Init, OneDispatch, Current, UpToDate, Busy, Idle
<1>2. IInv /\ OneDispatch /\ Current /\ [Next]_vars /\ [Last]_vars => OneDispatch' /\ Current'
  <2>1. CASE UNCHANGED vars
    BY <2>1 DEF vars, OneDispatch, Current, UpToDate, Busy
  <2>2. CASE ~UNCHANGED vars
    BY <2>2, CurrentStep DEF IInv
  <2> QED  BY <2>1, <2>2
<1> HIDE DEF Last
<1> QED  BY <1>1, <1>2, Invariance, PTL DEF Spec, LeasesLast, Last

\* With leases that last, the number of attempts never falls: a late failure,
\* which writes the number it has read plus one, is the only way back
\* (outbox.repository.ts:53, fail).
THEOREM LateFailuresOnly == Spec /\ LeasesLast => AttemptsGrow
<1> DEFINE Last == \A e \in Events : Dispatching(e) =>
                     ~LeaseRunsOut(e) /\ (DatabaseCrash => undo[e] = Flushed)
<1>1. IInv /\ OneDispatch /\ Current /\ [Next]_vars /\ [Last]_vars =>
        [\A e \in Events : attempts'[e] >= attempts[e]]_vars
  BY CurrentStep DEF IInv
<1> HIDE DEF Last
<1> QED  BY <1>1, Invariance, DispatchedAlone, PTL DEF Spec, LeasesLast, Last, AttemptsGrow
=============================================================================
