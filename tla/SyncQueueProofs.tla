-------------------------- MODULE SyncQueueProofs --------------------------
(***************************************************************************)
(* Theorems of SyncQueue for every set of operations, dependencies, kinds, *)
(* workers and limits.                                                     *)
(***************************************************************************)
EXTENDS SyncQueue, TLAPS

\* What makes a committed command recognisable: its completed key, or, for
\* the commands without a key, the version it has moved.
Recognisable(o) == IF o \in Keyed THEN o \in keys ELSE o \in moved

EffectInv ==
  \A o \in Ops :
    /\ effects[o] <= 1
    /\ effects[o] > 0 => Recognisable(o)
    /\ o \in keys => effects[o] = 1
    /\ status[o] = "applied" => effects[o] = 1 \/ o \in Switches
    /\ \A w \in Workers : At(w, o, "succeeded") => effects[o] = 1 \/ o \in Switches

\* An operation that some worker holds, leased or not, or that has taken
\* effect, has had all its dependencies applied.
Underway(o) ==
  \/ effects[o] > 0
  \/ status[o] \in {"processing", "applied"}
  \/ \E w \in Workers : pc[<<w, o>>] # "none"
DepsApplied(o) == \A d \in Deps[o] : status[d] = "applied"
DepsInv == \A o \in Ops : Underway(o) => DepsApplied(o)

IInv == TypeOK /\ EffectInv /\ DepsInv

\* The properties follow from the inductive invariant.
LEMMA Strong == IInv => AppliedExactlyOnce /\ DependenciesFirst
BY DEF IInv, EffectInv, DepsInv, Underway, DepsApplied, AppliedExactlyOnce, DependenciesFirst

LEMMA InitIInv == Init => IInv
<1> SUFFICES ASSUME Init PROVE IInv
  OBVIOUS
<1>1. TypeOK
  BY LimitsAssumption DEF Init, TypeOK, Statuses, Steps
<1>2. EffectInv
  <2>1. \A w \in Workers, o \in Ops : pc[<<w, o>>] = "none"
    BY DEF Init
  <2> QED  BY <2>1 DEF Init, EffectInv, At
<1>3. DepsInv
  <2>1. \A w \in Workers, o \in Ops : pc[<<w, o>>] = "none"
    BY DEF Init
  <2>2. \A o \in Ops : effects[o] = 0 /\ status[o] = "none"
    BY DEF Init
  <2>3. \A o \in Ops : ~(effects[o] > 0) /\ status[o] \notin {"processing", "applied"}
    BY <2>2
  <2> QED  BY <2>1, <2>3 DEF DepsInv, Underway
<1> QED  BY <1>1, <1>2, <1>3 DEF IInv

\* A step of the worker w at the row o changes nothing but pc.
LEMMA StepShape ==
  ASSUME TypeOK, NEW w \in Workers, NEW o \in Ops,
         Start(w, o) \/ Lookup(w, o) \/ Check(w, o) \/ Transient(w, o)
           \/ MutateWithoutEffect(w, o) \/ FinishFails(w, o) \/ FindTarget(w, o) \/ NoTarget(w, o)
  PROVE  /\ UNCHANGED <<domain, rows>>
         /\ pc[<<w, o>>] # "none"
         /\ \E p \in Steps : /\ pc' = [pc EXCEPT ![<<w, o>>] = p]
                             /\ p = "succeeded" => o \in keys \union Switches
BY DEF TypeOK, Start, Lookup, Check, Transient, MutateWithoutEffect, FinishFails, FindTarget,
       NoTarget, At, Go, FirstStep, Admitted, OnVersionConflict, Steps, Dispatching, Caught, Replays

\* The rows that were terminal before a step keep their status.
LEMMA TerminalKept ==
  ASSUME TypeOK, [Next]_vars
  PROVE  \A o \in Ops : status[o] \in Terminal => status'[o] = status[o]
<1> USE DEF TypeOK, Terminal
<1>1. CASE \E o \in Ops : Receive(o)
  BY <1>1 DEF Receive
<1>2. CASE \E w \in Workers : ClaimBatch(w)
  <2>1. PICK w \in Workers, R \in Batches, S \in Batches : Claim(w, R, S)
    BY <1>2 DEF ClaimBatch
  <2> QED  BY <2>1 DEF Claim, Blocked, Eligible
<1>3. CASE \E w \in Workers, o \in Ops :
             \/ FinishApplied(w, o) \/ RecordConflict(w, o) \/ Refuse(w, o)
             \/ Exhaust(w, o) \/ Retry(w, o)
  BY <1>3 DEF FinishApplied, RecordConflict, Refuse, Exhaust, Retry, Settle, Owns
<1>4. CASE UNCHANGED status
  BY <1>4
<1>5. CASE \E o \in Ops : TargetMoves(o) \/ LeaseRunsOut(o) \/ BackoffEnds(o)
  BY <1>4, <1>5 DEF TargetMoves, LeaseRunsOut, BackoffEnds, rows
<1>6. CASE Deactivate \/ \E w \in Workers : Crash(w)
  BY <1>4, <1>6 DEF Deactivate, Crash, rows
<1>7. CASE \E w \in Workers, o \in Ops : Dispatch(w, o)
  BY <1>4, <1>7
  DEF Dispatch, Start, Lookup, Check, Transient, MutateWithoutEffect, MutateWithEffect, rows
<1>8. CASE \E w \in Workers, o \in Ops :
             FinishFails(w, o) \/ FindTarget(w, o) \/ NoTarget(w, o) \/ Throw(w, o)
  BY <1>4, <1>8 DEF FinishFails, FindTarget, NoTarget, Throw, rows
<1>9. CASE UNCHANGED vars
  BY <1>4, <1>9 DEF vars
<1> QED
  BY <1>1, <1>2, <1>3, <1>5, <1>6, <1>7, <1>8, <1>9 DEF Next, Record

(***************************************************************************)
(* Type correctness.                                                       *)
(***************************************************************************)
LEMMA TypeStep == TypeOK /\ [Next]_vars => TypeOK'
<1> SUFFICES ASSUME TypeOK, [Next]_vars PROVE TypeOK'
  OBVIOUS
<1> USE DEF TypeOK, Statuses, Terminal
<1>1. CASE UNCHANGED vars
  BY <1>1 DEF vars
<1>2. CASE \E o \in Ops : Receive(o) \/ TargetMoves(o) \/ LeaseRunsOut(o) \/ BackoffEnds(o)
  BY <1>2 DEF Receive, TargetMoves, LeaseRunsOut, BackoffEnds, domain, rows
<1>3. CASE Deactivate
  BY <1>3 DEF Deactivate, rows
<1>4. CASE \E w \in Workers : ClaimBatch(w)
  <2>1. PICK w \in Workers, R \in Batches, S \in Batches : Claim(w, R, S)
    BY <1>4 DEF ClaimBatch
  <2>2. attempts' \in [Ops -> 0..MaxAttempts]
    BY <2>1, LimitsAssumption DEF Claim, NextAttempt
  <2> QED  BY <2>1, <2>2 DEF Claim, Steps, domain
<1>5. CASE \E w \in Workers : DropBatch(w) /\ UNCHANGED <<domain, rows>>
  BY <1>5 DEF DropBatch, Steps, domain, rows
<1>6. ASSUME NEW w \in Workers, NEW o \in Ops, MutateWithEffect(w, o)
      PROVE  TypeOK'
  BY <1>6 DEF MutateWithEffect, Go, Steps, Dispatching, Caught, rows, Keyed, Versioned
<1>7. ASSUME NEW w \in Workers, NEW o \in Ops,
             \/ Start(w, o) \/ Lookup(w, o) \/ Check(w, o) \/ Transient(w, o)
             \/ MutateWithoutEffect(w, o) \/ FinishFails(w, o) \/ FindTarget(w, o) \/ NoTarget(w, o)
      PROVE  TypeOK'
  BY <1>7, StepShape DEF domain, rows
<1>8. ASSUME NEW w \in Workers, NEW o \in Ops,
             FinishApplied(w, o) \/ RecordConflict(w, o) \/ Refuse(w, o) \/ Exhaust(w, o)
      PROVE  TypeOK'
  BY <1>8
  DEF FinishApplied, RecordConflict, Refuse, Exhaust, Settle, Released, Go, DropBatch, Steps, Caught,
      domain
<1>9. ASSUME NEW w \in Workers, NEW o \in Ops, Retry(w, o)
      PROVE  TypeOK'
  BY <1>9 DEF Retry, Released, Go, DropBatch, Steps, domain
<1> QED
  BY <1>1, <1>2, <1>3, <1>4, <1>5, <1>6, <1>7, <1>8, <1>9 DEF Next, Dispatch, Record, Crash, Throw

(***************************************************************************)
(* The effect of a command, its key and its version.                       *)
(***************************************************************************)
LEMMA EffectStep == IInv /\ [Next]_vars => EffectInv'
<1> SUFFICES ASSUME IInv, [Next]_vars PROVE EffectInv'
  OBVIOUS
<1> USE DEF IInv, TypeOK, EffectInv, Recognisable, At
<1>1. CASE UNCHANGED vars
  BY <1>1 DEF vars
<1>2. CASE \E o \in Ops : Receive(o) \/ TargetMoves(o) \/ LeaseRunsOut(o) \/ BackoffEnds(o)
  BY <1>2 DEF Receive, TargetMoves, LeaseRunsOut, BackoffEnds, domain, rows
<1>3. CASE Deactivate
  BY <1>3 DEF Deactivate, rows
<1>4. CASE \E w \in Workers : ClaimBatch(w)
  <2>1. PICK w \in Workers, R \in Batches, S \in Batches : Claim(w, R, S)
    BY <1>4 DEF ClaimBatch
  <2>2. \A o \in Ops : status'[o] = "applied" => status[o] = "applied"
    BY <2>1 DEF Claim
  <2>3. \A v \in Workers, o \in Ops : pc'[<<v, o>>] \in {"queued", pc[<<v, o>>]}
    BY <2>1 DEF Claim
  <2> QED  BY <2>1, <2>2, <2>3 DEF Claim, domain
<1>5. CASE \E w \in Workers : DropBatch(w) /\ UNCHANGED <<domain, rows>>
  BY <1>5 DEF DropBatch, domain, rows
<1>6. ASSUME NEW w \in Workers, NEW o \in Ops, MutateWithEffect(w, o)
      PROVE  EffectInv'
  <2>1. effects[o] = 0
    BY <1>6 DEF MutateWithEffect, Replays, Moved, Keyed, Versioned
  <2>2. effects' = [effects EXCEPT ![o] = 1]
    BY <1>6, <2>1 DEF MutateWithEffect
  <2>3. (o \in Keyed => o \in keys') /\ (o \notin Keyed => o \in moved')
    BY <1>6, KindAssumption DEF MutateWithEffect, Keyed, Versioned
  <2>4. keys \subseteq keys' /\ keys' \subseteq keys \union {o} /\ moved \subseteq moved'
    BY <1>6 DEF MutateWithEffect
  <2>5. \A v \in Workers, p \in Ops : p # o => pc'[<<v, p>>] = pc[<<v, p>>]
    BY <1>6 DEF MutateWithEffect, Go
  <2> QED  BY <1>6, <2>2, <2>3, <2>4, <2>5 DEF MutateWithEffect, rows
<1>7. ASSUME NEW w \in Workers, NEW o \in Ops,
             \/ Start(w, o) \/ Lookup(w, o) \/ Check(w, o) \/ Transient(w, o)
             \/ MutateWithoutEffect(w, o) \/ FinishFails(w, o) \/ FindTarget(w, o) \/ NoTarget(w, o)
      PROVE  EffectInv'
  <2>1. UNCHANGED <<domain, rows>>
    BY <1>7, StepShape
  <2>2. PICK p \in Steps : /\ pc' = [pc EXCEPT ![<<w, o>>] = p]
                           /\ p = "succeeded" => o \in keys \union Switches
    BY <1>7, StepShape
  <2>3. \A v \in Workers, q \in Ops :
          pc'[<<v, q>>] = "succeeded" => pc[<<v, q>>] = "succeeded" \/ q \in keys \union Switches
    <3>1. pc'[<<w, o>>] = p
      BY <2>2
    <3>2. \A v \in Workers, q \in Ops : v # w \/ q # o => pc'[<<v, q>>] = pc[<<v, q>>]
      BY <2>2
    <3> QED  BY <2>2, <3>1, <3>2
  <2> QED  BY <2>1, <2>3 DEF domain, rows
<1>8. ASSUME NEW w \in Workers, NEW o \in Ops,
             \/ FinishApplied(w, o) \/ RecordConflict(w, o) \/ Refuse(w, o)
             \/ Exhaust(w, o) \/ Retry(w, o)
      PROVE  EffectInv'
  <2> USE DEF FinishApplied, RecordConflict, Refuse, Exhaust, Retry, Settle
  <2>1. UNCHANGED domain
    BY <1>8
  <2>2. \A p \in Ops : status'[p] = "applied" => status[p] = "applied" \/ effects[p] = 1 \/ p \in Switches
    BY <1>8
  <2>3. \A v \in Workers, p \in Ops : pc'[<<v, p>>] \in {"none", "failed", pc[<<v, p>>]}
    BY <1>8 DEF Go, DropBatch
  <2> QED  BY <2>1, <2>2, <2>3 DEF domain
<1> QED
  BY <1>1, <1>2, <1>3, <1>4, <1>5, <1>6, <1>7, <1>8 DEF Next, Dispatch, Record, Crash, Throw

(***************************************************************************)
(* Dependencies.  A step that makes an operation underway is a claim; a    *)
(* dependency that is applied stays so.                                    *)
(***************************************************************************)
LEMMA NewlyUnderway ==
  ASSUME TypeOK, [Next]_vars, NEW o \in Ops, Underway(o)'
  PROVE  Underway(o) \/ DepsApplied(o)
<1> USE DEF TypeOK, Underway
<1>1. CASE UNCHANGED vars
  BY <1>1 DEF vars
<1>2. CASE \E q \in Ops : Receive(q) \/ TargetMoves(q) \/ LeaseRunsOut(q) \/ BackoffEnds(q)
  BY <1>2 DEF Receive, TargetMoves, LeaseRunsOut, BackoffEnds, domain, rows
<1>3. CASE Deactivate
  BY <1>3 DEF Deactivate, rows
<1>4. CASE \E w \in Workers : ClaimBatch(w)
  <2>1. PICK w \in Workers, R \in Batches, S \in Batches : Claim(w, R, S)
    BY <1>4 DEF ClaimBatch
  <2>2. CASE o \in S
    BY <2>1, <2>2 DEF Claim, Eligible, DepsApplied
  <2>3. CASE o \notin S
    <3>1. effects'[o] = effects[o] /\ status'[o] \in {"rejected", status[o]}
      BY <2>1, <2>3 DEF Claim, domain
    <3>2. \A v \in Workers : pc'[<<v, o>>] = pc[<<v, o>>]
      BY <2>1, <2>3 DEF Claim
    <3> QED  BY <3>1, <3>2
  <2> QED  BY <2>2, <2>3
<1>5. CASE \E w \in Workers : DropBatch(w) /\ UNCHANGED <<domain, rows>>
  BY <1>5 DEF DropBatch, domain, rows
<1>6. ASSUME NEW w \in Workers, NEW q \in Ops,
             \/ Dispatch(w, q)
             \/ FinishApplied(w, q) \/ FinishFails(w, q) \/ RecordConflict(w, q)
             \/ FindTarget(w, q) \/ NoTarget(w, q) \/ Refuse(w, q) \/ Exhaust(w, q) \/ Retry(w, q)
      PROVE  Underway(o) \/ DepsApplied(o)
  <2> USE DEF Dispatch, Start, Lookup, Check, Transient, MutateWithoutEffect, MutateWithEffect,
              FinishApplied, FinishFails, RecordConflict, FindTarget, NoTarget, Refuse,
              Exhaust, Retry, Settle
  <2>1. pc[<<w, q>>] # "none"
    BY <1>6 DEF At, Dispatching
  <2>2. \A v \in Workers : q # o => pc'[<<v, o>>] \in {"none", pc[<<v, o>>]}
    BY <1>6 DEF Admitted, Go, DropBatch
  <2>3. q # o => effects'[o] = effects[o] /\ status'[o] = status[o]
    BY <1>6 DEF domain, rows
  <2> QED  BY <2>1, <2>2, <2>3
<1> QED
  BY <1>1, <1>2, <1>3, <1>4, <1>5, <1>6 DEF Next, Record, Crash, Throw

LEMMA DepsStep == IInv /\ [Next]_vars => DepsInv'
<1> SUFFICES ASSUME IInv, [Next]_vars, NEW o \in Ops, Underway(o)'
             PROVE  DepsApplied(o)'
  BY DEF DepsInv
<1>1. DepsApplied(o)
  BY NewlyUnderway DEF IInv, DepsInv
<1> QED  BY <1>1, TerminalKept, OpsAssumption DEF IInv, DepsApplied, Terminal

(***************************************************************************)
(* Workers that are left alone: a row is never leased to another worker    *)
(* while its holder is still at work on it.  That is so with one worker,   *)
(* and with any number of them when no lease is shorter than the work.     *)
(***************************************************************************)
Takeover(v, w, o) == v # w /\ lease[o] = v /\ pc[<<v, o>>] # "none" /\ lease'[o] = w
NoTakeover == [][\A v, w \in Workers, o \in Ops : ~Takeover(v, w, o)]_vars

\* MASARIFI_SYNC_LEASE_SECONDS is enough: no lease runs out under a worker.
LeasesSuffice == [][\A o \in Ops : Held(o) => ~LeaseRunsOut(o)]_vars

\* A worker owns every row it is at work on, but for the one it has reported
\* applied without hearing the answer.
Holds(w, o) ==
  pc[<<w, o>>] # "none" => Owns(w, o) \/ (At(w, o, "failed") /\ status[o] = "applied")
Holding == \A w \in Workers, o \in Ops : Holds(w, o)

\* The lease of such a row has not run out.
HeldInTime == \A o \in Ops : Held(o) => o \notin expired

LEMMA HoldingInit == Init => Holding /\ HeldInTime
BY DEF Init, Holding, Holds, HeldInTime, Held

LEMMA HoldingStep ==
  ASSUME TypeOK, Holding, [Next]_vars, \A v, w \in Workers, o \in Ops : ~Takeover(v, w, o)
  PROVE  Holding'
<1> SUFFICES ASSUME NEW v \in Workers, NEW p \in Ops, pc'[<<v, p>>] # "none"
             PROVE  \/ status'[p] = "processing" /\ lease'[p] = v
                    \/ pc'[<<v, p>>] = "failed" /\ status'[p] = "applied"
  BY DEF Holding, Holds, Owns, At
<1> DEFINE Goal == \/ status'[p] = "processing" /\ lease'[p] = v
                   \/ pc'[<<v, p>>] = "failed" /\ status'[p] = "applied"
<1>a. ASSUME pc[<<v, p>>] # "none"
      PROVE  \/ status[p] = "processing" /\ lease[p] = v
             \/ pc[<<v, p>>] = "failed" /\ status[p] = "applied"
  BY <1>a DEF Holding, Holds, Owns, At
<1>1. ASSUME UNCHANGED <<status, lease>>, pc'[<<v, p>>] = pc[<<v, p>>]
      PROVE  Goal
  BY <1>1, <1>a
<1>2. CASE \E o \in Ops : Receive(o)
  BY <1>2, <1>a DEF Receive, TypeOK
<1>3. CASE \E o \in Ops : TargetMoves(o) \/ LeaseRunsOut(o) \/ BackoffEnds(o)
  BY <1>3, <1>1 DEF TargetMoves, LeaseRunsOut, BackoffEnds, rows
<1>4. CASE Deactivate \/ UNCHANGED vars
  BY <1>4, <1>1 DEF Deactivate, rows, vars
<1>5. CASE \E w \in Workers : ClaimBatch(w)
  <2>1. PICK w \in Workers, R \in Batches, S \in Batches : Claim(w, R, S)
    BY <1>5 DEF ClaimBatch
  <2>2. /\ pc'[<<v, p>>] = IF v = w /\ p \in S THEN "queued" ELSE pc[<<v, p>>]
        /\ status'[p] = IF p \in R THEN "rejected" ELSE IF p \in S THEN "processing" ELSE status[p]
        /\ lease'[p] = IF p \in S THEN w ELSE lease[p]
        /\ pc[<<w, p>>] = "none"
        /\ p \in R => status[p] = "received"
        /\ p \in S => status[p] = "received" \/ (status[p] = "processing" /\ p \in expired)
    BY <2>1 DEF Claim, Blocked, Eligible
  <2>3. CASE v = w
    <3>1. p \in S
      BY <2>2, <2>3
    <3>2. p \notin R
      BY <2>1, <3>1 DEF Claim, Blocked, Eligible, TypeOK
    <3> QED  BY <2>2, <2>3, <3>1, <3>2
  <2>4. CASE v # w
    <3>1. pc'[<<v, p>>] = pc[<<v, p>>] /\ pc[<<v, p>>] # "none" /\ p \notin R
      BY <1>a, <2>2, <2>4
    <3>2. p \notin S
      BY <1>a, <2>2, <2>4, <3>1 DEF Takeover
    <3> QED  BY <1>a, <2>2, <3>1, <3>2
  <2> QED  BY <2>3, <2>4
<1>6. CASE \E w \in Workers : DropBatch(w) /\ UNCHANGED <<domain, rows>>
  <2>1. UNCHANGED <<status, lease>> /\ pc'[<<v, p>>] = pc[<<v, p>>]
    BY <1>6 DEF DropBatch, rows
  <2> QED  BY <1>1, <2>1
<1>7. ASSUME NEW w \in Workers, NEW o \in Ops,
             \/ Start(w, o) \/ Lookup(w, o) \/ Check(w, o) \/ Transient(w, o)
             \/ MutateWithoutEffect(w, o) \/ MutateWithEffect(w, o)
             \/ FinishFails(w, o) \/ FindTarget(w, o) \/ NoTarget(w, o)
      PROVE  Goal
  <2>1. /\ UNCHANGED <<status, lease>>
        /\ <<v, p>> # <<w, o>> => pc'[<<v, p>>] = pc[<<v, p>>]
    BY <1>7 DEF Start, Lookup, Check, Transient, MutateWithoutEffect, MutateWithEffect,
                FinishFails, FindTarget, NoTarget, Admitted, Go, rows, TypeOK
  <2>2. pc[<<w, o>>] # "none" /\ pc[<<w, o>>] # "failed"
    BY <1>7 DEF Start, Lookup, Check, Transient, MutateWithoutEffect, MutateWithEffect,
                FinishFails, FindTarget, NoTarget, At, Dispatching
  <2>3. CASE v = w /\ p = o
    BY <1>a, <2>1, <2>2, <2>3
  <2>4. CASE <<v, p>> # <<w, o>>
    BY <1>1, <2>1, <2>4
  <2> QED  BY <2>3, <2>4
<1>8. ASSUME NEW w \in Workers, NEW o \in Ops,
             \/ FinishApplied(w, o) \/ RecordConflict(w, o) \/ Refuse(w, o)
             \/ Exhaust(w, o) \/ Retry(w, o)
      PROVE  Goal
  <2> USE DEF FinishApplied, RecordConflict, Refuse, Exhaust, Retry, Settle
  <2>1. /\ status[o] = "processing" /\ lease[o] = w
        /\ p # o => status'[p] = status[p] /\ lease'[p] = lease[p]
    BY <1>8 DEF Owns, Released, TypeOK
  <2>2. pc'[<<v, p>>] = pc[<<v, p>>] \/ (v = w /\ p = o)
    BY <1>8 DEF Go, DropBatch, TypeOK
  <2>3. CASE v = w /\ p = o
    BY <1>8, <2>3 DEF Go, DropBatch, TypeOK
  <2>4. CASE pc'[<<v, p>>] = pc[<<v, p>>] /\ ~(v = w /\ p = o)
    BY <1>a, <2>1, <2>4
  <2> QED  BY <2>2, <2>3, <2>4
<1> QED
  BY <1>2, <1>3, <1>4, <1>5, <1>6, <1>7, <1>8 DEF Next, Dispatch, Record, Crash, Throw

\* Of workers left alone, only one is at a row that is not settled.
LEMMA HolderIsAlone ==
  ASSUME Holding, NEW v \in Workers, NEW w \in Workers, NEW o \in Ops,
         pc[<<v, o>>] \notin {"none", "failed"}, pc[<<w, o>>] # "none"
  PROVE  v = w
BY DEF Holding, Holds, Owns, At
LEMMA InTimeStep ==
  ASSUME TypeOK, HeldInTime, [Next]_vars, \A o \in Ops : Held(o) => ~LeaseRunsOut(o)
  PROVE  HeldInTime'
<1> SUFFICES ASSUME NEW p \in Ops, NEW v \in Workers, lease'[p] = v, pc'[<<v, p>>] # "none"
             PROVE  p \notin expired'
  BY DEF HeldInTime, Held
<1>1. ASSUME lease[p] = v, pc[<<v, p>>] # "none"
      PROVE  p \notin expired
  BY <1>1 DEF HeldInTime, Held
<1>2. ASSUME expired' \subseteq expired, lease'[p] \in {lease[p], NoWorker},
             pc[<<v, p>>] = "none" => pc'[<<v, p>>] = "none"
      PROVE  p \notin expired'
  BY <1>1, <1>2, NoWorkerAssumption
<1>3. ASSUME NEW o \in Ops, LeaseRunsOut(o)
      PROVE  p \notin expired'
  <2>1. lease[p] = v /\ pc[<<v, p>>] # "none" /\ expired' = expired \union {o}
    BY <1>3 DEF LeaseRunsOut
  <2>2. p # o
    BY <1>3, <2>1 DEF Held
  <2> QED  BY <1>1, <2>1, <2>2
<1>4. CASE \E o \in Ops : Receive(o) \/ TargetMoves(o) \/ BackoffEnds(o)
  BY <1>4, <1>2 DEF Receive, TargetMoves, BackoffEnds, rows
<1>5. CASE Deactivate \/ UNCHANGED vars
  BY <1>5, <1>2 DEF Deactivate, rows, vars
<1>6. CASE \E w \in Workers : ClaimBatch(w)
  <2>1. PICK w \in Workers, R \in Batches, S \in Batches : Claim(w, R, S)
    BY <1>6 DEF ClaimBatch
  <2>2. CASE p \in S
    BY <2>1, <2>2 DEF Claim
  <2>3. CASE p \notin S
    <3>1. lease'[p] = lease[p] /\ pc'[<<v, p>>] = pc[<<v, p>>] /\ expired' \subseteq expired
      BY <2>1, <2>3 DEF Claim
    <3> QED  BY <1>2, <3>1
  <2> QED  BY <2>2, <2>3
<1>7. CASE \E w \in Workers : DropBatch(w) /\ UNCHANGED <<domain, rows>>
  BY <1>7, <1>2 DEF DropBatch, rows
<1>8. ASSUME NEW w \in Workers, NEW o \in Ops,
             \/ Start(w, o) \/ Lookup(w, o) \/ Check(w, o) \/ Transient(w, o)
             \/ MutateWithoutEffect(w, o) \/ MutateWithEffect(w, o)
             \/ FinishFails(w, o) \/ FindTarget(w, o) \/ NoTarget(w, o)
      PROVE  p \notin expired'
  <2>1. UNCHANGED <<lease, expired>> /\ pc[<<w, o>>] # "none"
    BY <1>8 DEF Start, Lookup, Check, Transient, MutateWithoutEffect, MutateWithEffect,
                FinishFails, FindTarget, NoTarget, At, Dispatching, rows
  <2>2. <<v, p>> # <<w, o>> => pc'[<<v, p>>] = pc[<<v, p>>]
    BY <1>8 DEF Start, Lookup, Check, Transient, MutateWithoutEffect, MutateWithEffect,
                FinishFails, FindTarget, NoTarget, Admitted, Go, TypeOK
  <2> QED  BY <1>2, <2>1, <2>2
<1>9. ASSUME NEW w \in Workers, NEW o \in Ops,
             \/ FinishApplied(w, o) \/ RecordConflict(w, o) \/ Refuse(w, o)
             \/ Exhaust(w, o) \/ Retry(w, o)
      PROVE  p \notin expired'
  <2> USE DEF FinishApplied, RecordConflict, Refuse, Exhaust, Retry, Settle
  <2>1. lease'[p] \in {lease[p], NoWorker} /\ expired' \subseteq expired
    BY <1>9 DEF Released, TypeOK
  <2>2. pc[<<w, o>>] # "none"
    BY <1>9 DEF At
  <2>3. <<v, p>> # <<w, o>> => pc'[<<v, p>>] \in {"none", pc[<<v, p>>]}
    BY <1>9 DEF Go, DropBatch, TypeOK
  <2> QED  BY <1>2, <2>1, <2>2, <2>3
<1> QED
  BY <1>3, <1>4, <1>5, <1>6, <1>7, <1>8, <1>9 DEF Next, Dispatch, Record, Crash, Throw

\* A row whose lease has not run out is not taken over.
LEMMA InTimeIsAlone ==
  ASSUME TypeOK, Holding, HeldInTime, [Next]_vars,
         NEW v \in Workers, NEW w \in Workers, NEW o \in Ops
  PROVE  ~Takeover(v, w, o)
<1> SUFFICES ASSUME v # w, lease[o] = v, pc[<<v, o>>] # "none", lease'[o] = w PROVE FALSE
  BY DEF Takeover
<1>1. lease'[o] \notin {lease[o], NoWorker}
  BY NoWorkerAssumption
<1>2. o \notin expired /\ status[o] # "received"
  BY DEF HeldInTime, Held, Holding, Holds, Owns
<1>3. ASSUME NEW u \in Workers, ClaimBatch(u)
      PROVE  FALSE
  <2>1. PICK R \in Batches, S \in Batches : Claim(u, R, S)
    BY <1>3 DEF ClaimBatch
  <2>2. o \in S
    BY <1>1, <2>1 DEF Claim
  <2> QED  BY <1>2, <2>1, <2>2 DEF Claim, Eligible
<1>4. CASE \E p \in Ops : Receive(p) \/ TargetMoves(p) \/ LeaseRunsOut(p) \/ BackoffEnds(p)
  BY <1>1, <1>4 DEF Receive, TargetMoves, LeaseRunsOut, BackoffEnds, rows
<1>5. CASE Deactivate \/ UNCHANGED vars
  BY <1>1, <1>5 DEF Deactivate, rows, vars
<1>6. CASE \E u \in Workers : DropBatch(u) /\ UNCHANGED <<domain, rows>>
  BY <1>1, <1>6 DEF rows
<1>7. ASSUME NEW u \in Workers, NEW p \in Ops,
             \/ Start(u, p) \/ Lookup(u, p) \/ Check(u, p) \/ Transient(u, p)
             \/ MutateWithoutEffect(u, p) \/ MutateWithEffect(u, p)
             \/ FinishFails(u, p) \/ FindTarget(u, p) \/ NoTarget(u, p)
      PROVE  FALSE
  BY <1>1, <1>7 DEF Start, Lookup, Check, Transient, MutateWithoutEffect, MutateWithEffect,
                    FinishFails, FindTarget, NoTarget, rows
<1>8. ASSUME NEW u \in Workers, NEW p \in Ops,
             \/ FinishApplied(u, p) \/ RecordConflict(u, p) \/ Refuse(u, p)
             \/ Exhaust(u, p) \/ Retry(u, p)
      PROVE  FALSE
  BY <1>1, <1>8 DEF FinishApplied, RecordConflict, Refuse, Exhaust, Retry, Settle, Released, TypeOK
<1> QED
  BY <1>3, <1>4, <1>5, <1>6, <1>7, <1>8 DEF Next, Dispatch, Record, Crash, Throw
(***************************************************************************)
(* Replays.  Where workers are left alone, a command with a key that has   *)
(* passed the lookup, or was refused for its version or target, has not    *)
(* committed: nobody else can commit it in the meantime.  Only such a      *)
(* command is ever recorded as a conflict.                                 *)
(***************************************************************************)
FreshAt(w, o) ==
  /\ pc[<<w, o>>] \in {"check", "outdated", "targeted", "unlisted"} /\ o \in Keyed => effects[o] = 0
  /\ pc[<<w, o>>] \in {"lookup", "check", "outdated", "targeted"} => o \in Keyed
  /\ pc[<<w, o>>] = "refused" /\ active => effects[o] = 0
  /\ o \in Invalid => effects[o] = 0 /\ pc[<<w, o>>] \notin Dispatching
Fresh == \A w \in Workers, o \in Ops : FreshAt(w, o)

LEMMA FreshStep ==
  ASSUME IInv, Holding, Fresh, [Next]_vars
  PROVE  Fresh'
<1> SUFFICES ASSUME NEW v \in Workers, NEW p \in Ops PROVE FreshAt(v, p)'
  BY DEF Fresh
<1> USE DEF IInv, TypeOK, EffectInv, At
<1>0. FreshAt(v, p)
  BY DEF Fresh
<1>a. ASSUME effects'[p] = effects[p], active' => active,
             pc'[<<v, p>>] \in {"none", "queued", "succeeded", "failed", pc[<<v, p>>]}
      PROVE  FreshAt(v, p)'
  BY <1>0, <1>a DEF FreshAt, Dispatching
\* A command that is about to run and finds neither its key completed nor its
\* target moved has not committed.
<1>b. \A o \in Ops : ~Replays(o) /\ (o \in Keyed \/ ~Moved(o)) => effects[o] = 0
  BY KindAssumption DEF Recognisable, Replays, Moved, Keyed, Versioned
<1>2. CASE \E o \in Ops : Receive(o) \/ TargetMoves(o) \/ LeaseRunsOut(o) \/ BackoffEnds(o)
  BY <1>a, <1>2 DEF Receive, TargetMoves, LeaseRunsOut, BackoffEnds, domain, rows
<1>3. CASE Deactivate
  BY <1>a, <1>3 DEF Deactivate, rows
<1>4. CASE \E w \in Workers : ClaimBatch(w)
  <2>1. PICK w \in Workers, R \in Batches, S \in Batches : Claim(w, R, S)
    BY <1>4 DEF ClaimBatch
  <2>2. pc'[<<v, p>>] \in {"queued", pc[<<v, p>>]}
    BY <2>1 DEF Claim
  <2> QED  BY <1>a, <2>1, <2>2 DEF Claim, domain
<1>5. CASE \E w \in Workers : DropBatch(w) /\ UNCHANGED <<domain, rows>>
  BY <1>a, <1>5 DEF DropBatch, domain, rows
<1>6. ASSUME NEW w \in Workers, NEW o \in Ops, MutateWithEffect(w, o)
      PROVE  FreshAt(v, p)'
  <2>1. /\ pc[<<w, o>>] = "mutate" /\ pc'[<<w, o>>] \in {"succeeded", "failed"}
        /\ \A u \in Workers, q \in Ops : <<u, q>> # <<w, o>> => pc'[<<u, q>>] = pc[<<u, q>>]
        /\ \A q \in Ops : q # o => effects'[q] = effects[q]
        /\ UNCHANGED active
    BY <1>6 DEF MutateWithEffect, Go
  <2>2. CASE p # o
    BY <1>a, <2>1, <2>2
  <2>3. CASE p = o
    <3>1. v # w => pc[<<v, o>>] \in {"none", "failed"}
      BY <2>1, HolderIsAlone
    <3>2. pc'[<<v, o>>] \in {"none", "succeeded", "failed"}
      BY <2>1, <3>1
    <3>3. FreshAt(w, o)
      BY DEF Fresh
    <3> QED  BY <2>1, <2>3, <3>2, <3>3 DEF FreshAt, Dispatching
  <2> QED  BY <2>2, <2>3
<1>7. ASSUME NEW w \in Workers, NEW o \in Ops,
             \/ Start(w, o) \/ Lookup(w, o) \/ Check(w, o) \/ Transient(w, o)
             \/ MutateWithoutEffect(w, o) \/ FinishFails(w, o) \/ FindTarget(w, o) \/ NoTarget(w, o)
      PROVE  FreshAt(v, p)'
  <2>1. UNCHANGED <<domain, rows>> /\ \E q \in Steps : pc' = [pc EXCEPT ![<<w, o>>] = q]
    BY <1>7, StepShape
  <2>2. UNCHANGED <<effects, active>>
    BY <2>1 DEF domain
  <2>3. CASE <<v, p>> # <<w, o>>
    BY <1>a, <2>1, <2>2, <2>3
  <2>4. CASE v = w /\ p = o
    <3> USE <1>0, <2>2, <2>4 DEF FreshAt, Go, Dispatching
    <3>1. CASE Start(w, o)
      BY <3>1 DEF Start, FirstStep, LookedUp, Keyed
    <3>2. CASE Lookup(w, o)
      BY <1>b, <3>2 DEF Lookup, Admitted, Replays
    <3>3. CASE Check(w, o)
      BY <3>3 DEF Check, Admitted
    <3>4. CASE MutateWithoutEffect(w, o)
      <4>1. ~Replays(o) /\ (o \in Keyed \/ ~Moved(o)) => effects[o] = 0
        BY <1>b
      <4>2. /\ OnVersionConflict(o) \in {"refused", "outdated"} => o \in Keyed
            /\ OnVersionConflict(o) \in {"refused", "outdated", "unlisted"}
        BY DEF OnVersionConflict, Keyed
      <4> QED  BY <3>4, <4>1, <4>2 DEF MutateWithoutEffect
    <3>5. CASE Transient(w, o) \/ FinishFails(w, o) \/ FindTarget(w, o) \/ NoTarget(w, o)
      BY <3>5 DEF Transient, FinishFails, FindTarget, NoTarget
    <3> QED  BY <1>7, <3>1, <3>2, <3>3, <3>4, <3>5
  <2> QED  BY <2>3, <2>4
<1>8. ASSUME NEW w \in Workers, NEW o \in Ops,
             \/ FinishApplied(w, o) \/ RecordConflict(w, o) \/ Refuse(w, o)
             \/ Exhaust(w, o) \/ Retry(w, o)
      PROVE  FreshAt(v, p)'
  <2> USE DEF FinishApplied, RecordConflict, Refuse, Exhaust, Retry, Settle
  <2>1. pc'[<<v, p>>] \in {"none", "failed", pc[<<v, p>>]}
    BY <1>8 DEF Go, DropBatch
  <2> QED  BY <1>a, <1>8, <2>1 DEF domain
<1>9. CASE UNCHANGED vars
  BY <1>a, <1>9 DEF vars
<1> QED
  BY <1>2, <1>3, <1>4, <1>5, <1>6, <1>7, <1>8, <1>9 DEF Next, Dispatch, Record, Crash, Throw

\* A conflict is recorded for a command that has not committed, and nobody is
\* at its row any more.
LEMMA ConflictStep ==
  ASSUME IInv, Holding, Fresh, ConflictHasNoEffect, [Next]_vars
  PROVE  ConflictHasNoEffect'
<1> SUFFICES ASSUME NEW p \in Ops, status'[p] = "conflict" PROVE effects'[p] = 0
  BY DEF ConflictHasNoEffect
<1> USE DEF IInv, TypeOK
<1>1. ASSUME status[p] = "conflict", effects'[p] = effects[p]
      PROVE  effects'[p] = 0
  BY <1>1 DEF ConflictHasNoEffect
<1>2. CASE \E o \in Ops : Receive(o) \/ TargetMoves(o) \/ LeaseRunsOut(o) \/ BackoffEnds(o)
  BY <1>1, <1>2 DEF Receive, TargetMoves, LeaseRunsOut, BackoffEnds, domain, rows
<1>3. CASE Deactivate \/ UNCHANGED vars
  BY <1>1, <1>3 DEF Deactivate, rows, vars
<1>4. CASE \E w \in Workers : ClaimBatch(w)
  BY <1>1, <1>4 DEF ClaimBatch, Claim, domain
<1>5. CASE \E w \in Workers : DropBatch(w) /\ UNCHANGED <<domain, rows>>
  BY <1>1, <1>5 DEF domain, rows
<1>6. ASSUME NEW w \in Workers, NEW o \in Ops, MutateWithEffect(w, o)
      PROVE  effects'[p] = 0
  <2>1. pc[<<w, o>>] = "mutate" /\ UNCHANGED status
    BY <1>6 DEF MutateWithEffect, At, rows
  <2>2. status[o] = "processing"
    BY <2>1 DEF Holding, Holds, Owns, At
  <2>3. p # o => effects'[p] = effects[p]
    BY <1>6 DEF MutateWithEffect
  <2> QED  BY <1>1, <2>1, <2>2, <2>3
<1>7. ASSUME NEW w \in Workers, NEW o \in Ops,
             \/ Start(w, o) \/ Lookup(w, o) \/ Check(w, o) \/ Transient(w, o)
             \/ MutateWithoutEffect(w, o) \/ FinishFails(w, o) \/ FindTarget(w, o) \/ NoTarget(w, o)
      PROVE  effects'[p] = 0
  BY <1>1, <1>7, StepShape DEF domain, rows
<1>8. ASSUME NEW w \in Workers, NEW o \in Ops,
             FinishApplied(w, o) \/ Refuse(w, o) \/ Exhaust(w, o) \/ Retry(w, o)
      PROVE  effects'[p] = 0
  BY <1>1, <1>8 DEF FinishApplied, Refuse, Exhaust, Retry, Settle, domain
<1>9. ASSUME NEW w \in Workers, NEW o \in Ops, RecordConflict(w, o)
      PROVE  effects'[p] = 0
  <2>1. pc[<<w, o>>] = "targeted" /\ UNCHANGED effects /\ (p # o => status'[p] = status[p])
    BY <1>9 DEF RecordConflict, Settle, At, domain
  <2>2. FreshAt(w, o) /\ ~(o \notin Keyed /\ pc[<<w, o>>] = "targeted")
    BY DEF Fresh, FreshAt
  <2>3. effects[o] = 0
    BY <2>1, <2>2 DEF FreshAt
  <2> QED  BY <1>1, <2>1, <2>3
<1> QED
  BY <1>2, <1>3, <1>4, <1>5, <1>6, <1>7, <1>8, <1>9 DEF Next, Dispatch, Record, Crash, Throw

\* A command is recorded as rejected when it has not committed, when its
\* attempts are used up or when its user is gone; nobody is at its row any more.
LEMMA RejectStep ==
  ASSUME IInv, Holding, Fresh, RejectedHasNoEffect, [Next]_vars
  PROVE  RejectedHasNoEffect'
<1> SUFFICES ASSUME NEW p \in Ops, status'[p] = "rejected", effects'[p] > 0, active'
             PROVE  attempts'[p] >= MaxAttempts
  BY DEF RejectedHasNoEffect
<1> USE DEF IInv, TypeOK
<1>1. ASSUME status[p] = "rejected", effects'[p] = effects[p], active, attempts'[p] = attempts[p]
      PROVE  attempts'[p] >= MaxAttempts
  BY <1>1 DEF RejectedHasNoEffect
<1>2. CASE \E o \in Ops : Receive(o) \/ TargetMoves(o) \/ LeaseRunsOut(o) \/ BackoffEnds(o)
  BY <1>1, <1>2 DEF Receive, TargetMoves, LeaseRunsOut, BackoffEnds, domain, rows
<1>3. CASE Deactivate \/ UNCHANGED vars
  BY <1>1, <1>3 DEF Deactivate, rows, vars
<1>4. CASE \E w \in Workers : ClaimBatch(w)
  <2>1. PICK w \in Workers, R \in Batches, S \in Batches : Claim(w, R, S)
    BY <1>4 DEF ClaimBatch
  <2>2. CASE p \in R
    <3>1. effects[p] > 0 /\ Blocked(p)
      BY <2>1, <2>2 DEF Claim, domain
    <3>2. \A d \in Deps[p] : status[d] = "applied"
      BY <3>1 DEF DepsInv, Underway, DepsApplied
    <3> QED  BY <3>1, <3>2 DEF Blocked
  <2>3. CASE p \notin R
    <3>1. p \notin S /\ status[p] = "rejected"
      BY <2>1, <2>3 DEF Claim
    <3> QED  BY <1>1, <2>1, <3>1 DEF Claim, domain
  <2> QED  BY <2>2, <2>3
<1>5. CASE \E w \in Workers : DropBatch(w) /\ UNCHANGED <<domain, rows>>
  BY <1>1, <1>5 DEF domain, rows
<1>6. ASSUME NEW w \in Workers, NEW o \in Ops, MutateWithEffect(w, o)
      PROVE  attempts'[p] >= MaxAttempts
  <2>1. pc[<<w, o>>] = "mutate" /\ UNCHANGED <<active, status, attempts>>
    BY <1>6 DEF MutateWithEffect, At, rows
  <2>2. status[o] = "processing"
    BY <2>1 DEF Holding, Holds, Owns, At
  <2>3. p # o /\ effects'[p] = effects[p]
    BY <1>6, <2>1, <2>2 DEF MutateWithEffect
  <2> QED  BY <1>1, <2>1, <2>3
<1>7. ASSUME NEW w \in Workers, NEW o \in Ops,
             \/ Start(w, o) \/ Lookup(w, o) \/ Check(w, o) \/ Transient(w, o)
             \/ MutateWithoutEffect(w, o) \/ FinishFails(w, o) \/ FindTarget(w, o) \/ NoTarget(w, o)
      PROVE  attempts'[p] >= MaxAttempts
  BY <1>1, <1>7, StepShape DEF domain, rows
<1>8. ASSUME NEW w \in Workers, NEW o \in Ops,
             \/ FinishApplied(w, o) \/ RecordConflict(w, o) \/ Refuse(w, o)
             \/ Exhaust(w, o) \/ Retry(w, o)
      PROVE  attempts'[p] >= MaxAttempts
  <2> USE DEF FinishApplied, RecordConflict, Refuse, Exhaust, Retry, Settle
  <2>1. UNCHANGED <<active, effects, attempts>>
    BY <1>8 DEF domain
  <2>2. CASE status[p] = "rejected"
    BY <1>1, <2>1, <2>2
  <2>3. CASE status[p] # "rejected"
    <3>1. p = o /\ (Refuse(w, o) \/ Exhaust(w, o))
      BY <1>8, <2>3
    <3>2. CASE Refuse(w, o)
      BY <2>1, <3>1, <3>2 DEF At, Fresh, FreshAt
    <3>3. CASE Exhaust(w, o)
      BY <2>1, <3>1, <3>3 DEF IsLast
    <3> QED  BY <3>1, <3>2, <3>3
  <2> QED  BY <2>2, <2>3
<1> QED
  BY <1>2, <1>3, <1>4, <1>5, <1>6, <1>7, <1>8 DEF Next, Dispatch, Record, Crash, Throw

(***************************************************************************)
(* The theorems.                                                           *)
(***************************************************************************)
LEMMA Inductive == Spec => []IInv
<1>1. IInv /\ [Next]_vars => IInv'
  BY TypeStep, EffectStep, DepsStep DEF IInv
<1> QED  BY <1>1, InitIInv, PTL DEF Spec

\* Every reachable state is well typed.
THEOREM TypeCorrect == Spec => []TypeOK
BY Inductive, PTL DEF IInv

\* No lease expiry, crash, lost reply or race makes a command of
\* sync.handlers.ts commit twice, or an operation applied without its effect.
THEOREM ExactlyOnce == Spec => []AppliedExactlyOnce
BY Inductive, Strong, PTL

\* No command of sync.handlers.ts takes effect before its dependencies.
THEOREM Dependencies == Spec => []DependenciesFirst
BY Inductive, Strong, PTL

\* No late worker changes a terminal row (complete_client_mutation,
\* retry_client_mutation, claim_client_mutations).
THEOREM Final == Spec => TerminalIsFinal
<1>1. IInv /\ [Next]_vars => [\A o \in Ops : status[o] \in Terminal => status'[o] = status[o]]_vars
  BY TerminalKept DEF IInv
<1> QED  BY <1>1, Inductive, PTL DEF Spec, TerminalIsFinal

\* Where workers are left alone, replays are recognised, and what is reported
\* as a conflict or as rejected is so for what it did.
LEMMA AloneInductive ==
  Spec /\ NoTakeover => [](Holding /\ Fresh /\ ConflictHasNoEffect /\ RejectedHasNoEffect)
<1> DEFINE Alone == \A v, w \in Workers, o \in Ops : ~Takeover(v, w, o)
<1>1. Init => Holding /\ Fresh /\ ConflictHasNoEffect /\ RejectedHasNoEffect
  BY HoldingInit DEF Init, Fresh, FreshAt, Dispatching, ConflictHasNoEffect, RejectedHasNoEffect
<1>2. /\ IInv /\ Holding /\ Fresh /\ ConflictHasNoEffect /\ RejectedHasNoEffect
      /\ [Next]_vars /\ [Alone]_vars
      => Holding' /\ Fresh' /\ ConflictHasNoEffect' /\ RejectedHasNoEffect'
  <2>1. ASSUME UNCHANGED vars, NEW v \in Workers, NEW w \in Workers, NEW o \in Ops
        PROVE  ~Takeover(v, w, o)
    BY <2>1 DEF vars, Takeover
  <2> QED  BY <2>1, HoldingStep, FreshStep, ConflictStep, RejectStep DEF IInv
<1> HIDE DEF Alone
<1> QED  BY <1>1, <1>2, Inductive, PTL DEF Spec, NoTakeover, Alone

\* Leases that suffice leave the workers alone.
LEMMA LeasesLeaveAlone == Spec /\ LeasesSuffice => NoTakeover
<1> DEFINE Alone == \A v, w \in Workers, o \in Ops : ~Takeover(v, w, o)
           Suffices == \A o \in Ops : Held(o) => ~LeaseRunsOut(o)
<1>1. IInv /\ Holding /\ HeldInTime /\ [Next]_vars /\ [Suffices]_vars =>
        Holding' /\ HeldInTime' /\ [Alone]_vars
  <2>1. ASSUME UNCHANGED vars, NEW o \in Ops
        PROVE  ~LeaseRunsOut(o)
    BY <2>1 DEF vars, LeaseRunsOut
  <2> QED  BY <2>1, HoldingStep, InTimeStep, InTimeIsAlone DEF IInv
<1> HIDE DEF Alone, Suffices
<1> QED  BY <1>1, HoldingInit, Inductive, PTL DEF Spec, NoTakeover, LeasesSuffice, Alone, Suffices

LEMMA OneIsAlone ==
  ASSUME \A v, w \in Workers : v = w
  PROVE  Spec => NoTakeover
<1> DEFINE Alone == \A v, w \in Workers, o \in Ops : ~Takeover(v, w, o)
<1>1. Alone
  BY DEF Takeover
<1> QED  BY <1>1, PTL DEF NoTakeover, Alone

\* With one worker, a command of sync.handlers.ts with a key that has committed
\* is never refused for its version or its target when it is replayed,
\* whatever answers are lost and however often the worker crashes.
THEOREM Replayed ==
  ASSUME \A v, w \in Workers : v = w
  PROVE  Spec => []ReplayIsRecognised
<1>1. Fresh => ReplayIsRecognised
  BY DEF Fresh, FreshAt, ReplayIsRecognised, Keyed
<1> QED  BY <1>1, OneIsAlone, AloneInductive, PTL

\* The same for any number of workers, as long as no lease runs out under a
\* worker: crashes, lost answers and racing claims do no harm.  (Where a lease
\* does run out, the key can be completed between lookup and check.)
THEOREM ReplayedInTime == Spec /\ LeasesSuffice => []ReplayIsRecognised
<1>1. Fresh => ReplayIsRecognised
  BY DEF Fresh, FreshAt, ReplayIsRecognised, Keyed
<1> QED  BY <1>1, LeasesLeaveAlone, AloneInductive, PTL

\* What is reported as a conflict has had no effect, with one worker ...
THEOREM ConflictsAlone ==
  ASSUME \A v, w \in Workers : v = w
  PROVE  Spec => []ConflictHasNoEffect
BY OneIsAlone, AloneInductive, PTL

\* ... and with any number of them as long as no lease runs out under a
\* worker: the run sync_race, which violates it, needs such a lease.
THEOREM ConflictsInTime == Spec /\ LeasesSuffice => []ConflictHasNoEffect
BY LeasesLeaveAlone, AloneInductive, PTL

\* What is reported as rejected has had no effect, unless its attempts were
\* used up or its user deactivated (SyncWorker's catch block, permanent() and
\* the blocked rows of claim_client_mutations): with one worker ...
THEOREM RejectedAlone ==
  ASSUME \A v, w \in Workers : v = w
  PROVE  Spec => []RejectedHasNoEffect
BY OneIsAlone, AloneInductive, PTL

\* ... and with any number of them as long as no lease runs out under a worker.
THEOREM RejectedInTime == Spec /\ LeasesSuffice => []RejectedHasNoEffect
BY LeasesLeaveAlone, AloneInductive, PTL

=============================================================================
