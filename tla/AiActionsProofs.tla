-------------------------- MODULE AiActionsProofs --------------------------
(***************************************************************************)
(* Theorems of AiActions for every set of sessions, messages, workers,     *)
(* calls and keys, and every bound.                                        *)
(***************************************************************************)
EXTENDS AiActions, FiniteSetTheorems, TLAPS

(***************************************************************************)
(* The inductive invariant.                                                *)
(***************************************************************************)
\* A worker that still owns its claim works on a row in progress; what it is
\* about to delete belongs to a row that is finished or too old.
WorkingOn(p) ==
  LET r == work[run[p].item] IN
  run[p].pc # "idle" =>
    /\ run[p].item \in Work
    /\ run[p].pc \in {"claimed", "asked", "failing"} /\ r.holder = p => r.status = "processing"
    /\ run[p].pc = "erase" => r.status = "done"
    /\ run[p].pc = "purging" => r.old \/ r.status \in {"done", "failed"}
Working == \A p \in Workers : WorkingOn(p)

\* A proposal is part of a result.
Prepared == \A w \in Work : proposal[w].status # "none" => results[w] # 0

\* A call in progress acts for the operation that confirmed.
CallingFor(c) ==
  LET q == proposal[call[c].item] IN
  call[c].pc # "idle" =>
    /\ call[c].item \in Work /\ call[c].op \in Keys /\ call[c].version \in Versions
    /\ q.status \in Approved /\ q.op = call[c].op
Calling == \A c \in Calls : CallingFor(c)

\* All that has been executed was executed for that operation, and once.
ExecutedFor(w) ==
  /\ \A e \in effects[w] : e[1] = proposal[w].op
  /\ effects[w] # {} => proposal[w].status \in Approved
  /\ proposal[w].status = "executed" => proposal[w].resource \in effects[w]
  /\ w \notin Goals => \A e, f \in effects[w] : e = f
Executing == \A w \in Work : ExecutedFor(w)

IInv == TypeOK /\ DoneHasResult /\ Working /\ Prepared /\ Calling /\ Executing

LEMMA Initially == Init => IInv
<1> SUFFICES ASSUME Init PROVE IInv
  OBVIOUS
<1>1. TypeOK
  <2>1. work \in [Work -> Row] /\ results \in [Work -> Nat]
    BY BoundsAssumption DEF Init, Row
  <2>2. run \in [Workers -> Run] /\ call \in [Calls -> Call]
    BY BoundsAssumption DEF Init, Resting, NoCall, Run, Call, Versions
  <2>3. proposal \in [Work -> Proposal] /\ effects \in [Work -> SUBSET Effects]
    BY BoundsAssumption DEF Init, NoProposal, Proposal, Approved, Decided, Versions
  <2> QED  BY <2>1, <2>2, <2>3 DEF Init, TypeOK
<1>2. DoneHasResult /\ Prepared
  BY DEF Init, DoneHasResult, Prepared, NoProposal
<1>3. Working /\ Calling
  BY DEF Init, Working, WorkingOn, Calling, CallingFor, Resting, NoCall
<1>4. Executing
  BY DEF Init, Executing, ExecutedFor, NoProposal
<1> QED  BY <1>1, <1>2, <1>3, <1>4 DEF IInv

(***************************************************************************)
(* Steps on the rows of work.                                              *)
(***************************************************************************)
\* The steps of the owner before there is a result, and the clock.
RowStep ==
  \/ \E v \in Voice : CreateVoiceSession(v) \/ Upload(v) \/ FinalizeVoiceSession(v)
  \/ \E m \in Messages : EnqueueMessage(m) \/ CancelMessage(m)
  \/ Grant \/ Revoke
  \/ \E w \in Work : Clock(w)

\* Everything a worker does but Save.
QuietWorkerStep ==
  \E p \in Workers :
    \/ \E w \in Work : Claim(p, w)
    \/ Ask(p) \/ CompleteWork(p) \/ Crash(p) \/ CompletePurge(p)
    \/ \E retry \in BOOLEAN : Error(p, retry)
    \/ \E works \in BOOLEAN : Erase(p, works) \/ Purge(p, works)
    \/ \E v \in Voice : ClaimPurge(p, v)

\* A message that is stored with its answer.
AnswerStep == \E m \in Messages : SaveDeterministicMessage(m)

SaveStep == \E p \in Workers, proposes, lost \in BOOLEAN : Save(p, proposes, lost)

DecisionStep ==
  \/ \E c \in Calls : CallStep(c)
  \/ \E w \in Work : Reject(w) \/ ProposalClock(w) \/ Expire(w)

LEMMA Steps ==
  [Next]_vars => RowStep \/ AnswerStep \/ QuietWorkerStep \/ SaveStep \/ DecisionStep \/ UNCHANGED vars
BY DEF Next, WorkerStep, OwnerStep, RowStep, AnswerStep, QuietWorkerStep, SaveStep, DecisionStep

\* What a step does to a row it does not finish: rows in progress stay with their
\* worker or leave it, and finished rows stay finished.
\* What becomes of a row nobody has worked off: it stays with its worker or
\* leaves it, and its end is not this step's.
Carried(r, q) ==
  /\ r.status = "done" <=> q.status = "done"
  /\ r.status = "failed" => q.status = "failed"
  /\ r.old => q.old
  /\ q.holder # None => q.holder = r.holder /\ (r.status = "processing" => q.status = "processing")

LEMMA OneRow ==
  ASSUME TypeOK, NEW x \in Work, NEW r \in Row, work' = [work EXCEPT ![x] = r]
  PROVE  work' \in [Work -> Row] /\ work'[x] = r /\ \A w \in Work : w # x => work'[w] = work[w]
BY DEF TypeOK

LEMMA RowSteps ==
  ASSUME IInv, RowStep
  PROVE  /\ work' \in [Work -> Row] /\ recorded' \subseteq Voice /\ consent' \in BOOLEAN
         /\ UNCHANGED <<results, run, proposal, call, effects>>
         /\ \A w \in Work : Carried(work[w], work'[w])
<1>1. Voice \subseteq Work /\ Messages \subseteq Work /\ TypeOK
  BY DEF Work, IInv
<1>2. \A r \in Row : Carried(r, r)
  BY DEF Carried
<1>3. ASSUME NEW x \in Work, NEW r \in Row, Carried(work[x], r), work' = [work EXCEPT ![x] = r]
      PROVE  work' \in [Work -> Row] /\ \A w \in Work : Carried(work[w], work'[w])
  BY <1>1, <1>2, <1>3, OneRow DEF TypeOK
<1>4. ASSUME NEW v \in Voice, CreateVoiceSession(v)
      PROVE  work' \in [Work -> Row] /\ \A w \in Work : Carried(work[w], work'[w])
  <2> DEFINE r == [work[v] EXCEPT !.status = "created", !.ref = TRUE]
  <2>1. work' = [work EXCEPT ![v] = r] /\ v \in Work /\ work[v] \in Row /\ work[v].status = "none"
    BY <1>1, <1>4 DEF CreateVoiceSession, TypeOK
  <2>2. r \in Row /\ Carried(work[v], r)
    BY <2>1 DEF Row, Carried
  <2> QED  BY <1>3, <2>1, <2>2
<1>5. ASSUME NEW v \in Voice, FinalizeVoiceSession(v)
      PROVE  work' \in [Work -> Row] /\ \A w \in Work : Carried(work[w], work'[w])
  <2> DEFINE r == [work[v] EXCEPT !.status = "queued", !.due = TRUE]
  <2>1. work' = [work EXCEPT ![v] = r] /\ v \in Work /\ work[v] \in Row /\ work[v].status \in {"created", "queued"}
    BY <1>1, <1>5 DEF FinalizeVoiceSession, TypeOK
  <2>2. r \in Row /\ Carried(work[v], r)
    BY <2>1 DEF Row, Carried
  <2> QED  BY <1>3, <2>1, <2>2
<1>6. ASSUME NEW m \in Messages, EnqueueMessage(m)
      PROVE  work' \in [Work -> Row] /\ \A w \in Work : Carried(work[w], work'[w])
  <2> DEFINE r == [work[m] EXCEPT !.status = "queued"]
  <2>1. work' = [work EXCEPT ![m] = r] /\ m \in Work /\ work[m] \in Row /\ work[m].status = "none"
    BY <1>1, <1>6 DEF EnqueueMessage, TypeOK
  <2>2. r \in Row /\ Carried(work[m], r)
    BY <2>1 DEF Row, Carried
  <2> QED  BY <1>3, <2>1, <2>2
<1>7. \A w \in Work : work[w].status \in {"queued", "processing"} =>
        Withdrawn(work[w]) \in Row /\ Carried(work[w], Withdrawn(work[w]))
  <2> SUFFICES ASSUME NEW w \in Work, work[w].status \in {"queued", "processing"}
               PROVE  Withdrawn(work[w]) \in Row /\ Carried(work[w], Withdrawn(work[w]))
    OBVIOUS
  <2>1. work[w] \in Row
    BY <1>1 DEF TypeOK
  <2> QED  BY <2>1 DEF Withdrawn, Row, Carried
<1>8. ASSUME NEW m \in Messages, CancelMessage(m)
      PROVE  work' \in [Work -> Row] /\ \A w \in Work : Carried(work[w], work'[w])
  BY <1>1, <1>3, <1>7, <1>8 DEF CancelMessage
<1>9. ASSUME Revoke
      PROVE  work' \in [Work -> Row] /\ \A w \in Work : Carried(work[w], work'[w])
  BY <1>1, <1>2, <1>7, <1>9 DEF Revoke, TypeOK
<1>10. ASSUME NEW x \in Work, Clock(x)
       PROVE  work' \in [Work -> Row] /\ \A w \in Work : Carried(work[w], work'[w])
  <2>1. work[x] \in Row
    BY <1>1 DEF TypeOK
  <2>2. \/ work' = [work EXCEPT ![x] = [work[x] EXCEPT !.live = FALSE]]
        \/ work' = [work EXCEPT ![x] = [work[x] EXCEPT !.due = TRUE]]
        \/ work' = [work EXCEPT ![x] = [work[x] EXCEPT !.old = TRUE]]
    BY <1>1, <1>10 DEF Clock, TypeOK
  <2>3. [work[x] EXCEPT !.live = FALSE] \in Row /\ Carried(work[x], [work[x] EXCEPT !.live = FALSE])
    BY <2>1 DEF Row, Carried
  <2>4. [work[x] EXCEPT !.due = TRUE] \in Row /\ Carried(work[x], [work[x] EXCEPT !.due = TRUE])
    BY <2>1 DEF Row, Carried
  <2>5. [work[x] EXCEPT !.old = TRUE] \in Row /\ Carried(work[x], [work[x] EXCEPT !.old = TRUE])
    BY <2>1 DEF Row, Carried
  <2> QED  BY <1>3, <2>2, <2>3, <2>4, <2>5
<1>11. ASSUME work' = work
       PROVE  work' \in [Work -> Row] /\ \A w \in Work : Carried(work[w], work'[w])
  BY <1>1, <1>2, <1>11 DEF TypeOK
<1>12. work' \in [Work -> Row] /\ \A w \in Work : Carried(work[w], work'[w])
  BY <1>4, <1>5, <1>6, <1>8, <1>9, <1>10, <1>11 DEF RowStep, Upload, Grant
<1>13. UNCHANGED <<results, run, proposal, call, effects>>
  BY DEF RowStep, CreateVoiceSession, Upload, FinalizeVoiceSession, EnqueueMessage, CancelMessage,
         Grant, Revoke, Clock, Owner
<1>14. recorded' \subseteq Voice /\ consent' \in BOOLEAN
  BY <1>1 DEF TypeOK, RowStep, CreateVoiceSession, Upload, FinalizeVoiceSession, EnqueueMessage,
              CancelMessage, Grant, Revoke, Clock
<1> QED  BY <1>12, <1>13, <1>14

LEMMA RowStepsKeep ==
  ASSUME IInv, RowStep
  PROVE  IInv'
<1>1. /\ work' \in [Work -> Row] /\ recorded' \subseteq Voice /\ consent' \in BOOLEAN
      /\ UNCHANGED <<results, run, proposal, call, effects>>
      /\ \A w \in Work : Carried(work[w], work'[w])
  BY RowSteps
<1>2. TypeOK'
  BY <1>1 DEF IInv, TypeOK
<1>3. DoneHasResult'
  BY <1>1 DEF IInv, DoneHasResult, Carried
<1>4. Working'
  <2> SUFFICES ASSUME NEW p \in Workers PROVE WorkingOn(p)'
    BY DEF Working
  <2>1. WorkingOn(p) /\ p # None
    BY NoneAssumption DEF IInv, Working
  <2> QED  BY <1>1, <2>1 DEF WorkingOn, Carried
<1>5. Prepared' /\ Calling' /\ Executing'
  BY <1>1 DEF IInv, Prepared, Calling, CallingFor, Executing, ExecutedFor
<1> QED  BY <1>2, <1>3, <1>4, <1>5 DEF IInv

LEMMA AnswerKeeps ==
  ASSUME IInv, NEW m \in Messages, SaveDeterministicMessage(m)
  PROVE  IInv'
<1> DEFINE r == [work[m] EXCEPT !.status = "done"]
<1>1. m \in Work /\ TypeOK /\ m \notin Voice
  BY WorkAssumption DEF Work, IInv
<1>2. /\ work' = [work EXCEPT ![m] = r] /\ work[m] \in Row /\ work[m].status = "none"
      /\ results' = [results EXCEPT ![m] = results[m] + 1]
      /\ UNCHANGED <<recorded, consent, run, proposal, call, effects>>
  BY <1>1 DEF SaveDeterministicMessage, TypeOK, Owner
<1>3. results[m] = 0
  BY <1>1, <1>2 DEF IInv, DoneHasResult
<1>4. r \in Row /\ r.status = "done" /\ r.holder = work[m].holder /\ r.old = work[m].old
  BY <1>2 DEF Row
<1> HIDE DEF r
<1>5. work' \in [Work -> Row] /\ work'[m] = r /\ \A w \in Work : w # m => work'[w] = work[w]
  BY <1>1, <1>2, <1>4, OneRow
<1>6. results' \in [Work -> Nat] /\ results'[m] = 1 /\ \A w \in Work : w # m => results'[w] = results[w]
  BY <1>1, <1>2, <1>3 DEF TypeOK
<1>7. TypeOK' /\ DoneHasResult'
  BY <1>2, <1>4, <1>5, <1>6 DEF IInv, TypeOK, DoneHasResult
<1>8. Working'
  <2> SUFFICES ASSUME NEW p \in Workers PROVE WorkingOn(p)'
    BY DEF Working
  <2>1. WorkingOn(p)
    BY DEF IInv, Working
  <2> QED  BY <1>2, <1>4, <1>5, <2>1 DEF WorkingOn
<1>9. Prepared'
  BY <1>2, <1>6 DEF IInv, Prepared
<1>10. Calling' /\ Executing'
  BY <1>2 DEF IInv, Calling, CallingFor, Executing, ExecutedFor
<1> QED  BY <1>7, <1>8, <1>9, <1>10 DEF IInv

(***************************************************************************)
(* Steps of a worker.                                                      *)
(***************************************************************************)
\* Worker p may take the row or leave it, and does not finish it well.
Handled(p, r, q) ==
  /\ r.status = "done" <=> q.status = "done"
  /\ r.status = "failed" => q.status = "failed"
  /\ r.old => q.old
  /\ q.holder \notin {p, None} => q.holder = r.holder /\ q.status = r.status

LEMMA WorkerKeeps ==
  ASSUME IInv, NEW p \in Workers, NEW x \in Work, NEW r \in Row, NEW n \in Run,
         work' = [work EXCEPT ![x] = r], run' = [run EXCEPT ![p] = n],
         Handled(p, work[x], r), WorkingOn(p)', recorded' \subseteq Voice,
         UNCHANGED <<results, consent, proposal, call, effects>>
  PROVE  IInv'
<1>1. work' \in [Work -> Row] /\ work'[x] = r /\ \A w \in Work : w # x => work'[w] = work[w]
  BY OneRow DEF IInv
<1>2. run' \in [Workers -> Run] /\ \A q \in Workers : q # p => run'[q] = run[q]
  BY DEF IInv, TypeOK
<1>3. TypeOK'
  BY <1>1, <1>2 DEF IInv, TypeOK
<1>4. DoneHasResult'
  BY <1>1 DEF IInv, DoneHasResult, Handled
<1>5. Working'
  <2> SUFFICES ASSUME NEW q \in Workers PROVE WorkingOn(q)'
    BY DEF Working
  <2>1. CASE q = p
    BY <2>1
  <2>2. CASE q # p
    <3>1. WorkingOn(q) /\ q # None /\ run'[q] = run[q]
      BY <1>2, <2>2, NoneAssumption DEF IInv, Working
    <3>2. CASE run[q].item = x
      BY <1>1, <2>2, <3>1, <3>2 DEF WorkingOn, Handled
    <3>3. CASE run[q].item # x
      BY <1>1, <3>1, <3>3 DEF WorkingOn
    <3> QED  BY <3>2, <3>3
  <2> QED  BY <2>1, <2>2
<1>6. Prepared' /\ Calling' /\ Executing'
  BY DEF IInv, Prepared, Calling, CallingFor, Executing, ExecutedFor
<1> QED  BY <1>3, <1>4, <1>5, <1>6 DEF IInv

\* The same for a step that leaves the rows alone.
LEMMA WorkerMoves ==
  ASSUME IInv, NEW p \in Workers, NEW n \in Run, run[p].pc # "idle",
         work' = work, run' = [run EXCEPT ![p] = n],
         WorkingOn(p)', recorded' \subseteq Voice,
         UNCHANGED <<results, consent, proposal, call, effects>>
  PROVE  IInv'
<1> DEFINE x == run[p].item
<1>1. x \in Work
  BY DEF IInv, Working, WorkingOn
<1>2. work[x] \in Row /\ work' = [work EXCEPT ![x] = work[x]] /\ Handled(p, work[x], work[x])
  BY <1>1 DEF IInv, TypeOK, Handled
<1> QED  BY <1>1, <1>2, WorkerKeeps

LEMMA QuietWorkerStepsKeep ==
  ASSUME IInv, NEW p \in Workers,
         \/ \E w \in Work : Claim(p, w)
         \/ Ask(p) \/ CompleteWork(p) \/ Crash(p) \/ CompletePurge(p)
         \/ \E retry \in BOOLEAN : Error(p, retry)
         \/ \E works \in BOOLEAN : Erase(p, works) \/ Purge(p, works)
         \/ \E v \in Voice : ClaimPurge(p, v)
  PROVE  IInv'
<1>1. run[p] \in Run /\ WorkingOn(p) /\ Voice \subseteq Work /\ TypeOK /\ Resting \in Run /\ p # None
  BY NoneAssumption, BoundsAssumption DEF IInv, Working, TypeOK, Work, Resting, Run
<1>2. ASSUME NEW w \in Work, Claim(p, w) PROVE IInv'
  <2> DEFINE r == [work[w] EXCEPT !.status = "processing", !.holder = p, !.live = TRUE, !.attempts = @ + 1]
             n == [pc |-> "claimed", item |-> w, attempt |-> work[w].attempts + 1, retry |-> FALSE]
  <2>1. /\ work' = [work EXCEPT ![w] = r] /\ run' = [run EXCEPT ![p] = n]
        /\ work[w] \in Row /\ work[w].status \in {"queued", "processing"} /\ work[w].attempts < AttemptCap
        /\ UNCHANGED <<recorded, results, consent, proposal, call, effects>>
    BY <1>1, <1>2 DEF Claim, Claimable, TypeOK, Owner
  <2>2. work[w].attempts + 1 \in 0..AttemptCap
    BY <2>1, BoundsAssumption DEF Row
  <2>3. r \in Row /\ n \in Run /\ Handled(p, work[w], r)
    BY <2>1, <2>2 DEF Row, Run, Handled
  <2>4. r.status = "processing" /\ n.pc = "claimed" /\ n.item = w
    BY <2>1 DEF Row
  <2>5. work'[w] = r /\ run'[p] = n /\ recorded' \subseteq Voice
    BY <1>1, <2>1 DEF TypeOK
  <2> HIDE DEF r, n
  <2>6. WorkingOn(p)'
    BY <2>4, <2>5 DEF WorkingOn
  <2> QED  BY <2>1, <2>3, <2>5, <2>6, WorkerKeeps
<1>3. ASSUME NEW v \in Voice, ClaimPurge(p, v) PROVE IInv'
  <2> DEFINE r == [work[v] EXCEPT !.holder = p, !.live = TRUE]
             n == [Resting EXCEPT !.pc = "purging", !.item = v]
  <2>1. /\ work' = [work EXCEPT ![v] = r] /\ run' = [run EXCEPT ![p] = n]
        /\ v \in Work /\ work[v] \in Row /\ (work[v].old \/ work[v].status \in {"done", "failed"})
        /\ UNCHANGED <<recorded, results, consent, proposal, call, effects>>
    BY <1>1, <1>3 DEF ClaimPurge, Purgeable, TypeOK, Owner
  <2>2. r \in Row /\ n \in Run /\ Handled(p, work[v], r)
    BY <1>1, <2>1 DEF Row, Run, Handled
  <2>3. n.pc = "purging" /\ n.item = v /\ r.old = work[v].old /\ r.status = work[v].status
    BY <2>1 DEF Row, Resting
  <2>4. work'[v] = r /\ run'[p] = n /\ recorded' \subseteq Voice
    BY <1>1, <2>1 DEF TypeOK
  <2> HIDE DEF r, n
  <2>5. WorkingOn(p)'
    BY <2>1, <2>3, <2>4 DEF WorkingOn
  <2> QED  BY <2>1, <2>2, <2>4, <2>5, WorkerKeeps
<1>4. ASSUME CompleteWork(p) \/ CompletePurge(p) PROVE IInv'
  <2> DEFINE x == run[p].item
  <2>1. /\ x \in Work /\ work[x] \in Row /\ run' = [run EXCEPT ![p] = Resting]
        /\ UNCHANGED <<recorded, results, consent, proposal, call, effects>>
        /\ run[p].pc # "idle"
    BY <1>1, <1>4 DEF CompleteWork, CompletePurge, WorkingOn, TypeOK, Owner
  <2>2. WorkingOn(p)' /\ recorded' \subseteq Voice
    BY <1>1, <2>1 DEF WorkingOn, TypeOK, Resting
  <2>3. PICK r \in Row : work' = [work EXCEPT ![x] = r] /\ Handled(p, work[x], r)
    <3>1. CASE work' = work
      BY <2>1, <3>1, <1>1 DEF TypeOK, Handled
    <3>2. CASE CompleteWork(p) /\ work' # work
      <4>1. Owns(p) /\ run[p].pc = "failing"
        BY <3>2 DEF CompleteWork
      <4>2. work[x].status = "processing"
        BY <1>1, <4>1 DEF WorkingOn, Owns
      <4>3. \/ work' = [work EXCEPT ![x] = [work[x] EXCEPT !.status = "failed", !.holder = None, !.live = FALSE]]
            \/ \E s \in {"processing", "queued"} :
                 work' = [work EXCEPT ![x] = [work[x] EXCEPT !.status = s, !.due = FALSE,
                                                             !.holder = None, !.live = FALSE]]
        BY <1>1, <2>1, <3>2, <4>1, <4>2 DEF CompleteWork, TypeOK
      <4>4. \A s \in {"processing", "queued"} :
              LET q == [work[x] EXCEPT !.status = s, !.due = FALSE, !.holder = None, !.live = FALSE]
              IN  q \in Row /\ Handled(p, work[x], q)
        BY <2>1, <4>2 DEF Row, Handled
      <4>5. LET q == [work[x] EXCEPT !.status = "failed", !.holder = None, !.live = FALSE]
            IN  q \in Row /\ Handled(p, work[x], q)
        BY <2>1, <4>2 DEF Row, Handled
      <4> QED  BY <4>3, <4>4, <4>5
    <3>3. CASE CompletePurge(p) /\ work' # work
      <4>1. PICK gone \in BOOLEAN :
              work' = [work EXCEPT ![x] = [work[x] EXCEPT !.ref = @ /\ ~gone, !.due = @ /\ gone,
                                                          !.holder = None, !.live = FALSE]]
        BY <1>1, <2>1, <3>3 DEF CompletePurge, TypeOK
      <4>2. LET q == [work[x] EXCEPT !.ref = @ /\ ~gone, !.due = @ /\ gone, !.holder = None, !.live = FALSE]
            IN  q \in Row /\ Handled(p, work[x], q)
        BY <2>1 DEF Row, Handled
      <4> QED  BY <4>1, <4>2
    <3> QED  BY <1>4, <3>1, <3>2, <3>3
  <2> HIDE DEF x
  <2> QED  BY <1>1, <2>1, <2>2, <2>3, WorkerKeeps
<1>5. ASSUME Ask(p) \/ \E retry \in BOOLEAN : Error(p, retry) PROVE IInv'
  <2>1. PICK n \in Run : /\ run' = [run EXCEPT ![p] = n] /\ n.item = run[p].item
                          /\ n.pc \in {"asked", "failing"}
    <3>1. CASE Ask(p)
      <4> DEFINE n == [run[p] EXCEPT !.pc = "asked"]
      <4>1. run' = [run EXCEPT ![p] = n]
        BY <1>1, <3>1 DEF Ask, TypeOK
      <4>2. n \in Run /\ n.item = run[p].item /\ n.pc = "asked"
        BY <1>1 DEF Run
      <4> QED  BY <4>1, <4>2
    <3>2. ASSUME NEW retry \in BOOLEAN, Error(p, retry)
          PROVE  \E n \in Run : /\ run' = [run EXCEPT ![p] = n] /\ n.item = run[p].item
                                /\ n.pc \in {"asked", "failing"}
      <4> DEFINE n == [run[p] EXCEPT !.pc = "failing", !.retry = retry]
      <4>1. run' = [run EXCEPT ![p] = n]
        BY <1>1, <3>2 DEF Error, TypeOK
      <4>2. n \in Run /\ n.item = run[p].item /\ n.pc = "failing"
        BY <1>1 DEF Run
      <4> QED  BY <4>1, <4>2
    <3> QED  BY <1>5, <3>1, <3>2
  <2>2. /\ run[p].pc \in {"claimed", "asked"}
        /\ UNCHANGED <<work, recorded, results, consent, proposal, call, effects>>
    BY <1>5 DEF Ask, Error, Owner
  <2>3. run'[p] = n /\ recorded' \subseteq Voice
    BY <1>1, <2>1, <2>2 DEF TypeOK
  <2>4. WorkingOn(p)'
    BY <1>1, <2>1, <2>2, <2>3 DEF WorkingOn
  <2> QED  BY <2>1, <2>2, <2>3, <2>4, WorkerMoves
<1>6. ASSUME Crash(p) \/ \E works \in BOOLEAN : Erase(p, works) PROVE IInv'
  <2>1. /\ run[p].pc # "idle" /\ run' = [run EXCEPT ![p] = Resting] /\ recorded' \subseteq Voice
        /\ UNCHANGED <<work, results, consent, proposal, call, effects>>
    BY <1>1, <1>6 DEF Crash, Erase, TypeOK, Owner
  <2>2. WorkingOn(p)'
    BY <1>1, <2>1 DEF WorkingOn, TypeOK, Resting
  <2> QED  BY <1>1, <2>1, <2>2, WorkerMoves
<1>7. ASSUME NEW works \in BOOLEAN, Purge(p, works) PROVE IInv'
  <2> DEFINE n == [run[p] EXCEPT !.pc = IF works THEN "purged" ELSE "unpurged"]
  <2>1. /\ run[p].pc = "purging" /\ run' = [run EXCEPT ![p] = n] /\ recorded' \subseteq Voice
        /\ UNCHANGED <<work, results, consent, proposal, call, effects>>
    BY <1>1, <1>7 DEF Purge, TypeOK, Owner
  <2>2. n \in Run /\ n.item = run[p].item /\ n.pc \in {"purged", "unpurged"} /\ run'[p] = n
    BY <1>1, <2>1 DEF Run, TypeOK
  <2>3. WorkingOn(p)'
    BY <1>1, <2>1, <2>2 DEF WorkingOn
  <2> QED  BY <2>1, <2>2, <2>3, WorkerMoves
<1> QED  BY <1>2, <1>3, <1>4, <1>5, <1>6, <1>7

\* The save: the result, the proposal and the end of the claim in one step.
LEMMA SaveKeeps ==
  ASSUME IInv, NEW p \in Workers, NEW proposes \in BOOLEAN, NEW lost \in BOOLEAN,
         Save(p, proposes, lost)
  PROVE  IInv'
<1> DEFINE w == run[p].item
           r == [work[w] EXCEPT !.status = "done", !.holder = None, !.live = FALSE]
           n == IF lost THEN [run[p] EXCEPT !.pc = "failing", !.retry = FALSE]
                ELSE IF w \in Voice THEN [run[p] EXCEPT !.pc = "erase"]
                ELSE Resting
           q == IF proposes THEN [proposal[w] EXCEPT !.status = "validated", !.version = 1]
                ELSE proposal[w]
<1>1. /\ TypeOK /\ WorkingOn(p) /\ run[p] \in Run /\ p # None
      /\ run[p].pc = "asked" /\ w \in Work /\ work[w].holder = p
  BY NoneAssumption DEF IInv, Working, WorkingOn, TypeOK, Save, Fenced, Owns
<1>2. /\ results[w] = 0 /\ results' = [results EXCEPT ![w] = @ + 1]
      /\ work' = [work EXCEPT ![w] = r] /\ run' = [run EXCEPT ![p] = n]
      /\ proposal' = [proposal EXCEPT ![w] = q]
      /\ UNCHANGED <<recorded, consent, call, effects>>
  <2>1. results[w] = 0 /\ results' = [results EXCEPT ![w] = @ + 1] /\ UNCHANGED <<recorded, consent, call, effects>>
    BY DEF Save
  <2>2. work' = [work EXCEPT ![w] = r]
    BY <1>1 DEF Save, TypeOK
  <2>3. run' = [run EXCEPT ![p] = n]
    <3>1. CASE lost
      BY <1>1, <3>1 DEF Save, TypeOK
    <3>2. CASE ~lost /\ w \in Voice
      BY <1>1, <3>2 DEF Save, TypeOK
    <3>3. CASE ~lost /\ w \notin Voice
      BY <1>1, <3>3 DEF Save, TypeOK
    <3> QED  BY <3>1, <3>2, <3>3
  <2>4. proposal' = [proposal EXCEPT ![w] = q]
    <3>1. CASE proposes
      BY <1>1, <3>1 DEF Save, TypeOK
    <3>2. CASE ~proposes
      BY <1>1, <3>2 DEF Save, TypeOK
    <3> QED  BY <3>1, <3>2
  <2> QED  BY <2>1, <2>2, <2>3, <2>4
<1>3. work[w] \in Row /\ proposal[w] \in Proposal /\ proposal[w].status = "none"
  BY <1>1, <1>2 DEF TypeOK, IInv, Prepared
<1>4. r \in Row /\ r.status = "done" /\ r.holder = None
  BY <1>3 DEF Row
<1>5. n \in Run /\ (n.pc # "idle" => n.item = w) /\ n.pc # "purging"
  <2>1. Resting \in Run /\ Resting.pc = "idle"
    BY BoundsAssumption DEF Resting, Run
  <2>2. LET e == [run[p] EXCEPT !.pc = "failing", !.retry = FALSE] IN e \in Run /\ e.item = w /\ e.pc = "failing"
    BY <1>1 DEF Run
  <2>3. LET e == [run[p] EXCEPT !.pc = "erase"] IN e \in Run /\ e.item = w /\ e.pc = "erase"
    BY <1>1 DEF Run
  <2> QED  BY <2>1, <2>2, <2>3
<1>6. q \in Proposal /\ q.status \notin Approved /\ (q.status # "none" => proposes)
  <2>1. 1 \in Versions
    BY BoundsAssumption DEF Versions
  <2>2. CASE proposes
    BY <1>3, <2>1, <2>2 DEF Proposal, Approved
  <2>3. CASE ~proposes
    BY <1>3, <2>3 DEF Approved
  <2> QED  BY <2>2, <2>3
<1> HIDE DEF r, n, q
<1>7. work' \in [Work -> Row] /\ work'[w] = r /\ \A x \in Work : x # w => work'[x] = work[x]
  BY <1>1, <1>2, <1>4, OneRow
<1>8. run' \in [Workers -> Run] /\ run'[p] = n /\ \A o \in Workers : o # p => run'[o] = run[o]
  BY <1>1, <1>2, <1>5 DEF TypeOK
<1>9. proposal' \in [Work -> Proposal] /\ proposal'[w] = q /\ \A x \in Work : x # w => proposal'[x] = proposal[x]
  BY <1>1, <1>2, <1>6 DEF TypeOK
<1>10. results' \in [Work -> Nat] /\ results'[w] = 1 /\ \A x \in Work : x # w => results'[x] = results[x]
  BY <1>1, <1>2 DEF TypeOK
<1> HIDE DEF w
<1>11. TypeOK'
  BY <1>1, <1>2, <1>7, <1>8, <1>9, <1>10 DEF TypeOK
<1>12. DoneHasResult'
  BY <1>4, <1>7, <1>10 DEF IInv, DoneHasResult
<1>13. Working'
  <2> SUFFICES ASSUME NEW o \in Workers PROVE WorkingOn(o)'
    BY DEF Working
  <2>1. CASE o = p
    BY <1>1, <1>4, <1>5, <1>7, <1>8, <2>1 DEF WorkingOn
  <2>2. CASE o # p
    <3>1. WorkingOn(o) /\ o # None /\ run'[o] = run[o]
      BY <1>8, <2>2, NoneAssumption DEF IInv, Working
    <3>2. CASE run[o].item = w
      BY <1>4, <1>7, <3>1, <3>2 DEF WorkingOn
    <3>3. CASE run[o].item # w
      BY <1>7, <3>1, <3>3 DEF WorkingOn
    <3> QED  BY <3>2, <3>3
  <2> QED  BY <2>1, <2>2
<1>14. Prepared'
  BY <1>9, <1>10 DEF IInv, Prepared
<1>15. Calling'
  <2> SUFFICES ASSUME NEW c \in Calls PROVE CallingFor(c)'
    BY DEF Calling
  <2>1. CallingFor(c) /\ call' = call
    BY <1>2 DEF IInv, Calling
  <2>2. call[c].pc # "idle" => call[c].item # w
    BY <1>3, <2>1 DEF CallingFor, Approved
  <2> QED  BY <1>9, <2>1, <2>2 DEF CallingFor
<1>16. Executing'
  <2> SUFFICES ASSUME NEW x \in Work PROVE ExecutedFor(x)'
    BY DEF Executing
  <2>1. ExecutedFor(x) /\ effects' = effects
    BY <1>2 DEF IInv, Executing
  <2>2. CASE x = w
    <3>1. effects[w] = {}
      BY <1>3, <2>1, <2>2 DEF ExecutedFor, Approved
    <3> QED  BY <1>6, <1>9, <2>1, <2>2, <3>1 DEF ExecutedFor, Approved
  <2>3. CASE x # w
    BY <1>9, <2>1, <2>3 DEF ExecutedFor
  <2> QED  BY <2>2, <2>3
<1> QED  BY <1>11, <1>12, <1>13, <1>14, <1>15, <1>16 DEF IInv

(***************************************************************************)
(* Steps of the decision.                                                  *)
(***************************************************************************)
\* Steps that change one proposal that nobody has confirmed yet, or leave what is
\* said of it: its status, its operation and its resource.
LEMMA ProposalKeeps ==
  ASSUME IInv, NEW w \in Work, NEW q \in Proposal,
         proposal' = [proposal EXCEPT ![w] = q],
         \/ proposal[w].status = "validated" /\ q.status \in {"validated", "rejected", "expired"}
         \/ /\ q.status = proposal[w].status /\ q.op = proposal[w].op
            /\ q.resource = proposal[w].resource,
         UNCHANGED <<work, recorded, results, consent, run, call, effects>>
  PROVE  IInv'
<1>1. proposal' \in [Work -> Proposal] /\ proposal'[w] = q /\ \A x \in Work : x # w => proposal'[x] = proposal[x]
  BY DEF IInv, TypeOK
<1>2. TypeOK' /\ DoneHasResult' /\ Working'
  BY <1>1 DEF IInv, TypeOK, DoneHasResult, Working, WorkingOn
<1>3. Prepared'
  BY <1>1 DEF IInv, Prepared
<1>4. Calling'
  <2> SUFFICES ASSUME NEW c \in Calls PROVE CallingFor(c)'
    BY DEF Calling
  <2>1. CallingFor(c)
    BY DEF IInv, Calling
  <2>2. CASE call[c].item = w
    BY <1>1, <2>1, <2>2 DEF CallingFor, Approved
  <2>3. CASE call[c].item # w
    BY <1>1, <2>1, <2>3 DEF CallingFor
  <2> QED  BY <2>2, <2>3
<1>5. Executing'
  <2> SUFFICES ASSUME NEW x \in Work PROVE ExecutedFor(x)'
    BY DEF Executing
  <2>1. ExecutedFor(x)
    BY DEF IInv, Executing
  <2>2. CASE x = w
    BY <1>1, <2>1, <2>2 DEF ExecutedFor, Approved
  <2>3. CASE x # w
    BY <1>1, <2>1, <2>3 DEF ExecutedFor
  <2> QED  BY <2>2, <2>3
<1> QED  BY <1>2, <1>3, <1>4, <1>5 DEF IInv

LEMMA OpenStepsKeep ==
  ASSUME IInv, NEW w \in Work, Reject(w) \/ Expire(w) \/ ProposalClock(w)
  PROVE  IInv'
<1>1. proposal[w] \in Proposal /\ proposal \in [Work -> Proposal]
  BY DEF IInv, TypeOK
<1>2. UNCHANGED <<work, recorded, results, consent, run, call, effects>>
  BY DEF Reject, Expire, ProposalClock
<1>3. ASSUME NEW s \in {"rejected", "expired"}, proposal[w].status = "validated",
             proposal[w].version < MaxVersion,
             proposal' = [proposal EXCEPT ![w].status = s, ![w].version = @ + 1]
      PROVE  IInv'
  <2> DEFINE q == [proposal[w] EXCEPT !.status = s, !.version = @ + 1]
  <2>1. proposal' = [proposal EXCEPT ![w] = q]
    BY <1>1, <1>3
  <2>2. proposal[w].version + 1 \in Versions
    BY <1>1, <1>3, BoundsAssumption DEF Proposal, Versions
  <2>3. q \in Proposal /\ q.status = s
    BY <1>1, <2>2 DEF Proposal, Decided
  <2> HIDE DEF q
  <2> QED  BY <1>2, <1>3, <2>1, <2>3, ProposalKeeps
<1>4. CASE ProposalClock(w)
  <2>1. PICK live \in BOOLEAN, late \in BOOLEAN :
          proposal' = [proposal EXCEPT ![w] = [proposal[w] EXCEPT !.live = live, !.late = late]]
    <3>1. CASE proposal' = [proposal EXCEPT ![w].live = FALSE]
      <4>1. proposal[w] = [proposal[w] EXCEPT !.late = proposal[w].late] /\ proposal[w].late \in BOOLEAN
        BY <1>1 DEF Proposal
      <4>2. [proposal[w] EXCEPT !.live = FALSE] = [proposal[w] EXCEPT !.live = FALSE, !.late = proposal[w].late]
        BY <1>1 DEF Proposal
      <4> QED  BY <1>1, <3>1, <4>1, <4>2
    <3>2. CASE proposal' = [proposal EXCEPT ![w].late = TRUE]
      <4>1. proposal[w].live \in BOOLEAN
        BY <1>1 DEF Proposal
      <4>2. [proposal[w] EXCEPT !.late = TRUE] = [proposal[w] EXCEPT !.live = proposal[w].live, !.late = TRUE]
        BY <1>1 DEF Proposal
      <4> QED  BY <1>1, <3>2, <4>1, <4>2
    <3> QED  BY <1>4, <3>1, <3>2 DEF ProposalClock
  <2> DEFINE q == [proposal[w] EXCEPT !.live = live, !.late = late]
  <2>2. /\ q \in Proposal /\ q.status = proposal[w].status /\ q.op = proposal[w].op
        /\ q.resource = proposal[w].resource
    BY <1>1 DEF Proposal
  <2> HIDE DEF q
  <2> QED  BY <1>2, <2>1, <2>2, ProposalKeeps DEF q
<1>5. CASE Reject(w)
  BY <1>3, <1>5 DEF Reject, Open, Decidable
<1>6. CASE Expire(w)
  BY <1>3, <1>6 DEF Expire, Decidable
<1> QED  BY <1>4, <1>5, <1>6

\* A call that ends.
LEMMA CallKeeps ==
  ASSUME IInv, NEW c \in Calls, call' = [call EXCEPT ![c] = NoCall],
         UNCHANGED <<work, recorded, results, consent, run, proposal, effects>>
  PROVE  IInv'
<1>1. NoCall \in Call /\ NoCall.pc = "idle"
  BY BoundsAssumption DEF NoCall, Call, Versions
<1>2. call' \in [Calls -> Call] /\ call'[c] = NoCall /\ \A d \in Calls : d # c => call'[d] = call[d]
  BY <1>1 DEF IInv, TypeOK
<1>3. TypeOK' /\ DoneHasResult' /\ Working' /\ Prepared' /\ Executing'
  BY <1>2 DEF IInv, TypeOK, DoneHasResult, Working, WorkingOn, Prepared, Executing, ExecutedFor
<1>4. Calling'
  <2> SUFFICES ASSUME NEW d \in Calls PROVE CallingFor(d)'
    BY DEF Calling
  <2>1. CallingFor(d)
    BY DEF IInv, Calling
  <2>2. CASE d = c
    BY <1>1, <1>2, <2>2 DEF CallingFor
  <2>3. CASE d # c
    BY <1>2, <2>1, <2>3 DEF CallingFor
  <2> QED  BY <2>2, <2>3
<1> QED  BY <1>3, <1>4 DEF IInv

MayClaim(w, k) ==
  proposal[w].status = "validated" \/ (proposal[w].status = "confirmed" /\ proposal[w].op = k)

\* Claims of a decision: one proposal is confirmed for the operation of the call.
LEMMA ClaimKeeps ==
  ASSUME IInv, NEW c \in Calls, NEW w \in Work, NEW q \in Proposal, NEW n \in Call,
         proposal' = [proposal EXCEPT ![w] = q], call' = [call EXCEPT ![c] = n],
         q.status = "confirmed", n.item = w, n.op = q.op, n.op \in Keys, n.version \in Versions,
         MayClaim(w, q.op),
         UNCHANGED <<work, recorded, results, consent, run, effects>>
  PROVE  IInv'
<1>0. proposal[w].status = "validated" \/ (proposal[w].status = "confirmed" /\ proposal[w].op = q.op)
  BY DEF MayClaim
<1>1. proposal' \in [Work -> Proposal] /\ proposal'[w] = q /\ \A x \in Work : x # w => proposal'[x] = proposal[x]
  BY DEF IInv, TypeOK
<1>2. call' \in [Calls -> Call] /\ call'[c] = n /\ \A d \in Calls : d # c => call'[d] = call[d]
  BY DEF IInv, TypeOK
<1>3. TypeOK' /\ DoneHasResult' /\ Working'
  BY <1>1, <1>2 DEF IInv, TypeOK, DoneHasResult, Working, WorkingOn
<1>4. Prepared'
  BY <1>0, <1>1 DEF IInv, Prepared
<1>5. Calling'
  <2> SUFFICES ASSUME NEW d \in Calls PROVE CallingFor(d)'
    BY DEF Calling
  <2>1. CallingFor(d)
    BY DEF IInv, Calling
  <2>2. CASE d = c
    BY <1>1, <1>2, <2>2 DEF CallingFor, Approved
  <2>3. CASE d # c /\ call[d].item = w
    BY <1>0, <1>1, <1>2, <2>1, <2>3 DEF CallingFor, Approved
  <2>4. CASE d # c /\ call[d].item # w
    BY <1>1, <1>2, <2>1, <2>4 DEF CallingFor
  <2> QED  BY <2>2, <2>3, <2>4
<1>6. Executing'
  <2> SUFFICES ASSUME NEW x \in Work PROVE ExecutedFor(x)'
    BY DEF Executing
  <2>1. ExecutedFor(x)
    BY DEF IInv, Executing
  <2>2. CASE x = w /\ proposal[w].status = "validated"
    <3>1. effects[x] = {}
      BY <2>1, <2>2 DEF ExecutedFor, Approved
    <3> QED  BY <1>1, <2>1, <2>2, <3>1 DEF ExecutedFor, Approved
  <2>3. CASE x = w /\ proposal[w].status = "confirmed" /\ proposal[w].op = q.op
    BY <1>1, <2>1, <2>3 DEF ExecutedFor, Approved
  <2>4. CASE x # w
    BY <1>1, <2>1, <2>4 DEF ExecutedFor
  <2> QED  BY <1>0, <2>2, <2>3, <2>4
<1> QED  BY <1>3, <1>4, <1>5, <1>6 DEF IInv

LEMMA CallStepsKeep ==
  ASSUME IInv, NEW c \in Calls, CallStep(c)
  PROVE  IInv'
<1>1. TypeOK /\ CallingFor(c) /\ call[c] \in Call /\ NoCall \in Call /\ NoCall.pc = "idle"
  BY BoundsAssumption DEF IInv, Calling, TypeOK, NoCall, Call, Versions
<1>2. ASSUME NEW w \in Work, NEW k \in Keys, Confirm(c, w, k) PROVE IInv'
  <2> DEFINE q == [proposal[w] EXCEPT !.status = "confirmed", !.op = k, !.decider = c,
                                      !.live = TRUE, !.version = @ + 1]
             n == [pc |-> "claimed", item |-> w, op |-> k, version |-> proposal[w].version]
  <2>1. /\ proposal' = [proposal EXCEPT ![w] = q] /\ call' = [call EXCEPT ![c] = n]
        /\ proposal[w] \in Proposal /\ proposal[w].status = "validated" /\ proposal[w].version < MaxVersion
        /\ UNCHANGED <<work, recorded, results, consent, run, effects>>
    BY <1>1, <1>2 DEF Confirm, Decidable, TypeOK
  <2>2. proposal[w].version + 1 \in Versions /\ proposal[w].version \in Versions
    BY <2>1, BoundsAssumption DEF Proposal, Versions
  <2>3. q \in Proposal /\ q.status = "confirmed" /\ q.op = k
    BY <2>1, <2>2 DEF Proposal, Approved
  <2>4. n \in Call /\ n.item = w /\ n.op = k /\ n.version \in Versions
    BY <2>2 DEF Call
  <2> HIDE DEF q, n
  <2>5. /\ proposal' = [proposal EXCEPT ![w] = q] /\ call' = [call EXCEPT ![c] = n]
        /\ n.op = q.op /\ n.op \in Keys
        /\ UNCHANGED <<work, recorded, results, consent, run, effects>>
    BY <2>1, <2>3, <2>4
  <2>6. MayClaim(w, q.op)
    BY <2>1, <2>3 DEF MayClaim
  <2> QED  BY <2>3, <2>4, <2>5, <2>6, ClaimKeeps
<1>3. ASSUME NEW w \in Work, NEW k \in Keys, NEW v \in Versions, Resume(c, w, k, v) PROVE IInv'
  <2> DEFINE q == [proposal[w] EXCEPT !.decider = c, !.live = TRUE, !.version = @ + 1]
             n == [pc |-> "claimed", item |-> w, op |-> k, version |-> v]
  <2>1. /\ proposal' = [proposal EXCEPT ![w] = q] /\ call' = [call EXCEPT ![c] = n]
        /\ proposal[w] \in Proposal /\ proposal[w].status = "confirmed" /\ proposal[w].op = k
        /\ proposal[w].version < MaxVersion
        /\ UNCHANGED <<work, recorded, results, consent, run, effects>>
    BY <1>1, <1>3 DEF Resume, Resumable, TypeOK
  <2>2. proposal[w].version + 1 \in Versions
    BY <2>1, BoundsAssumption DEF Proposal, Versions
  <2>3. q \in Proposal /\ q.status = "confirmed" /\ q.op = k
    BY <2>1, <2>2 DEF Proposal, Approved
  <2>4. n \in Call /\ n.item = w /\ n.op = k /\ n.version \in Versions
    BY DEF Call
  <2> HIDE DEF q, n
  <2>5. n.op = q.op /\ n.op \in Keys
    BY <2>3, <2>4
  <2>6. MayClaim(w, q.op)
    BY <2>1, <2>3 DEF MayClaim
  <2> QED  BY <2>1, <2>3, <2>4, <2>5, <2>6, ClaimKeeps
<1>4. CASE EndCall(c)
  <2>1. /\ call' = [call EXCEPT ![c] = NoCall]
        /\ UNCHANGED <<work, recorded, results, consent, run, proposal, effects>>
    BY <1>4 DEF EndCall
  <2> QED  BY <1>1, <2>1, CallKeeps
<1>5. CASE Execute(c)
  <2> DEFINE w == call[c].item
             k == call[c].op
             v == call[c].version
  <2>1. w \in Work /\ k \in Keys /\ v \in Versions /\ proposal[w].status \in Approved /\ proposal[w].op = k
    BY <1>1, <1>5 DEF Execute, CallingFor
  <2>2. ExecutedFor(w)
    BY <2>1 DEF IInv, Executing
  <2>3. PICK S \in SUBSET Effects :
          /\ effects' = [effects EXCEPT ![w] = S]
          /\ \A e \in S : e[1] = k
          /\ effects[w] \subseteq S
          /\ w \notin Goals => \A e, f \in S : e = f
    <3>1. effects[w] \in SUBSET Effects /\ effects \in [Work -> SUBSET Effects]
      BY <1>1, <2>1 DEF TypeOK
    <3>2. CASE Answered(w, k, v)
      BY <1>5, <2>1, <2>2, <3>1, <3>2 DEF Execute, ExecutedFor
    <3>3. CASE ~Answered(w, k, v) /\ ~Refused(w, k, v)
      <4>1. effects' = [effects EXCEPT ![w] = effects[w] \union {<<k, v>>}]
        BY <1>5, <3>1, <3>3 DEF Execute
      <4>2. effects[w] \union {<<k, v>>} \in SUBSET Effects
        BY <2>1, <3>1 DEF Effects
      <4>3. \A e \in effects[w] \union {<<k, v>>} : e[1] = k
        BY <2>1, <2>2 DEF ExecutedFor
      <4>4. w \notin Goals => effects[w] = {}
        BY <2>1, <2>2, <3>3 DEF Refused, ExecutedFor
      <4> QED  BY <4>1, <4>2, <4>3, <4>4
    <3> QED  BY <1>5, <3>2, <3>3 DEF Execute
  <2>4. effects' \in [Work -> SUBSET Effects] /\ effects'[w] = S /\ \A x \in Work : x # w => effects'[x] = effects[x]
    BY <1>1, <2>1, <2>3 DEF TypeOK
  <2> DEFINE n == [call[c] EXCEPT !.pc = "executed"]
  <2>5. /\ call' = [call EXCEPT ![c] = n] /\ call[c].pc # "idle"
        /\ UNCHANGED <<work, recorded, results, consent, run, proposal>>
    BY <1>1, <1>5 DEF Execute, TypeOK
  <2>6. n \in Call /\ n.item = w /\ n.op = k /\ n.version = v
    BY <1>1 DEF Call
  <2> HIDE DEF n
  <2>7. call' \in [Calls -> Call] /\ call'[c] = n /\ \A d \in Calls : d # c => call'[d] = call[d]
    BY <1>1, <2>5, <2>6 DEF TypeOK
  <2>8. TypeOK' /\ DoneHasResult' /\ Working' /\ Prepared'
    BY <1>1, <2>4, <2>5, <2>7 DEF IInv, TypeOK, DoneHasResult, Working, WorkingOn, Prepared
  <2>9. Calling'
    <3> SUFFICES ASSUME NEW d \in Calls PROVE CallingFor(d)'
      BY DEF Calling
    <3>1. CallingFor(d)
      BY DEF IInv, Calling
    <3>2. CASE d = c
      BY <2>1, <2>5, <2>6, <2>7, <3>2 DEF CallingFor
    <3>3. CASE d # c
      BY <2>5, <2>7, <3>1, <3>3 DEF CallingFor
    <3> QED  BY <3>2, <3>3
  <2>10. Executing'
    <3> SUFFICES ASSUME NEW x \in Work PROVE ExecutedFor(x)'
      BY DEF Executing
    <3>1. ExecutedFor(x)
      BY DEF IInv, Executing
    <3>2. CASE x = w
      BY <2>1, <2>2, <2>3, <2>4, <2>5, <3>2 DEF ExecutedFor
    <3>3. CASE x # w
      BY <2>4, <2>5, <3>1, <3>3 DEF ExecutedFor
    <3> QED  BY <3>2, <3>3
  <2> QED  BY <2>8, <2>9, <2>10 DEF IInv
<1>6. CASE Complete(c)
  <2> DEFINE w == call[c].item
  <2>1. PICK e \in effects[w] :
          proposal' = [proposal EXCEPT ![w].status = "executed", ![w].resource = e,
                         ![w].decider = None, ![w].live = FALSE, ![w].version = @ + 1]
    BY <1>6 DEF Complete
  <2> DEFINE q == [proposal[w] EXCEPT !.status = "executed", !.resource = e,
                                      !.decider = None, !.live = FALSE, !.version = @ + 1]
  <2>2. /\ w \in Work /\ proposal[w] \in Proposal /\ e \in Effects
        /\ proposal[w].status = "confirmed" /\ proposal[w].version < MaxVersion
    BY <1>1, <1>6 DEF Complete, Decides, CallingFor, TypeOK
  <2>3. proposal[w].version + 1 \in Versions
    BY <2>2, BoundsAssumption DEF Proposal, Versions
  <2>4. q \in Proposal /\ q.status = "executed" /\ q.resource = e /\ q.op = proposal[w].op
    BY <2>2, <2>3 DEF Proposal, Approved
  <2>5. proposal' = [proposal EXCEPT ![w] = q]
    BY <1>1, <2>1, <2>2 DEF TypeOK
  <2> HIDE DEF q
  <2>6. /\ proposal' \in [Work -> Proposal] /\ proposal'[w] = q
        /\ \A x \in Work : x # w => proposal'[x] = proposal[x]
    BY <1>1, <2>2, <2>4, <2>5 DEF TypeOK
  <2>7. /\ call' = [call EXCEPT ![c] = NoCall]
        /\ UNCHANGED <<work, recorded, results, consent, run, effects>>
    BY <1>6 DEF Complete
  <2>8. call' \in [Calls -> Call] /\ call'[c] = NoCall /\ \A d \in Calls : d # c => call'[d] = call[d]
    BY <1>1, <2>7 DEF TypeOK
  <2>9. TypeOK' /\ DoneHasResult' /\ Working'
    BY <1>1, <2>6, <2>7, <2>8 DEF IInv, TypeOK, DoneHasResult, Working, WorkingOn
  <2>10. Prepared'
    BY <2>2, <2>6, <2>7 DEF IInv, Prepared
  <2>11. Calling'
    <3> SUFFICES ASSUME NEW d \in Calls PROVE CallingFor(d)'
      BY DEF Calling
    <3>1. CallingFor(d)
      BY DEF IInv, Calling
    <3>2. CASE d = c
      BY <1>1, <2>8, <3>2 DEF CallingFor
    <3>3. CASE d # c /\ call[d].item = w
      BY <2>4, <2>6, <2>8, <3>1, <3>3 DEF CallingFor, Approved
    <3>4. CASE d # c /\ call[d].item # w
      BY <2>6, <2>8, <3>1, <3>4 DEF CallingFor
    <3> QED  BY <3>2, <3>3, <3>4
  <2>12. Executing'
    <3> SUFFICES ASSUME NEW x \in Work PROVE ExecutedFor(x)'
      BY DEF Executing
    <3>1. ExecutedFor(x) /\ effects' = effects
      BY <2>7 DEF IInv, Executing
    <3>2. CASE x = w
      BY <2>1, <2>4, <2>6, <3>1, <3>2 DEF ExecutedFor, Approved
    <3>3. CASE x # w
      BY <2>6, <3>1, <3>3 DEF ExecutedFor
    <3> QED  BY <3>2, <3>3
  <2> QED  BY <2>9, <2>10, <2>11, <2>12 DEF IInv
<1> QED  BY <1>2, <1>3, <1>4, <1>5, <1>6 DEF CallStep

LEMMA Invariance == Spec => []IInv
<1>1. IInv /\ [Next]_vars => IInv'
  <2> SUFFICES ASSUME IInv, [Next]_vars PROVE IInv'
    OBVIOUS
  <2>1. CASE RowStep
    BY <2>1, RowStepsKeep
  <2>2. CASE QuietWorkerStep
    BY <2>2, QuietWorkerStepsKeep DEF QuietWorkerStep
  <2>3. CASE SaveStep
    BY <2>3, SaveKeeps DEF SaveStep
  <2>4. CASE DecisionStep
    BY <2>4, CallStepsKeep, OpenStepsKeep DEF DecisionStep
  <2>5. CASE UNCHANGED vars
    BY <2>5 DEF vars, IInv, TypeOK, DoneHasResult, Working, WorkingOn, Prepared, Calling, CallingFor,
                Executing, ExecutedFor
  <2>6. CASE AnswerStep
    BY <2>6, AnswerKeeps DEF AnswerStep
  <2> QED  BY <2>1, <2>2, <2>3, <2>4, <2>5, <2>6, Steps
<1> QED  BY <1>1, Initially, PTL DEF Spec

(***************************************************************************)
(* The theorems.                                                           *)
(***************************************************************************)
\* Rows, claims, proposals, calls and effects are what the tables and the code
\* allow; the check on attempt_count is never broken.
THEOREM TypeCorrect == Spec => []TypeOK
BY Invariance, PTL DEF IInv

\* Work is done exactly when its result has been written, once.
THEOREM ResultsAreDone == Spec => []DoneHasResult
BY Invariance, PTL DEF IInv

\* What is executed has been confirmed, and what is called executed has been.
THEOREM EffectsFollowDecisions == Spec => []EffectsAreConfirmed
<1>1. IInv => EffectsAreConfirmed
  BY DEF IInv, Executing, ExecutedFor, EffectsAreConfirmed
<1> QED  BY <1>1, Invariance, PTL

\* A confirmed proposal has at most one effect, goals excepted.
THEOREM ConfirmedOnce == Spec => []ExecutesOnce
<1>1. IInv => ExecutesOnce
  <2> SUFFICES ASSUME IInv, NEW w \in Work \ Goals PROVE Cardinality(effects[w]) <= 1
    BY DEF ExecutesOnce
  <2>1. \A e, f \in effects[w] : e = f
    BY DEF IInv, Executing, ExecutedFor
  <2>2. CASE effects[w] = {}
    BY <2>2, FS_EmptySet
  <2>3. CASE effects[w] # {}
    <3>1. PICK e : effects[w] = {e}
      BY <2>1, <2>3
    <3> QED  BY <3>1, FS_Singleton
  <2> QED  BY <2>2, <2>3
<1> QED  BY <1>1, Invariance, PTL

\* Decisions are final, and nothing is executed behind them.
THEOREM DecisionsStay == Spec => DecisionIsFinal
<1>1. ASSUME IInv, [Next]_vars, NEW w \in Work, proposal[w].status \in Decided
      PROVE  /\ proposal'[w].status = proposal[w].status
             /\ proposal'[w].resource = proposal[w].resource
             /\ w \notin Goals => effects'[w] = effects[w]
  <2>1. /\ proposal \in [Work -> Proposal] /\ effects \in [Work -> SUBSET Effects]
        /\ proposal[w].status \notin {"none", "validated", "confirmed"} /\ results[w] # 0
        /\ ExecutedFor(w)
    BY <1>1 DEF IInv, TypeOK, Prepared, Executing, Decided
  <2>2. CASE RowStep \/ AnswerStep \/ QuietWorkerStep \/ UNCHANGED vars
    BY <1>1, <2>2, RowSteps DEF AnswerStep, SaveDeterministicMessage, QuietWorkerStep, Claim, Ask, CompleteWork, Crash, CompletePurge, Error, Erase,
       Purge, ClaimPurge, Owner, vars
  <2>3. CASE SaveStep
    <3>1. PICK p \in Workers, proposes \in BOOLEAN, lost \in BOOLEAN : Save(p, proposes, lost)
      BY <2>3 DEF SaveStep
    <3>2. run[p].item # w /\ effects' = effects
      BY <2>1, <3>1 DEF Save
    <3> QED  BY <2>1, <3>1, <3>2 DEF Save
  <2>4. ASSUME NEW x \in Work, Reject(x) \/ Expire(x) \/ ProposalClock(x)
        PROVE  /\ proposal'[w].status = proposal[w].status /\ proposal'[w].resource = proposal[w].resource
               /\ effects' = effects
    BY <2>1, <2>4 DEF Reject, Open, Expire, Decidable, ProposalClock, Proposal
  <2>5. ASSUME NEW c \in Calls, CallStep(c), ~Execute(c)
        PROVE  /\ proposal'[w].status = proposal[w].status /\ proposal'[w].resource = proposal[w].resource
               /\ effects' = effects
    <3>1. CASE EndCall(c)
      BY <3>1 DEF EndCall
    <3>2. CASE Complete(c)
      BY <2>1, <3>2 DEF Complete, Decides
    <3>3. ASSUME NEW x \in Work, NEW k \in Keys, NEW v \in Versions, Confirm(c, x, k) \/ Resume(c, x, k, v)
          PROVE  x # w /\ effects' = effects /\ proposal'[w] = proposal[w]
      <4>1. x # w /\ effects' = effects
        BY <2>1, <3>3 DEF Confirm, Resume, Decidable, Resumable
      <4> QED  BY <2>1, <3>3, <4>1 DEF Confirm, Resume
    <3>4. \E v \in Versions : TRUE
      BY BoundsAssumption DEF Versions
    <3> QED  BY <2>5, <3>1, <3>2, <3>3, <3>4 DEF CallStep
  <2>6. ASSUME NEW c \in Calls, Execute(c)
        PROVE  proposal' = proposal /\ (w \notin Goals => effects'[w] = effects[w])
    <3>1. CASE call[c].item # w
      BY <2>1, <2>6, <3>1 DEF Execute
    <3>2. CASE call[c].item = w
      <4>1. proposal[w].status \in Approved /\ call[c].op = proposal[w].op
        BY <1>1, <2>6, <3>2 DEF IInv, Calling, CallingFor, Execute
      <4>2. proposal[w].resource \in effects[w]
        BY <2>1, <4>1 DEF Approved, ExecutedFor
      <4>3. w \notin Goals => Answered(w, call[c].op, call[c].version) \/ Refused(w, call[c].op, call[c].version)
        BY <2>1, <4>1, <4>2 DEF Refused, ExecutedFor
      <4> QED  BY <2>1, <2>6, <3>2, <4>3 DEF Execute
    <3> QED  BY <2>6, <3>1, <3>2 DEF Execute
  <2> QED  BY <1>1, <2>2, <2>3, <2>4, <2>5, <2>6, Steps DEF DecisionStep
<1>2. IInv /\ [Next]_vars =>
        [\A w \in Work : proposal[w].status \in Decided =>
           /\ proposal'[w].status = proposal[w].status
           /\ proposal'[w].resource = proposal[w].resource
           /\ w \notin Goals => effects'[w] = effects[w]]_vars
  BY <1>1
<1> QED  BY <1>2, Invariance, PTL DEF Spec, DecisionIsFinal

\* No recording is deleted under a session that still needs it.
THEOREM RecordingsOutliveWork == Spec => RecordingOutlivesWork
<1>1. ASSUME IInv, [Next]_vars, NEW v \in recorded, v \notin recorded'
      PROVE  work[v].old \/ work[v].status \in {"done", "failed"}
  <2>1. PICK p \in Workers, works \in BOOLEAN : (Erase(p, works) \/ Purge(p, works)) /\ v = run[p].item
    <3>1. ~UNCHANGED recorded
      BY <1>1
    <3>2. ~AnswerStep /\ ~SaveStep /\ ~DecisionStep /\ ~UNCHANGED vars
      <4>1. \A p \in Workers, proposes, lost \in BOOLEAN : Save(p, proposes, lost) => UNCHANGED recorded
        BY DEF Save
      <4>2. \A c \in Calls : CallStep(c) => UNCHANGED recorded
        <5>1. ASSUME NEW c \in Calls PROVE Execute(c) \/ Complete(c) \/ EndCall(c) => UNCHANGED recorded
          BY DEF Execute, Complete, EndCall
        <5>2. ASSUME NEW c \in Calls, NEW w \in Work, NEW k \in Keys
              PROVE  Confirm(c, w, k) => UNCHANGED recorded
          BY DEF Confirm
        <5>3. ASSUME NEW c \in Calls, NEW w \in Work, NEW k \in Keys, NEW s \in Versions
              PROVE  Resume(c, w, k, s) => UNCHANGED recorded
          BY DEF Resume
        <5> QED  BY <5>1, <5>2, <5>3 DEF CallStep
      <4>3. \A w \in Work : Reject(w) \/ ProposalClock(w) \/ Expire(w) => UNCHANGED recorded
        BY DEF Reject, Expire, ProposalClock
      <4> QED  BY <3>1, <4>1, <4>2, <4>3 DEF AnswerStep, SaveDeterministicMessage, SaveStep, DecisionStep, vars
    <3>3. ~RowStep
      BY <1>1 DEF RowStep, CreateVoiceSession, Upload, FinalizeVoiceSession, EnqueueMessage, CancelMessage,
         Grant, Revoke, Clock
    <3>4. QuietWorkerStep
      BY <1>1, <3>2, <3>3, Steps
    <3> QED  BY <1>1, <3>1, <3>4 DEF QuietWorkerStep, Claim, Ask, CompleteWork, Crash, CompletePurge, Error,
         Erase, Purge, ClaimPurge
  <2>2. WorkingOn(p)
    BY <1>1 DEF IInv, Working
  <2> QED  BY <2>1, <2>2 DEF Erase, Purge, WorkingOn
<1>2. IInv /\ [Next]_vars =>
        [\A v \in recorded : v \notin recorded' => work[v].old \/ work[v].status \in {"done", "failed"}]_vars
  BY <1>1
<1> QED  BY <1>2, Invariance, PTL DEF Spec, RecordingOutlivesWork

(***************************************************************************)
(* What the domain key can do.  ExecutesOnce excepts savings goals, and a  *)
(* repeated confirmation may be refused although it took effect: both only *)
(* because confirm_ai_action does not compare the expected version of a    *)
(* repetition.                                                             *)
(***************************************************************************)
\* Whoever repeats a confirmation repeats it unchanged, with the version that
\* was confirmed: that is always 1, the version of every undecided proposal.
RepeatsUnchanged ==
  [][\A c \in Calls, w \in Work, k \in Keys, v \in Versions : Resume(c, w, k, v) => v = 1]_vars

\* Then version 1 is the only one a call or an effect is ever named by.
FirstVersion ==
  /\ \A w \in Work : proposal[w].status = "validated" => proposal[w].version = 1
  /\ \A c \in Calls : call[c].pc # "idle" => call[c].version = 1
  /\ \A w \in Work : \A e \in effects[w] : e[2] = 1

\* Every proposal, savings goals included, has at most one effect.
GoalsOnceToo == \A w \in Work : Cardinality(effects[w]) <= 1

\* No call is refused on account of what its own confirmation has done before.
NeverRefused ==
  \A c \in Calls : call[c].pc = "claimed" =>
    LET w == call[c].item
        k == call[c].op
        v == call[c].version IN
    Answered(w, k, v) \/ ~Refused(w, k, v)

\* The steps of the workers only add proposals of version 1.
LEMMA FirstVersionSaved ==
  ASSUME IInv, FirstVersion, NEW p \in Workers, NEW proposes \in BOOLEAN, NEW lost \in BOOLEAN,
         Save(p, proposes, lost)
  PROVE  FirstVersion'
<1>1. /\ UNCHANGED <<call, effects>> /\ proposal \in [Work -> Proposal]
      /\ proposal' = IF proposes
                       THEN [proposal EXCEPT ![run[p].item].status = "validated", ![run[p].item].version = 1]
                       ELSE proposal
  BY DEF Save, IInv, TypeOK
<1>2. \A w \in Work : proposal'[w].status = "validated" =>
        proposal'[w].version = 1 \/ (w # run[p].item /\ proposal'[w] = proposal[w]) \/ proposal' = proposal
  BY <1>1 DEF Proposal
<1> QED  BY <1>1, <1>2 DEF FirstVersion

\* A call carries the version of the proposal it confirms, or repeats.
LEMMA FirstVersionCalled ==
  ASSUME IInv, FirstVersion, NEW c \in Calls, CallStep(c),
         \A w \in Work, k \in Keys, v \in Versions : Resume(c, w, k, v) => v = 1
  PROVE  FirstVersion'
<1>1. /\ proposal \in [Work -> Proposal] /\ call \in [Calls -> Call] /\ effects \in [Work -> SUBSET Effects]
      /\ NoCall.pc = "idle"
  BY DEF IInv, TypeOK, NoCall
<1>2. ASSUME NEW w \in Work, NEW k \in Keys, NEW v \in Versions,
             (Confirm(c, w, k) /\ v = proposal[w].version) \/ Resume(c, w, k, v)
      PROVE  FirstVersion'
  <2>1. v = 1
    BY <1>2 DEF Confirm, Decidable, FirstVersion
  <2>2. /\ call' = [call EXCEPT ![c] = [pc |-> "claimed", item |-> w, op |-> k, version |-> 1]]
        /\ UNCHANGED effects
    BY <1>2, <2>1 DEF Confirm, Resume
  <2>3. proposal'[w].status = "confirmed" /\ \A x \in Work : x # w => proposal'[x] = proposal[x]
    <3>1. proposal[w] \in Proposal
      BY <1>1
    <3>2. CASE Confirm(c, w, k)
      BY <1>1, <3>1, <3>2 DEF Confirm, Proposal
    <3>3. CASE Resume(c, w, k, v)
      BY <1>1, <3>1, <3>3 DEF Resume, Resumable, Proposal
    <3> QED  BY <1>2, <3>2, <3>3
  <2>4. \A d \in Calls : call'[d].pc # "idle" => call'[d].version = 1
    BY <1>1, <2>2 DEF FirstVersion
  <2> QED  BY <2>2, <2>3, <2>4 DEF FirstVersion
<1>3. CASE Execute(c)
  <2>1. /\ call' = [call EXCEPT ![c].pc = "executed"] /\ call[c].pc # "idle" /\ UNCHANGED proposal
        /\ call[c].item \in Work
    BY <1>3 DEF Execute, IInv, Calling, CallingFor
  <2>2. call[c].version = 1
    BY <2>1 DEF FirstVersion
  <2>3. \A d \in Calls : call'[d].version = call[d].version /\ (d # c => call'[d] = call[d])
    BY <1>1, <2>1 DEF Call
  <2>4. effects' = effects \/ effects' = [effects EXCEPT ![call[c].item] = @ \union {<<call[c].op, 1>>}]
    BY <1>3, <2>2 DEF Execute
  <2>5. \A w \in Work : \A e \in effects'[w] : e[2] = 1
    BY <1>1, <2>1, <2>4 DEF FirstVersion
  <2> QED  BY <2>1, <2>2, <2>3, <2>5 DEF FirstVersion
<1>4. CASE Complete(c)
  <2>1. call' = [call EXCEPT ![c] = NoCall] /\ UNCHANGED effects
    BY <1>4 DEF Complete
  <2>2. call[c].item \in Work
    BY <1>4 DEF Complete, IInv, Calling, CallingFor
  <2>3. \A w \in Work : proposal'[w].status = "executed" \/ proposal'[w] = proposal[w]
    BY <1>1, <1>4, <2>2 DEF Complete, Proposal
  <2> QED  BY <1>1, <2>1, <2>3 DEF FirstVersion
<1>5. CASE EndCall(c)
  BY <1>1, <1>5 DEF EndCall, FirstVersion
<1>6. \A w \in Work : proposal[w].version \in Versions
  BY <1>1 DEF Proposal
<1> QED  BY <1>2, <1>3, <1>4, <1>5, <1>6 DEF CallStep

LEMMA FirstVersionStep ==
  ASSUME IInv, FirstVersion, [Next]_vars,
         \A c \in Calls, w \in Work, k \in Keys, v \in Versions : Resume(c, w, k, v) => v = 1
  PROVE  FirstVersion'
<1>1. CASE RowStep
  BY <1>1, RowSteps DEF FirstVersion
<1>2. CASE QuietWorkerStep
  <2>1. UNCHANGED <<proposal, call, effects>>
    BY <1>2 DEF QuietWorkerStep, Claim, Ask, CompleteWork, Crash, CompletePurge, Error, Erase, Purge,
                ClaimPurge, Owner
  <2> QED  BY <2>1 DEF FirstVersion
<1>3. CASE SaveStep
  BY <1>3, FirstVersionSaved DEF SaveStep
<1>4. ASSUME NEW w \in Work, Reject(w) \/ ProposalClock(w) \/ Expire(w)
      PROVE  FirstVersion'
  <2>1. UNCHANGED <<call, effects>> /\ proposal \in [Work -> Proposal]
    BY <1>4 DEF Reject, ProposalClock, Expire, IInv, TypeOK
  <2>2. \A x \in Work : proposal'[x].status = "validated" =>
          proposal[x].status = "validated" /\ proposal'[x].version = proposal[x].version
    BY <1>4, <2>1 DEF Reject, ProposalClock, Expire, Proposal
  <2> QED  BY <2>1, <2>2 DEF FirstVersion
<1>5. CASE AnswerStep \/ UNCHANGED vars
  BY <1>5 DEF AnswerStep, SaveDeterministicMessage, Owner, vars, FirstVersion
<1> QED  BY <1>1, <1>2, <1>3, <1>4, <1>5, FirstVersionCalled, Steps DEF DecisionStep

LEMMA FirstVersionAlways == Spec /\ RepeatsUnchanged => [](IInv /\ FirstVersion)
<1> DEFINE Unchanged == \A c \in Calls, w \in Work, k \in Keys, v \in Versions : Resume(c, w, k, v) => v = 1
<1>1. Init => FirstVersion
  BY DEF Init, FirstVersion, NoProposal, NoCall
<1>2. IInv /\ FirstVersion /\ [Next]_vars /\ [Unchanged]_vars => FirstVersion'
  <2>1. CASE UNCHANGED vars
    BY <2>1 DEF vars, FirstVersion
  <2>2. CASE ~UNCHANGED vars
    BY <2>2, FirstVersionStep
  <2> QED  BY <2>1, <2>2
<1> HIDE DEF Unchanged
<1> QED  BY <1>1, <1>2, Invariance, PTL DEF Spec, RepeatsUnchanged, Unchanged

\* When repetitions name the version that was confirmed, a savings goal too is
\* created once, however often its confirmation is repeated, taken up and raced
\* (AiService.confirm, ai.service.ts:609).
THEOREM UnchangedExecutesOnce == Spec /\ RepeatsUnchanged => []GoalsOnceToo
<1>1. IInv /\ FirstVersion => GoalsOnceToo
  <2> SUFFICES ASSUME IInv, FirstVersion, NEW w \in Work PROVE Cardinality(effects[w]) <= 1
    BY DEF GoalsOnceToo
  <2>1. effects[w] \subseteq {<<proposal[w].op, 1>>}
    <3> SUFFICES ASSUME NEW e \in effects[w] PROVE e = <<proposal[w].op, 1>>
      OBVIOUS
    <3>1. e \in Effects
      BY DEF IInv, TypeOK
    <3>2. e[1] = proposal[w].op /\ e[2] = 1
      BY DEF IInv, Executing, ExecutedFor, FirstVersion
    <3> QED  BY <3>1, <3>2 DEF Effects
  <2>2. CASE effects[w] = {}
    BY <2>2, FS_EmptySet
  <2>3. CASE effects[w] = {<<proposal[w].op, 1>>}
    <3>1. PICK e : effects[w] = {e}
      BY <2>3
    <3>2. Cardinality({e}) = 1
      BY FS_Singleton
    <3> QED  BY <3>1, <3>2
  <2> QED  BY <2>1, <2>2, <2>3
<1> QED  BY <1>1, FirstVersionAlways, PTL

\* And a repetition is answered as before, never refused: a confirmation that
\* took effect can always be completed (AiService.confirm, ai.service.ts:609-612).
THEOREM UnchangedIsAnswered == Spec /\ RepeatsUnchanged => []NeverRefused
<1>1. IInv /\ FirstVersion => NeverRefused
  <2> SUFFICES ASSUME IInv, FirstVersion, NEW c \in Calls, call[c].pc = "claimed"
               PROVE  Answered(call[c].item, call[c].op, call[c].version)
                      \/ ~Refused(call[c].item, call[c].op, call[c].version)
    BY DEF NeverRefused
  <2> DEFINE w == call[c].item
             k == call[c].op
             v == call[c].version
  <2>1. w \in Work /\ v = 1 /\ k = proposal[w].op
    BY DEF IInv, Calling, CallingFor, FirstVersion
  <2>2. \A e \in effects[w] : e[1] = k /\ e[2] = v /\ e = <<k, v>>
    <3> SUFFICES ASSUME NEW e \in effects[w] PROVE e[1] = k /\ e[2] = v /\ e = <<k, v>>
      OBVIOUS
    <3>1. e \in Effects
      BY <2>1 DEF IInv, TypeOK
    <3>2. e[1] = k /\ e[2] = v
      BY <2>1 DEF IInv, Executing, ExecutedFor, FirstVersion
    <3> QED  BY <3>1, <3>2 DEF Effects
  <2> HIDE DEF w, k, v
  <2>3. Answered(w, k, v) \/ ~Refused(w, k, v)
    BY <2>2 DEF Answered, Refused
  <2> QED  BY <2>3 DEF w, k, v
<1> QED  BY <1>1, FirstVersionAlways, PTL
=============================================================================
