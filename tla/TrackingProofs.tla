--------------------------- MODULE TrackingProofs ---------------------------
(***************************************************************************)
(* Theorems of Tracking for every set of sessions, items, messages,        *)
(* transactions and requests, and every limit on attempts.                 *)
(***************************************************************************)
EXTENDS Tracking, TLAPS

(***************************************************************************)
(* The inductive invariant.                                                *)
(***************************************************************************)
\* A transaction of a message stands under the key of that message.
Keyed ==
  \A k \in Keys :
    /\ tx[k].source # None => tx[k].source = k
    /\ k \in Sources /\ tx[k].status # "none" => tx[k].source = k

\* Nobody is asked about an item that is still to be processed.
FreshItem(i) ==
  item[i].status = "parsed" =>
    review[i].status = "none" /\ \A k \in Keys : candidate[<<i, k>>].status = "none"
Fresh == \A i \in Items : FreshItem(i)

\* What the attempt that holds the claim has left to do is still to be
\* processed; what other attempts have left need not be.
TodoOf(s, a) ==
  /\ \A i \in run[s][a].todo :
       SessionOf(i) = s /\ (session[s].token = a => item[i].status = "parsed")
  /\ run[s][a].at \in {"posted", "refused", "blocked"} => run[s][a].item \in run[s][a].todo
Todo == \A s \in Sessions, a \in Attempts : TodoOf(s, a)

Requested == \A c \in Clients : client[c].at # "new" => client[c].item \in Items

LinkOf(i) ==
  /\ item[i].status = "accepted" => item[i].tx = SourceOf(i) /\ tx[SourceOf(i)].status # "none"
  /\ item[i].status = "duplicate" => item[i].tx \in Keys /\ candidate[<<i, item[i].tx>>].status = "duplicate"
Links == \A i \in Items : LinkOf(i)

IInv ==
  /\ TypeOK /\ Keyed /\ Fresh /\ Todo /\ Requested /\ Links
  /\ ReviewIsOpen /\ CompleteIsSettled

(***************************************************************************)
(* Facts about the parts of a step.                                        *)
(***************************************************************************)
LEMMA SourcesOfItems ==
  ASSUME TypeOK, NEW i \in Items
  PROVE  SourceOf(i) \in Sources /\ SourceOf(i) \in Keys /\ SessionOf(i) \in Sessions
BY DEF TypeOK, Origins, SourceOf, SessionOf, Keys

\* Goes changes one attempt of one session.
LEMMA GoesRun ==
  ASSUME TypeOK, NEW s \in Sessions, NEW a \in Attempts, NEW todo \in SUBSET Items,
         NEW i \in Items \union {None}, NEW at, [at |-> at, todo |-> todo, item |-> i] \in RunRow,
         Goes(s, a, at, todo, i)
  PROVE  /\ run' \in [Sessions -> [Attempts -> RunRow]]
         /\ run'[s][a] = [at |-> at, todo |-> todo, item |-> i]
         /\ \A t \in Sessions, b \in Attempts : t # s \/ b # a => run'[t][b] = run[t][b]
BY DEF TypeOK, Goes

\* Released changes one session, which nobody holds any longer.
LEMMA ReleasedSession ==
  ASSUME TypeOK, NEW s \in Sessions,
         NEW status \in {"received", "review", "complete", "failed", "cancelled"},
         session' = Released(s, status)
  PROVE  /\ session' \in [Sessions -> SessionRow]
         /\ session'[s].status = status /\ session'[s].token = 0
         /\ \A t \in Sessions : t # s => session'[t] = session[t]
<1>1. AttemptLimit \in Nat
  BY LimitAssumption
<1> QED  BY <1>1 DEF TypeOK, Released, SessionRow

\* With changes the status of some items and nothing else.
LEMMA WithItems ==
  ASSUME TypeOK, NEW is \in SUBSET Items, NEW status \in {"review", "rejected"}, item' = With(is, status)
  PROVE  /\ item' \in [Items -> ItemRow]
         /\ \A i \in Items : i \notin is => item'[i] = item[i]
         /\ \A i \in is : item'[i].status = status
BY DEF TypeOK, With, ItemRow

\* Ask puts items under review, with an open review each.
LEMMA AskItems ==
  ASSUME TypeOK, NEW is \in SUBSET Items, Ask(is)
  PROVE  /\ item' \in [Items -> ItemRow]
         /\ \A i \in Items : i \notin is => item'[i] = item[i] /\ review'[i] = review[i]
         /\ \A i \in is : item'[i].status = "review" /\ review'[i].status = "pending"
         /\ review' \in [Items -> Questions({"none", "pending", "accepted", "rejected"})]
<1>1. item' = With(is, "review")
  BY DEF Ask
<1>2. \A i \in Items : i \notin is => review'[i] = review[i]
  BY DEF Ask
<1>3. \A i \in is : review'[i].status = "pending"
  BY DEF Ask, Asked
<1>4. review' \in [Items -> Questions({"none", "pending", "accepted", "rejected"})]
  <2>1. Asked \in Questions({"none", "pending", "accepted", "rejected"})
    BY DEF Asked, Questions
  <2> QED  BY <2>1 DEF Ask, TypeOK
<1> QED  BY <1>1, <1>2, <1>3, <1>4, WithItems

\* Post adds a transaction under the key of the message, or nothing.
LEMMA PostLedger ==
  ASSUME TypeOK, Keyed, NEW i \in Items, NEW values \in {"proposed", "edited"}, Post(i, values)
  PROVE  /\ tx' \in [Keys -> TransactionRow]
         /\ \A k \in Keys : tx[k].status # "none" => tx'[k] = tx[k]
         /\ tx'[SourceOf(i)].status # "none"
         /\ \A k \in Keys : /\ tx'[k].source # None => tx'[k].source = k
                            /\ k \in Sources /\ tx'[k].status # "none" => tx'[k].source = k
<1>1. SourceOf(i) \in Sources /\ SourceOf(i) \in Keys
  BY SourcesOfItems
<1>2. CASE tx[KeyOf(i)].status # "none"
  BY <1>1, <1>2 DEF Post, KeyOf, Keyed, TypeOK
<1>3. CASE tx[KeyOf(i)].status = "none"
  <2>1. tx' = [tx EXCEPT ![SourceOf(i)] =
                 [status |-> "confirmed", values |-> values, source |-> SourceOf(i)]]
    BY <1>3 DEF Post, KeyOf
  <2>2. tx' \in [Keys -> TransactionRow]
    BY <2>1, <1>1 DEF TypeOK, TransactionRow
  <2>3. \A k \in Keys : k # SourceOf(i) => tx'[k] = tx[k]
    BY <2>1 DEF TypeOK
  <2>4. tx'[SourceOf(i)] = [status |-> "confirmed", values |-> values, source |-> SourceOf(i)]
    BY <2>1, <1>1 DEF TypeOK
  <2> QED  BY <1>1, <1>3, <2>2, <2>3, <2>4 DEF Keyed, KeyOf
<1> QED  BY <1>2, <1>3

(***************************************************************************)
(* Steps that leave the items and the state of every question alone: the   *)
(* claims, leases and failures of sessions, the ledger, the claims of the  *)
(* owner.                                                                  *)
(***************************************************************************)
Busy == {"posted", "refused", "blocked"}
Settled(i) == item[i].status \in {"accepted", "rejected", "duplicate"}
ReviewStates == {"none", "pending", "accepted", "rejected"}
CandidateStates == {"none", "pending", "duplicate", "not_duplicate"}

LEMMA QuietStep ==
  ASSUME IInv, origin' = origin, enabled' \in BOOLEAN, item' = item,
         session' \in [Sessions -> SessionRow], run' \in [Sessions -> [Attempts -> RunRow]],
         tx' \in [Keys -> TransactionRow], client' \in [Clients -> RequestRow],
         review' \in [Items -> Questions(ReviewStates)],
         candidate' \in [Pairs -> Questions(CandidateStates)],
         Keyed', Requested',
         \A i \in Items : review'[i].status = review[i].status,
         \A i \in Items, k \in Keys : candidate'[<<i, k>>].status = candidate[<<i, k>>].status,
         \A k \in Keys : tx[k].status # "none" => tx'[k].status # "none",
         \A s \in Sessions : session'[s].status = "complete" => \A i \in ItemsOf(s) : Settled(i),
         \A s \in Sessions, a \in Attempts :
           /\ run'[s][a].at \in Busy => run'[s][a].item \in run'[s][a].todo
           /\ \/ run'[s][a].todo = {}
              \/ /\ run'[s][a].todo \subseteq run[s][a].todo
                 /\ session'[s].token = a => session[s].token = a
  PROVE  IInv'
<1>1. TypeOK'
  BY DEF IInv, TypeOK, ReviewStates, CandidateStates, Origins
<1>2. Fresh'
  <2> SUFFICES ASSUME NEW i \in Items, item'[i].status = "parsed"
               PROVE  review'[i].status = "none" /\ \A k \in Keys : candidate'[<<i, k>>].status = "none"
    BY DEF Fresh, FreshItem
  <2>1. review[i].status = "none" /\ \A k \in Keys : candidate[<<i, k>>].status = "none"
    BY DEF IInv, Fresh, FreshItem
  <2> QED  BY <2>1
<1>3. Todo'
  <2> SUFFICES ASSUME NEW s \in Sessions, NEW a \in Attempts PROVE TodoOf(s, a)'
    BY DEF Todo
  <2>1. TodoOf(s, a)
    BY DEF IInv, Todo
  <2>2. run'[s][a].at \in {"posted", "refused", "blocked"} => run'[s][a].item \in run'[s][a].todo
    BY DEF Busy
  <2>3. \A i \in run'[s][a].todo : i \in run[s][a].todo /\ (session'[s].token = a => session[s].token = a)
    OBVIOUS
  <2> QED  BY <2>1, <2>2, <2>3 DEF TodoOf, SessionOf
<1>4. Links'
  <2> SUFFICES ASSUME NEW i \in Items PROVE LinkOf(i)'
    BY DEF Links
  <2>1. LinkOf(i)
    BY DEF IInv, Links
  <2>2. SourceOf(i) \in Keys
    BY SourcesOfItems DEF IInv
  <2> QED  BY <2>1, <2>2 DEF LinkOf, SourceOf
<1>5. ReviewIsOpen'
  BY DEF IInv, ReviewIsOpen
<1>6. CompleteIsSettled'
  BY DEF CompleteIsSettled, ItemsOf, SessionOf, Settled
<1> QED  BY <1>1, <1>2, <1>3, <1>4, <1>5, <1>6 DEF IInv

(***************************************************************************)
(* Steps of the worker that holds the claim of a session, on some of its   *)
(* items that are still to be processed.                                   *)
(***************************************************************************)
Untouched(is) ==
  \A i \in Items : i \notin is =>
    /\ item'[i] = item[i] /\ review'[i].status = review[i].status
    /\ \A k \in Keys : candidate'[<<i, k>>].status = candidate[<<i, k>>].status

Processed(is) ==
  \A i \in is :
    /\ item'[i].status \in {"review", "rejected", "accepted"}
    /\ item'[i].status = "review" => review'[i].status = "pending"
    /\ item'[i].status = "accepted" => item'[i].tx = SourceOf(i) /\ tx[SourceOf(i)].status # "none"

Worked(s, a, is) ==
  /\ run' \in [Sessions -> [Attempts -> RunRow]]
  /\ \A t \in Sessions, b \in Attempts : t # s \/ b # a => run'[t][b] = run[t][b]
  /\ run'[s][a].todo \subseteq Parsed(s) \ is
  /\ run'[s][a].at \in Busy => run'[s][a].item \in run'[s][a].todo

LEMMA ProcessStep ==
  ASSUME IInv, NEW s \in Sessions, NEW a \in Attempts, session[s].token = a,
         NEW is \in SUBSET Parsed(s),
         UNCHANGED <<origin, enabled, session, tx, client>>,
         item' \in [Items -> ItemRow],
         review' \in [Items -> Questions(ReviewStates)],
         candidate' \in [Pairs -> Questions(CandidateStates)],
         Untouched(is), Processed(is), Worked(s, a, is)
  PROVE  IInv'
<1> USE DEF Untouched, Processed, Worked
<1>1. TypeOK'
  BY DEF IInv, TypeOK, ReviewStates, CandidateStates, Origins
<1>2. \A i \in is : i \in Items /\ SessionOf(i) = s /\ item[i].status = "parsed" /\ item'[i].status # "parsed"
  BY DEF Parsed, ItemsOf
<1>3. Fresh'
  BY <1>2 DEF IInv, Fresh, FreshItem
<1>4. Todo'
  <2> SUFFICES ASSUME NEW t \in Sessions, NEW b \in Attempts PROVE TodoOf(t, b)'
    BY DEF Todo
  <2>1. TodoOf(t, b) /\ run[t][b].todo \subseteq Items
    BY DEF IInv, Todo, TypeOK, RunRow
  <2>2. CASE t = s /\ b = a
    <3>1. \A i \in run'[s][a].todo : i \in Items /\ i \notin is /\ SessionOf(i) = s /\ item[i].status = "parsed"
      BY DEF Parsed, ItemsOf
    <3>2. \A i \in run'[s][a].todo : item'[i].status = "parsed"
      BY <3>1
    <3> QED  BY <2>2, <3>1, <3>2 DEF TodoOf, SessionOf, Busy
  <2>3. CASE ~(t = s /\ b = a)
    <3>1. run'[t][b] = run[t][b] /\ session' = session
      BY <2>3
    <3>2. ASSUME NEW i \in run[t][b].todo, session[t].token = b PROVE item'[i].status = "parsed"
      <4>1. SessionOf(i) = t /\ item[i].status = "parsed" /\ i \in Items
        BY <2>1, <3>2 DEF TodoOf
      <4>2. i \notin is
        BY <1>2, <2>3, <3>2, <4>1
      <4> QED  BY <4>1, <4>2
    <3> QED  BY <2>1, <3>1, <3>2 DEF TodoOf, SessionOf
  <2> QED  BY <2>2, <2>3
<1>5. Keyed' /\ Requested'
  BY DEF IInv, Keyed, Requested
<1>6. Links'
  <2> SUFFICES ASSUME NEW i \in Items PROVE LinkOf(i)'
    BY DEF Links
  <2>1. LinkOf(i)
    BY DEF IInv, Links
  <2>2. CASE i \in is
    BY <2>2 DEF LinkOf, SourceOf
  <2>3. CASE i \notin is
    <3>1. item'[i] = item[i] /\ \A k \in Keys : candidate'[<<i, k>>].status = candidate[<<i, k>>].status
      BY <2>3
    <3>2. SourceOf(i)' = SourceOf(i) /\ tx' = tx
      BY DEF SourceOf
    <3> HIDE <2>3
    <3>3. item[i].status = "duplicate" => candidate'[<<i, item[i].tx>>].status = "duplicate"
      BY <2>1, <3>1 DEF LinkOf
    <3> QED  BY <2>1, <3>1, <3>2, <3>3 DEF LinkOf
  <2> QED  BY <2>2, <2>3
<1>7. ReviewIsOpen'
  BY DEF IInv, ReviewIsOpen
<1>8. CompleteIsSettled'
  BY <1>2 DEF IInv, CompleteIsSettled, ItemsOf, SessionOf
<1> QED  BY <1>1, <1>3, <1>4, <1>5, <1>6, <1>7, <1>8 DEF IInv

(***************************************************************************)
(* The sessions.                                                           *)
(***************************************************************************)
LEMMA Numbers == /\ AttemptLimit \in Nat /\ 0 \notin Attempts
                 /\ \A a \in Attempts : a \in 0..AttemptLimit
BY LimitAssumption DEF Attempts

\* An idle attempt has nothing to do.
LEMMA IdleRun ==
  ASSUME NEW at \in {"none", "claimed", "prepared", "working", "ended"}, NEW todo \in SUBSET Items
  PROVE  [at |-> at, todo |-> todo, item |-> None] \in RunRow /\ at \notin Busy
BY DEF RunRow, Busy

LEMMA ClaimStep ==
  ASSUME IInv, NEW s \in Sessions, Claim(s)
  PROVE  IInv'
<1> DEFINE a == session[s].attempts + 1
<1>1. TypeOK
  BY DEF IInv
<1>2. session[s] \in SessionRow
  BY <1>1 DEF TypeOK
<1>3. a \in Attempts /\ a \in 0..AttemptLimit
  BY <1>2, Numbers DEF Claim, Attempts, SessionRow
<1>4. session' = [session EXCEPT ![s] =
                    [status |-> "processing", attempts |-> a, token |-> a, live |-> TRUE]]
  BY DEF Claim
<1>5. Goes(s, a, "claimed", {}, None)
  BY DEF Claim
<1> HIDE DEF a
<1>6. /\ session' \in [Sessions -> SessionRow]
      /\ session'[s].status = "processing" /\ session'[s].token = a
      /\ \A t \in Sessions : t # s => session'[t] = session[t]
  BY <1>1, <1>3, <1>4 DEF TypeOK, SessionRow
<1>7. /\ run' \in [Sessions -> [Attempts -> RunRow]]
      /\ run'[s][a] = [at |-> "claimed", todo |-> {}, item |-> None]
      /\ \A t \in Sessions, b \in Attempts : t # s \/ b # a => run'[t][b] = run[t][b]
  BY <1>1, <1>3, <1>5, IdleRun, GoesRun
<1>8. \A t \in Sessions : session'[t].status = "complete" => \A i \in ItemsOf(t) : Settled(i)
  BY <1>6 DEF IInv, CompleteIsSettled, Settled
<1>9. ASSUME NEW t \in Sessions, NEW b \in Attempts
      PROVE  /\ run'[t][b].at \in Busy => run'[t][b].item \in run'[t][b].todo
             /\ \/ run'[t][b].todo = {}
                \/ /\ run'[t][b].todo \subseteq run[t][b].todo
                   /\ session'[t].token = b => session[t].token = b
  <2>1. CASE t = s /\ b = a
    BY <1>7, <2>1 DEF Busy
  <2>2. CASE ~(t = s /\ b = a)
    <3>1. run'[t][b] = run[t][b] /\ TodoOf(t, b)
      BY <1>7, <2>2 DEF IInv, Todo
    <3>2. session'[t].token = b => session[t].token = b
      BY <1>6, <2>2
    <3> QED  BY <3>1, <3>2 DEF TodoOf, Busy
  <2> QED  BY <2>1, <2>2
<1> QED
  BY <1>1, <1>6, <1>7, <1>8, <1>9, QuietStep
  DEF IInv, TypeOK, Claim, Keyed, Requested, ReviewStates, CandidateStates

\* A session that is released, or whose lease runs out, by whatever the
\* attempts do that end or go on.
LEMMA SessionStep ==
  ASSUME IInv, UNCHANGED <<origin, enabled, item, review, candidate, tx, client>>,
         session' \in [Sessions -> SessionRow], run' \in [Sessions -> [Attempts -> RunRow]],
         \A t \in Sessions : session'[t].token = 0 \/ session'[t].token = session[t].token,
         \A t \in Sessions : session'[t].status = "complete" =>
           session[t].status = "complete" \/ \A i \in ItemsOf(t) : Settled(i),
         \A t \in Sessions, b \in Attempts :
           \/ run'[t][b] = run[t][b]
           \/ /\ run'[t][b].todo \subseteq run[t][b].todo
              /\ run'[t][b].at \in Busy => run'[t][b].item \in run'[t][b].todo
  PROVE  IInv'
<1>1. \A t \in Sessions : session'[t].status = "complete" => \A i \in ItemsOf(t) : Settled(i)
  BY DEF IInv, CompleteIsSettled, Settled
<1>2. \A t \in Sessions, b \in Attempts :
        /\ run'[t][b].at \in Busy => run'[t][b].item \in run'[t][b].todo
        /\ \/ run'[t][b].todo = {}
           \/ /\ run'[t][b].todo \subseteq run[t][b].todo
              /\ session'[t].token = b => session[t].token = b
  BY Numbers DEF IInv, Todo, TodoOf, Busy
<1> QED
  BY <1>1, <1>2, QuietStep DEF IInv, TypeOK, Keyed, Requested, ReviewStates, CandidateStates

LEMMA LeaseStep ==
  ASSUME IInv, NEW s \in Sessions, ExpireLease(s) \/ Cancel(s) \/ Retry(s)
  PROVE  IInv'
<1>1. TypeOK
  BY DEF IInv
<1>2. CASE ExpireLease(s)
  <2>1. session' \in [Sessions -> SessionRow]
    BY <1>1, <1>2 DEF ExpireLease, TypeOK, SessionRow
  <2>2. \A t \in Sessions : session'[t].token = session[t].token /\ session'[t].status = session[t].status
    BY <1>1, <1>2 DEF ExpireLease, TypeOK, SessionRow
  <2> QED  BY <1>1, <1>2, <2>1, <2>2, SessionStep DEF ExpireLease, TypeOK
<1>3. CASE Cancel(s)
  BY <1>1, <1>3, ReleasedSession, SessionStep DEF Cancel, TypeOK
<1>4. CASE Retry(s)
  BY <1>1, <1>4, ReleasedSession, SessionStep DEF Retry, TypeOK
<1> QED  BY <1>2, <1>3, <1>4

LEMMA EndStep ==
  ASSUME IInv, NEW s \in Sessions, NEW a \in Attempts, Complete(s, a) \/ Fail(s, a) \/ Stop(s, a)
  PROVE  IInv'
<1>1. TypeOK
  BY DEF IInv
<1>2. Goes(s, a, "ended", {}, None)
  BY DEF Complete, Fail, Stop
<1>3. /\ run' \in [Sessions -> [Attempts -> RunRow]]
      /\ run'[s][a] = [at |-> "ended", todo |-> {}, item |-> None]
      /\ \A t \in Sessions, b \in Attempts : t # s \/ b # a => run'[t][b] = run[t][b]
  BY <1>1, <1>2, IdleRun, GoesRun
<1>4. \A t \in Sessions, b \in Attempts :
        \/ run'[t][b] = run[t][b]
        \/ /\ run'[t][b].todo \subseteq run[t][b].todo
           /\ run'[t][b].at \in Busy => run'[t][b].item \in run'[t][b].todo
  BY <1>3 DEF Busy
<1>5. CASE Complete(s, a)
  <2>1. session' = Released(s, Outcome(s)) /\ Outcome(s) \in {"review", "complete"}
    BY <1>5 DEF Complete, Outcome
  <2>2. /\ session' \in [Sessions -> SessionRow]
        /\ session'[s].status = Outcome(s) /\ session'[s].token = 0
        /\ \A t \in Sessions : t # s => session'[t] = session[t]
    BY <1>1, <2>1, ReleasedSession
  <2>3. Outcome(s) = "complete" => \A i \in ItemsOf(s) : Settled(i)
    BY <1>1 DEF Outcome, Settled, TypeOK, ItemRow, ItemsOf
  <2> QED  BY <1>3, <1>4, <1>5, <2>2, <2>3, SessionStep DEF Complete
<1>6. CASE Fail(s, a)
  <2>1. PICK status \in {"failed", "received"} : session' = Released(s, status)
    BY <1>6 DEF Fail
  <2>2. /\ session' \in [Sessions -> SessionRow]
        /\ session'[s].status = status /\ session'[s].token = 0
        /\ \A t \in Sessions : t # s => session'[t] = session[t]
    BY <1>1, <2>1, ReleasedSession
  <2> QED  BY <1>3, <1>4, <1>6, <2>2, SessionStep DEF Fail
<1>7. CASE Stop(s, a)
  BY <1>1, <1>3, <1>4, <1>7, SessionStep DEF Stop, TypeOK
<1> QED  BY <1>5, <1>6, <1>7

LEMMA RefuseStep ==
  ASSUME IInv, NEW s \in Sessions, NEW a \in Attempts, NEW i \in Items, NEW why \in {"refused", "blocked"},
         Refuse(s, a, i, why)
  PROVE  IInv'
<1>1. TypeOK /\ run[s][a].todo \in SUBSET Items /\ i \in run[s][a].todo
  BY DEF IInv, TypeOK, RunRow, Refuse
<1>2. [at |-> why, todo |-> run[s][a].todo, item |-> i] \in RunRow /\ Goes(s, a, why, run[s][a].todo, i)
  BY <1>1 DEF RunRow, Refuse
<1>3. /\ run' \in [Sessions -> [Attempts -> RunRow]]
      /\ run'[s][a] = [at |-> why, todo |-> run[s][a].todo, item |-> i]
      /\ \A t \in Sessions, b \in Attempts : t # s \/ b # a => run'[t][b] = run[t][b]
  BY <1>1, <1>2, GoesRun
<1> QED  BY <1>1, <1>3, SessionStep DEF Refuse, TypeOK

(***************************************************************************)
(* The ledger and the owner.                                               *)
(***************************************************************************)
\* The ledger, or the requests of the owner, change; questions keep their
\* state; attempts stay where they are, or have posted what they should.
LEMMA OwnerStep ==
  ASSUME IInv, UNCHANGED <<origin, session, item>>, enabled' \in BOOLEAN,
         tx' \in [Keys -> TransactionRow], client' \in [Clients -> RequestRow],
         run' \in [Sessions -> [Attempts -> RunRow]],
         review' \in [Items -> Questions(ReviewStates)],
         candidate' \in [Pairs -> Questions(CandidateStates)],
         Keyed', Requested',
         \A i \in Items : review'[i].status = review[i].status,
         \A i \in Items, k \in Keys : candidate'[<<i, k>>].status = candidate[<<i, k>>].status,
         \A k \in Keys : tx[k].status # "none" => tx'[k].status # "none",
         \A t \in Sessions, b \in Attempts :
           \/ run'[t][b] = run[t][b]
           \/ run'[t][b].todo = run[t][b].todo /\ run'[t][b].item \in run'[t][b].todo
  PROVE  IInv'
<1>1. \A t \in Sessions : session'[t].status = "complete" => \A i \in ItemsOf(t) : Settled(i)
  BY DEF IInv, CompleteIsSettled, Settled
<1>2. \A t \in Sessions, b \in Attempts :
        /\ run'[t][b].at \in Busy => run'[t][b].item \in run'[t][b].todo
        /\ \/ run'[t][b].todo = {}
           \/ /\ run'[t][b].todo \subseteq run[t][b].todo
              /\ session'[t].token = b => session[t].token = b
  BY DEF IInv, Todo, TodoOf, Busy
<1>3. session' \in [Sessions -> SessionRow]
  BY DEF IInv, TypeOK
<1> QED  BY <1>1, <1>2, <1>3, QuietStep

LEMMA LedgerStep ==
  ASSUME IInv, NEW k \in Keys,
         Delete(k) \/ Restore(k) \/ (k \in Manual /\ AddManual(k))
  PROVE  IInv'
<1>1. TypeOK /\ Keyed /\ Requested
  BY DEF IInv
<1>2. UNCHANGED <<origin, session, item, review, candidate, run, client>> /\ enabled' \in BOOLEAN
  BY <1>1 DEF Delete, Restore, AddManual, TypeOK
<1>3. ASSUME NEW status \in {"confirmed", "deleted"}, tx' = [tx EXCEPT ![k].status = status],
             tx[k].status # "none" \/ k \in Manual
      PROVE  IInv'
  <2>1. tx' \in [Keys -> TransactionRow]
    BY <1>1, <1>3 DEF TypeOK, TransactionRow
  <2>2. \A l \in Keys : tx'[l].source = tx[l].source /\ (l # k => tx'[l] = tx[l])
    BY <1>1, <1>3 DEF TypeOK, TransactionRow
  <2>3. tx'[k].status = status
    BY <1>1, <1>3 DEF TypeOK, TransactionRow
  <2>4. Keyed'
    BY <1>1, <1>3, <2>2, KeysAssumption DEF Keyed
  <2> QED  BY <1>1, <1>2, <2>1, <2>2, <2>3, <2>4, OwnerStep DEF TypeOK, Requested, ReviewStates, CandidateStates
<1> QED  BY <1>3 DEF Delete, Restore, AddManual, Confirmed

LEMMA SetTrackingStep == ASSUME IInv, SetTracking PROVE IInv'
BY OwnerStep DEF SetTracking, IInv, TypeOK, Keyed, Requested, ReviewStates, CandidateStates

LEMMA PostItemStep ==
  ASSUME IInv, NEW s \in Sessions, NEW a \in Attempts, NEW i \in Items, PostItem(s, a, i)
  PROVE  IInv'
<1>1. TypeOK /\ Keyed /\ Requested /\ run[s][a].todo \in SUBSET Items /\ i \in run[s][a].todo
  BY DEF IInv, TypeOK, RunRow, PostItem
<1>2. [at |-> "posted", todo |-> run[s][a].todo, item |-> i] \in RunRow
  BY <1>1 DEF RunRow
<1>3. Goes(s, a, "posted", run[s][a].todo, i) /\ Post(i, "proposed")
  BY DEF PostItem
<1>4. /\ run' \in [Sessions -> [Attempts -> RunRow]]
      /\ run'[s][a] = [at |-> "posted", todo |-> run[s][a].todo, item |-> i]
      /\ \A t \in Sessions, b \in Attempts : t # s \/ b # a => run'[t][b] = run[t][b]
  BY <1>1, <1>2, <1>3, GoesRun
<1>5. /\ tx' \in [Keys -> TransactionRow]
      /\ \A k \in Keys : tx[k].status # "none" => tx'[k] = tx[k]
      /\ Keyed'
  BY <1>1, <1>3, PostLedger DEF Keyed
<1> QED
  BY <1>1, <1>4, <1>5, OwnerStep DEF PostItem, TypeOK, Requested, ReviewStates, CandidateStates

LEMMA PostDecisionStep ==
  ASSUME IInv, NEW c \in Clients, PostDecision(c)
  PROVE  IInv'
<1>1. TypeOK /\ Keyed /\ Requested /\ client[c].at = "claimed"
  BY DEF IInv, PostDecision
<1>2. client[c].item \in Items /\ Values(client[c].action) \in {"proposed", "edited"}
  BY <1>1 DEF Requested, Values
<1>3. /\ tx' \in [Keys -> TransactionRow]
      /\ \A k \in Keys : tx[k].status # "none" => tx'[k] = tx[k]
      /\ Keyed'
  BY <1>1, <1>2, PostLedger DEF Keyed, PostDecision
<1>4. client' = [client EXCEPT ![c].at = "posted"]
  BY DEF PostDecision
<1>5. client' \in [Clients -> RequestRow]
  BY <1>1, <1>4 DEF TypeOK, RequestRow
<1>6. Requested'
  BY <1>1, <1>2, <1>4 DEF Requested, TypeOK, RequestRow
<1> QED
  BY <1>1, <1>3, <1>5, <1>6, OwnerStep DEF PostDecision, TypeOK, ReviewStates, CandidateStates

LEMMA ClaimReviewStep ==
  ASSUME IInv, NEW c \in Clients, NEW i \in Items, NEW action \in ReviewActions, ClaimReview(c, i, action)
  PROVE  IInv'
<1>1. TypeOK /\ Keyed /\ Requested /\ review[i].status = "pending"
  BY DEF IInv, ClaimReview, Free
<1>2. review' = [review EXCEPT ![i] = [status |-> review[i].status, by |-> c, live |-> TRUE]]
  BY DEF ClaimReview, Claimed
<1>3. review' \in [Items -> Questions(ReviewStates)]
  BY <1>1, <1>2 DEF TypeOK, Questions, ReviewStates
<1>4. \A j \in Items : review'[j].status = review[j].status
  BY <1>1, <1>2 DEF TypeOK, Questions
<1>5. client' = [client EXCEPT ![c] = [at |-> "claimed", item |-> i, other |-> None, action |-> action]]
  BY DEF ClaimReview
<1>6. client' \in [Clients -> RequestRow] /\ Requested'
  BY <1>1, <1>5 DEF TypeOK, RequestRow, Requested
<1> QED
  BY <1>1, <1>3, <1>4, <1>6, OwnerStep DEF ClaimReview, TypeOK, Keyed, CandidateStates

LEMMA ClaimDuplicateStep ==
  ASSUME IInv, NEW c \in Clients, NEW i \in Items, NEW k \in Keys, NEW action \in Resolutions,
         ClaimDuplicate(c, i, k, action)
  PROVE  IInv'
<1>1. TypeOK /\ Keyed /\ Requested /\ <<i, k>> \in Pairs
  BY DEF IInv, Pairs
<1>2. candidate' = [candidate EXCEPT ![<<i, k>>] =
                      [status |-> candidate[<<i, k>>].status, by |-> c, live |-> TRUE]]
  BY DEF ClaimDuplicate, Claimed
<1>3. candidate' \in [Pairs -> Questions(CandidateStates)]
  BY <1>1, <1>2 DEF TypeOK, Questions, CandidateStates
<1>4. \A p \in Pairs : candidate'[p].status = candidate[p].status
  BY <1>1, <1>2 DEF TypeOK, Questions
<1>5. \A j \in Items, l \in Keys : candidate'[<<j, l>>].status = candidate[<<j, l>>].status
  BY <1>4 DEF Pairs
<1>6. client' = [client EXCEPT ![c] = [at |-> "claimed", item |-> i, other |-> k, action |-> action]]
  BY DEF ClaimDuplicate
<1>7. client' \in [Clients -> RequestRow] /\ Requested'
  BY <1>1, <1>6 DEF TypeOK, RequestRow, Requested
<1> QED
  BY <1>1, <1>3, <1>5, <1>7, OwnerStep DEF ClaimDuplicate, TypeOK, Keyed, ReviewStates

\* The question of a request is claimed again, or its claim runs out.
LEMMA RepeatStep ==
  ASSUME IInv, NEW c \in Clients, Repeat(c) \/ ExpireDecision(c)
  PROVE  IInv'
<1>1. TypeOK /\ Keyed /\ Requested /\ client[c].at # "new" /\ Question(c).status = "pending"
  BY DEF IInv, Repeat, ExpireDecision, Holder
<1>2. client[c].item \in Items /\ client[c].other \in Keys \union {None}
  BY <1>1 DEF Requested, TypeOK, RequestRow
<1> DEFINE q == IF Repeat(c) THEN Claimed(Question(c), c) ELSE Answered(Question(c), "pending")
<1>3. Asks(c, q) /\ q.status = "pending" /\ q.live \in BOOLEAN /\ q.by \in Clients \union {None}
      /\ q = [status |-> q.status, by |-> q.by, live |-> q.live]
  <2>1. Question(c).by \in Clients \union {None}
    <3>1. CASE IsReview(c)
      BY <1>1, <1>2, <3>1 DEF Question, TypeOK, Questions
    <3>2. CASE ~IsReview(c)
      <4>1. <<client[c].item, client[c].other>> \in Pairs
        BY <1>2, <3>2 DEF IsReview, Pairs
      <4> QED  BY <1>1, <3>2, <4>1 DEF Question, TypeOK, Questions
    <3> QED  BY <3>1, <3>2
  <2>2. CASE Repeat(c)
    <3>1. q = Claimed(Question(c), c) /\ Asks(c, Claimed(Question(c), c))
      BY <2>2 DEF Repeat
    <3>2. Asks(c, q)
      BY <3>1
    <3>3. q = [status |-> "pending", by |-> c, live |-> TRUE]
      BY <1>1, <3>1 DEF Claimed
    <3> HIDE DEF q
    <3> QED  BY <3>2, <3>3
  <2>3. CASE ~Repeat(c)
    <3>1. q = Answered(Question(c), "pending") /\ Asks(c, Answered(Question(c), "pending"))
      BY <2>3 DEF ExpireDecision
    <3>2. Asks(c, q)
      BY <3>1
    <3>3. q = [status |-> "pending", by |-> Question(c).by, live |-> FALSE]
      BY <3>1 DEF Answered
    <3> HIDE DEF q
    <3> QED  BY <2>1, <3>2, <3>3
  <2> QED  BY <2>2, <2>3
<1> HIDE DEF q
<1>4. q \in Questions(ReviewStates) /\ q \in Questions(CandidateStates)
  BY <1>3 DEF Questions, ReviewStates, CandidateStates
<1>5. client' \in [Clients -> RequestRow] /\ Requested'
  <2>1. CASE Repeat(c)
    <3>1. client' = [client EXCEPT ![c].at = "claimed"]
      BY <2>1 DEF Repeat
    <3>2. client' \in [Clients -> RequestRow]
      BY <1>1, <3>1 DEF TypeOK, RequestRow
    <3>3. Requested'
      BY <1>1, <1>2, <3>1 DEF Requested, TypeOK, RequestRow
    <3> QED  BY <3>2, <3>3
  <2>2. CASE ExpireDecision(c)
    BY <1>1, <2>2 DEF ExpireDecision, Requested, TypeOK
  <2> QED  BY <2>1, <2>2
<1>6. UNCHANGED <<origin, enabled, session, item, tx, run>>
  BY DEF Repeat, ExpireDecision
<1>7. CASE IsReview(c)
  <2>1. review' = [review EXCEPT ![client[c].item] = q] /\ candidate' = candidate
    BY <1>3, <1>7 DEF Asks
  <2>2. review[client[c].item].status = "pending"
    BY <1>1, <1>7 DEF Question
  <2>3. review' \in [Items -> Questions(ReviewStates)] /\ \A i \in Items : review'[i].status = review[i].status
    BY <1>1, <1>2, <1>3, <1>4, <2>1, <2>2 DEF TypeOK, ReviewStates
  <2> QED  BY <1>1, <1>5, <1>6, <2>1, <2>3, OwnerStep DEF TypeOK, Keyed, CandidateStates
<1>8. CASE ~IsReview(c)
  <2>1. <<client[c].item, client[c].other>> \in Pairs
    BY <1>2, <1>8 DEF IsReview, Pairs
  <2>2. candidate' = [candidate EXCEPT ![<<client[c].item, client[c].other>>] = q] /\ review' = review
    BY <1>3, <1>8 DEF Asks
  <2>3. candidate[<<client[c].item, client[c].other>>].status = "pending"
    BY <1>1, <1>8 DEF Question
  <2>4. /\ candidate' \in [Pairs -> Questions(CandidateStates)]
        /\ \A p \in Pairs : candidate'[p].status = candidate[p].status
    BY <1>1, <1>3, <1>4, <2>1, <2>2, <2>3 DEF TypeOK, CandidateStates
  <2>5. \A i \in Items, k \in Keys : candidate'[<<i, k>>].status = candidate[<<i, k>>].status
    BY <2>4 DEF Pairs
  <2> QED  BY <1>1, <1>5, <1>6, <2>2, <2>4, <2>5, OwnerStep DEF TypeOK, Keyed, ReviewStates
<1> QED  BY <1>7, <1>8

(***************************************************************************)
(* The worker.                                                             *)
(***************************************************************************)
\* What the holder of the claim has left to do is parsed.
LEMMA TodoParsed ==
  ASSUME IInv, NEW s \in Sessions, NEW a \in Attempts, Holds(s, a)
  PROVE  /\ session[s].token = a
         /\ run[s][a].todo \subseteq Parsed(s)
         /\ run[s][a].at \in Busy => run[s][a].item \in run[s][a].todo
<1>1. TodoOf(s, a) /\ run[s][a].todo \subseteq Items /\ session[s].token = a
  BY DEF IInv, Todo, TypeOK, RunRow, Holds
<1> QED  BY <1>1 DEF TodoOf, Parsed, ItemsOf, Busy

LEMMA PrepareStep ==
  ASSUME IInv, NEW s \in Sessions, NEW a \in Attempts, Prepare(s, a)
  PROVE  IInv'
<1>1. TypeOK /\ session[s].token = a /\ Parsed(s) \in SUBSET Items
  BY DEF IInv, Prepare, Holds, Parsed, ItemsOf
<1>2. Goes(s, a, "prepared", {}, None)
  BY DEF Prepare
<1>3. /\ run' \in [Sessions -> [Attempts -> RunRow]]
      /\ run'[s][a] = [at |-> "prepared", todo |-> {}, item |-> None]
      /\ \A t \in Sessions, b \in Attempts : t # s \/ b # a => run'[t][b] = run[t][b]
  BY <1>1, <1>2, IdleRun, GoesRun
<1>4. run'[s][a].todo = {} /\ run'[s][a].at \notin Busy
  BY <1>3 DEF Busy
<1>5. UNCHANGED <<origin, enabled, session, review, candidate, tx, client>>
  BY DEF Prepare
<1>6. /\ review' \in [Items -> Questions(ReviewStates)]
      /\ candidate' \in [Pairs -> Questions(CandidateStates)]
  BY <1>1, <1>5 DEF TypeOK, ReviewStates, CandidateStates
<1>7. CASE enabled
  <2>1. item' = item
    BY <1>7 DEF Prepare
  <2>2. {} \in SUBSET Parsed(s) /\ item' \in [Items -> ItemRow]
    BY <2>1, <1>1 DEF TypeOK
  <2>3. Untouched({}) /\ Processed({})
    BY <1>5, <2>1 DEF Untouched, Processed
  <2>4. Worked(s, a, {})
    BY <1>3, <1>4 DEF Worked
  <2> QED  BY <1>1, <1>5, <1>6, <2>2, <2>3, <2>4, ProcessStep
<1>8. CASE ~enabled
  <2>1. item' = With(Parsed(s), "rejected")
    BY <1>8 DEF Prepare
  <2>2. /\ item' \in [Items -> ItemRow]
        /\ \A i \in Items : i \notin Parsed(s) => item'[i] = item[i]
        /\ \A i \in Parsed(s) : item'[i].status = "rejected"
    BY <1>1, <2>1, WithItems
  <2>3. Untouched(Parsed(s)) /\ Processed(Parsed(s))
    BY <1>5, <2>2 DEF Untouched, Processed
  <2>4. Worked(s, a, Parsed(s))
    BY <1>3, <1>4 DEF Worked
  <2> QED  BY <1>1, <1>5, <1>6, <2>2, <2>3, <2>4, ProcessStep
<1> QED  BY <1>7, <1>8

LEMMA FinalizeStep ==
  ASSUME IInv, NEW s \in Sessions, NEW a \in Attempts, NEW unsure \in SUBSET Parsed(s),
         Finalize(s, a, unsure)
  PROVE  IInv'
<1> DEFINE asked == unsure \union {i \in Parsed(s) : Proposed(i) # {}}
<1>1. TypeOK /\ session[s].token = a /\ Parsed(s) \in SUBSET Items
  BY DEF IInv, Finalize, Holds, Parsed, ItemsOf
<1>2. asked \in SUBSET Parsed(s) /\ asked \in SUBSET Items
  BY <1>1
<1>3. \A i \in Parsed(s) : i \notin asked => Proposed(i) = {}
  OBVIOUS
<1>4. UNCHANGED <<origin, enabled, session, tx, client>>
  BY DEF Finalize
<1>5. enabled => /\ Ask(asked)
                 /\ candidate' = [p \in Pairs |->
                      IF p[1] \in Parsed(s) /\ p[2] \in Proposed(p[1]) /\ candidate[p].status = "none"
                      THEN Asked ELSE candidate[p]]
                 /\ Goes(s, a, "working", Parsed(s) \ asked, None)
  BY DEF Finalize
<1> HIDE DEF asked
<1>6. CASE enabled
  <2>1. /\ item' \in [Items -> ItemRow]
        /\ \A i \in Items : i \notin asked => item'[i] = item[i] /\ review'[i] = review[i]
        /\ \A i \in asked : item'[i].status = "review" /\ review'[i].status = "pending"
        /\ review' \in [Items -> Questions(ReviewStates)]
    BY <1>1, <1>2, <1>5, <1>6, AskItems DEF ReviewStates
  <2>2. /\ run' \in [Sessions -> [Attempts -> RunRow]]
        /\ run'[s][a] = [at |-> "working", todo |-> Parsed(s) \ asked, item |-> None]
        /\ \A t \in Sessions, b \in Attempts : t # s \/ b # a => run'[t][b] = run[t][b]
    BY <1>1, <1>2, <1>5, <1>6, IdleRun, GoesRun
  <2>3. candidate' = [p \in Pairs |->
          IF p[1] \in Parsed(s) /\ p[2] \in Proposed(p[1]) /\ candidate[p].status = "none"
          THEN Asked ELSE candidate[p]]
    BY <1>5, <1>6
  <2>4. candidate' \in [Pairs -> Questions(CandidateStates)]
    <3>1. Asked \in Questions(CandidateStates)
      BY DEF Asked, Questions, CandidateStates
    <3>2. \A p \in Pairs : candidate[p] \in Questions(CandidateStates)
      BY <1>1 DEF TypeOK, CandidateStates
    <3> QED  BY <2>3, <3>1, <3>2
  <2>5. \A i \in Items, k \in Keys : i \notin asked => candidate'[<<i, k>>] = candidate[<<i, k>>]
    <3> SUFFICES ASSUME NEW i \in Items, NEW k \in Keys, i \notin asked
                 PROVE  candidate'[<<i, k>>] = candidate[<<i, k>>]
      OBVIOUS
    <3>1. <<i, k>> \in Pairs
      BY DEF Pairs
    <3>2. ~(i \in Parsed(s) /\ k \in Proposed(i))
      BY <1>3
    <3> QED  BY <2>3, <3>1, <3>2
  <2>6. run'[s][a].todo = Parsed(s) \ asked /\ run'[s][a].at \notin Busy
    BY <2>2 DEF Busy
  <2>7. Untouched(asked) /\ Processed(asked)
    BY <1>2, <2>1, <2>5 DEF Untouched, Processed
  <2>8. Worked(s, a, asked)
    BY <2>2, <2>6 DEF Worked
  <2> QED  BY <1>1, <1>2, <1>4, <2>1, <2>4, <2>7, <2>8, ProcessStep
<1>7. CASE ~enabled
  <2>1. item' = With(Parsed(s), "rejected") /\ Goes(s, a, "working", {}, None) /\ UNCHANGED <<review, candidate>>
    BY <1>7 DEF Finalize, questions
  <2>2. /\ item' \in [Items -> ItemRow]
        /\ \A i \in Items : i \notin Parsed(s) => item'[i] = item[i]
        /\ \A i \in Parsed(s) : item'[i].status = "rejected"
    BY <1>1, <2>1, WithItems
  <2>3. /\ run' \in [Sessions -> [Attempts -> RunRow]]
        /\ run'[s][a] = [at |-> "working", todo |-> {}, item |-> None]
        /\ \A t \in Sessions, b \in Attempts : t # s \/ b # a => run'[t][b] = run[t][b]
    BY <1>1, <2>1, IdleRun, GoesRun
  <2>4. run'[s][a].todo = {} /\ run'[s][a].at \notin Busy
    BY <2>3 DEF Busy
  <2>5. /\ review' \in [Items -> Questions(ReviewStates)]
        /\ candidate' \in [Pairs -> Questions(CandidateStates)]
    BY <1>1, <2>1 DEF TypeOK, ReviewStates, CandidateStates
  <2>6. Untouched(Parsed(s)) /\ Processed(Parsed(s))
    BY <2>1, <2>2 DEF Untouched, Processed
  <2>7. Worked(s, a, Parsed(s))
    BY <2>3, <2>4 DEF Worked
  <2> QED  BY <1>1, <1>4, <2>2, <2>5, <2>6, <2>7, ProcessStep
<1> QED  BY <1>6, <1>7

\* Proceed takes the item the attempt is at from what it has left to do.
LEMMA ProceedRun ==
  ASSUME IInv, NEW s \in Sessions, NEW a \in Attempts, Holds(s, a), run[s][a].at \in Busy, Proceed(s, a)
  PROVE  /\ run' \in [Sessions -> [Attempts -> RunRow]]
         /\ \A t \in Sessions, b \in Attempts : t # s \/ b # a => run'[t][b] = run[t][b]
         /\ run'[s][a].todo \subseteq Parsed(s) \ {run[s][a].item}
         /\ run'[s][a].at \notin Busy
         /\ run[s][a].item \in Parsed(s)
<1> DEFINE left == run[s][a].todo \ {run[s][a].item}
<1>1. TypeOK /\ run[s][a].todo \subseteq Items
  BY DEF IInv, TypeOK, RunRow
<1>2. Goes(s, a, "working", left, None) /\ left \in SUBSET Items
  BY <1>1 DEF Proceed
<1> HIDE DEF left
<1>3. /\ run' \in [Sessions -> [Attempts -> RunRow]]
      /\ run'[s][a] = [at |-> "working", todo |-> left, item |-> None]
      /\ \A t \in Sessions, b \in Attempts : t # s \/ b # a => run'[t][b] = run[t][b]
  BY <1>1, <1>2, IdleRun, GoesRun
<1>4. left \subseteq Parsed(s) \ {run[s][a].item} /\ run[s][a].item \in Parsed(s)
  BY TodoParsed DEF left
<1> QED  BY <1>3, <1>4 DEF Busy

LEMMA AcceptStep ==
  ASSUME IInv, NEW s \in Sessions, NEW a \in Attempts, AcceptItem(s, a)
  PROVE  IInv'
<1> DEFINE i == run[s][a].item
<1>1. TypeOK /\ Holds(s, a) /\ Proceed(s, a) /\ Confirmed(KeyOf(i)) /\ run[s][a].at \in Busy
  BY DEF IInv, AcceptItem, Busy
<1>2. item' = [item EXCEPT ![i] = [status |-> "accepted", tx |-> KeyOf(i), op |-> SourceOf(i)]]
  BY DEF AcceptItem
<1>3. UNCHANGED <<origin, enabled, session, review, candidate, tx, client>>
  BY DEF AcceptItem
<1>4. /\ run' \in [Sessions -> [Attempts -> RunRow]]
      /\ \A t \in Sessions, b \in Attempts : t # s \/ b # a => run'[t][b] = run[t][b]
      /\ run'[s][a].todo \subseteq Parsed(s) \ {i}
      /\ run'[s][a].at \notin Busy /\ i \in Parsed(s)
  BY <1>1, ProceedRun
<1>5. session[s].token = a
  BY <1>1, TodoParsed
<1> HIDE DEF i
<1>6. i \in Items
  BY <1>4 DEF Parsed, ItemsOf
<1>7. SourceOf(i) \in Sources /\ SourceOf(i) \in Keys
  BY <1>1, <1>6, SourcesOfItems
<1>8. item' = [item EXCEPT ![i] = [status |-> "accepted", tx |-> SourceOf(i), op |-> SourceOf(i)]]
  BY <1>2 DEF KeyOf
<1>9. /\ item' \in [Items -> ItemRow]
      /\ \A j \in Items : j # i => item'[j] = item[j]
      /\ item'[i].status = "accepted" /\ item'[i].tx = SourceOf(i)
  BY <1>1, <1>6, <1>7, <1>8 DEF TypeOK, ItemRow
<1>10. tx[SourceOf(i)].status # "none"
  BY <1>1 DEF Confirmed, KeyOf
<1>11. /\ review' \in [Items -> Questions(ReviewStates)]
       /\ candidate' \in [Pairs -> Questions(CandidateStates)]
  BY <1>1, <1>3 DEF TypeOK, ReviewStates, CandidateStates
<1>12. {i} \in SUBSET Parsed(s)
  BY <1>4
<1>13. Untouched({i}) /\ Processed({i})
  BY <1>3, <1>9, <1>10 DEF Untouched, Processed
<1>14. Worked(s, a, {i})
  BY <1>4 DEF Worked
<1> QED  BY <1>3, <1>5, <1>9, <1>11, <1>12, <1>13, <1>14, ProcessStep

LEMMA DeferStep ==
  ASSUME IInv, NEW s \in Sessions, NEW a \in Attempts, DeferItem(s, a)
  PROVE  IInv'
<1> DEFINE i == run[s][a].item
<1>1. TypeOK /\ Holds(s, a) /\ Proceed(s, a) /\ run[s][a].at \in Busy
  BY DEF IInv, DeferItem, Busy
<1>2. Ask({i}) \/ (item' = With({i}, "rejected") /\ UNCHANGED review)
  BY DEF DeferItem
<1>3. UNCHANGED <<origin, enabled, session, candidate, tx, client>>
  BY DEF DeferItem
<1>4. /\ run' \in [Sessions -> [Attempts -> RunRow]]
      /\ \A t \in Sessions, b \in Attempts : t # s \/ b # a => run'[t][b] = run[t][b]
      /\ run'[s][a].todo \subseteq Parsed(s) \ {i}
      /\ run'[s][a].at \notin Busy /\ i \in Parsed(s)
  BY <1>1, ProceedRun
<1>5. session[s].token = a
  BY <1>1, TodoParsed
<1> HIDE DEF i
<1>6. {i} \in SUBSET Parsed(s) /\ {i} \in SUBSET Items
  BY <1>4 DEF Parsed, ItemsOf
<1>7. candidate' \in [Pairs -> Questions(CandidateStates)]
  BY <1>1, <1>3 DEF TypeOK, CandidateStates
<1>8. Worked(s, a, {i})
  BY <1>4 DEF Worked
<1>9. CASE Ask({i})
  <2>1. /\ item' \in [Items -> ItemRow]
        /\ \A j \in Items : j \notin {i} => item'[j] = item[j] /\ review'[j] = review[j]
        /\ \A j \in {i} : item'[j].status = "review" /\ review'[j].status = "pending"
        /\ review' \in [Items -> Questions(ReviewStates)]
    BY <1>1, <1>6, <1>9, AskItems DEF ReviewStates
  <2>2. Untouched({i}) /\ Processed({i})
    BY <1>3, <2>1 DEF Untouched, Processed
  <2> QED  BY <1>3, <1>5, <1>6, <1>7, <1>8, <2>1, <2>2, ProcessStep
<1>10. CASE item' = With({i}, "rejected") /\ UNCHANGED review
  <2>1. /\ item' \in [Items -> ItemRow]
        /\ \A j \in Items : j \notin {i} => item'[j] = item[j]
        /\ \A j \in {i} : item'[j].status = "rejected"
    BY <1>1, <1>6, <1>10, WithItems
  <2>2. review' \in [Items -> Questions(ReviewStates)]
    BY <1>1, <1>10 DEF TypeOK, ReviewStates
  <2>3. Untouched({i}) /\ Processed({i})
    BY <1>3, <1>10, <2>1 DEF Untouched, Processed
  <2> QED  BY <1>3, <1>5, <1>6, <1>7, <1>8, <2>1, <2>2, <2>3, ProcessStep
<1> QED  BY <1>2, <1>9, <1>10

(***************************************************************************)
(* The decisions of the owner.                                             *)
(***************************************************************************)
\* An item that has been asked about is settled.
LEMMA DecideStep ==
  ASSUME IInv, NEW i \in Items, item[i].status # "parsed",
         UNCHANGED <<origin, enabled, session, tx, run>>,
         item' \in [Items -> ItemRow], client' \in [Clients -> RequestRow], Requested',
         review' \in [Items -> Questions(ReviewStates)],
         candidate' \in [Pairs -> Questions(CandidateStates)],
         \A j \in Items : j # i => item'[j] = item[j] /\ review'[j] = review[j],
         \A j \in Items, k \in Keys : j # i => candidate'[<<j, k>>] = candidate[<<j, k>>],
         item'[i].status \in {"accepted", "rejected", "duplicate"}, LinkOf(i)'
  PROVE  IInv'
<1>1. TypeOK'
  BY DEF IInv, TypeOK, ReviewStates, CandidateStates, Origins
<1>2. Keyed'
  BY DEF IInv, Keyed
<1>3. Fresh'
  BY DEF IInv, Fresh, FreshItem
<1>4. Todo'
  <2> SUFFICES ASSUME NEW s \in Sessions, NEW a \in Attempts PROVE TodoOf(s, a)'
    BY DEF Todo
  <2>1. TodoOf(s, a) /\ run[s][a].todo \subseteq Items
    BY DEF IInv, Todo, TypeOK, RunRow
  <2> QED  BY <2>1 DEF TodoOf, SessionOf
<1>5. Links'
  <2> SUFFICES ASSUME NEW j \in Items, j # i PROVE LinkOf(j)'
    BY DEF Links
  <2>1. LinkOf(j) /\ item'[j] = item[j] /\ \A k \in Keys : candidate'[<<j, k>>] = candidate[<<j, k>>]
    BY DEF IInv, Links
  <2> QED  BY <2>1 DEF LinkOf, SourceOf
<1>6. ReviewIsOpen'
  BY DEF IInv, ReviewIsOpen
<1>7. CompleteIsSettled'
  BY DEF IInv, CompleteIsSettled, ItemsOf, SessionOf
<1> QED  BY <1>1, <1>2, <1>3, <1>4, <1>5, <1>6, <1>7 DEF IInv

\* The request of a decision is done.
LEMMA DoneRequest ==
  ASSUME IInv, NEW c \in Clients, client[c].at # "new", client' = [client EXCEPT ![c].at = "done"]
  PROVE  client[c].item \in Items /\ client' \in [Clients -> RequestRow] /\ Requested'
<1>1. TypeOK /\ Requested
  BY DEF IInv
<1>2. client[c].item \in Items
  BY <1>1 DEF Requested
<1>3. client' \in [Clients -> RequestRow]
  BY <1>1 DEF TypeOK, RequestRow
<1>4. Requested'
  BY <1>1, <1>2 DEF Requested, TypeOK, RequestRow
<1> QED  BY <1>2, <1>3, <1>4

LEMMA DecideReviewStep ==
  ASSUME IInv, NEW c \in Clients, DecideReview(c)
  PROVE  IInv'
<1>1. TypeOK /\ client[c].at # "new" /\ client' = [client EXCEPT ![c].at = "done"]
  BY DEF IInv, DecideReview, Ready
<1>2. client[c].item \in Items /\ client' \in [Clients -> RequestRow] /\ Requested'
  BY <1>1, DoneRequest
<1> PICK i \in Items : i = client[c].item
  BY <1>2
<1> DEFINE reject == client[c].action = "reject"
           row == IF reject THEN [status |-> "rejected", tx |-> None, op |-> None]
                  ELSE [status |-> "accepted", tx |-> KeyOf(i), op |-> c]
           answer == [status |-> IF reject THEN "rejected" ELSE "accepted", by |-> review[i].by, live |-> FALSE]
<1>3. /\ review' = [review EXCEPT ![i] = answer] /\ item' = [item EXCEPT ![i] = row]
      /\ UNCHANGED <<origin, enabled, session, candidate, tx, run>>
      /\ review[i].status = "pending" /\ (reject \/ Confirmed(KeyOf(i)))
  BY DEF DecideReview, Answered, Holder
<1>4. SourceOf(i) \in Keys /\ KeyOf(i) = SourceOf(i)
  BY <1>1, <1>2, SourcesOfItems DEF KeyOf
<1>5. row \in ItemRow /\ row.status \in {"accepted", "rejected"}
      /\ (row.status = "accepted" => row.tx = SourceOf(i) /\ tx[SourceOf(i)].status # "none")
  BY <1>3, <1>4 DEF ItemRow, Confirmed
<1>6. answer \in Questions(ReviewStates)
  BY <1>1, <1>2 DEF TypeOK, Questions, ReviewStates
<1>7. item[i].status # "parsed"
  BY <1>2, <1>3 DEF IInv, Fresh, FreshItem
<1> HIDE DEF row, answer, reject
<1>8. /\ item' \in [Items -> ItemRow] /\ item'[i] = row
      /\ \A j \in Items : j # i => item'[j] = item[j]
  BY <1>1, <1>2, <1>3, <1>5 DEF TypeOK
<1>9. /\ review' \in [Items -> Questions(ReviewStates)]
      /\ \A j \in Items : j # i => review'[j] = review[j]
  BY <1>1, <1>2, <1>3, <1>6 DEF TypeOK, ReviewStates
<1>10. LinkOf(i)'
  BY <1>3, <1>5, <1>8 DEF LinkOf, SourceOf
<1>11. candidate' \in [Pairs -> Questions(CandidateStates)]
  BY <1>1, <1>3 DEF TypeOK, CandidateStates
<1> QED  BY <1>2, <1>3, <1>5, <1>7, <1>8, <1>9, <1>10, <1>11, DecideStep

LEMMA DecideDuplicateStep ==
  ASSUME IInv, NEW c \in Clients, DecideDuplicate(c)
  PROVE  IInv'
<1>1. TypeOK /\ client[c].at # "new" /\ client' = [client EXCEPT ![c].at = "done"]
  BY DEF IInv, DecideDuplicate, Ready
<1>2. client[c].item \in Items /\ client' \in [Clients -> RequestRow] /\ Requested'
  BY <1>1, DoneRequest
<1> PICK i \in Items, k \in Keys : i = client[c].item /\ k = client[c].other
  BY <1>1, <1>2 DEF TypeOK, RequestRow, DecideDuplicate, IsReview
<1> DEFINE keep == client[c].action = "keep_existing"
           row == [status |-> IF keep THEN "duplicate" ELSE "accepted",
                   tx |-> IF keep THEN k ELSE SourceOf(i), op |-> IF keep THEN None ELSE c]
           answer == [status |-> IF keep THEN "duplicate" ELSE "not_duplicate",
                      by |-> candidate[<<i, k>>].by, live |-> FALSE]
<1>3. <<i, k>> \in Pairs
  BY DEF Pairs
<1>4. SourceOf(i) \in Keys /\ KeyOf(i) = SourceOf(i)
  BY <1>1, <1>2, SourcesOfItems DEF KeyOf
<1>5. /\ candidate' = [candidate EXCEPT ![<<i, k>>] = answer]
      /\ UNCHANGED <<origin, enabled, session, review, tx, run>>
      /\ candidate[<<i, k>>].status = "pending" /\ (keep \/ Confirmed(SourceOf(i)))
  BY <1>4 DEF DecideDuplicate, Answered, Holder, Linked
<1>6. item' = [item EXCEPT ![i] = row]
  BY <1>4 DEF DecideDuplicate, Linked
<1>7. row \in ItemRow
  BY <1>3, <1>4 DEF ItemRow
<1>8. answer \in Questions(CandidateStates)
  BY <1>1, <1>3 DEF TypeOK, Questions, CandidateStates
<1>9. item[i].status # "parsed"
  BY <1>2, <1>3, <1>5 DEF IInv, Fresh, FreshItem
<1>10. /\ row.status = "accepted" => row.tx = SourceOf(i) /\ tx[SourceOf(i)].status # "none"
       /\ row.status = "duplicate" => row.tx = k /\ answer.status = "duplicate"
       /\ row.status \in {"accepted", "rejected", "duplicate"}
  BY <1>5 DEF Confirmed
<1> HIDE DEF row, answer, keep
<1>11. /\ item' \in [Items -> ItemRow] /\ item'[i] = row
       /\ \A j \in Items : j # i => item'[j] = item[j]
  BY <1>1, <1>2, <1>6, <1>7 DEF TypeOK
<1>12. /\ candidate' \in [Pairs -> Questions(CandidateStates)] /\ candidate'[<<i, k>>] = answer
       /\ \A p \in Pairs : p # <<i, k>> => candidate'[p] = candidate[p]
  BY <1>1, <1>3, <1>5, <1>8 DEF TypeOK, CandidateStates
<1>13. \A j \in Items, l \in Keys : j # i => candidate'[<<j, l>>] = candidate[<<j, l>>]
  BY <1>12 DEF Pairs
<1>14. LinkOf(i)'
  BY <1>3, <1>5, <1>10, <1>11, <1>12 DEF LinkOf, SourceOf
<1>15. review' \in [Items -> Questions(ReviewStates)] /\ review' = review
  BY <1>1, <1>5 DEF TypeOK, ReviewStates
<1> QED  BY <1>2, <1>5, <1>9, <1>10, <1>11, <1>12, <1>13, <1>14, <1>15, DecideStep

(***************************************************************************)
(* The invariant.                                                          *)
(***************************************************************************)
LEMMA InitIInv == Init => IInv
<1> SUFFICES ASSUME Init PROVE IInv
  OBVIOUS
<1>1. Unasked \in Questions({"none"}) /\ NoTransaction \in TransactionRow /\ NoRequest \in RequestRow
  BY DEF Unasked, Questions, NoTransaction, TransactionRow, NoRequest, RequestRow
<1>2. NoRun \in RunRow
  BY DEF NoRun, RunRow
<1>3. TypeOK
  <2>1. session \in [Sessions -> SessionRow]
    BY Numbers DEF Init, SessionRow
  <2>2. item \in [Items -> ItemRow]
    BY DEF Init, ItemRow
  <2>3. Questions({"none"}) \subseteq Questions(ReviewStates) /\ Questions({"none"}) \subseteq Questions(CandidateStates)
    BY DEF Questions, ReviewStates, CandidateStates
  <2>4. review \in [Items -> Questions(ReviewStates)] /\ candidate \in [Pairs -> Questions(CandidateStates)]
    BY <1>1, <2>3 DEF Init
  <2>5. tx \in [Keys -> TransactionRow] /\ run \in [Sessions -> [Attempts -> RunRow]]
        /\ client \in [Clients -> RequestRow]
    BY <1>1, <1>2 DEF Init
  <2> QED  BY <2>1, <2>2, <2>4, <2>5 DEF Init, TypeOK, ReviewStates, CandidateStates
<1>4. Keyed
  BY DEF Init, Keyed, NoTransaction
<1>5. Fresh
  BY DEF Init, Fresh, FreshItem, Unasked, Pairs
<1>6. Todo
  BY DEF Init, Todo, TodoOf, NoRun
<1>7. Requested
  BY DEF Init, Requested, NoRequest
<1>8. Links /\ ReviewIsOpen /\ CompleteIsSettled
  BY DEF Init, Links, LinkOf, ReviewIsOpen, CompleteIsSettled
<1> QED  BY <1>3, <1>4, <1>5, <1>6, <1>7, <1>8 DEF IInv

LEMMA SessionNext ==
  ASSUME IInv, NEW s \in Sessions, NEW a \in Attempts,
         \/ Prepare(s, a) \/ Complete(s, a) \/ Fail(s, a) \/ Stop(s, a)
         \/ AcceptItem(s, a) \/ DeferItem(s, a)
         \/ \E unsure \in SUBSET Parsed(s) : Finalize(s, a, unsure)
         \/ \E i \in Items : PostItem(s, a, i) \/ \E why \in {"refused", "blocked"} : Refuse(s, a, i, why)
  PROVE  IInv'
BY PrepareStep, EndStep, AcceptStep, DeferStep, FinalizeStep, PostItemStep, RefuseStep

LEMMA ClientNext ==
  ASSUME IInv, NEW c \in Clients,
         \/ \E i \in Items, action \in ReviewActions : ClaimReview(c, i, action)
         \/ \E i \in Items, k \in Keys, action \in Resolutions : ClaimDuplicate(c, i, k, action)
         \/ Repeat(c) \/ ExpireDecision(c) \/ PostDecision(c) \/ DecideReview(c) \/ DecideDuplicate(c)
  PROVE  IInv'
BY ClaimReviewStep, ClaimDuplicateStep, RepeatStep, PostDecisionStep, DecideReviewStep, DecideDuplicateStep

LEMMA NextIInv == IInv /\ [Next]_vars => IInv'
<1> SUFFICES ASSUME IInv, [Next]_vars PROVE IInv'
  OBVIOUS
<1>1. Imported \subseteq Sessions /\ Manual \subseteq Keys
  BY DEF IInv, TypeOK, Origins, Imported, Keys
<1>2. CASE UNCHANGED vars
  BY <1>2, SessionStep DEF vars, IInv, TypeOK
<1>3. CASE SetTracking \/ (\E k \in Keys : Delete(k) \/ Restore(k)) \/ \E k \in Manual : AddManual(k)
  BY <1>1, <1>3, SetTrackingStep, LedgerStep
<1>4. CASE \E s \in Imported : Claim(s) \/ ExpireLease(s) \/ Cancel(s) \/ Retry(s)
  BY <1>1, <1>4, ClaimStep, LeaseStep
<1>5. CASE \E s \in Imported, a \in Attempts :
             \/ Prepare(s, a) \/ Complete(s, a) \/ Fail(s, a) \/ Stop(s, a)
             \/ AcceptItem(s, a) \/ DeferItem(s, a)
             \/ \E unsure \in SUBSET Parsed(s) : Finalize(s, a, unsure)
             \/ \E i \in Items : PostItem(s, a, i) \/ \E why \in {"refused", "blocked"} : Refuse(s, a, i, why)
  BY <1>1, <1>5, SessionNext
<1>6. CASE \E c \in Clients :
             \/ \E i \in Items, action \in ReviewActions : ClaimReview(c, i, action)
             \/ \E i \in Items, k \in Keys, action \in Resolutions : ClaimDuplicate(c, i, k, action)
             \/ Repeat(c) \/ ExpireDecision(c) \/ PostDecision(c) \/ DecideReview(c) \/ DecideDuplicate(c)
  BY <1>6, ClientNext
<1> QED  BY <1>2, <1>3, <1>4, <1>5, <1>6 DEF Next

LEMMA Invariance == Spec => []IInv
BY InitIInv, NextIInv, PTL DEF Spec

(***************************************************************************)
(* What changes an item that has been processed.                           *)
(***************************************************************************)
LEMMA WorkerLeavesItem ==
  ASSUME IInv, NEW s \in Sessions, NEW a \in Attempts, NEW i \in Items, item[i].status # "parsed",
         \/ Prepare(s, a) \/ AcceptItem(s, a) \/ DeferItem(s, a)
         \/ \E unsure \in SUBSET Parsed(s) : Finalize(s, a, unsure)
  PROVE  item'[i] = item[i]
<1>1. TypeOK /\ i \notin Parsed(s) /\ Parsed(s) \in SUBSET Items
  BY DEF IInv, Parsed, ItemsOf
<1>2. ASSUME item' = With(Parsed(s), "rejected") PROVE item'[i] = item[i]
  BY <1>1, <1>2, WithItems
<1>3. CASE Prepare(s, a)
  BY <1>2, <1>3 DEF Prepare
<1>4. ASSUME NEW unsure \in SUBSET Parsed(s), Finalize(s, a, unsure) PROVE item'[i] = item[i]
  <2> DEFINE asked == unsure \union {j \in Parsed(s) : Proposed(j) # {}}
  <2>1. asked \in SUBSET Items /\ i \notin asked
    BY <1>1
  <2>2. Ask(asked) \/ item' = With(Parsed(s), "rejected")
    BY <1>4 DEF Finalize
  <2> HIDE DEF asked
  <2>3. CASE Ask(asked)
    BY <1>1, <2>1, <2>3, AskItems
  <2> QED  BY <1>2, <2>2, <2>3
<1>5. CASE AcceptItem(s, a)
  <2>1. run[s][a].item \in Parsed(s)
    BY <1>5, TodoParsed DEF AcceptItem, Busy
  <2> QED  BY <1>1, <1>5, <2>1 DEF AcceptItem, TypeOK
<1>6. CASE DeferItem(s, a)
  <2> DEFINE j == run[s][a].item
  <2>1. j \in Parsed(s)
    BY <1>6, TodoParsed DEF DeferItem, Busy
  <2>2. {j} \in SUBSET Items /\ i \notin {j}
    BY <1>1, <2>1
  <2>3. Ask({j}) \/ item' = With({j}, "rejected")
    BY <1>6 DEF DeferItem
  <2> HIDE DEF j
  <2> QED  BY <1>1, <2>2, <2>3, AskItems, WithItems
<1> QED  BY <1>3, <1>4, <1>5, <1>6

LEMMA DecisionChangesItem ==
  ASSUME IInv, [Next]_vars, NEW i \in Items, item[i].status # "parsed", item'[i] # item[i]
  PROVE  \E c \in Clients : /\ DecideReview(c) \/ DecideDuplicate(c)
                            /\ client[c].item = i /\ client[c].at # "done" /\ client'[c].at = "done"
<1>1. Imported \subseteq Sessions /\ TypeOK
  BY DEF IInv, TypeOK, Origins, Imported
<1>2. CASE \E c \in Clients : DecideReview(c) \/ DecideDuplicate(c)
  <2>1. PICK c \in Clients : DecideReview(c) \/ DecideDuplicate(c)
    BY <1>2
  <2>2. /\ client[c].at # "done" /\ client' = [client EXCEPT ![c].at = "done"]
        /\ \E row : item' = [item EXCEPT ![client[c].item] = row]
    BY <2>1 DEF DecideReview, DecideDuplicate, Ready
  <2>3. client'[c].at = "done"
    BY <1>1, <2>2 DEF TypeOK, RequestRow
  <2>4. client[c].item = i
    BY <1>1, <2>2 DEF TypeOK
  <2> QED  BY <2>1, <2>2, <2>3, <2>4
<1>3. CASE \E s \in Imported, a \in Attempts :
             \/ Prepare(s, a) \/ AcceptItem(s, a) \/ DeferItem(s, a)
             \/ \E unsure \in SUBSET Parsed(s) : Finalize(s, a, unsure)
  BY <1>1, <1>3, WorkerLeavesItem
<1>4. ASSUME item' = item PROVE FALSE
  BY <1>4
<1>5. CASE UNCHANGED vars
  BY <1>4, <1>5 DEF vars
<1>6. CASE SetTracking \/ (\E k \in Keys : Delete(k) \/ Restore(k)) \/ \E k \in Manual : AddManual(k)
  BY <1>4, <1>6 DEF SetTracking, Delete, Restore, AddManual
<1>7. CASE \E s \in Imported : Claim(s) \/ ExpireLease(s) \/ Cancel(s) \/ Retry(s)
  BY <1>4, <1>7 DEF Claim, ExpireLease, Cancel, Retry
<1>8. CASE \E s \in Imported, a \in Attempts :
             \/ Complete(s, a) \/ Fail(s, a) \/ Stop(s, a)
             \/ \E j \in Items : PostItem(s, a, j) \/ \E why \in {"refused", "blocked"} : Refuse(s, a, j, why)
  BY <1>4, <1>8 DEF Complete, Fail, Stop, PostItem, Refuse
<1>9. CASE \E c \in Clients :
             \/ \E j \in Items, action \in ReviewActions : ClaimReview(c, j, action)
             \/ \E j \in Items, k \in Keys, action \in Resolutions : ClaimDuplicate(c, j, k, action)
             \/ Repeat(c) \/ ExpireDecision(c) \/ PostDecision(c)
  BY <1>4, <1>9 DEF ClaimReview, ClaimDuplicate, Repeat, ExpireDecision, PostDecision
<1> QED
  BY <1>2, <1>3, <1>5, <1>6, <1>7, <1>8, <1>9 DEF Next

\* Questions are asked about items that are still to be processed, and only
\* those that are open can be claimed and answered.
Open(i) ==
  review[i].status = "pending" \/ \E k \in Keys : candidate[<<i, k>>].status = "pending"

LEMMA WorkerAsksParsed ==
  ASSUME IInv, NEW s \in Sessions, NEW a \in Attempts, NEW i \in Items, item[i].status # "parsed",
         DeferItem(s, a) \/ \E unsure \in SUBSET Parsed(s) : Finalize(s, a, unsure)
  PROVE  Open(i)' <=> Open(i)
<1>1. TypeOK /\ i \notin Parsed(s) /\ Parsed(s) \in SUBSET Items
  BY DEF IInv, Parsed, ItemsOf
<1>2. ASSUME review'[i] = review[i], \A k \in Keys : candidate'[<<i, k>>] = candidate[<<i, k>>]
      PROVE  Open(i)' <=> Open(i)
  BY <1>2 DEF Open
<1>3. ASSUME NEW unsure \in SUBSET Parsed(s), Finalize(s, a, unsure) PROVE Open(i)' <=> Open(i)
  <2> DEFINE asked == unsure \union {j \in Parsed(s) : Proposed(j) # {}}
  <2>1. asked \in SUBSET Items /\ i \notin asked
    BY <1>1
  <2>2. CASE enabled
    <3>1. /\ Ask(asked)
          /\ candidate' = [p \in Pairs |->
               IF p[1] \in Parsed(s) /\ p[2] \in Proposed(p[1]) /\ candidate[p].status = "none"
               THEN Asked ELSE candidate[p]]
      BY <1>3, <2>2 DEF Finalize
    <3> HIDE DEF asked
    <3>2. review'[i] = review[i]
      BY <1>1, <2>1, <3>1, AskItems
    <3>3. \A k \in Keys : candidate'[<<i, k>>] = candidate[<<i, k>>]
      BY <1>1, <3>1 DEF Pairs
    <3> QED  BY <1>2, <3>2, <3>3
  <2>3. CASE ~enabled
    <3>1. review' = review /\ candidate' = candidate
      BY <1>3, <2>3 DEF Finalize, questions
    <3> QED  BY <1>2, <3>1
  <2> QED  BY <2>2, <2>3
<1>4. CASE DeferItem(s, a)
  <2> DEFINE j == run[s][a].item
  <2>1. j \in Parsed(s)
    BY <1>4, TodoParsed DEF DeferItem, Busy
  <2>2. {j} \in SUBSET Items /\ i \notin {j}
    BY <1>1, <2>1
  <2>3. (Ask({j}) \/ review' = review) /\ candidate' = candidate
    BY <1>4 DEF DeferItem
  <2> HIDE DEF j
  <2>4. review'[i] = review[i]
    BY <1>1, <2>2, <2>3, AskItems
  <2> QED  BY <1>2, <2>3, <2>4
<1> QED  BY <1>3, <1>4

LEMMA OwnerOpensNothing ==
  ASSUME IInv, NEW c \in Clients, NEW i \in Items,
         \/ \E j \in Items, action \in ReviewActions : ClaimReview(c, j, action)
         \/ \E j \in Items, k \in Keys, action \in Resolutions : ClaimDuplicate(c, j, k, action)
         \/ Repeat(c) \/ ExpireDecision(c) \/ DecideReview(c) \/ DecideDuplicate(c)
  PROVE  Open(i)' => Open(i)
<1>1. TypeOK /\ Requested
  BY DEF IInv
<1>2. ASSUME NEW j \in Items, NEW q, review' = [review EXCEPT ![j] = q], candidate' = candidate,
             q.status = "pending" => review[j].status = "pending"
      PROVE  Open(i)' => Open(i)
  BY <1>1, <1>2 DEF Open, TypeOK
<1>3. ASSUME NEW j \in Items, NEW k \in Keys, NEW q, candidate' = [candidate EXCEPT ![<<j, k>>] = q],
             review' = review, q.status = "pending" => candidate[<<j, k>>].status = "pending"
      PROVE  Open(i)' => Open(i)
  <2>1. ASSUME NEW l \in Keys, candidate'[<<i, l>>].status = "pending"
        PROVE  candidate[<<i, l>>].status = "pending"
    <3>1. <<i, l>> \in Pairs /\ <<j, k>> \in Pairs
      BY DEF Pairs
    <3>2. CASE <<i, l>> = <<j, k>>
      BY <1>1, <1>3, <2>1, <3>1, <3>2 DEF TypeOK
    <3>3. CASE <<i, l>> # <<j, k>>
      BY <1>1, <1>3, <2>1, <3>1, <3>3 DEF TypeOK
    <3> QED  BY <3>2, <3>3
  <2> QED  BY <1>3, <2>1 DEF Open
<1>4. ASSUME NEW j \in Items, NEW action \in ReviewActions, ClaimReview(c, j, action)
      PROVE  Open(i)' => Open(i)
  <2>1. /\ review' = [review EXCEPT ![j] = Claimed(review[j], c)] /\ candidate' = candidate
        /\ review[j].status = "pending"
    BY <1>4 DEF ClaimReview, Free
  <2> QED  BY <1>2, <2>1
<1>5. ASSUME NEW j \in Items, NEW k \in Keys, NEW action \in Resolutions, ClaimDuplicate(c, j, k, action)
      PROVE  Open(i)' => Open(i)
  <2>1. /\ candidate' = [candidate EXCEPT ![<<j, k>>] = Claimed(candidate[<<j, k>>], c)]
        /\ review' = review /\ candidate[<<j, k>>].status = "pending"
    BY <1>5 DEF ClaimDuplicate, Free
  <2> QED  BY <1>3, <2>1
<1>6. ASSUME client[c].at # "new", NEW q, Asks(c, q), Question(c).status = "pending"
      PROVE  Open(i)' => Open(i)
  <2>1. client[c].item \in Items /\ client[c].other \in Keys \union {None}
    BY <1>1, <1>6 DEF Requested, TypeOK, RequestRow
  <2>2. CASE IsReview(c)
    <3>1. review' = [review EXCEPT ![client[c].item] = q] /\ candidate' = candidate
      BY <1>6, <2>2 DEF Asks
    <3>2. review[client[c].item].status = "pending"
      BY <1>6, <2>2 DEF Question
    <3> QED  BY <1>2, <2>1, <3>1, <3>2
  <2>3. CASE ~IsReview(c)
    <3>1. client[c].other \in Keys
      BY <2>1, <2>3 DEF IsReview
    <3>2. candidate' = [candidate EXCEPT ![<<client[c].item, client[c].other>>] = q] /\ review' = review
      BY <1>6, <2>3 DEF Asks
    <3>3. candidate[<<client[c].item, client[c].other>>].status = "pending"
      BY <1>6, <2>3 DEF Question
    <3> QED  BY <1>3, <2>1, <3>1, <3>2, <3>3
  <2> QED  BY <2>2, <2>3
<1>7. CASE Repeat(c)
  BY <1>6, <1>7 DEF Repeat
<1>8. CASE ExpireDecision(c)
  BY <1>6, <1>8 DEF ExpireDecision, Holder
<1>9. CASE DecideReview(c)
  <2>1. /\ client[c].item \in Items /\ candidate' = candidate
        /\ review[client[c].item].status = "pending"
        /\ \E q : review' = [review EXCEPT ![client[c].item] = q]
    BY <1>1, <1>9 DEF DecideReview, Holder, Ready, Requested
  <2> QED  BY <1>2, <2>1
<1>10. CASE DecideDuplicate(c)
  <2>1. /\ client[c].item \in Items /\ client[c].other \in Keys /\ review' = review
        /\ candidate[<<client[c].item, client[c].other>>].status = "pending"
        /\ \E q : candidate' = [candidate EXCEPT ![<<client[c].item, client[c].other>>] = q]
    BY <1>1, <1>10 DEF DecideDuplicate, Holder, Ready, IsReview, Requested, TypeOK, RequestRow
  <2> QED  BY <1>3, <2>1
<1> QED  BY <1>4, <1>5, <1>7, <1>8, <1>9, <1>10

LEMMA NothingOpens ==
  ASSUME IInv, [Next]_vars, NEW i \in Items, item[i].status # "parsed", Open(i)'
  PROVE  Open(i)
<1>1. Imported \subseteq Sessions
  BY DEF IInv, TypeOK, Origins, Imported
<1>2. CASE \E s \in Imported, a \in Attempts :
             DeferItem(s, a) \/ \E unsure \in SUBSET Parsed(s) : Finalize(s, a, unsure)
  BY <1>1, <1>2, WorkerAsksParsed
<1>3. CASE \E c \in Clients :
             \/ \E j \in Items, action \in ReviewActions : ClaimReview(c, j, action)
             \/ \E j \in Items, k \in Keys, action \in Resolutions : ClaimDuplicate(c, j, k, action)
             \/ Repeat(c) \/ ExpireDecision(c) \/ DecideReview(c) \/ DecideDuplicate(c)
  BY <1>3, OwnerOpensNothing
<1>4. ASSUME review' = review, candidate' = candidate PROVE Open(i)
  BY <1>4 DEF Open
<1>5. CASE UNCHANGED vars
  BY <1>4, <1>5 DEF vars
<1>6. CASE SetTracking \/ (\E k \in Keys : Delete(k) \/ Restore(k)) \/ \E k \in Manual : AddManual(k)
  BY <1>4, <1>6 DEF SetTracking, Delete, Restore, AddManual
<1>7. CASE \E s \in Imported : Claim(s) \/ ExpireLease(s) \/ Cancel(s) \/ Retry(s)
  BY <1>4, <1>7 DEF Claim, ExpireLease, Cancel, Retry
<1>8. CASE \E s \in Imported, a \in Attempts :
             \/ Prepare(s, a) \/ AcceptItem(s, a) \/ Complete(s, a) \/ Fail(s, a) \/ Stop(s, a)
             \/ \E j \in Items : PostItem(s, a, j) \/ \E why \in {"refused", "blocked"} : Refuse(s, a, j, why)
  BY <1>4, <1>8 DEF Prepare, AcceptItem, Complete, Fail, Stop, PostItem, Refuse
<1>9. CASE \E c \in Clients : PostDecision(c)
  BY <1>4, <1>9 DEF PostDecision
<1> QED
  BY <1>2, <1>3, <1>5, <1>6, <1>7, <1>8, <1>9 DEF Next

(***************************************************************************)
(* The theorems.                                                           *)
(***************************************************************************)
\* The state of imports, reviews, candidates, requests and workers is what
\* the tables and the code allow, whatever happens in whatever order.
THEOREM TypeCorrect == Spec => []TypeOK
BY Invariance, PTL DEF IInv

\* A message makes at most one transaction, whoever posts, and how often.
THEOREM SourcesPostOnce == Spec => []OneTransactionPerSource
<1>1. IInv => OneTransactionPerSource
  BY DEF IInv, Keyed, OneTransactionPerSource
<1> QED  BY <1>1, Invariance, PTL

\* An item under review can always be decided: its review is open.
THEOREM ReviewsStayOpen == Spec => []ReviewIsOpen
BY Invariance, PTL DEF IInv

\* A complete session has only settled items, and they stay settled.
THEOREM CompleteStaysSettled == Spec => []CompleteIsSettled
BY Invariance, PTL DEF IInv

\* A settled item points at a transaction it may point at: that of its own
\* message, or one the owner has declared to be the same.
THEOREM ItemsAreLinked == Spec => []LinksAreRight
<1>1. IInv => LinksAreRight
  <2> SUFFICES ASSUME IInv, NEW i \in Items
               PROVE  /\ item[i].status = "accepted" => tx[item[i].tx].source = SourceOf(i)
                      /\ item[i].status = "duplicate" => candidate[<<i, item[i].tx>>].status = "duplicate"
    BY DEF LinksAreRight
  <2>1. LinkOf(i) /\ SourceOf(i) \in Sources /\ SourceOf(i) \in Keys
    BY SourcesOfItems DEF IInv, Links
  <2> QED  BY <2>1 DEF LinkOf, IInv, Keyed
<1> QED  BY <1>1, Invariance, PTL

\* Only a decision of the owner takes an item out of review: not the worker
\* that posted for it, however late it comes.
THEOREM OwnersDecide == Spec => OwnerDecides
<1>1. IInv /\ [Next]_vars =>
        [\A i \in Items : item[i].status = "review" /\ item'[i].status # "review" =>
           \E c \in Clients : client[c].item = i /\ client[c].at # "done" /\ client'[c].at = "done"]_vars
  BY DecisionChangesItem
<1> QED  BY <1>1, Invariance, PTL DEF Spec, OwnerDecides

\* Once an item is no longer to be processed, under review or settled, no
\* attempt of a worker changes anything of it: accept_import_item does not
\* look at the status of the item, and need not.  Whatever is changed, the
\* owner has decided.
OwnersOnly ==
  [][\A i \in Items : item[i].status # "parsed" /\ item'[i] # item[i] =>
       \E c \in Clients : client[c].item = i /\ client[c].at # "done" /\ client'[c].at = "done"]_vars

\* The same, of every column of the item and in every status but the first
\* (accept_import_item, 20260902120100_phase08_tracking_functions.sql:653).
THEOREM OwnersAlone == Spec => OwnersOnly
<1>1. IInv /\ [Next]_vars =>
        [\A i \in Items : item[i].status # "parsed" /\ item'[i] # item[i] =>
           \E c \in Clients : client[c].item = i /\ client[c].at # "done" /\ client'[c].at = "done"]_vars
  BY DecisionChangesItem
<1> QED  BY <1>1, Invariance, PTL DEF Spec, OwnersOnly

\* An item is closed when it is settled and no question about it is open.
Closed(i) == Settled(i) /\ ~Open(i)

\* A closed item stays as it is, with its transaction: that an item can be
\* settled twice takes a review and a candidate, or two candidates, that were
\* open together and are decided independently.
ClosedForGood == [][\A i \in Items : Closed(i) => item'[i] = item[i] /\ Closed(i)']_vars

\* A closed item is never touched or asked about again, by no attempt, no
\* retry of its session and no request that is sent again
\* (decide_review_item, decide_duplicate_candidate).
THEOREM ClosedStays == Spec => ClosedForGood
<1>1. ASSUME IInv, [Next]_vars, NEW i \in Items, Closed(i)
      PROVE  item'[i] = item[i] /\ Closed(i)'
  <2>1. item[i].status # "parsed"
    BY <1>1 DEF Closed, Settled
  <2>2. item'[i] = item[i]
    <3> SUFFICES ASSUME item'[i] # item[i] PROVE FALSE
      OBVIOUS
    <3>1. PICK c \in Clients : (DecideReview(c) \/ DecideDuplicate(c)) /\ client[c].item = i
      BY <1>1, <2>1, DecisionChangesItem
    <3>2. CASE DecideReview(c)
      BY <1>1, <3>1, <3>2 DEF DecideReview, Holder, Closed, Open
    <3>3. CASE DecideDuplicate(c)
      <4>1. client[c].other \in Keys /\ candidate[<<i, client[c].other>>].status = "pending"
        BY <1>1, <3>1, <3>3 DEF DecideDuplicate, Holder, IsReview, IInv, TypeOK, RequestRow
      <4> QED  BY <1>1, <4>1 DEF Closed, Open
    <3> QED  BY <3>1, <3>2, <3>3
  <2>3. Open(i)' => Open(i)
    BY <1>1, <2>1, NothingOpens
  <2> QED  BY <1>1, <2>2, <2>3 DEF Closed, Settled
<1>2. IInv /\ [Next]_vars => [\A i \in Items : Closed(i) => item'[i] = item[i] /\ Closed(i)']_vars
  BY <1>1
<1> QED  BY <1>2, Invariance, PTL DEF Spec, ClosedForGood

(***************************************************************************)
(* The ledger as tracking sees it.                                         *)
(***************************************************************************)
Lifecycle == INSTANCE TransactionStatus WITH
               Ids <- Keys, status <- [k \in Keys |-> tx[k].status]

LEMMA PostEdge ==
  ASSUME TypeOK, NEW i \in Items, NEW values \in {"proposed", "edited"}, Post(i, values), NEW k \in Keys
  PROVE  tx'[k].status = tx[k].status \/ <<tx[k].status, tx'[k].status>> \in Lifecycle!Edges
<1>1. CASE tx[KeyOf(i)].status # "none"
  BY <1>1 DEF Post
<1>2. CASE tx[KeyOf(i)].status = "none"
  <2>1. KeyOf(i) \in Keys
    BY SourcesOfItems DEF KeyOf
  <2>2. tx' = [tx EXCEPT ![KeyOf(i)] =
                 [status |-> "confirmed", values |-> values, source |-> SourceOf(i)]]
    BY <1>2 DEF Post
  <2>3. tx'[KeyOf(i)].status = "confirmed" /\ \A l \in Keys : l # KeyOf(i) => tx'[l] = tx[l]
    BY <2>1, <2>2 DEF TypeOK
  <2> QED  BY <1>2, <2>3 DEF Lifecycle!Edges
<1> QED  BY <1>1, <1>2

LEMMA StatusEdge ==
  ASSUME IInv, [Next]_vars, NEW k \in Keys
  PROVE  tx'[k].status = tx[k].status \/ <<tx[k].status, tx'[k].status>> \in Lifecycle!Edges
<1>1. TypeOK /\ Imported \subseteq Sessions
  BY DEF IInv, TypeOK, Origins, Imported
<1>2. ASSUME NEW s \in Sessions, NEW a \in Attempts, NEW i \in Items, PostItem(s, a, i)
      PROVE  tx'[k].status = tx[k].status \/ <<tx[k].status, tx'[k].status>> \in Lifecycle!Edges
  <2>1. Post(i, "proposed")
    BY <1>2 DEF PostItem
  <2> QED  BY <1>1, <2>1, PostEdge
<1>3. ASSUME NEW c \in Clients, PostDecision(c)
      PROVE  tx'[k].status = tx[k].status \/ <<tx[k].status, tx'[k].status>> \in Lifecycle!Edges
  <2>1. client[c].item \in Items /\ Post(client[c].item, Values(client[c].action))
    BY <1>3 DEF PostDecision, IInv, Requested
  <2>2. Values(client[c].action) \in {"proposed", "edited"}
    BY DEF Values
  <2> QED  BY <1>1, <2>1, <2>2, PostEdge
<1>4. CASE \E l \in Keys : Delete(l) \/ Restore(l)
  BY <1>1, <1>4 DEF Delete, Restore, Confirmed, TypeOK, TransactionRow, Lifecycle!Edges
<1>5. CASE \E l \in Manual : AddManual(l)
  BY <1>1, <1>5 DEF AddManual, TypeOK, TransactionRow, Keys, Lifecycle!Edges
<1>6. ASSUME tx' = tx
      PROVE  tx'[k].status = tx[k].status \/ <<tx[k].status, tx'[k].status>> \in Lifecycle!Edges
  BY <1>6
<1>7. CASE UNCHANGED vars
  BY <1>6, <1>7 DEF vars
<1>8. CASE SetTracking \/ \E s \in Imported : Claim(s) \/ ExpireLease(s) \/ Cancel(s) \/ Retry(s)
  BY <1>6, <1>8 DEF SetTracking, Claim, ExpireLease, Cancel, Retry
<1>9. CASE \E s \in Imported, a \in Attempts :
             \/ Prepare(s, a) \/ Complete(s, a) \/ Fail(s, a) \/ Stop(s, a)
             \/ AcceptItem(s, a) \/ DeferItem(s, a)
             \/ \E unsure \in SUBSET Parsed(s) : Finalize(s, a, unsure)
             \/ \E i \in Items, why \in {"refused", "blocked"} : Refuse(s, a, i, why)
  <2>1. ASSUME NEW s, NEW a, Prepare(s, a) \/ Complete(s, a) \/ Fail(s, a) \/ Stop(s, a)
        PROVE  tx' = tx
    BY <2>1 DEF Prepare, Complete, Fail, Stop
  <2>2. ASSUME NEW s, NEW a, AcceptItem(s, a) \/ DeferItem(s, a) PROVE tx' = tx
    BY <2>2 DEF AcceptItem, DeferItem
  <2>3. ASSUME NEW s, NEW a, NEW unsure, Finalize(s, a, unsure) PROVE tx' = tx
    BY <2>3 DEF Finalize
  <2>4. ASSUME NEW s, NEW a, NEW i, NEW why, Refuse(s, a, i, why) PROVE tx' = tx
    BY <2>4 DEF Refuse
  <2> QED  BY <1>6, <1>9, <2>1, <2>2, <2>3, <2>4
<1>10. CASE \E c \in Clients :
              \/ \E i \in Items, action \in ReviewActions : ClaimReview(c, i, action)
              \/ \E i \in Items, l \in Keys, action \in Resolutions : ClaimDuplicate(c, i, l, action)
              \/ Repeat(c) \/ ExpireDecision(c) \/ DecideReview(c) \/ DecideDuplicate(c)
  BY <1>6, <1>10 DEF ClaimReview, ClaimDuplicate, Repeat, ExpireDecision, DecideReview, DecideDuplicate
<1> QED
  BY <1>1, <1>2, <1>3, <1>4, <1>5, <1>7, <1>8, <1>9, <1>10 DEF Next

\* The ledger that tracking is modelled with is no freer than the real one
\* in what becomes of a transaction: posts by workers and owners, deletions
\* and restorations move it only as TransactionStatus allows, which all
\* commands of module Ledger implement (createTransaction, tracking.worker.ts:209).
THEOREM LifecycleFollowed == Spec => Lifecycle!Spec
<1> DEFINE view == [k \in Keys |-> tx[k].status]
<1>1. Init => Lifecycle!Init
  BY DEF Init, NoTransaction, Lifecycle!Init
<1>2. IInv /\ IInv' /\ [Next]_vars => [Lifecycle!Next]_view
  <2> SUFFICES ASSUME IInv, IInv', [Next]_vars PROVE Lifecycle!Next
    OBVIOUS
  <2>1. \A k \in Keys : tx'[k].status = tx[k].status \/ <<tx[k].status, tx'[k].status>> \in Lifecycle!Edges
    BY StatusEdge
  <2>2. view' = [k \in Keys |-> tx'[k].status]
        /\ view' \in [Keys -> {"none", "confirmed", "reversed", "deleted"}]
    BY DEF IInv, TypeOK, TransactionRow
  <2> QED  BY <2>1, <2>2 DEF Lifecycle!Next
<1> HIDE DEF view
<1> QED  BY <1>1, <1>2, Invariance, PTL DEF Spec, Lifecycle!Spec, view

=============================================================================
