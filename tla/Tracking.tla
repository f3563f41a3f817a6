------------------------------ MODULE Tracking ------------------------------
(***************************************************************************)
(* Imported messages on their way into the ledger: the sessions and items  *)
(* of supabase/migrations/20260902120100_phase08_tracking_functions.sql    *)
(* and 20260905081000, process of src/tracking/tracking.worker.ts, and     *)
(* decideReview and decideDuplicate of tracking.service.ts.                *)
(*                                                                         *)
(* A function of the database is one step; the worker and the requests of  *)
(* the owner take several, with the ledger in between.  The ledger is not  *)
(* fenced: it knows a command by its idempotency key and its values only,  *)
(* and a worker that has lost its lease may still post.                    *)
(*                                                                         *)
(* A claim the database loses in a crash (synchronous_commit is off)       *)
(* leaves a worker whose every call is refused: no claim at all.           *)
(* merge_details also revises texts of the existing transaction and is     *)
(* otherwise keep_existing; keep_both does what keep_new does.             *)
(*                                                                         *)
(* The messages are of income and expenses.  One that announces a transfer *)
(* is always left to the owner, whose decision would post it by another    *)
(* idempotency scope (ledger.transfer.create) and without a source; but it *)
(* can never be recorded: ledger.transfer demands a destination account,   *)
(* which no import carries and decide_review_item refuses as an edit.      *)
(***************************************************************************)
EXTENDS Integers, FiniteSets

CONSTANTS
  Sessions, Items,
  Sources,       \* identities of messages: source_type and source_item_key
  Manual,        \* transactions the owner enters by hand
  Similar,       \* item and transaction of equal amount, close in time
  Clients,       \* decisions the owner sends, each with its own key
  AttemptLimit,  \* attempt_count at which a session is no longer claimed
  None

ASSUME SimilarAssumption == Similar \subseteq Items \X Manual
ASSUME LimitAssumption == AttemptLimit \in Nat \ {0}
ASSUME NoneAssumption == None \notin Sources \union Items \union Manual \union Clients
ASSUME KeysAssumption == Sources \intersect Items = {} /\ Sources \intersect Manual = {}

VARIABLES
  origin,     \* session and source of an item, as it was imported
  enabled,    \* automatic tracking is allowed for the account
  session,    \* import_sessions: status, attempts, claim token, lease
  item,       \* import_items: status, transaction and operation
  review,     \* review_items, at most one for an item
  candidate,  \* duplicate_candidates
  tx,         \* the ledger, by idempotency key
  run,        \* the workers, by session and attempt
  client      \* the owner's requests

vars == <<origin, enabled, session, item, review, candidate, tx, run, client>>
questions == <<review, candidate>>

Attempts == 1..AttemptLimit
Keys == Sources \union Items \union Manual
Pairs == Items \X Keys

SessionOf(i) == origin[i].session
SourceOf(i) == origin[i].source

Unasked == [status |-> "none", by |-> None, live |-> FALSE]
Asked == [status |-> "pending", by |-> None, live |-> FALSE]
NoTransaction == [status |-> "none", values |-> None, source |-> None]
NoRun == [at |-> "none", todo |-> {}, item |-> None]
NoRequest == [at |-> "new", item |-> None, other |-> None, action |-> None]

Origins ==
  {f \in [Items -> [session : Sessions, source : Sources]] :
     \A i, j \in Items : f[i] = f[j] => i = j}

ReviewActions == {"accept", "edit_accept", "reject"}
Resolutions == {"keep_existing", "keep_new"}
Questions(states) == [status : states, by : Clients \union {None}, live : BOOLEAN]

SessionRow ==
  [status : {"received", "processing", "review", "complete", "failed", "cancelled"},
   attempts : 0..AttemptLimit, token : 0..AttemptLimit, live : BOOLEAN]
ItemRow ==
  [status : {"parsed", "review", "accepted", "rejected", "duplicate"},
   tx : Keys \union {None}, op : Sources \union Clients \union {None}]
TransactionRow ==
  [status : {"none", "confirmed", "deleted"},
   values : {"proposed", "edited", None}, source : Sources \union {None}]
RunRow ==
  [at : {"none", "claimed", "prepared", "working", "posted", "refused", "blocked", "ended"},
   todo : SUBSET Items, item : Items \union {None}]
RequestRow ==
  [at : {"new", "claimed", "posted", "done"}, item : Items \union {None},
   other : Keys \union {None}, action : ReviewActions \union Resolutions \union {None}]

TypeOK ==
  /\ origin \in Origins
  /\ enabled \in BOOLEAN
  /\ session \in [Sessions -> SessionRow]
  /\ item \in [Items -> ItemRow]
  /\ review \in [Items -> Questions({"none", "pending", "accepted", "rejected"})]
  /\ candidate \in [Pairs -> Questions({"none", "pending", "duplicate", "not_duplicate"})]
  /\ tx \in [Keys -> TransactionRow]
  /\ run \in [Sessions -> [Attempts -> RunRow]]
  /\ client \in [Clients -> RequestRow]

\* create_import_session has run; the owner has entered nothing yet.
Init ==
  /\ origin \in Origins
  /\ enabled = TRUE
  /\ session = [s \in Sessions |->
                  [status |-> "received", attempts |-> 0, token |-> 0, live |-> FALSE]]
  /\ item = [i \in Items |-> [status |-> "parsed", tx |-> None, op |-> None]]
  /\ review = [i \in Items |-> Unasked]
  /\ candidate = [p \in Pairs |-> Unasked]
  /\ tx = [k \in Keys |-> NoTransaction]
  /\ run = [s \in Sessions |-> [a \in Attempts |-> NoRun]]
  /\ client = [c \in Clients |-> NoRequest]

(***************************************************************************)
(* The ledger, as tracking uses it.                                        *)
(***************************************************************************)
\* Fault: the key is made from the item instead of the message.
KeyOfItem(i) == i

\* tracking:<hash>, whoever posts.
KeyOf(i) == SourceOf(i)

\* createTransaction answers with a transaction: a new one, which the gate
\* on postings allows, or the one the key has made from the same values.
Answers(i, values) ==
  \/ tx[KeyOf(i)].status = "none" /\ enabled
  \/ tx[KeyOf(i)].status # "none" /\ tx[KeyOf(i)].values = values

Post(i, values) ==
  tx' = IF tx[KeyOf(i)].status # "none" THEN tx
        ELSE [tx EXCEPT ![KeyOf(i)] =
                [status |-> "confirmed", values |-> values, source |-> SourceOf(i)]]

Confirmed(k) == tx[k].status = "confirmed"

\* compute_duplicate_candidates: the amounts agree and the times are close.
Matches(i, k) ==
  /\ Confirmed(k)
  /\ \/ <<i, k>> \in Similar
     \/ tx[k].source = SourceOf(i) /\ tx[k].values = "proposed"

\* The owner enters, deletes and restores transactions, and changes what
\* may be tracked.
AddManual(k) ==
  /\ tx[k].status = "none"
  /\ tx' = [tx EXCEPT ![k].status = "confirmed"]
  /\ UNCHANGED <<origin, enabled, session, item, review, candidate, run, client>>

Delete(k) ==
  /\ Confirmed(k)
  /\ tx' = [tx EXCEPT ![k].status = "deleted"]
  /\ UNCHANGED <<origin, enabled, session, item, review, candidate, run, client>>

Restore(k) ==
  /\ tx[k].status = "deleted"
  /\ tx' = [tx EXCEPT ![k].status = "confirmed"]
  /\ UNCHANGED <<origin, enabled, session, item, review, candidate, run, client>>

SetTracking ==
  /\ enabled' = ~enabled
  /\ UNCHANGED <<origin, session, item, review, candidate, tx, run, client>>

(***************************************************************************)
(* Sessions: claims, leases, attempts.                                     *)
(***************************************************************************)
ItemsOf(s) == {i \in Items : SessionOf(i) = s}
Imported == {origin[i].session : i \in Items}  \* a session has an item
Parsed(s) == {i \in ItemsOf(s) : item[i].status = "parsed"}

\* Where an attempt is in process, with the items left and the one it is at.
Goes(s, a, at, todo, i) ==
  run' = [run EXCEPT ![s][a] = [at |-> at, todo |-> todo, item |-> i]]

\* Fault: the limit on attempts is off by one.
ClaimOneMore(s) ==
  /\ session[s].status \in {"received", "processing"}
  /\ ~session[s].live
  /\ session[s].attempts <= AttemptLimit
  /\ session' = [session EXCEPT ![s].status = "processing", ![s].attempts = @ + 1, ![s].live = TRUE]
  /\ UNCHANGED <<origin, enabled, item, review, candidate, tx, run, client>>

Claim(s) ==
  LET a == session[s].attempts + 1
  IN /\ session[s].status \in {"received", "processing"}
     /\ ~session[s].live
     /\ a <= AttemptLimit
     /\ session' = [session EXCEPT ![s] =
          [status |-> "processing", attempts |-> a, token |-> a, live |-> TRUE]]
     /\ Goes(s, a, "claimed", {}, None)
     /\ UNCHANGED <<origin, enabled, item, review, candidate, tx, client>>

ExpireLease(s) ==
  /\ session[s].live
  /\ session' = [session EXCEPT ![s].live = FALSE]
  /\ UNCHANGED <<origin, enabled, item, review, candidate, tx, run, client>>

\* Fault: the lease is looked at, but not whose it is.
HoldsAny(s, a) == session[s].live

Holds(s, a) == session[s].live /\ session[s].token = a
Running(s, a) == run[s][a].at \notin {"none", "ended"}
Released(s, status) ==
  [session EXCEPT ![s] =
     [status |-> status, attempts |-> session[s].attempts, token |-> 0, live |-> FALSE]]

\* Fault: items under review do not hold a session open.
OutcomeParsed(s) == IF Parsed(s) = {} THEN "complete" ELSE "review"

Outcome(s) ==
  IF \E i \in ItemsOf(s) : item[i].status \in {"parsed", "review"} THEN "review" ELSE "complete"

Complete(s, a) ==
  /\ run[s][a].at = "working" /\ run[s][a].todo = {}
  /\ Holds(s, a)
  /\ session' = Released(s, Outcome(s))
  /\ Goes(s, a, "ended", {}, None)
  /\ UNCHANGED <<origin, enabled, item, review, candidate, tx, client>>

\* A call fails, anywhere in process, and the failure is recorded.
Fail(s, a) ==
  /\ Running(s, a)
  /\ Holds(s, a)
  /\ session' = Released(s, IF session[s].attempts = AttemptLimit THEN "failed" ELSE "received")
  /\ Goes(s, a, "ended", {}, None)
  /\ UNCHANGED <<origin, enabled, item, review, candidate, tx, client>>

\* The worker ends without a record: it dies, or is refused as stale.
Stop(s, a) ==
  /\ Running(s, a)
  /\ Goes(s, a, "ended", {}, None)
  /\ UNCHANGED <<origin, enabled, session, item, review, candidate, tx, client>>

\* execute_tracking_admin_action on a session.
Cancel(s) ==
  /\ session[s].status \in {"received", "processing", "review"}
  /\ session' = Released(s, "cancelled")
  /\ UNCHANGED <<origin, enabled, item, review, candidate, tx, run, client>>

Retry(s) ==
  /\ session[s].status = "failed"
  /\ session' = Released(s, "received")
  /\ UNCHANGED <<origin, enabled, item, review, candidate, tx, run, client>>

(***************************************************************************)
(* process: prepare, finalize, post, accept or defer.                      *)
(***************************************************************************)
With(is, status) ==
  [i \in Items |->
     IF i \in is THEN [status |-> status, tx |-> item[i].tx, op |-> item[i].op] ELSE item[i]]

\* Fault: an item with a duplicate candidate gets no review of its own.
AskUnlessDuplicate(is) ==
  /\ item' = With(is, "review")
  /\ review' = [i \in Items |->
       IF i \in is /\ review[i].status = "none" /\ ~ \E k \in Keys : Matches(i, k)
       THEN Asked ELSE review[i]]

\* create_review_item.
Ask(is) ==
  /\ item' = With(is, "review")
  /\ review' = [i \in Items |-> IF i \in is /\ review[i].status # "pending" THEN Asked ELSE review[i]]

\* prepare_import_session: items of a blocked account are rejected.  What
\* the parser then adds to an item does not appear in the model.
Prepare(s, a) ==
  /\ run[s][a].at = "claimed"
  /\ Holds(s, a)
  /\ item' = IF enabled THEN item ELSE With(Parsed(s), "rejected")
  /\ Goes(s, a, "prepared", {}, None)
  /\ UNCHANGED <<origin, enabled, session, review, candidate, tx, client>>

Proposed(i) ==
  {k \in Keys : \/ candidate[<<i, k>>].status = "pending"
                \/ candidate[<<i, k>>].status = "none" /\ Matches(i, k)}

\* finalize_import_session, where unsure has low confidence, or an unusual
\* kind, or the owner reviews everything.
Finalize(s, a, unsure) ==
  LET asked == unsure \union {i \in Parsed(s) : Proposed(i) # {}}
  IN /\ run[s][a].at = "prepared"
     /\ Holds(s, a)
     /\ IF enabled
        THEN /\ Ask(asked)
             /\ candidate' = [p \in Pairs |->
                  IF p[1] \in Parsed(s) /\ p[2] \in Proposed(p[1]) /\ candidate[p].status = "none"
                  THEN Asked ELSE candidate[p]]
             /\ Goes(s, a, "working", Parsed(s) \ asked, None)
        ELSE /\ item' = With(Parsed(s), "rejected")
             /\ Goes(s, a, "working", {}, None)
             /\ UNCHANGED questions
     /\ UNCHANGED <<origin, enabled, session, tx, client>>

\* The ledger is called without the claim token.
PostItem(s, a, i) ==
  /\ run[s][a].at = "working" /\ i \in run[s][a].todo
  /\ Answers(i, "proposed")
  /\ Post(i, "proposed")
  /\ Goes(s, a, "posted", run[s][a].todo, i)
  /\ UNCHANGED <<origin, enabled, session, item, review, candidate, client>>

\* RECENT_AUTH_REQUIRED and VALIDATION_FAILED come before the ledger is
\* written or its key looked at; TRACKING_ACCOUNT_BLOCKED from the gate.
Refuse(s, a, i, why) ==
  /\ run[s][a].at = "working" /\ i \in run[s][a].todo
  /\ why = "blocked" => ~enabled /\ tx[KeyOf(i)].status = "none"
  /\ Goes(s, a, why, run[s][a].todo, i)
  /\ UNCHANGED <<origin, enabled, session, item, review, candidate, tx, client>>

Proceed(s, a) == Goes(s, a, "working", run[s][a].todo \ {run[s][a].item}, None)

\* accept_import_item: the claim is checked, the status of the item is not.
AcceptItem(s, a) ==
  LET i == run[s][a].item
  IN /\ run[s][a].at = "posted"
     /\ Holds(s, a)
     /\ Confirmed(KeyOf(i))
     /\ \A j \in Items \ {i} : item[j].op # SourceOf(i)
     /\ item' = [item EXCEPT ![i] = [status |-> "accepted", tx |-> KeyOf(i), op |-> SourceOf(i)]]
     /\ Proceed(s, a)
     /\ UNCHANGED <<origin, enabled, session, review, candidate, tx, client>>

\* defer_import_item.
DeferItem(s, a) ==
  LET i == run[s][a].item
  IN /\ run[s][a].at \in {"refused", "blocked"}
     /\ Holds(s, a)
     /\ item[i].status = "parsed"
     /\ IF run[s][a].at = "refused" THEN Ask({i})
        ELSE item' = With({i}, "rejected") /\ UNCHANGED review
     /\ Proceed(s, a)
     /\ UNCHANGED <<origin, enabled, session, candidate, tx, client>>

(***************************************************************************)
(* decideReview and decideDuplicate: claim, post, decide.                  *)
(***************************************************************************)
\* A question is free for a new request when nobody has claimed it, or the
\* claim has run out; a request that repeats itself finds its own claim.
Free(q) == q.status = "pending" /\ ~q.live
Claimed(q, c) == [status |-> q.status, by |-> c, live |-> TRUE]
Answered(q, status) == [status |-> status, by |-> q.by, live |-> FALSE]
Holder(q, c) == q.status = "pending" /\ q.by = c /\ q.live

IsReview(c) == client[c].other = None
Question(c) ==
  IF IsReview(c) THEN review[client[c].item] ELSE candidate[<<client[c].item, client[c].other>>]

\* The question of a request, review or candidate, becomes q.
Asks(c, q) ==
  IF IsReview(c)
  THEN review' = [review EXCEPT ![client[c].item] = q] /\ UNCHANGED candidate
  ELSE candidate' = [candidate EXCEPT ![<<client[c].item, client[c].other>>] = q] /\ UNCHANGED review

ClaimReview(c, i, action) ==
  /\ client[c].at = "new"
  /\ Free(review[i])
  /\ review' = [review EXCEPT ![i] = Claimed(review[i], c)]
  /\ client' = [client EXCEPT ![c] = [at |-> "claimed", item |-> i, other |-> None, action |-> action]]
  /\ UNCHANGED <<origin, enabled, session, item, candidate, tx, run>>

ClaimDuplicate(c, i, k, action) ==
  /\ client[c].at = "new"
  /\ Free(candidate[<<i, k>>])
  /\ candidate' = [candidate EXCEPT ![<<i, k>>] = Claimed(candidate[<<i, k>>], c)]
  /\ client' = [client EXCEPT ![c] = [at |-> "claimed", item |-> i, other |-> k, action |-> action]]
  /\ UNCHANGED <<origin, enabled, session, item, review, tx, run>>

\* The request is lost somewhere and sent again, under the same key.
Repeat(c) ==
  /\ client[c].at \in {"claimed", "posted"}
  /\ Question(c).status = "pending" /\ Question(c).by = c
  /\ client' = [client EXCEPT ![c].at = "claimed"]
  /\ Asks(c, Claimed(Question(c), c))
  /\ UNCHANGED <<origin, enabled, session, item, tx, run>>

\* The lease of a decision runs out.
ExpireDecision(c) ==
  /\ client[c].at \in {"claimed", "posted"}
  /\ Holder(Question(c), c)
  /\ Asks(c, Answered(Question(c), "pending"))
  /\ UNCHANGED <<origin, enabled, session, item, tx, run, client>>

Posts == {"accept", "edit_accept", "keep_new"}
Values(action) == IF action = "edit_accept" THEN "edited" ELSE "proposed"

PostDecision(c) ==
  /\ client[c].at = "claimed" /\ client[c].action \in Posts
  /\ Answers(client[c].item, Values(client[c].action))
  /\ Post(client[c].item, Values(client[c].action))
  /\ client' = [client EXCEPT ![c].at = "posted"]
  /\ UNCHANGED <<origin, enabled, session, item, review, candidate, run>>

Ready(c) == client[c].at = IF client[c].action \in Posts THEN "posted" ELSE "claimed"

\* decide_review_item: the status of the item is not looked at.
DecideReview(c) ==
  LET i == client[c].item  reject == client[c].action = "reject"
  IN /\ Ready(c) /\ IsReview(c)
     /\ Holder(review[i], c)
     /\ reject \/ Confirmed(KeyOf(i))
     /\ review' = [review EXCEPT ![i] = Answered(review[i], IF reject THEN "rejected" ELSE "accepted")]
     /\ item' = [item EXCEPT ![i] = IF reject THEN [status |-> "rejected", tx |-> None, op |-> None]
                                    ELSE [status |-> "accepted", tx |-> KeyOf(i), op |-> c]]
     /\ client' = [client EXCEPT ![c].at = "done"]
     /\ UNCHANGED <<origin, enabled, session, candidate, tx, run>>

\* Fault: the item is linked to the candidate whatever was decided.
LinkedAlways(c) == client[c].other

Linked(c) == IF client[c].action = "keep_existing" THEN client[c].other ELSE KeyOf(client[c].item)

\* decide_duplicate_candidate: nor is it here.
DecideDuplicate(c) ==
  LET i == client[c].item  keep == client[c].action = "keep_existing"
  IN /\ Ready(c) /\ ~IsReview(c)
     /\ Holder(candidate[<<i, client[c].other>>], c)
     /\ Confirmed(Linked(c))
     /\ candidate' = [candidate EXCEPT ![<<i, client[c].other>>] =
                        Answered(candidate[<<i, client[c].other>>], IF keep THEN "duplicate" ELSE "not_duplicate")]
     /\ item' = [item EXCEPT ![i] = [status |-> IF keep THEN "duplicate" ELSE "accepted",
                                     tx |-> Linked(c), op |-> IF keep THEN None ELSE c]]
     /\ client' = [client EXCEPT ![c].at = "done"]
     /\ UNCHANGED <<origin, enabled, session, review, tx, run>>

Next ==
  \/ SetTracking
  \/ \E k \in Keys : Delete(k) \/ Restore(k)
  \/ \E k \in Manual : AddManual(k)
  \/ \E s \in Imported : Claim(s) \/ ExpireLease(s) \/ Cancel(s) \/ Retry(s)
  \/ \E s \in Imported, a \in Attempts :
       \/ Prepare(s, a) \/ Complete(s, a) \/ Fail(s, a) \/ Stop(s, a)
       \/ AcceptItem(s, a) \/ DeferItem(s, a)
       \/ \E unsure \in SUBSET Parsed(s) : Finalize(s, a, unsure)
       \/ \E i \in Items : PostItem(s, a, i) \/ \E why \in {"refused", "blocked"} : Refuse(s, a, i, why)
  \/ \E c \in Clients :
       \/ \E i \in Items, action \in ReviewActions : ClaimReview(c, i, action)
       \/ \E i \in Items, k \in Keys, action \in Resolutions : ClaimDuplicate(c, i, k, action)
       \/ Repeat(c) \/ ExpireDecision(c) \/ PostDecision(c) \/ DecideReview(c) \/ DecideDuplicate(c)

Spec == Init /\ [][Next]_vars

(***************************************************************************)
(* Properties.                                                             *)
(***************************************************************************)
\* A message makes at most one transaction, however often it is imported,
\* attempted by workers that have lost their lease, and decided by the owner.
OneTransactionPerSource ==
  \A k, l \in Keys : tx[k].source # None /\ tx[k].source = tx[l].source => k = l

\* An item under review can be decided: its review is still open.
ReviewIsOpen == \A i \in Items : item[i].status = "review" => review[i].status = "pending"

\* What the owner has been asked, the owner decides: no worker, however
\* late, settles an item that another attempt has put under review.
OwnerDecides ==
  [][\A i \in Items : item[i].status = "review" /\ item'[i].status # "review" =>
       \E c \in Clients : client[c].item = i /\ client[c].at # "done" /\ client'[c].at = "done"]_vars

\* A complete session has no open item, and none is opened again.
CompleteIsSettled ==
  \A s \in Sessions : session[s].status = "complete" =>
    \A i \in ItemsOf(s) : item[i].status \in {"accepted", "rejected", "duplicate"}

\* An accepted item has the transaction of its own message, a duplicate one
\* that the owner has declared to be the same.
LinksAreRight ==
  \A i \in Items :
    /\ item[i].status = "accepted" => tx[item[i].tx].source = SourceOf(i)
    /\ item[i].status = "duplicate" => candidate[<<i, item[i].tx>>].status = "duplicate"

=============================================================================
