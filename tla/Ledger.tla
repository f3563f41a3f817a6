------------------------------- MODULE Ledger -------------------------------
(***************************************************************************)
(* One user's ledger: the commands of                                      *)
(* supabase/migrations/20260830080200_phase05_ledger_commands.sql, the     *)
(* account commands that decide what may be posted, and the two steps in   *)
(* which the API serves a command on an existing transaction: it reads     *)
(* version and amount and decides whether recent authentication is needed, *)
(* and only then, in another transaction, runs the command.                *)
(*                                                                         *)
(* Every command takes the user's advisory lock (ledger_begin) and holds   *)
(* it to the end of its database transaction, so a command is one step.    *)
(* Postings are immutable; what the commands read of them is their sum per *)
(* transaction and account, and that is what the model keeps.              *)
(***************************************************************************)
EXTENDS Integers, FiniteSets, Totals

CONSTANTS
  Clients,    \* requests of the user that may be under way together
  Recent,     \* the clients whose authentication is recent
  Accounts,   \* accounts the user may ever have, of one currency
  Ids,        \* transactions the user may ever have
  Amounts,    \* amount_minor
  Fees,       \* fee_minor
  Openings,   \* opening balances
  Limit,      \* largest magnitude of an amount or a balance
  Threshold,  \* MASARIFI_LEDGER_RECENT_AUTH_THRESHOLDS of the currency
  MaxVersion, \* bound on transactions.version
  NoId        \* reverses_transaction_id is null

ASSUME LimitAssumption == Limit \in Nat \ {0} /\ Amounts \subseteq 1..Limit
ASSUME SumsAssumption == Fees \subseteq 0..Limit /\ Openings \subseteq -Limit..Limit
ASSUME ClientsAssumption == Recent \subseteq Clients /\ Threshold \in Nat
ASSUME BoundAssumption == MaxVersion \in Nat \ {0}
ASSUME IdsAssumption == IsFiniteSet(Ids) /\ NoId \notin Ids
ASSUME AccountsAssumption == IsFiniteSet(Accounts)

VARIABLES
  account,    \* accounts.status, "none" before the account exists
  balance,    \* account_balances.confirmed_minor
  tx,         \* rows of public.transactions
  posted,     \* sum of a transaction's postings to each account
  saved,      \* effect in the before_snapshot of the latest deletion
  undoable,   \* deleted transactions whose undo_expires_at is to come
  request     \* what each client's request has read and asks for

books == <<balance, tx, posted>>
vars == <<account, balance, tx, posted, saved, undoable, request>>

Kinds == {"income", "expense", "transfer", "opening", "refund", "reversal"}
Operations == {"revise", "refund", "reverse", "delete", "restore"}
Effects == [Accounts -> Int]

Absent == [kind |-> "none", status |-> "none", amount |-> 0, fee |-> 0,
           version |-> 0, reverses |-> NoId]
Idle == [op |-> "none", id |-> NoId, version |-> 0, seen |-> 0, next |-> 0]

Transactions ==
  [kind : Kinds \union {"none"}, status : {"none", "confirmed", "reversed", "deleted"},
   amount : 0..Limit, fee : 0..Limit, version : 0..MaxVersion, reverses : Ids \union {NoId}]
Requests ==
  {Idle} \union [op : Operations, id : Ids, version : 0..MaxVersion,
                 seen : 0..(2 * Limit), next : 0..Limit]

TypeOK ==
  /\ account \in [Accounts -> {"none", "active", "archived", "closed"}]
  /\ balance \in [Accounts -> -Limit..Limit]
  /\ tx \in [Ids -> Transactions]
  /\ posted \in [Ids -> Effects]
  /\ saved \in [Ids -> Effects]
  /\ undoable \in SUBSET Ids
  /\ request \in [Clients -> Requests]

(***************************************************************************)
(* Effects: an amount for each account.                                    *)
(***************************************************************************)
Nothing == [a \in Accounts |-> 0]
On(a, x) == [b \in Accounts |-> IF b = a THEN x ELSE 0]
Plus(e, f) == [a \in Accounts |-> e[a] + f[a]]
Minus(e, f) == [a \in Accounts |-> e[a] - f[a]]
Negated(e) == [a \in Accounts |-> -e[a]]

InRange(x) == x \in -Limit..Limit

\* Fault: the amounts are checked, the balances they lead to are not.
AmountsInRange(e) == \A a \in Accounts : InRange(e[a])

\* One posting per account: no amount and no balance leaves the range.
Postable(e) == \A a \in Accounts : InRange(e[a]) /\ InRange(balance[a] + e[a])

Signed(kind, amount) == IF kind = "expense" THEN -amount ELSE amount

\* Fault: the fee is charged, and withheld from what arrives as well.
TransferWithholdsFee(source, destination, feeAccount, amount, fee) ==
  Plus(Plus(On(source, -amount), On(destination, amount - fee)), On(feeAccount, -fee))

TransferEffect(source, destination, feeAccount, amount, fee) ==
  Plus(Plus(On(source, -amount), On(destination, amount)), On(feeAccount, -fee))

Init ==
  /\ account = [a \in Accounts |-> "none"]
  /\ balance = Nothing
  /\ tx = [id \in Ids |-> Absent]
  /\ posted = [id \in Ids |-> Nothing]
  /\ saved = [id \in Ids |-> Nothing]
  /\ undoable = {}
  /\ request = [c \in Clients |-> Idle]

(***************************************************************************)
(* What the commands share.                                                *)
(***************************************************************************)
Active(a) == account[a] = "active"
Confirmed(id) == tx[id].status = "confirmed"
Dependents(id, kinds) ==
  {d \in Ids : tx[d].reverses = id /\ tx[d].kind \in kinds /\ Confirmed(d)}
Refunded(id) == Total([d \in Dependents(id, {"refund"}) |-> tx[d].amount])

\* Fault: the upsert of the balance replaces it instead of adding to it.
PostReplaces(id, e) ==
  /\ balance' = [a \in Accounts |-> IF e[a] = 0 THEN balance[a] ELSE e[a]]
  /\ posted' = [posted EXCEPT ![id] = Plus(@, e)]

Post(id, e) ==
  /\ balance' = Plus(balance, e)
  /\ posted' = [posted EXCEPT ![id] = Plus(@, e)]

Record(kind, amount, fee, reverses) ==
  [kind |-> kind, status |-> "confirmed", amount |-> amount, fee |-> fee,
   version |-> 1, reverses |-> reverses]

\* guard_transaction_update bumps the version with every update.
Updated(row, status, amount) ==
  [row EXCEPT !.status = status, !.amount = amount, !.version = row.version + 1]

Free(id) == tx[id].status = "none"
Allowed(c, effect) == c \in Recent \/ effect < Threshold
Permitted(effect) == {c \in Clients : Allowed(c, effect)} # {}

(***************************************************************************)
(* Accounts.  Archiving, restoring and closing look at the status only.    *)
(***************************************************************************)
\* createAccount posts the opening balance in the same transaction.
CreateAccount(a, id, opening) ==
  LET amount == IF opening < 0 THEN -opening ELSE opening
  IN /\ account[a] = "none"
     /\ Permitted(amount)
     /\ account' = [account EXCEPT ![a] = "active"]
     /\ IF opening = 0 THEN UNCHANGED books
        ELSE /\ Free(id) /\ Postable(On(a, opening))
             /\ tx' = [tx EXCEPT ![id] = Record("opening", amount, 0, NoId)]
             /\ Post(id, On(a, opening))
     /\ UNCHANGED <<saved, undoable, request>>

MoveAccount(a, from, to) ==
  /\ account[a] \in from
  /\ account' = [account EXCEPT ![a] = to]
  /\ UNCHANGED <<balance, tx, posted, saved, undoable, request>>

ArchiveAccount(a) == MoveAccount(a, {"active"}, "archived")
RestoreAccount(a) == MoveAccount(a, {"archived"}, "active")
CloseAccount(a) == MoveAccount(a, {"active", "archived"}, "closed")

(***************************************************************************)
(* Commands that create a transaction.                                     *)
(***************************************************************************)
PostTransaction(id, kind, amount, a) ==
  /\ Permitted(amount)
  /\ Free(id) /\ Active(a)
  /\ Postable(On(a, Signed(kind, amount)))
  /\ tx' = [tx EXCEPT ![id] = Record(kind, amount, 0, NoId)]
  /\ Post(id, On(a, Signed(kind, amount)))
  /\ UNCHANGED <<account, saved, undoable, request>>

\* The three postings come one after the other, each within the range.
TransferFunds(id, source, destination, feeAccount, amount, fee) ==
  LET effect == TransferEffect(source, destination, feeAccount, amount, fee)
  IN /\ Permitted(amount + fee)
     /\ source # destination /\ fee <= amount
     /\ Free(id) /\ Active(source) /\ Active(destination) /\ Active(feeAccount)
     /\ InRange(balance[destination] + amount)
     /\ \A a \in Accounts : InRange(balance[a] + effect[a])
     /\ tx' = [tx EXCEPT ![id] = Record("transfer", amount, fee, NoId)]
     /\ Post(id, effect)
     /\ UNCHANGED <<account, saved, undoable, request>>

(***************************************************************************)
(* Commands on an existing transaction: Prepare reads the row and refuses  *)
(* an outdated expectedVersion and a large effect without recent           *)
(* authentication; the command itself runs later, under the lock.          *)
(***************************************************************************)
Prepare(c, id, op, next) ==
  /\ request[c] = Idle
  /\ ~Free(id)
  /\ Allowed(c, tx[id].amount + tx[id].fee)
  /\ IF op = "revise" THEN next \in Amounts /\ Allowed(c, next) ELSE next = 0
  /\ request' = [request EXCEPT ![c] =
       [op |-> op, id |-> id, version |-> tx[id].version,
        seen |-> tx[id].amount + tx[id].fee, next |-> next]]
  /\ UNCHANGED <<account, balance, tx, posted, saved, undoable>>

\* The rate limit, an error of the command, or the end of the process.
Abandon(c) ==
  /\ request[c] # Idle
  /\ request' = [request EXCEPT ![c] = Idle]
  /\ UNCHANGED <<account, balance, tx, posted, saved, undoable>>

\* Fault: the command trusts the version the API has compared.
RunsUnchecked(c, op) ==
  /\ request[c].op = op
  /\ tx[request[c].id].version < MaxVersion
  /\ request' = [request EXCEPT ![c] = Idle]

Runs(c, op) ==
  /\ request[c].op = op
  /\ tx[request[c].id].version = request[c].version
  /\ request[c].version < MaxVersion
  /\ request' = [request EXCEPT ![c] = Idle]

\* Fault: on a move to another account the old one keeps its postings.
ReviseKeepsOld(c, a) ==
  LET id == request[c].id
      effect == On(a, Signed(tx[id].kind, request[c].next) - posted[id][a])
  IN /\ Runs(c, "revise")
     /\ tx[id].kind \in {"income", "expense"} /\ Confirmed(id)
     /\ Active(a)
     /\ Postable(effect)
     /\ tx' = [tx EXCEPT ![id] = Updated(@, "confirmed", request[c].next)]
     /\ Post(id, effect)
     /\ UNCHANGED <<account, saved, undoable>>

\* The effect of the revised transaction replaces the old one, be it on the
\* same account or on another.
Revise(c, a) ==
  LET id == request[c].id
      effect == Minus(On(a, Signed(tx[id].kind, request[c].next)), posted[id])
  IN /\ Runs(c, "revise")
     /\ tx[id].kind \in {"income", "expense"} /\ Confirmed(id)
     /\ Active(a)
     /\ Postable(effect)
     /\ tx' = [tx EXCEPT ![id] = Updated(@, "confirmed", request[c].next)]
     /\ Post(id, effect)
     /\ UNCHANGED <<account, saved, undoable>>

\* The original is updated too, to give it a new version.
Refund(c, refund, a, amount) ==
  LET id == request[c].id
  IN /\ Runs(c, "refund")
     /\ tx[id].kind = "expense" /\ Confirmed(id)
     /\ Free(refund) /\ Active(a)
     /\ Refunded(id) + amount <= tx[id].amount
     /\ Postable(On(a, amount))
     /\ tx' = [tx EXCEPT ![id] = Updated(@, "confirmed", tx[id].amount),
                         ![refund] = Record("refund", amount, 0, id)]
     /\ Post(refund, On(a, amount))
     /\ UNCHANGED <<account, saved, undoable>>

\* Fault: a deleted transaction can be reversed; neither the command nor
\* guard_transaction_update looks at its status.
ReverseAny(c, reversal) ==
  LET id == request[c].id
      effect == Negated(posted[id])
  IN /\ Runs(c, "reverse")
     /\ Dependents(id, {"reversal", "refund"}) = {}
     /\ tx[id].kind # "reversal"
     /\ Free(reversal)
     /\ Postable(effect)
     /\ tx' = [tx EXCEPT ![id] = Updated(@, "reversed", tx[id].amount),
                         ![reversal] = Record("reversal", tx[id].amount, tx[id].fee, id)]
     /\ Post(reversal, effect)
     /\ UNCHANGED <<account, saved, undoable>>

\* Accounts are not looked at: what has been posted can always be taken back.
Reverse(c, reversal) ==
  LET id == request[c].id
      effect == Negated(posted[id])
  IN /\ Runs(c, "reverse")
     /\ Dependents(id, {"reversal", "refund"}) = {}
     /\ Confirmed(id) /\ tx[id].kind # "reversal"
     /\ Free(reversal)
     /\ Postable(effect)
     /\ tx' = [tx EXCEPT ![id] = Updated(@, "reversed", tx[id].amount),
                         ![reversal] = Record("reversal", tx[id].amount, tx[id].fee, id)]
     /\ Post(reversal, effect)
     /\ UNCHANGED <<account, saved, undoable>>

\* Fault: a transaction with refunds can be deleted.
SoftDeleteAny(c) ==
  LET id == request[c].id
      effect == Negated(posted[id])
  IN /\ Runs(c, "delete")
     /\ tx[id].kind \notin {"refund", "reversal"} /\ Confirmed(id)
     /\ Postable(effect)
     /\ tx' = [tx EXCEPT ![id] = Updated(@, "deleted", tx[id].amount)]
     /\ Post(id, effect)
     /\ saved' = [saved EXCEPT ![id] = posted[id]]
     /\ undoable' = undoable \union {id}
     /\ UNCHANGED account

SoftDelete(c) ==
  LET id == request[c].id
      effect == Negated(posted[id])
  IN /\ Runs(c, "delete")
     /\ Dependents(id, Kinds) = {}
     /\ tx[id].kind \notin {"refund", "reversal"} /\ Confirmed(id)
     /\ Postable(effect)
     /\ tx' = [tx EXCEPT ![id] = Updated(@, "deleted", tx[id].amount)]
     /\ Post(id, effect)
     /\ saved' = [saved EXCEPT ![id] = posted[id]]
     /\ undoable' = undoable \union {id}
     /\ UNCHANGED account

\* undo_expires_at passes.
UndoExpires(id) ==
  /\ id \in undoable
  /\ undoable' = undoable \ {id}
  /\ UNCHANGED <<account, balance, tx, posted, saved, request>>

\* Only the snapshot of the latest deletion is ever read again, and only
\* while the transaction is deleted: the model forgets it here.
Restore(c) ==
  LET id == request[c].id
  IN /\ Runs(c, "restore")
     /\ tx[id].status = "deleted" /\ id \in undoable
     /\ saved[id] # Nothing
     /\ Postable(saved[id])
     /\ tx' = [tx EXCEPT ![id] = Updated(@, "confirmed", tx[id].amount)]
     /\ Post(id, saved[id])
     /\ saved' = [saved EXCEPT ![id] = Nothing]
     /\ undoable' = undoable \ {id}
     /\ UNCHANGED account

Next ==
  \/ \E a \in Accounts, id \in Ids, x \in Openings : CreateAccount(a, id, x)
  \/ \E a \in Accounts : ArchiveAccount(a) \/ RestoreAccount(a) \/ CloseAccount(a)
  \/ \E id \in Ids, kind \in {"income", "expense"}, x \in Amounts, a \in Accounts :
       PostTransaction(id, kind, x, a)
  \/ \E id \in Ids, s, d, f \in Accounts, x \in Amounts, y \in Fees :
       TransferFunds(id, s, d, f, x, y)
  \/ \E c \in Clients, id \in Ids, op \in Operations, x \in Amounts \union {0} :
       Prepare(c, id, op, x)
  \/ \E c \in Clients : Abandon(c) \/ SoftDelete(c) \/ Restore(c)
  \/ \E c \in Clients, a \in Accounts : Revise(c, a)
  \/ \E c \in Clients, id \in Ids, a \in Accounts, x \in Amounts : Refund(c, id, a, x)
  \/ \E c \in Clients, id \in Ids : Reverse(c, id)
  \/ \E id \in Ids : UndoExpires(id)

Spec == Init /\ [][Next]_vars

(***************************************************************************)
(* Properties.                                                             *)
(***************************************************************************)
\* Every balance is the sum of the postings to its account: what
\* reconcile_account_balance compares.
BalancesAddUp ==
  \A a \in Accounts : balance[a] = Total([id \in Ids |-> posted[id][a]])

\* e is an effect that a transaction with this row may have, if o is the
\* effect of its original.
Explains(row, e, o) ==
  \/ /\ row.kind \in {"income", "expense", "refund"}
     /\ \E a \in Accounts : e = On(a, Signed(row.kind, row.amount))
  \/ row.kind = "opening" /\ \E a \in Accounts : e = On(a, row.amount) \/ e = On(a, -row.amount)
  \/ /\ row.kind = "transfer"
     /\ \E s, d, f \in Accounts :
          s # d /\ e = TransferEffect(s, d, f, row.amount, row.fee)
  \/ row.kind = "reversal" /\ e = Negated(o)

\* However often a transaction is revised, moved to another account, deleted
\* and restored, the sum of all its postings is the effect its row states:
\* nothing while it is deleted, and then the snapshot kept for the undo is
\* such an effect; a reversal undoes its original exactly.
PostingsFollowHeader ==
  \A id \in Ids :
    /\ tx[id].status = "none" => posted[id] = Nothing
    /\ tx[id].status \in {"confirmed", "reversed"} =>
         Explains(tx[id], posted[id], posted[tx[id].reverses])
    /\ tx[id].status = "deleted" =>
         posted[id] = Nothing /\ Explains(tx[id], saved[id], posted[tx[id].reverses])

\* What a transaction does to all accounts together, by its row alone: a
\* transfer costs its fee, a reversal cancels its original, which no longer
\* counts, and a deleted transaction is as if it had never been.  (The row of
\* an opening balance has no sign; its postings tell.)
Net(row, postings) ==
  CASE row.status # "confirmed" \/ row.kind = "reversal" -> 0
    [] row.status = "confirmed" /\ row.kind = "transfer" -> -row.fee
    [] row.status = "confirmed" /\ row.kind = "opening" -> Total(postings)
    [] OTHER -> Signed(row.kind, row.amount)

\* No money appears or disappears: the balances of all accounts together are
\* what the confirmed transactions brought in and took out, be the accounts
\* active or closed, through any transfers, revisions to other accounts,
\* refunds, reversals, deletions and restorations.  It is what lets the mobile
\* report add up net worth from transactions (report-net-worth.ts).
MoneyIsConserved ==
  Total(balance) = Total([id \in Ids |-> Net(tx[id], posted[id])])

\* A confirmed refund has a confirmed expense as its original, and a
\* transaction is reversed exactly when one confirmed reversal refers to it:
\* no order of refunds, reversals, deletions and restorations leaves a
\* dependent without its original (TRANSACTION_HAS_DEPENDENTS).
DependentsKeepOriginal ==
  /\ \A d \in Ids : tx[d].kind = "refund" /\ Confirmed(d) =>
       /\ tx[d].reverses \in Ids
       /\ tx[tx[d].reverses].kind = "expense" /\ Confirmed(tx[d].reverses)
  /\ \A id \in Ids : tx[id].status = "reversed" <=> Dependents(id, {"reversal"}) # {}
  /\ \A d, e \in Ids :
       tx[d].kind = "reversal" /\ tx[e].kind = "reversal" /\ tx[d].reverses = tx[e].reverses => d = e

\* A transaction of a large amount, before or after, is changed only by a
\* request with recent authentication, although that is decided from a row
\* read before the command takes the lock.
LargeChange(id) ==
  /\ ~Free(id) /\ tx'[id] # tx[id]
  /\ \/ tx[id].amount + tx[id].fee >= Threshold
     \/ tx'[id].amount + tx'[id].fee >= Threshold
LargeChangesAreRecent ==
  [][\A id \in Ids : LargeChange(id) =>
       \E c \in Recent : request[c].id = id /\ request'[c] = Idle]_vars

\* The planning functions hang on the status of transactions.  Whatever
\* commands race for a transaction, its status moves as TransactionStatus
\* allows: a reversal is final, a deletion can only be undone.
Lifecycle == INSTANCE TransactionStatus WITH status <- [id \in Ids |-> tx[id].status]
KeepsLifecycle == Lifecycle!Spec

\* "cumulative active refunds never exceed the original amount"
\* (apps/api/specs/005-transactions-ledger-integrity/spec.md:194).
RefundsWithinOriginal ==
  \A id \in Ids : Confirmed(id) => Refunded(id) <= tx[id].amount

=============================================================================
