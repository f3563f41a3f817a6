------------------------------ MODULE Planning ------------------------------
(***************************************************************************)
(* Obligations, their schedules and payments: the functions of             *)
(* supabase/migrations/20260831120100_phase07_planning_functions.sql as    *)
(* replaced by 20260901170100, and the two triggers of 20260901170000 that *)
(* follow the status of a linked transaction.                              *)
(*                                                                         *)
(* The planning functions never write the ledger (FR-005); the ledger      *)
(* reaches them only through the triggers, in the database transaction of  *)
(* the ledger command.  What the commands of the ledger do to the status   *)
(* of a transaction is TransactionStatus, which module Ledger implements.  *)
(*                                                                         *)
(* A function locks the rows it reads until its transaction ends, so each  *)
(* is one step.  A request with an outdated version is refused without     *)
(* effect and is left out, with the versions.                              *)
(***************************************************************************)
EXTENDS Integers, FiniteSets, Totals

CONSTANTS
  Transactions,  \* expenses in the currency of the obligations
  Obligations,   \* payable, fixed_term, with automatic matching
  Count,         \* installment_count
  Installment,   \* installment_amount_minor
  Residual,      \* amount of the last installment
  MaxPayments,   \* bound on the payments ever recorded
  Amounts,       \* amounts of transactions
  NoTransaction  \* an unused payment's transaction

ASSUME CountAssumption == Count \in Nat \ {0} /\ IsFiniteSet(Obligations)
ASSUME SizeAssumption == Installment \in Nat \ {0} /\ Residual \in Nat \ {0}
ASSUME AmountsAssumption == IsFiniteSet(Amounts) /\ Amounts \subseteq Nat \ {0}
ASSUME NoTransactionAssumption == NoTransaction \notin Transactions
ASSUME BoundAssumption == MaxPayments \in Nat \ {0}

VARIABLES
  tx,          \* status and amount_minor of the transactions
  obligation,  \* obligations.status
  item,        \* obligation_schedule_items: paid_minor and status
  late,        \* items whose due_at has passed
  payment,     \* obligation_payments with their allocations
  match        \* payment_matches.status

vars == <<tx, obligation, item, late, payment, match>>

Payments == 1..MaxPayments
Items == Obligations \X (1..Count)
Amount(i) == IF i[2] = Count THEN Residual ELSE Installment
Largest == Max(Amounts)
Allocations == {a \in [Items -> 0..Largest] : Total(a) \in Amounts}
Nothing == [i \in Items |-> 0]

NoRow == [status |-> "none", amount |-> 0]
NoItem == [paid |-> 0, status |-> "none"]
NoPayment == [status |-> "none", tx |-> NoTransaction, extra |-> 0,
              invalidated |-> "none", alloc |-> Nothing]

TypeOK ==
  /\ tx \in [Transactions -> [status : {"none", "confirmed", "reversed", "deleted"},
                              amount : Amounts \union {0}]]
  /\ obligation \in [Obligations -> {"active", "paused", "completed", "closed", "archived"}]
  /\ item \in [Items -> [paid : 0..(Installment + Residual),
                         status : {"none", "due", "partial", "paid", "overdue"}]]
  /\ late \in SUBSET Items
  /\ payment \in [Payments ->
       [status : {"none", "confirmed", "reversed"}, tx : Transactions \union {NoTransaction},
        extra : Nat, invalidated : {"none", "reversed", "deleted"}, alloc : Allocations \union {Nothing}]]
  /\ match \in [Transactions \X Obligations -> {"none", "proposed", "accepted", "rejected"}]

Init ==
  /\ tx = [t \in Transactions |-> NoRow]
  /\ obligation = [o \in Obligations |-> "active"]
  /\ item = [i \in Items |-> NoItem]
  /\ late = {}
  /\ payment = [p \in Payments |-> NoPayment]
  /\ match = [m \in Transactions \X Obligations |-> "none"]

(***************************************************************************)
(* What a schedule item has received.                                      *)
(***************************************************************************)
Least(x, y) == IF x <= y THEN x ELSE y
Positive(x) == IF x > 0 THEN x ELSE 0

\* Fault: an item counts what exceeds its amount.
DerivedUncapped(pay, i) ==
  Total([p \in Payments |-> IF pay[p].status = "confirmed" THEN pay[p].alloc[i] ELSE 0])

Confirmed(pay, p) == pay[p].status = "confirmed"
Sharers(pay, i) == {p \in Payments : Confirmed(pay, p) /\ pay[p].alloc[i] > 0}
Share(pay, i) == [p \in Sharers(pay, i) |-> pay[p].alloc[i]]
Derived(pay, i) == Least(Amount(i), Total(Share(pay, i)))

Recomputed(pay, i) ==
  LET paid == Derived(pay, i)
  IN [paid |-> paid,
      status |-> IF paid = Amount(i) THEN "paid"
                 ELSE IF i \in late THEN "overdue"
                 ELSE IF paid = 0 THEN "due" ELSE "partial"]

\* Fault: only the first item of a payment is recomputed.
RecomputeFirst(pay, touched) ==
  item' = [i \in Items |->
             IF i \in touched /\ \A j \in touched : i[2] <= j[2]
             THEN Recomputed(pay, i) ELSE item[i]]

\* recompute_obligation_schedule_item, for every item of the payments.
Recompute(pay, touched) ==
  item' = [i \in Items |-> IF i \in touched THEN Recomputed(pay, i) ELSE item[i]]

Touched(alloc) == {i \in Items : alloc[i] > 0}
TouchedBy(ps) == UNION {Touched(payment[p].alloc) : p \in ps}

\* What the allocations exceed the unpaid remainders by.
Excess(alloc) ==
  Total([i \in Items |->
    IF alloc[i] > 0 THEN Positive(alloc[i] - Positive(Amount(i) - item[i].paid)) ELSE 0])

(***************************************************************************)
(* Obligations and their schedules.                                        *)
(***************************************************************************)
Transitions ==
  {<<"active", "paused">>, <<"active", "completed">>, <<"active", "closed">>,
   <<"paused", "active">>, <<"paused", "completed">>, <<"paused", "closed">>}
    \union {<<s, "archived">> : s \in {"active", "paused", "completed", "closed"}}

SaveObligation(o, to) ==
  /\ <<obligation[o], to>> \in Transitions
  /\ obligation' = [obligation EXCEPT ![o] = to]
  /\ UNCHANGED <<tx, item, late, payment, match>>

\* The job inserts the items up to its horizon that are not there yet.
GenerateSchedule(o, n) ==
  LET missing == {i \in Items : i[1] = o /\ i[2] <= n /\ item[i].status = "none"}
  IN /\ obligation[o] = "active"
     /\ missing # {}
     /\ item' = [i \in Items |-> IF i \in missing THEN [paid |-> 0, status |-> "due"] ELSE item[i]]
     /\ UNCHANGED <<tx, obligation, late, payment, match>>

\* due_at passes; the items of an obligation are due one after the other.
DuePasses(i) ==
  /\ i \notin late
  /\ \A j \in Items : j[1] = i[1] /\ j[2] < i[2] => j \in late
  /\ late' = late \union {i}
  /\ UNCHANGED <<tx, obligation, item, payment, match>>

\* Fault: an item that has been paid in the meantime is marked as well.
MarkAnyOverdue(i) ==
  /\ obligation[i[1]] = "active"
  /\ item[i].status # "none" /\ i \in late
  /\ item' = [item EXCEPT ![i].status = "overdue"]
  /\ UNCHANGED <<tx, obligation, late, payment, match>>

\* The item is looked at again when the job runs, not when it was claimed.
MarkOverdue(i) ==
  /\ obligation[i[1]] = "active"
  /\ item[i].status \in {"due", "partial"} /\ item[i].paid < Amount(i) /\ i \in late
  /\ item' = [item EXCEPT ![i].status = "overdue"]
  /\ UNCHANGED <<tx, obligation, late, payment, match>>

(***************************************************************************)
(* Payments.                                                               *)
(***************************************************************************)
PaidWith(t) == {p \in Payments : payment[p].tx = t /\ payment[p].status = "confirmed"}

\* Only a prepayment, a principal payment or a settlement may exceed what is
\* left of an item; the other intents are "current" here.
Fits(intent, alloc) == intent = "prepayment" \/ Excess(alloc) = 0

\* The identifier of a new payment, in the order of their creation.
IsNext(p) ==
  payment[p].status = "none" /\ \A q \in Payments : q < p => payment[q].status # "none"

\* allocate_obligation_payment, operation record.
Record(p, t, o, intent, alloc) ==
  LET row == [status |-> "confirmed", tx |-> t, invalidated |-> "none", alloc |-> alloc,
              extra |-> IF intent = "prepayment" THEN Excess(alloc) ELSE 0]
      pay == [payment EXCEPT ![p] = row]
  IN /\ IsNext(p)
     /\ obligation[o] = "active"
     /\ tx[t].status = "confirmed"
     /\ PaidWith(t) = {}
     /\ Touched(alloc) \subseteq {i \in Items : i[1] = o /\ item[i].status # "none"}
     /\ Fits(intent, alloc)
     /\ Total(alloc) = tx[t].amount
     /\ payment' = pay
     /\ Recompute(pay, Touched(alloc))
     /\ UNCHANGED <<tx, obligation, late>>

RecordPayment(p, t, o, intent, alloc) ==
  Record(p, t, o, intent, alloc) /\ UNCHANGED match

\* Payments change their status, and the items they touch follow.
Move(ps, status, invalidated) ==
  LET pay == [p \in Payments |-> IF p \in ps
                THEN [payment[p] EXCEPT !.status = status, !.invalidated = invalidated]
                ELSE payment[p]]
  IN payment' = pay /\ Recompute(pay, TouchedBy(ps))

\* allocate_obligation_payment, operation reverse: by the owner, for good.
ReversePayment(p) ==
  /\ payment[p].status = "confirmed"
  /\ Move({p}, "reversed", "none")
  /\ UNCHANGED <<tx, obligation, late, match>>

(***************************************************************************)
(* Matches.                                                                *)
(***************************************************************************)
\* Which obligations the amount or a keyword points to is left open.
ProposeMatches(t, os) ==
  /\ tx[t].status = "confirmed" /\ PaidWith(t) = {}
  /\ os # {}
  /\ \A o \in os : obligation[o] = "active" /\ match[<<t, o>>] = "none"
  /\ match' = [m \in Transactions \X Obligations |->
                 IF m[1] = t /\ m[2] \in os THEN "proposed" ELSE match[m]]
  /\ UNCHANGED <<tx, obligation, item, late, payment>>

Decide(t, o, decision) ==
  /\ match[<<t, o>>] = "proposed"
  /\ match' = [match EXCEPT ![<<t, o>>] = decision]

RejectMatch(t, o) ==
  Decide(t, o, "rejected") /\ UNCHANGED <<tx, obligation, item, late, payment>>

AcceptMatch(p, t, o, intent, alloc) ==
  Decide(t, o, "accepted") /\ Record(p, t, o, intent, alloc)

(***************************************************************************)
(* The ledger, and the triggers that run inside its commands.              *)
(***************************************************************************)
PostTransaction(t, x) ==
  /\ tx[t].status = "none"
  /\ tx' = [tx EXCEPT ![t] = [status |-> "confirmed", amount |-> x]]
  /\ UNCHANGED <<obligation, item, late, payment, match>>

\* No trigger looks at a revision: a linked payment keeps its amount.
ReviseTransaction(t, x) ==
  /\ tx[t].status = "confirmed" /\ x # tx[t].amount
  /\ tx' = [tx EXCEPT ![t].amount = x]
  /\ UNCHANGED <<obligation, item, late, payment, match>>

\* reverse_transaction or soft_delete_transaction, with
\* invalidate_linked_obligation_payments.
InvalidateTransaction(t, status) ==
  /\ tx[t].status = "confirmed"
  /\ tx' = [tx EXCEPT ![t].status = status]
  /\ Move(PaidWith(t), "reversed", status)
  /\ UNCHANGED <<obligation, late, match>>

\* Fault: payments the owner has reversed come back too.
TakenInAnyWay(t) ==
  {p \in Payments : payment[p].tx = t /\ payment[p].status = "reversed"}

TakenByDeletion(t) ==
  {p \in Payments : payment[p].tx = t /\ payment[p].invalidated = "deleted"}

\* Fault: a payment comes back although others have filled its items.
RestorableAlways(t) == TRUE

\* The excess of a payment that comes back has to be covered by what was
\* recorded as its prepayment or settlement.
Restorable(t) ==
  \A p \in TakenByDeletion(t) : Excess(payment[p].alloc) <= payment[p].extra

\* restore_transaction, with restore_linked_obligation_payments.
RestoreTransaction(t) ==
  /\ tx[t].status = "deleted"
  /\ Restorable(t)
  /\ tx' = [tx EXCEPT ![t].status = "confirmed"]
  /\ Move(TakenByDeletion(t), "confirmed", "none")
  /\ UNCHANGED <<obligation, late, match>>

Intents == {"current", "prepayment"}

Next ==
  \/ \E o \in Obligations, s \in {"active", "paused", "completed", "closed", "archived"} :
       SaveObligation(o, s)
  \/ \E o \in Obligations, n \in 1..Count : GenerateSchedule(o, n)
  \/ \E i \in Items : DuePasses(i) \/ MarkOverdue(i)
  \/ \E p \in Payments, t \in Transactions, o \in Obligations, n \in Intents, a \in Allocations :
       RecordPayment(p, t, o, n, a) \/ AcceptMatch(p, t, o, n, a)
  \/ \E p \in Payments : ReversePayment(p)
  \/ \E t \in Transactions, os \in SUBSET Obligations : ProposeMatches(t, os)
  \/ \E t \in Transactions, o \in Obligations : RejectMatch(t, o)
  \/ \E t \in Transactions, x \in Amounts : PostTransaction(t, x) \/ ReviseTransaction(t, x)
  \/ \E t \in Transactions, s \in {"reversed", "deleted"} : InvalidateTransaction(t, s)
  \/ \E t \in Transactions : RestoreTransaction(t)

Spec == Init /\ [][Next]_vars

(***************************************************************************)
(* Properties.                                                             *)
(***************************************************************************)
\* Every item says what the confirmed payments allocate to it, never more
\* than its amount, through any order of payments, reversals, deletions and
\* restorations: reconcile_planning finds nothing to repair (SC-012).
PaidIsDerived == \A i \in Items : item[i].paid = Derived(payment, i)

\* The status of an item agrees with what has been paid and with the clock,
\* whichever of the commands, the triggers and the overdue job wrote last.
StatusAgrees ==
  \A i \in Items : item[i].status # "none" =>
    /\ item[i].status = "paid" <=> item[i].paid = Amount(i)
    /\ item[i].status = "overdue" => i \in late
    /\ item[i].status = "due" => item[i].paid = 0
    /\ item[i].status = "partial" => item[i].paid # 0

\* A transaction pays at most once, and only while it is confirmed (FR-029,
\* FR-033); a payment the ledger took back says why, and its transaction
\* is still in the state that took it; an accepted match has its payment.
PaymentsFollowLedger ==
  /\ \A t \in Transactions : PaidWith(t) # {} => tx[t].status = "confirmed"
  /\ \A p, q \in Payments :
       payment[p].tx = payment[q].tx /\ Confirmed(payment, p) /\ Confirmed(payment, q) => p = q
  /\ \A p \in Payments : payment[p].invalidated # "none" =>
       payment[p].status = "reversed" /\ tx[payment[p].tx].status = payment[p].invalidated
  /\ \A t \in Transactions, o \in Obligations : match[<<t, o>>] = "accepted" =>
       \E p \in Payments : payment[p].tx = t /\ \A i \in Touched(payment[p].alloc) : i[1] = o

\* Items are overfilled by no more than the confirmed payments declared as
\* prepayment or settlement (FR-031): no order of deletions and restorations
\* turns an ordinary payment into an undeclared overpayment.
Overfill == Total([i \in Items |-> Total(Share(payment, i)) - item[i].paid])
Declared == Total([p \in Payments |-> IF Confirmed(payment, p) THEN payment[p].extra ELSE 0])
NoImplicitExcess == Overfill <= Declared

=============================================================================
