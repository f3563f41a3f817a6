--------------------------- MODULE PlanningProofs ---------------------------
(***************************************************************************)
(* Theorems of Planning for every set of transactions and obligations and  *)
(* every schedule.                                                         *)
(***************************************************************************)
EXTENDS Planning, TotalsProofs, TLAPS

(***************************************************************************)
(* The first inductive invariant.  It bounds no sum: what a payment        *)
(* allocates and what an item has received are only compared.              *)
(***************************************************************************)
ItemRow(i) == [paid : {item[i].paid}, status : {"none", "due", "partial", "paid", "overdue"}]
PaymentRow(p) ==
  [status : {"none", "confirmed", "reversed"}, tx : Transactions \union {NoTransaction},
   extra : {payment[p].extra}, invalidated : {"none", "reversed", "deleted"},
   alloc : {payment[p].alloc}]

Shape ==
  /\ tx \in [Transactions -> [status : {"none", "confirmed", "reversed", "deleted"},
                              amount : Amounts \union {0}]]
  /\ item = [i \in Items |-> item[i]] /\ \A i \in Items : item[i] \in ItemRow(i)
  /\ payment = [p \in Payments |-> payment[p]] /\ \A p \in Payments : payment[p] \in PaymentRow(p)
  /\ match \in [Transactions \X Obligations -> {"none", "proposed", "accepted", "rejected"}]

\* A payment is of a transaction, one that does not exist is of none, and
\* only items that exist have received anything.
Rows ==
  /\ \A p \in Payments : payment[p].status = "none" <=> payment[p].tx = NoTransaction
  /\ \A p \in Payments : payment[p].status # "reversed" => payment[p].invalidated = "none"
  /\ \A p \in Payments, i \in Items :
       payment[p].status # "none" /\ payment[p].alloc[i] > 0 => item[i].status # "none"
  /\ \A i \in Items : item[i].status = "none" => item[i].paid = 0

\* Of the payments of a transaction at most one can ever come back.
OneComesBack ==
  \A p, q \in Payments :
    payment[p].tx = payment[q].tx /\ payment[p].invalidated = "deleted"
      /\ payment[q].invalidated = "deleted" => p = q

\* PaymentsFollowLedger is about payments of transactions.
OnePays ==
  \A p, q \in Payments :
    payment[p].tx = payment[q].tx /\ Confirmed(payment, p) /\ Confirmed(payment, q) => p = q
Follows ==
  /\ \A p \in Payments : Confirmed(payment, p) => tx[payment[p].tx].status = "confirmed"
  /\ \A p \in Payments : payment[p].invalidated # "none" =>
       payment[p].status = "reversed" /\ tx[payment[p].tx].status = payment[p].invalidated
AcceptedIsPaid ==
  \A t \in Transactions, o \in Obligations : match[<<t, o>>] = "accepted" =>
    \E p \in Payments : payment[p].tx = t /\ \A i \in Touched(payment[p].alloc) : i[1] = o

PInv == Shape /\ Rows /\ OneComesBack /\ OnePays /\ Follows /\ AcceptedIsPaid
IInv == PInv /\ PaidIsDerived /\ StatusAgrees

LEMMA Constants ==
  /\ Installment \in Nat /\ Installment # 0 /\ Residual \in Nat /\ Residual # 0
  /\ Count \in Nat /\ Count # 0
  /\ \A i \in Items : Amount(i) \in Nat /\ Amount(i) # 0
BY SizeAssumption, CountAssumption DEF Amount, Items

LEMMA NothingDerived ==
  ASSUME NEW pay, NEW i \in Items, Sharers(pay, i) = {}
  PROVE  Derived(pay, i) = 0
<1>1. DOMAIN Share(pay, i) = {}
  BY DEF Share
<1>2. Total(Share(pay, i)) = 0
  BY <1>1, TotalOfNothing
<1>3. Amount(i) >= 0 /\ Amount(i) \in Nat
  BY Constants
<1> QED  BY <1>2, <1>3 DEF Derived, Least

(***************************************************************************)
(* Facts about the parts of a step.                                        *)
(***************************************************************************)
\* What a recomputed item says.
LEMMA RecomputedRow ==
  ASSUME NEW pay, NEW i \in Items
  PROVE  /\ Recomputed(pay, i).paid = Derived(pay, i)
         /\ Recomputed(pay, i).status \in {"due", "partial", "paid", "overdue"}
         /\ Recomputed(pay, i) \in [paid : {Recomputed(pay, i).paid},
              status : {"none", "due", "partial", "paid", "overdue"}]
         /\ Recomputed(pay, i).status = "paid" <=> Derived(pay, i) = Amount(i)
         /\ Recomputed(pay, i).status = "overdue" => i \in late
         /\ Recomputed(pay, i).status = "due" => Derived(pay, i) = 0
         /\ Recomputed(pay, i).status = "partial" => Derived(pay, i) # 0
BY DEF Recomputed

\* Items are generated before anything is allocated to them.
LEMMA UnsharedItem ==
  ASSUME Rows, NEW i \in Items, item[i].status = "none"
  PROVE  Sharers(payment, i) = {}
BY DEF Rows, Sharers, Confirmed

\* An item says the same of two sets of payments that give it the same.
LEMMA SameShare ==
  ASSUME NEW pay, NEW new, NEW i \in Items, Sharers(pay, i) = Sharers(new, i),
         \A p \in Sharers(pay, i) : pay[p].alloc[i] = new[p].alloc[i]
  PROVE  Derived(pay, i) = Derived(new, i)
<1>1. Share(pay, i) = Share(new, i)
  BY DEF Share
<1> QED  BY <1>1 DEF Derived

\* Recompute restores what the invariant says of items, when every payment
\* that gives something else to an item touches it.
LEMMA Recomputes ==
  ASSUME Shape, PaidIsDerived, StatusAgrees, NEW touched \in SUBSET Items,
         Recompute(payment', touched), late' = late,
         \A i \in touched : item[i].status # "none",
         \A i \in Items \ touched : Derived(payment', i) = Derived(payment, i)
  PROVE  /\ PaidIsDerived' /\ StatusAgrees'
         /\ item' = [i \in Items |-> item'[i]]
         /\ \A i \in Items : item'[i] \in [paid : {item'[i].paid},
              status : {"none", "due", "partial", "paid", "overdue"}]
         /\ \A i \in Items : item'[i].status = "none" <=> item[i].status = "none"
         /\ \A i \in Items : item'[i].status = "none" => item'[i].paid = item[i].paid
<1>1. \A i \in touched : item'[i] = Recomputed(payment', i)
  BY DEF Recompute
<1>2. \A i \in Items \ touched : item'[i] = item[i]
  BY DEF Recompute
<1>3. item' = [i \in Items |-> item'[i]]
  BY DEF Recompute
<1>4. ASSUME NEW i \in touched
      PROVE  /\ item'[i].paid = Derived(payment', i)
             /\ item'[i].status \in {"due", "partial", "paid", "overdue"}
             /\ item'[i] \in [paid : {item'[i].paid},
                  status : {"none", "due", "partial", "paid", "overdue"}]
             /\ item'[i].status = "paid" <=> item'[i].paid = Amount(i)
             /\ item'[i].status = "overdue" => i \in late
             /\ item'[i].status = "due" => item'[i].paid = 0
             /\ item'[i].status = "partial" => item'[i].paid # 0
  BY <1>1, RecomputedRow
<1>5. PaidIsDerived'
  BY <1>2, <1>4 DEF PaidIsDerived
<1>6. StatusAgrees'
  BY <1>2, <1>4 DEF StatusAgrees
<1>7. \A i \in Items : item'[i] \in [paid : {item'[i].paid},
        status : {"none", "due", "partial", "paid", "overdue"}]
  BY <1>2, <1>4 DEF Shape, ItemRow
<1> QED  BY <1>2, <1>3, <1>4, <1>5, <1>6, <1>7

(***************************************************************************)
(* A new payment.                                                          *)
(***************************************************************************)
RowOf(t, alloc, extra) ==
  [status |-> "confirmed", tx |-> t, invalidated |-> "none", alloc |-> alloc, extra |-> extra]

LEMMA NewPayment ==
  ASSUME Shape, NEW p \in Payments, NEW t \in Transactions, NEW o \in Obligations, NEW intent,
         NEW alloc, Record(p, t, o, intent, alloc)
  PROVE  /\ payment' = [q \in Payments |-> payment'[q]]
         /\ payment'[p].status = "confirmed" /\ payment'[p].tx = t
         /\ payment'[p].invalidated = "none" /\ payment'[p].alloc = alloc
         /\ payment'[p] \in PaymentRow(p)'
         /\ \A q \in Payments : q # p => payment'[q] = payment[q]
         /\ payment[p].status = "none" /\ PaidWith(t) = {}
         /\ tx[t].status = "confirmed" /\ tx' = tx /\ late' = late
         /\ Recompute(payment', Touched(alloc))
         /\ \A i \in Touched(alloc) : i \in Items /\ i[1] = o /\ item[i].status # "none"
<1> DEFINE extra == IF intent = "prepayment" THEN Excess(alloc) ELSE 0
<1>1. payment' = [payment EXCEPT ![p] = RowOf(t, alloc, extra)]
  BY DEF Record, RowOf
<1> HIDE DEF extra
<1>2. payment'[p] = RowOf(t, alloc, extra)
  BY <1>1 DEF Shape
<1>3. payment' = [q \in Payments |-> payment'[q]] /\ \A q \in Payments : q # p => payment'[q] = payment[q]
  BY <1>1 DEF Shape
<1>4. payment'[p] \in PaymentRow(p)'
  BY <1>2 DEF PaymentRow, RowOf
<1>5. /\ payment[p].status = "none" /\ PaidWith(t) = {}
      /\ tx[t].status = "confirmed" /\ tx' = tx /\ late' = late
      /\ Touched(alloc) \subseteq {i \in Items : i[1] = o /\ item[i].status # "none"}
  BY DEF Record, IsNext
<1>6. Recompute(payment', Touched(alloc))
  BY DEF Record
<1> QED  BY <1>2, <1>3, <1>4, <1>5, <1>6 DEF RowOf

LEMMA RecordKeeps ==
  ASSUME IInv, NEW p \in Payments, NEW t \in Transactions, NEW o \in Obligations, NEW intent,
         NEW alloc, Record(p, t, o, intent, alloc),
         match' \in [Transactions \X Obligations -> {"none", "proposed", "accepted", "rejected"}],
         \A u \in Transactions, b \in Obligations :
           match'[<<u, b>>] = "accepted" => match[<<u, b>>] = "accepted" \/ (u = t /\ b = o)
  PROVE  IInv'
<1> USE DEF IInv, PInv
<1>0. /\ payment' = [q \in Payments |-> payment'[q]]
      /\ payment'[p].status = "confirmed" /\ payment'[p].tx = t
      /\ payment'[p].invalidated = "none" /\ payment'[p].alloc = alloc
      /\ payment'[p] \in PaymentRow(p)'
      /\ \A q \in Payments : q # p => payment'[q] = payment[q]
      /\ payment[p].status = "none" /\ PaidWith(t) = {}
      /\ tx[t].status = "confirmed" /\ tx' = tx /\ late' = late
      /\ Recompute(payment', Touched(alloc))
      /\ \A i \in Touched(alloc) : i \in Items /\ i[1] = o /\ item[i].status # "none"
  BY NewPayment
<1>1. ASSUME NEW i \in Items \ Touched(alloc) PROVE Derived(payment', i) = Derived(payment, i)
  <2>1. Sharers(payment, i) = Sharers(payment', i)
    BY <1>0 DEF Sharers, Confirmed, Touched
  <2>2. \A q \in Sharers(payment, i) : payment[q].alloc[i] = payment'[q].alloc[i]
    BY <1>0 DEF Sharers, Confirmed
  <2> QED  BY <2>1, <2>2, SameShare
<1>2. /\ PaidIsDerived' /\ StatusAgrees'
      /\ item' = [i \in Items |-> item'[i]]
      /\ \A i \in Items : item'[i] \in [paid : {item'[i].paid},
           status : {"none", "due", "partial", "paid", "overdue"}]
      /\ \A i \in Items : item'[i].status = "none" <=> item[i].status = "none"
      /\ \A i \in Items : item'[i].status = "none" => item'[i].paid = item[i].paid
  <2>1. Touched(alloc) \in SUBSET Items
    BY <1>0
  <2> QED  BY <1>0, <1>1, <2>1, Recomputes
<1>3. Shape'
  <2>1. \A q \in Payments : payment'[q] \in PaymentRow(q)'
    BY <1>0 DEF Shape, PaymentRow
  <2>2. \A i \in Items : item'[i] \in ItemRow(i)'
    BY <1>2 DEF ItemRow
  <2> QED  BY <1>0, <1>2, <2>1, <2>2 DEF Shape
<1>4. Rows'
  <2>1. t # NoTransaction
    BY NoTransactionAssumption
  <2>2. \A q \in Payments, i \in Items :
          payment'[q].status # "none" /\ payment'[q].alloc[i] > 0 => item'[i].status # "none"
    BY <1>0, <1>2 DEF Rows, Touched
  <2> QED  BY <1>0, <1>2, <2>1, <2>2 DEF Rows
<1>5. OneComesBack'
  BY <1>0 DEF OneComesBack
<1>6. OnePays'
  BY <1>0 DEF OnePays, PaidWith, Confirmed
<1>7. Follows'
  BY <1>0 DEF Follows, Confirmed
<1>8. AcceptedIsPaid'
  <2> SUFFICES ASSUME NEW u \in Transactions, NEW b \in Obligations, match'[<<u, b>>] = "accepted"
               PROVE  \E q \in Payments :
                        payment'[q].tx = u /\ \A i \in Touched(payment'[q].alloc) : i[1] = b
    BY DEF AcceptedIsPaid, Touched
  <2>1. CASE u = t /\ b = o
    BY <1>0, <2>1
  <2>2. CASE match[<<u, b>>] = "accepted"
    <3>1. PICK q \in Payments : payment[q].tx = u /\ \A i \in Touched(payment[q].alloc) : i[1] = b
      BY <2>2 DEF AcceptedIsPaid
    <3>2. q # p
      BY <1>0, <3>1, NoTransactionAssumption DEF Rows
    <3> QED  BY <1>0, <3>1, <3>2
  <2> QED  BY <2>1, <2>2
<1> QED  BY <1>2, <1>3, <1>4, <1>5, <1>6, <1>7, <1>8

(***************************************************************************)
(* Payments that are taken and come back.                                  *)
(***************************************************************************)
LEMMA MovedPayments ==
  ASSUME Shape, NEW ps \in SUBSET Payments, NEW status \in {"confirmed", "reversed"},
         NEW invalidated \in {"none", "reversed", "deleted"}, Move(ps, status, invalidated)
  PROVE  /\ payment' = [p \in Payments |-> payment'[p]]
         /\ \A p \in ps : payment'[p].status = status /\ payment'[p].invalidated = invalidated
         /\ \A p \in Payments : payment'[p].tx = payment[p].tx
         /\ \A p \in Payments : payment'[p].alloc = payment[p].alloc
         /\ \A p \in Payments : payment'[p] \in PaymentRow(p)'
         /\ \A p \in Payments : p \notin ps => payment'[p] = payment[p]
         /\ Recompute(payment', TouchedBy(ps))
<1>1. payment' = [p \in Payments |-> IF p \in ps
                    THEN [payment[p] EXCEPT !.status = status, !.invalidated = invalidated]
                    ELSE payment[p]]
  BY DEF Move
<1>2. Recompute(payment', TouchedBy(ps))
  BY DEF Move
<1>3. ASSUME NEW p \in ps
      PROVE  /\ payment'[p].status = status /\ payment'[p].invalidated = invalidated
             /\ payment'[p].tx = payment[p].tx /\ payment'[p].alloc = payment[p].alloc
             /\ payment'[p] \in PaymentRow(p)'
  BY <1>1 DEF Shape, PaymentRow
<1>4. \A p \in Payments : p \notin ps => payment'[p] = payment[p]
  BY <1>1
<1>5. \A p \in Payments : payment'[p] \in PaymentRow(p)'
  BY <1>3, <1>4 DEF Shape, PaymentRow
<1> QED  BY <1>1, <1>2, <1>3, <1>4, <1>5

\* The items follow, and no payment changes what it is of.
LEMMA MoveKeeps ==
  ASSUME IInv, NEW ps \in SUBSET Payments, NEW status \in {"confirmed", "reversed"},
         NEW invalidated \in {"none", "reversed", "deleted"}, Move(ps, status, invalidated),
         \A p \in ps : payment[p].status # "none",
         status = "confirmed" => invalidated = "none",
         late' = late, match' = match,
         tx' \in [Transactions -> [status : {"none", "confirmed", "reversed", "deleted"},
                                   amount : Amounts \union {0}]]
  PROVE  Shape' /\ Rows' /\ AcceptedIsPaid' /\ PaidIsDerived' /\ StatusAgrees'
<1> USE DEF IInv, PInv
<1>0. /\ payment' = [p \in Payments |-> payment'[p]]
      /\ \A p \in ps : payment'[p].status = status /\ payment'[p].invalidated = invalidated
      /\ \A p \in Payments : payment'[p].tx = payment[p].tx
      /\ \A p \in Payments : payment'[p].alloc = payment[p].alloc
      /\ \A p \in Payments : payment'[p] \in PaymentRow(p)'
      /\ \A p \in Payments : p \notin ps => payment'[p] = payment[p]
      /\ Recompute(payment', TouchedBy(ps))
  BY MovedPayments
<1>1. /\ TouchedBy(ps) \in SUBSET Items
      /\ \A i \in TouchedBy(ps) : \E p \in ps : i \in Items /\ payment[p].alloc[i] > 0
      /\ \A i \in Items, p \in ps : i \notin TouchedBy(ps) => ~(payment[p].alloc[i] > 0)
  BY DEF TouchedBy, Touched
<1>2. \A i \in TouchedBy(ps) : item[i].status # "none"
  BY <1>1 DEF Rows
<1>3. ASSUME NEW i \in Items \ TouchedBy(ps) PROVE Derived(payment', i) = Derived(payment, i)
  <2>1. Sharers(payment, i) = Sharers(payment', i)
    BY <1>0, <1>1 DEF Sharers, Confirmed
  <2>2. \A q \in Sharers(payment, i) : payment[q].alloc[i] = payment'[q].alloc[i]
    BY <1>0 DEF Sharers
  <2> QED  BY <2>1, <2>2, SameShare
<1>4. /\ PaidIsDerived' /\ StatusAgrees'
      /\ item' = [i \in Items |-> item'[i]]
      /\ \A i \in Items : item'[i] \in [paid : {item'[i].paid},
           status : {"none", "due", "partial", "paid", "overdue"}]
      /\ \A i \in Items : item'[i].status = "none" <=> item[i].status = "none"
      /\ \A i \in Items : item'[i].status = "none" => item'[i].paid = item[i].paid
  BY <1>0, <1>1, <1>2, <1>3, Recomputes
<1>5. Shape'
  <2>1. \A i \in Items : item'[i] \in ItemRow(i)'
    BY <1>4 DEF ItemRow
  <2> QED  BY <1>0, <1>4, <2>1 DEF Shape
<1>6. Rows'
  <2>1. \A p \in Payments : payment'[p].status = "none" <=> payment[p].status = "none"
    BY <1>0
  <2>2. \A p \in Payments : payment'[p].status = "none" <=> payment'[p].tx = NoTransaction
    BY <1>0, <2>1 DEF Rows
  <2>3. \A p \in Payments : payment'[p].status # "reversed" => payment'[p].invalidated = "none"
    BY <1>0 DEF Rows
  <2>4. \A p \in Payments, i \in Items :
          payment'[p].status # "none" /\ payment'[p].alloc[i] > 0 => item'[i].status # "none"
    BY <1>0, <1>4, <2>1 DEF Rows
  <2>5. \A i \in Items : item'[i].status = "none" => item'[i].paid = 0
    BY <1>4 DEF Rows
  <2> QED  BY <2>2, <2>3, <2>4, <2>5 DEF Rows
<1>7. AcceptedIsPaid'
  BY <1>0 DEF AcceptedIsPaid, Touched
<1> QED  BY <1>4, <1>5, <1>6, <1>7

LEMMA ReverseKeeps ==
  ASSUME IInv, NEW p \in Payments, ReversePayment(p)
  PROVE  IInv'
<1> USE DEF IInv, PInv
<1>1. /\ payment[p].status = "confirmed" /\ Move({p}, "reversed", "none")
      /\ tx' = tx /\ late' = late /\ match' = match
  BY DEF ReversePayment
<1>2. /\ payment'[p].status = "reversed" /\ payment'[p].invalidated = "none"
      /\ \A q \in Payments : payment'[q].tx = payment[q].tx
      /\ \A q \in Payments : q # p => payment'[q] = payment[q]
  BY <1>1, MovedPayments
<1>3. Shape' /\ Rows' /\ AcceptedIsPaid' /\ PaidIsDerived' /\ StatusAgrees'
  <2>1. tx' \in [Transactions -> [status : {"none", "confirmed", "reversed", "deleted"},
                                  amount : Amounts \union {0}]]
    BY <1>1 DEF Shape
  <2> QED  BY <1>1, <2>1, MoveKeeps
<1>4. OneComesBack'
  BY <1>2 DEF OneComesBack
<1>5. OnePays'
  BY <1>2 DEF OnePays, Confirmed
<1>6. Follows'
  BY <1>1, <1>2 DEF Follows, Confirmed
<1> QED  BY <1>3, <1>4, <1>5, <1>6

LEMMA InvalidateKeeps ==
  ASSUME IInv, NEW t \in Transactions, NEW status \in {"reversed", "deleted"},
         InvalidateTransaction(t, status)
  PROVE  IInv'
<1> USE DEF IInv, PInv
<1>1. /\ tx[t].status = "confirmed" /\ Move(PaidWith(t), "reversed", status)
      /\ tx' = [tx EXCEPT ![t].status = status] /\ late' = late /\ match' = match
  BY DEF InvalidateTransaction
<1>2. PaidWith(t) \in SUBSET Payments /\ \A p \in PaidWith(t) : payment[p].status # "none"
  BY DEF PaidWith
<1>3. /\ \A p \in PaidWith(t) : payment'[p].status = "reversed" /\ payment'[p].invalidated = status
      /\ \A p \in Payments : payment'[p].tx = payment[p].tx
      /\ \A p \in Payments : p \notin PaidWith(t) => payment'[p] = payment[p]
  BY <1>1, <1>2, MovedPayments
<1>4. /\ tx' \in [Transactions -> [status : {"none", "confirmed", "reversed", "deleted"},
                                   amount : Amounts \union {0}]]
      /\ tx'[t].status = status
      /\ \A u \in Transactions : u # t => tx'[u] = tx[u]
  BY <1>1 DEF Shape
<1>5. Shape' /\ Rows' /\ AcceptedIsPaid' /\ PaidIsDerived' /\ StatusAgrees'
  BY <1>1, <1>2, <1>4, MoveKeeps
<1>6. \A p \in Payments : payment[p].tx = t => payment[p].invalidated = "none"
  BY <1>1 DEF Follows, Shape, PaymentRow
<1>7. \A p \in Payments : payment[p].tx = t /\ p \notin PaidWith(t) => payment[p].status # "confirmed"
  BY DEF PaidWith
<1>8. \A p \in PaidWith(t) : payment[p].tx = t /\ Confirmed(payment, p)
  BY DEF PaidWith, Confirmed
<1>9. OneComesBack'
  <2> SUFFICES ASSUME NEW p \in Payments, NEW q \in Payments, payment[p].tx = payment[q].tx,
                      payment'[p].invalidated = "deleted", payment'[q].invalidated = "deleted"
               PROVE  p = q
    BY <1>3 DEF OneComesBack
  <2>1. CASE payment[p].tx = t
    BY <1>3, <1>6, <1>8, <2>1 DEF OnePays
  <2>2. CASE payment[p].tx # t
    BY <1>3, <1>8, <2>2 DEF OneComesBack
  <2> QED  BY <2>1, <2>2
<1>10. OnePays'
  BY <1>3 DEF OnePays, Confirmed
<1>11. Follows'
  <2>1. \A p \in Payments : payment[p].status # "none" => payment[p].tx \in Transactions
    BY DEF Shape, PaymentRow, Rows
  <2>2. ASSUME NEW p \in Payments, payment'[p].status = "confirmed"
        PROVE  tx'[payment'[p].tx].status = "confirmed"
    BY <1>3, <1>4, <1>7, <2>1, <2>2 DEF Follows, Confirmed
  <2>3. ASSUME NEW p \in Payments, payment'[p].invalidated # "none"
        PROVE  payment'[p].status = "reversed" /\ tx'[payment'[p].tx].status = payment'[p].invalidated
    BY <1>3, <1>4, <1>6, <1>8, <2>1, <2>3 DEF Follows
  <2> QED  BY <2>2, <2>3 DEF Follows, Confirmed
<1> QED  BY <1>5, <1>9, <1>10, <1>11

LEMMA RestoreKeeps ==
  ASSUME IInv, NEW t \in Transactions, RestoreTransaction(t)
  PROVE  IInv'
<1> USE DEF IInv, PInv
<1>1. /\ tx[t].status = "deleted" /\ Move(TakenByDeletion(t), "confirmed", "none")
      /\ tx' = [tx EXCEPT ![t].status = "confirmed"] /\ late' = late /\ match' = match
  BY DEF RestoreTransaction
<1>2. /\ TakenByDeletion(t) \in SUBSET Payments
      /\ \A p \in TakenByDeletion(t) : payment[p].status # "none" /\ payment[p].tx = t
      /\ \A p \in TakenByDeletion(t) : payment[p].invalidated = "deleted"
  BY DEF TakenByDeletion, Follows
<1>3. /\ \A p \in TakenByDeletion(t) : payment'[p].status = "confirmed" /\ payment'[p].invalidated = "none"
      /\ \A p \in Payments : payment'[p].tx = payment[p].tx
      /\ \A p \in Payments : p \notin TakenByDeletion(t) => payment'[p] = payment[p]
  BY <1>1, <1>2, MovedPayments
<1>4. /\ tx' \in [Transactions -> [status : {"none", "confirmed", "reversed", "deleted"},
                                   amount : Amounts \union {0}]]
      /\ tx'[t].status = "confirmed"
      /\ \A u \in Transactions : u # t => tx'[u] = tx[u]
  BY <1>1 DEF Shape
<1>5. Shape' /\ Rows' /\ AcceptedIsPaid' /\ PaidIsDerived' /\ StatusAgrees'
  BY <1>1, <1>2, <1>4, MoveKeeps
<1>6. \A p \in Payments : payment[p].tx = t => ~Confirmed(payment, p)
  BY <1>1 DEF Follows
<1>7. OneComesBack'
  BY <1>3 DEF OneComesBack
<1>8. OnePays'
  <2> SUFFICES ASSUME NEW p \in Payments, NEW q \in Payments, payment[p].tx = payment[q].tx,
                      payment'[p].status = "confirmed", payment'[q].status = "confirmed"
               PROVE  p = q
    BY <1>3 DEF OnePays, Confirmed
  <2>1. CASE payment[p].tx = t
    BY <1>2, <1>3, <1>6, <2>1 DEF OneComesBack, Confirmed
  <2>2. CASE payment[p].tx # t
    BY <1>2, <1>3, <2>2 DEF OnePays, Confirmed
  <2> QED  BY <2>1, <2>2
<1>9. Follows'
  <2>1. \A p \in Payments : payment[p].status # "none" => payment[p].tx \in Transactions
    BY DEF Shape, PaymentRow, Rows
  <2>2. ASSUME NEW p \in Payments, payment'[p].status = "confirmed"
        PROVE  tx'[payment'[p].tx].status = "confirmed"
    BY <1>2, <1>3, <1>4, <2>1, <2>2 DEF Follows, Confirmed
  <2>3. ASSUME NEW p \in Payments, payment'[p].invalidated # "none"
        PROVE  payment'[p].status = "reversed" /\ tx'[payment'[p].tx].status = payment'[p].invalidated
    <3>1. p \notin TakenByDeletion(t) /\ payment'[p] = payment[p]
      BY <1>3, <2>3
    <3>2. payment[p].status = "reversed" /\ tx[payment[p].tx].status = payment[p].invalidated
      BY <2>3, <3>1 DEF Follows
    <3>3. payment[p].tx # t
      BY <1>1, <3>1, <3>2 DEF TakenByDeletion
    <3> QED  BY <1>4, <2>1, <3>1, <3>2, <3>3
  <2> QED  BY <2>2, <2>3 DEF Follows, Confirmed
<1> QED  BY <1>5, <1>7, <1>8, <1>9

(***************************************************************************)
(* Steps that leave the payments alone.                                    *)
(***************************************************************************)
\* One of the items changes, or appears.
LEMMA ItemStepsKeep ==
  ASSUME IInv, NEW o \in Obligations, NEW n \in 1..Count, NEW i \in Items,
         GenerateSchedule(o, n) \/ MarkOverdue(i) \/ DuePasses(i)
  PROVE  IInv'
<1> USE DEF IInv, PInv
<1>1. CASE GenerateSchedule(o, n)
  <2> DEFINE missing == {j \in Items : j[1] = o /\ j[2] <= n /\ item[j].status = "none"}
  <2>1. /\ item' = [j \in Items |-> IF j \in missing THEN [paid |-> 0, status |-> "due"] ELSE item[j]]
        /\ payment' = payment /\ tx' = tx /\ match' = match /\ late' = late
    BY <1>1 DEF GenerateSchedule
  <2>2. \A j \in missing : j \in Items /\ item[j].status = "none"
    OBVIOUS
  <2> HIDE DEF missing
  <2>3. \A j \in Items : j \in missing => item'[j].paid = 0 /\ item'[j].status = "due"
    BY <2>1
  <2>4. \A j \in Items : j \notin missing => item'[j] = item[j]
    BY <2>1
  <2>5. Shape'
    <3>1. \A j \in Items : item'[j] \in ItemRow(j)'
      BY <2>1 DEF Shape, ItemRow
    <3> QED  BY <2>1, <3>1 DEF Shape, PaymentRow
  <2>6. Rows'
    BY <2>1, <2>3, <2>4 DEF Rows
  <2>7. PaidIsDerived'
    BY <2>1, <2>2, <2>3, <2>4 DEF PaidIsDerived, Rows
  <2>8. StatusAgrees'
    BY <2>1, <2>3, <2>4, Constants DEF StatusAgrees
  <2>9. OneComesBack' /\ OnePays' /\ Follows' /\ AcceptedIsPaid'
    BY <2>1 DEF OneComesBack, OnePays, Follows, AcceptedIsPaid, Confirmed, Touched
  <2> QED  BY <2>5, <2>6, <2>7, <2>8, <2>9
<1>2. CASE MarkOverdue(i)
  <2>1. /\ item' = [item EXCEPT ![i].status = "overdue"] /\ i \in late
        /\ item[i].status \in {"due", "partial"} /\ item[i].paid < Amount(i)
        /\ payment' = payment /\ tx' = tx /\ match' = match /\ late' = late
    BY <1>2 DEF MarkOverdue
  <2>2. item'[i].paid = item[i].paid /\ item'[i].status = "overdue" /\ item'[i] \in ItemRow(i)'
    BY <2>1 DEF Shape, ItemRow
  <2>3. \A j \in Items : j # i => item'[j] = item[j]
    BY <2>1 DEF Shape
  <2>4. item' = [j \in Items |-> item'[j]]
    BY <2>1 DEF Shape
  <2>5. Shape'
    <3>1. \A j \in Items : item'[j] \in ItemRow(j)'
      BY <2>2, <2>3 DEF Shape, ItemRow
    <3> QED  BY <2>1, <2>4, <3>1 DEF Shape, PaymentRow
  <2>6. Rows'
    BY <2>1, <2>2, <2>3 DEF Rows
  <2>7. PaidIsDerived'
    BY <2>1, <2>2, <2>3 DEF PaidIsDerived
  <2>8. item[i].paid # Amount(i)
    BY <2>1, Constants
  <2>9. StatusAgrees'
    BY <2>1, <2>2, <2>3, <2>8 DEF StatusAgrees
  <2>10. OneComesBack' /\ OnePays' /\ Follows' /\ AcceptedIsPaid'
    BY <2>1 DEF OneComesBack, OnePays, Follows, AcceptedIsPaid, Confirmed, Touched
  <2> QED  BY <2>5, <2>6, <2>7, <2>9, <2>10
<1>3. CASE DuePasses(i)
  <2>1. /\ late' = late \union {i}
        /\ payment' = payment /\ tx' = tx /\ match' = match /\ item' = item
    BY <1>3 DEF DuePasses
  <2>2. Shape'
    BY <2>1 DEF Shape, PaymentRow, ItemRow
  <2>3. Rows' /\ PaidIsDerived' /\ StatusAgrees'
    BY <2>1 DEF Rows, PaidIsDerived, StatusAgrees
  <2>4. OneComesBack' /\ OnePays' /\ Follows' /\ AcceptedIsPaid'
    BY <2>1 DEF OneComesBack, OnePays, Follows, AcceptedIsPaid, Confirmed, Touched
  <2> QED  BY <2>2, <2>3, <2>4
<1> QED  BY <1>1, <1>2, <1>3

\* A transaction is posted or revised: nothing is paid with one that was
\* not there, and a revision keeps the status.
LEMMA LedgerStepsKeep ==
  ASSUME IInv, NEW t \in Transactions, NEW x \in Amounts,
         PostTransaction(t, x) \/ ReviseTransaction(t, x)
  PROVE  IInv'
<1> USE DEF IInv, PInv
<1>1. /\ payment' = payment /\ match' = match /\ item' = item /\ late' = late
      /\ tx[t].status \in {"none", "confirmed"}
      /\ tx' \in [Transactions -> [status : {"none", "confirmed", "reversed", "deleted"},
                                   amount : Amounts \union {0}]]
      /\ tx'[t].status = "confirmed"
      /\ \A u \in Transactions : u # t => tx'[u] = tx[u]
  BY DEF PostTransaction, ReviseTransaction, Shape
<1>2. Shape'
  BY <1>1 DEF Shape, PaymentRow, ItemRow
<1>3. Rows' /\ PaidIsDerived' /\ StatusAgrees'
  BY <1>1 DEF Rows, PaidIsDerived, StatusAgrees
<1>4. OneComesBack' /\ OnePays' /\ AcceptedIsPaid'
  BY <1>1 DEF OneComesBack, OnePays, AcceptedIsPaid, Confirmed, Touched
<1>5. Follows'
  <2>1. \A p \in Payments : payment[p].status # "none" => payment[p].tx \in Transactions
    BY DEF Shape, PaymentRow, Rows
  <2>2. ASSUME NEW p \in Payments, payment[p].invalidated # "none" PROVE payment[p].tx # t
    BY <1>1, <2>2 DEF Follows, Shape, PaymentRow
  <2> QED  BY <1>1, <2>1, <2>2 DEF Follows, Confirmed
<1> QED  BY <1>2, <1>3, <1>4, <1>5

\* A match changes, and none is accepted.
LEMMA MatchKeeps ==
  ASSUME IInv, payment' = payment, tx' = tx, item' = item, late' = late,
         match' \in [Transactions \X Obligations -> {"none", "proposed", "accepted", "rejected"}],
         \A u \in Transactions, b \in Obligations :
           match'[<<u, b>>] = "accepted" => match[<<u, b>>] = "accepted"
  PROVE  IInv'
<1> USE DEF IInv, PInv
<1>2. Shape'
  BY DEF Shape, PaymentRow, ItemRow
<1>3. Rows' /\ PaidIsDerived' /\ StatusAgrees'
  BY DEF Rows, PaidIsDerived, StatusAgrees
<1>4. OneComesBack' /\ OnePays' /\ AcceptedIsPaid' /\ Follows'
  BY DEF OneComesBack, OnePays, AcceptedIsPaid, Follows, Confirmed, Touched
<1> QED  BY <1>2, <1>3, <1>4

LEMMA ProposeKeeps ==
  ASSUME IInv, NEW t \in Transactions, NEW os \in SUBSET Obligations, ProposeMatches(t, os)
  PROVE  IInv'
<1>1. /\ payment' = payment /\ tx' = tx /\ item' = item /\ late' = late
      /\ match' = [m \in Transactions \X Obligations |->
                    IF m[1] = t /\ m[2] \in os THEN "proposed" ELSE match[m]]
  BY DEF ProposeMatches
<1>2. match' \in [Transactions \X Obligations -> {"none", "proposed", "accepted", "rejected"}]
  BY <1>1 DEF IInv, PInv, Shape
<1>3. \A u \in Transactions, b \in Obligations :
        match'[<<u, b>>] = "accepted" => match[<<u, b>>] = "accepted"
  BY <1>1
<1> QED  BY <1>1, <1>2, <1>3, MatchKeeps

LEMMA RejectKeeps ==
  ASSUME IInv, NEW t \in Transactions, NEW o \in Obligations, RejectMatch(t, o)
  PROVE  IInv'
<1>1. /\ payment' = payment /\ tx' = tx /\ item' = item /\ late' = late
      /\ match' = [match EXCEPT ![<<t, o>>] = "rejected"]
  BY DEF RejectMatch, Decide
<1>2. match' \in [Transactions \X Obligations -> {"none", "proposed", "accepted", "rejected"}]
  BY <1>1 DEF IInv, PInv, Shape
<1>3. \A u \in Transactions, b \in Obligations :
        match'[<<u, b>>] = "accepted" => match[<<u, b>>] = "accepted"
  BY <1>1 DEF IInv, PInv, Shape
<1> QED  BY <1>1, <1>2, <1>3, MatchKeeps

LEMMA SaveKeeps ==
  ASSUME IInv, NEW o \in Obligations, NEW s, SaveObligation(o, s)
  PROVE  IInv'
<1>1. payment' = payment /\ tx' = tx /\ item' = item /\ late' = late /\ match' = match
  BY DEF SaveObligation
<1> QED  BY <1>1, MatchKeeps DEF IInv, PInv, Shape

LEMMA PaymentStepsKeep ==
  ASSUME IInv, NEW p \in Payments, NEW t \in Transactions, NEW o \in Obligations, NEW n \in Intents,
         NEW a \in Allocations, RecordPayment(p, t, o, n, a) \/ AcceptMatch(p, t, o, n, a)
  PROVE  IInv'
<1>1. Record(p, t, o, n, a)
  BY DEF RecordPayment, AcceptMatch
<1>2. match' \in [Transactions \X Obligations -> {"none", "proposed", "accepted", "rejected"}]
  BY DEF RecordPayment, AcceptMatch, Decide, IInv, PInv, Shape
<1>3. \A u \in Transactions, b \in Obligations :
        match'[<<u, b>>] = "accepted" => match[<<u, b>>] = "accepted" \/ (u = t /\ b = o)
  BY DEF RecordPayment, AcceptMatch, Decide, IInv, PInv, Shape
<1> QED  BY <1>1, <1>2, <1>3, RecordKeeps

(***************************************************************************)
(* The theorems.                                                           *)
(***************************************************************************)
LEMMA InitHolds == Init => IInv
<1> SUFFICES ASSUME Init PROVE IInv
  OBVIOUS
<1>1. \A p \in Payments : payment[p] = NoPayment
  BY DEF Init
<1>2. \A i \in Items : item[i] = NoItem
  BY DEF Init
<1>3. Shape
  BY DEF Init, Shape, ItemRow, PaymentRow, NoRow, NoItem, NoPayment
<1>4. Rows
  BY <1>1, <1>2 DEF Rows, NoItem, NoPayment
<1>5. OneComesBack /\ OnePays /\ Follows
  BY <1>1 DEF OneComesBack, OnePays, Follows, Confirmed, NoPayment
<1>6. AcceptedIsPaid
  BY DEF Init, AcceptedIsPaid
<1>7. PaidIsDerived
  <2>1. \A i \in Items : Sharers(payment, i) = {}
    BY <1>1 DEF Sharers, Confirmed, NoPayment
  <2> QED  BY <1>2, <2>1, NothingDerived DEF PaidIsDerived, NoItem
<1>8. StatusAgrees
  BY <1>2 DEF StatusAgrees, NoItem
<1> QED  BY <1>3, <1>4, <1>5, <1>6, <1>7, <1>8 DEF IInv, PInv

LEMMA NextKeeps == IInv /\ [Next]_vars => IInv'
<1> SUFFICES ASSUME IInv, [Next]_vars PROVE IInv'
  OBVIOUS
<1>1. CASE UNCHANGED vars
  <2>1. /\ payment' = payment /\ match' = match /\ item' = item /\ late' = late /\ tx' = tx
    BY <1>1 DEF vars
  <2> QED  BY <2>1 DEF IInv, PInv, Shape, PaymentRow, ItemRow, Rows, OneComesBack, OnePays,
             Follows, AcceptedIsPaid, PaidIsDerived, StatusAgrees, Confirmed, Touched
<1>2. ASSUME NEW o \in Obligations, NEW s \in {"active", "paused", "completed", "closed", "archived"},
             SaveObligation(o, s)
      PROVE  IInv'
  BY <1>2, SaveKeeps
<1>3. ASSUME NEW o \in Obligations, NEW n \in 1..Count, GenerateSchedule(o, n) PROVE IInv'
  <2>1. <<o, 1>> \in Items
    BY Constants DEF Items
  <2> QED  BY <1>3, <2>1, ItemStepsKeep
<1>4. ASSUME NEW i \in Items, DuePasses(i) \/ MarkOverdue(i) PROVE IInv'
  <2>1. i[1] \in Obligations /\ 1 \in 1..Count
    BY Constants DEF Items
  <2> QED  BY <1>4, <2>1, ItemStepsKeep
<1>5. ASSUME NEW p \in Payments, NEW t \in Transactions, NEW o \in Obligations, NEW n \in Intents,
             NEW a \in Allocations, RecordPayment(p, t, o, n, a) \/ AcceptMatch(p, t, o, n, a)
      PROVE  IInv'
  BY <1>5, PaymentStepsKeep
<1>6. ASSUME NEW p \in Payments, ReversePayment(p) PROVE IInv'
  BY <1>6, ReverseKeeps
<1>7. ASSUME NEW t \in Transactions, NEW os \in SUBSET Obligations, ProposeMatches(t, os) PROVE IInv'
  BY <1>7, ProposeKeeps
<1>8. ASSUME NEW t \in Transactions, NEW o \in Obligations, RejectMatch(t, o) PROVE IInv'
  BY <1>8, RejectKeeps
<1>9. ASSUME NEW t \in Transactions, NEW x \in Amounts, PostTransaction(t, x) \/ ReviseTransaction(t, x)
      PROVE  IInv'
  BY <1>9, LedgerStepsKeep
<1>10. ASSUME NEW t \in Transactions, NEW s \in {"reversed", "deleted"}, InvalidateTransaction(t, s)
       PROVE  IInv'
  BY <1>10, InvalidateKeeps
<1>11. ASSUME NEW t \in Transactions, RestoreTransaction(t) PROVE IInv'
  BY <1>11, RestoreKeeps
<1> QED  BY <1>1, <1>2, <1>3, <1>4, <1>5, <1>6, <1>7, <1>8, <1>9, <1>10, <1>11 DEF Next

\* The inductive invariant holds in every reachable state.
THEOREM Invariant == Spec => []IInv
BY InitHolds, NextKeeps, PTL DEF Spec

\* What an item says it has received is what the confirmed payments give
\* it: payments, reversals, the triggers of the ledger and the overdue job
\* leave reconcile_planning nothing to repair.
THEOREM PaidIsDerivedHolds == Spec => []PaidIsDerived
<1>1. IInv => PaidIsDerived
  BY DEF IInv
<1> QED  BY <1>1, Invariant, PTL

\* The status of an item agrees with what it has received and the clock.
THEOREM StatusAgreesHolds == Spec => []StatusAgrees
<1>1. IInv => StatusAgrees
  BY DEF IInv
<1> QED  BY <1>1, Invariant, PTL

\* No transaction pays twice or while it is not confirmed, what the ledger
\* took back says why, and an accepted match has its payment.
THEOREM PaymentsFollowLedgerHolds == Spec => []PaymentsFollowLedger
<1>1. ASSUME IInv PROVE PaymentsFollowLedger
  <2>1. \A t \in Transactions : PaidWith(t) # {} => tx[t].status = "confirmed"
    BY <1>1 DEF IInv, PInv, Follows, PaidWith, Confirmed
  <2> QED  BY <1>1, <2>1 DEF IInv, PInv, OnePays, Follows, AcceptedIsPaid, PaymentsFollowLedger
<1> QED  BY <1>1, Invariant, PTL

(***************************************************************************)
(* Types: the ranges of the sums.                                          *)
(***************************************************************************)
LEMMA FiniteItems == IsFiniteSet(Items) /\ IsFiniteSet(Payments)
<1>1. IsFiniteSet(1..Count) /\ IsFiniteSet(1..MaxPayments)
  BY CountAssumption, BoundAssumption, FS_Interval
<1>2. IsFiniteSet(Obligations \X (1..Count))
  BY <1>1, CountAssumption, FS_Product
<1> QED  BY <1>1, <1>2 DEF Items, Payments

\* An allocation gives natural numbers.
Natural(alloc) == alloc = [i \in Items |-> alloc[i]] /\ \A i \in Items : alloc[i] \in Nat
NaturalRows == \A p \in Payments : Natural(payment[p].alloc) /\ payment[p].extra \in Nat

LEMMA AllocationsAreNatural ==
  ASSUME NEW alloc \in Allocations \union {Nothing}
  PROVE  Natural(alloc)
<1>1. CASE alloc \in Allocations
  <2>1. alloc \in [Items -> 0..Largest]
    BY <1>1 DEF Allocations
  <2>2. \A x \in 0..Largest : x \in Nat
    OBVIOUS
  <2> QED  BY <2>1, <2>2 DEF Natural
<1>2. CASE alloc = Nothing
  BY <1>2 DEF Nothing, Natural
<1> QED  BY <1>1, <1>2

\* What the confirmed payments give to an item.
Got(pay, i) == Total(Share(pay, i))

LEMMA GotIsNat ==
  ASSUME NEW pay, NEW i \in Items, \A p \in Payments : pay[p].alloc[i] \in Nat
  PROVE  Got(pay, i) \in Nat
<1> DEFINE f == Share(pay, i)
<1>1. DOMAIN f = Sharers(pay, i) /\ Sharers(pay, i) \in SUBSET Payments
  BY DEF Share, Sharers
<1>2. IsFiniteSet(DOMAIN f)
  BY <1>1, FiniteItems, FS_Subset
<1>3. \A p \in DOMAIN f : f[p] \in Nat
  BY <1>1 DEF Share
<1> HIDE DEF f
<1>4. Total(f) \in Nat
  BY <1>2, <1>3, TotalIsNat
<1> QED  BY <1>4 DEF Got, f

LEMMA DerivedInRange ==
  ASSUME NEW pay, NEW i \in Items, \A p \in Payments : pay[p].alloc[i] \in Nat
  PROVE  Derived(pay, i) \in 0..(Installment + Residual) /\ Derived(pay, i) <= Amount(i)
<1>1. Got(pay, i) \in Nat
  BY GotIsNat
<1>2. Amount(i) \in Nat /\ Amount(i) <= Installment + Residual
  BY SizeAssumption DEF Amount
<1>3. Derived(pay, i) = Least(Amount(i), Got(pay, i))
  BY DEF Derived, Got
<1> QED  BY <1>1, <1>2, <1>3, SizeAssumption DEF Least

\* The excess of an allocation, item by item.
Exceeds(alloc) ==
  [i \in Items |-> IF alloc[i] > 0 THEN Positive(alloc[i] - Positive(Amount(i) - item[i].paid)) ELSE 0]

LEMMA ExcessIsNat ==
  ASSUME NEW alloc, Natural(alloc), \A i \in Items : item[i].paid \in Nat
  PROVE  /\ Excess(alloc) \in Nat /\ Excess(alloc) = Total(Exceeds(alloc))
         /\ Exceeds(alloc) \in [Items -> Nat]
<1>1. \A i \in Items : Amount(i) \in Nat
  BY Constants
<1>2. \A i \in Items : Exceeds(alloc)[i] \in Nat
  BY <1>1 DEF Natural, Positive, Exceeds
<1>3. DOMAIN Exceeds(alloc) = Items
  BY DEF Exceeds
<1>4. Total(Exceeds(alloc)) \in Nat
  BY <1>2, <1>3, FiniteItems, TotalIsNat
<1>5. Excess(alloc) = Total(Exceeds(alloc))
  BY DEF Excess, Exceeds
<1>6. Exceeds(alloc) \in [Items -> Nat]
  BY <1>2 DEF Exceeds
<1> QED  BY <1>4, <1>5, <1>6

LEMMA TypedRows == TypeOK => NaturalRows /\ \A i \in Items : item[i].paid \in Nat
<1> SUFFICES ASSUME TypeOK PROVE NaturalRows /\ \A i \in Items : item[i].paid \in Nat
  OBVIOUS
<1>1. \A p \in Payments : payment[p].alloc \in Allocations \union {Nothing} /\ payment[p].extra \in Nat
  BY DEF TypeOK
<1>2. \A i \in Items : item[i].paid \in 0..(Installment + Residual)
  BY DEF TypeOK
<1>3. \A i \in Items : item[i].paid \in Nat
  BY <1>2, SizeAssumption
<1> QED  BY <1>1, <1>3, AllocationsAreNatural DEF NaturalRows

\* The rows of payments keep their types.
LEMMA PaymentTypes ==
  ASSUME TypeOK, IInv, Next
  PROVE  \A p \in Payments : /\ payment'[p].alloc \in Allocations \union {Nothing}
                             /\ payment'[p].extra \in Nat
<1> DEFINE Typed(p) == payment'[p].alloc \in Allocations \union {Nothing} /\ payment'[p].extra \in Nat
<1>a. Shape
  BY DEF IInv, PInv
<1>b. \A p \in Payments : payment[p].alloc \in Allocations \union {Nothing} /\ payment[p].extra \in Nat
  BY DEF TypeOK
<1>1. ASSUME payment' = payment PROVE \A p \in Payments : Typed(p)
  BY <1>1, <1>b
<1>2. ASSUME NEW p \in Payments, NEW t \in Transactions, NEW o \in Obligations, NEW n \in Intents,
             NEW a \in Allocations, Record(p, t, o, n, a)
      PROVE  \A q \in Payments : Typed(q)
  <2> DEFINE extra == IF n = "prepayment" THEN Excess(a) ELSE 0
  <2>1. Excess(a) \in Nat
    BY AllocationsAreNatural, TypedRows, ExcessIsNat
  <2>2. payment' = [payment EXCEPT ![p] = RowOf(t, a, extra)]
    BY <1>2 DEF Record, RowOf
  <2>3. extra \in Nat
    BY <2>1
  <2> HIDE DEF extra
  <2>4. payment'[p].alloc = a /\ payment'[p].extra = extra
    BY <1>a, <2>2 DEF Shape, RowOf
  <2>5. \A q \in Payments : q # p => payment'[q] = payment[q]
    BY <1>a, <2>2 DEF Shape
  <2> QED  BY <1>b, <2>3, <2>4, <2>5
<1>3. ASSUME NEW ps, NEW status, NEW invalidated, Move(ps, status, invalidated)
      PROVE  \A q \in Payments : Typed(q)
  <2>1. \A q \in Payments : payment'[q] = IF q \in ps
          THEN [payment[q] EXCEPT !.status = status, !.invalidated = invalidated] ELSE payment[q]
    BY <1>3 DEF Move
  <2>2. \A q \in Payments : payment'[q].alloc = payment[q].alloc /\ payment'[q].extra = payment[q].extra
    BY <1>a, <2>1 DEF Shape, PaymentRow
  <2> QED  BY <1>b, <2>2
<1>4. \/ payment' = payment
      \/ \E p \in Payments, t \in Transactions, o \in Obligations, n \in Intents, a \in Allocations :
           Record(p, t, o, n, a)
      \/ \E ps, status, invalidated : Move(ps, status, invalidated)
  BY DEF Next, SaveObligation, GenerateSchedule, DuePasses, MarkOverdue, RecordPayment, AcceptMatch,
         ReversePayment, ProposeMatches, RejectMatch, PostTransaction, ReviseTransaction,
         InvalidateTransaction, RestoreTransaction
<1> HIDE DEF Typed
<1>5. \A p \in Payments : Typed(p)
  BY <1>1, <1>2, <1>3, <1>4
<1> QED  BY <1>5 DEF Typed

LEMMA TypeInit == Init => TypeOK
<1> SUFFICES ASSUME Init PROVE TypeOK
  OBVIOUS
<1>1. item \in [Items -> [paid : 0..(Installment + Residual),
                          status : {"none", "due", "partial", "paid", "overdue"}]]
  BY SizeAssumption DEF Init, NoItem
<1>2. payment \in [Payments ->
       [status : {"none", "confirmed", "reversed"}, tx : Transactions \union {NoTransaction},
        extra : Nat, invalidated : {"none", "reversed", "deleted"}, alloc : Allocations \union {Nothing}]]
  BY DEF Init, NoPayment
<1> QED  BY <1>1, <1>2 DEF Init, TypeOK, NoRow

LEMMA TypeStep == TypeOK /\ IInv /\ [Next]_vars => TypeOK'
<1> SUFFICES ASSUME TypeOK, IInv, [Next]_vars PROVE TypeOK'
  OBVIOUS
<1>1. CASE UNCHANGED vars
  BY <1>1 DEF TypeOK, vars
<1>2. CASE Next
  <2>1. \A p \in Payments : payment'[p].alloc \in Allocations \union {Nothing} /\ payment'[p].extra \in Nat
    BY <1>2, PaymentTypes
  <2>2. IInv'
    BY NextKeeps
  <2>3. payment' \in [Payments ->
          [status : {"none", "confirmed", "reversed"}, tx : Transactions \union {NoTransaction},
           extra : Nat, invalidated : {"none", "reversed", "deleted"}, alloc : Allocations \union {Nothing}]]
    BY <2>1, <2>2 DEF IInv, PInv, Shape, PaymentRow
  <2>4. ASSUME NEW i \in Items PROVE item'[i].paid \in 0..(Installment + Residual)
    <3>1. item'[i].paid = Derived(payment', i)
      BY <2>2 DEF IInv, PaidIsDerived
    <3>2. \A p \in Payments : payment'[p].alloc[i] \in Nat
      BY <2>1, AllocationsAreNatural DEF Natural
    <3> QED  BY <3>1, <3>2, DerivedInRange
  <2>5. item' \in [Items -> [paid : 0..(Installment + Residual),
                             status : {"none", "due", "partial", "paid", "overdue"}]]
    BY <2>2, <2>4 DEF IInv, PInv, Shape, ItemRow
  <2>6. \/ obligation' = obligation /\ late' = late
        \/ \E o \in Obligations, s \in {"active", "paused", "completed", "closed", "archived"} : SaveObligation(o, s)
        \/ \E i \in Items : DuePasses(i)
    <3> DEFINE Same == obligation' = obligation /\ late' = late
    <3>1. \A o, n, i : GenerateSchedule(o, n) \/ MarkOverdue(i) => Same
      BY DEF GenerateSchedule, MarkOverdue
    <3>2. \A p, t, o, n, a : RecordPayment(p, t, o, n, a) \/ AcceptMatch(p, t, o, n, a) => Same
      BY DEF RecordPayment, AcceptMatch, Record
    <3>3. \A p, t, o, os : ReversePayment(p) \/ ProposeMatches(t, os) \/ RejectMatch(t, o) => Same
      BY DEF ReversePayment, ProposeMatches, RejectMatch
    <3>4. \A t, x : PostTransaction(t, x) \/ ReviseTransaction(t, x) => Same
      BY DEF PostTransaction, ReviseTransaction
    <3>5. \A t, x : InvalidateTransaction(t, x) \/ RestoreTransaction(t) => Same
      BY DEF InvalidateTransaction, RestoreTransaction
    <3> HIDE DEF Same
    <3>6. Same \/ (\E o \in Obligations, s \in {"active", "paused", "completed", "closed", "archived"} : SaveObligation(o, s))
               \/ (\E i \in Items : DuePasses(i))
      BY <1>2, <3>1, <3>2, <3>3, <3>4, <3>5 DEF Next
    <3> QED  BY <3>6 DEF Same
  <2>7. /\ obligation' \in [Obligations -> {"active", "paused", "completed", "closed", "archived"}]
        /\ late' \in SUBSET Items
    BY <2>6 DEF TypeOK, SaveObligation, DuePasses
  <2> QED  BY <2>2, <2>3, <2>5, <2>7 DEF TypeOK, IInv, PInv, Shape
<1> QED  BY <1>1, <1>2

\* Every reachable state is well typed: the allocations are natural numbers
\* and no item has received more than its amount.
THEOREM TypeCorrect == Spec => []TypeOK
<1>1. TypeOK /\ IInv /\ [Next]_vars => TypeOK'
  BY TypeStep
<1> QED  BY <1>1, TypeInit, Invariant, PTL DEF Spec

(***************************************************************************)
(* Overpayment.  The second invariant: what the items are overfilled by is *)
(* covered, item by item, by confirmed payments; each covers no more of an *)
(* item than it gave to it, and in all no more than it declared.           *)
(***************************************************************************)
Column(cover, i) == Total([p \in Payments |-> cover[p][i]])

Covers(pay, cover) ==
  /\ cover \in [Payments -> [Items -> Nat]]
  /\ \A p \in Payments : Total(cover[p]) <= IF Confirmed(pay, p) THEN pay[p].extra ELSE 0
  /\ \A p \in Payments, i \in Items :
       cover[p][i] <= IF Confirmed(pay, p) THEN pay[p].alloc[i] ELSE 0
  /\ \A i \in Items : Got(pay, i) <= Amount(i) + Column(cover, i)

Covered == \E cover : Covers(payment, cover)

\* A payment that is confirmed in one state and not in the other makes up
\* the difference in what an item has got.
LEMMA GotJoins ==
  ASSUME NEW pay, NEW new, NEW p \in Payments, NEW i \in Items,
         Confirmed(new, p), ~Confirmed(pay, p), \A q \in Payments : q # p => new[q] = pay[q],
         \A q \in Payments : new[q].alloc[i] \in Nat
  PROVE  Got(new, i) = Got(pay, i) + new[p].alloc[i] /\ Got(pay, i) \in Nat
<1> DEFINE f == Share(new, i)
           g == Share(pay, i)
<1>1. /\ DOMAIN f = Sharers(new, i) /\ DOMAIN g = Sharers(pay, i)
      /\ \A q \in Sharers(new, i) : f[q] = new[q].alloc[i] /\ f[q] \in Nat
      /\ \A q \in Sharers(pay, i) : g[q] = pay[q].alloc[i]
  BY DEF Share, Sharers
<1>2. /\ Sharers(new, i) \subseteq Payments /\ p \notin Sharers(pay, i)
      /\ Sharers(pay, i) = Sharers(new, i) \ {p}
      /\ p \in Sharers(new, i) <=> new[p].alloc[i] > 0
  BY DEF Sharers, Confirmed
<1>3. IsFiniteSet(DOMAIN f) /\ IsFiniteSet(DOMAIN g)
  BY <1>1, <1>2, FiniteItems, FS_Subset
<1>4. \A q \in DOMAIN g : g[q] = f[q] /\ g[q] \in Nat
  BY <1>1, <1>2 DEF Sharers
<1> HIDE DEF f, g
<1>5. Total(g) \in Nat
  BY <1>3, <1>4, TotalIsNat
<1>6. CASE new[p].alloc[i] > 0
  <2>1. \A q \in DOMAIN f : f[q] \in Int
    BY <1>1
  <2>2. p \in DOMAIN f /\ DOMAIN g = DOMAIN f \ {p} /\ f[p] = new[p].alloc[i]
    BY <1>1, <1>2, <1>6
  <2>3. Total(f) = Total(g) + f[p]
    BY <1>3, <1>4, <2>1, <2>2, TotalWithoutOne
  <2> QED  BY <1>5, <2>2, <2>3 DEF Got, f, g
<1>7. CASE ~(new[p].alloc[i] > 0)
  <2>1. Sharers(new, i) = Sharers(pay, i)
    BY <1>2, <1>7
  <2>2. f = g
    BY <1>2, <2>1 DEF f, g, Share, Sharers
  <2>3. new[p].alloc[i] = 0
    BY <1>7
  <2> QED  BY <1>5, <2>2, <2>3 DEF Got, f, g
<1> QED  BY <1>6, <1>7

\* Another row of a cover changes the columns by as much.
LEMMA ColumnAfterChange ==
  ASSUME NEW cover \in [Payments -> [Items -> Nat]], NEW p \in Payments, NEW e \in [Items -> Nat],
         NEW i \in Items
  PROVE  /\ Column([cover EXCEPT ![p] = e], i) = Column(cover, i) + (e[i] - cover[p][i])
         /\ Column(cover, i) \in Nat
<1> DEFINE f == [q \in Payments |-> cover[q][i]]
           g == [q \in Payments |-> [cover EXCEPT ![p] = e][q][i]]
<1>1. /\ DOMAIN f = Payments /\ DOMAIN g = Payments
      /\ \A q \in Payments : f[q] = cover[q][i] /\ f[q] \in Nat
      /\ g[p] = e[i] /\ \A q \in Payments : q # p => g[q] = f[q]
  OBVIOUS
<1>2. e[i] \in Nat
  OBVIOUS
<1>3. Column(cover, i) = Total(f) /\ Column([cover EXCEPT ![p] = e], i) = Total(g)
  BY DEF Column
<1> HIDE DEF f, g
<1>4. Total(f) \in Nat
  BY <1>1, FiniteItems, TotalIsNat
<1>5. Total(g) = Total(f) + (g[p] - f[p])
  BY <1>1, <1>2, FiniteItems, TotalAfterChange
<1> QED  BY <1>1, <1>3, <1>4, <1>5

\* A payment joins: its excess over what is left covers what it overfills.
LEMMA Joins ==
  ASSUME NEW pay, NEW new, NEW p \in Payments, NEW cover, Covers(pay, cover),
         Confirmed(new, p), ~Confirmed(pay, p), \A q \in Payments : q # p => new[q] = pay[q],
         \A q \in Payments : Natural(new[q].alloc), new[p].extra \in Nat,
         \A i \in Items : item[i].paid \in Nat /\ item[i].paid = Derived(pay, i),
         Excess(new[p].alloc) <= new[p].extra
  PROVE  \E c : Covers(new, c)
<1> DEFINE e == Exceeds(new[p].alloc)
           c == [cover EXCEPT ![p] = e]
<1>1. e \in [Items -> Nat] /\ Total(e) <= new[p].extra
  BY ExcessIsNat
<1>2. cover \in [Payments -> [Items -> Nat]]
  BY DEF Covers
<1>3. c \in [Payments -> [Items -> Nat]] /\ c[p] = e /\ \A q \in Payments : q # p => c[q] = cover[q]
  BY <1>1, <1>2
<1>4. \A q \in Payments : q # p => (Confirmed(new, q) <=> Confirmed(pay, q))
  BY DEF Confirmed
<1>5. ASSUME NEW i \in Items
      PROVE  e[i] <= new[p].alloc[i] /\ Got(new, i) <= Amount(i) + Column(c, i)
  <2> DEFINE a == new[p].alloc[i]
             got == Got(pay, i)
             amount == Amount(i)
  <2>1. a \in Nat /\ amount \in Nat
    BY Constants DEF Natural
  <2>2. \A q \in Payments : new[q].alloc[i] \in Nat
    BY DEF Natural
  <2>3. Got(new, i) = got + a /\ got \in Nat
    BY <2>2, GotJoins
  <2>4. cover[p][i] = 0
    <3>1. cover[p][i] \in Nat /\ cover[p][i] <= 0
      BY <1>2 DEF Covers
    <3> QED  BY <3>1
  <2>5. Column(c, i) = Column(cover, i) + e[i] /\ Column(cover, i) \in Nat
    <3>1. e[i] \in Nat
      BY <1>1
    <3> HIDE DEF e
    <3>2. Column(c, i) = Column(cover, i) + (e[i] - cover[p][i]) /\ Column(cover, i) \in Nat
      BY <1>1, <1>2, ColumnAfterChange
    <3> HIDE DEF c
    <3> QED  BY <2>4, <3>1, <3>2
  <2>6. got <= amount + Column(cover, i)
    BY DEF Covers
  <2>7. item[i].paid = Least(amount, got)
    BY DEF Derived, Got
  <2>8. e[i] = IF a > 0 THEN Positive(a - Positive(amount - Least(amount, got))) ELSE 0
    BY <2>7 DEF Exceeds
  <2> HIDE DEF a, got, amount, e, c
  <2>9. e[i] <= a /\ got + a <= amount + (Column(cover, i) + e[i])
    BY <2>1, <2>3, <2>5, <2>6, <2>8 DEF Least, Positive
  <2> QED  BY <2>3, <2>5, <2>9 DEF a, amount
<1> HIDE DEF e, c
<1>6. Covers(new, c)
  <2>1. \A q \in Payments : Total(c[q]) <= IF Confirmed(new, q) THEN new[q].extra ELSE 0
    BY <1>1, <1>3, <1>4 DEF Covers
  <2>2. \A q \in Payments, i \in Items : c[q][i] <= IF Confirmed(new, q) THEN new[q].alloc[i] ELSE 0
    BY <1>3, <1>4, <1>5 DEF Covers
  <2> QED  BY <1>3, <1>5, <2>1, <2>2 DEF Covers
<1> QED  BY <1>6

\* A payment leaves, and with it no more of the cover than of the items.
LEMMA Leaves ==
  ASSUME NEW pay, NEW new, NEW p \in Payments, NEW cover, Covers(pay, cover),
         Confirmed(pay, p), ~Confirmed(new, p), \A q \in Payments : q # p => new[q] = pay[q],
         \A q \in Payments : Natural(pay[q].alloc)
  PROVE  \E c : Covers(new, c)
<1> DEFINE e == [i \in Items |-> 0]
           c == [cover EXCEPT ![p] = e]
<1>1. e \in [Items -> Nat] /\ Total(e) = 0
  BY FiniteItems, TotalOfZeros
<1>2. cover \in [Payments -> [Items -> Nat]]
  BY DEF Covers
<1>3. c \in [Payments -> [Items -> Nat]] /\ c[p] = e /\ \A q \in Payments : q # p => c[q] = cover[q]
  BY <1>1, <1>2
<1>4. \A q \in Payments : q # p => (Confirmed(new, q) <=> Confirmed(pay, q))
  BY DEF Confirmed
<1>5. ASSUME NEW i \in Items PROVE Got(new, i) <= Amount(i) + Column(c, i)
  <2>1. pay[p].alloc[i] \in Nat /\ Amount(i) \in Nat /\ \A q \in Payments : pay[q].alloc[i] \in Nat
    BY Constants DEF Natural
  <2>2. Got(pay, i) = Got(new, i) + pay[p].alloc[i] /\ Got(new, i) \in Nat
    BY <2>1, GotJoins
  <2>3. cover[p][i] \in Nat /\ cover[p][i] <= pay[p].alloc[i]
    BY <1>2 DEF Covers
  <2>4. Column(c, i) = Column(cover, i) + (e[i] - cover[p][i]) /\ Column(cover, i) \in Nat
    <3> HIDE DEF e
    <3> QED  BY <1>1, <1>2, ColumnAfterChange
  <2>5. Got(pay, i) <= Amount(i) + Column(cover, i) /\ e[i] = 0
    BY DEF Covers
  <2> HIDE DEF e, c
  <2> QED  BY <2>1, <2>2, <2>3, <2>4, <2>5
<1>6. \A i \in Items : e[i] = 0
  OBVIOUS
<1> HIDE DEF e, c
<1>7. Covers(new, c)
  <2>1. \A q \in Payments : Total(c[q]) <= IF Confirmed(new, q) THEN new[q].extra ELSE 0
    BY <1>1, <1>3, <1>4 DEF Covers
  <2>2. \A q \in Payments, i \in Items : c[q][i] <= IF Confirmed(new, q) THEN new[q].alloc[i] ELSE 0
    BY <1>3, <1>4, <1>6 DEF Covers
  <2> QED  BY <1>3, <1>5, <2>1, <2>2 DEF Covers
<1> QED  BY <1>7

LEMMA CoveredInit == Init => Covered
<1> SUFFICES ASSUME Init PROVE Covered
  OBVIOUS
<1> DEFINE zeros == [i \in Items |-> 0]
           cover == [p \in Payments |-> zeros]
<1>1. cover \in [Payments -> [Items -> Nat]] /\ \A p \in Payments : cover[p] = zeros
  OBVIOUS
<1>2. Total(zeros) = 0
  BY FiniteItems, TotalOfZeros
<1>3. \A p \in Payments : ~Confirmed(payment, p)
  BY DEF Init, Confirmed, NoPayment
<1>4. ASSUME NEW i \in Items PROVE Got(payment, i) <= Amount(i) + Column(cover, i)
  <2>1. DOMAIN Share(payment, i) = {}
    BY <1>3 DEF Share, Sharers
  <2>2. Got(payment, i) = 0
    BY <2>1, TotalOfNothing DEF Got
  <2> DEFINE f == [p \in Payments |-> cover[p][i]]
  <2>3. DOMAIN f = Payments /\ \A p \in Payments : f[p] = 0
    OBVIOUS
  <2>4. Column(cover, i) = Total(f)
    BY DEF Column
  <2> HIDE DEF f
  <2>5. Total(f) = 0
    BY <2>3, FiniteItems, TotalOfZeros
  <2>6. Amount(i) \in Nat
    BY Constants
  <2> QED  BY <2>2, <2>4, <2>5, <2>6
<1>5. \A i \in Items : zeros[i] = 0
  OBVIOUS
<1> HIDE DEF zeros, cover
<1>6. Covers(payment, cover)
  BY <1>1, <1>2, <1>3, <1>4, <1>5 DEF Covers
<1> QED  BY <1>6 DEF Covered

\* A step records a payment, moves at most one, or leaves them alone.
LEMMA CoveredStep == TypeOK /\ IInv /\ Covered /\ [Next]_vars => Covered'
<1> SUFFICES ASSUME TypeOK, IInv, Covered, [Next]_vars PROVE Covered'
  OBVIOUS
<1>a. PICK cover : Covers(payment, cover)
  BY DEF Covered
<1>b. /\ \A p \in Payments : Natural(payment[p].alloc) /\ payment[p].extra \in Nat
      /\ \A i \in Items : item[i].paid \in Nat /\ item[i].paid = Derived(payment, i)
  BY TypedRows DEF NaturalRows, IInv, PaidIsDerived
<1>c. Shape /\ Follows /\ OnePays /\ OneComesBack
  BY DEF IInv, PInv
<1>1. ASSUME payment' = payment PROVE Covered'
  <2>1. Covers(payment', cover)
    BY <1>a, <1>1
  <2> QED  BY <2>1 DEF Covered
<1>2. ASSUME NEW p \in Payments, NEW t \in Transactions, NEW o \in Obligations, NEW n \in Intents,
             NEW a \in Allocations, Record(p, t, o, n, a)
      PROVE  Covered'
  <2> DEFINE extra == IF n = "prepayment" THEN Excess(a) ELSE 0
  <2>1. Excess(a) \in Nat /\ Natural(a)
    BY <1>b, AllocationsAreNatural, ExcessIsNat
  <2>2. payment' = [payment EXCEPT ![p] = RowOf(t, a, extra)] /\ Fits(n, a) /\ payment[p].status = "none"
    BY <1>2 DEF Record, RowOf, IsNext
  <2>3. extra \in Nat /\ Excess(a) <= extra
    BY <2>1, <2>2 DEF Fits
  <2> HIDE DEF extra
  <2>4. /\ payment'[p].alloc = a /\ payment'[p].extra = extra /\ payment'[p].status = "confirmed"
        /\ \A q \in Payments : q # p => payment'[q] = payment[q]
    BY <1>c, <2>2 DEF Shape, RowOf
  <2>5. /\ \A q \in Payments : Natural(payment'[q].alloc)
        /\ payment'[p].extra \in Nat /\ Excess(payment'[p].alloc) <= payment'[p].extra
        /\ Confirmed(payment', p) /\ ~Confirmed(payment, p)
    BY <1>b, <2>1, <2>2, <2>3, <2>4 DEF Confirmed
  <2>6. \E c : Covers(payment', c)
    BY <1>a, <1>b, <2>4, <2>5, Joins
  <2> QED  BY <2>6 DEF Covered
<1>3. ASSUME NEW p \in Payments, NEW status \in {"reversed"}, NEW why \in {"none", "reversed", "deleted"},
             payment[p].status = "confirmed", Move({p}, status, why)
      PROVE  Covered'
  <2>1. payment'[p].status = "reversed" /\ \A q \in Payments : q # p => payment'[q] = payment[q]
    BY <1>3, <1>c, MovedPayments
  <2>2. Confirmed(payment, p) /\ ~Confirmed(payment', p)
    BY <1>3, <2>1 DEF Confirmed
  <2>3. \E c : Covers(payment', c)
    BY <1>a, <1>b, <2>1, <2>2, Leaves
  <2> QED  BY <2>3 DEF Covered
<1>4. ASSUME NEW p \in Payments, payment[p].status # "confirmed", Move({p}, "confirmed", "none"),
             Excess(payment[p].alloc) <= payment[p].extra
      PROVE  Covered'
  <2>1. /\ payment'[p].status = "confirmed" /\ \A q \in Payments : q # p => payment'[q] = payment[q]
        /\ \A q \in Payments : payment'[q].alloc = payment[q].alloc
    BY <1>4, <1>c, MovedPayments
  <2>2. payment'[p].extra = payment[p].extra
    BY <1>4, <1>c DEF Move, Shape, PaymentRow
  <2>3. Confirmed(payment', p) /\ ~Confirmed(payment, p)
    BY <1>4, <2>1 DEF Confirmed
  <2>4. /\ \A q \in Payments : Natural(payment'[q].alloc)
        /\ payment'[p].extra \in Nat /\ Excess(payment'[p].alloc) <= payment'[p].extra
    BY <1>4, <1>b, <2>1, <2>2
  <2>5. \E c : Covers(payment', c)
    BY <1>a, <1>b, <2>1, <2>3, <2>4, Joins
  <2> QED  BY <2>5 DEF Covered
<1>5. ASSUME NEW status, NEW why, Move({}, status, why) PROVE Covered'
  <2>1. payment' = payment
    BY <1>5, <1>c DEF Move, Shape
  <2> QED  BY <1>1, <2>1
<1>6. ASSUME NEW t \in Transactions, NEW s \in {"reversed", "deleted"}, InvalidateTransaction(t, s)
      PROVE  Covered'
  <2>1. Move(PaidWith(t), "reversed", s)
    BY <1>6 DEF InvalidateTransaction
  <2>2. CASE PaidWith(t) = {}
    BY <1>5, <2>1, <2>2
  <2>3. CASE PaidWith(t) # {}
    <3>1. PICK p \in Payments : p \in PaidWith(t)
      BY <2>3 DEF PaidWith
    <3>2. PaidWith(t) = {p} /\ payment[p].status = "confirmed"
      BY <1>c, <3>1 DEF OnePays, PaidWith, Confirmed
    <3>3. Move({p}, "reversed", s)
      BY <2>1, <3>2
    <3> QED  BY <1>3, <3>2, <3>3
  <2> QED  BY <2>2, <2>3
<1>7. ASSUME NEW t \in Transactions, RestoreTransaction(t) PROVE Covered'
  <2>1. Move(TakenByDeletion(t), "confirmed", "none") /\ Restorable(t)
    BY <1>7 DEF RestoreTransaction
  <2>2. CASE TakenByDeletion(t) = {}
    BY <1>5, <2>1, <2>2
  <2>3. CASE TakenByDeletion(t) # {}
    <3>1. PICK p \in Payments : p \in TakenByDeletion(t)
      BY <2>3 DEF TakenByDeletion
    <3>2. TakenByDeletion(t) = {p} /\ payment[p].invalidated = "deleted"
      BY <1>c, <3>1 DEF OneComesBack, TakenByDeletion
    <3>3. payment[p].status # "confirmed" /\ Excess(payment[p].alloc) <= payment[p].extra
      BY <1>c, <2>1, <3>1, <3>2 DEF Follows, Restorable
    <3>4. Move({p}, "confirmed", "none")
      BY <2>1, <3>2
    <3> QED  BY <1>4, <3>3, <3>4
  <2> QED  BY <2>2, <2>3
<1>8. ASSUME NEW p \in Payments, ReversePayment(p) PROVE Covered'
  <2>1. payment[p].status = "confirmed" /\ Move({p}, "reversed", "none")
    BY <1>8 DEF ReversePayment
  <2> QED  BY <1>3, <2>1
<1>9. \A o, s, n, i, t, x, os :
        \/ SaveObligation(o, s) \/ GenerateSchedule(o, n) \/ DuePasses(i) \/ MarkOverdue(i)
        \/ ProposeMatches(t, os) \/ RejectMatch(t, o) \/ PostTransaction(t, x) \/ ReviseTransaction(t, x)
        => Covered'
  <2>1. \A o, s, n, i, t, x, os :
          \/ SaveObligation(o, s) \/ GenerateSchedule(o, n) \/ DuePasses(i) \/ MarkOverdue(i)
          \/ ProposeMatches(t, os) \/ RejectMatch(t, o) \/ PostTransaction(t, x) \/ ReviseTransaction(t, x)
          => payment' = payment
    BY DEF SaveObligation, GenerateSchedule, DuePasses, MarkOverdue, ProposeMatches, RejectMatch,
           PostTransaction, ReviseTransaction
  <2> QED  BY <1>1, <2>1
<1>10. ASSUME NEW p \in Payments, NEW t \in Transactions, NEW o \in Obligations, NEW n \in Intents,
              NEW a \in Allocations, RecordPayment(p, t, o, n, a) \/ AcceptMatch(p, t, o, n, a)
       PROVE  Covered'
  BY <1>2, <1>10 DEF RecordPayment, AcceptMatch
<1>11. CASE UNCHANGED vars
  BY <1>1, <1>11 DEF vars
<1>12. CASE Next
  <2> HIDE DEF Covered
  <2> QED  BY <1>6, <1>7, <1>8, <1>9, <1>10, <1>12 DEF Next
<1> QED  BY <1>11, <1>12

\* What is covered item by item is declared payment by payment.
LEMMA CoverDeclares == TypeOK /\ IInv /\ Covered => NoImplicitExcess
<1> SUFFICES ASSUME TypeOK, IInv, Covered PROVE NoImplicitExcess
  OBVIOUS
<1>a. PICK cover : Covers(payment, cover)
  BY DEF Covered
<1>b. /\ \A p \in Payments : Natural(payment[p].alloc) /\ payment[p].extra \in Nat
      /\ \A i \in Items : item[i].paid \in Nat /\ item[i].paid = Derived(payment, i)
  BY TypedRows DEF NaturalRows, IInv, PaidIsDerived
<1> DEFINE over == [i \in Items |-> Total(Share(payment, i)) - item[i].paid]
           columns == [i \in Items |-> Total([p \in Payments |-> cover[p][i]])]
           rows == [p \in Payments |-> Total(cover[p])]
           declared == [p \in Payments |-> IF Confirmed(payment, p) THEN payment[p].extra ELSE 0]
<1>c. cover \in [Payments -> [Items -> Nat]]
  BY <1>a DEF Covers
<1>1. ASSUME NEW i \in Items PROVE over[i] \in Int /\ columns[i] \in Int /\ over[i] <= columns[i]
  <2>1. Got(payment, i) \in Nat
    BY <1>b, GotIsNat DEF Natural
  <2>2. columns[i] = Column(cover, i) /\ over[i] = Got(payment, i) - item[i].paid
    BY DEF Column, Got
  <2>3. Column(cover, i) \in Nat
    <3> DEFINE f == [p \in Payments |-> cover[p][i]]
    <3>1. DOMAIN f = Payments /\ \A p \in Payments : f[p] \in Nat
      BY <1>c
    <3> HIDE DEF f
    <3>2. Total(f) \in Nat
      BY <3>1, FiniteItems, TotalIsNat
    <3> QED  BY <3>2 DEF Column, f
  <2>4. Got(payment, i) <= Amount(i) + Column(cover, i) /\ Amount(i) \in Nat
    BY <1>a, Constants DEF Covers
  <2>5. item[i].paid = Least(Amount(i), Got(payment, i)) /\ item[i].paid \in Nat
    BY <1>b DEF Derived, Got
  <2> HIDE DEF over, columns
  <2> QED  BY <2>1, <2>2, <2>3, <2>4, <2>5 DEF Least
<1>2. ASSUME NEW p \in Payments PROVE rows[p] \in Int /\ declared[p] \in Int /\ rows[p] <= declared[p]
  <2>1. Total(cover[p]) \in Nat
    <3>1. DOMAIN cover[p] = Items /\ \A i \in Items : cover[p][i] \in Nat
      BY <1>c
    <3> QED  BY <3>1, FiniteItems, TotalIsNat
  <2>2. Total(cover[p]) <= declared[p]
    BY <1>a DEF Covers
  <2> QED  BY <1>b, <2>1, <2>2
<1>3. /\ DOMAIN over = Items /\ DOMAIN columns = Items
      /\ DOMAIN rows = Payments /\ DOMAIN declared = Payments
  OBVIOUS
<1>4. Total(columns) = Total(rows)
  <2>1. cover \in [Payments -> [Items -> Int]]
    BY <1>c
  <2> QED  BY <2>1, FiniteItems, RowsAndColumns
<1>5. Overfill = Total(over) /\ Declared = Total(declared)
  BY DEF Overfill, Declared
<1> HIDE DEF over, columns, rows, declared
<1>6. Total(over) <= Total(columns) /\ Total(rows) <= Total(declared)
  BY <1>1, <1>2, <1>3, FiniteItems, TotalIsMonotone
<1>7. Total(over) \in Int /\ Total(columns) \in Int /\ Total(rows) \in Int /\ Total(declared) \in Int
  BY <1>1, <1>2, <1>3, FiniteItems, TotalIsInt
<1> QED  BY <1>4, <1>5, <1>6, <1>7 DEF NoImplicitExcess

\* Whatever is taken back and restored in whatever order, the items are
\* overfilled by no more than confirmed payments declared as excess.
THEOREM ExcessIsDeclared == Spec => []NoImplicitExcess
<1>1. TypeOK /\ IInv /\ Covered /\ [Next]_vars => Covered'
  BY CoveredStep
<1>2. TypeOK /\ IInv /\ Covered => NoImplicitExcess
  BY CoverDeclares
<1> QED  BY <1>1, <1>2, CoveredInit, Invariant, TypeCorrect, PTL DEF Spec

\* An item exceeds its amount by no more than what the confirmed payments
\* that allocate to it were declared to exceed by: what one item was
\* prepaid never excuses an excess on another, and an item none of whose
\* payments is a prepayment or a settlement is never paid beyond its amount
\* (FR-030, FR-031).
ExtraOf(i) == Total([p \in Payments |-> IF p \in Sharers(payment, i) THEN payment[p].extra ELSE 0])
ExcessStaysWithItem == \A i \in Items : Total(Share(payment, i)) <= Amount(i) + ExtraOf(i)

\* One row is at most the sum of natural rows.
LEMMA TermIsBounded ==
  ASSUME NEW f, IsFiniteSet(DOMAIN f), \A x \in DOMAIN f : f[x] \in Nat, NEW y \in DOMAIN f
  PROVE  f[y] <= Total(f)
<1> DEFINE g == [x \in DOMAIN f |-> IF x = y THEN f[y] ELSE 0]
<1>1. DOMAIN g = DOMAIN f /\ g[y] = f[y] /\ \A x \in DOMAIN g : x # y => g[x] = 0
  OBVIOUS
<1>2. \A x \in DOMAIN f : f[x] \in Int /\ g[x] \in Int /\ g[x] <= f[x]
  OBVIOUS
<1> HIDE DEF g
<1>3. Total(g) = g[y]
  BY <1>1, <1>2, TotalOfOne
<1>4. Total(g) <= Total(f)
  BY <1>1, <1>2, TotalIsMonotone
<1> QED  BY <1>1, <1>3, <1>4

\* The share of the cover that an item takes comes from its own payments.
LEMMA CoverStays == TypeOK /\ Covered => ExcessStaysWithItem
<1> SUFFICES ASSUME TypeOK, Covered, NEW i \in Items
             PROVE  Total(Share(payment, i)) <= Amount(i) + ExtraOf(i)
  BY DEF ExcessStaysWithItem
<1>a. PICK cover : Covers(payment, cover)
  BY DEF Covered
<1>b. \A p \in Payments : Natural(payment[p].alloc) /\ payment[p].extra \in Nat
  BY TypedRows DEF NaturalRows
<1> DEFINE f == [p \in Payments |-> cover[p][i]]
           g == [p \in Payments |-> IF p \in Sharers(payment, i) THEN payment[p].extra ELSE 0]
<1>c. cover \in [Payments -> [Items -> Nat]]
  BY <1>a DEF Covers
<1>1. ASSUME NEW p \in Payments PROVE f[p] \in Int /\ g[p] \in Int /\ f[p] <= g[p]
  <2>1. cover[p][i] \in Nat /\ payment[p].extra \in Nat /\ payment[p].alloc[i] \in Nat
    BY <1>b, <1>c DEF Natural
  <2>2. cover[p][i] <= Total(cover[p]) /\ Total(cover[p]) \in Nat
    <3>1. DOMAIN cover[p] = Items /\ \A j \in Items : cover[p][j] \in Nat
      BY <1>c
    <3> QED  BY <3>1, FiniteItems, TermIsBounded, TotalIsNat
  <2>3. /\ Total(cover[p]) <= IF Confirmed(payment, p) THEN payment[p].extra ELSE 0
        /\ cover[p][i] <= IF Confirmed(payment, p) THEN payment[p].alloc[i] ELSE 0
    BY <1>a DEF Covers
  <2>4. CASE p \in Sharers(payment, i)
    BY <2>1, <2>2, <2>3, <2>4 DEF Sharers
  <2>5. CASE p \notin Sharers(payment, i)
    BY <2>1, <2>3, <2>5 DEF Sharers
  <2> QED  BY <2>4, <2>5
<1>2. DOMAIN f = Payments /\ DOMAIN g = Payments
  OBVIOUS
<1>3. Column(cover, i) = Total(f) /\ ExtraOf(i) = Total(g)
  BY DEF Column, ExtraOf
<1> HIDE DEF f, g
<1>4. Total(f) <= Total(g) /\ Total(f) \in Int /\ Total(g) \in Int
  BY <1>1, <1>2, FiniteItems, TotalIsMonotone, TotalIsInt
<1>5. Got(payment, i) <= Amount(i) + Column(cover, i)
  BY <1>a DEF Covers
<1>6. Got(payment, i) \in Nat /\ Amount(i) \in Nat
  BY <1>b, GotIsNat, Constants DEF Natural
<1> QED  BY <1>3, <1>4, <1>5, <1>6 DEF Got

\* Whatever is taken back and restored in whatever order, an item stays
\* within its amount and what its own payments declared as excess.
THEOREM ExcessStays == Spec => []ExcessStaysWithItem
<1>1. TypeOK /\ IInv /\ Covered /\ [Next]_vars => Covered'
  BY CoveredStep
<1>2. TypeOK /\ Covered => ExcessStaysWithItem
  BY CoverStays
<1> QED  BY <1>1, <1>2, CoveredInit, Invariant, TypeCorrect, PTL DEF Spec

(***************************************************************************)
(* The amount of a payment and that of its transaction.                    *)
(***************************************************************************)
\* What a transaction pays is its amount: record_obligation_payment requires
\* it, and so it is when the transaction is taken back and restored.
PaysItsAmount ==
  \A p \in Payments : Confirmed(payment, p) \/ payment[p].invalidated = "deleted" =>
    Total(payment[p].alloc) = tx[payment[p].tx].amount

\* No transaction is revised while it pays: no trigger of planning looks at
\* revise_transaction, which changes the amount and not the status.
RevisesUnpaid ==
  [][\A t \in Transactions, x \in Amounts : ReviseTransaction(t, x) => PaidWith(t) = {}]_vars

\* A payment moves with its transaction and keeps what it allocates.
LEMMA AmountStep ==
  ASSUME IInv, PaysItsAmount, [Next]_vars,
         \A t \in Transactions, x \in Amounts : ReviseTransaction(t, x) => PaidWith(t) = {}
  PROVE  PaysItsAmount'
<1>a. Shape /\ Rows /\ Follows
  BY DEF IInv, PInv
<1>b. \A p \in Payments : payment[p].status # "none" => payment[p].tx \in Transactions
  BY <1>a DEF Shape, PaymentRow, Rows
<1>c. \A p \in Payments : Confirmed(payment, p) \/ payment[p].invalidated = "deleted" =>
        payment[p].tx \in Transactions
  BY <1>a, <1>b DEF Follows, Confirmed
<1>1. ASSUME payment' = payment,
             \A p \in Payments : Confirmed(payment, p) \/ payment[p].invalidated = "deleted" =>
               tx'[payment[p].tx].amount = tx[payment[p].tx].amount
      PROVE  PaysItsAmount'
  BY <1>1 DEF PaysItsAmount, Confirmed
<1>2. ASSUME NEW p \in Payments, NEW t \in Transactions, NEW o \in Obligations, NEW n,
             NEW a, Record(p, t, o, n, a)
      PROVE  PaysItsAmount'
  <2>1. /\ payment'[p].tx = t /\ payment'[p].alloc = a /\ tx' = tx
        /\ \A q \in Payments : q # p => payment'[q] = payment[q]
    BY <1>2, <1>a, NewPayment
  <2>2. Total(a) = tx[t].amount
    BY <1>2 DEF Record
  <2> QED  BY <2>1, <2>2 DEF PaysItsAmount, Confirmed
<1>3. ASSUME NEW ps \in SUBSET Payments, NEW status \in {"confirmed", "reversed"},
             NEW why \in {"none", "reversed", "deleted"}, Move(ps, status, why),
             \A p \in ps : Confirmed(payment, p) \/ payment[p].invalidated = "deleted",
             \A t \in Transactions : tx'[t].amount = tx[t].amount
      PROVE  PaysItsAmount'
  <2>1. \A p \in Payments : payment'[p].tx = payment[p].tx /\ payment'[p].alloc = payment[p].alloc
    BY <1>3, <1>a, MovedPayments
  <2>2. \A p \in Payments : p \notin ps => payment'[p] = payment[p]
    BY <1>3, <1>a, MovedPayments
  <2>3. \A p \in Payments : Confirmed(payment', p) \/ payment'[p].invalidated = "deleted" =>
          Confirmed(payment, p) \/ payment[p].invalidated = "deleted"
    BY <1>3, <2>2 DEF Confirmed
  <2> QED  BY <1>3, <1>c, <2>1, <2>3 DEF PaysItsAmount
<1>4. ASSUME NEW t \in Transactions, NEW s \in {"confirmed", "reversed", "deleted"},
             tx' = [tx EXCEPT ![t].status = s]
      PROVE  \A u \in Transactions : tx'[u].amount = tx[u].amount
  BY <1>4, <1>a DEF Shape
<1>5. ASSUME NEW t \in Transactions, NEW s \in {"reversed", "deleted"}, InvalidateTransaction(t, s)
      PROVE  PaysItsAmount'
  <2>1. Move(PaidWith(t), "reversed", s) /\ tx' = [tx EXCEPT ![t].status = s]
    BY <1>5 DEF InvalidateTransaction
  <2>2. PaidWith(t) \in SUBSET Payments /\ \A p \in PaidWith(t) : Confirmed(payment, p)
    BY DEF PaidWith, Confirmed
  <2>3. \A u \in Transactions : tx'[u].amount = tx[u].amount
    BY <1>4, <2>1
  <2> QED  BY <1>3, <2>1, <2>2, <2>3
<1>6. ASSUME NEW t \in Transactions, RestoreTransaction(t) PROVE PaysItsAmount'
  <2>1. Move(TakenByDeletion(t), "confirmed", "none") /\ tx' = [tx EXCEPT ![t].status = "confirmed"]
    BY <1>6 DEF RestoreTransaction
  <2>2. /\ TakenByDeletion(t) \in SUBSET Payments
        /\ \A p \in TakenByDeletion(t) : payment[p].invalidated = "deleted"
    BY DEF TakenByDeletion
  <2>3. \A u \in Transactions : tx'[u].amount = tx[u].amount
    BY <1>4, <2>1
  <2> QED  BY <1>3, <2>1, <2>2, <2>3
<1>7. ASSUME NEW p \in Payments, ReversePayment(p) PROVE PaysItsAmount'
  <2>1. Move({p}, "reversed", "none") /\ tx' = tx /\ Confirmed(payment, p)
    BY <1>7 DEF ReversePayment, Confirmed
  <2> QED  BY <1>3, <2>1
<1>8. ASSUME NEW t \in Transactions, NEW x \in Amounts, PostTransaction(t, x) \/ ReviseTransaction(t, x)
      PROVE  PaysItsAmount'
  <2>1. payment' = payment /\ \A u \in Transactions : u # t => tx'[u] = tx[u]
    BY <1>8, <1>a DEF PostTransaction, ReviseTransaction, Shape
  <2>2. ASSUME NEW p \in Payments, Confirmed(payment, p) \/ payment[p].invalidated = "deleted"
        PROVE  payment[p].tx # t
    <3>1. CASE PostTransaction(t, x)
      BY <1>a, <2>2, <3>1 DEF PostTransaction, Follows, Confirmed
    <3>2. CASE ReviseTransaction(t, x)
      <4>1. PaidWith(t) = {} /\ tx[t].status = "confirmed"
        BY <3>2 DEF ReviseTransaction
      <4> QED  BY <1>a, <2>2, <4>1 DEF Follows, PaidWith, Confirmed
    <3> QED  BY <1>8, <3>1, <3>2
  <2> QED  BY <1>1, <1>c, <2>1, <2>2
<1>9. \A o, s, n, i, t, os :
        \/ SaveObligation(o, s) \/ GenerateSchedule(o, n) \/ DuePasses(i) \/ MarkOverdue(i)
        \/ ProposeMatches(t, os) \/ RejectMatch(t, o)
        => PaysItsAmount'
  <2>1. \A o, s, n, i, t, os :
          \/ SaveObligation(o, s) \/ GenerateSchedule(o, n) \/ DuePasses(i) \/ MarkOverdue(i)
          \/ ProposeMatches(t, os) \/ RejectMatch(t, o)
          => payment' = payment /\ tx' = tx
    BY DEF SaveObligation, GenerateSchedule, DuePasses, MarkOverdue, ProposeMatches, RejectMatch
  <2> QED  BY <1>1, <2>1
<1>10. ASSUME NEW p \in Payments, NEW t \in Transactions, NEW o \in Obligations, NEW n \in Intents,
              NEW a \in Allocations, RecordPayment(p, t, o, n, a) \/ AcceptMatch(p, t, o, n, a)
       PROVE  PaysItsAmount'
  BY <1>2, <1>10 DEF RecordPayment, AcceptMatch
<1>11. CASE UNCHANGED vars
  BY <1>1, <1>11 DEF vars
<1>12. CASE Next
  <2> HIDE DEF PaysItsAmount
  <2> QED  BY <1>5, <1>6, <1>7, <1>8, <1>9, <1>10, <1>12 DEF Next
<1> QED  BY <1>11, <1>12

\* What the confirmed payments of a transaction allocate is its amount,
\* through any reversals, deletions and restorations, as long as it is not
\* revised while it pays: the trigger missing on a revision is the only one
\* missing.
THEOREM OnlyRevisionsDiverge == Spec /\ RevisesUnpaid => []PaysItsAmount
<1> DEFINE Unpaid == \A t \in Transactions, x \in Amounts : ReviseTransaction(t, x) => PaidWith(t) = {}
<1>1. Init => PaysItsAmount
  BY DEF Init, NoPayment, PaysItsAmount, Confirmed
<1>2. IInv /\ PaysItsAmount /\ [Next]_vars /\ [Unpaid]_vars => PaysItsAmount'
  <2>1. CASE UNCHANGED vars
    BY <2>1 DEF vars, PaysItsAmount, Confirmed
  <2>2. CASE ~UNCHANGED vars
    BY <2>2, AmountStep
  <2> QED  BY <2>1, <2>2
<1> HIDE DEF Unpaid
<1> QED  BY <1>1, <1>2, Invariant, PTL DEF Spec, RevisesUnpaid, Unpaid

(***************************************************************************)
(* The ledger as planning sees it.                                         *)
(***************************************************************************)
Lifecycle == INSTANCE TransactionStatus WITH
               Ids <- Transactions, status <- [t \in Transactions |-> tx[t].status]

LEMMA StatusEdge ==
  ASSUME Shape, [Next]_vars, NEW t \in Transactions
  PROVE  tx'[t].status = tx[t].status \/ <<tx[t].status, tx'[t].status>> \in Lifecycle!Edges
<1> DEFINE Edge == tx'[t].status = tx[t].status \/ <<tx[t].status, tx'[t].status>> \in Lifecycle!Edges
<1> SUFFICES Edge
  OBVIOUS
<1>1. ASSUME NEW u \in Transactions, NEW x \in Amounts, PostTransaction(u, x) PROVE Edge
  BY <1>1 DEF PostTransaction, Shape, Lifecycle!Edges
<1>2. ASSUME NEW u \in Transactions, NEW x \in Amounts, ReviseTransaction(u, x) PROVE Edge
  BY <1>2 DEF ReviseTransaction, Shape
<1>3. ASSUME NEW u \in Transactions, NEW s \in {"reversed", "deleted"}, InvalidateTransaction(u, s)
      PROVE  Edge
  BY <1>3 DEF InvalidateTransaction, Shape, Lifecycle!Edges
<1>4. ASSUME NEW u \in Transactions, RestoreTransaction(u) PROVE Edge
  BY <1>4 DEF RestoreTransaction, Shape, Lifecycle!Edges
<1>5. ASSUME tx' = tx PROVE Edge
  BY <1>5
<1>6. ASSUME NEW p, NEW u, NEW o, NEW n, NEW a, RecordPayment(p, u, o, n, a) \/ AcceptMatch(p, u, o, n, a)
      PROVE  Edge
  BY <1>5, <1>6 DEF RecordPayment, AcceptMatch, Record
<1>7. \A o, s, n, i, u, p, os :
        \/ SaveObligation(o, s) \/ GenerateSchedule(o, n) \/ DuePasses(i) \/ MarkOverdue(i)
        \/ ProposeMatches(u, os) \/ RejectMatch(u, o) \/ ReversePayment(p)
        => tx' = tx
  BY DEF SaveObligation, GenerateSchedule, DuePasses, MarkOverdue, ProposeMatches, RejectMatch, ReversePayment
<1>8. CASE UNCHANGED vars
  BY <1>5, <1>8 DEF vars
<1>9. CASE Next
  <2> HIDE DEF Edge
  <2>1. ASSUME NEW o, NEW s, NEW n, NEW i, NEW u, NEW p, NEW os,
               \/ SaveObligation(o, s) \/ GenerateSchedule(o, n) \/ DuePasses(i) \/ MarkOverdue(i)
               \/ ProposeMatches(u, os) \/ RejectMatch(u, o) \/ ReversePayment(p)
        PROVE  Edge
    BY <1>5, <1>7, <2>1
  <2> QED  BY <1>1, <1>2, <1>3, <1>4, <1>6, <1>9, <2>1 DEF Next
<1> QED  BY <1>8, <1>9

\* The triggers of 20260901170000 react to no change of status that the ledger
\* cannot make: the transactions that planning is modelled with move only as
\* TransactionStatus allows, which module Ledger implements.
THEOREM LifecycleFollowed == Spec => Lifecycle!Spec
<1> DEFINE view == [t \in Transactions |-> tx[t].status]
<1>1. Init => Lifecycle!Init
  BY DEF Init, NoRow, Lifecycle!Init
<1>2. IInv /\ IInv' /\ [Next]_vars => [Lifecycle!Next]_view
  <2> SUFFICES ASSUME IInv, IInv', [Next]_vars PROVE Lifecycle!Next
    OBVIOUS
  <2>1. \A t \in Transactions :
          tx'[t].status = tx[t].status \/ <<tx[t].status, tx'[t].status>> \in Lifecycle!Edges
    BY StatusEdge DEF IInv, PInv
  <2>2. /\ view' = [t \in Transactions |-> tx'[t].status]
        /\ view' \in [Transactions -> {"none", "confirmed", "reversed", "deleted"}]
    BY DEF IInv, PInv, Shape
  <2> QED  BY <2>1, <2>2 DEF Lifecycle!Next
<1> HIDE DEF view
<1> QED  BY <1>1, <1>2, Invariant, PTL DEF Spec, Lifecycle!Spec, view
=============================================================================
