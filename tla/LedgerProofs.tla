---------------------------- MODULE LedgerProofs ----------------------------
(***************************************************************************)
(* Proofs about Ledger.                                                    *)
(***************************************************************************)
EXTENDS Ledger, TotalsProofs, TLAPS

\* The operators on effects return effects (ledger_apply_posting, whose
\* amounts are added per account).
LEMMA EffectsClosed ==
  ASSUME NEW e \in Effects, NEW f \in Effects, NEW a, NEW x \in Int
  PROVE  /\ Nothing \in Effects /\ On(a, x) \in Effects
         /\ Plus(e, f) \in Effects /\ Minus(e, f) \in Effects /\ Negated(e) \in Effects
BY DEF Effects, Nothing, On, Plus, Minus, Negated

\* Posting an effect that keeps every balance in the range keeps the types of
\* balances and postings (ledger_apply_posting).
LEMMA PostKeepsTypes ==
  ASSUME TypeOK, NEW id \in Ids, NEW e \in Effects, Post(id, e),
         \A a \in Accounts : InRange(balance[a] + e[a])
  PROVE  balance' \in [Accounts -> -Limit..Limit] /\ posted' \in [Ids -> Effects]
<1>1. balance' \in [Accounts -> -Limit..Limit]
  BY DEF Post, Plus, InRange, TypeOK
<1>2. posted[id] \in Effects
  BY DEF TypeOK
<1>3. Plus(posted[id], e) \in Effects
  BY <1>2, EffectsClosed
<1>4. posted' \in [Ids -> Effects]
  BY <1>3 DEF Post, TypeOK
<1> QED
  BY <1>1, <1>4

\* A new row and an updated row are rows (post_transaction,
\* guard_transaction_update).
LEMMA RowsTyped ==
  ASSUME NEW row \in Transactions, row.version < MaxVersion,
         NEW kind \in Kinds, NEW amount \in 0..Limit, NEW fee \in 0..Limit,
         NEW reverses \in Ids \union {NoId}, NEW status \in {"confirmed", "reversed", "deleted"}
  PROVE  /\ Record(kind, amount, fee, reverses) \in Transactions
         /\ Updated(row, status, amount) \in Transactions
<1>1. Record(kind, amount, fee, reverses) \in Transactions
  BY BoundAssumption DEF Record, Transactions
<1>2. row.version + 1 \in 0..MaxVersion
  BY BoundAssumption DEF Transactions
<1>3. [row EXCEPT !.status = status, !.amount = amount] \in Transactions
  BY DEF Transactions
<1>4. Updated(row, status, amount) \in Transactions
  BY <1>2, <1>3 DEF Updated, Transactions
<1> QED
  BY <1>1, <1>4

\* A command that runs has a request for an existing transaction whose row
\* has a version to spare, and leaves the requests typed.
LEMMA RunsFacts ==
  ASSUME TypeOK, NEW c \in Clients, NEW op \in Operations, Runs(c, op)
  PROVE  /\ request[c].id \in Ids /\ request[c].next \in 0..Limit
         /\ tx[request[c].id] \in Transactions
         /\ tx[request[c].id].version < MaxVersion
         /\ request' \in [Clients -> Requests]
<1>1. request[c] \in Requests /\ request[c].op # "none"
  BY DEF TypeOK, Runs, Operations
<1>2. request[c] # Idle
  BY <1>1 DEF Idle
<1>3. request[c].id \in Ids /\ request[c].next \in 0..Limit
  BY <1>1, <1>2 DEF Requests
<1>4. Idle \in Requests
  BY DEF Requests
<1> QED
  BY <1>3, <1>4 DEF Runs, TypeOK

\* What an update leaves and changes of a row (guard_transaction_update).
LEMMA UpdatedFields ==
  ASSUME NEW row \in Transactions, NEW amount, NEW status
  PROVE  /\ Updated(row, status, amount).kind = row.kind
         /\ Updated(row, status, amount).reverses = row.reverses
         /\ Updated(row, status, amount).fee = row.fee
         /\ Updated(row, status, amount).status = status
         /\ Updated(row, status, amount).amount = amount
         /\ Updated(row, status, amount).version = row.version + 1
BY DEF Updated, Transactions

\* The initial state is well-typed.
LEMMA TypeInit == Init => TypeOK
<1> SUFFICES ASSUME Init PROVE TypeOK
  OBVIOUS
<1>1. Nothing \in [Accounts -> -Limit..Limit] /\ Nothing \in Effects
  BY LimitAssumption DEF Nothing, Effects
<1>2. Absent \in Transactions
  BY LimitAssumption, BoundAssumption DEF Absent, Transactions
<1>3. Idle \in Requests
  BY DEF Requests
<1> QED
  BY <1>1, <1>2, <1>3 DEF Init, TypeOK

\* No step of the ledger leaves the types: every command checks the range of
\* the balances it leads to and the version it counts up.
LEMMA TypeStep == TypeOK /\ [Next]_vars => TypeOK'
<1> SUFFICES ASSUME TypeOK, [Next]_vars PROVE TypeOK'
  OBVIOUS
<1>a. Amounts \subseteq 0..Limit /\ Amounts \subseteq Int /\ Fees \subseteq 0..Limit /\ 0 \in 0..Limit
  BY LimitAssumption, SumsAssumption
<1>b. NoId \in Ids \union {NoId} /\ Nothing \in Effects
  BY DEF Nothing, Effects
<1>1. ASSUME NEW a \in Accounts, NEW id \in Ids, NEW x \in Openings, CreateAccount(a, id, x)
      PROVE  TypeOK'
  <2> DEFINE amount == IF x < 0 THEN -x ELSE x
  <2>1. account' \in [Accounts -> {"none", "active", "archived", "closed"}]
    BY <1>1 DEF CreateAccount, TypeOK
  <2>2. CASE x = 0
    BY <1>1, <2>1, <2>2 DEF CreateAccount, TypeOK, books
  <2>3. CASE x # 0
    <3>1. x \in Int /\ amount \in 0..Limit
      BY LimitAssumption, SumsAssumption
    <3>2. On(a, x) \in Effects
      BY <3>1 DEF On, Effects
    <3>3. /\ Free(id) /\ Postable(On(a, x)) /\ Post(id, On(a, x))
          /\ tx' = [tx EXCEPT ![id] = Record("opening", amount, 0, NoId)]
          /\ UNCHANGED <<saved, undoable, request>>
      BY <1>1, <2>3 DEF CreateAccount
    <3>4. balance' \in [Accounts -> -Limit..Limit] /\ posted' \in [Ids -> Effects]
      BY <3>2, <3>3, PostKeepsTypes DEF Postable
    <3>5. Record("opening", amount, 0, NoId) \in Transactions
      BY <3>1, BoundAssumption, LimitAssumption DEF Record, Transactions, Kinds
    <3>6. tx' \in [Ids -> Transactions]
      BY <3>3, <3>5 DEF TypeOK
    <3> QED
      BY <2>1, <3>3, <3>4, <3>6 DEF TypeOK
  <2> QED
    BY <2>2, <2>3
<1>2. ASSUME NEW a \in Accounts, ArchiveAccount(a) \/ RestoreAccount(a) \/ CloseAccount(a)
      PROVE  TypeOK'
  BY <1>2 DEF ArchiveAccount, RestoreAccount, CloseAccount, MoveAccount, TypeOK
<1>3. ASSUME NEW id \in Ids, NEW kind \in {"income", "expense"}, NEW x \in Amounts,
             NEW a \in Accounts, PostTransaction(id, kind, x, a)
      PROVE  TypeOK'
  <2>1. Signed(kind, x) \in Int
    BY <1>a DEF Signed
  <2>2. On(a, Signed(kind, x)) \in Effects
    BY <2>1 DEF On, Effects
  <2>3. balance' \in [Accounts -> -Limit..Limit] /\ posted' \in [Ids -> Effects]
    BY <1>3, <2>2, PostKeepsTypes DEF PostTransaction, Postable
  <2>4. Record(kind, x, 0, NoId) \in Transactions
    BY <1>a, BoundAssumption DEF Record, Transactions, Kinds
  <2>5. tx' \in [Ids -> Transactions]
    BY <1>3, <2>4 DEF PostTransaction, TypeOK
  <2> QED
    BY <1>3, <2>3, <2>5 DEF PostTransaction, TypeOK
<1>4. ASSUME NEW id \in Ids, NEW s \in Accounts, NEW d \in Accounts, NEW f \in Accounts,
             NEW x \in Amounts, NEW y \in Fees, TransferFunds(id, s, d, f, x, y)
      PROVE  TypeOK'
  <2>1. TransferEffect(s, d, f, x, y) \in Effects
    BY <1>a DEF TransferEffect, Plus, On, Effects
  <2>2. balance' \in [Accounts -> -Limit..Limit] /\ posted' \in [Ids -> Effects]
    BY <1>4, <2>1, PostKeepsTypes DEF TransferFunds
  <2>3. Record("transfer", x, y, NoId) \in Transactions
    BY <1>a, BoundAssumption DEF Record, Transactions, Kinds
  <2>4. tx' \in [Ids -> Transactions]
    BY <1>4, <2>3 DEF TransferFunds, TypeOK
  <2> QED
    BY <1>4, <2>2, <2>4 DEF TransferFunds, TypeOK
<1>5. ASSUME NEW c \in Clients, NEW id \in Ids, NEW op \in Operations,
             NEW x \in Amounts \union {0}, Prepare(c, id, op, x)
      PROVE  TypeOK'
  <2>1. tx[id] \in Transactions
    BY DEF TypeOK
  <2>2. tx[id].amount + tx[id].fee \in 0..(2 * Limit) /\ tx[id].version \in 0..MaxVersion
    BY <2>1, LimitAssumption DEF Transactions
  <2>3. [op |-> op, id |-> id, version |-> tx[id].version,
         seen |-> tx[id].amount + tx[id].fee, next |-> x] \in Requests
    BY <1>a, <2>2 DEF Requests
  <2> QED
    BY <1>5, <2>3 DEF Prepare, TypeOK
<1>6. ASSUME NEW c \in Clients, Abandon(c)
      PROVE  TypeOK'
  BY <1>6 DEF Abandon, TypeOK, Requests
<1>7. ASSUME NEW c \in Clients, NEW a \in Accounts, Revise(c, a)
      PROVE  TypeOK'
  <2> DEFINE id == request[c].id
             effect == Minus(On(a, Signed(tx[id].kind, request[c].next)), posted[id])
  <2>1. "revise" \in Operations /\ Runs(c, "revise")
    BY <1>7 DEF Revise, Operations
  <2>2. /\ id \in Ids /\ request[c].next \in 0..Limit /\ tx[id] \in Transactions
        /\ tx[id].version < MaxVersion /\ request' \in [Clients -> Requests]
    BY <2>1, RunsFacts
  <2>3. posted[id] \in Effects /\ On(a, Signed(tx[id].kind, request[c].next)) \in Effects
    BY <2>2, LimitAssumption DEF TypeOK, On, Signed, Effects
  <2>4. effect \in Effects
    BY <2>3, EffectsClosed
  <2>5. balance' \in [Accounts -> -Limit..Limit] /\ posted' \in [Ids -> Effects]
    BY <1>7, <2>2, <2>4, PostKeepsTypes DEF Revise, Postable
  <2>6. Updated(tx[id], "confirmed", request[c].next) \in Transactions
    BY <1>a, <1>b, <2>2, RowsTyped DEF Kinds
  <2>7. tx' \in [Ids -> Transactions]
    BY <1>7, <2>6 DEF Revise, TypeOK
  <2> QED
    BY <1>7, <2>2, <2>5, <2>7 DEF Revise, TypeOK
<1>8. ASSUME NEW c \in Clients, NEW refund \in Ids, NEW a \in Accounts, NEW x \in Amounts,
             Refund(c, refund, a, x)
      PROVE  TypeOK'
  <2> DEFINE id == request[c].id
  <2>1. "refund" \in Operations /\ Runs(c, "refund")
    BY <1>8 DEF Refund, Operations
  <2>2. /\ id \in Ids /\ tx[id] \in Transactions
        /\ tx[id].version < MaxVersion /\ request' \in [Clients -> Requests]
    BY <2>1, RunsFacts
  <2>3. On(a, x) \in Effects
    BY <1>a DEF On, Effects
  <2>4. balance' \in [Accounts -> -Limit..Limit] /\ posted' \in [Ids -> Effects]
    BY <1>8, <2>3, PostKeepsTypes DEF Refund, Postable
  <2>5. tx[id].amount \in 0..Limit
    BY <2>2 DEF Transactions
  <2>6. /\ Updated(tx[id], "confirmed", tx[id].amount) \in Transactions
        /\ Record("refund", x, 0, id) \in Transactions
    BY <1>a, <2>2, <2>5, RowsTyped DEF Kinds
  <2>7. tx' \in [Ids -> Transactions]
    BY <1>8, <2>6 DEF Refund, TypeOK
  <2> QED
    BY <1>8, <2>2, <2>4, <2>7 DEF Refund, TypeOK
<1>9. ASSUME NEW c \in Clients, NEW reversal \in Ids, Reverse(c, reversal)
      PROVE  TypeOK'
  <2> DEFINE id == request[c].id
  <2>1. "reverse" \in Operations /\ Runs(c, "reverse")
    BY <1>9 DEF Reverse, Operations
  <2>2. /\ id \in Ids /\ tx[id] \in Transactions
        /\ tx[id].version < MaxVersion /\ request' \in [Clients -> Requests]
    BY <2>1, RunsFacts
  <2>3. posted[id] \in Effects
    BY <2>2 DEF TypeOK
  <2>4. Negated(posted[id]) \in Effects
    BY <2>3 DEF Negated, Effects
  <2>5. balance' \in [Accounts -> -Limit..Limit] /\ posted' \in [Ids -> Effects]
    BY <1>9, <2>4, PostKeepsTypes DEF Reverse, Postable
  <2>6. tx[id].amount \in 0..Limit /\ tx[id].fee \in 0..Limit
    BY <2>2 DEF Transactions
  <2>7. /\ Updated(tx[id], "reversed", tx[id].amount) \in Transactions
        /\ Record("reversal", tx[id].amount, tx[id].fee, id) \in Transactions
    BY <2>2, <2>6, RowsTyped DEF Kinds
  <2>8. tx' \in [Ids -> Transactions]
    BY <1>9, <2>7 DEF Reverse, TypeOK
  <2> QED
    BY <1>9, <2>2, <2>5, <2>8 DEF Reverse, TypeOK
<1>10. ASSUME NEW c \in Clients, SoftDelete(c)
       PROVE  TypeOK'
  <2> DEFINE id == request[c].id
  <2>1. "delete" \in Operations /\ Runs(c, "delete")
    BY <1>10 DEF SoftDelete, Operations
  <2>2. /\ id \in Ids /\ tx[id] \in Transactions
        /\ tx[id].version < MaxVersion /\ request' \in [Clients -> Requests]
    BY <2>1, RunsFacts
  <2>3. posted[id] \in Effects
    BY <2>2 DEF TypeOK
  <2>4. Negated(posted[id]) \in Effects
    BY <2>3 DEF Negated, Effects
  <2>5. balance' \in [Accounts -> -Limit..Limit] /\ posted' \in [Ids -> Effects]
    BY <1>10, <2>2, <2>4, PostKeepsTypes DEF SoftDelete, Postable
  <2>6. tx[id].amount \in 0..Limit
    BY <2>2 DEF Transactions
  <2>7. Updated(tx[id], "deleted", tx[id].amount) \in Transactions
    BY <1>a, <1>b, <2>2, <2>6, RowsTyped DEF Kinds
  <2>8. tx' \in [Ids -> Transactions]
    BY <1>10, <2>7 DEF SoftDelete, TypeOK
  <2>9. saved' \in [Ids -> Effects] /\ undoable' \in SUBSET Ids /\ UNCHANGED account
    BY <1>10, <2>2, <2>3 DEF SoftDelete, TypeOK
  <2> QED
    BY <2>2, <2>5, <2>8, <2>9 DEF TypeOK
<1>11. ASSUME NEW id \in Ids, UndoExpires(id)
       PROVE  TypeOK'
  BY <1>11 DEF UndoExpires, TypeOK
<1>12. ASSUME NEW c \in Clients, Restore(c)
       PROVE  TypeOK'
  <2> DEFINE id == request[c].id
  <2>1. "restore" \in Operations /\ Runs(c, "restore")
    BY <1>12 DEF Restore, Operations
  <2>2. /\ id \in Ids /\ tx[id] \in Transactions
        /\ tx[id].version < MaxVersion /\ request' \in [Clients -> Requests]
    BY <2>1, RunsFacts
  <2>3. saved[id] \in Effects
    BY <2>2 DEF TypeOK
  <2>4. balance' \in [Accounts -> -Limit..Limit] /\ posted' \in [Ids -> Effects]
    BY <1>12, <2>2, <2>3, PostKeepsTypes DEF Restore, Postable
  <2>5. tx[id].amount \in 0..Limit
    BY <2>2 DEF Transactions
  <2>6. Updated(tx[id], "confirmed", tx[id].amount) \in Transactions
    BY <1>a, <1>b, <2>2, <2>5, RowsTyped DEF Kinds
  <2>7. tx' \in [Ids -> Transactions]
    BY <1>12, <2>6 DEF Restore, TypeOK
  <2>8. saved' \in [Ids -> Effects] /\ undoable' \in SUBSET Ids /\ UNCHANGED account
    BY <1>12, <1>b, <2>2 DEF Restore, TypeOK
  <2> QED
    BY <2>2, <2>4, <2>7, <2>8 DEF TypeOK
<1>13. CASE UNCHANGED vars
  BY <1>13 DEF vars, TypeOK
<1> QED
  BY <1>1, <1>2, <1>3, <1>4, <1>5, <1>6, <1>7, <1>8, <1>9, <1>10, <1>11, <1>12, <1>13 DEF Next

\* The ledger keeps its types; in particular no balance and no amount leaves
\* the range of safe integers, whatever commands run in whatever order
\* (account_balances_confirmed_check, ledger_apply_posting).
THEOREM TypeCorrect == Spec => []TypeOK
<1>1. Init => TypeOK
  BY TypeInit
<1>2. TypeOK /\ [Next]_vars => TypeOK'
  BY TypeStep
<1> QED
  BY <1>1, <1>2, PTL DEF Spec

(***************************************************************************)
(* Dependents and their originals.                                         *)
(***************************************************************************)
\* The inductive invariant of DependentsKeepOriginal.  Beyond the property it
\* needs that no row that is free has a kind, that refunds and reversals are
\* never deleted (they could be restored without their original), and that a
\* reversal stays confirmed.
RefundsHaveOriginal ==
  \A d \in Ids : tx[d].kind = "refund" /\ Confirmed(d) =>
    /\ tx[d].reverses \in Ids
    /\ tx[tx[d].reverses].kind = "expense" /\ Confirmed(tx[d].reverses)
ReversedHasReversal ==
  \A id \in Ids : tx[id].status = "reversed" <=>
    \E d \in Ids : tx[d].kind = "reversal" /\ tx[d].reverses = id /\ Confirmed(d)
OneReversal ==
  \A d, e \in Ids :
    tx[d].kind = "reversal" /\ tx[e].kind = "reversal" /\ tx[d].reverses = tx[e].reverses => d = e
KindsStay ==
  \A d \in Ids :
    /\ tx[d].status = "none" => tx[d].kind = "none"
    /\ tx[d].kind = "none" => tx[d].status = "none"
    /\ tx[d].status = "deleted" => tx[d].kind \notin {"refund", "reversal"}
    /\ tx[d].kind = "reversal" => Confirmed(d) /\ tx[d].reverses \in Ids
Links == RefundsHaveOriginal /\ ReversedHasReversal /\ OneReversal /\ KindsStay

\* A step that changes no kind, status or reverses_transaction_id.
LEMMA SameLinks ==
  ASSUME Links, \A d \in Ids : /\ tx'[d].kind = tx[d].kind /\ tx'[d].status = tx[d].status
                               /\ tx'[d].reverses = tx[d].reverses
  PROVE  Links'
<1>1. RefundsHaveOriginal'
  BY DEF Links, RefundsHaveOriginal, Confirmed
<1>2. ReversedHasReversal'
  BY DEF Links, ReversedHasReversal, Confirmed
<1>3. OneReversal' /\ KindsStay'
  BY DEF Links, OneReversal, KindsStay, Confirmed
<1> QED
  BY <1>1, <1>2, <1>3 DEF Links

\* A step that inserts a transaction that refers to no other, or changes the
\* status of one that is neither refund nor reversal and has no confirmed
\* dependents between confirmed and deleted.
LEMMA LoneLinks ==
  ASSUME Links, NEW id \in Ids, NEW kind \in Kinds \ {"refund", "reversal"},
         tx[id].status \in {"none", "confirmed", "deleted"},
         \A d \in Ids : tx[d].kind = "refund" /\ Confirmed(d) => tx[d].reverses # id,
         tx'[id].kind = kind, tx'[id].status \in {"confirmed", "deleted"},
         tx[id].kind \notin {"refund", "reversal"},
         \A d \in Ids \ {id} : tx'[d] = tx[d]
  PROVE  Links'
<1>1. \A d \in Ids : tx[d].kind = "reversal" => tx[d].reverses # id
  BY DEF Links, ReversedHasReversal, KindsStay, Confirmed
<1>2. kind # "none" /\ kind # "refund" /\ kind # "reversal"
  BY DEF Kinds
<1>3. RefundsHaveOriginal'
  BY <1>2 DEF Links, RefundsHaveOriginal, Confirmed
<1>4. ReversedHasReversal'
  <2> SUFFICES ASSUME NEW o \in Ids
               PROVE  tx'[o].status = "reversed" <=>
                        \E d \in Ids : tx'[d].kind = "reversal" /\ tx'[d].reverses = o /\ tx'[d].status = "confirmed"
    BY DEF ReversedHasReversal, Confirmed
  <2>1. \A d \in Ids : tx'[d].kind = "reversal" <=> tx[d].kind = "reversal"
    BY <1>2
  <2>2. \A d \in Ids : tx[d].kind = "reversal" => d # id /\ tx'[d] = tx[d]
    OBVIOUS
  <2>3. CASE o = id
    BY <1>1, <2>1, <2>2, <2>3
  <2>4. CASE o # id
    BY <2>1, <2>2, <2>4 DEF Links, ReversedHasReversal, Confirmed
  <2> QED
    BY <2>3, <2>4
<1>5. OneReversal' /\ KindsStay'
  BY <1>2 DEF Links, OneReversal, KindsStay, Confirmed
<1> QED
  BY <1>3, <1>4, <1>5 DEF Links

\* A step that inserts a refund of a confirmed expense.
LEMMA RefundLinks ==
  ASSUME Links, NEW id \in Ids, NEW refund \in Ids, refund # id,
         tx[id].kind = "expense", tx[id].status = "confirmed",
         tx[refund].kind = "none", tx[refund].status = "none",
         tx'[refund].kind = "refund", tx'[refund].status = "confirmed", tx'[refund].reverses = id,
         \A d \in Ids \ {refund} : /\ tx'[d].kind = tx[d].kind /\ tx'[d].status = tx[d].status
                                   /\ tx'[d].reverses = tx[d].reverses
  PROVE  Links'
<1>1. RefundsHaveOriginal'
  <2> SUFFICES ASSUME NEW d \in Ids, tx'[d].kind = "refund", tx'[d].status = "confirmed"
               PROVE  /\ tx'[d].reverses \in Ids
                      /\ tx'[tx'[d].reverses].kind = "expense"
                      /\ tx'[tx'[d].reverses].status = "confirmed"
    BY DEF RefundsHaveOriginal, Confirmed
  <2>1. CASE d = refund
    BY <2>1
  <2>2. CASE d # refund
    <3>1. /\ tx'[d].reverses = tx[d].reverses /\ tx[d].reverses \in Ids
          /\ tx[tx[d].reverses].kind = "expense" /\ tx[tx[d].reverses].status = "confirmed"
      BY <2>2 DEF Links, RefundsHaveOriginal, Confirmed
    <3>2. tx[d].reverses # refund
      BY <3>1
    <3> QED
      BY <3>1, <3>2
  <2> QED
    BY <2>1, <2>2
<1>2. ReversedHasReversal'
  <2> SUFFICES ASSUME NEW o \in Ids
               PROVE  tx'[o].status = "reversed" <=>
                        \E d \in Ids : tx'[d].kind = "reversal" /\ tx'[d].reverses = o /\ tx'[d].status = "confirmed"
    BY DEF ReversedHasReversal, Confirmed
  <2>1. tx'[o].status = "reversed" <=> tx[o].status = "reversed"
    OBVIOUS
  <2>2. tx[o].status = "reversed" <=>
          \E d \in Ids : tx[d].kind = "reversal" /\ tx[d].reverses = o /\ tx[d].status = "confirmed"
    BY DEF Links, ReversedHasReversal, Confirmed
  <2>3. \A d \in Ids :
          tx'[d].kind = "reversal" /\ tx'[d].reverses = o /\ tx'[d].status = "confirmed" <=>
          tx[d].kind = "reversal" /\ tx[d].reverses = o /\ tx[d].status = "confirmed"
    OBVIOUS
  <2> QED
    BY <2>1, <2>2, <2>3
<1>3. OneReversal' /\ KindsStay'
  BY DEF Links, OneReversal, KindsStay, Confirmed
<1> QED
  BY <1>1, <1>2, <1>3 DEF Links

\* A step that reverses a confirmed transaction without confirmed dependents.
LEMMA ReverseLinks ==
  ASSUME Links, NEW id \in Ids, NEW reversal \in Ids, reversal # id,
         tx[id].status = "confirmed", tx[id].kind # "reversal",
         \A d \in Ids : tx[d].kind \in {"reversal", "refund"} /\ tx[d].status = "confirmed" => tx[d].reverses # id,
         tx[reversal].kind = "none", tx[reversal].status = "none",
         tx'[id].kind = tx[id].kind, tx'[id].status = "reversed", tx'[id].reverses = tx[id].reverses,
         tx'[reversal].kind = "reversal", tx'[reversal].status = "confirmed", tx'[reversal].reverses = id,
         \A d \in Ids \ {id, reversal} : tx'[d] = tx[d]
  PROVE  Links'
<1>1. \A d \in Ids : tx[d].kind = "reversal" =>
        /\ tx[d].status = "confirmed"
        /\ tx[d].reverses # id /\ tx[d].reverses # reversal
  BY DEF Links, KindsStay, ReversedHasReversal, Confirmed
<1>2. RefundsHaveOriginal'
  <2> SUFFICES ASSUME NEW d \in Ids, tx'[d].kind = "refund", tx'[d].status = "confirmed"
               PROVE  /\ tx'[d].reverses \in Ids
                      /\ tx'[tx'[d].reverses].kind = "expense"
                      /\ tx'[tx'[d].reverses].status = "confirmed"
    BY DEF RefundsHaveOriginal, Confirmed
  <2>1. tx'[d] = tx[d]
    OBVIOUS
  <2>2. /\ tx[d].reverses \in Ids
        /\ tx[tx[d].reverses].kind = "expense" /\ tx[tx[d].reverses].status = "confirmed"
    BY <2>1 DEF Links, RefundsHaveOriginal, Confirmed
  <2>3. tx[d].reverses # reversal /\ tx[d].reverses # id
    BY <2>1, <2>2
  <2> QED
    BY <2>1, <2>2, <2>3
<1>3. ReversedHasReversal'
  <2> SUFFICES ASSUME NEW o \in Ids
               PROVE  tx'[o].status = "reversed" <=>
                        \E d \in Ids : tx'[d].kind = "reversal" /\ tx'[d].reverses = o /\ tx'[d].status = "confirmed"
    BY DEF ReversedHasReversal, Confirmed
  <2>1. CASE o = id
    BY <2>1
  <2>2. CASE o = reversal
    <3>1. \A d \in Ids \ {reversal} : tx'[d].kind = "reversal" => tx'[d].reverses # reversal
      BY <1>1
    <3> QED
      BY <2>2, <3>1
  <2>3. CASE o # id /\ o # reversal
    <3>1. tx'[o] = tx[o]
      BY <2>3
    <3>2. tx[o].status = "reversed" <=>
            \E d \in Ids : tx[d].kind = "reversal" /\ tx[d].reverses = o /\ tx[d].status = "confirmed"
      BY DEF Links, ReversedHasReversal, Confirmed
    <3>3. \A d \in Ids :
            tx'[d].kind = "reversal" /\ tx'[d].reverses = o /\ tx'[d].status = "confirmed" <=>
            tx[d].kind = "reversal" /\ tx[d].reverses = o /\ tx[d].status = "confirmed"
      BY <2>3
    <3> QED
      BY <3>1, <3>2, <3>3
  <2> QED
    BY <2>1, <2>2, <2>3
<1>4. OneReversal'
  <2> SUFFICES ASSUME NEW d \in Ids, NEW e \in Ids, tx'[d].kind = "reversal", tx'[e].kind = "reversal",
                      tx'[d].reverses = tx'[e].reverses
               PROVE  d = e
    BY DEF OneReversal
  <2>1. \A r \in Ids \ {reversal} : tx'[r].kind = "reversal" =>
          tx[r].kind = "reversal" /\ tx'[r].reverses = tx[r].reverses /\ tx'[r].reverses # id
    BY <1>1
  <2> QED
    BY <2>1 DEF Links, OneReversal
<1>5. KindsStay'
  <2> SUFFICES ASSUME NEW d \in Ids
               PROVE  /\ tx'[d].status = "none" => tx'[d].kind = "none"
                      /\ tx'[d].kind = "none" => tx'[d].status = "none"
                      /\ tx'[d].status = "deleted" => tx'[d].kind \notin {"refund", "reversal"}
                      /\ tx'[d].kind = "reversal" => tx'[d].status = "confirmed" /\ tx'[d].reverses \in Ids
    BY DEF KindsStay, Confirmed
  <2>1. /\ tx[d].status = "none" => tx[d].kind = "none"
        /\ tx[d].kind = "none" => tx[d].status = "none"
        /\ tx[d].status = "deleted" => tx[d].kind \notin {"refund", "reversal"}
        /\ tx[d].kind = "reversal" => tx[d].status = "confirmed" /\ tx[d].reverses \in Ids
    BY DEF Links, KindsStay, Confirmed
  <2>2. CASE d = id
    BY <2>1, <2>2
  <2>3. CASE d = reversal
    BY <2>3
  <2>4. CASE d # id /\ d # reversal
    BY <2>1, <2>4
  <2> QED
    BY <2>2, <2>3, <2>4
<1> QED
  BY <1>2, <1>3, <1>4, <1>5 DEF Links

\* The initial state has no transactions.
LEMMA LinksInit == Init => Links
BY IdsAssumption DEF Init, Links, RefundsHaveOriginal, ReversedHasReversal, OneReversal,
   KindsStay, Absent, Confirmed

\* No step leaves a dependent without its original.
LEMMA LinksStep == TypeOK /\ Links /\ [Next]_vars => Links'
<1> SUFFICES ASSUME TypeOK, Links, [Next]_vars PROVE Links'
  OBVIOUS
<1>n. \A id \in Ids : Free(id) => /\ tx[id].kind = "none"
                                  /\ \A d \in Ids : tx[d].kind = "refund" /\ Confirmed(d) => tx[d].reverses # id
  BY DEF Links, KindsStay, RefundsHaveOriginal, Free, Confirmed
<1>1. ASSUME UNCHANGED tx
      PROVE  Links'
  BY <1>1, SameLinks
<1>2. ASSUME NEW id \in Ids, NEW kind \in Kinds \ {"refund", "reversal"}, NEW x, NEW y, Free(id),
             tx' = [tx EXCEPT ![id] = Record(kind, x, y, NoId)]
      PROVE  Links'
  <2>1. tx'[id].kind = kind /\ tx'[id].status = "confirmed" /\ \A d \in Ids \ {id} : tx'[d] = tx[d]
    BY <1>2 DEF Record, TypeOK
  <2>2. tx[id].status = "none" /\ tx[id].kind \notin {"refund", "reversal"}
    BY <1>2, <1>n DEF Free
  <2>3. \A d \in Ids : tx[d].kind = "refund" /\ Confirmed(d) => tx[d].reverses # id
    BY <1>2, <1>n
  <2> QED
    BY <2>1, <2>2, <2>3, LoneLinks
<1>3. ASSUME NEW c \in Clients, NEW a \in Accounts, Revise(c, a)
      PROVE  Links'
  <2> DEFINE id == request[c].id
  <2>1. "revise" \in Operations /\ Runs(c, "revise")
    BY <1>3 DEF Revise, Operations
  <2>2. id \in Ids /\ tx[id] \in Transactions
    BY <2>1, RunsFacts
  <2>3. tx[id].status = "confirmed" /\ tx' = [tx EXCEPT ![id] = Updated(tx[id], "confirmed", request[c].next)]
    BY <1>3 DEF Revise, Confirmed
  <2>4. /\ tx'[id].kind = tx[id].kind /\ tx'[id].status = tx[id].status
        /\ tx'[id].reverses = tx[id].reverses /\ \A d \in Ids \ {id} : tx'[d] = tx[d]
    BY <2>2, <2>3, UpdatedFields DEF TypeOK
  <2> QED
    BY <2>4, SameLinks
<1>4. ASSUME NEW c \in Clients, NEW refund \in Ids, NEW a \in Accounts, NEW x \in Amounts,
             Refund(c, refund, a, x)
      PROVE  Links'
  <2> DEFINE id == request[c].id
  <2>1. "refund" \in Operations /\ Runs(c, "refund")
    BY <1>4 DEF Refund, Operations
  <2>2. id \in Ids /\ tx[id] \in Transactions
    BY <2>1, RunsFacts
  <2>3. /\ tx[id].status = "confirmed" /\ tx[id].kind = "expense" /\ tx[refund].status = "none"
        /\ tx' = [tx EXCEPT ![id] = Updated(tx[id], "confirmed", tx[id].amount),
                            ![refund] = Record("refund", x, 0, id)]
    BY <1>4 DEF Refund, Confirmed, Free
  <2>4. /\ tx'[id].kind = "expense" /\ tx'[id].status = "confirmed" /\ tx'[id].reverses = tx[id].reverses
        /\ tx'[refund].kind = "refund" /\ tx'[refund].status = "confirmed" /\ tx'[refund].reverses = id
        /\ \A d \in Ids \ {id, refund} : tx'[d] = tx[d]
    BY <2>2, <2>3, UpdatedFields DEF Record, TypeOK
  <2>5. \A d \in Ids \ {refund} : /\ tx'[d].kind = tx[d].kind /\ tx'[d].status = tx[d].status
                                  /\ tx'[d].reverses = tx[d].reverses
    BY <2>3, <2>4
  <2>6. tx[refund].kind = "none" /\ refund # id
    BY <2>3, <1>n DEF Free
  <2>7. tx[id].kind = "expense" /\ tx[id].status = "confirmed" /\ tx[refund].status = "none"
    BY <2>3
  <2> QED
    BY <2>2, <2>4, <2>5, <2>6, <2>7, RefundLinks
<1>5. ASSUME NEW c \in Clients, NEW reversal \in Ids, Reverse(c, reversal)
      PROVE  Links'
  <2> DEFINE id == request[c].id
  <2>1. "reverse" \in Operations /\ Runs(c, "reverse")
    BY <1>5 DEF Reverse, Operations
  <2>2. id \in Ids /\ tx[id] \in Transactions
    BY <2>1, RunsFacts
  <2>3. /\ tx[id].status = "confirmed" /\ tx[id].kind # "reversal" /\ tx[reversal].status = "none"
        /\ Dependents(id, {"reversal", "refund"}) = {}
        /\ tx' = [tx EXCEPT ![id] = Updated(tx[id], "reversed", tx[id].amount),
                            ![reversal] = Record("reversal", tx[id].amount, tx[id].fee, id)]
    BY <1>5 DEF Reverse, Confirmed, Free
  <2>4. /\ tx'[id].kind = tx[id].kind /\ tx'[id].status = "reversed" /\ tx'[id].reverses = tx[id].reverses
        /\ tx'[reversal].kind = "reversal" /\ tx'[reversal].status = "confirmed" /\ tx'[reversal].reverses = id
        /\ \A d \in Ids \ {id, reversal} : tx'[d] = tx[d]
    BY <2>2, <2>3, UpdatedFields DEF Record, TypeOK
  <2>5. tx[reversal].kind = "none" /\ reversal # id
    BY <2>3, <1>n DEF Free
  <2>6. \A d \in Ids : tx[d].kind \in {"reversal", "refund"} /\ tx[d].status = "confirmed" => tx[d].reverses # id
    BY <2>3 DEF Dependents, Confirmed
  <2>7. tx[id].kind # "reversal" /\ tx[id].status = "confirmed" /\ tx[reversal].status = "none"
    BY <2>3
  <2> QED
    BY <2>2, <2>4, <2>5, <2>6, <2>7, ReverseLinks
<1>6. ASSUME NEW c \in Clients, SoftDelete(c)
      PROVE  Links'
  <2> DEFINE id == request[c].id
  <2>1. "delete" \in Operations /\ Runs(c, "delete")
    BY <1>6 DEF SoftDelete, Operations
  <2>2. id \in Ids /\ tx[id] \in Transactions
    BY <2>1, RunsFacts
  <2>3. /\ tx[id].status = "confirmed" /\ tx[id].kind \notin {"refund", "reversal"}
        /\ Dependents(id, Kinds) = {}
        /\ tx' = [tx EXCEPT ![id] = Updated(tx[id], "deleted", tx[id].amount)]
    BY <1>6 DEF SoftDelete, Confirmed
  <2>4. tx[id].kind \in Kinds \ {"refund", "reversal"}
    BY <2>2, <2>3 DEF Links, KindsStay, Transactions
  <2>5. tx'[id].kind = tx[id].kind /\ tx'[id].status = "deleted" /\ \A d \in Ids \ {id} : tx'[d] = tx[d]
    BY <2>2, <2>3, UpdatedFields DEF TypeOK
  <2>6. \A d \in Ids : tx[d].kind = "refund" /\ Confirmed(d) => tx[d].reverses # id
    BY <2>3 DEF Dependents, Kinds
  <2> QED
    BY <2>2, <2>3, <2>4, <2>5, <2>6, LoneLinks
<1>7. ASSUME NEW c \in Clients, Restore(c)
      PROVE  Links'
  <2> DEFINE id == request[c].id
  <2>1. "restore" \in Operations /\ Runs(c, "restore")
    BY <1>7 DEF Restore, Operations
  <2>2. id \in Ids /\ tx[id] \in Transactions
    BY <2>1, RunsFacts
  <2>3. /\ tx[id].status = "deleted"
        /\ tx' = [tx EXCEPT ![id] = Updated(tx[id], "confirmed", tx[id].amount)]
    BY <1>7 DEF Restore
  <2>4. tx[id].kind \in Kinds \ {"refund", "reversal"}
    BY <2>2, <2>3 DEF Links, KindsStay, Transactions
  <2>5. tx'[id].kind = tx[id].kind /\ tx'[id].status = "confirmed" /\ \A d \in Ids \ {id} : tx'[d] = tx[d]
    BY <2>2, <2>3, UpdatedFields DEF TypeOK
  <2>6. \A d \in Ids : tx[d].kind = "refund" /\ Confirmed(d) => tx[d].reverses # id
    BY <2>3 DEF Links, RefundsHaveOriginal, Confirmed
  <2> QED
    BY <2>2, <2>3, <2>4, <2>5, <2>6, LoneLinks
<1>8. ASSUME NEW a \in Accounts, NEW id \in Ids, NEW x \in Openings, CreateAccount(a, id, x)
      PROVE  Links'
  BY <1>8, <1>1, <1>2 DEF CreateAccount, books, Kinds
<1>9. ASSUME NEW id \in Ids, NEW kind \in {"income", "expense"}, NEW x \in Amounts,
             NEW a \in Accounts, PostTransaction(id, kind, x, a)
      PROVE  Links'
  BY <1>9, <1>2 DEF PostTransaction, Kinds
<1>10. ASSUME NEW id \in Ids, NEW s \in Accounts, NEW d \in Accounts, NEW f \in Accounts,
              NEW x \in Amounts, NEW y \in Fees, TransferFunds(id, s, d, f, x, y)
       PROVE  Links'
  BY <1>10, <1>2 DEF TransferFunds, Kinds
<1>11. ASSUME NEW a \in Accounts, ArchiveAccount(a) \/ RestoreAccount(a) \/ CloseAccount(a)
       PROVE  Links'
  BY <1>11, <1>1 DEF ArchiveAccount, RestoreAccount, CloseAccount, MoveAccount
<1>12. ASSUME NEW c \in Clients, NEW id \in Ids, NEW op \in Operations,
              NEW x \in Amounts \union {0}, Prepare(c, id, op, x)
       PROVE  Links'
  BY <1>12, <1>1 DEF Prepare
<1>13. ASSUME NEW c \in Clients, Abandon(c)
       PROVE  Links'
  BY <1>13, <1>1 DEF Abandon
<1>14. ASSUME NEW id \in Ids, UndoExpires(id)
       PROVE  Links'
  BY <1>14, <1>1 DEF UndoExpires
<1>15. CASE UNCHANGED vars
  BY <1>15, <1>1 DEF vars
<1> QED
  BY <1>3, <1>4, <1>5, <1>6, <1>7, <1>8, <1>9, <1>10, <1>11, <1>12, <1>13, <1>14, <1>15 DEF Next

\* Every confirmed refund has a confirmed expense, and a transaction is
\* reversed exactly when a confirmed reversal, the only one, refers to it
\* (TRANSACTION_HAS_DEPENDENTS, REVERSAL_EXISTS).
THEOREM DependentsCorrect == Spec => []DependentsKeepOriginal
<1>1. Init => TypeOK /\ Links
  BY TypeInit, LinksInit
<1>2. TypeOK /\ Links /\ [Next]_vars => TypeOK' /\ Links'
  BY TypeStep, LinksStep
<1>3. Links => DependentsKeepOriginal
  BY DEF Links, RefundsHaveOriginal, ReversedHasReversal, OneReversal, DependentsKeepOriginal, Dependents
<1> QED
  BY <1>1, <1>2, <1>3, PTL DEF Spec

(***************************************************************************)
(* Recent authentication.                                                  *)
(***************************************************************************)
\* What a request that runs does to the row it is about.
Changes(c, id) ==
  /\ request[c] # Idle /\ request[c].id = id /\ request[c].version = tx[id].version
  /\ request'[c] = Idle
  /\ tx'[id].status # "none" /\ tx'[id].version = tx[id].version + 1
  /\ tx'[id].kind = tx[id].kind /\ tx'[id].fee = tx[id].fee
  /\ \/ tx'[id].amount = tx[id].amount
     \/ /\ request[c].op = "revise" /\ tx[id].kind \in {"income", "expense"}
        /\ tx'[id].amount = request[c].next

\* A row stays, appears, or is changed by a request that has its version.
Moved(id) ==
  \/ tx'[id] = tx[id]
  \/ /\ Free(id) /\ tx'[id].status # "none"
     /\ tx'[id].kind \in {"income", "expense"} => tx'[id].fee = 0
  \/ \E c \in Clients : Changes(c, id)

\* The step of a request that updates one row.
LEMMA UpdateMoves ==
  ASSUME TypeOK, NEW id \in Ids, NEW c \in Clients, NEW op \in Operations, Runs(c, op),
         NEW status \in {"confirmed", "reversed", "deleted"}, NEW amount,
         \/ amount = tx[request[c].id].amount
         \/ op = "revise" /\ tx[request[c].id].kind \in {"income", "expense"} /\ amount = request[c].next,
         id = request[c].id => tx'[id] = Updated(tx[id], status, amount),
         id # request[c].id => tx'[id] = tx[id]
  PROVE  Moved(id)
<1>1. request[c].id \in Ids /\ tx[request[c].id] \in Transactions
  BY RunsFacts
<1>2. /\ request[c].op = op /\ request[c] # Idle
      /\ request[c].version = tx[request[c].id].version /\ request'[c] = Idle
  BY DEF Runs, Idle, TypeOK, Operations
<1>3. CASE id = request[c].id
  <2>1. /\ tx'[id].kind = tx[id].kind /\ tx'[id].fee = tx[id].fee /\ tx'[id].status = status
        /\ tx'[id].amount = amount /\ tx'[id].version = tx[id].version + 1
    BY <1>1, <1>3, UpdatedFields
  <2>2. Changes(c, id)
    BY <1>2, <1>3, <2>1 DEF Changes
  <2> QED
    BY <2>2 DEF Moved
<1>4. CASE id # request[c].id
  BY <1>4 DEF Moved
<1> QED
  BY <1>3, <1>4

\* Every step moves every row in one of these ways.
LEMMA RowsMove ==
  ASSUME TypeOK, [Next]_vars, NEW id \in Ids
  PROVE  Moved(id)
<1>1. ASSUME UNCHANGED tx
      PROVE  Moved(id)
  BY <1>1 DEF Moved
<1>2. ASSUME NEW new \in Ids, NEW kind, NEW x, NEW y, Free(new), kind \in {"income", "expense"} => y = 0,
             tx' = [tx EXCEPT ![new] = Record(kind, x, y, NoId)]
      PROVE  Moved(id)
  <2>1. CASE id = new
    BY <1>2, <2>1 DEF Moved, Record, TypeOK
  <2>2. CASE id # new
    BY <1>2, <2>2 DEF Moved, TypeOK
  <2> QED
    BY <2>1, <2>2
<1>3. ASSUME NEW c \in Clients, NEW a \in Accounts, Revise(c, a)
      PROVE  Moved(id)
  <2>1. "revise" \in Operations /\ Runs(c, "revise") /\ tx[request[c].id].kind \in {"income", "expense"}
    BY <1>3 DEF Revise, Operations
  <2>2. tx' = [tx EXCEPT ![request[c].id] = Updated(tx[request[c].id], "confirmed", request[c].next)]
    BY <1>3 DEF Revise
  <2>3. /\ id = request[c].id => tx'[id] = Updated(tx[id], "confirmed", request[c].next)
        /\ id # request[c].id => tx'[id] = tx[id]
    BY <2>2 DEF TypeOK
  <2> QED
    BY <2>1, <2>3, UpdateMoves
<1>4. ASSUME NEW c \in Clients, NEW refund \in Ids, NEW a \in Accounts, NEW x \in Amounts,
             Refund(c, refund, a, x)
      PROVE  Moved(id)
  <2>1. "refund" \in Operations /\ Runs(c, "refund") /\ Free(refund) /\ Confirmed(request[c].id)
    BY <1>4 DEF Refund, Operations
  <2>2. tx' = [tx EXCEPT ![request[c].id] = Updated(tx[request[c].id], "confirmed", tx[request[c].id].amount),
                         ![refund] = Record("refund", x, 0, request[c].id)]
    BY <1>4 DEF Refund
  <2>3. refund # request[c].id
    BY <2>1 DEF Free, Confirmed
  <2>4. CASE id = refund
    <3>1. tx'[id] = Record("refund", x, 0, request[c].id)
      BY <2>2, <2>4 DEF TypeOK
    <3> QED
      BY <2>1, <2>4, <3>1 DEF Moved, Record
  <2>5. CASE id # refund
    <3>1. /\ id = request[c].id => tx'[id] = Updated(tx[id], "confirmed", tx[request[c].id].amount)
          /\ id # request[c].id => tx'[id] = tx[id]
      BY <2>2, <2>3, <2>5 DEF TypeOK
    <3> QED
      BY <2>1, <3>1, UpdateMoves
  <2> QED
    BY <2>4, <2>5
<1>5. ASSUME NEW c \in Clients, NEW reversal \in Ids, Reverse(c, reversal)
      PROVE  Moved(id)
  <2>1. "reverse" \in Operations /\ Runs(c, "reverse") /\ Free(reversal) /\ Confirmed(request[c].id)
    BY <1>5 DEF Reverse, Operations
  <2>2. tx' = [tx EXCEPT ![request[c].id] = Updated(tx[request[c].id], "reversed", tx[request[c].id].amount),
                         ![reversal] = Record("reversal", tx[request[c].id].amount, tx[request[c].id].fee, request[c].id)]
    BY <1>5 DEF Reverse
  <2>3. reversal # request[c].id
    BY <2>1 DEF Free, Confirmed
  <2>4. CASE id = reversal
    <3>1. tx'[id] = Record("reversal", tx[request[c].id].amount, tx[request[c].id].fee, request[c].id)
      BY <2>2, <2>4 DEF TypeOK
    <3> QED
      BY <2>1, <2>4, <3>1 DEF Moved, Record
  <2>5. CASE id # reversal
    <3>1. /\ id = request[c].id => tx'[id] = Updated(tx[id], "reversed", tx[request[c].id].amount)
          /\ id # request[c].id => tx'[id] = tx[id]
      BY <2>2, <2>3, <2>5 DEF TypeOK
    <3> QED
      BY <2>1, <3>1, UpdateMoves
  <2> QED
    BY <2>4, <2>5
<1>6. ASSUME NEW c \in Clients, SoftDelete(c)
      PROVE  Moved(id)
  <2>1. "delete" \in Operations /\ Runs(c, "delete")
    BY <1>6 DEF SoftDelete, Operations
  <2>2. tx' = [tx EXCEPT ![request[c].id] = Updated(tx[request[c].id], "deleted", tx[request[c].id].amount)]
    BY <1>6 DEF SoftDelete
  <2>3. /\ id = request[c].id => tx'[id] = Updated(tx[id], "deleted", tx[request[c].id].amount)
        /\ id # request[c].id => tx'[id] = tx[id]
    BY <2>2 DEF TypeOK
  <2> QED
    BY <2>1, <2>3, UpdateMoves
<1>7. ASSUME NEW c \in Clients, Restore(c)
      PROVE  Moved(id)
  <2>1. "restore" \in Operations /\ Runs(c, "restore")
    BY <1>7 DEF Restore, Operations
  <2>2. tx' = [tx EXCEPT ![request[c].id] = Updated(tx[request[c].id], "confirmed", tx[request[c].id].amount)]
    BY <1>7 DEF Restore
  <2>3. /\ id = request[c].id => tx'[id] = Updated(tx[id], "confirmed", tx[request[c].id].amount)
        /\ id # request[c].id => tx'[id] = tx[id]
    BY <2>2 DEF TypeOK
  <2> QED
    BY <2>1, <2>3, UpdateMoves
<1>8. ASSUME NEW a \in Accounts, NEW new \in Ids, NEW x \in Openings, CreateAccount(a, new, x)
      PROVE  Moved(id)
  BY <1>8, <1>1, <1>2 DEF CreateAccount, books
<1>9. ASSUME NEW new \in Ids, NEW kind \in {"income", "expense"}, NEW x \in Amounts,
             NEW a \in Accounts, PostTransaction(new, kind, x, a)
      PROVE  Moved(id)
  BY <1>9, <1>2 DEF PostTransaction
<1>10. ASSUME NEW new \in Ids, NEW s \in Accounts, NEW d \in Accounts, NEW f \in Accounts,
              NEW x \in Amounts, NEW y \in Fees, TransferFunds(new, s, d, f, x, y)
       PROVE  Moved(id)
  BY <1>10, <1>2 DEF TransferFunds
<1>11. ASSUME NEW a \in Accounts, ArchiveAccount(a) \/ RestoreAccount(a) \/ CloseAccount(a)
       PROVE  Moved(id)
  BY <1>11, <1>1 DEF ArchiveAccount, RestoreAccount, CloseAccount, MoveAccount
<1>12. ASSUME NEW c \in Clients, NEW r \in Ids, NEW op \in Operations,
              NEW x \in Amounts \union {0}, Prepare(c, r, op, x)
       PROVE  Moved(id)
  BY <1>12, <1>1 DEF Prepare
<1>13. ASSUME NEW c \in Clients, Abandon(c)
       PROVE  Moved(id)
  BY <1>13, <1>1 DEF Abandon
<1>14. ASSUME NEW r \in Ids, UndoExpires(r)
       PROVE  Moved(id)
  BY <1>14, <1>1 DEF UndoExpires
<1>15. CASE UNCHANGED vars
  BY <1>15, <1>1 DEF vars
<1> QED
  BY <1>3, <1>4, <1>5, <1>6, <1>7, <1>8, <1>9, <1>10, <1>11, <1>12, <1>13, <1>14, <1>15 DEF Next

\* The inductive invariant of LargeChangesAreRecent: a request was allowed
\* for the amount it has seen and the one it asks for, and as long as the row
\* has the version it has seen, the row has that amount.
RequestAllowed(c) ==
  request[c] # Idle =>
    /\ tx[request[c].id].status # "none"
    /\ request[c].version <= tx[request[c].id].version
    /\ tx[request[c].id].version = request[c].version =>
         request[c].seen = tx[request[c].id].amount + tx[request[c].id].fee
    /\ Allowed(c, request[c].seen)
    /\ request[c].op = "revise" => Allowed(c, request[c].next)
RequestsAllowed == \A c \in Clients : RequestAllowed(c)

\* Only transfers, and their reversals, have a fee (post_transaction).
PlainHasNoFee == \A id \in Ids : tx[id].kind \in {"income", "expense"} => tx[id].fee = 0

\* A row that exists goes on existing; its version grows whenever it changes.
LEMMA RowsGrow ==
  ASSUME TypeOK, [Next]_vars, NEW id \in Ids, tx[id].status # "none"
  PROVE  /\ tx'[id].status # "none"
         /\ tx'[id] = tx[id] \/ tx'[id].version = tx[id].version + 1
<1>1. Moved(id)
  BY RowsMove
<1> QED
  BY <1>1 DEF Moved, Changes, Free

\* A request stays as it is, ends, or is a new one about a row it has read.
LEMMA RequestsMove ==
  ASSUME TypeOK, [Next]_vars, NEW c \in Clients
  PROVE  \/ request'[c] = request[c] \/ request'[c] = Idle
         \/ \E id \in Ids, op \in Operations, x \in Amounts \union {0} :
              Prepare(c, id, op, x) /\ request'[c] =
                [op |-> op, id |-> id, version |-> tx[id].version,
                 seen |-> tx[id].amount + tx[id].fee, next |-> x]
<1>1. ASSUME UNCHANGED request
      PROVE  request'[c] = request[c]
  BY <1>1
<1>2. ASSUME NEW d \in Clients, request' = [request EXCEPT ![d] = Idle]
      PROVE  request'[c] = request[c] \/ request'[c] = Idle
  BY <1>2 DEF TypeOK
<1>3. ASSUME NEW d \in Clients, NEW id \in Ids, NEW op \in Operations,
             NEW x \in Amounts \union {0}, Prepare(d, id, op, x)
      PROVE  \/ request'[c] = request[c]
             \/ Prepare(c, id, op, x) /\ request'[c] =
                  [op |-> op, id |-> id, version |-> tx[id].version,
                   seen |-> tx[id].amount + tx[id].fee, next |-> x]
  <2>1. request' = [request EXCEPT ![d] =
          [op |-> op, id |-> id, version |-> tx[id].version,
           seen |-> tx[id].amount + tx[id].fee, next |-> x]]
    BY <1>3 DEF Prepare
  <2> QED
    BY <1>3, <2>1 DEF TypeOK
<1>4. ASSUME NEW d \in Clients, \/ Abandon(d) \/ SoftDelete(d) \/ Restore(d)
                                \/ \E a \in Accounts : Revise(d, a)
                                \/ \E id \in Ids, a \in Accounts, x \in Amounts : Refund(d, id, a, x)
                                \/ \E id \in Ids : Reverse(d, id)
      PROVE  request' = [request EXCEPT ![d] = Idle]
  BY <1>4 DEF Abandon, SoftDelete, Restore, Revise, Refund, Reverse, Runs
<1>5. ASSUME \/ \E a \in Accounts, id \in Ids, x \in Openings : CreateAccount(a, id, x)
             \/ \E a \in Accounts : ArchiveAccount(a) \/ RestoreAccount(a) \/ CloseAccount(a)
             \/ \E id \in Ids, kind \in {"income", "expense"}, x \in Amounts, a \in Accounts :
                  PostTransaction(id, kind, x, a)
             \/ \E id \in Ids, s, d, f \in Accounts, x \in Amounts, y \in Fees :
                  TransferFunds(id, s, d, f, x, y)
             \/ \E id \in Ids : UndoExpires(id)
             \/ UNCHANGED vars
      PROVE  UNCHANGED request
  BY <1>5 DEF CreateAccount, ArchiveAccount, RestoreAccount, CloseAccount, MoveAccount,
     PostTransaction, TransferFunds, UndoExpires, vars
<1> QED
  BY <1>1, <1>2, <1>3, <1>4, <1>5 DEF Next

\* A request keeps its approval, and what it has seen stays true of the
\* version it has seen.
LEMMA RequestsStep == TypeOK /\ RequestsAllowed /\ [Next]_vars => RequestsAllowed'
<1> SUFFICES ASSUME TypeOK, RequestsAllowed, [Next]_vars, NEW c \in Clients
             PROVE  RequestAllowed(c)'
  BY DEF RequestsAllowed
<1>1. CASE request'[c] = Idle
  BY <1>1 DEF RequestAllowed
<1>2. CASE request'[c] = request[c] /\ request[c] # Idle
  <2> DEFINE r == request[c].id
  <2>1. /\ r \in Ids /\ request[c].version \in 0..MaxVersion
        /\ tx[r].version \in 0..MaxVersion
    BY <1>2 DEF TypeOK, Requests, Transactions
  <2>2. /\ tx[r].status # "none" /\ request[c].version <= tx[r].version
        /\ tx[r].version = request[c].version => request[c].seen = tx[r].amount + tx[r].fee
        /\ Allowed(c, request[c].seen)
        /\ request[c].op = "revise" => Allowed(c, request[c].next)
    BY <1>2 DEF RequestsAllowed, RequestAllowed
  <2>3. /\ tx'[r].status # "none"
        /\ tx'[r] = tx[r] \/ tx'[r].version = tx[r].version + 1
    BY <2>1, <2>2, RowsGrow
  <2>4. request[c].version <= tx'[r].version
    BY <2>1, <2>2, <2>3, BoundAssumption
  <2>5. tx'[r].version = request[c].version => request[c].seen = tx'[r].amount + tx'[r].fee
    BY <2>1, <2>2, <2>3, BoundAssumption
  <2> QED
    BY <1>2, <2>2, <2>3, <2>4, <2>5 DEF RequestAllowed, Allowed
<1>3. ASSUME NEW id \in Ids, NEW op \in Operations, NEW x \in Amounts \union {0},
             Prepare(c, id, op, x), request'[c] =
               [op |-> op, id |-> id, version |-> tx[id].version,
                seen |-> tx[id].amount + tx[id].fee, next |-> x]
      PROVE  RequestAllowed(c)'
  <2>1. /\ tx[id].status # "none" /\ UNCHANGED tx
        /\ Allowed(c, tx[id].amount + tx[id].fee)
        /\ op = "revise" => Allowed(c, x)
    BY <1>3 DEF Prepare, Free
  <2>2. /\ request'[c].op = op /\ request'[c].id = id /\ request'[c].version = tx[id].version
        /\ request'[c].seen = tx[id].amount + tx[id].fee /\ request'[c].next = x
    BY <1>3
  <2>3. tx[id].version \in 0..MaxVersion
    BY DEF TypeOK, Transactions
  <2> QED
    BY <2>1, <2>2, <2>3, BoundAssumption DEF RequestAllowed, Allowed
<1> QED
  BY <1>1, <1>2, <1>3, RequestsMove

\* No row gets a fee that it does not have from the start.
LEMMA FeeStep == TypeOK /\ PlainHasNoFee /\ [Next]_vars => PlainHasNoFee'
<1> SUFFICES ASSUME TypeOK, PlainHasNoFee, [Next]_vars, NEW id \in Ids,
                    tx'[id].kind \in {"income", "expense"}
             PROVE  tx'[id].fee = 0
  BY DEF PlainHasNoFee
<1>1. Moved(id)
  BY RowsMove
<1> QED
  BY <1>1 DEF Moved, Changes, PlainHasNoFee

\* What the invariant says of one step.
LEMMA LargeChangeStep ==
  TypeOK /\ RequestsAllowed /\ PlainHasNoFee /\ [Next]_vars =>
    [\A id \in Ids : LargeChange(id) => \E c \in Recent : request[c].id = id /\ request'[c] = Idle]_vars
<1> SUFFICES ASSUME TypeOK, RequestsAllowed, PlainHasNoFee, [Next]_vars, NEW id \in Ids, LargeChange(id)
             PROVE  \E c \in Recent : request[c].id = id /\ request'[c] = Idle
  OBVIOUS
<1>1. /\ tx[id].status # "none" /\ tx'[id] # tx[id]
      /\ \/ tx[id].amount + tx[id].fee >= Threshold
         \/ tx'[id].amount + tx'[id].fee >= Threshold
  BY DEF LargeChange, Free
<1>2. PICK c \in Clients : Changes(c, id)
  BY <1>1, RowsMove DEF Moved, Free
<1>3. /\ request[c] # Idle /\ request[c].id = id /\ request'[c] = Idle
      /\ request[c].version = tx[id].version /\ tx'[id].fee = tx[id].fee
      /\ \/ tx'[id].amount = tx[id].amount
         \/ /\ request[c].op = "revise" /\ tx[id].kind \in {"income", "expense"}
            /\ tx'[id].amount = request[c].next
  BY <1>2 DEF Changes
<1>4. /\ request[c].seen = tx[id].amount + tx[id].fee /\ Allowed(c, request[c].seen)
      /\ request[c].op = "revise" => Allowed(c, request[c].next)
  BY <1>3 DEF RequestsAllowed, RequestAllowed
<1>5. tx[id].kind \in {"income", "expense"} => tx[id].fee = 0
  BY DEF PlainHasNoFee
<1>6. tx[id].amount \in Int /\ tx[id].fee \in Int /\ request[c].next \in Int /\ Threshold \in Int
  BY <1>3, LimitAssumption, ClientsAssumption DEF TypeOK, Transactions, Requests
<1>7. c \in Recent
  BY <1>1, <1>3, <1>4, <1>5, <1>6 DEF Allowed
<1> QED
  BY <1>3, <1>7

\* A transaction of a large amount is changed only by a request that has
\* recent authentication, although the decision and the command are two steps
\* with other commands between them (LedgerService.assertRecentAuth and the
\* version check of each command).
THEOREM LargeChangesCorrect == Spec => LargeChangesAreRecent
<1>1. Init => TypeOK /\ RequestsAllowed /\ PlainHasNoFee
  <2>1. Init => RequestsAllowed /\ PlainHasNoFee
    BY DEF Init, RequestsAllowed, RequestAllowed, PlainHasNoFee, Absent
  <2> QED
    BY <2>1, TypeInit
<1>2. TypeOK /\ RequestsAllowed /\ PlainHasNoFee /\ [Next]_vars =>
        TypeOK' /\ RequestsAllowed' /\ PlainHasNoFee'
  BY TypeStep, RequestsStep, FeeStep
<1>3. TypeOK /\ RequestsAllowed /\ PlainHasNoFee /\ [Next]_vars =>
        [\A id \in Ids : LargeChange(id) => \E c \in Recent : request[c].id = id /\ request'[c] = Idle]_vars
  BY LargeChangeStep
<1> QED
  BY <1>1, <1>2, <1>3, PTL DEF Spec, LargeChangesAreRecent

(***************************************************************************)
(* Postings and the rows that explain them.                                *)
(***************************************************************************)
\* PostingsFollowHeader of one transaction.
Follows(id) ==
  /\ tx[id].status = "none" => posted[id] = Nothing
  /\ tx[id].status \in {"confirmed", "reversed"} =>
       Explains(tx[id], posted[id], posted[tx[id].reverses])
  /\ tx[id].status = "deleted" =>
       posted[id] = Nothing /\ Explains(tx[id], saved[id], posted[tx[id].reverses])

\* Adding the difference gives the new effect, adding the opposite none.
LEMMA EffectAlgebra ==
  ASSUME NEW e \in Effects, NEW f \in Effects
  PROVE  /\ Plus(e, Minus(f, e)) = f
         /\ Plus(e, Negated(e)) = Nothing
         /\ Plus(Nothing, e) = e
BY DEF Plus, Minus, Negated, Nothing, Effects

\* What a row explains depends on its kind and amounts, for a reversal also
\* on the effect of its original.
LEMMA ExplainsSame ==
  ASSUME NEW row, NEW other, NEW e, NEW o, NEW p, Explains(row, e, o),
         other.kind = row.kind, other.amount = row.amount, other.fee = row.fee,
         row.kind = "reversal" => p = o
  PROVE  Explains(other, e, p)
BY DEF Explains

\* A transaction whose postings do not change goes on being explained: the
\* original of a reversal is reversed, and nothing is posted to it.
LEMMA OthersFollow ==
  ASSUME TypeOK, Links, NEW id \in Ids, Follows(id), NEW target, id # target,
         target \in Ids => tx[target].status # "reversed",
         \A d \in Ids \ {target} : posted'[d] = posted[d],
         saved'[id] = saved[id],
         tx'[id].kind = tx[id].kind, tx'[id].amount = tx[id].amount,
         tx'[id].fee = tx[id].fee, tx'[id].reverses = tx[id].reverses,
         \/ tx'[id].status = tx[id].status
         \/ tx'[id].status = "reversed" /\ tx[id].status = "confirmed"
  PROVE  Follows(id)'
<1>1. posted'[id] = posted[id]
  OBVIOUS
<1>2. tx[id].kind = "reversal" => tx[id].reverses \in Ids /\ tx[id].reverses # target
  BY DEF Links, KindsStay, ReversedHasReversal, Confirmed
<1>3. tx[id].kind = "reversal" => posted'[tx[id].reverses] = posted[tx[id].reverses]
  BY <1>2
<1>4. \A e : Explains(tx[id], e, posted[tx[id].reverses]) => Explains(tx'[id], e, posted'[tx'[id].reverses])
  BY <1>3, ExplainsSame
<1> QED
  BY <1>1, <1>4 DEF Follows

\* A new transaction is explained by the effect it is posted with.
LEMMA NewFollows ==
  ASSUME TypeOK, NEW id \in Ids, Follows(id), Free(id), NEW e \in Effects,
         posted' = [posted EXCEPT ![id] = Plus(posted[id], e)],
         tx'[id].status = "confirmed", Explains(tx'[id], e, posted'[tx'[id].reverses])
  PROVE  Follows(id)'
<1>1. posted'[id] = e
  BY EffectAlgebra DEF Follows, Free, TypeOK
<1> QED
  BY <1>1 DEF Follows

\* Every step leaves every transaction explained.
LEMMA FollowsStep ==
  ASSUME TypeOK, Links, \A id \in Ids : Follows(id), [Next]_vars, NEW id \in Ids
  PROVE  Follows(id)'
<1>1. ASSUME UNCHANGED <<tx, posted, saved>>
      PROVE  Follows(id)'
  BY <1>1 DEF Follows
<1>2. ASSUME NEW new \in Ids, NEW kind, NEW x, NEW y, Free(new), NEW e \in Effects, Post(new, e),
             tx' = [tx EXCEPT ![new] = Record(kind, x, y, NoId)], UNCHANGED saved,
             \A o : Explains(Record(kind, x, y, NoId), e, o)
      PROVE  Follows(id)'
  <2>1. posted' = [posted EXCEPT ![new] = Plus(posted[new], e)] /\ tx'[new] = Record(kind, x, y, NoId)
    BY <1>2 DEF Post, TypeOK
  <2>2. CASE id = new
    <3>1. posted' = [posted EXCEPT ![id] = Plus(posted[id], e)] /\ Free(id) /\ Follows(id)
      BY <1>2, <2>1, <2>2
    <3>2. tx'[id].status = "confirmed"
      BY <2>1, <2>2 DEF Record
    <3>3. Explains(tx'[id], e, posted'[tx'[id].reverses])
      <4>1. Explains(Record(kind, x, y, NoId), e, posted'[tx'[id].reverses])
        BY <1>2
      <4> QED
        BY <2>1, <2>2, <4>1
    <3> QED
      BY <1>2, <3>1, <3>2, <3>3, NewFollows
  <2>3. CASE id # new
    <3>1. tx'[id] = tx[id] /\ saved'[id] = saved[id] /\ \A d \in Ids \ {new} : posted'[d] = posted[d]
      BY <1>2, <2>1, <2>3 DEF TypeOK
    <3> QED
      BY <1>2, <2>3, <3>1, OthersFollow DEF Free
  <2> QED
    BY <2>2, <2>3
<1>3. ASSUME NEW c \in Clients, NEW a \in Accounts, Revise(c, a)
      PROVE  Follows(id)'
  <2> DEFINE r == request[c].id
             new == On(a, Signed(tx[r].kind, request[c].next))
  <2>1. "revise" \in Operations /\ Runs(c, "revise")
    BY <1>3 DEF Revise, Operations
  <2>2. r \in Ids /\ tx[r] \in Transactions /\ request[c].next \in 0..Limit
    BY <2>1, RunsFacts
  <2>3. /\ tx[r].status = "confirmed" /\ tx[r].kind \in {"income", "expense"}
        /\ tx' = [tx EXCEPT ![r] = Updated(tx[r], "confirmed", request[c].next)]
        /\ posted' = [posted EXCEPT ![r] = Plus(posted[r], Minus(new, posted[r]))]
        /\ UNCHANGED saved
    BY <1>3 DEF Revise, Confirmed, Post
  <2>4. new \in Effects /\ posted[r] \in Effects
    BY <2>2, LimitAssumption DEF On, Signed, Effects, TypeOK
  <2>5. CASE id = r
    <3>1. posted'[r] = new
      BY <2>2, <2>3, <2>4, EffectAlgebra DEF TypeOK
    <3>2. /\ tx'[r].kind = tx[r].kind /\ tx'[r].status = "confirmed"
          /\ tx'[r].amount = request[c].next
      BY <2>2, <2>3, UpdatedFields DEF TypeOK
    <3>3. Explains(tx'[r], posted'[r], posted'[tx'[r].reverses])
      BY <2>3, <3>1, <3>2 DEF Explains
    <3> QED
      BY <2>5, <3>2, <3>3 DEF Follows
  <2>6. CASE id # r
    <3>1. tx'[id] = tx[id] /\ saved'[id] = saved[id] /\ \A d \in Ids \ {r} : posted'[d] = posted[d]
      BY <2>3, <2>6 DEF TypeOK
    <3>2. r \in Ids => tx[r].status # "reversed"
      BY <2>3
    <3> QED
      BY <2>6, <3>1, <3>2, OthersFollow
  <2> QED
    BY <2>5, <2>6
<1>4. ASSUME NEW c \in Clients, NEW refund \in Ids, NEW a \in Accounts, NEW x \in Amounts,
             Refund(c, refund, a, x)
      PROVE  Follows(id)'
  <2> DEFINE r == request[c].id
  <2>1. "refund" \in Operations /\ Runs(c, "refund")
    BY <1>4 DEF Refund, Operations
  <2>2. r \in Ids /\ tx[r] \in Transactions
    BY <2>1, RunsFacts
  <2>3. /\ tx[r].status = "confirmed" /\ Free(refund)
        /\ tx' = [tx EXCEPT ![r] = Updated(tx[r], "confirmed", tx[r].amount),
                            ![refund] = Record("refund", x, 0, r)]
        /\ posted' = [posted EXCEPT ![refund] = Plus(posted[refund], On(a, x))]
        /\ UNCHANGED saved
    BY <1>4 DEF Refund, Confirmed, Post
  <2>4. On(a, x) \in Effects
    BY LimitAssumption DEF On, Effects
  <2>5. refund # r /\ tx[refund].status = "none"
    BY <2>3 DEF Free
  <2>6. CASE id = refund
    <3>1. tx'[refund] = Record("refund", x, 0, r)
      BY <2>3 DEF TypeOK
    <3>2. tx'[refund].status = "confirmed" /\ tx'[refund].kind = "refund" /\ tx'[refund].amount = x
      BY <3>1 DEF Record
    <3>3. Explains(tx'[refund], On(a, x), posted'[tx'[refund].reverses])
      BY <3>2 DEF Explains, Signed
    <3> QED
      BY <2>3, <2>4, <2>6, <3>2, <3>3, NewFollows
  <2>7. CASE id # refund
    <3>1. saved'[id] = saved[id] /\ \A d \in Ids \ {refund} : posted'[d] = posted[d]
      BY <2>3 DEF TypeOK
    <3>2. id = r => tx'[id] = Updated(tx[r], "confirmed", tx[r].amount)
      BY <2>3, <2>5 DEF TypeOK
    <3>3. id # r => tx'[id] = tx[id]
      BY <2>3, <2>7 DEF TypeOK
    <3>4. /\ tx'[id].kind = tx[id].kind /\ tx'[id].amount = tx[id].amount
          /\ tx'[id].fee = tx[id].fee /\ tx'[id].reverses = tx[id].reverses
          /\ tx'[id].status = tx[id].status
      BY <2>2, <2>3, <3>2, <3>3, UpdatedFields
    <3> QED
      BY <2>5, <2>7, <3>1, <3>4, OthersFollow
  <2> QED
    BY <2>6, <2>7
<1>5. ASSUME NEW c \in Clients, NEW reversal \in Ids, Reverse(c, reversal)
      PROVE  Follows(id)'
  <2> DEFINE r == request[c].id
  <2>1. "reverse" \in Operations /\ Runs(c, "reverse")
    BY <1>5 DEF Reverse, Operations
  <2>2. r \in Ids /\ tx[r] \in Transactions
    BY <2>1, RunsFacts
  <2>3. /\ tx[r].status = "confirmed" /\ Free(reversal)
        /\ tx' = [tx EXCEPT ![r] = Updated(tx[r], "reversed", tx[r].amount),
                            ![reversal] = Record("reversal", tx[r].amount, tx[r].fee, r)]
        /\ posted' = [posted EXCEPT ![reversal] = Plus(posted[reversal], Negated(posted[r]))]
        /\ UNCHANGED saved
    BY <1>5 DEF Reverse, Confirmed, Post
  <2>4. posted[r] \in Effects
    BY <2>2 DEF TypeOK
  <2>5. Negated(posted[r]) \in Effects
    BY <2>4 DEF Negated, Effects
  <2>6. reversal # r /\ tx[reversal].status = "none"
    BY <2>3 DEF Free
  <2>7. CASE id = reversal
    <3>1. tx'[reversal] = Record("reversal", tx[r].amount, tx[r].fee, r) /\ posted'[r] = posted[r]
      BY <2>2, <2>3, <2>6 DEF TypeOK
    <3>2. tx'[reversal].status = "confirmed" /\ tx'[reversal].kind = "reversal" /\ tx'[reversal].reverses = r
      BY <3>1 DEF Record
    <3>3. Explains(tx'[reversal], Negated(posted[r]), posted'[tx'[reversal].reverses])
      BY <3>1, <3>2 DEF Explains
    <3> QED
      BY <2>3, <2>5, <2>7, <3>2, <3>3, NewFollows
  <2>8. CASE id # reversal
    <3>1. saved'[id] = saved[id] /\ \A d \in Ids \ {reversal} : posted'[d] = posted[d]
      BY <2>3 DEF TypeOK
    <3>2. id = r => tx'[id] = Updated(tx[r], "reversed", tx[r].amount)
      BY <2>3, <2>6 DEF TypeOK
    <3>3. id # r => tx'[id] = tx[id]
      BY <2>3, <2>8 DEF TypeOK
    <3>4. /\ tx'[id].kind = tx[id].kind /\ tx'[id].amount = tx[id].amount
          /\ tx'[id].fee = tx[id].fee /\ tx'[id].reverses = tx[id].reverses
          /\ \/ tx'[id].status = tx[id].status
             \/ tx'[id].status = "reversed" /\ tx[id].status = "confirmed"
      BY <2>2, <2>3, <3>2, <3>3, UpdatedFields
    <3> QED
      BY <2>6, <2>8, <3>1, <3>4, OthersFollow
  <2> QED
    BY <2>7, <2>8
<1>6. ASSUME NEW c \in Clients, SoftDelete(c)
      PROVE  Follows(id)'
  <2> DEFINE r == request[c].id
  <2>1. "delete" \in Operations /\ Runs(c, "delete")
    BY <1>6 DEF SoftDelete, Operations
  <2>2. r \in Ids /\ tx[r] \in Transactions
    BY <2>1, RunsFacts
  <2>3. /\ tx[r].status = "confirmed" /\ tx[r].kind # "reversal"
        /\ tx' = [tx EXCEPT ![r] = Updated(tx[r], "deleted", tx[r].amount)]
        /\ posted' = [posted EXCEPT ![r] = Plus(posted[r], Negated(posted[r]))]
        /\ saved' = [saved EXCEPT ![r] = posted[r]]
    BY <1>6 DEF SoftDelete, Confirmed, Post
  <2>4. posted[r] \in Effects
    BY <2>2 DEF TypeOK
  <2>5. CASE id = r
    <3>1. posted'[r] = Nothing /\ saved'[r] = posted[r]
      BY <2>2, <2>3, <2>4, EffectAlgebra DEF TypeOK
    <3>2. /\ tx'[r].kind = tx[r].kind /\ tx'[r].amount = tx[r].amount
          /\ tx'[r].fee = tx[r].fee /\ tx'[r].status = "deleted"
      BY <2>2, <2>3, UpdatedFields DEF TypeOK
    <3>3. Explains(tx[r], posted[r], posted[tx[r].reverses])
      BY <2>2, <2>3 DEF Follows
    <3>4. Explains(tx'[r], saved'[r], posted'[tx'[r].reverses])
      BY <2>3, <3>1, <3>2, <3>3, ExplainsSame
    <3> QED
      BY <2>5, <3>1, <3>2, <3>4 DEF Follows
  <2>6. CASE id # r
    <3>1. tx'[id] = tx[id] /\ saved'[id] = saved[id] /\ \A d \in Ids \ {r} : posted'[d] = posted[d]
      BY <2>3, <2>6 DEF TypeOK
    <3>2. r \in Ids => tx[r].status # "reversed"
      BY <2>3
    <3> QED
      BY <2>6, <3>1, <3>2, OthersFollow
  <2> QED
    BY <2>5, <2>6
<1>7. ASSUME NEW c \in Clients, Restore(c)
      PROVE  Follows(id)'
  <2> DEFINE r == request[c].id
  <2>1. "restore" \in Operations /\ Runs(c, "restore")
    BY <1>7 DEF Restore, Operations
  <2>2. r \in Ids /\ tx[r] \in Transactions
    BY <2>1, RunsFacts
  <2>3. /\ tx[r].status = "deleted"
        /\ tx' = [tx EXCEPT ![r] = Updated(tx[r], "confirmed", tx[r].amount)]
        /\ posted' = [posted EXCEPT ![r] = Plus(posted[r], saved[r])]
        /\ saved' = [saved EXCEPT ![r] = Nothing]
    BY <1>7 DEF Restore, Post
  <2>4. saved[r] \in Effects
    BY <2>2 DEF TypeOK
  <2>5. CASE id = r
    <3>1. posted[r] = Nothing /\ Explains(tx[r], saved[r], posted[tx[r].reverses])
      BY <2>2, <2>3 DEF Follows
    <3>2. posted'[r] = saved[r]
      BY <2>2, <2>3, <2>4, <3>1, EffectAlgebra DEF TypeOK
    <3>3. /\ tx'[r].kind = tx[r].kind /\ tx'[r].amount = tx[r].amount
          /\ tx'[r].fee = tx[r].fee /\ tx'[r].status = "confirmed"
      BY <2>2, <2>3, UpdatedFields DEF TypeOK
    <3>4. tx[r].kind # "reversal"
      BY <2>2, <2>3 DEF Links, KindsStay
    <3>5. Explains(tx'[r], posted'[r], posted'[tx'[r].reverses])
      BY <3>1, <3>2, <3>3, <3>4, ExplainsSame
    <3> QED
      BY <2>5, <3>3, <3>5 DEF Follows
  <2>6. CASE id # r
    <3>1. tx'[id] = tx[id] /\ saved'[id] = saved[id] /\ \A d \in Ids \ {r} : posted'[d] = posted[d]
      BY <2>3, <2>6 DEF TypeOK
    <3>2. r \in Ids => tx[r].status # "reversed"
      BY <2>3
    <3> QED
      BY <2>6, <3>1, <3>2, OthersFollow
  <2> QED
    BY <2>5, <2>6
<1>8. ASSUME NEW a \in Accounts, NEW new \in Ids, NEW x \in Openings, CreateAccount(a, new, x)
      PROVE  Follows(id)'
  <2> DEFINE amount == IF x < 0 THEN -x ELSE x
  <2>1. CASE x = 0
    BY <1>1, <1>8, <2>1 DEF CreateAccount, books
  <2>2. CASE x # 0
    <3>1. On(a, x) \in Effects
      BY SumsAssumption, LimitAssumption DEF On, Effects
    <3>2. x = amount \/ x = -amount
      BY SumsAssumption, LimitAssumption
    <3>3. \A o : Explains(Record("opening", amount, 0, NoId), On(a, x), o)
      BY <3>2 DEF Explains, Record
    <3>4. /\ Free(new) /\ Post(new, On(a, x)) /\ UNCHANGED saved
          /\ tx' = [tx EXCEPT ![new] = Record("opening", amount, 0, NoId)]
      BY <1>8, <2>2 DEF CreateAccount
    <3> HIDE DEF amount
    <3> QED
      BY <1>2, <3>1, <3>3, <3>4
  <2> QED
    BY <2>1, <2>2
<1>9. ASSUME NEW new \in Ids, NEW kind \in {"income", "expense"}, NEW x \in Amounts,
             NEW a \in Accounts, PostTransaction(new, kind, x, a)
      PROVE  Follows(id)'
  <2>1. On(a, Signed(kind, x)) \in Effects
    BY LimitAssumption DEF On, Signed, Effects
  <2>2. \A o : Explains(Record(kind, x, 0, NoId), On(a, Signed(kind, x)), o)
    BY DEF Explains, Record
  <2> QED
    BY <1>2, <1>9, <2>1, <2>2 DEF PostTransaction
<1>10. ASSUME NEW new \in Ids, NEW s \in Accounts, NEW d \in Accounts, NEW f \in Accounts,
              NEW x \in Amounts, NEW y \in Fees, TransferFunds(new, s, d, f, x, y)
       PROVE  Follows(id)'
  <2>1. TransferEffect(s, d, f, x, y) \in Effects
    BY LimitAssumption, SumsAssumption DEF TransferEffect, Plus, On, Effects
  <2>2. s # d
    BY <1>10 DEF TransferFunds
  <2>3. \A o : Explains(Record("transfer", x, y, NoId), TransferEffect(s, d, f, x, y), o)
    BY <2>2 DEF Explains, Record
  <2> QED
    BY <1>2, <1>10, <2>1, <2>3 DEF TransferFunds
<1>11. ASSUME NEW a \in Accounts, ArchiveAccount(a) \/ RestoreAccount(a) \/ CloseAccount(a)
       PROVE  Follows(id)'
  BY <1>11, <1>1 DEF ArchiveAccount, RestoreAccount, CloseAccount, MoveAccount
<1>12. ASSUME NEW c \in Clients, NEW r \in Ids, NEW op \in Operations,
              NEW x \in Amounts \union {0}, Prepare(c, r, op, x)
       PROVE  Follows(id)'
  BY <1>12, <1>1 DEF Prepare
<1>13. ASSUME NEW c \in Clients, Abandon(c)
       PROVE  Follows(id)'
  BY <1>13, <1>1 DEF Abandon
<1>14. ASSUME NEW r \in Ids, UndoExpires(r)
       PROVE  Follows(id)'
  BY <1>14, <1>1 DEF UndoExpires
<1>15. CASE UNCHANGED vars
  BY <1>15, <1>1 DEF vars
<1> QED
  BY <1>3, <1>4, <1>5, <1>6, <1>7, <1>8, <1>9, <1>10, <1>11, <1>12, <1>13, <1>14, <1>15 DEF Next

\* However often a transaction is revised, moved, deleted and restored, the
\* sum of its postings is the effect its row states, and a reversal undoes
\* its original exactly (the compensating postings of revise_transaction,
\* reverse_transaction, soft_delete_transaction and restore_transaction).
THEOREM PostingsCorrect == Spec => []PostingsFollowHeader
<1> DEFINE AllFollow == \A id \in Ids : Follows(id)
<1>1. Init => TypeOK /\ Links /\ AllFollow
  <2>1. Init => AllFollow
    BY DEF Init, Follows, Absent
  <2> QED
    BY <2>1, TypeInit, LinksInit
<1>2. TypeOK /\ Links /\ AllFollow /\ [Next]_vars => TypeOK' /\ Links' /\ AllFollow'
  BY TypeStep, LinksStep, FollowsStep
<1>3. AllFollow => PostingsFollowHeader
  BY DEF PostingsFollowHeader, Follows
<1> HIDE DEF AllFollow
<1> QED
  BY <1>1, <1>2, <1>3, PTL DEF Spec

(***************************************************************************)
(* The ledger implements TransactionStatus.                                *)
(***************************************************************************)
Statuses == {"none", "confirmed", "reversed", "deleted"}
Edge(id) ==
  \/ tx'[id].status = tx[id].status
  \/ <<tx[id].status, tx'[id].status>> \in Lifecycle!Edges

\* A new row is confirmed.
LEMMA NewEdge ==
  ASSUME TypeOK, NEW id \in Ids, NEW new \in Ids, Free(new),
         NEW row, row.status = "confirmed", tx' = [tx EXCEPT ![new] = row]
  PROVE  Edge(id)
<1>1. CASE id = new
  BY <1>1 DEF Edge, Free, TypeOK, Lifecycle!Edges
<1>2. CASE id # new
  BY <1>2 DEF Edge, TypeOK
<1> QED
  BY <1>1, <1>2

\* An updated row takes a status its old one leads to.
LEMMA UpdatedEdge ==
  ASSUME TypeOK, NEW id \in Ids, NEW status, NEW amount,
         tx[id].status = status \/ <<tx[id].status, status>> \in Lifecycle!Edges,
         tx'[id] = Updated(tx[id], status, amount)
  PROVE  Edge(id)
<1>1. tx[id] \in Transactions
  BY DEF TypeOK
<1>2. tx'[id].status = status
  BY <1>1, UpdatedFields
<1> QED
  BY <1>2 DEF Edge

LEMMA StatusStep ==
  ASSUME TypeOK, [Next]_vars, NEW id \in Ids
  PROVE  Edge(id)
<1>1. ASSUME UNCHANGED tx
      PROVE  Edge(id)
  BY <1>1 DEF Edge
<1>3. ASSUME NEW c \in Clients, NEW a \in Accounts, Revise(c, a)
      PROVE  Edge(id)
  <2>1. Runs(c, "revise") /\ "revise" \in Operations /\ tx[request[c].id].status = "confirmed"
    BY <1>3 DEF Revise, Operations, Confirmed
  <2>2. tx' = [tx EXCEPT ![request[c].id] = Updated(tx[request[c].id], "confirmed", request[c].next)]
    BY <1>3 DEF Revise
  <2>3. /\ id = request[c].id => tx'[id] = Updated(tx[request[c].id], "confirmed", request[c].next)
        /\ id # request[c].id => tx'[id] = tx[id]
    BY <2>2 DEF TypeOK
  <2>4. CASE id = request[c].id
    BY <2>1, <2>3, <2>4, UpdatedEdge
  <2>5. CASE id # request[c].id
    BY <2>3, <2>5 DEF Edge
  <2> QED
    BY <2>4, <2>5
<1>4. ASSUME NEW c \in Clients, NEW refund \in Ids, NEW a \in Accounts, NEW x \in Amounts,
             Refund(c, refund, a, x)
      PROVE  Edge(id)
  <2>1. /\ Runs(c, "refund") /\ "refund" \in Operations
        /\ tx[request[c].id].status = "confirmed" /\ Free(refund)
    BY <1>4 DEF Refund, Operations, Confirmed
  <2> DEFINE row == Record("refund", x, 0, request[c].id)
  <2>2. tx' = [tx EXCEPT ![request[c].id] = Updated(tx[request[c].id], "confirmed", tx[request[c].id].amount),
                         ![refund] = row]
    BY <1>4 DEF Refund
  <2>3. row.status = "confirmed" /\ refund # request[c].id
    BY <2>1 DEF Record, Free
  <2> HIDE DEF row
  <2>4. /\ id = request[c].id => tx'[id] = Updated(tx[request[c].id], "confirmed", tx[request[c].id].amount)
        /\ id = refund => tx'[id].status = "confirmed"
        /\ id # request[c].id /\ id # refund => tx'[id] = tx[id]
    BY <2>2, <2>3 DEF TypeOK
  <2>5. CASE id = request[c].id
    BY <2>1, <2>4, <2>5, UpdatedEdge
  <2>6. CASE id = refund
    BY <2>1, <2>4, <2>6 DEF Edge, Free, Lifecycle!Edges
  <2>7. CASE id # request[c].id /\ id # refund
    BY <2>4, <2>7 DEF Edge
  <2> QED
    BY <2>5, <2>6, <2>7
<1>5. ASSUME NEW c \in Clients, NEW reversal \in Ids, Reverse(c, reversal)
      PROVE  Edge(id)
  <2>1. /\ Runs(c, "reverse") /\ "reverse" \in Operations
        /\ <<tx[request[c].id].status, "reversed">> \in Lifecycle!Edges
        /\ tx[request[c].id].status = "confirmed" /\ Free(reversal)
    BY <1>5 DEF Reverse, Operations, Confirmed, Lifecycle!Edges
  <2> DEFINE row == Record("reversal", tx[request[c].id].amount, tx[request[c].id].fee, request[c].id)
  <2>2. tx' = [tx EXCEPT ![request[c].id] = Updated(tx[request[c].id], "reversed", tx[request[c].id].amount),
                         ![reversal] = row]
    BY <1>5 DEF Reverse
  <2>3. row.status = "confirmed" /\ reversal # request[c].id
    BY <2>1 DEF Record, Free
  <2> HIDE DEF row
  <2>4. /\ id = request[c].id => tx'[id] = Updated(tx[request[c].id], "reversed", tx[request[c].id].amount)
        /\ id = reversal => tx'[id].status = "confirmed"
        /\ id # request[c].id /\ id # reversal => tx'[id] = tx[id]
    BY <2>2, <2>3 DEF TypeOK
  <2>5. CASE id = request[c].id
    BY <2>1, <2>4, <2>5, UpdatedEdge
  <2>6. CASE id = reversal
    BY <2>1, <2>4, <2>6 DEF Edge, Free, Lifecycle!Edges
  <2>7. CASE id # request[c].id /\ id # reversal
    BY <2>4, <2>7 DEF Edge
  <2> QED
    BY <2>5, <2>6, <2>7
<1>6. ASSUME NEW c \in Clients, SoftDelete(c)
      PROVE  Edge(id)
  <2>1. /\ Runs(c, "delete") /\ "delete" \in Operations
        /\ <<tx[request[c].id].status, "deleted">> \in Lifecycle!Edges
    BY <1>6 DEF SoftDelete, Operations, Confirmed, Lifecycle!Edges
  <2>2. tx' = [tx EXCEPT ![request[c].id] = Updated(tx[request[c].id], "deleted", tx[request[c].id].amount)]
    BY <1>6 DEF SoftDelete
  <2>3. /\ id = request[c].id => tx'[id] = Updated(tx[request[c].id], "deleted", tx[request[c].id].amount)
        /\ id # request[c].id => tx'[id] = tx[id]
    BY <2>2 DEF TypeOK
  <2>4. CASE id = request[c].id
    BY <2>1, <2>3, <2>4, UpdatedEdge
  <2>5. CASE id # request[c].id
    BY <2>3, <2>5 DEF Edge
  <2> QED
    BY <2>4, <2>5
<1>7. ASSUME NEW c \in Clients, Restore(c)
      PROVE  Edge(id)
  <2>1. /\ Runs(c, "restore") /\ "restore" \in Operations
        /\ <<tx[request[c].id].status, "confirmed">> \in Lifecycle!Edges
    BY <1>7 DEF Restore, Operations, Lifecycle!Edges
  <2>2. tx' = [tx EXCEPT ![request[c].id] = Updated(tx[request[c].id], "confirmed", tx[request[c].id].amount)]
    BY <1>7 DEF Restore
  <2>3. /\ id = request[c].id => tx'[id] = Updated(tx[request[c].id], "confirmed", tx[request[c].id].amount)
        /\ id # request[c].id => tx'[id] = tx[id]
    BY <2>2 DEF TypeOK
  <2>4. CASE id = request[c].id
    BY <2>1, <2>3, <2>4, UpdatedEdge
  <2>5. CASE id # request[c].id
    BY <2>3, <2>5 DEF Edge
  <2> QED
    BY <2>4, <2>5
<1>8. ASSUME NEW new \in Ids, NEW kind, NEW x, NEW y, Free(new),
             tx' = [tx EXCEPT ![new] = Record(kind, x, y, NoId)]
      PROVE  Edge(id)
  <2>1. Record(kind, x, y, NoId).status = "confirmed"
    BY DEF Record
  <2> QED
    BY <1>8, <2>1, NewEdge
<1>9. ASSUME NEW a \in Accounts, NEW new \in Ids, NEW x \in Openings, CreateAccount(a, new, x)
      PROVE  Edge(id)
  BY <1>9, <1>1, <1>8 DEF CreateAccount, books
<1>10. ASSUME NEW new \in Ids, NEW kind \in {"income", "expense"}, NEW x \in Amounts,
              NEW a \in Accounts, PostTransaction(new, kind, x, a)
       PROVE  Edge(id)
  BY <1>10, <1>8 DEF PostTransaction
<1>11. ASSUME NEW new \in Ids, NEW s \in Accounts, NEW d \in Accounts, NEW f \in Accounts,
              NEW x \in Amounts, NEW y \in Fees, TransferFunds(new, s, d, f, x, y)
       PROVE  Edge(id)
  BY <1>11, <1>8 DEF TransferFunds
<1>12. ASSUME \/ \E a \in Accounts : ArchiveAccount(a) \/ RestoreAccount(a) \/ CloseAccount(a)
              \/ \E c \in Clients, r \in Ids, op \in Operations, x \in Amounts \union {0} :
                   Prepare(c, r, op, x)
              \/ \E c \in Clients : Abandon(c)
              \/ \E r \in Ids : UndoExpires(r)
              \/ UNCHANGED vars
       PROVE  Edge(id)
  <2>1. UNCHANGED tx
    BY <1>12 DEF ArchiveAccount, RestoreAccount, CloseAccount, MoveAccount, Prepare, Abandon, UndoExpires, vars
  <2> QED
    BY <2>1, <1>1
<1> QED
  BY <1>3, <1>4, <1>5, <1>6, <1>7, <1>9, <1>10, <1>11, <1>12 DEF Next

\* The status of every transaction follows TransactionStatus, whatever
\* requests race: a reversal is final, a deletion can only be undone.
THEOREM LifecycleKept == Spec => KeepsLifecycle
<1> DEFINE view == [id \in Ids |-> tx[id].status]
<1>1. Init => TypeOK /\ Lifecycle!Init
  BY TypeInit DEF Init, Lifecycle!Init, Absent
<1>2. TypeOK /\ [Next]_vars => TypeOK' /\ [Lifecycle!Next]_view
  <2> SUFFICES ASSUME TypeOK, [Next]_vars
               PROVE  TypeOK' /\ Lifecycle!Next
    OBVIOUS
  <2>1. TypeOK'
    BY TypeStep
  <2>2. \A id \in Ids : Edge(id)
    BY StatusStep
  <2>3. view' = [id \in Ids |-> tx'[id].status] /\ view' \in [Ids -> Statuses]
    BY <2>1 DEF TypeOK, Transactions, Statuses
  <2> QED
    BY <2>1, <2>2, <2>3 DEF Lifecycle!Next, Edge, Statuses
<1> HIDE DEF view
<1> QED
  BY <1>1, <1>2, PTL DEF Spec, KeepsLifecycle, Lifecycle!Spec, view

(***************************************************************************)
(* Balances.                                                               *)
(***************************************************************************)
\* A posting adds the same to the balances and to the sums of the postings.
LEMMA PostAddsUp ==
  ASSUME TypeOK, BalancesAddUp, NEW id \in Ids, NEW e \in Effects, Post(id, e)
  PROVE  BalancesAddUp'
<1> SUFFICES ASSUME NEW a \in Accounts PROVE balance'[a] = Total([d \in Ids |-> posted'[d][a]])
  BY DEF BalancesAddUp
<1> DEFINE old == [d \in Ids |-> posted[d][a]]
           new == [d \in Ids |-> posted'[d][a]]
<1>1. /\ posted'[id] = Plus(posted[id], e)
      /\ \A d \in Ids : d # id => posted'[d] = posted[d]
      /\ balance'[a] = balance[a] + e[a]
  BY DEF Post, Plus, TypeOK
<1>2. \A d \in Ids : old[d] \in Int
  BY DEF TypeOK, Effects
<1>3. e[a] \in Int /\ new[id] = old[id] + e[a]
  BY <1>1 DEF Plus, Effects
<1>4. new[id] \in Int /\ \A d \in Ids : d # id => new[d] = old[d]
  BY <1>1, <1>2, <1>3
<1>5. balance[a] = Total(old)
  BY DEF BalancesAddUp
<1>6. DOMAIN old = Ids /\ DOMAIN new = Ids
  OBVIOUS
<1>7. Total(old) \in Int
  <2> HIDE DEF old
  <2> QED  BY <1>2, <1>6, IdsAssumption, TotalIsInt
<1>8. Total(new) = Total(old) + (new[id] - old[id])
  <2> HIDE DEF old, new
  <2> QED  BY <1>2, <1>4, <1>6, IdsAssumption, TotalAfterChange
<1>9. old[id] \in Int
  BY <1>2
<1> HIDE DEF old, new
<1>10. balance'[a] = Total(new)
  BY <1>1, <1>3, <1>5, <1>7, <1>8, <1>9
<1> QED  BY <1>10 DEF new

\* Balances and postings change together, by a posting, or not at all.
LEMMA StepPosts ==
  ASSUME TypeOK, Next
  PROVE  \/ UNCHANGED <<balance, posted>>
         \/ \E id \in Ids, e \in Effects : Post(id, e)
<1> DEFINE Goal == \/ UNCHANGED <<balance, posted>>
                   \/ \E id \in Ids, e \in Effects : Post(id, e)
<1>a. Amounts \subseteq Int /\ Fees \subseteq Int /\ Openings \subseteq Int
  BY LimitAssumption, SumsAssumption
<1>b. \A id \in Ids : posted[id] \in Effects /\ saved[id] \in Effects
  BY DEF TypeOK
<1>c. ASSUME NEW c \in Clients, NEW op \in Operations, Runs(c, op)
      PROVE  request[c].id \in Ids /\ request[c].next \in Int
  BY <1>c, RunsFacts
<1>1. ASSUME NEW a \in Accounts, NEW id \in Ids, NEW x \in Openings, CreateAccount(a, id, x) PROVE Goal
  <2>1. On(a, x) \in Effects
    BY <1>a DEF On, Effects
  <2> QED  BY <1>1, <2>1 DEF CreateAccount, books
<1>2. ASSUME NEW a \in Accounts, ArchiveAccount(a) \/ RestoreAccount(a) \/ CloseAccount(a) PROVE Goal
  BY <1>2 DEF ArchiveAccount, RestoreAccount, CloseAccount, MoveAccount
<1>3. ASSUME NEW id \in Ids, NEW kind, NEW x \in Amounts, NEW a \in Accounts, PostTransaction(id, kind, x, a)
      PROVE  Goal
  <2>1. On(a, Signed(kind, x)) \in Effects
    BY <1>a DEF On, Signed, Effects
  <2> QED  BY <1>3, <2>1 DEF PostTransaction
<1>4. ASSUME NEW id \in Ids, NEW s \in Accounts, NEW d \in Accounts, NEW f \in Accounts,
             NEW x \in Amounts, NEW y \in Fees, TransferFunds(id, s, d, f, x, y)
      PROVE  Goal
  <2>1. TransferEffect(s, d, f, x, y) \in Effects
    BY <1>a DEF TransferEffect, Plus, On, Effects
  <2> QED  BY <1>4, <2>1 DEF TransferFunds
<1>5. ASSUME NEW c \in Clients,
             \/ \E id \in Ids, op \in Operations, x \in Amounts \union {0} : Prepare(c, id, op, x)
             \/ Abandon(c)
      PROVE  Goal
  BY <1>5 DEF Prepare, Abandon
<1>6. ASSUME NEW c \in Clients, SoftDelete(c) PROVE Goal
  <2>1. request[c].id \in Ids
    BY <1>6, <1>c DEF SoftDelete, Operations
  <2>2. Negated(posted[request[c].id]) \in Effects
    BY <1>b, <2>1 DEF Negated, Effects
  <2> QED  BY <1>6, <2>1, <2>2 DEF SoftDelete
<1>7. ASSUME NEW c \in Clients, Restore(c) PROVE Goal
  <2>1. request[c].id \in Ids
    BY <1>7, <1>c DEF Restore, Operations
  <2> QED  BY <1>7, <1>b, <2>1 DEF Restore
<1>8. ASSUME NEW c \in Clients, NEW a \in Accounts, Revise(c, a) PROVE Goal
  <2>1. request[c].id \in Ids /\ request[c].next \in Int
    BY <1>8, <1>c DEF Revise, Operations
  <2>2. Minus(On(a, Signed(tx[request[c].id].kind, request[c].next)), posted[request[c].id]) \in Effects
    BY <1>b, <2>1 DEF Minus, On, Signed, Effects
  <2> QED  BY <1>8, <2>1, <2>2 DEF Revise
<1>9. ASSUME NEW c \in Clients, NEW id \in Ids, NEW a \in Accounts, NEW x \in Amounts, Refund(c, id, a, x)
      PROVE  Goal
  <2>1. On(a, x) \in Effects
    BY <1>a DEF On, Effects
  <2> QED  BY <1>9, <2>1 DEF Refund
<1>10. ASSUME NEW c \in Clients, NEW id \in Ids, Reverse(c, id) PROVE Goal
  <2>1. request[c].id \in Ids
    BY <1>10, <1>c DEF Reverse, Operations
  <2>2. Negated(posted[request[c].id]) \in Effects
    BY <1>b, <2>1 DEF Negated, Effects
  <2> QED  BY <1>10, <2>2 DEF Reverse
<1>11. ASSUME NEW id \in Ids, UndoExpires(id) PROVE Goal
  BY <1>11 DEF UndoExpires
<1> QED
  BY <1>1, <1>2, <1>3, <1>4, <1>5, <1>6, <1>7, <1>8, <1>9, <1>10, <1>11 DEF Next

\* Every balance is the sum of the postings to its account, after any number
\* of commands: reconcile_account_balance finds no difference
\* (phase05_ledger_commands.sql:503-541).
THEOREM BalancesCorrect == Spec => []BalancesAddUp
<1>1. Init => BalancesAddUp
  <2> SUFFICES ASSUME Init, NEW a \in Accounts
               PROVE  balance[a] = Total([id \in Ids |-> posted[id][a]])
    BY DEF BalancesAddUp
  <2> DEFINE f == [id \in Ids |-> posted[id][a]]
  <2>1. DOMAIN f = Ids /\ \A id \in Ids : f[id] = 0
    BY DEF Init, Nothing
  <2>2. balance[a] = 0
    BY DEF Init, Nothing
  <2>3. Total(f) = 0
    <3> HIDE DEF f
    <3> QED  BY <2>1, IdsAssumption, TotalOfZeros
  <2> QED  BY <2>2, <2>3
<1>2. TypeOK /\ BalancesAddUp /\ [Next]_vars => BalancesAddUp'
  <2>1. ASSUME UNCHANGED <<balance, posted>>, BalancesAddUp PROVE BalancesAddUp'
    BY <2>1 DEF BalancesAddUp
  <2>2. UNCHANGED vars => UNCHANGED <<balance, posted>>
    BY DEF vars
  <2> QED  BY <2>1, <2>2, StepPosts, PostAddsUp
<1> QED  BY <1>1, <1>2, TypeCorrect, PTL DEF Spec

(***************************************************************************)
(* Money.                                                                  *)
(***************************************************************************)
\* What effects add up to: each part of a command moves so much money into
\* the accounts, or out of them.
LEMMA TotalOfPlus ==
  ASSUME NEW e \in Effects, NEW f \in Effects
  PROVE  /\ Total(e) \in Int /\ Total(f) \in Int
         /\ Total(Plus(e, f)) = Total(e) + Total(f)
<1> DEFINE g == Plus(e, f)
<1>1. DOMAIN e = Accounts /\ DOMAIN f = Accounts /\ DOMAIN g = Accounts
  BY DEF Effects, Plus
<1>2. \A a \in Accounts : e[a] \in Int /\ f[a] \in Int /\ g[a] = e[a] + f[a]
  BY DEF Effects, Plus
<1> HIDE DEF g
<1>3. Total(g) = Total(e) + Total(f)
  BY <1>1, <1>2, AccountsAssumption, TotalIsAdditive
<1>4. Total(e) \in Int /\ Total(f) \in Int
  BY <1>1, <1>2, AccountsAssumption, TotalIsInt
<1> QED  BY <1>3, <1>4 DEF g

LEMMA TotalOfOn ==
  ASSUME NEW a \in Accounts, NEW x \in Int
  PROVE  Total(On(a, x)) = x
<1> DEFINE f == On(a, x)
<1>1. DOMAIN f = Accounts /\ f[a] = x /\ \A b \in Accounts : a # b => f[b] = 0
  BY DEF On
<1> HIDE DEF f
<1>2. Total(f) = x
  BY <1>1, AccountsAssumption, TotalOfOne
<1> QED  BY <1>2 DEF f

LEMMA TotalOfNegated ==
  ASSUME NEW e \in Effects
  PROVE  Total(Nothing) = 0 /\ Total(Negated(e)) = -Total(e)
<1>1. Nothing \in Effects /\ Negated(e) \in Effects
  BY DEF Nothing, Negated, Effects
<1>2. DOMAIN Nothing = Accounts /\ \A a \in DOMAIN Nothing : Nothing[a] = 0
  BY DEF Nothing
<1>3. Total(Nothing) = 0
  BY <1>2, AccountsAssumption, TotalOfZeros
<1>4. Total(Plus(e, Negated(e))) = Total(e) + Total(Negated(e))
  BY <1>1, TotalOfPlus
<1>5. Plus(e, Negated(e)) = Nothing
  BY EffectAlgebra
<1>6. Total(e) \in Int /\ Total(Negated(e)) \in Int
  BY <1>1, TotalOfPlus
<1> QED  BY <1>3, <1>4, <1>5, <1>6

\* A transfer only costs its fee, whichever account pays it.
LEMMA TotalOfTransfer ==
  ASSUME NEW s \in Accounts, NEW d \in Accounts, NEW f \in Accounts, NEW x \in Int, NEW y \in Int
  PROVE  Total(TransferEffect(s, d, f, x, y)) = -y
<1>1. On(s, -x) \in Effects /\ On(d, x) \in Effects /\ On(f, -y) \in Effects
  BY DEF On, Effects
<1>2. Plus(On(s, -x), On(d, x)) \in Effects
  BY <1>1 DEF Plus, Effects
<1>3. Total(Plus(On(s, -x), On(d, x))) = Total(On(s, -x)) + Total(On(d, x))
  BY <1>1, TotalOfPlus
<1>4. Total(TransferEffect(s, d, f, x, y)) = Total(Plus(On(s, -x), On(d, x))) + Total(On(f, -y))
  BY <1>1, <1>2, TotalOfPlus DEF TransferEffect
<1>5. Total(On(s, -x)) = -x /\ Total(On(d, x)) = x /\ Total(On(f, -y)) = -y
  <2>1. -x \in Int /\ -y \in Int
    OBVIOUS
  <2> QED  BY <2>1, TotalOfOn
<1> QED  BY <1>3, <1>4, <1>5

\* What the postings of a transaction add up to is what its row says, unless
\* it is reversed or a reversal: those two count nothing each, and together.
LEMMA NetIsPosted ==
  ASSUME NEW row \in Transactions, NEW e \in Effects, NEW o,
         row.kind # "reversal",
         row.status = "confirmed" => Explains(row, e, o),
         row.status # "confirmed" => e = Nothing
  PROVE  Net(row, e) = Total(e)
<1>1. CASE row.status # "confirmed"
  BY <1>1, TotalOfNegated DEF Net
<1>2. CASE row.status = "confirmed"
  <2>1. row.amount \in Int /\ row.fee \in Int
    BY DEF Transactions
  <2>2. CASE row.kind \in {"income", "expense", "refund"}
    <3>1. PICK a \in Accounts : e = On(a, Signed(row.kind, row.amount))
      BY <1>2, <2>2 DEF Explains
    <3>2. Signed(row.kind, row.amount) \in Int
      BY <2>1 DEF Signed
    <3>3. Total(e) = Signed(row.kind, row.amount)
      BY <3>1, <3>2, TotalOfOn
    <3> QED  BY <1>2, <2>2, <3>3 DEF Net
  <2>3. CASE row.kind = "transfer"
    <3>1. PICK s, d, f \in Accounts : e = TransferEffect(s, d, f, row.amount, row.fee)
      BY <1>2, <2>3 DEF Explains
    <3>2. Total(e) = -row.fee
      BY <2>1, <3>1, TotalOfTransfer
    <3> QED  BY <1>2, <2>3, <3>2 DEF Net
  <2>4. CASE row.kind = "opening"
    BY <1>2, <2>4 DEF Net
  <2> QED  BY <1>2, <2>2, <2>3, <2>4 DEF Explains
<1> QED  BY <1>1, <1>2

\* A posting conserves money if it changes what one row says by what it adds
\* to the balances.
LEMMA PostConserves ==
  ASSUME TypeOK, TypeOK', MoneyIsConserved, NEW id \in Ids, NEW e \in Effects, Post(id, e),
         NEW target \in Ids, Net(tx[target], posted[target]) \in Int, Net(tx'[target], posted'[target]) \in Int,
         Net(tx'[target], posted'[target]) - Net(tx[target], posted[target]) = Total(e),
         \A d \in Ids : d # target =>
           /\ Net(tx[d], posted[d]) \in Int
           /\ Net(tx'[d], posted'[d]) = Net(tx[d], posted[d])
  PROVE  MoneyIsConserved'
<1> DEFINE old == [d \in Ids |-> Net(tx[d], posted[d])]
           new == [d \in Ids |-> Net(tx'[d], posted'[d])]
<1>1. /\ DOMAIN old = Ids /\ DOMAIN new = Ids
      /\ old[target] \in Int /\ new[target] \in Int /\ new[target] - old[target] = Total(e)
  OBVIOUS
<1>2. /\ \A d \in Ids : old[d] \in Int
      /\ \A d \in Ids : d # target => new[d] = old[d]
  OBVIOUS
<1>3. Total(balance) = Total(old)
  BY DEF MoneyIsConserved
<1>4. balance \in Effects
  BY LimitAssumption DEF TypeOK, Effects
<1>5. Total(balance') = Total(balance) + Total(e)
  BY <1>4, TotalOfPlus DEF Post
<1>6. (Total(balance') = Total(new)) => MoneyIsConserved'
  BY DEF MoneyIsConserved
<1> HIDE DEF old, new
<1>7. Total(new) = Total(old) + (new[target] - old[target])
  BY <1>1, <1>2, IdsAssumption, TotalAfterChange
<1>8. Total(old) \in Int
  BY <1>1, <1>2, IdsAssumption, TotalIsInt
<1> QED  BY <1>1, <1>3, <1>5, <1>6, <1>7, <1>8
LEMMA NetIsInt ==
  ASSUME NEW row \in Transactions, NEW e \in Effects
  PROVE  Net(row, e) \in Int
<1>1. Total(e) \in Int
  BY TotalOfPlus
<1>2. row.amount \in Int /\ row.fee \in Int
  BY DEF Transactions
<1> QED  BY <1>1, <1>2 DEF Net, Signed

\* The command that posts to a transaction that is neither reversed nor a
\* reversal, and that updates at most the version of any other.
LEMMA PlainPostConserves ==
  ASSUME TypeOK, TypeOK', MoneyIsConserved, NEW id \in Ids, NEW e \in Effects, Post(id, e),
         Follows(id), Follows(id)',
         tx[id].kind # "reversal", tx[id].status # "reversed",
         tx'[id].kind # "reversal", tx'[id].status # "reversed",
         \A d \in Ids : d # id =>
           /\ tx'[d].kind = tx[d].kind /\ tx'[d].status = tx[d].status
           /\ tx'[d].amount = tx[d].amount /\ tx'[d].fee = tx[d].fee
  PROVE  MoneyIsConserved'
<1>1. /\ \A d \in Ids : tx[d] \in Transactions /\ posted[d] \in Effects
      /\ tx'[id] \in Transactions /\ posted'[id] \in Effects
  BY DEF TypeOK
<1>2. /\ posted'[id] = Plus(posted[id], e)
      /\ \A d \in Ids : d # id => posted'[d] = posted[d]
  BY DEF Post, TypeOK
<1>3. Net(tx[id], posted[id]) = Total(posted[id])
  <2>1. tx[id].status = "confirmed" => Explains(tx[id], posted[id], posted[tx[id].reverses])
    BY DEF Follows
  <2>2. tx[id].status # "confirmed" => posted[id] = Nothing
    BY <1>1 DEF Follows, Transactions
  <2> QED  BY <1>1, <2>1, <2>2, NetIsPosted
<1>4. Net(tx'[id], posted'[id]) = Total(posted'[id])
  <2>1. tx'[id].status = "confirmed" => Explains(tx'[id], posted'[id], posted'[tx'[id].reverses])
    BY DEF Follows
  <2>2. tx'[id].status # "confirmed" => posted'[id] = Nothing
    BY <1>1 DEF Follows, Transactions
  <2> QED  BY <1>1, <2>1, <2>2, NetIsPosted
<1>5. /\ Total(posted[id]) \in Int /\ Total(posted'[id]) \in Int
      /\ Total(posted'[id]) - Total(posted[id]) = Total(e)
  BY <1>1, <1>2, TotalOfPlus
<1>6. ASSUME NEW d \in Ids, d # id
      PROVE  Net(tx[d], posted[d]) \in Int /\ Net(tx'[d], posted'[d]) = Net(tx[d], posted[d])
  <2>1. Net(tx[d], posted[d]) \in Int
    BY <1>1, NetIsInt
  <2>2. Net(tx'[d], posted'[d]) = Net(tx[d], posted[d])
    BY <1>2, <1>6 DEF Net, Signed
  <2> QED  BY <2>1, <2>2
<1>7. /\ Net(tx[id], posted[id]) \in Int /\ Net(tx'[id], posted'[id]) \in Int
      /\ Net(tx'[id], posted'[id]) - Net(tx[id], posted[id]) = Total(e)
  BY <1>3, <1>4, <1>5
<1> QED  BY <1>6, <1>7, PostConserves

\* A reversal takes back what its original had posted, which from then on
\* does not count.
LEMMA ReverseConserves ==
  ASSUME TypeOK, TypeOK', Links, MoneyIsConserved, \A id \in Ids : Follows(id),
         NEW c \in Clients, NEW reversal \in Ids, Reverse(c, reversal)
  PROVE  MoneyIsConserved'
<1> DEFINE r == request[c].id
<1>1. "reverse" \in Operations /\ Runs(c, "reverse")
  BY DEF Reverse, Operations
<1>2. r \in Ids /\ tx[r] \in Transactions /\ posted[r] \in Effects
  BY <1>1, RunsFacts DEF TypeOK
<1>3. /\ tx[r].status = "confirmed" /\ tx[r].kind # "reversal" /\ Free(reversal)
      /\ tx' = [tx EXCEPT ![r] = Updated(tx[r], "reversed", tx[r].amount),
                          ![reversal] = Record("reversal", tx[r].amount, tx[r].fee, r)]
      /\ Post(reversal, Negated(posted[r]))
  BY DEF Reverse, Confirmed
<1>4. reversal # r /\ tx[reversal].status = "none"
  BY <1>3 DEF Free
<1>5. Negated(posted[r]) \in Effects
  BY <1>2 DEF Negated, Effects
<1>6. Net(tx[r], posted[r]) = Total(posted[r])
  <2>1. Explains(tx[r], posted[r], posted[tx[r].reverses])
    BY <1>2, <1>3 DEF Follows
  <2> QED  BY <1>2, <1>3, <2>1, NetIsPosted
<1>7. /\ tx'[r].status = "reversed" /\ tx'[reversal].kind = "reversal"
      /\ \A d \in Ids : d # r /\ d # reversal => tx'[d] = tx[d]
      /\ \A d \in Ids : d # reversal => posted'[d] = posted[d]
  <2>1. tx'[r] = Updated(tx[r], "reversed", tx[r].amount)
    BY <1>2, <1>3, <1>4 DEF TypeOK
  <2>2. tx'[r].status = "reversed"
    BY <1>2, <2>1, UpdatedFields
  <2>3. tx'[reversal] = Record("reversal", tx[r].amount, tx[r].fee, r)
    BY <1>3 DEF TypeOK
  <2>4. \A d \in Ids : d # r /\ d # reversal => tx'[d] = tx[d]
    BY <1>3 DEF TypeOK
  <2>5. \A d \in Ids : d # reversal => posted'[d] = posted[d]
    BY <1>3 DEF Post, TypeOK
  <2> QED  BY <2>2, <2>3, <2>4, <2>5 DEF Record
<1>8. Net(tx'[r], posted'[r]) = 0
  BY <1>7 DEF Net
<1>9. 0 - Total(posted[r]) = Total(Negated(posted[r])) /\ Total(posted[r]) \in Int
  BY <1>2, TotalOfNegated, TotalOfPlus
<1>10. ASSUME NEW d \in Ids, d # r
       PROVE  Net(tx[d], posted[d]) \in Int /\ Net(tx'[d], posted'[d]) = Net(tx[d], posted[d])
  <2>1. Net(tx[d], posted[d]) \in Int
    BY NetIsInt DEF TypeOK
  <2>2. CASE d = reversal
    BY <1>4, <1>7, <2>2 DEF Net
  <2>3. CASE d # reversal
    BY <1>7, <1>10, <2>1, <2>3
  <2> QED  BY <2>1, <2>2, <2>3
<1>11. /\ Net(tx[r], posted[r]) \in Int /\ Net(tx'[r], posted'[r]) \in Int
       /\ Net(tx'[r], posted'[r]) - Net(tx[r], posted[r]) = Total(Negated(posted[r]))
  BY <1>6, <1>8, <1>9
<1> HIDE DEF r
<1> QED  BY <1>2, <1>3, <1>5, <1>10, <1>11, PostConserves

\* Every command conserves money.
LEMMA ConservesStep ==
  ASSUME TypeOK, Links, \A id \in Ids : Follows(id), MoneyIsConserved, [Next]_vars
  PROVE  MoneyIsConserved'
<1>a. TypeOK' /\ \A id \in Ids : Follows(id)'
  BY TypeStep, FollowsStep
<1>b. \A id \in Ids : posted[id] \in Effects /\ saved[id] \in Effects /\ tx[id] \in Transactions
  BY DEF TypeOK
<1>c. ASSUME NEW id \in Ids
      PROVE  /\ Free(id) => tx[id].kind = "none"
             /\ tx[id].kind = "reversal" => Confirmed(id)
  BY DEF Links, KindsStay, Free
<1>1. ASSUME UNCHANGED <<balance, tx, posted>>
      PROVE  MoneyIsConserved'
  BY <1>1 DEF MoneyIsConserved
<1>2. ASSUME NEW new \in Ids, Free(new), NEW e \in Effects, Post(new, e),
             tx'[new].kind # "reversal", tx'[new].status = "confirmed",
             \A d \in Ids : d # new =>
               /\ tx'[d].kind = tx[d].kind /\ tx'[d].status = tx[d].status
               /\ tx'[d].amount = tx[d].amount /\ tx'[d].fee = tx[d].fee
      PROVE  MoneyIsConserved'
  <2>1. tx[new].kind = "none" /\ tx[new].status = "none"
    BY <1>2, <1>c DEF Free
  <2> QED  BY <1>a, <1>2, <2>1, PlainPostConserves
<1>3. ASSUME NEW new \in Ids, NEW kind, NEW x, NEW y, Free(new), kind # "reversal",
             NEW e \in Effects, Post(new, e), tx' = [tx EXCEPT ![new] = Record(kind, x, y, NoId)]
      PROVE  MoneyIsConserved'
  <2>1. tx'[new] = Record(kind, x, y, NoId) /\ \A d \in Ids : d # new => tx'[d] = tx[d]
    BY <1>3 DEF TypeOK
  <2>2. tx'[new].kind # "reversal" /\ tx'[new].status = "confirmed"
    BY <1>3, <2>1 DEF Record
  <2> QED  BY <1>2, <1>3, <2>1, <2>2
<1>4. ASSUME NEW r \in Ids, NEW status \in {"confirmed", "deleted"}, NEW amount, NEW e \in Effects,
             Post(r, e), tx[r].kind # "reversal", tx[r].status # "reversed",
             tx' = [tx EXCEPT ![r] = Updated(tx[r], status, amount)]
      PROVE  MoneyIsConserved'
  <2>1. tx'[r] = Updated(tx[r], status, amount) /\ \A d \in Ids : d # r => tx'[d] = tx[d]
    BY <1>4 DEF TypeOK
  <2>2. tx'[r].kind # "reversal" /\ tx'[r].status # "reversed"
    BY <1>b, <1>4, <2>1, UpdatedFields
  <2> QED  BY <1>a, <1>4, <2>1, <2>2, PlainPostConserves
<1>5. ASSUME NEW a \in Accounts, NEW new \in Ids, NEW x \in Openings, CreateAccount(a, new, x)
      PROVE  MoneyIsConserved'
  <2>1. CASE x = 0
    BY <1>1, <1>5, <2>1 DEF CreateAccount, books
  <2>2. CASE x # 0
    <3>1. On(a, x) \in Effects
      BY SumsAssumption DEF On, Effects
    <3> QED  BY <1>3, <1>5, <2>2, <3>1 DEF CreateAccount
  <2> QED  BY <2>1, <2>2
<1>6. ASSUME NEW new \in Ids, NEW kind \in {"income", "expense"}, NEW x \in Amounts,
             NEW a \in Accounts, PostTransaction(new, kind, x, a)
      PROVE  MoneyIsConserved'
  <2>1. On(a, Signed(kind, x)) \in Effects
    BY LimitAssumption DEF On, Signed, Effects
  <2> QED  BY <1>3, <1>6, <2>1 DEF PostTransaction
<1>7. ASSUME NEW new \in Ids, NEW s \in Accounts, NEW d \in Accounts, NEW f \in Accounts,
             NEW x \in Amounts, NEW y \in Fees, TransferFunds(new, s, d, f, x, y)
      PROVE  MoneyIsConserved'
  <2>1. TransferEffect(s, d, f, x, y) \in Effects
    BY LimitAssumption, SumsAssumption DEF TransferEffect, Plus, On, Effects
  <2> QED  BY <1>3, <1>7, <2>1 DEF TransferFunds
<1>8. ASSUME NEW c \in Clients, NEW a \in Accounts, Revise(c, a)
      PROVE  MoneyIsConserved'
  <2> DEFINE r == request[c].id
             e == Minus(On(a, Signed(tx[r].kind, request[c].next)), posted[r])
  <2>1. r \in Ids /\ request[c].next \in Int
    BY <1>8, RunsFacts, LimitAssumption DEF Revise, Operations
  <2>2. e \in Effects
    BY <1>b, <2>1 DEF Minus, On, Signed, Effects, Transactions
  <2>3. /\ Post(r, e) /\ tx[r].kind # "reversal" /\ tx[r].status # "reversed"
        /\ tx' = [tx EXCEPT ![r] = Updated(tx[r], "confirmed", request[c].next)]
    BY <1>8 DEF Revise, Confirmed
  <2> HIDE DEF e
  <2> QED  BY <1>4, <2>1, <2>2, <2>3
<1>9. ASSUME NEW c \in Clients, NEW refund \in Ids, NEW a \in Accounts, NEW x \in Amounts,
             Refund(c, refund, a, x)
      PROVE  MoneyIsConserved'
  <2> DEFINE r == request[c].id
  <2>1. r \in Ids /\ tx[r] \in Transactions
    BY <1>9, RunsFacts DEF Refund, Operations
  <2>2. /\ tx[r].status = "confirmed" /\ Free(refund) /\ Post(refund, On(a, x))
        /\ tx' = [tx EXCEPT ![r] = Updated(tx[r], "confirmed", tx[r].amount),
                            ![refund] = Record("refund", x, 0, r)]
    BY <1>9 DEF Refund, Confirmed
  <2>3. On(a, x) \in Effects
    BY LimitAssumption DEF On, Effects
  <2>4. refund # r
    BY <2>2 DEF Free
  <2>5. /\ tx'[refund] = Record("refund", x, 0, r) /\ tx'[r] = Updated(tx[r], "confirmed", tx[r].amount)
        /\ \A d \in Ids : d # refund /\ d # r => tx'[d] = tx[d]
    BY <2>1, <2>2, <2>4 DEF TypeOK
  <2>6. \A d \in Ids : d # refund =>
          /\ tx'[d].kind = tx[d].kind /\ tx'[d].status = tx[d].status
          /\ tx'[d].amount = tx[d].amount /\ tx'[d].fee = tx[d].fee
    <3> SUFFICES ASSUME NEW d \in Ids, d # refund
                 PROVE  /\ tx'[d].kind = tx[d].kind /\ tx'[d].status = tx[d].status
                        /\ tx'[d].amount = tx[d].amount /\ tx'[d].fee = tx[d].fee
      OBVIOUS
    <3>1. CASE d = r
      BY <2>1, <2>2, <2>5, <3>1, UpdatedFields
    <3>2. CASE d # r
      BY <2>5, <3>2
    <3> QED  BY <3>1, <3>2
  <2>7. tx'[refund].kind # "reversal" /\ tx'[refund].status = "confirmed"
    BY <2>5 DEF Record
  <2> HIDE DEF r
  <2> QED  BY <1>2, <2>2, <2>3, <2>6, <2>7
<1>10. ASSUME NEW c \in Clients, NEW reversal \in Ids, Reverse(c, reversal)
       PROVE  MoneyIsConserved'
  BY <1>a, <1>10, ReverseConserves
<1>11. ASSUME NEW c \in Clients, SoftDelete(c)
       PROVE  MoneyIsConserved'
  <2> DEFINE r == request[c].id
  <2>1. r \in Ids
    BY <1>11, RunsFacts DEF SoftDelete, Operations
  <2>2. Negated(posted[r]) \in Effects
    BY <1>b, <2>1 DEF Negated, Effects
  <2> QED  BY <1>4, <1>11, <2>1, <2>2 DEF SoftDelete, Confirmed
<1>12. ASSUME NEW c \in Clients, Restore(c)
       PROVE  MoneyIsConserved'
  <2> DEFINE r == request[c].id
  <2>1. r \in Ids /\ saved[r] \in Effects
    BY <1>b, <1>12, RunsFacts DEF Restore, Operations
  <2>2. /\ Post(r, saved[r]) /\ tx[r].status = "deleted"
        /\ tx' = [tx EXCEPT ![r] = Updated(tx[r], "confirmed", tx[r].amount)]
    BY <1>12 DEF Restore
  <2>3. tx[r].kind # "reversal"
    BY <1>c, <2>1, <2>2 DEF Confirmed
  <2> QED  BY <1>4, <2>1, <2>2, <2>3
<1>13. ASSUME NEW a \in Accounts, ArchiveAccount(a) \/ RestoreAccount(a) \/ CloseAccount(a)
       PROVE  MoneyIsConserved'
  BY <1>13, <1>1 DEF ArchiveAccount, RestoreAccount, CloseAccount, MoveAccount
<1>14. ASSUME NEW c \in Clients, NEW id \in Ids, NEW op \in Operations,
              NEW x \in Amounts \union {0}, Prepare(c, id, op, x)
       PROVE  MoneyIsConserved'
  BY <1>14, <1>1 DEF Prepare
<1>15. ASSUME NEW c \in Clients, Abandon(c)
       PROVE  MoneyIsConserved'
  BY <1>15, <1>1 DEF Abandon
<1>16. ASSUME NEW id \in Ids, UndoExpires(id)
       PROVE  MoneyIsConserved'
  BY <1>16, <1>1 DEF UndoExpires
<1>17. CASE UNCHANGED vars
  BY <1>17, <1>1 DEF vars
<1> QED
  BY <1>5, <1>6, <1>7, <1>8, <1>9, <1>10, <1>11, <1>12, <1>13, <1>14, <1>15, <1>16, <1>17 DEF Next

\* No money appears or disappears: whatever commands run, the balances of all
\* accounts together are what the rows of the confirmed transactions say.
\* Invariant under the commands only together with PostingsFollowHeader: what
\* a reversal or a deletion takes back is what was posted, and that is what
\* the row says (phase05_ledger_commands.sql, every ledger_apply_posting).
THEOREM MoneyConserved == Spec => []MoneyIsConserved
<1> DEFINE AllFollow == \A id \in Ids : Follows(id)
<1>1. Init => TypeOK /\ Links /\ AllFollow
  <2>1. Init => AllFollow
    BY DEF Init, Follows, Absent
  <2> QED
    BY <2>1, TypeInit, LinksInit
<1>2. Init => MoneyIsConserved
  <2> SUFFICES ASSUME Init PROVE MoneyIsConserved
    OBVIOUS
  <2> DEFINE f == [id \in Ids |-> Net(tx[id], posted[id])]
  <2>1. DOMAIN f = Ids /\ \A id \in Ids : f[id] = 0
    BY DEF Init, Absent, Net
  <2>2. Total(balance) = 0
    BY TotalOfNegated, EffectsClosed DEF Init, Nothing, Effects
  <2>3. Total(f) = 0
    <3> HIDE DEF f
    <3> QED  BY <2>1, IdsAssumption, TotalOfZeros
  <2> QED  BY <2>2, <2>3 DEF MoneyIsConserved
<1>3. TypeOK /\ Links /\ AllFollow /\ MoneyIsConserved /\ [Next]_vars =>
        TypeOK' /\ Links' /\ AllFollow' /\ MoneyIsConserved'
  BY TypeStep, LinksStep, FollowsStep, ConservesStep
<1> HIDE DEF AllFollow
<1> QED
  BY <1>1, <1>2, <1>3, PTL DEF Spec
(***************************************************************************)
(* Refunds.  RefundsWithinOriginal is violated (run ledger_refunds); here  *)
(* is why: nothing but a revision can break it.                            *)
(***************************************************************************)
\* No expense is revised to less than has been refunded of it: the condition
\* that revise_transaction does not check.
RevisionsCoverRefunds ==
  [][\A c \in Clients, a \in Accounts :
       Revise(c, a) => Refunded(request[c].id) <= request[c].next]_vars

\* What has been refunded is a sum of amounts of confirmed refunds.
LEMMA RefundedIsInt ==
  ASSUME TypeOK, NEW id \in Ids
  PROVE  Refunded(id) \in Int
<1> DEFINE f == [d \in Dependents(id, {"refund"}) |-> tx[d].amount]
<1>1. DOMAIN f \subseteq Ids /\ \A d \in DOMAIN f : f[d] \in Int
  BY DEF Dependents, TypeOK, Transactions
<1>2. IsFiniteSet(DOMAIN f)
  BY <1>1, IdsAssumption, FS_Subset
<1> HIDE DEF f
<1>3. Total(f) \in Int
  BY <1>1, <1>2, TotalIsInt
<1> QED  BY <1>3 DEF Refunded, f

\* Only a confirmed transaction has confirmed refunds.
LEMMA OthersHaveNoRefunds ==
  ASSUME Links, NEW id \in Ids, ~Confirmed(id)
  PROVE  Dependents(id, {"refund"}) = {} /\ Refunded(id) = 0
<1>1. Dependents(id, {"refund"}) = {}
  BY DEF Dependents, Links, RefundsHaveOriginal
<1> DEFINE f == [d \in Dependents(id, {"refund"}) |-> tx[d].amount]
<1>2. DOMAIN f = {}
  BY <1>1
<1> HIDE DEF f
<1>3. Total(f) = 0
  BY <1>2, TotalOfNothing
<1> QED  BY <1>1, <1>3 DEF Refunded, f

\* A command that touches no refund leaves what has been refunded.
LEMMA SameRefunds ==
  ASSUME NEW id \in Ids, NEW t \in Ids, tx[t].kind # "refund", tx'[t].kind # "refund",
         \A d \in Ids \ {t} : tx'[d] = tx[d]
  PROVE  Refunded(id)' = Refunded(id)
<1>1. Dependents(id, {"refund"})' = Dependents(id, {"refund"})
  BY DEF Dependents, Confirmed
<1>2. \A d \in Dependents(id, {"refund"}) : tx'[d].amount = tx[d].amount
  BY DEF Dependents, Confirmed
<1>3. [d \in Dependents(id, {"refund"})' |-> tx'[d].amount] = [d \in Dependents(id, {"refund"}) |-> tx[d].amount]
  BY <1>1, <1>2
<1> QED  BY <1>3 DEF Refunded

LEMMA PlainStepCovers ==
  ASSUME TypeOK, TypeOK', Links, RefundsWithinOriginal, NEW t \in Ids,
         tx[t].kind # "refund", tx'[t].kind # "refund",
         \A d \in Ids \ {t} : tx'[d] = tx[d],
         Confirmed(t) => Refunded(t) <= tx'[t].amount
  PROVE  RefundsWithinOriginal'
<1> SUFFICES ASSUME NEW id \in Ids, Confirmed(id)' PROVE Refunded(id)' <= tx'[id].amount
  BY DEF RefundsWithinOriginal
<1>1. Refunded(id)' = Refunded(id)
  BY SameRefunds
<1>2. CASE id # t
  BY <1>1, <1>2 DEF RefundsWithinOriginal, Confirmed
<1>3. CASE id = t /\ Confirmed(t)
  BY <1>1, <1>3
<1>4. CASE id = t /\ ~Confirmed(t)
  <2>1. Refunded(id) = 0
    BY <1>4, OthersHaveNoRefunds
  <2>2. 0 <= tx'[id].amount
    BY LimitAssumption DEF TypeOK, Transactions
  <2> QED  BY <1>1, <2>1, <2>2
<1> QED  BY <1>2, <1>3, <1>4

\* A refund is checked against the refunds there are.
LEMMA RefundCovers ==
  ASSUME TypeOK, TypeOK', Links, RefundsWithinOriginal,
         NEW c \in Clients, NEW refund \in Ids, NEW a \in Accounts, NEW x \in Amounts,
         Refund(c, refund, a, x)
  PROVE  RefundsWithinOriginal'
<1> DEFINE r == request[c].id
<1>1. r \in Ids /\ tx[r] \in Transactions
  BY RunsFacts DEF Refund, Operations
<1>2. /\ tx[r].status = "confirmed" /\ tx[r].kind = "expense" /\ tx[refund].status = "none"
      /\ Refunded(r) + x <= tx[r].amount
      /\ tx' = [tx EXCEPT ![r] = Updated(tx[r], "confirmed", tx[r].amount),
                          ![refund] = Record("refund", x, 0, r)]
  BY DEF Refund, Confirmed, Free
<1>3. refund # r
  BY <1>2
<1>4. /\ tx'[refund] = Record("refund", x, 0, r) /\ tx'[r] = Updated(tx[r], "confirmed", tx[r].amount)
      /\ \A d \in Ids : d # refund /\ d # r => tx'[d] = tx[d]
  BY <1>1, <1>2, <1>3 DEF TypeOK
<1>5. /\ tx'[r].kind = tx[r].kind /\ tx'[r].reverses = tx[r].reverses
      /\ tx'[r].status = "confirmed" /\ tx'[r].amount = tx[r].amount
  BY <1>1, <1>4, UpdatedFields
<1>6. /\ tx'[refund].kind = "refund" /\ tx'[refund].reverses = r
      /\ tx'[refund].status = "confirmed" /\ tx'[refund].amount = x
  BY <1>4 DEF Record
<1> HIDE DEF r
<1> SUFFICES ASSUME NEW id \in Ids, tx'[id].status = "confirmed" PROVE Refunded(id)' <= tx'[id].amount
  BY DEF RefundsWithinOriginal, Confirmed
<1> DEFINE S == Dependents(id, {"refund"})
           T == Dependents(id, {"refund"})'
           f == [d \in S |-> tx[d].amount]
           g == [d \in T |-> tx'[d].amount]
<1>7. refund \notin S /\ r \notin S /\ r \notin T
  BY <1>2, <1>5 DEF Dependents, Confirmed
<1>8. \A d \in Ids \ {refund, r} : d \in T <=> d \in S
  BY <1>4 DEF Dependents, Confirmed
<1>9. refund \in T <=> id = r
  BY <1>6 DEF Dependents, Confirmed
<1>10. S \subseteq Ids /\ T \subseteq Ids
  BY DEF Dependents
<1>11. Refunded(id) = Total(f) /\ Refunded(id)' = Total(g)
  BY DEF Refunded
<1>12. CASE id = r
  <2>1. T = S \union {refund}
    BY <1>7, <1>8, <1>9, <1>10, <1>12
  <2>2. DOMAIN g = T /\ DOMAIN f = S /\ S = T \ {refund} /\ refund \in T
    BY <1>7, <2>1
  <2>3. \A d \in T : g[d] \in Int
    BY <1>10 DEF TypeOK, Transactions
  <2>4. \A d \in S : f[d] = g[d]
    BY <1>4, <1>7, <1>10, <2>1
  <2>5. g[refund] = x
    BY <1>6, <2>1
  <2>6. IsFiniteSet(T)
    BY <1>10, IdsAssumption, FS_Subset
  <2>7. Total(g) = Total(f) + x
    <3> HIDE DEF f, g, S, T
    <3>1. Total(g) = Total(f) + g[refund]
      BY <2>2, <2>3, <2>4, <2>6, TotalWithoutOne
    <3> QED  BY <2>5, <3>1
  <2>8. Total(f) + x <= tx[id].amount
    BY <1>2, <1>11, <1>12 DEF r
  <2>9. tx'[id].amount = tx[id].amount
    BY <1>5, <1>12
  <2> HIDE DEF f, g, S, T
  <2> QED  BY <1>11, <2>7, <2>8, <2>9
<1>13. CASE id # r
  <2>1. T = S
    BY <1>7, <1>8, <1>9, <1>10, <1>13
  <2>2. f = g
    BY <1>4, <1>7, <1>10, <2>1
  <2>3. CASE id = refund
    <3>1. Refunded(id) = 0
      BY <1>2, <2>3, OthersHaveNoRefunds DEF Confirmed
    <3>2. 0 <= tx'[id].amount
      BY LimitAssumption DEF TypeOK, Transactions
    <3> QED  BY <1>11, <2>2, <3>1, <3>2
  <2>4. CASE id # refund
    <3>1. tx'[id] = tx[id]
      BY <1>4, <1>13, <2>4
    <3>2. Refunded(id) <= tx[id].amount
      BY <3>1 DEF RefundsWithinOriginal, Confirmed
    <3> QED  BY <1>11, <2>2, <3>1, <3>2
  <2> QED  BY <2>3, <2>4
<1> QED  BY <1>12, <1>13
\* A reversal, of a refund or of anything else, only takes refunds away.
LEMMA ReverseCovers ==
  ASSUME TypeOK, TypeOK', Links, RefundsWithinOriginal,
         NEW c \in Clients, NEW reversal \in Ids, Reverse(c, reversal)
  PROVE  RefundsWithinOriginal'
<1> DEFINE r == request[c].id
<1>1. r \in Ids /\ tx[r] \in Transactions
  BY RunsFacts DEF Reverse, Operations
<1>2. /\ tx[r].status = "confirmed" /\ tx[reversal].status = "none"
      /\ tx' = [tx EXCEPT ![r] = Updated(tx[r], "reversed", tx[r].amount),
                          ![reversal] = Record("reversal", tx[r].amount, tx[r].fee, r)]
  BY DEF Reverse, Confirmed, Free
<1>3. reversal # r
  BY <1>2
<1>4. /\ tx'[reversal] = Record("reversal", tx[r].amount, tx[r].fee, r)
      /\ tx'[r] = Updated(tx[r], "reversed", tx[r].amount)
      /\ \A d \in Ids : d # reversal /\ d # r => tx'[d] = tx[d]
  BY <1>1, <1>2, <1>3 DEF TypeOK
<1>5. tx'[r].status = "reversed" /\ tx'[reversal].kind = "reversal"
  <2>1. tx'[r].status = "reversed"
    BY <1>1, <1>4, UpdatedFields
  <2> QED  BY <1>4, <2>1 DEF Record
<1> HIDE DEF r
<1> SUFFICES ASSUME NEW id \in Ids, tx'[id].status = "confirmed" PROVE Refunded(id)' <= tx'[id].amount
  BY DEF RefundsWithinOriginal, Confirmed
<1> DEFINE S == Dependents(id, {"refund"})
           T == Dependents(id, {"refund"})'
           f == [d \in S |-> tx[d].amount]
           g == [d \in T |-> tx'[d].amount]
<1>6. T = S \ {r} /\ S \subseteq Ids
  <2>1. r \notin T /\ reversal \notin T /\ reversal \notin S
    BY <1>2, <1>5 DEF Dependents, Confirmed
  <2>2. \A d \in Ids \ {reversal, r} : d \in T <=> d \in S
    BY <1>4 DEF Dependents, Confirmed
  <2>3. S \subseteq Ids /\ T \subseteq Ids
    BY DEF Dependents
  <2> QED  BY <2>1, <2>2, <2>3
<1>7. Refunded(id) = Total(f) /\ Refunded(id)' = Total(g)
  BY DEF Refunded
<1>8. /\ DOMAIN f = S /\ DOMAIN g = T /\ IsFiniteSet(S)
      /\ \A d \in S : f[d] \in 0..Limit
      /\ \A d \in T : g[d] = f[d]
  <2>1. reversal \notin S
    BY <1>2 DEF Dependents, Confirmed
  <2>2. \A d \in T : tx'[d] = tx[d]
    BY <1>4, <1>6, <2>1
  <2>3. IsFiniteSet(S)
    BY <1>6, IdsAssumption, FS_Subset
  <2>4. \A d \in S : tx[d].amount \in 0..Limit
    BY <1>6 DEF TypeOK, Transactions
  <2> QED  BY <1>6, <2>2, <2>3, <2>4
<1>9. Total(g) <= Total(f)
  <2> HIDE DEF f, g, S, T
  <2>1. CASE r \in S
    <3>1. \A d \in DOMAIN f : f[d] \in Int
      BY <1>8, LimitAssumption
    <3>2. Total(f) = Total(g) + f[r]
      BY <1>6, <1>8, <2>1, <3>1, TotalWithoutOne
    <3>3. IsFiniteSet(T) /\ \A d \in DOMAIN g : g[d] \in Int
      BY <1>6, <1>8, <3>1, FS_Subset
    <3>4. Total(g) \in Int
      BY <1>8, <3>3, TotalIsInt
    <3>5. f[r] \in Nat
      BY <1>8, <2>1, LimitAssumption
    <3> QED  BY <3>2, <3>4, <3>5
  <2>2. CASE r \notin S
    <3>1. T = S
      BY <1>6, <2>2
    <3>2. \A d \in DOMAIN f : f[d] \in Int /\ g[d] \in Int /\ g[d] <= f[d]
      BY <1>8, <3>1, LimitAssumption
    <3> QED  BY <1>8, <3>1, <3>2, TotalIsMonotone
  <2> QED  BY <2>1, <2>2
<1>10. Refunded(id) \in Int /\ Refunded(id)' \in Int /\ tx[id].amount \in Nat /\ tx'[id].amount \in Nat
  <2>1. tx[id].amount \in 0..Limit /\ tx'[id].amount \in 0..Limit
    BY DEF TypeOK, Transactions
  <2>2. Refunded(id) \in Int
    BY RefundedIsInt
  <2>3. Total(g) \in Int
    <3> HIDE DEF f, g, S, T
    <3>1. IsFiniteSet(T)
      BY <1>6, <1>8, FS_Subset
    <3>2. \A d \in T : g[d] \in Int
      BY <1>6, <1>8, LimitAssumption
    <3> QED  BY <1>8, <3>1, <3>2, TotalIsInt
  <2> HIDE DEF f, g, S, T
  <2> QED  BY <1>7, <2>1, <2>2, <2>3, LimitAssumption
<1>11. CASE id = reversal
  <2>1. Refunded(id) = 0
    BY <1>2, <1>11, OthersHaveNoRefunds DEF Confirmed
  <2> HIDE DEF f, g, S, T
  <2> QED  BY <1>7, <1>9, <1>10, <2>1
<1>12. CASE id # reversal
  <2>1. tx'[id] = tx[id]
    BY <1>4, <1>5, <1>12
  <2>2. Refunded(id) <= tx[id].amount
    BY <2>1 DEF RefundsWithinOriginal, Confirmed
  <2> HIDE DEF f, g, S, T
  <2> QED  BY <1>7, <1>9, <1>10, <2>1, <2>2
<1> QED  BY <1>11, <1>12

\* Every step but such a revision keeps refunds within their originals.
LEMMA CoversStep ==
  ASSUME TypeOK, Links, RefundsWithinOriginal, [Next]_vars,
         \A c \in Clients, a \in Accounts :
           Revise(c, a) => Refunded(request[c].id) <= request[c].next
  PROVE  RefundsWithinOriginal'
<1>a. TypeOK'
  BY TypeStep
<1>b. \A id \in Ids : Free(id) => tx[id].kind = "none"
  BY DEF Links, KindsStay, Free
<1>1. ASSUME UNCHANGED tx
      PROVE  RefundsWithinOriginal'
  BY <1>1 DEF RefundsWithinOriginal, Refunded, Dependents, Confirmed
<1>2. ASSUME NEW new \in Ids, NEW kind, NEW x, NEW y, Free(new), kind # "refund",
             tx' = [tx EXCEPT ![new] = Record(kind, x, y, NoId)]
      PROVE  RefundsWithinOriginal'
  <2>1. /\ tx'[new].kind = kind /\ tx[new].kind = "none" /\ ~Confirmed(new)
        /\ \A d \in Ids \ {new} : tx'[d] = tx[d]
    BY <1>b, <1>2 DEF TypeOK, Record, Free, Confirmed
  <2> QED  BY <1>a, <1>2, <2>1, PlainStepCovers
<1>3. ASSUME NEW t \in Ids, NEW status \in {"confirmed", "deleted"}, NEW amount, tx[t].kind # "refund",
             tx' = [tx EXCEPT ![t] = Updated(tx[t], status, amount)],
             Confirmed(t) => Refunded(t) <= amount
      PROVE  RefundsWithinOriginal'
  <2>1. tx'[t] = Updated(tx[t], status, amount) /\ \A d \in Ids \ {t} : tx'[d] = tx[d]
    BY <1>3 DEF TypeOK
  <2>2. tx[t] \in Transactions
    BY DEF TypeOK
  <2>3. tx'[t].kind = tx[t].kind /\ tx'[t].amount = amount
    BY <2>1, <2>2, UpdatedFields
  <2> QED  BY <1>a, <1>3, <2>1, <2>3, PlainStepCovers
<1>4. ASSUME NEW c \in Clients, NEW a \in Accounts, Revise(c, a)
      PROVE  RefundsWithinOriginal'
  <2> DEFINE t == request[c].id
  <2>1. t \in Ids
    BY <1>4, RunsFacts DEF Revise, Operations
  <2>2. tx[t].kind # "refund" /\ tx' = [tx EXCEPT ![t] = Updated(tx[t], "confirmed", request[c].next)]
    BY <1>4 DEF Revise
  <2>3. Refunded(t) <= request[c].next
    BY <1>4
  <2> HIDE DEF t
  <2> QED  BY <1>3, <2>1, <2>2, <2>3
<1>5. ASSUME NEW c \in Clients, SoftDelete(c)
      PROVE  RefundsWithinOriginal'
  <2> DEFINE t == request[c].id
  <2>1. t \in Ids
    BY <1>5, RunsFacts DEF SoftDelete, Operations
  <2>2. tx[t].kind # "refund" /\ tx' = [tx EXCEPT ![t] = Updated(tx[t], "deleted", tx[t].amount)]
    BY <1>5 DEF SoftDelete
  <2>3. Confirmed(t) => Refunded(t) <= tx[t].amount
    BY <2>1 DEF RefundsWithinOriginal
  <2> HIDE DEF t
  <2> QED  BY <1>3, <2>1, <2>2, <2>3
<1>6. ASSUME NEW c \in Clients, Restore(c)
      PROVE  RefundsWithinOriginal'
  <2> DEFINE t == request[c].id
  <2>1. t \in Ids
    BY <1>6, RunsFacts DEF Restore, Operations
  <2>2. /\ tx[t].status = "deleted"
        /\ tx' = [tx EXCEPT ![t] = Updated(tx[t], "confirmed", tx[t].amount)]
    BY <1>6 DEF Restore
  <2>3. tx[t].kind # "refund"
    BY <2>1, <2>2 DEF Links, KindsStay
  <2>4. Confirmed(t) => Refunded(t) <= tx[t].amount
    BY <2>2 DEF Confirmed
  <2> HIDE DEF t
  <2> QED  BY <1>3, <2>1, <2>2, <2>3, <2>4
<1>7. ASSUME NEW c \in Clients, NEW refund \in Ids, NEW a \in Accounts, NEW x \in Amounts,
             Refund(c, refund, a, x)
      PROVE  RefundsWithinOriginal'
  BY <1>a, <1>7, RefundCovers
<1>8. ASSUME NEW c \in Clients, NEW reversal \in Ids, Reverse(c, reversal)
      PROVE  RefundsWithinOriginal'
  BY <1>a, <1>8, ReverseCovers
<1>9. ASSUME NEW a \in Accounts, NEW new \in Ids, NEW x \in Openings, CreateAccount(a, new, x)
      PROVE  RefundsWithinOriginal'
  BY <1>1, <1>2, <1>9 DEF CreateAccount, books
<1>10. ASSUME NEW new \in Ids, NEW kind \in {"income", "expense"}, NEW x \in Amounts,
              NEW a \in Accounts, PostTransaction(new, kind, x, a)
       PROVE  RefundsWithinOriginal'
  BY <1>2, <1>10 DEF PostTransaction
<1>11. ASSUME NEW new \in Ids, NEW s \in Accounts, NEW d \in Accounts, NEW f \in Accounts,
              NEW x \in Amounts, NEW y \in Fees, TransferFunds(new, s, d, f, x, y)
       PROVE  RefundsWithinOriginal'
  BY <1>2, <1>11 DEF TransferFunds
<1>12. ASSUME NEW a \in Accounts, ArchiveAccount(a) \/ RestoreAccount(a) \/ CloseAccount(a)
       PROVE  RefundsWithinOriginal'
  BY <1>12, <1>1 DEF ArchiveAccount, RestoreAccount, CloseAccount, MoveAccount
<1>13. ASSUME NEW c \in Clients, NEW id \in Ids, NEW op \in Operations,
              NEW x \in Amounts \union {0}, Prepare(c, id, op, x)
       PROVE  RefundsWithinOriginal'
  BY <1>13, <1>1 DEF Prepare
<1>14. ASSUME NEW c \in Clients, Abandon(c)
       PROVE  RefundsWithinOriginal'
  BY <1>14, <1>1 DEF Abandon
<1>15. ASSUME NEW id \in Ids, UndoExpires(id)
       PROVE  RefundsWithinOriginal'
  BY <1>15, <1>1 DEF UndoExpires
<1>16. CASE UNCHANGED vars
  BY <1>16, <1>1 DEF vars
<1> QED
  BY <1>4, <1>5, <1>6, <1>7, <1>8, <1>9, <1>10, <1>11, <1>12, <1>13, <1>14, <1>15, <1>16 DEF Next

\* Refunds never exceed their original, whatever refunds, reversals of
\* refunds, deletions and restorations happen in whatever order, as long as
\* no revision goes below them: the check missing in revise_transaction
\* (phase05_ledger_commands.sql:304) is the only one missing.
THEOREM OnlyRevisionsExceed ==
  Spec /\ RevisionsCoverRefunds => []RefundsWithinOriginal
<1> DEFINE Covers == \A c \in Clients, a \in Accounts :
                       Revise(c, a) => Refunded(request[c].id) <= request[c].next
<1>1. Init => TypeOK /\ Links /\ RefundsWithinOriginal
  <2>1. Init => RefundsWithinOriginal
    BY DEF Init, Absent, RefundsWithinOriginal, Confirmed
  <2> QED  BY <2>1, TypeInit, LinksInit
<1>2. TypeOK /\ Links /\ RefundsWithinOriginal /\ [Next]_vars /\ [Covers]_vars =>
        TypeOK' /\ Links' /\ RefundsWithinOriginal'
  <2>1. CASE UNCHANGED vars
    BY <2>1, TypeStep, LinksStep DEF vars, RefundsWithinOriginal, Refunded, Dependents, Confirmed
  <2>2. CASE ~UNCHANGED vars
    BY <2>2, TypeStep, LinksStep, CoversStep
  <2> QED  BY <2>1, <2>2
<1> HIDE DEF Covers
<1> QED
  BY <1>1, <1>2, PTL DEF Spec, RevisionsCoverRefunds, Covers
=============================================================================
