CONSTANTS
  Transactions = {t1, t2}
  Obligations = {o1}
  Count = 2
  Installment = 2
  Residual = 1
  MaxPayments = 3
  Amounts = {1, 2}
  NoTransaction = NoTransaction
SPECIFICATION Spec
INVARIANTS TypeOK PaidIsDerived StatusAgrees PaymentsFollowLedger NoImplicitExcess
CONSTRAINT Focus
SYMMETRY Symmetry
CHECK_DEADLOCK FALSE
