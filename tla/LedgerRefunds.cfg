CONSTANTS
  Clients = {c1}
  Recent = {c1}
  Accounts = {a1, a2}
  Ids = {t1, t2}
  Amounts = {1, 2}
  Fees = {0, 1}
  Openings <- SomeOpenings
  Limit = 2
  Threshold = 3
  MaxVersion = 4
  NoId = NoId
SPECIFICATION Spec
INVARIANT RefundsWithinOriginal
SYMMETRY Symmetry
CHECK_DEADLOCK FALSE
