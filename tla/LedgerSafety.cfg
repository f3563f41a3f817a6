CONSTANTS
  Clients = {c1, c2}
  Recent = {c2}
  Accounts = {a1, a2}
  Ids = {t1, t2, t3}
  Amounts = {1, 2}
  Fees = {0, 1}
  Openings <- SomeOpenings
  Limit = 2
  Threshold = 2
  MaxVersion = 3
  NoId = NoId
SPECIFICATION Spec
INVARIANTS TypeOK BalancesAddUp PostingsFollowHeader MoneyIsConserved DependentsKeepOriginal
PROPERTIES LargeChangesAreRecent KeepsLifecycle
CONSTRAINT Focus
SYMMETRY Symmetry
CHECK_DEADLOCK FALSE
