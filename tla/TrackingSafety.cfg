CONSTANTS
  Sessions = {s1, s2}
  Items = {i1, i2}
  Sources = {k1, k2}
  Manual = {m}
  Similar <- AllSimilar
  Clients = {c1, c2}
  AttemptLimit = 2
  None = None
SPECIFICATION Spec
INVARIANTS TypeOK OneTransactionPerSource ReviewIsOpen CompleteIsSettled LinksAreRight
PROPERTY OwnerDecides
CONSTRAINT Focus
SYMMETRY Symmetry
CHECK_DEADLOCK FALSE
