CONSTANTS
  first = first
  second = second
  other = other
  Ops = {first}
  Deps <- Chain
  Kind <- Mixed
  Invalid = {}
  Workers = {w1, w2}
  BatchLimit = 2
  MaxAttempts = 2
  NoWorker = NoWorker
SPECIFICATION Spec
INVARIANT ConflictHasNoEffect
CHECK_DEADLOCK FALSE
