SPECIFICATION Spec
CONSTANTS
  e1 = e1
  e2 = e2
  w1 = w1
  w2 = w2
  Events = {e1, e2}
  Malformed = {e2}
  Workers = {w1, w2}
  Copies = {1}
  BatchLimit = 2
  AttemptCap = 2
  NoWorker = NoWorker
  Flushed = Flushed
INVARIANTS PublishedIsUnlocked BackoffIsKept
PROPERTIES KeepsPromise LeaseIsExclusive
