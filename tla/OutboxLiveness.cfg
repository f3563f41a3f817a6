CONSTANTS
  e1 = e1
  e2 = e2
  w1 = w1
  w2 = w2
  Events = {e1, e2}
  Malformed = {e2}
  Workers = {w1}
  Copies = {1}
  BatchLimit = 2
  AttemptCap = 1
  NoWorker = NoWorker
  Flushed = Flushed
SPECIFICATION FairSpec
PROPERTIES EventuallyPublished
