CONSTANTS
  first = first
  second = second
  other = other
  Ops = {first, second, other}
  Deps <- Chain
  Kind <- KeyedMix
  Invalid = {other}
  Workers = {w1}
  BatchLimit = 2
  MaxAttempts = 3
  NoWorker = NoWorker
SPECIFICATION FairSpec
INVARIANTS ReplayIsRecognised RejectedHasNoEffect
PROPERTY EverySettles
CHECK_DEADLOCK FALSE
