CONSTANTS
  first = first
  second = second
  other = other
  Ops = {first, second, other}
  Deps <- Chain
  Kind <- Mixed
  Invalid = {}
  Workers = {w1, w2}
  BatchLimit = 2
  MaxAttempts = 2
  NoWorker = NoWorker
SPECIFICATION Spec
SYMMETRY Symmetry
INVARIANTS AppliedExactlyOnce DependenciesFirst
PROPERTY TerminalIsFinal
CHECK_DEADLOCK FALSE
