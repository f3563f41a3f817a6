CONSTANTS
  Voice = {v}
  Messages = {m, t, g}
  Goals = {g}
  Targeted = {t}
  p1 = p1
  p2 = p2
  c1 = c1
  c2 = c2
  k1 = k1
  k2 = k2
  Workers = {p1, p2}
  Calls = {c1, c2}
  Keys = {k1, k2}
  RetryLimit = 2
  AttemptCap = 3
  MaxVersion = 5
  None = None
SPECIFICATION Spec
INVARIANTS TypeOK DoneHasResult EffectsAreConfirmed ExecutesOnce
PROPERTIES DecisionIsFinal RecordingOutlivesWork
CONSTRAINT Focus
SYMMETRY Symmetry
CHECK_DEADLOCK FALSE
