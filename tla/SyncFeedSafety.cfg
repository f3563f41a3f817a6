CONSTANTS
  Resources = {1, 2}
  Writers = {w1, w2}
  Devices = {d1}
  Revocable = {}
  MaxCursor = 4
SPECIFICATION Spec
SYMMETRY WriterSymmetry
INVARIANTS TypeOK NothingMissed AckIsAccepted
CHECK_DEADLOCK FALSE
