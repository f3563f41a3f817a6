CONSTANTS
  Resources = {1, 2}
  Writers = {w1}
  Devices = {d1, d2}
  Revocable = {d2}
  MaxCursor = 2
SPECIFICATION FairSpec
INVARIANT StillAvailable
PROPERTY EveryDeviceCatchesUp
CHECK_DEADLOCK FALSE
