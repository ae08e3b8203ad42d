SPECIFICATION ForceSpec
CONSTANTS
  c1 = c1
  c2 = c2
  ch1 = ch1
  ch2 = ch2
  Circ <- Circ2
  Chan <- Chan2
  PeerId = {1}
  OwnId = {2}
  NULL = NULL
  RESERVED = RESERVED
  MaxPendingTasks = 1
  MaxDestroys = 1
SYMMETRY Symmetry2
INVARIANT
  DetachAllFindsCircuits
