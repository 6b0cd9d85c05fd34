CONSTANTS
  MaxPorts = 1
  MaxNeighbours = 0
  Faults = {}
SPECIFICATION Spec
CHECK_DEADLOCK FALSE
INVARIANTS
  NoOrphanChannel
