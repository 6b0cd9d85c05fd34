CONSTANTS
  MaxTurns = 1
  MaxDrops = 1
  Faults = {"no_audio", "stall", "refused"}
  Timing = {}
SPECIFICATION FairSpec
CHECK_DEADLOCK FALSE
INVARIANTS
  TypeOK
  HangupWanted
  InputReturns
  ConnectionReturns
PROPERTIES
  CallEnds
  VadReturns
