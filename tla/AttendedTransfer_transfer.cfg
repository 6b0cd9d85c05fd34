CONSTANTS
  MaxLegs = 2
  Faults = {"originate_fails", "event_loss", "announce_fails"}
  Timing = {}
SPECIFICATION FairSpec
CHECK_DEADLOCK FALSE
INVARIANTS
  TypeOK
  NobodyAlone
  
  MappingsReleased
PROPERTIES
  DroppedLegKeepsCall
  
  TransferSettles
  CallerHeard
