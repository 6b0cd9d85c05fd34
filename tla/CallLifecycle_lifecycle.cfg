CONSTANTS
  MaxPorts = 2
  MaxNeighbours = 1
  Faults = {"bridge_refused", "media_refused", "bind_fails", "media_dies", "provider_fails", "provider_drops", "slow_response", "end_first"}
SPECIFICATION Spec
CHECK_DEADLOCK FALSE
INVARIANTS
  TypeOK
  PortsReserved
  OneProvider
  AllReleased
PROPERTIES
  CallTornDown
  CallerServed
