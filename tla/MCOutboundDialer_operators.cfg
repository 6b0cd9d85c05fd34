CONSTANTS
  Leads = {l1}
  Attempts = {a1, a2}
  MaxConcurrent = 1
  OperatorOps = {"start", "pause", "stop", "archive", "import", "cancel", "ignore", "redial", "reset", "delete"}
  Faults = {}
  MaxCrashes = 0
  HistoryEnabled = TRUE
  Timing = {"patient_watchdog", "setup_first"}
SPECIFICATION Spec
SYMMETRY Symmetry
INVARIANTS
  LinesRespected
  NoStrandedLead
PROPERTIES
  UsesCallSlots
  UnreachedOnly
  OnlyDogRewrites
