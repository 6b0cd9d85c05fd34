CONSTANTS
  Leads = {l1, l2}
  Attempts = {a1, a2}
  MaxConcurrent = 2
  OperatorOps = {}
  Faults = {}
  MaxCrashes = 0
  HistoryEnabled = TRUE
  Timing = {"patient_watchdog", "setup_first"}
SPECIFICATION Spec
SYMMETRY Symmetry
PROPERTIES
  ConversationKept
