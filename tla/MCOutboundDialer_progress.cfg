CONSTANTS
  Leads = {l1}
  Attempts = {a1, a2}
  MaxConcurrent = 2
  OperatorOps = {"start", "pause", "stop", "archive", "cancel", "ignore", "delete"}
  Faults = {}
  MaxCrashes = 1
  HistoryEnabled = TRUE
  Timing = {"patient_watchdog", "setup_first"}
SPECIFICATION FairSpec
PROPERTIES
  LeadsSettle
  CapacityFlows
  CampaignCompletes
  CompletedWhenDone
