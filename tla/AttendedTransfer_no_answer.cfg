CONSTANTS
  MaxLegs = 1
  Faults = {}
  Timing = {}
SPECIFICATION FairSpec
CHECK_DEADLOCK FALSE
PROPERTIES
  NoAnswerKeepsCall
