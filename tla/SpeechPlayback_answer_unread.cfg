CONSTANTS
  MaxAnswers = 2
  MaxChunks = 3
  QueueCap = 1
  JitterCap = 2
  Bargers = {}
  Downstream = {"stream"}
  Faults = {}
SPECIFICATION FairSpec
CHECK_DEADLOCK FALSE
PROPERTIES
  AnswersPlayed
