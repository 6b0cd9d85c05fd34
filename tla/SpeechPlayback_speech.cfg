CONSTANTS
  MaxAnswers = 3
  MaxChunks = 3
  QueueCap = 1
  JitterCap = 2
  Bargers = {b1, b2}
  Downstream = {"stream", "file"}
  Faults = {"event_loss", "play_error"}
SPECIFICATION FairSpec
CHECK_DEADLOCK FALSE
INVARIANTS
  TypeOK
  CaptureMirrorsTokens
PROPERTIES
  OpensWhenSilent
  TokensKeepOwner
  CaptureReturns
