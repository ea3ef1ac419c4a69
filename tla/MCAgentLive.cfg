CONSTANTS
  Window = 5
  Batch = 1
  Lookahead = 2
  Keystream <- DistinctKeystream
  OverflowChecks = TRUE
  None = None
  Agents = {1, 2}
  Initiators = {1}
  Payloads = {"program"}
  DuplicateInitiation = FALSE
  LoseConsumed = TRUE
  MaxInitiations = 1
  MaxSends = 7
  MaxRestarts = 0
SPECIFICATION FairSpec
PROPERTIES
  StreamEstablished
  InitiatorsProgramsRun
CHECK_DEADLOCK FALSE
