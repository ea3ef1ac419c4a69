CONSTANTS
  Window = 2
  Batch = 1
  Lookahead = 1
  Keystream <- DistinctKeystream
  OverflowChecks = FALSE
  None = None
  Agents = {1, 2}
  Initiators = {1}
  Payloads = {"program"}
  DuplicateInitiation = TRUE
  LoseConsumed = FALSE
  MaxInitiations = 1
  MaxSends = 4
  MaxRestarts = 0
SPECIFICATION Spec
INVARIANT NeverAheadOfWindow
CHECK_DEADLOCK FALSE
