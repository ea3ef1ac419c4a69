CONSTANTS
  Window = 2
  Batch = 1
  Lookahead = 1
  Keystream <- CollidingKeystream
  OverflowChecks = TRUE
  None = None
  Agents = {1, 2}
  Initiators = {1, 2}
  Payloads = {"program", "unaligned", "oversized"}
  DuplicateInitiation = FALSE
  LoseConsumed = FALSE
  MaxInitiations = 2
  MaxSends = 3
  MaxRestarts = 1
SPECIFICATION Spec
INVARIANTS
  ExpectedNamesNeighbor
  NonceUsedOnce
  AwaitedIsRecognized
  NeverAheadOfWindow
PROPERTY ExecutedAtMostOnce
CHECK_DEADLOCK FALSE
