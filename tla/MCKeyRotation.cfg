CONSTANTS
  Window = 2
  Batch = 1
  Lookahead = 1
  Keystream <- CollidingKeystream
  OverflowChecks = TRUE
  None = None
  Neighbor = Bob
  IsLater = TRUE
  MaxPushes = 4
  MaxSend = 1
  MaxNumber = 2
SPECIFICATION Spec
INVARIANTS
  SlotsMatchSeeds
  TableMatchesWindows
  NeverAheadOfWindow
PROPERTIES
  StreamsNeverReset
  OneRenewalKeepsStream
CHECK_DEADLOCK FALSE
