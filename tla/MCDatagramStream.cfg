CONSTANTS
  Window = 8
  Batch = 2
  Lookahead = 4
  MaxSend = 11
  OverflowChecks = TRUE
SPECIFICATION Spec
INVARIANTS
  TypeOK
  LabelsMatchNonces
  WindowMatchesExpected
  NeverAheadOfWindow
  BurstTolerance
  ReorderTolerance
PROPERTY AtMostOnce
CHECK_DEADLOCK FALSE
