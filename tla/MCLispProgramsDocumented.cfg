CONSTANTS
  ByteBits = 8
  OverflowChecks = TRUE
  UsizeBytes = 2
  NounSize = 16
  AllocationBound = 100
  Plenty = 1000
  Limits <- MCLimits
  Sources <- MCDocumentedSources
SPECIFICATION Spec
INVARIANT EvaluatesAsDocumented
CHECK_DEADLOCK FALSE
