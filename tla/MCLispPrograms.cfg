CONSTANTS
  ByteBits = 8
  OverflowChecks = FALSE
  UsizeBytes = 2
  NounSize = 16
  AllocationBound = 100
  Plenty = 1000
  Limits <- MCLimits
  Sources <- MCSources
SPECIFICATION Spec
INVARIANT ParsesWhatIsWritten
INVARIANT CompilesWhatIsWellFormed
INVARIANT MeansWhatItSays
INVARIANT OnlyTicksStopIt
CHECK_DEADLOCK FALSE
