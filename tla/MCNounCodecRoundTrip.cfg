CONSTANTS
  ByteBits = 3
  Literals = 3
  Short = 3
  MaxChunks = 5
  UsizeBytes = 4
  MaxLength = 24
  Nouns <- MCNouns
SPECIFICATION Spec
INVARIANT RoundTrip
CHECK_DEADLOCK FALSE
