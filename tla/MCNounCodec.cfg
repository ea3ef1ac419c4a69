CONSTANTS
  ByteBits = 3
  Literals = 3
  Short = 3
  MaxChunks = 5
  UsizeBytes = 4
  MaxLength = 24
  Nouns <- MCNouns
SPECIFICATION Spec
INVARIANTS
  ReadBackOrRejected
  LengthChangeNoticed
  MemoryBounded
  SerializationIdentifies
CHECK_DEADLOCK FALSE
