CONSTANTS
  U32Max = 63
  Header = 8
  Slack = 4
  MaxPayload = 140
SPECIFICATION Spec
INVARIANTS
  RoundTrip
  PrepareNeverPanics
  SliceInPacket
CHECK_DEADLOCK FALSE
