CONSTANTS
  Words = 16
  MemoryMax = 6
  WordReadMax = 4
  KeyWords = 2
  AddressWords = 2
  HashCost = 2
  SendCost = 3
  CostMax = 9
  Programs <- MCPrograms
  MaxSteps = 8
SPECIFICATION Spec
INVARIANTS
  TypeOK
  CostBoundsSteps
PROPERTIES
  RequestsCharged
  FaultsLeaveState
CHECK_DEADLOCK FALSE
