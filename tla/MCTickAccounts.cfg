CONSTANTS
  Accounts = {"zero", "a", "b"}
  Root = "zero"
  Grants <- MCGrants
  TickLimit = 5
  Opcodes <- MCOpcodes
  Charges = {0, 1}
SPECIFICATION FairSpec
INVARIANTS
  TypeOK
  CallersRestored
  DepthPaidFor
PROPERTIES
  LedgerKept
  StepsPaidFor
  Terminates
CHECK_DEADLOCK FALSE
