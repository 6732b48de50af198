SPECIFICATION Spec
CONSTANTS
  Fwin = 2
  NGroups = 2
  SendRxRequest = FALSE
  StoreMode = FALSE
  MaxData = 8
  MaxSmall = 1
INVARIANTS
  Conservation
CHECK_DEADLOCK FALSE
