SPECIFICATION Spec
CONSTANTS
  Fwin = 1
  NGroups = 3
  SendRxRequest = TRUE
  StoreMode = TRUE
  MaxData = 7
  MaxSmall = 0
INVARIANTS
  InOrder
  RecoveryExact
CHECK_DEADLOCK FALSE
