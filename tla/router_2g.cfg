SPECIFICATION FairSpec
CONSTANTS
  Fwin = 2
  NGroups = 2
  SendRxRequest = TRUE
  StoreMode = TRUE
  MaxData = 8
  MaxSmall = 1
INVARIANTS
  TypeOK
  TablesCoverPath
  SearchesEnd
  Conservation
  RequestedOnce
  LossesCounted
  RecoveryExact
PROPERTIES
  HeldReleased
  ImplementsFecPath
CHECK_DEADLOCK FALSE
