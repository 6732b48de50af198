SPECIFICATION FairSpec
CONSTANTS
  Fwin = 2
  NGroups = 2
  SendRxRequest = FALSE
  FecMode = "Static"
  BoundMode = "IN"
  AckMode = TRUE
  Fmax = 0
  Windows = {4, 6}
  ReTxThresh = 1
  MaxSeg = 5
  MaxLoss = 2
  MaxSpurious = 0
INVARIANTS
  SearchesEnd
  Conservation
  HeldNotOvertaken
  RebuiltWasLost
PROPERTIES
  AllAcknowledged
  ImplementsFecPath
CHECK_DEADLOCK FALSE
