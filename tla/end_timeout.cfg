SPECIFICATION Spec
CONSTANTS
  Fwin = 2
  NGroups = 2
  SendRxRequest = FALSE
  FecMode = "Dynamic"
  BoundMode = "IN"
  AckMode = TRUE
  Fmax = 2
  Windows = {5, 8}
  ReTxThresh = 1
  MaxSeg = 4
  MaxLoss = 2
  MaxSpurious = 1
INVARIANTS
  SearchesEnd
PROPERTIES
  ImplementsFecPath
CHECK_DEADLOCK FALSE
