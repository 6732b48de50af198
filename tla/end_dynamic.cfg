SPECIFICATION Spec
CONSTANTS
  Fwin = 1
  NGroups = 2
  SendRxRequest = FALSE
  FecMode = "Dynamic"
  BoundMode = "OUT"
  AckMode = TRUE
  Fmax = 0
  Windows = {1, 4}
  ReTxThresh = 1
  MaxSeg = 4
  MaxLoss = 2
  MaxSpurious = 0
INVARIANTS
  RoundShape
  LossesNotOvercounted
CHECK_DEADLOCK FALSE
