SPECIFICATION FairSpec
CONSTANTS
  Fwin = 2
  NGroups = 1
  FecMode = "Dynamic"
  BoundMode = "IN"
  Fmax = 0
  ReTxThresh = 3
  MaxSeg = 8
  SegSize = 4
  InitialCwnd = 7
  InitialSsThresh = 24
  RateNum = 1
  RateDen = 2
  RidWidth = 8
  DelAckMax = 1
  DataRetries = 3
  MaxLoss = 2
  MaxAckLoss = 2
  MaxSpurious = 1
PROPERTIES
  SsThreshOncePerSegment
CHECK_DEADLOCK FALSE
