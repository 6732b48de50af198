SPECIFICATION FairSpec
CONSTANTS
  Fwin = 4
  NGroups = 1
  FecMode = "Dynamic"
  BoundMode = "IN"
  Fmax = 0
  ReTxThresh = 3
  MaxSeg = 7
  SegSize = 7
  InitialCwnd = 2
  InitialSsThresh = 28
  RateNum = 1
  RateDen = 2
  RidWidth = 2
  DelAckMax = 2
  DataRetries = 6
  MaxLoss = 4
  MaxAckLoss = 1
  MaxSpurious = 1
INVARIANTS
  WindowCoversSegment
  NeverIdleWithData
  SlowedOncePerRound
PROPERTIES
  RestsOnFecPath
  AllAcknowledged
CHECK_DEADLOCK FALSE
