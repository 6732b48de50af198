SPECIFICATION Spec
CONSTANTS
  Fwin = 2
  NGroups = 1
  FecMode = "Dynamic"
  BoundMode = "IN"
  Fmax = 0
  ReTxThresh = 3
  MaxSeg = 6
  SegSize = 4
  InitialCwnd = 4
  InitialSsThresh = 16
  RateNum = 1
  RateDen = 2
  RidWidth = 8
  DelAckMax = 1
  DataRetries = 2
  MaxLoss = 3
  MaxAckLoss = 2
  MaxSpurious = 2
INVARIANTS
  ScoreboardConsistent
  ScoreboardTruthful
  SackListExact
  CongestionStates
  DroppedOnlyForLosses
PROPERTIES
  OneRecoveryPerWindow
CHECK_DEADLOCK FALSE
