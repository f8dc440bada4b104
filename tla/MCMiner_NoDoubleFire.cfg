CONSTANTS
  NodeCount = 1
  TimeoutTime = 10
  BlockInternal = 3
  MaxSpan = 70
  SealCanFail = FALSE
  MaxBlocks = 2
  MaxCalls = 3
  GasLimitBoundDivisor = 4
  MinGasLimit = 20
  TargetGasLimit = 60
  Width = 8
SPECIFICATION Spec
INVARIANT NoDoubleFire
CHECK_DEADLOCK FALSE
