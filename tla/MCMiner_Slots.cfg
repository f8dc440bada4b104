CONSTANTS
  NodeCount = 3
  TimeoutTime = 10
  BlockInternal = 3
  MaxSpan = 70
  SealCanFail = TRUE
  MaxBlocks = 2
  MaxCalls = 3
  GasLimitBoundDivisor = 4
  MinGasLimit = 20
  TargetGasLimit = 60
  Width = 8
SPECIFICATION Spec
INVARIANT PlanWaitWithinRound
INVARIANT ProposeAfterInterval
INVARIANT GasLimitStepBounded
CHECK_DEADLOCK FALSE
