CONSTANTS
  a1 = a1
  a2 = a2
  a3 = a3
  a4 = a4
  Addrs <- MCAddrs
  RosterSizes = {3}
  MaxHeight = 7
  MaxRecords = 3
  SnapshotBlockInterval = 4
  TransitionPeriod = 1
  Configs <- MCConfigs
  NilGenesis = NilGenesis
  Default <- MCDefault
  Now <- MCNow
  MaxFaults = 1
  MaxCrashes = 1
SPECIFICATION Spec
INVARIANT TypeOK
INVARIANT DeputiesByHeightIsLatest
INVARIANT SlotRoundTrip
INVARIANT StableImpliesComplete
\* A running node with a full roster and no crash left has nothing to do.
CHECK_DEADLOCK FALSE
