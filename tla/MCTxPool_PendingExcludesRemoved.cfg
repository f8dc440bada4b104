CONSTANTS
  Hashes = {h1, h2}
  TransactionTimeOut <- MCTimeOut
  MaxTime <- MCMaxTime
  MaxCnt <- MCMaxCnt
  PendingSizes <- MCPendingSizes
SYMMETRY MCSymmetry
SPECIFICATION Spec
INVARIANT PendingExcludesRemoved
