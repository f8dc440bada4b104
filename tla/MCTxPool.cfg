CONSTANTS
  Hashes = {h1, h2}
  TransactionTimeOut <- MCTimeOut
  MaxTime <- MCMaxTime
  MaxCnt <- MCMaxCnt
  PendingSizes <- MCPendingSizes
SYMMETRY MCSymmetry
SPECIFICATION Spec
INVARIANT TypeOK
INVARIANT DedupWithinTimeout
INVARIANT NoAcceptedTxLost
PROPERTY ImplementsPoolQueue
