CONSTANTS
  A = A  B = B  M = M  C = C
  t1 = t1  t2 = t2  t3 = t3  t4 = t4  t5 = t5  t6 = t6  t7 = t7
  Accounts = {A, B, M, C}
  TxHashes = {t1, t2, t3, t4, t5, t6, t7}
  NoAddr = NoAddr
  NoSender = NoSender
  CreatedAddr = C
  MinerAddress = M
  ParentBalance <- MCParentBalance
  BlockGasLimit = 6
  TxGas = 2
  TxGasContractCreation = 3
  TxDataNonZeroGas = 2
  TxDataZeroGas = 1
  MaxGas = 15
  TxSet <- MCTxSet
  MaxTxs = 3
  PeerBlocks <- MCPeerBlocks
  ImportDuringSeal = FALSE
  MaxImports = 2
  Chain <- MCChain
  HeightWidth = 4
SPECIFICATION Spec
CHECK_DEADLOCK FALSE
INVARIANT NoTxAppliedTwice
