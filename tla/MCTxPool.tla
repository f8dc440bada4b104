------------------------------ MODULE MCTxPool ------------------------------
(* Model-checking instance of TxPool: two hashes, a one-second timeout so  *)
(* that two bucket rotations fit in a short clock, and Pending sizes that  *)
(* return part of the pool (1) or all of it (the miner's 10000000).        *)
EXTENDS TxPool, TLC

MCTimeOut == 1
MCMaxTime == 4
MCMaxCnt == 3
MCPendingSizes == {1, 3}

MCSymmetry == Permutations(Hashes)
=============================================================================
