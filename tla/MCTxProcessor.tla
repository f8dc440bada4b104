--------------------------- MODULE MCTxProcessor ---------------------------
(* Model-checking instance of TxProcessor.  Gas is scaled by about 1/10000 *)
(* (TxGas 2, creation 3, data bytes 2 and 1), keeping the order of the     *)
(* real constants.  The pool holds one transaction for each path through  *)
(* applyTx; any list of up to three of them is a candidate list.           *)
EXTENDS TxProcessor, TLC

CONSTANTS A, B, M, C, t1, t2, t3, t4, t5, t6, t7

MCParentBalance == (A :> 8) @@ (B :> 3) @@ (M :> 0) @@ (C :> 0)

\* A plain transfer: gas 2 of 3, one unit refunded.
T1 == [hash |-> t1, from |-> A, to |-> B, value |-> 1, gasLimit |-> 3,
       gasPrice |-> 1, nz |-> 0, z |-> 0, vmGas |-> 0]
\* Gas limit below the intrinsic gas: ErrOutOfGas after buyGas.
T2 == [hash |-> t2, from |-> A, to |-> B, value |-> 0, gasLimit |-> 1,
       gasPrice |-> 1, nz |-> 0, z |-> 0, vmGas |-> 0]
\* A contract creation whose code runs out of gas (VM error, not fatal).
T3 == [hash |-> t3, from |-> B, to |-> NoAddr, value |-> 0, gasLimit |-> 5,
       gasPrice |-> 0, nz |-> 0, z |-> 1, vmGas |-> 4]
\* Value above what is left after the fee: vm.ErrInsufficientBalance.
T4 == [hash |-> t4, from |-> B, to |-> A, value |-> 5, gasLimit |-> 2,
       gasPrice |-> 1, nz |-> 0, z |-> 0, vmGas |-> 0]
\* A signature that does not recover.
T5 == [hash |-> t5, from |-> NoSender, to |-> B, value |-> 0, gasLimit |-> 2,
       gasPrice |-> 1, nz |-> 0, z |-> 0, vmGas |-> 0]
\* A gas limit above the block's: ErrGasLimitReached.
T6 == [hash |-> t6, from |-> A, to |-> B, value |-> 0, gasLimit |-> 7,
       gasPrice |-> 0, nz |-> 0, z |-> 0, vmGas |-> 0]
\* Data whose gas would overflow uint64 (scaled): ErrOutOfGas.
T7 == [hash |-> t7, from |-> A, to |-> B, value |-> 0, gasLimit |-> 4,
       gasPrice |-> 1, nz |-> 8, z |-> 0, vmGas |-> 0]

MCTxSet == {T1, T2, T3, T4, T5, T6, T7}

\* Peer blocks: one that applies, one whose second transaction is invalid.
MCPeerBlocks == {<<T1>>, <<T1, T4>>}

\* The chain GetHash walks: genesis (hash 1) and blocks 2..4 above it, and
\* block 5, a sibling of block 3 on a fork.
MCChain == [h \in 1..4 |-> [height |-> h - 1, parent |-> h - 1]]
           @@ (5 :> [height |-> 2, parent |-> 2])
=============================================================================
