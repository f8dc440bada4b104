----------------------------- MODULE TxProcessor -----------------------------
(***************************************************************************)
(* chain/tx_processor.go: ApplyTxs (the miner picks pool transactions into *)
(* a new block) and Process (a block is re-applied to check its header),   *)
(* both driving the one account manager of the chain.                      *)
(*                                                                         *)
(* Two callers: "seal" runs ApplyTxs over a candidate list taken from the  *)
(* pool; "verify" runs Process, up to MaxImports times, over the block     *)
(* ApplyTxs produced (as a replica importing it does) or over a peer's.    *)
(* Both begin with p.lock.Lock(); p.lock.Unlock(), which excludes nothing: *)
(* whether a peer block can be imported while ApplyTxs runs is up to the   *)
(* chain that calls Process (not among the sources), so it is the          *)
(* constant ImportDuringSeal.  One applyTx call is one step.               *)
(*                                                                         *)
(* Hashing is abstracted as injective: a root is the value it is taken    *)
(* over (TxRoot the selected list, LogRoot the change logs, VersionRoot    *)
(* the account data).  Gas constants are scaled-down CONSTANTS; MaxGas     *)
(* stands for math.MaxUint64 on the same scale.                            *)
(***************************************************************************)
EXTENDS Integers, Sequences, Functions

CONSTANTS
  Accounts,              \* addresses
  TxHashes,              \* transaction hashes
  NoAddr,                \* tx.To() == nil: a contract creation
  NoSender,              \* tx.From() fails: the signature does not recover
  CreatedAddr,           \* the address the VM gives a created contract
  MinerAddress,          \* header.MinerAddress
  ParentBalance,         \* balances in the parent block's state
  BlockGasLimit,         \* header.GasLimit
  TxGas,                 \* params.TxGas
  TxGasContractCreation, \* params.TxGasContractCreation
  TxDataNonZeroGas,      \* params.TxDataNonZeroGas
  TxDataZeroGas,         \* params.TxDataZeroGas
  MaxGas,                \* math.MaxUint64, scaled
  TxSet,                 \* the transactions that can be in the pool
  MaxTxs,                \* bound on the length of the candidate list
  PeerBlocks,            \* transaction lists of blocks a peer may send
  ImportDuringSeal,      \* Process of a peer block may start during ApplyTxs
  MaxImports,            \* bound: the Process calls made
  Chain, HeightWidth     \* as in EVMContext: the blocks ChainDB knows

ASSUME /\ {MinerAddress, CreatedAddr} \subseteq Accounts
       /\ ParentBalance \in [Accounts -> Nat]
       /\ \A t \in TxSet : t.from \in Accounts \cup {NoSender}
                           /\ t.to \in Accounts \cup {NoAddr}

AM == INSTANCE AccountManager
EC == INSTANCE EVMContext

Callers == {"seal", "verify"}

VARIABLES
  am,      \* the account manager's in-memory layer
  cands,   \* the transactions ApplyTxs is given (txPool.Pending)
  pc,      \* per caller: "idle", "loop", "done" or "failed"
  gp,      \* per caller: the block's GasPool
  gasUsed, \* per caller: gasUsed
  fee,     \* per caller: totalGasFee
  next,    \* per caller: index of the next transaction to apply
  sel,     \* selectedTxs of ApplyTxs
  inv,     \* invalidTxs of ApplyTxs
  hdr,     \* per caller: the header returned (NoHeader until then)
  blk,     \* the Txs of the block Process is given
  sealed,  \* that block is the one ApplyTxs sealed (else a peer's)
  imports  \* Process calls made so far

vars == <<am, cands, pc, gp, gasUsed, fee, next, sel, inv, hdr, blk, sealed, imports>>

NoHeader == [gasUsed |-> -1]

-----------------------------------------------------------------------------
(* applyTx and its helpers *)

MaxFee(tx) == tx.gasLimit * tx.gasPrice

\* IntrinsicGas: base cost plus per-byte data cost, each addition guarded
\* against uint64 overflow (-1 stands for the ErrOutOfGas it returns).
IntrinsicGas(tx) ==
  LET base  == IF tx.to = NoAddr THEN TxGasContractCreation ELSE TxGas
      withNz == base + tx.nz * TxDataNonZeroGas
  IN IF tx.nz + tx.z = 0 THEN base
     ELSE IF (MaxGas - base) \div TxDataNonZeroGas < tx.nz THEN -1
     ELSE IF (MaxGas - withNz) \div TxDataZeroGas < tx.z THEN -1
     ELSE withNz + tx.z * TxDataZeroGas

\* Mutant: buyGas without the gas pool's SubGas check.
BuyGasErrNoPoolCheck(a, g, tx) ==
  IF a.bal[tx.from] < MaxFee(tx) THEN "InsufficientBalanceForGas" ELSE "none"

\* buyGas: the first error, or "none".
BuyGasErr(a, g, tx) ==
  CASE a.bal[tx.from] < MaxFee(tx) -> "InsufficientBalanceForGas"
    [] g < tx.gasLimit             -> "GasLimitReached"
    [] OTHER                       -> "none"

\* CanTransfer (evm.go): the balance covers the amount.
CanTransfer(a, addr, amount) == a.bal[addr] >= amount

\* Transfer (evm.go): SubBalance from the sender, then AddBalance to the
\* recipient, each a change log.
Transfer(a, sender, recipient, amount) ==
  LET a1 == AM!SetBalance(a, sender, a.bal[sender] - amount)
  IN AM!SetBalance(a1, recipient, a1.bal[recipient] + amount)

\* vmEnv.Call / vmEnv.Create, a black box (spec 4.6 step 4) given the
\* context's CanTransfer and Transfer: a transfer the sender cannot cover
\* is ErrInsufficientBalance with nothing changed; code needing more gas
\* than is left fails, burns the gas and is reverted by the VM itself;
\* otherwise value moves and the code's gas is spent.
VMRun(a, from, to, rest, tx) ==
  CASE ~CanTransfer(a, from, tx.value) ->
         [err |-> "InsufficientBalance", am |-> a, rest |-> rest]
    [] tx.vmGas > rest ->
         [err |-> "OutOfGas", am |-> a, rest |-> 0]
    [] OTHER ->
         [err |-> "none", rest |-> rest - tx.vmGas,
          am |-> Transfer(a, from, to, tx.value)]

Recipient(tx) == IF tx.to = NoAddr THEN CreatedAddr ELSE tx.to

\* applyTx(gp, header, tx): [err, am, gp, gas].  After buyGas has taken the
\* fee and the gas limit, a later error leaves both taken: undoing the
\* account manager is the caller's business, the gas pool nobody's.
ApplyTx(a, g, tx) ==
  IF tx.from = NoSender THEN [err |-> "InvalidSender", am |-> a, gp |-> g, gas |-> 0]
  ELSE IF BuyGasErr(a, g, tx) # "none"
    THEN [err |-> BuyGasErr(a, g, tx), am |-> a, gp |-> g, gas |-> 0]
  ELSE
  LET mergeFrom == AM!Snapshot(a)
      a1 == AM!SetBalance(a, tx.from, a.bal[tx.from] - MaxFee(tx))
      g1 == g - tx.gasLimit
      ig == IntrinsicGas(tx)
  IN IF ig < 0 \/ tx.gasLimit < ig
       THEN [err |-> "OutOfGas", am |-> a1, gp |-> g1, gas |-> 0]
     ELSE
     LET vm == VMRun(a1, tx.from, Recipient(tx), tx.gasLimit - ig, tx)
     IN IF vm.err = "InsufficientBalance"
          THEN [err |-> vm.err, am |-> vm.am, gp |-> g1, gas |-> 0]
        ELSE
        LET a2 == AM!SetBalance(vm.am, tx.from,
                                vm.am.bal[tx.from] + vm.rest * tx.gasPrice)
            a3 == AM!SaveTxInAccount(a2, tx.from, Recipient(tx), tx.hash)
        IN [err |-> "none", am |-> AM!MergeChangeLogs(a3, mergeFrom),
            gp |-> g1 + vm.rest, gas |-> tx.gasLimit - vm.rest]

\* Mutant: the fee is priced on the gas limit, not on the gas used.
GasFeeOfLimit(r, tx) == tx.gasLimit * tx.gasPrice

\* The gas fee a successful transaction pays the miner.
GasFee(r, tx) == r.gas * tx.gasPrice

\* chargeForGas: credit the collected fees to the miner, if any.
ChargeForGas(a, charge, miner) ==
  IF charge # 0 THEN AM!SetBalance(a, miner, a.bal[miner] + charge) ELSE a

\* FillHeader: gas used, tx root, and (after engine.Finalize, which pays
\* no reward at the heights modelled, and am.Finalise) the version and
\* change-log roots.
FillHeader(a, txs, used) ==
  [gasUsed |-> used, txRoot |-> txs, logRoot |-> a.logs,
   versionRoot |-> <<a.bal, a.txl>>]

-----------------------------------------------------------------------------
(* ApplyTxs *)

\* p.am.Reset(header.ParentHash); a GasPool holding header.GasLimit.
ApplyTxsStart ==
  /\ pc["seal"] = "idle"
  /\ am' = AM!Reset(ParentBalance)
  /\ pc' = [pc EXCEPT !["seal"] = "loop"]
  /\ gp' = [gp EXCEPT !["seal"] = BlockGasLimit]
  /\ UNCHANGED <<cands, gasUsed, fee, next, sel, inv, hdr, blk, sealed, imports>>

\* One loop iteration: snapshot, applyTx, then select the transaction, or
\* revert and skip it (ErrGasLimitReached) or mark it invalid.
ApplyTxsStep ==
  LET i  == next["seal"]
      tx == cands[i]
      r  == ApplyTx(am, gp["seal"], tx)
      snap == AM!Snapshot(am)
  IN /\ pc["seal"] = "loop"
     /\ i <= Len(cands)
     /\ gp["seal"] >= TxGas
     /\ gp' = [gp EXCEPT !["seal"] = r.gp]
     /\ next' = [next EXCEPT !["seal"] = i + 1]
     /\ \/ /\ r.err = "none"
           /\ am' = r.am
           /\ sel' = Append(sel, tx)
           /\ gasUsed' = [gasUsed EXCEPT !["seal"] = @ + r.gas]
           /\ fee' = [fee EXCEPT !["seal"] = @ + GasFee(r, tx)]
           /\ UNCHANGED inv
        \/ /\ r.err = "GasLimitReached"
           /\ am' = AM!RevertToSnapshot(r.am, snap)
           /\ UNCHANGED <<sel, inv, gasUsed, fee>>
        \/ /\ r.err \notin {"none", "GasLimitReached"}
           /\ am' = AM!RevertToSnapshot(r.am, snap)
           /\ inv' = Append(inv, tx)
           /\ UNCHANGED <<sel, gasUsed, fee>>
     /\ UNCHANGED <<cands, pc, hdr, blk, sealed, imports>>

\* The loop ends (all candidates tried, or gp below TxGas); charge the
\* fees to the miner and fill the header.
ApplyTxsFinish ==
  LET a == ChargeForGas(am, fee["seal"], MinerAddress)
  IN /\ pc["seal"] = "loop"
     /\ next["seal"] > Len(cands) \/ gp["seal"] < TxGas
     /\ am' = a
     /\ hdr' = [hdr EXCEPT !["seal"] = FillHeader(a, sel, gasUsed["seal"])]
     /\ pc' = [pc EXCEPT !["seal"] = "done"]
     /\ UNCHANGED <<cands, gp, gasUsed, fee, next, sel, inv, blk, sealed, imports>>

-----------------------------------------------------------------------------
(* Process, over the block ApplyTxs sealed (its Txs are sel) or a block   *)
(* received from a peer.                                                   *)

\* The block a Process call is given: the one ApplyTxs sealed, once it is
\* done, or a peer's, at any time if ImportDuringSeal.
ProcessBlock ==
  \/ pc["seal"] = "done" /\ blk' = sel /\ sealed' = TRUE
  \/ /\ pc["seal"] = "done" \/ ImportDuringSeal
     /\ \E b \in PeerBlocks : blk' = b /\ sealed' = FALSE

\* Mutant: Process starts on the layer it finds, without Reset.
ProcessStartKeepsLayer ==
  /\ pc["verify"] \in {"idle", "done", "failed"} /\ imports < MaxImports
  /\ ProcessBlock
  /\ UNCHANGED am
  /\ pc' = [pc EXCEPT !["verify"] = "loop"]
  /\ gp' = [gp EXCEPT !["verify"] = BlockGasLimit]
  /\ gasUsed' = [gasUsed EXCEPT !["verify"] = 0]
  /\ fee' = [fee EXCEPT !["verify"] = 0]
  /\ next' = [next EXCEPT !["verify"] = 1]
  /\ hdr' = [hdr EXCEPT !["verify"] = NoHeader]
  /\ imports' = imports + 1
  /\ UNCHANGED <<cands, sel, inv>>

\* Process(block): p.am.Reset(block.ParentHash); a GasPool holding the
\* block's GasLimit; gasUsed and totalGasFee from zero.
ProcessStart ==
  /\ pc["verify"] \in {"idle", "done", "failed"} /\ imports < MaxImports
  /\ ProcessBlock
  /\ am' = AM!Reset(ParentBalance)
  /\ pc' = [pc EXCEPT !["verify"] = "loop"]
  /\ gp' = [gp EXCEPT !["verify"] = BlockGasLimit]
  /\ gasUsed' = [gasUsed EXCEPT !["verify"] = 0]
  /\ fee' = [fee EXCEPT !["verify"] = 0]
  /\ next' = [next EXCEPT !["verify"] = 1]
  /\ hdr' = [hdr EXCEPT !["verify"] = NoHeader]
  /\ imports' = imports + 1
  /\ UNCHANGED <<cands, sel, inv>>

\* One transaction of the block; any error rejects the block
\* (ErrInvalidTxInBlock) and leaves the account manager as it is.
ProcessStep ==
  LET i  == next["verify"]
      tx == blk[i]
      r  == ApplyTx(am, gp["verify"], tx)
  IN /\ pc["verify"] = "loop"
     /\ i <= Len(blk)
     /\ am' = r.am
     /\ gp' = [gp EXCEPT !["verify"] = r.gp]
     /\ next' = [next EXCEPT !["verify"] = i + 1]
     /\ \/ /\ r.err = "none"
           /\ gasUsed' = [gasUsed EXCEPT !["verify"] = @ + r.gas]
           /\ fee' = [fee EXCEPT !["verify"] = @ + GasFee(r, tx)]
           /\ UNCHANGED pc
        \/ /\ r.err # "none"
           /\ pc' = [pc EXCEPT !["verify"] = "failed"]
           /\ UNCHANGED <<gasUsed, fee>>
     /\ UNCHANGED <<cands, sel, inv, hdr, blk, sealed, imports>>

ProcessFinish ==
  LET a == ChargeForGas(am, fee["verify"], MinerAddress)
  IN /\ pc["verify"] = "loop"
     /\ next["verify"] > Len(blk)
     /\ am' = a
     /\ hdr' = [hdr EXCEPT !["verify"] = FillHeader(a, blk, gasUsed["verify"])]
     /\ pc' = [pc EXCEPT !["verify"] = "done"]
     /\ UNCHANGED <<cands, gp, gasUsed, fee, next, sel, inv, blk, sealed, imports>>

-----------------------------------------------------------------------------

\* Candidate lists: any list the pool can return, repetitions included.
Candidates == UNION {[1..n -> TxSet] : n \in 0..MaxTxs}

Init ==
  /\ am = AM!Reset(ParentBalance)
  /\ cands \in Candidates
  /\ pc = [c \in Callers |-> "idle"]
  /\ gp = [c \in Callers |-> 0]
  /\ gasUsed = [c \in Callers |-> 0]
  /\ fee = [c \in Callers |-> 0]
  /\ next = [c \in Callers |-> 1]
  /\ sel = <<>> /\ inv = <<>>
  /\ hdr = [c \in Callers |-> NoHeader]
  /\ blk = <<>> /\ sealed = FALSE
  /\ imports = 0

Next ==
  \/ ApplyTxsStart \/ ApplyTxsStep \/ ApplyTxsFinish
  \/ ProcessStart \/ ProcessStep \/ ProcessFinish

\* A call, once started, runs on its own goroutine until it returns: weak
\* fairness on its loop steps.  Nothing forces a call to start.
Fairness ==
  /\ WF_vars(ApplyTxsStep) /\ WF_vars(ApplyTxsFinish)
  /\ WF_vars(ProcessStep) /\ WF_vars(ProcessFinish)

Spec == Init /\ [][Next]_vars /\ Fairness

-----------------------------------------------------------------------------
(* Properties *)

\* Types; the GasPool is a uint64 that SubGas never takes below zero.
TypeOK ==
  /\ am.bal \in [Accounts -> Int]
  /\ pc \in [Callers -> {"idle", "loop", "done", "failed"}]
  /\ gp \in [Callers -> Nat] /\ gasUsed \in [Callers -> Nat]
  /\ fee \in [Callers -> Nat] /\ next \in [Callers -> Nat]
  /\ sel \in Seq(TxSet) /\ inv \in Seq(TxSet)

Supply(bal) == SumFunction(bal)

\* The caller whose Reset the account manager last took.
Owner == IF pc["verify"] = "idle" THEN "seal" ELSE "verify"

\* Money is neither made nor lost by ApplyTxs or Process: between two
\* transactions the balances plus the fees collected for the miner add up
\* to the parent's total, and once chargeForGas has run the balances alone
\* do.  Breaks if a failed transaction's bought gas is not reverted or the
\* fee charged differs from what the sender net paid.  (After Process
\* rejects a block the layer is discarded by the next Reset.)
SupplyConserved ==
  LET c == Owner IN
    /\ pc[c] = "loop" => Supply(am.bal) + fee[c] = Supply(ParentBalance)
    /\ pc[c] = "done" => Supply(am.bal) = Supply(ParentBalance)

\* Determinism between the sealing node and every replica: Process of the
\* block ApplyTxs sealed accepts it and computes the same header.
SealedBlockVerifies ==
  sealed => /\ pc["verify"] # "failed"
            /\ pc["verify"] = "done" => hdr["verify"] = hdr["seal"]

\* No double spend (spec 1: a consensus-critical invariant): no block
\* ApplyTxs builds, and no block Process accepts, applies one transaction
\* twice.  applyTx never looks for a hash applied before, and the pool
\* hands out a transaction twice once it has been re-admitted after the
\* recent-set horizon (spec 8, scenario F).
NoTxAppliedTwice ==
  LET Distinct(txs) == \A i, j \in DOMAIN txs : i # j => txs[i].hash # txs[j].hash
  IN /\ Distinct(sel)
     /\ pc["verify"] = "done" => Distinct(blk)

\* The headers a block is built with on the chain: one per known parent.
ChildHeaders == {[height |-> Chain[h].height + 1, parent |-> h] : h \in DOMAIN Chain}

\* Every sequence of up to three GetHash calls, over every uint32 height.
HashQueries == UNION {[1..k -> 0..2^HeightWidth - 1] : k \in 0..3}

GetHashAnswersAncestors ==
  \A ref \in ChildHeaders, ns \in HashQueries :
    EC!Answers(ref, EC!NoCache, ns) = [i \in 1..Len(ns) |-> EC!HashAt(ref, ns[i])]

\* The VM context applyTx builds (NewEVMContext) answers BLOCKHASH right:
\* whenever a caller is applying transactions, the GetHash closure of any
\* header built on the chain returns, over any sequence of calls that
\* share its cache, the hash of the header's ancestor at that height, and
\* the zero hash for a height the header has not reached, the uint32
\* wrap of height - 1 at genesis included.
VMContextHashes == (\E c \in Callers : pc[c] = "loop") => GetHashAnswersAncestors

\* Between two transactions the block gas pool holds exactly the block gas
\* limit minus the gas the selected transactions used.
GasPoolConserved ==
  pc["seal"] = "loop" => gp["seal"] + gasUsed["seal"] = BlockGasLimit
=============================================================================
