# TLA+ models of the lemochain-go consensus and execution core

These modules model the parts of `src/chain` that hold state and run
concurrently or in long sequences of calls:

- the transaction pool;
- the transaction processor, with the account-manager journal it drives;
- the deputy roster and its slot arithmetic;
- genesis setup at node start-up, and the roster the node loads from it;
- the miner's timer arithmetic, its gas-limit rule and its goroutines;
- the VM context's block-hash lookup.

Each module is translated from the Go source. The line ranges each
definition stands for are in `PROJECT.json` under `map`.

## The system and how its parts interact

| Part | Source | What it does |
|---|---|---|
| Transaction pool | `chain/tx_pool.go` | Keeps arrival-ordered pending transactions in `TxsSortByTime`. Uses two rotating buckets of recently seen hashes (`TxsRecent`) to drop re-broadcasts. Every public method holds `pool.mux`. |
| Transaction processor | `chain/tx_processor.go` | `ApplyTxs` is called by the miner. It picks pool transactions into a new block, skipping invalid ones and reverting them. `Process` is called on block import. It re-applies a block and rejects it on any error. Both drive the one shared account manager through `applyTx` (buyGas, intrinsic gas, VM call, refund, tx-list save, change-log merge). Both end with `chargeForGas` and `FillHeader`. |
| Account manager | `chain/account` (not in `src/`) | The in-memory account layer. Every setter appends a change log. It offers Snapshot/RevertToSnapshot and MergeChangeLogs. |
| VM | `chain/vm` (not in `src/`), `chain/evm.go` | Runs the call or creation. Only its balance effects are modelled. |
| Deputy roster | `chain/deputynode/deputy_node.go` | An append-only list of (height, nodes) records. `GetSlot` gives the distance, in ranks, from the previous block's miner to a node. |
| Miner | `chain/miner/miner.go` | A loop goroutine that waits for three things: a propose timer, new-block notices and quit. `modifyTimer` turns the slot into a wait time or an immediate seal. `sealBlock` calls `Pending`, `ApplyTxs` and `Seal`. |
| Genesis | `chain/genesis.go` | `SetupGenesisBlock` validates the genesis configuration (a failed check panics), finalises the founder's balance, then writes the block, its account state and the stable-block pointer, returning at the first error. |
| Types, generated JSON | `chain/types`, `gen_*_json.go` | Data types and their encoding. |

The miner calls `TxPool.Pending` and then `TxProcessor.ApplyTxs`. A peer's
block goes through `TxProcessor.Process`. `GetSlot` feeds the miner's
timer. At start-up the node runs `SetupGenesisBlock` and loads the genesis
block's deputies as the roster's first record. The pool and the processor share no state. The processor's two
callers share the account manager.

## Modules

### `TxPool` (`MCTxPool`) — `chain/tx_pool.go`

State:

- `txs`: the `cache.txs[0..cnt-1]` array, as a sequence of `[tx, del]`.
- `index`: the hash→position map.
- `recent`, `curIdx`, `lastTime`: the two recent-set buckets, `store.Index` and the last rotation time.
- `now`: the wall clock.

History variables are kept only for the properties:

- `putAt`: the time of each hash's last `put`.
- `accepted`, `removed`: what AddTx accepted and what Remove named.
- `out`: what the last `Pending` returned.

Each public method holds `pool.mux` for its whole body, so it is one
atomic action:

- `AddTx(h)`: `isExist`, then `put`, then `push`.
- `AddKey(h)`: `put`.
- `Pending(size)`: `pop`, including its reset of the array and index.
- `Remove(keys)`: `removeBatch`.

`Tick` advances the clock. `AddTxs` takes and releases the mutex once per
element, so it is a sequence of `AddTx` steps and not an action of its own.
The capacity doubling in `push` does not change what the pool returns, so
only `cnt` (`Len(txs)`) is kept.

### `PoolQueue` — the pool's contract (spec 4.5)

An abstract queue of the live transactions, `[tx, last]`, oldest first,
with no array, delete flags, index or reset. `Add` appends a copy and marks
it as the hash's copy added last. `Take(size)` returns a prefix and leaves
the queue alone. `Drop(keys)` removes each key's last copy: an older copy
of a re-admitted hash stays, which is how the code behaves.

`TxPool` implements it. The refinement mapping `QueueView` lists the
entries of `txs` that are not deleted, and marks an entry `last` when
`index` points at it. The txpool run checks `ImplementsPoolQueue`
(`Abstract!Spec`) as a property: every pool step, pop's reset included,
is an abstract step or leaves the view unchanged.

### `AccountManager` — spec-modelled

`chain/account` is not among the sources, so its operators follow spec 4.3.
The layer is a record `[bal, txl, logs]`:

- `SetBalance` and `AppendTx` append a change log `[type, addr, old, new]`.
- `Snapshot` is the journal length.
- `RevertToSnapshot` restores `old` values, newest log first.
- `MergeChangeLogs` folds the logs after an index into one log per (type, address). The folded log keeps the first `old` and the last `new`.

### `TxProcessor` (`MCTxProcessor`) — `chain/tx_processor.go`

There are two callers, `"seal"` (`ApplyTxs`) and `"verify"` (`Process`),
each with its own `pc`, gas pool, `gasUsed`, fee total and loop index. Each
loop is split into three actions:

- **Start:** `Reset` and a new gas pool.
- **Step:** one `applyTx` with its error handling.
- **Finish:** `chargeForGas` and `FillHeader`.

`ApplyTx` is one operator that translates the whole of `applyTx`. It
includes `buyGas`, `payIntrinsicGas`/`IntrinsicGas` with the overflow
guards, `refundGas`, `SaveTxInAccount` and `MergeChangeLogs`. It returns
`[err, am, gp, gas]`.

The VM (`VMRun`) is a black box, spec-modelled, over `CanTransfer` and
`Transfer` from `evm.go`. It has three outcomes:

- ErrInsufficientBalance;
- out of gas, which burns the remaining gas;
- success, which moves the value.

Abstractions:

- A root (TxRoot, LogRoot, VersionRoot) is the value it hashes, i.e. hashing is injective.
- `engine.Finalize` pays no reward at the heights modelled, so it is left out.
- The genesis-block shortcut of `Process` (height 0) is not modelled.

`Process` runs either on the block `ApplyTxs` sealed (`sealed`) or on a
peer block from `PeerBlocks`.

`Process` can be called again once it has returned, up to `MaxImports`
(2) times, so that one call runs on the layer another left behind.

`p.lock` excludes nothing: both callers run `p.lock.Lock(); p.lock.Unlock()`
(lines 50-51 and 83-84) and then work on the shared account manager
unlocked. The constant `ImportDuringSeal` says whether a peer block may be
imported while `ApplyTxs` is running:

- FALSE: `Process` starts only once `ApplyTxs` is done, as when one node seals and a replica verifies;
- TRUE: the two interleave as the code lets them.

### `EVMContext` (through `TxProcessor`) — `chain/evm.go` `GetHashFn`

`GetHashFn` returns the `BLOCKHASH` closure that `NewEVMContext` gives the
VM. It is modelled as pure operators over a constant `Chain`, which maps
each block hash to `[height, parent]`. Heights are uint32, so
`Height - 1` wraps (`Pred`):

- `GetHash(ref, cache, n)`: one call. A nil cache is first filled with `ref.Height-1 -> ref.ParentHash`, and a cached height is answered from the cache.
- `Walk`: the loop down the parents. It caches each block's parent under the block's `Height-1` and stops at `n` or at an unknown hash.
- `Answers`: a sequence of calls sharing one closure's cache.

The reference is `HashAt`: the ancestor of `ref` at height `n`, or the
zero hash at or above `ref`'s own height. The processor run checks
`VMContextHashes` while a caller is applying transactions. It checks every
sequence of up to three calls, over every height, on headers built on a
five-block chain with a fork.

### `DeputyNode` (through `NodeStart`) — `chain/deputynode/deputy_node.go`

State: `list`, the `DeputyNodesList`. A record's nodes are a sequence of
distinct miner addresses, and a node's Rank is its position minus one.
`Add` appends a record (the caller passes increasing heights). The lookups
are pure operators:

- `GetDeputiesByHeight`, the code's scan for the first `i` with `list[i].height <= h < list[i+1].height`;
- `GetDeputiesCount`, the size of the first record;
- `RankAt`, i.e. `GetDeputyByAddress`;
- `GetSlot`, using `GoMod`, Go's truncating `%`;
- `TimeToHandOutRewards`.

`LatestRecord` is the reference definition of spec 4.4. The properties
check the code's operators against it, and against the slot round trip of
spec property 7, at every height of every reachable list.

### `Genesis` (through `NodeStart`) — `chain/genesis.go` `SetupGenesisBlock`

State: `cfg`, the configuration the node is given (`NilGenesis` selects
`DefaultGenesisBlock()`); `node`, down, inside setup or running; `step`,
the call setup makes next; `db`, which of the genesis block, its account
state and the stable pointer `ChainDB` holds; counters of failed calls and
crashes. A configuration is abstracted to its deputies' miner addresses,
node-ID lengths and ports, the length of its extra data and its time.

- `Validate`: the four panics (no deputies, extra over 256 bytes, a time after now, a deputy failing `Check`). A panic ends the process.
- `Finalise`, `SetBlock`, `Save`, `SetStable`: one call each, in the code's order; each may fail (`Fail`), and the node exits on the error. `SetBlock` of a block already stored returns `ErrExist`, as `ChainDB`'s interface says.
- `Boot` and `Crash` are the node around the call (its start-up code is not in `src/`): a node boots on a stable block if there is one, else runs setup from the top; a crash loses memory and keeps the DB.

### `NodeStart` (`MCNodeStart`) — genesis and roster composed

`NodeStart` extends `DeputyNode` and instantiates `Genesis`. `Init` is
`Instance()`'s empty roster. A crash empties the roster. `LoadRoster`
appends the stable genesis block's deputies at height 0 once the node
runs. `Elect` appends an elected roster at a greater height. Both stand
for start-up and election code outside `src/` and are modelled from
spec 4.4. Lookups are made only while the roster is loaded: on an empty
list `getDeputiesByHeight` indexes `list[-1]` and panics.

### `MinerTimer` (through `Miner`) — `chain/miner/miner.go` `modifyTimer`

The arithmetic of `modifyTimer` as pure operators. `ModifyTimer(isDeputy,
slot, timeDur)` returns `[act, wait]`, where `act` is one of three outcomes:

- `"none"`: return;
- `"fire"`: the send on `timeToMineCh`;
- `"arm"`: `resetMinerTimer(wait)`.

Each branch is an operator of its own:

- `PlanSlot0`: the previous block was this node's;
- `PlanSlot1`: this node is next;
- `PlanLater`: slot 2 or later.

Time is in whole seconds, because `getTimespan` multiplies a difference of
Unix seconds by 1000. The module has no state: `Miner` instantiates it, and
the miner_slots run checks the plans for every slot in `-1..N` and every
span in `0..MaxSpan` at every reachable deputy flag. `Instant` is the time
after the current block at which the node seals under a plan.

### `GasLimit` (through `Miner`) — `chain/miner/miner.go` `calcGasLimit`

`CalcGasLimit(parentLimit, parentUsed)` is `calcGasLimit`, with every
uint64 operation reduced modulo `2^Width` (`U`). It computes:

- `contrib = (used + used/2) / divisor`;
- `decay = limit/divisor - 1`;
- the new limit `limit - decay + contrib`, raised to `MinGasLimit`;
- while the result is below `TargetGasLimit`, `limit + decay` instead, capped at the target.

The three `params` constants are not in the sources and are constants
here. The miner_slots run checks `GasLimitStepBounded`: from any parent
with `used <= limit`, the new limit is at least the minimum and moves by
less than `limit/divisor`.

### `Miner` (`MCMiner`) — `chain/miner/miner.go`

There are two goroutines, each with a `pc`:

- `"loop"`: `Miner.loop`;
- `"user"`: the caller of `Start`/`Stop`. `Start` runs `modifyTimer` on it.

Timer callbacks are counted rather than named:

- `field`: the timer `blockMineTimer` names;
- `orphans`: armed timers that no field names any more;
- `firing`: callbacks blocked sending on the unbuffered `timeToMineCh`.

Loop actions:

- `LoopIdle`: `mining == 0`.
- `LoopEnter`, then `LoopPark`: the mining check, then the select. They are two steps, because `Stop` can come between them.
- `RecvFromTimer`, `RecvFromUser`, `RecvNewBlock`: the select's cases. The quit case is part of `Stop`.
- `Seal`: `sealBlock`'s exits. These are: not a deputy; an `ApplyTxs`, `Sign` or `Seal` error (if `SealCanFail`); or success, followed by `resetMinerTimer`.

`modifyTimer` runs on either goroutine as three actions:

- `Modify(g)`: chooses any outcome `MinerTimer!ModifyTimer` has for the node's deputy status.
- `ResetStop(g)`: `resetMinerTimer`'s `Stop`.
- `ResetArm(g)`: its `AfterFunc`. The field is shared without a lock, so stop and arm are separate steps.

The remaining actions:

- `TimerFire` and `OrphanFire`: a timer's callback, which sends only if `mining == 1`.
- `Start`: the CAS on `mining`, then `modifyTimer`.
- `Stop`: a non-blocking quit, taken only by a parked loop, then `mining = 0`.
- `NewBlock`: a peer's block. The roster at the new height may or may not include this node, so `deputy` is chosen afresh.

## Runs

| Run | Config | Expect | What it shows |
|---|---|---|---|
| txpool | `MCTxPool.cfg` | pass | See (a) below. |
| txpool_stale_index | `MCTxPool_PendingExcludesRemoved.cfg` | violation | See (c) below. |
| processor | `MCTxProcessor.cfg` | pass | See (d) below. |
| processor_gaspool | `MCTxProcessor_GasPoolConserved.cfg` | violation | See (e) below. |
| processor_import_race | `MCTxProcessor_ImportDuringSeal.cfg` | violation | See (p) below. |
| processor_double_spend | `MCTxProcessor_NoTxAppliedTwice.cfg` | violation | See (q) below. |
| deputy | `MCNodeStart.cfg` | pass | See (g) below. |
| miner | `MCMiner.cfg` | pass | See (k) below. |
| miner_slots | `MCMiner_Slots.cfg` | pass | See (l) below. |
| miner_self_send | `MCMiner_LoopReturns.cfg` | violation | See (m) below. |
| miner_seal_error | `MCMiner_MiningMakesProgress.cfg` | violation | See (n) below. |
| miner_double_fire | `MCMiner_NoDoubleFire.cfg` | violation | See (o) below. |

- **(a) txpool.**
  - `DedupWithinTimeout`: a hash put at `t` is reported seen up to `t + TransactionTimeOut`, whatever rotations happen in between.
  - `NoAcceptedTxLost`: pop's reset never drops a live, accepted, unremoved transaction.
  - `ImplementsPoolQueue`: the pool refines `PoolQueue`, so `Pending` returns a prefix of the live queue in arrival order, and `Remove` drops exactly the copies the index names.
- **(c) txpool_stale_index.** The trace is: AddTx h1; two rotations forget h1; AddTx h1 again pushes a second entry and overwrites `index[h1]`; Remove{h1} flags only the new entry; Pending returns the old h1.
- **(d) processor.**
  - `SupplyConserved`: balances plus the fees still to be charged equal the parent supply, and after `chargeForGas` the balances alone do.
  - `SealedBlockVerifies`: `Process` of the sealed block succeeds with a header equal to the sealer's.
  - `VMContextHashes`: the VM's `GetHash` answers the ancestor's hash across calls that share its cache.
- **(e) processor_gaspool.** A transaction failing after `buyGas` (intrinsic out of gas here) never has its gas limit returned to the block gas pool.
- **(g) deputy.** A node boots from one of seven genesis configurations: a valid one, the default, and one for each panic. It goes through a failed call, a crash and reboots, loads the roster, and appends two elected rosters.
  - `StableImpliesComplete`: a stable genesis block always has its block and account state stored, and a running node was set up from a valid configuration, whatever failure or crash came between the writes.
  - `DeputiesByHeightIsLatest`: the scan equals the reference lookup.
  - `SlotRoundTrip`: for rosters of one size (three, so that walking forward and walking back differ), away from the boundary heights, `slot ∈ 0..N-1` and `(rank(prev)+slot) mod N = rank(self)`. Its mutant swaps the two ranks at `deputy_node.go:177`; with rosters of two that mutant would pass.
- **(k) miner.** This run has one deputy whose seals succeed. `TypeOK` checks that `mining` stays 0/1 under repeated Start calls.
  - `MiningMakesProgress`: while mining, as a deputy and with the loop alive, the node eventually seals, unless a peer block or Stop intervenes.
- **(l) miner_slots.** This run has three deputies and failing seals. It reaches every `modifyTimer` outcome on both goroutines, the user's send, and every `sealBlock` exit.
  - `PlanWaitWithinRound`: every armed wait is within `0..N·T`.
  - `ProposeAfterInterval`: no plan seals less than `blockInternal` after the current block.
  - `GasLimitStepBounded`: `calcGasLimit` keeps the new gas limit at or above the minimum, and within one bound-divisor step of the parent's.
- **(m) miner_self_send.** A peer block makes `loop()` run `modifyTimer` (`miner.go:206`). That sends on `timeToMineCh`, whose only receiver is the loop itself, so the loop blocks forever.
- **(n) miner_seal_error.** A failed `sealBlock` returns before `resetMinerTimer` (`miner.go:224`). A single deputy then never seals again.
- **(o) miner_double_fire.** A timer's callback has fired and waits to send. `Timer.Stop` cannot recall it, so a `Start` arms a second timer and two seal signals are outstanding.
- **(p) processor_import_race.** `ApplyTxs` starts on an empty candidate list. A peer block's `Process` runs to its end in between, on the same account manager. `ApplyTxs` then fills a header whose roots include the peer's transaction, so `Process` of the sealed block yields another header. Spec 5 says import and seal exclude each other; the lock does not make them.
- **(q) processor_double_spend.** The candidate list holds one transaction twice. `applyTx` never asks whether a hash was applied before, so `ApplyTxs` selects it twice and the sender pays twice. The trace ends at that second selection. `Process` (lines 66-75) applies the same list the same way, so replicas would accept the block; that step is read from the code, not shown by the trace. The pool returns a transaction twice once it is re-admitted after the recent-set horizon while its first copy is pending (spec 8, scenario F; the mechanism of (c)). Spec 1 calls no double spend a consensus-critical invariant. `applyTx` has no expiration check either, while spec 5 says expired transactions fail on apply.

Five further disagreements were seen while modelling. No run is kept for them; the hazards in `PROJECT.json` record them:

- The recent-hash buckets rotate only on `put` (`tx_pool.go:157`), so with no later put a hash stays "seen" past `t + 2·TX_TIMEOUT`.
- `ApplyTxs` `continue`s after `ErrGasLimitReached` (`tx_processor.go:113`), where the spec says selection stops.
- At `timeDur = T` exactly, the slot-1 deputy seals at once (`miner.go:152` tests `>`). This is in slot 2's window `[T, 2T)`, so two deputies seal for the same turn. `ProposeAfterInterval` still holds there.
- `Stop`'s quit is dropped while the loop is between its mining check and its select (`miner.go:71`). A waiting timer signal then starts a seal after `Stop` returned.

- After a failure or crash between `db.SetBlock` and `SetStableBlock`, every later boot runs `SetupGenesisBlock` again and gets `ErrExist` from `SetBlock` (`genesis.go:134`), so the node never starts again until its database is wiped. Spec 7 makes `Exists` on a block write idempotent, and the test chain helper (`chain_for_test.go:267`) accepts `ErrExist` from `SetBlock`. `NodeStart` states the expectation as `ValidConfigStarts` under `FairSpec`: the setup calls run through and a down node is booted again. Checking `MCNodeStart` with `SPECIFICATION FairSpec` and `PROPERTY ValidConfigStarts` (same constants as `MCNodeStart.cfg`) reports it violated by a trace of about ten states ending in a `Boot`/`ErrExist` cycle.

A further one is spec 4.4's open question: `GetSlot` uses the genesis roster's count with the ranks of a later roster of another size (`deputy_node.go:171`). `SlotRoundTrip` is therefore checked with rosters of one size.

Every property of a passing run has a mutant in `PROJECT.json`: a plausible
bug in the mapped code that makes TLC report the property violated.

## Bounds and why they suffice

- **TxPool.**
  - Two hashes, under symmetry.
  - `TransactionTimeOut = 1`, with clock up to 4. That is enough for two rotations and a re-admission.
  - `cnt ≤ 3`, so a hash can be pushed twice next to another one.
  - `Pending` sizes {1, 3}: a partial pop and a full one.
- **TxProcessor.**
  - Gas constants are scaled by about 1/10000, keeping their order: `TxGas 2`, creation 3, data 2/1, block limit 6, `MaxGas 15`.
  - Seven transactions, one per path through `applyTx`: success, intrinsic out of gas, VM out of gas on creation, VM insufficient balance, bad signature, gas limit above the block's, and data overflow.
  - Every candidate list of up to 3 transactions, repetitions included.
  - Two peer blocks: one valid, one with an invalid second transaction.
  - Up to 2 `Process` calls, so that one starts where another ended.
- **DeputyNode and Genesis** (in deputy).
  - Four addresses and rosters of three, so an election can bring a node in and leave one out.
  - Up to 3 records over heights 0..7: the genesis record and two elections.
  - Six configurations plus `NilGenesis` (the default, three deputies): each panic has its own, the valid one has extra data at the 256-byte limit and time equal to now, and a node ID one byte short and a port one above 65535 sit at their limits.
  - One failed call and one crash, enough to interrupt setup between any two writes and to lose a loaded roster.
  - `SnapshotBlockInterval = 4`, `TransitionPeriod = 1`, so the boundary heights 1 and 6 occur, with ordinary heights on both sides of 6.
- **MinerTimer** (in miner_slots).
  - `N = 3`, `T = 10`, `blockInternal = 3`, spans 0..70, i.e. up to seven rounds.
  - Every slot `-1..3` and both deputy flags, so every branch and both `timeDur > oneLoopTime` cases occur.
- **EVMContext** (in processor).
  - Blocks 1..4 at heights 0..3 and a fork block 5 at height 2.
  - `HeightWidth = 4`, so the genesis `0 - 1` wraps to 15, and queries cover all 16 heights.
  - Up to three calls per closure, so that a call can be answered from a cache an earlier walk filled.
- **GasLimit** (in the Miner runs).
  - `divisor = 4`, `Min = 20`, `Target = 60`, `Width = 8`.
  - This keeps the code's orders: the minimum is several divisors and the target far above the minimum (5000, 1024 and 105000000 in `params`).
  - A scaling with `Min < 2·divisor` reports a change of the full step at `Target`, which the real constants cannot reach.
  - Parent limits go from `Min` to `2·Target` and use from 0 to the limit.
- **Miner.**
  - `N = 1` for the liveness run, and `N = 3` for the run that reaches the sends.
  - 3 Start/Stop calls and 2 peer blocks. That is enough for a Start while a callback waits, a Stop, and a restart.

## Fairness

`TxProcessor` assumes weak fairness on each caller's loop steps and its
finish: a started `ApplyTxs` or `Process` call runs to its end, since it is
a loop with no blocking call. Starting a call is the caller's choice. Its
runs check only safety: a liveness check over the 400 initial candidate
lists takes TLC far beyond five minutes. The pool and the roster are driven by their callers, so they assume
no fairness. `NodeStart`'s `FairSpec` (weak fairness on setup's calls and
on booting a down node) is used only for the genesis retry above. Their runs check only safety.

`Miner` assumes weak fairness for:

- the loop goroutine's steps;
- each goroutine's internal `modifyTimer` steps;
- timers firing, since the Go runtime runs an expired `AfterFunc`.

`Start`, `Stop` and peer blocks are the environment and are not fair.

## Not modelled, and why

- **Miner details.** Of `sealHead` only `calcGasLimit` is modelled (`GasLimit`). Its `lemoBase` is set only when a term starts, and a node restarted inside a term would seal with a zero coinbase, on which `NewEVMContext` panics. Who calls `SetLemoBase` at start-up is outside the sources, so this stays a hazard without a property. The block contents and the send on `mineNewBlockCh` are not modelled. That channel's receiver is outside the sources, so the send is taken to complete. The wait a timer is armed with is not modelled either: a timer fires at some later time. Note that `miner.go` calls `GetDeputyNodesCount`/`GetNodeByNodeID` and destructures three results from `ApplyTxs`, which do not match the sources' `deputy_node.go` and `tx_processor.go`.
- **NewTxsFeed subscribers.** They are in the network layer, outside the sources.
- **Genesis contents** (`genesis.go`). `ToBlock`'s header fields, `setBalance`'s founder balance and the roots are not modelled: no property tells them apart, and their code is conversion. `decodeMinerAddress` decodes a constant. Validation does not check that ranks are a permutation of `0..N-1` or that miners are distinct. The models take rank to be position, and configurations to have distinct miners. The genesis gas limit is not checked against `MinGasLimit`, so `GasLimit` checks parents from the minimum up.
- **Roster `Clear`, `GetDeputyByNodeID`, `IsSelfDeputyNode`.** `Clear` is called only from tests. The other two are `GetDeputyByAddress` keyed by node ID.
- **Events** (`types/event.go`) and the generated JSON marshallers. These are data types and their conversions, with no state changes to model.
- **Encoders, signer, hashing and the generated JSON code.** These are pure conversions. Hashing is taken as injective.

## Plan

1. Done: TxPool; TxProcessor with AccountManager; DeputyNode; Genesis composed with the roster (`NodeStart`).
2. Done: `ApplyTxs` and `Process` interleaving on one account manager (`ImportDuringSeal`).
3. Done: `MinerTimer` and `Miner`. Next: timer durations in `Miner`, so that a stale timer firing after a fresh one can be ordered.
4. A composed node: pool → miner → processor.
5. Done: an abstract pool (`PoolQueue`) refined by `TxPool`.
6. Done: `calcGasLimit` (`GasLimit`) and `GetHashFn` (`EVMContext`).
