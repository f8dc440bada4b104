------------------------------- MODULE TxPool -------------------------------
(***************************************************************************)
(* The transaction pool of chain/tx_pool.go.                               *)
(*                                                                         *)
(* TxsSortByTime keeps the pooled transactions in arrival order in an      *)
(* array (cache.txs[0..cnt-1]) with a delete flag per entry and a map      *)
(* cache.index from a transaction hash to its position.  TxsRecent keeps   *)
(* two buckets of recently seen hashes, rotated by put() once more than    *)
(* TransactionTimeOut seconds have passed since the last rotation.         *)
(*                                                                         *)
(* Every public method of TxPool holds pool.mux for its whole body, so     *)
(* each is one atomic action here.  AddTxs calls AddTx once per element,   *)
(* taking the mutex each time, so it is a sequence of AddTx steps.         *)
(* Hashes are model values: a transaction is identified by its hash.       *)
(* The array's capacity doubling in push() is memory management and never *)
(* changes what the pool returns, so only cnt (Len(txs)) is kept.          *)
(***************************************************************************)
EXTENDS Integers, Sequences, FiniteSets

CONSTANTS
  Hashes,             \* transaction hashes
  TransactionTimeOut, \* TransactionTimeOut (seconds)
  PendingSizes,       \* the sizes callers pass to Pending
  MaxTime,            \* bound on the wall clock (seconds)
  MaxCnt              \* bound on cache.cnt, the entries pushed since the last reset

ASSUME /\ TransactionTimeOut \in Nat \ {0}
       /\ PendingSizes \subseteq Nat \ {0}
       /\ MaxTime \in Nat /\ MaxCnt \in Nat \ {0}

VARIABLES
  now,      \* time.Now().Unix()
  lastTime, \* recent.lastTime: the time of the last rotation
  curIdx,   \* recent.index: the bucket Cur() names; Bak() is the other one
  recent,   \* recent.recent: the two buckets, [0..1 -> SUBSET Hashes]
  txs,      \* cache.txs[0..cnt-1] as a sequence of [tx, del]
  index,    \* cache.index: position (1-based) of a hash in txs, 0 = absent
  out,      \* the list Pending returned, if the last step was a Pending
  putAt,    \* history: time of the last recent.put(h), -1 if never
  accepted, \* history: hashes AddTx has appended to the cache
  removed   \* history: hashes passed to Remove and not re-accepted since

vars == <<now, lastTime, curIdx, recent, txs, index, out, putAt, accepted, removed>>

Entry == [tx : Hashes, del : BOOLEAN]

NoIndex == [h \in Hashes |-> 0]

-----------------------------------------------------------------------------
(* TxsRecent *)

\* isExist: the hash is in either bucket.
IsExist(h) == h \in recent[0] \cup recent[1]

\* Mutant: the rotation clears the bucket Cur() names instead of Bak().
PutClearsCur(h) ==
  LET rotate == now - lastTime > TransactionTimeOut
      cur    == IF rotate THEN 1 - curIdx ELSE curIdx
      kept   == IF rotate THEN [recent EXCEPT ![curIdx] = {}] ELSE recent
  IN /\ lastTime' = IF rotate THEN now ELSE lastTime
     /\ curIdx' = cur
     /\ recent' = [kept EXCEPT ![cur] = @ \cup {h}]
     /\ putAt' = [putAt EXCEPT ![h] = now]

\* put: rotate when more than TransactionTimeOut seconds have passed since
\* the last rotation (clear Bak, then swap), then insert into Cur.
Put(h) ==
  LET rotate == now - lastTime > TransactionTimeOut
      bak    == 1 - curIdx
      cur    == IF rotate THEN bak ELSE curIdx
      kept   == IF rotate THEN [recent EXCEPT ![bak] = {}] ELSE recent
  IN /\ lastTime' = IF rotate THEN now ELSE lastTime
     /\ curIdx' = cur
     /\ recent' = [kept EXCEPT ![cur] = @ \cup {h}]
     /\ putAt' = [putAt EXCEPT ![h] = now]

-----------------------------------------------------------------------------
(* TxsSortByTime *)

\* Mutant: the index is set one past the appended entry.
PushIndexOffByOne(h) ==
  /\ Len(txs) < MaxCnt
  /\ txs' = Append(txs, [tx |-> h, del |-> FALSE])
  /\ index' = [index EXCEPT ![h] = Len(txs) + 2]

\* Mutant: push leaves an index entry the hash already has.
PushKeepsIndex(h) ==
  /\ Len(txs) < MaxCnt
  /\ txs' = Append(txs, [tx |-> h, del |-> FALSE])
  /\ index' = IF index[h] = 0 THEN [index EXCEPT ![h] = Len(txs) + 1] ELSE index

\* push: append a live entry and point the index at it.
Push(h) ==
  /\ Len(txs) < MaxCnt
  /\ txs' = Append(txs, [tx |-> h, del |-> FALSE])
  /\ index' = [index EXCEPT ![h] = Len(txs) + 1]

\* The hashes pop(size) returns: the first size entries not flagged deleted.
PopResult(size) ==
  LET live == SelectSeq(txs, LAMBDA e : ~e.del)
      n    == IF size < Len(live) THEN size ELSE Len(live)
  IN [i \in 1..n |-> live[i].tx]

\* Mutant: pop resets whenever it returns fewer entries than asked for.
PopResetsShort(size) == Len(PopResult(size)) < size

\* pop resets the array and the index when it finds nothing to return.
PopResets(size) == Len(PopResult(size)) <= 0

\* removeBatch: flag the entry each key's index points at.
RemoveBatch(keys) ==
  [i \in 1..Len(txs) |->
     IF \E k \in keys : index[k] = i THEN [txs[i] EXCEPT !.del = TRUE]
                                     ELSE txs[i]]

-----------------------------------------------------------------------------
(* TxPool *)

\* AddTx: a hash already in the recent set returns nil with no change (that
\* step is a stutter); otherwise put it, push the transaction and send it
\* on NewTxsFeed (the feed is not modelled).
AddTx(h) ==
  /\ ~IsExist(h)
  /\ Put(h)
  /\ Push(h)
  /\ accepted' = accepted \cup {h}
  /\ removed' = removed \ {h}
  /\ out' = <<>>
  /\ UNCHANGED now

\* AddKey: record a hash in the recent set only.
AddKey(h) ==
  /\ Put(h)
  /\ out' = <<>>
  /\ UNCHANGED <<now, txs, index, accepted, removed>>

\* Pending(size) returns pop(size).
Pending(size) ==
  /\ out' = PopResult(size)
  /\ IF PopResets(size)
       THEN txs' = <<>> /\ index' = NoIndex
       ELSE UNCHANGED <<txs, index>>
  /\ UNCHANGED <<now, lastTime, curIdx, recent, putAt, accepted, removed>>

\* Remove(keys): an empty key list returns at once (a stutter).
Remove(keys) ==
  /\ txs' = RemoveBatch(keys)
  /\ removed' = removed \cup keys
  /\ out' = <<>>
  /\ UNCHANGED <<now, lastTime, curIdx, recent, index, putAt, accepted>>

\* The wall clock advances by one second.
Tick ==
  /\ now < MaxTime
  /\ now' = now + 1
  /\ out' = <<>>
  /\ UNCHANGED <<lastTime, curIdx, recent, txs, index, putAt, accepted, removed>>

\* NewTxPool / NewRecent / NewTxsSortByTime.
Init ==
  /\ now = 0
  /\ lastTime = now
  /\ curIdx = 0
  /\ recent = [b \in 0..1 |-> {}]
  /\ txs = <<>>
  /\ index = NoIndex
  /\ out = <<>>
  /\ putAt = [h \in Hashes |-> -1]
  /\ accepted = {}
  /\ removed = {}

Next ==
  \/ \E h \in Hashes : AddTx(h) \/ AddKey(h)
  \/ \E size \in PendingSizes : Pending(size)
  \/ \E keys \in SUBSET Hashes \ {{}} : Remove(keys)
  \/ Tick

Spec == Init /\ [][Next]_vars

-----------------------------------------------------------------------------
(* Properties *)

\* Types, and cache.index only points into cache.txs[0..cnt-1].
TypeOK ==
  /\ now \in 0..MaxTime /\ lastTime \in 0..MaxTime
  /\ curIdx \in 0..1
  /\ recent \in [0..1 -> SUBSET Hashes]
  /\ txs \in Seq(Entry) /\ Len(txs) <= MaxCnt
  /\ index \in [Hashes -> 0..MaxCnt]
  /\ \A h \in Hashes : index[h] <= Len(txs)
  /\ out \in Seq(Hashes)
  /\ putAt \in [Hashes -> -1..MaxTime]
  /\ accepted \subseteq Hashes /\ removed \subseteq Hashes

\* De-duplication horizon, lower end (put/isExist): a hash put into the
\* recent set at time t is still reported present at every time up to
\* t + TransactionTimeOut, however puts of other hashes rotate the buckets
\* in between.  AddTx relies on this to drop re-broadcasts.
DedupWithinTimeout ==
  \A h \in Hashes :
    (putAt[h] >= 0 /\ now <= putAt[h] + TransactionTimeOut) => IsExist(h)

\* No transaction is lost by pop's reset: every hash AddTx accepted and no
\* Remove named since is still a live entry of the cache, so a later
\* Pending can return it.
NoAcceptedTxLost ==
  \A h \in accepted \ removed :
    \E i \in 1..Len(txs) : txs[i].tx = h /\ ~txs[i].del

\* Remove(keys) (miner or block import after packaging keys): a hash
\* removed and not re-accepted since is never returned by Pending.
PendingExcludesRemoved ==
  \A i \in 1..Len(out) : out[i] \notin removed
-----------------------------------------------------------------------------
(* Refinement: TxPool implements PoolQueue *)

\* The positions of the live entries, oldest first.
LivePositions == SelectSeq([i \in 1..Len(txs) |-> i], LAMBDA i : ~txs[i].del)

\* The queue the array stands for: its live entries in order, an entry
\* being its hash's copy added last when the index map points at it.
QueueView ==
  [k \in 1..Len(LivePositions) |->
     LET i == LivePositions[k]
     IN [tx |-> txs[i].tx, last |-> index[txs[i].tx] = i]]

Abstract == INSTANCE PoolQueue WITH queue <- QueueView

\* The array with its delete flags, the index map and pop's reset implement
\* the abstract queue: every AddTx, Pending, Remove, AddKey and clock step
\* is a step of PoolQueue on the live entries (a reset that left the index
\* behind, or a push that pointed it elsewhere, would make a later Remove
\* drop another transaction than the abstract one).
ImplementsPoolQueue == Abstract!Spec
=============================================================================
