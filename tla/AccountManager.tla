--------------------------- MODULE AccountManager ---------------------------
(***************************************************************************)
(* The account manager's change-log journal (chain/account, not part of   *)
(* the sources: modelled from spec 4.3).  The in-memory layer is a record  *)
(*   [bal |-> balances, txl |-> tx-hash lists, logs |-> change logs]       *)
(* in which every setter appends a change log [type, addr, old, new].      *)
(* Snapshot is the journal length, RevertToSnapshot undoes the logs past   *)
(* it newest first, MergeChangeLogs folds the logs past an index into one  *)
(* log per (type, address) keeping the earliest old and the latest new     *)
(* value.  Storage, code and events are not modelled: the VM is a black    *)
(* box that only moves balances (see TxProcessor).                         *)
(***************************************************************************)
EXTENDS Integers, Sequences

CONSTANTS
  Accounts,    \* addresses
  TxHashes     \* transaction hashes

\* Reset(parentHash): drop every in-memory change, rebase on the parent's
\* balances (the ChainDB snapshot).
Reset(parentBal) ==
  [bal |-> parentBal, txl |-> [a \in Accounts |-> <<>>], logs |-> <<>>]

\* account.SetBalance: the new balance and its change log.
SetBalance(am, a, v) ==
  [am EXCEPT !.bal[a] = v,
             !.logs = Append(@, [type |-> "balance", addr |-> a,
                                 old |-> am.bal[a], new |-> v])]

\* AppendTx on an account: its tx_hash_list is an ordered set.
AppendTx(am, a, h) ==
  IF \E i \in 1..Len(am.txl[a]) : am.txl[a][i] = h THEN am
  ELSE [am EXCEPT !.txl[a] = Append(@, h),
                  !.logs = Append(@, [type |-> "txs", addr |-> a,
                                      old |-> am.txl[a], new |-> Append(am.txl[a], h)])]

\* SaveTxInAccount(sender, recipient, hash).
SaveTxInAccount(am, from, to, h) == AppendTx(AppendTx(am, from, h), to, h)

\* Snapshot(): the current journal length.
Snapshot(am) == Len(am.logs)

\* Write one value back into the field a log is about.
Restore(am, e, v) ==
  IF e.type = "balance" THEN [am EXCEPT !.bal[e.addr] = v]
                        ELSE [am EXCEPT !.txl[e.addr] = v]

\* RevertToSnapshot(id): undo the logs past id, newest first.
RECURSIVE RevertToSnapshot(_, _)
RevertToSnapshot(am, id) ==
  IF Len(am.logs) <= id THEN am
  ELSE LET e == am.logs[Len(am.logs)]
       IN RevertToSnapshot([Restore(am, e, e.old)
                              EXCEPT !.logs = SubSeq(@, 1, Len(@) - 1)], id)

\* Fold one log into a merged run: a log of a (type, address) already in
\* the run only moves that entry's new value forward.
RECURSIVE Coalesce(_, _)
Coalesce(run, rest) ==
  IF rest = <<>> THEN run
  ELSE LET e    == Head(rest)
           same == {j \in 1..Len(run) : run[j].type = e.type /\ run[j].addr = e.addr}
       IN IF same = {} THEN Coalesce(Append(run, e), Tail(rest))
          ELSE LET j == CHOOSE j \in same : TRUE
               IN Coalesce([run EXCEPT ![j].new = e.new], Tail(rest))

\* MergeChangeLogs(from): one log per (type, address) among logs past from.
MergeChangeLogs(am, from) ==
  [am EXCEPT !.logs = SubSeq(@, 1, from) \o Coalesce(<<>>, SubSeq(@, from + 1, Len(@)))]
=============================================================================
