------------------------------ MODULE PoolQueue ------------------------------
(***************************************************************************)
(* What the transaction pool promises its callers (spec 4.5), over the     *)
(* live transactions only: a queue of hashes in arrival order, from which  *)
(* Pending returns a prefix without consuming it.  A hash may be queued    *)
(* twice (once the recent set has forgotten it); Remove drops, of each key *)
(* it is given, the copy added last, and an earlier copy stays queued.     *)
(* The array, its delete flags, the index map and the reset that empties  *)
(* them are TxPool's business and do not appear here.                     *)
(***************************************************************************)
EXTENDS Integers, Sequences

CONSTANTS
  Hashes,        \* transaction hashes
  PendingSizes   \* the sizes callers pass to Pending

VARIABLES
  queue,    \* the live transactions, oldest first: [tx, last]
  out,      \* the list the last Pending returned
  removed,  \* hashes passed to Remove and not added since
  accepted  \* hashes ever added

vars == <<queue, out, removed, accepted>>

\* Add: a new copy of h goes to the back and is now h's copy added last.
Add(h) ==
  /\ queue' = Append([i \in DOMAIN queue |->
                        [queue[i] EXCEPT !.last = @ /\ queue[i].tx # h]],
                     [tx |-> h, last |-> TRUE])
  /\ out' = <<>>
  /\ removed' = removed \ {h}
  /\ accepted' = accepted \cup {h}

\* Take: the first size queued hashes, the queue unchanged.
Take(size) ==
  LET n == IF size < Len(queue) THEN size ELSE Len(queue)
  IN /\ out' = [i \in 1..n |-> queue[i].tx]
     /\ UNCHANGED <<queue, removed, accepted>>

\* Drop: each key's copy added last leaves the queue.
Drop(keys) ==
  /\ queue' = SelectSeq(queue, LAMBDA e : ~(e.tx \in keys /\ e.last))
  /\ out' = <<>>
  /\ removed' = removed \cup keys
  /\ UNCHANGED accepted

\* A call that changes no queued transaction (a duplicate add, a key
\* recorded, time passing).
Idle ==
  /\ out' = <<>>
  /\ UNCHANGED <<queue, removed, accepted>>

Init ==
  /\ queue = <<>>
  /\ out = <<>>
  /\ removed = {}
  /\ accepted = {}

Next ==
  \/ \E h \in Hashes : Add(h)
  \/ \E size \in PendingSizes : Take(size)
  \/ \E keys \in SUBSET Hashes \ {{}} : Drop(keys)
  \/ Idle

Spec == Init /\ [][Next]_vars
=============================================================================
