----------------------------- MODULE EVMContext -----------------------------
(***************************************************************************)
(* GetHashFn of chain/evm.go: the GetHash function NewEVMContext gives the *)
(* VM, a closure over the header being built (ref) that answers "hash of  *)
(* the block at height n" and keeps a cache across calls.  A block hash is *)
(* a positive integer, 0 is common.Hash{}; the chain is a function from   *)
(* the hashes GetBlockByHash knows to their [height, parent].  Heights are *)
(* uint32: ref.Height - 1 and Header.Height - 1 wrap modulo 2^HeightWidth. *)
(***************************************************************************)
EXTENDS Integers, Sequences, TLC

CONSTANTS
  Chain,       \* [hash -> [height, parent]]: the blocks GetBlockByHash finds
  HeightWidth  \* bits of a height (32 in the code)

ZeroHash == 0
NoCache == [n \in {} |-> ZeroHash]

\* uint32 height arithmetic.
Pred(h) == (h - 1) % 2^HeightWidth

\* chain.GetBlockByHash: the block, if the chain knows the hash.
Known(h) == h \in DOMAIN Chain

\* Mutant: the walk caches each block's parent under the block's own height.
RECURSIVE WalkOwnHeight(_, _, _)
WalkOwnHeight(cache, h, n) ==
  IF ~Known(h) THEN [cache |-> cache, ans |-> ZeroHash]
  ELSE LET b == Chain[h]
           c == (Pred(b.height) + 1 :> b.parent) @@ cache
       IN IF n = Pred(b.height) + 1 THEN [cache |-> c, ans |-> b.parent]
          ELSE WalkOwnHeight(c, b.parent, n)

\* The loop from GetBlockByHash(ref.ParentHash) down the parents: cache
\* each block's parent hash under its height - 1, and return it when that
\* is n; a hash the chain does not know ends the walk with the zero hash.
RECURSIVE Walk(_, _, _)
Walk(cache, h, n) ==
  IF ~Known(h) THEN [cache |-> cache, ans |-> ZeroHash]
  ELSE LET b == Chain[h]
           c == (Pred(b.height) :> b.parent) @@ cache
       IN IF n = Pred(b.height) THEN [cache |-> c, ans |-> b.parent]
          ELSE Walk(c, b.parent, n)

\* One call of the closure: a nil cache is first made holding
\* ref.Height - 1 -> ref.ParentHash; a cached height is answered at once.
GetHash(ref, cache, n) ==
  LET c == IF cache = NoCache THEN Pred(ref.height) :> ref.parent ELSE cache
  IN IF n \in DOMAIN c THEN [cache |-> c, ans |-> c[n]]
     ELSE Walk(c, ref.parent, n)

\* The answers a sequence of calls to one closure gives, in order.
RECURSIVE Answers(_, _, _)
Answers(ref, cache, ns) ==
  IF ns = <<>> THEN <<>>
  ELSE LET r == GetHash(ref, cache, Head(ns))
       IN <<r.ans>> \o Answers(ref, r.cache, Tail(ns))

\* Reference: the hash of ref's ancestor at height n (its parent, the
\* parent's parent, ...), the zero hash where there is none.
RECURSIVE Ancestor(_, _)
Ancestor(h, n) ==
  IF ~Known(h) THEN ZeroHash
  ELSE IF Chain[h].height = n THEN h
  ELSE Ancestor(Chain[h].parent, n)

HashAt(ref, n) == IF n < ref.height THEN Ancestor(ref.parent, n) ELSE ZeroHash
=============================================================================
