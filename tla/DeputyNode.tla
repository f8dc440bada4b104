----------------------------- MODULE DeputyNode -----------------------------
(***************************************************************************)
(* The deputy roster of chain/deputynode/deputy_node.go: an append-only    *)
(* list of (effective height, nodes) records and the lookups the miner     *)
(* and the processor make on it.  A node is its miner address; its Rank   *)
(* is its position in the record's list minus one (ranks of a record are  *)
(* 0..N-1, spec 3).  The roster is loaded and grown by NodeStart.        *)
(* Heights and the two height constants are scaled down, keeping          *)
(* TransitionPeriod + 1 < SnapshotBlockInterval.                           *)
(***************************************************************************)
EXTENDS Integers, Sequences, FiniteSets

CONSTANTS
  Addrs,                 \* miner addresses of deputy candidates
  RosterSizes,           \* the sizes a roster record may have
  MaxHeight,             \* heights are 0..MaxHeight
  MaxRecords,            \* bound on the number of roster records
  SnapshotBlockInterval, \* SnapshotBlockInterval
  TransitionPeriod       \* TransitionPeriod

ASSUME /\ RosterSizes \subseteq 1..Cardinality(Addrs)
       /\ TransitionPeriod + 1 < SnapshotBlockInterval

Heights == 0..MaxHeight

VARIABLE
  list     \* DeputyNodesList: a sequence of [height, nodes]

\* Rosters: lists of distinct addresses, rank = position - 1.
Rosters == {r \in UNION {[1..n -> Addrs] : n \in RosterSizes} :
              \A i, j \in DOMAIN r : i # j => r[i] # r[j]}

\* Go's % truncates toward zero: the sign follows the dividend.
GoMod(a, n) == IF a >= 0 THEN a % n ELSE -((-a) % n)

-----------------------------------------------------------------------------
(* Lookups *)

\* Mutant: the scan also accepts a record whose successor takes effect at
\* exactly this height.
GetDeputiesByHeightInclusive(l, height) ==
  LET hits == {i \in 1..Len(l) - 1 : l[i].height <= height /\ l[i+1].height >= height}
  IN IF hits = {} THEN l[Len(l)].nodes
     ELSE l[CHOOSE i \in hits : \A j \in hits : i <= j].nodes

\* getDeputiesByHeight: the first record i with list[i].height <= height <
\* list[i+1].height, else the last record.
GetDeputiesByHeight(l, height) ==
  LET hits == {i \in 1..Len(l) - 1 : l[i].height <= height /\ l[i+1].height > height}
  IN IF hits = {} THEN l[Len(l)].nodes
     ELSE l[CHOOSE i \in hits : \A j \in hits : i <= j].nodes

\* GetDeputiesCount: the size of the first (genesis) record.
GetDeputiesCount(l) == Len(l[1].nodes)

\* Mutant: ranks counted from one.
RankAtOneBased(l, height, addr) ==
  LET nodes == GetDeputiesByHeight(l, height)
  IN IF \E i \in DOMAIN nodes : nodes[i] = addr
       THEN CHOOSE i \in DOMAIN nodes : nodes[i] = addr
       ELSE -1

\* GetDeputyByAddress: the node's rank in the roster at height, -1 = nil.
RankAt(l, height, addr) ==
  LET nodes == GetDeputiesByHeight(l, height)
  IN IF \E i \in DOMAIN nodes : nodes[i] = addr
       THEN (CHOOSE i \in DOMAIN nodes : nodes[i] = addr) - 1
       ELSE -1

\* The boundary heights at which GetSlot ignores the previous miner.
IsBoundary(height) ==
  \/ height = 1
  \/ height > SnapshotBlockInterval /\ height % SnapshotBlockInterval = TransitionPeriod + 1

\* Mutant: the two ranks subtracted the other way round.
GetSlotSwapped(l, height, first, next) ==
  LET fr == RankAt(l, height, first)
      nr == RankAt(l, height, next)
      n  == GetDeputiesCount(l)
  IN CASE IsBoundary(height) /\ nr # -1 -> nr + 1
       [] fr = -1 \/ nr = -1              -> -1
       [] n = 1                           -> 1
       [] OTHER                           -> GoMod(fr - nr + n, n)

\* GetSlot(height, firstAddress, nextAddress).
GetSlot(l, height, first, next) ==
  LET fr == RankAt(l, height, first)
      nr == RankAt(l, height, next)
      n  == GetDeputiesCount(l)
  IN CASE IsBoundary(height) /\ nr # -1 -> nr + 1
       [] fr = -1 \/ nr = -1              -> -1
       [] n = 1                           -> 1
       [] OTHER                           -> GoMod(nr - fr + n, n)

\* TimeToHandOutRewards: some record after the first took effect
\* TransitionPeriod + 1 blocks ago (the code's literal 1000 + 1).
TimeToHandOutRewards(l, height) ==
  \E i \in 2..Len(l) : l[i].height + TransitionPeriod + 1 = height

-----------------------------------------------------------------------------
(* Operations *)

\* Add(height, nodes): append a record under the lock.  The caller passes
\* increasing heights (spec 4.4); MaxRecords bounds the list.
Add(height, nodes) ==
  /\ Len(list) < MaxRecords
  /\ list' = Append(list, [height |-> height, nodes |-> nodes])

\* The reference lookup (spec 4.4): the last record whose height is at
\* most the given one.
LatestRecord(l, height) ==
  l[CHOOSE i \in 1..Len(l) : l[i].height <= height
                              /\ \A j \in i+1..Len(l) : l[j].height > height].nodes
=============================================================================
