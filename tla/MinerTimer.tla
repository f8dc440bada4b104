----------------------------- MODULE MinerTimer -----------------------------
(***************************************************************************)
(* The propose-timer arithmetic of Miner.modifyTimer (chain/miner/         *)
(* miner.go): from the slot GetSlot gives the local deputy after the       *)
(* current block and the time since that block, decide to do nothing, to  *)
(* seal at once (a send on timeToMineCh), or to arm the timer.             *)
(*                                                                         *)
(* Time is in seconds: getTimespan is (now - block time) * 1000 with both  *)
(* times in whole seconds, so only multiples of 1000 ms occur; the slot    *)
(* timeout and block interval are given in the same unit.                  *)
(***************************************************************************)
EXTENDS Integers

CONSTANTS
  NodeCount,      \* GetDeputiesCount()
  TimeoutTime,    \* m.timeoutTime, the slot of one deputy
  BlockInternal,  \* m.blockInternal, the least gap between blocks
  MaxSpan         \* timeDur values are 0..MaxSpan

ASSUME /\ NodeCount \in Nat \ {0}
       /\ 0 < BlockInternal /\ BlockInternal < TimeoutTime

\* GetSlot's results: -1 (unknown miner), 0..N-1, and N at a boundary height.
Slots == -1..NodeCount

\* getTimespan: (now - block time) * 1000, in whole seconds here, or
\* blockInternal when the current block's time is 0.
Spans == 0..MaxSpan

OneLoopTime == NodeCount * TimeoutTime

\* Go's % truncates toward zero.
GoMod(a, n) == IF a >= 0 THEN a % n ELSE -((-a) % n)

None    == [act |-> "none", wait |-> 0]
Fire    == [act |-> "fire", wait |-> 0]
Arm(w)  == [act |-> "arm", wait |-> w]

\* slot 0: this node sealed the current block.  Only after a whole round
\* without a block does it plan its next turn; otherwise the timer that
\* sealBlock armed stays.
PlanSlot0(timeDur) ==
  IF timeDur > OneLoopTime
    THEN LET w == (NodeCount - 1) * TimeoutTime - (timeDur % OneLoopTime)
         IN IF w <= 0 THEN Fire ELSE Arm(w)
    ELSE None

\* Mutant: the minimum block interval is not waited out.
PlanSlot1NoInterval(timeDur) ==
  IF timeDur > OneLoopTime
    THEN LET td == timeDur % OneLoopTime
         IN IF td < TimeoutTime THEN Fire ELSE Arm(OneLoopTime - td)
  ELSE IF timeDur > TimeoutTime THEN Arm(OneLoopTime - timeDur)
  ELSE Fire

\* slot 1: this node is next.
PlanSlot1(timeDur) ==
  IF timeDur > OneLoopTime
    THEN LET td == timeDur % OneLoopTime
         IN IF td < TimeoutTime THEN Fire ELSE Arm(OneLoopTime - td)
  ELSE IF timeDur > TimeoutTime THEN Arm(OneLoopTime - timeDur)
  ELSE IF timeDur >= BlockInternal THEN Fire
  ELSE Arm(BlockInternal - timeDur)

\* Mutant: the wait of a later slot without adding a round first.
PlanLaterNoWrap(slot, timeDur) ==
  LET td == timeDur % OneLoopTime
  IN IF (slot - 1) * TimeoutTime <= td /\ td < slot * TimeoutTime THEN Fire
     ELSE Arm(GoMod((slot - 1) * TimeoutTime - td, OneLoopTime))

\* slot >= 2: seal inside the window ((slot-1)T, slot T] of the round,
\* else wait for its start.
PlanLater(slot, timeDur) ==
  LET td == timeDur % OneLoopTime
  IN IF (slot - 1) * TimeoutTime <= td /\ td < slot * TimeoutTime THEN Fire
     ELSE Arm(GoMod((slot - 1) * TimeoutTime - td + OneLoopTime, OneLoopTime))

\* modifyTimer: isSelfDeputyNode and the self lookup (one condition: both
\* look the local node up at the current height), the single-deputy case,
\* the unknown-miner case, then the plan of the slot.
ModifyTimer(isDeputy, slot, timeDur) ==
  CASE ~isDeputy      -> None
    [] NodeCount = 1  -> Arm(BlockInternal)
    [] slot = -1      -> None
    [] slot = 0       -> PlanSlot0(timeDur)
    [] slot = 1       -> PlanSlot1(timeDur)
    [] OTHER          -> PlanLater(slot, timeDur)

\* The time since the current block at which the node seals under a plan.
Instant(p, timeDur) == IF p.act = "fire" THEN timeDur ELSE timeDur + p.wait

=============================================================================
