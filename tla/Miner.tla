------------------------------- MODULE Miner -------------------------------
(***************************************************************************)
(* The goroutines of chain/miner/miner.go and the channels between them.  *)
(*                                                                         *)
(*  - "loop": Miner.loop, started by New.  With mining = 0 it drains one  *)
(*    new-block notice and sleeps; with mining = 1 it blocks in a select  *)
(*    on timeToMineCh (sealBlock), recvNewBlockCh (modifyTimer) and quitCh *)
(*    (return).                                                            *)
(*  - "user": the goroutine of the node that calls Start and Stop.  Start *)
(*    runs modifyTimer on that goroutine.                                  *)
(*  - one callback goroutine per time.AfterFunc timer: when it fires it   *)
(*    reads mining and, if 1, blocks sending on timeToMineCh.             *)
(*                                                                         *)
(* timeToMineCh and quitCh are unbuffered: a send completes only when the *)
(* loop is parked in its select.  The only receiver of timeToMineCh is    *)
(* the loop.  modifyTimer's choice (nothing, seal now by a send, or arm   *)
(* the timer) is any outcome MinerTimer!ModifyTimer gives for the slots   *)
(* and time spans it is called with; the duration armed is left out: a    *)
(* timer fires at some later time.  resetMinerTimer reads and stops       *)
(* blockMineTimer, then stores a new timer: two steps, as the field is    *)
(* shared by the loop and the user goroutine without a lock.  Timers are  *)
(* counted, not named: the one blockMineTimer names, the armed ones no    *)
(* field names any more (orphans), and the callbacks blocked sending.      *)
(***************************************************************************)
EXTENDS Integers, FiniteSets

CONSTANTS
  NodeCount, TimeoutTime, BlockInternal, MaxSpan, \* as in MinerTimer
  SealCanFail,  \* ApplyTxs, crypto.Sign or engine.Seal may return an error
  MaxCalls,     \* bound: the Start and Stop calls the node makes
  MaxBlocks,    \* bound: the blocks peers send
  GasLimitBoundDivisor, MinGasLimit, TargetGasLimit, Width \* as in GasLimit

MT == INSTANCE MinerTimer
GL == INSTANCE GasLimit

\* The outcomes modifyTimer can have on a node that is, or is not, a
\* deputy at the current height.
PlanActs(isDeputy) ==
  {MT!ModifyTimer(isDeputy, s, d).act : s \in MT!Slots, d \in MT!Spans}

Goroutines == {"loop", "user"}

VARIABLES
  mining,  \* m.mining
  deputy,  \* isSelfDeputyNode(): the node is a deputy at the current height
  pc,      \* per goroutine: where it is
  field,   \* the timer m.blockMineTimer names: "none", "armed" or "dead"
  orphans, \* armed timers no longer named by blockMineTimer
  firing,  \* timer callbacks blocked sending on timeToMineCh
  recv,    \* a new-block notice is waiting on recvNewBlockCh
  calls,   \* Start and Stop calls made so far
  blocks   \* peer blocks sent so far

vars == <<mining, deputy, pc, field, orphans, firing, recv, calls, blocks>>

LoopStates == {"top", "enter", "select", "modify", "reset", "arm", "send", "seal", "exited"}
UserStates == {"idle", "modify", "reset", "arm", "send"}

\* Where a goroutine goes when modifyTimer or sealBlock returns.
Done(g) == IF g = "loop" THEN "top" ELSE "idle"

-----------------------------------------------------------------------------
(* The loop goroutine *)

\* mining == 0: drain one new-block notice without blocking, then sleep.
LoopIdle ==
  /\ pc["loop"] = "top" /\ mining = 0
  /\ recv' = FALSE
  /\ UNCHANGED <<mining, deputy, pc, field, orphans, firing, calls, blocks>>

\* mining == 1: go to the select.
LoopEnter ==
  /\ pc["loop"] = "top" /\ mining = 1
  /\ pc' = [pc EXCEPT !["loop"] = "enter"]
  /\ UNCHANGED <<mining, deputy, field, orphans, firing, recv, calls, blocks>>

\* The loop parks in its select.
LoopPark ==
  /\ pc["loop"] = "enter"
  /\ pc' = [pc EXCEPT !["loop"] = "select"]
  /\ UNCHANGED <<mining, deputy, field, orphans, firing, recv, calls, blocks>>

\* case <-m.timeToMineCh: m.sealBlock(), from a timer callback ...
RecvFromTimer ==
  /\ pc["loop"] = "select"
  /\ firing > 0
  /\ firing' = firing - 1
  /\ pc' = [pc EXCEPT !["loop"] = "seal"]
  /\ UNCHANGED <<mining, deputy, field, orphans, recv, calls, blocks>>

\* ... or from modifyTimer run by Start.
RecvFromUser ==
  /\ pc["loop"] = "select" /\ pc["user"] = "send"
  /\ pc' = [pc EXCEPT !["loop"] = "seal", !["user"] = "idle"]
  /\ UNCHANGED <<mining, deputy, field, orphans, firing, recv, calls, blocks>>

\* case <-m.recvNewBlockCh: m.modifyTimer()
RecvNewBlock ==
  /\ pc["loop"] = "select" /\ recv
  /\ recv' = FALSE
  /\ pc' = [pc EXCEPT !["loop"] = "modify"]
  /\ UNCHANGED <<mining, deputy, field, orphans, firing, calls, blocks>>

\* Mutant: sealBlock returns after sealing without re-arming the timer.
SealNoRearm ==
  /\ pc["loop"] = "seal"
  /\ pc' = [pc EXCEPT !["loop"] = "top"]
  /\ UNCHANGED <<mining, deputy, field, orphans, firing, recv, calls, blocks>>

\* sealBlock: not a deputy, or an error from ApplyTxs, Sign or Seal,
\* returns at once; otherwise the block is sent on mineNewBlockCh and the
\* timer re-armed with resetMinerTimer.
Seal ==
  /\ pc["loop"] = "seal"
  /\ \/ ~deputy /\ pc' = [pc EXCEPT !["loop"] = "top"]
     \/ deputy /\ SealCanFail /\ pc' = [pc EXCEPT !["loop"] = "top"]
     \/ deputy /\ pc' = [pc EXCEPT !["loop"] = "reset"]
  /\ UNCHANGED <<mining, deputy, field, orphans, firing, recv, calls, blocks>>

-----------------------------------------------------------------------------
(* modifyTimer and resetMinerTimer, on either goroutine *)

\* modifyTimer: nothing, arm the timer, or send on timeToMineCh.
Modify(g) ==
  /\ pc[g] = "modify"
  /\ \E a \in PlanActs(deputy) :
       pc' = [pc EXCEPT ![g] = CASE a = "none" -> Done(g)
                                 [] a = "arm"  -> "reset"
                                 [] a = "fire" -> "send"]
  /\ UNCHANGED <<mining, deputy, field, orphans, firing, recv, calls, blocks>>

\* resetMinerTimer, first half: stop the timer blockMineTimer names.  A
\* timer that has already fired is not stopped by Stop.
ResetStop(g) ==
  /\ pc[g] = "reset"
  /\ field' = IF field = "armed" THEN "dead" ELSE field
  /\ pc' = [pc EXCEPT ![g] = "arm"]
  /\ UNCHANGED <<mining, deputy, orphans, firing, recv, calls, blocks>>

\* resetMinerTimer, second half: blockMineTimer = time.AfterFunc(...).
ResetArm(g) ==
  /\ pc[g] = "arm"
  /\ orphans' = IF field = "armed" THEN orphans + 1 ELSE orphans
  /\ field' = "armed"
  /\ pc' = [pc EXCEPT ![g] = Done(g)]
  /\ UNCHANGED <<mining, deputy, firing, recv, calls, blocks>>

\* A timer fires: its callback sends on timeToMineCh if mining is 1.
FireSignal == IF mining = 1 THEN firing + 1 ELSE firing

\* The timer blockMineTimer names fires ...
TimerFire ==
  /\ field = "armed"
  /\ field' = "dead"
  /\ firing' = FireSignal
  /\ UNCHANGED <<mining, deputy, pc, orphans, recv, calls, blocks>>

\* ... or an orphan does.
OrphanFire ==
  /\ orphans > 0
  /\ orphans' = orphans - 1
  /\ firing' = FireSignal
  /\ UNCHANGED <<mining, deputy, pc, field, recv, calls, blocks>>

-----------------------------------------------------------------------------
(* The user goroutine and the network *)

\* Mutant: Start adds one to mining instead of the compare-and-swap.
StartIncrements ==
  /\ pc["user"] = "idle"
  /\ calls < MaxCalls
  /\ mining' = mining + 1
  /\ pc' = [pc EXCEPT !["user"] = "modify"]
  /\ calls' = calls + 1
  /\ UNCHANGED <<deputy, field, orphans, firing, recv, blocks>>

\* Start: CompareAndSwap(mining, 0, 1), then modifyTimer whether or not the
\* swap succeeded.
Start ==
  /\ pc["user"] = "idle"
  /\ calls < MaxCalls
  /\ mining' = 1
  /\ pc' = [pc EXCEPT !["user"] = "modify"]
  /\ calls' = calls + 1
  /\ UNCHANGED <<deputy, field, orphans, firing, recv, blocks>>

\* Stop: a non-blocking send on quitCh (taken only by a loop parked in its
\* select), then mining = 0.
Stop ==
  /\ pc["user"] = "idle"
  /\ calls < MaxCalls
  /\ pc' = IF pc["loop"] = "select" THEN [pc EXCEPT !["loop"] = "exited"] ELSE pc
  /\ mining' = 0
  /\ calls' = calls + 1
  /\ UNCHANGED <<deputy, field, orphans, firing, recv, blocks>>

\* A peer's block arrives on recvNewBlockCh; at the chain's new height
\* another roster may be in force, with or without this node.
NewBlock ==
  /\ ~recv /\ blocks < MaxBlocks
  /\ recv' = TRUE
  /\ blocks' = blocks + 1
  /\ deputy' \in BOOLEAN
  /\ UNCHANGED <<mining, pc, field, orphans, firing, calls>>

\* New: mining 0, no timer, go m.loop().
Init ==
  /\ mining = 0
  /\ deputy = TRUE
  /\ pc = [g \in Goroutines |-> IF g = "loop" THEN "top" ELSE "idle"]
  /\ field = "none"
  /\ orphans = 0 /\ firing = 0
  /\ recv = FALSE
  /\ calls = 0 /\ blocks = 0

LoopStep ==
  \/ LoopIdle \/ LoopEnter \/ LoopPark
  \/ RecvFromTimer \/ RecvFromUser \/ RecvNewBlock \/ Seal

Internal(g) == Modify(g) \/ ResetStop(g) \/ ResetArm(g)

Next ==
  \/ LoopStep
  \/ \E g \in Goroutines : Internal(g)
  \/ TimerFire \/ OrphanFire
  \/ Start \/ Stop \/ NewBlock

\* The loop, the internal steps of modifyTimer and the timers are fair;
\* the node's Start/Stop calls and the network are not.
Fairness ==
  /\ WF_vars(LoopStep)
  /\ \A g \in Goroutines : WF_vars(Internal(g))
  /\ WF_vars(TimerFire) /\ WF_vars(OrphanFire)

Spec == Init /\ [][Next]_vars /\ Fairness

-----------------------------------------------------------------------------
(* Properties *)

\* Types; mining is only ever 0 or 1, and blockMineTimer names a timer
\* that was created.
TypeOK ==
  /\ mining \in {0, 1} /\ deputy \in BOOLEAN
  /\ pc["loop"] \in LoopStates /\ pc["user"] \in UserStates
  /\ field \in {"none", "armed", "dead"}
  /\ orphans \in Nat /\ firing \in Nat
  /\ recv \in BOOLEAN /\ calls \in 0..MaxCalls /\ blocks \in 0..MaxBlocks

\* Every turn of the loop ends: once the loop has left its select to seal
\* or to run modifyTimer, it comes back to wait for the next event.
\* modifyTimer's send on timeToMineCh is the step that could keep it away.
LoopBusy == {"modify", "reset", "arm", "send", "seal"}

LoopReturns ==
  (pc["loop"] \in LoopBusy) ~> (pc["loop"] \in {"top", "select"})

\* A deputy that is mining is never silent: as long as the loop runs, it
\* eventually seals a block unless a peer's block or a Stop comes first.
\* sealBlock re-arming the timer is what keeps this true.
MiningMakesProgress ==
  (mining = 1 /\ deputy /\ pc["loop"] # "exited")
    ~> (pc["loop"] = "seal" \/ recv \/ mining = 0 \/ pc["loop"] = "exited")

\* Spec 5: "when replaced, the old timer is torn down before the new one
\* is set to avoid double-fire": at most one timer is armed or has fired
\* and waits to hand its signal to the loop.
NoDoubleFire ==
  (IF field = "armed" THEN 1 ELSE 0) + orphans + firing <= 1

\* The plans modifyTimer can make with the node's deputy status, over
\* every slot and time span: an armed wait lies in 0..NT (time.AfterFunc fires a negative
\* duration at once, a longer one skips the node's turn) ...
PlanWaitWithinRound ==
  \A s \in MT!Slots, d \in MT!Spans :
    MT!ModifyTimer(deputy, s, d).wait \in 0..MT!OneLoopTime

\* ... and no plan seals less than blockInternal after the current block.
ProposeAfterInterval ==
  \A s \in MT!Slots, d \in MT!Spans :
    LET p == MT!ModifyTimer(deputy, s, d)
    IN p.act # "none" => MT!Instant(p, d) >= BlockInternal

\* sealHead's gas limit (calcGasLimit) stays within the bound header
\* validation allows: whenever this node is a deputy, so that sealBlock
\* may run sealHead, a block it seals on any parent whose gas limit lies
\* between MinGasLimit and twice the target, with any gas used, has a gas
\* limit of at least MinGasLimit that differs from the parent's by less
\* than parentGasLimit / GasLimitBoundDivisor.  The "- 1" of the decay is
\* what keeps the step strictly inside the bound.
SealHeadLimitsBounded ==
  \A g \in MinGasLimit..2 * TargetGasLimit, u \in 0..2 * TargetGasLimit :
    u <= g =>
      LET d == GL!CalcGasLimit(g, u) - g
      IN /\ GL!CalcGasLimit(g, u) >= MinGasLimit
         /\ (IF d < 0 THEN -d ELSE d) < g \div GasLimitBoundDivisor

GasLimitStepBounded == deputy => SealHeadLimitsBounded
=============================================================================
