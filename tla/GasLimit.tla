------------------------------ MODULE GasLimit ------------------------------
(***************************************************************************)
(* calcGasLimit of chain/miner/miner.go: the gas limit sealHead gives the *)
(* block to mine from its parent's gas limit and gas used.  The operands   *)
(* are uint64: every subtraction and addition wraps modulo 2^Width.  The   *)
(* three params constants are not among the sources and are constants     *)
(* here.                                                                    *)
(***************************************************************************)
EXTENDS Integers

CONSTANTS
  GasLimitBoundDivisor, \* params.GasLimitBoundDivisor
  MinGasLimit,          \* params.MinGasLimit
  TargetGasLimit,       \* params.TargetGasLimit
  Width                 \* bits of the unsigned operands (64 in the code)

ASSUME /\ GasLimitBoundDivisor \in Nat \ {0}
       /\ MinGasLimit <= TargetGasLimit /\ TargetGasLimit < 2^Width

\* uint64 arithmetic.
U(x) == x % 2^Width

\* Mutant: the decay is parentGasLimit / divisor, without the "- 1".
CalcGasLimitFullDecay(parentLimit, parentUsed) ==
  LET contrib == U(parentUsed + parentUsed \div 2) \div GasLimitBoundDivisor
      decay   == parentLimit \div GasLimitBoundDivisor
      limit0  == U(U(parentLimit - decay) + contrib)
      limit1  == IF limit0 < MinGasLimit THEN MinGasLimit ELSE limit0
  IN IF limit1 < TargetGasLimit
       THEN LET up == U(parentLimit + decay)
            IN IF up > TargetGasLimit THEN TargetGasLimit ELSE up
       ELSE limit1

\* calcGasLimit: contrib = (used * 3/2) / divisor, decay = limit / divisor
\* - 1; the limit moves by contrib - decay, is raised to MinGasLimit, and
\* while below TargetGasLimit grows by decay instead, capped at the target.
CalcGasLimit(parentLimit, parentUsed) ==
  LET contrib == U(parentUsed + parentUsed \div 2) \div GasLimitBoundDivisor
      decay   == U(parentLimit \div GasLimitBoundDivisor - 1)
      limit0  == U(U(parentLimit - decay) + contrib)
      limit1  == IF limit0 < MinGasLimit THEN MinGasLimit ELSE limit0
  IN IF limit1 < TargetGasLimit
       THEN LET up == U(parentLimit + decay)
            IN IF up > TargetGasLimit THEN TargetGasLimit ELSE up
       ELSE limit1
=============================================================================
