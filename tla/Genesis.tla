------------------------------ MODULE Genesis ------------------------------
(***************************************************************************)
(* SetupGenesisBlock of chain/genesis.go, run by a node at start-up, and   *)
(* the ChainDB it writes to.                                               *)
(*                                                                         *)
(* The call validates the genesis configuration (a failed check panics,    *)
(* which ends the process), then makes four calls that each may return an *)
(* error, which SetupGenesisBlock returns at once: am.Finalise, then       *)
(* db.SetBlock, am.Save and db.SetStableBlock, in that order.  The three   *)
(* writes are the DB's only state here: the genesis block, its account    *)
(* state, and the stable-block pointer.  ChainDB is outside the sources;  *)
(* following its interface (spec 6) SetBlock of a hash already stored     *)
(* returns the ErrExist sentinel, and any call may fail on I/O.           *)
(*                                                                         *)
(* Who calls SetupGenesisBlock is outside the sources too.  The node is   *)
(* taken to run it at boot while the DB has no stable block, and to exit  *)
(* on its error; a supervisor boots it again.  The process may crash at   *)
(* any point: what is written stays, what is in memory is lost.           *)
(***************************************************************************)
EXTENDS Integers, Sequences

CONSTANTS
  Configs,    \* the genesis configurations the node may be given
  NilGenesis, \* genesis == nil: the node uses DefaultGenesisBlock()
  Default,    \* DefaultGenesisBlock()
  Now,        \* time.Now().Unix() at setup
  MaxFaults,  \* bound: failed Finalise and DB calls
  MaxCrashes  \* bound: process crashes

VARIABLES
  cfg,     \* the genesis argument the node passes (fixed across boots)
  node,    \* "down", "setup" (inside SetupGenesisBlock) or "running"
  step,    \* the call SetupGenesisBlock makes next
  db,      \* [block, state, stable]: what ChainDB holds of the genesis block
  faults,  \* failed calls so far
  crashes  \* crashes so far

gvars == <<cfg, node, step, db, faults, crashes>>

Steps == {"validate", "finalise", "setBlock", "save", "setStable"}

-----------------------------------------------------------------------------
(* Validation *)

\* DeputyNode.Check: a node ID of 64 bytes (idLen) and a port that fits 16 bits.
Check(d) == d.idLen = 64 /\ d.port <= 65535

\* genesis == nil selects DefaultGenesisBlock().
Effective(g) == IF g = NilGenesis THEN Default ELSE g

\* The four panics of SetupGenesisBlock: no deputies, more than 256 bytes
\* of extra data, a time after now, a deputy failing Check.
Valid(g) ==
  LET e == Effective(g)
  IN /\ Len(e.deputies) > 0
     /\ e.extraLen <= 256
     /\ e.time <= Now
     /\ \A i \in DOMAIN e.deputies : Check(e.deputies[i])

\* The miner addresses of the genesis deputies, in rank order.
GenesisRoster(g) ==
  LET e == Effective(g) IN [i \in DOMAIN e.deputies |-> e.deputies[i].miner]

-----------------------------------------------------------------------------
(* SetupGenesisBlock, one call per step *)

\* The call returns an error: the node exits.
Fail ==
  /\ faults < MaxFaults
  /\ faults' = faults + 1
  /\ node' = "down"
  /\ UNCHANGED <<cfg, step, db, crashes>>

\* The checks: a panic ends the process.
Validate ==
  /\ node = "setup" /\ step = "validate"
  /\ IF Valid(cfg) THEN step' = "finalise" /\ UNCHANGED node
                   ELSE node' = "down" /\ UNCHANGED step
  /\ UNCHANGED <<cfg, db, faults, crashes>>

\* NewManager, ToBlock, setBalance (all in memory), then am.Finalise.
Finalise ==
  /\ node = "setup" /\ step = "finalise"
  /\ \/ step' = "setBlock" /\ UNCHANGED <<cfg, node, db, faults, crashes>>
     \/ Fail

\* db.SetBlock(hash, block): ErrExist if the block is stored already.
SetBlock ==
  /\ node = "setup" /\ step = "setBlock"
  /\ \/ /\ ~db.block
        /\ db' = [db EXCEPT !.block = TRUE]
        /\ step' = "save"
        /\ UNCHANGED <<cfg, node, faults, crashes>>
     \/ /\ db.block
        /\ node' = "down"
        /\ UNCHANGED <<cfg, step, db, faults, crashes>>
     \/ Fail

\* Mutant: an error of am.Save is not checked.
SaveIgnoresError ==
  /\ node = "setup" /\ step = "save"
  /\ \/ db' = [db EXCEPT !.state = TRUE] /\ step' = "setStable"
        /\ UNCHANGED <<cfg, node, faults, crashes>>
     \/ /\ faults < MaxFaults /\ faults' = faults + 1
        /\ step' = "setStable"
        /\ UNCHANGED <<cfg, node, db, crashes>>

\* am.Save(hash): the genesis account state is stored under the hash.
Save ==
  /\ node = "setup" /\ step = "save"
  /\ \/ /\ db' = [db EXCEPT !.state = TRUE]
        /\ step' = "setStable"
        /\ UNCHANGED <<cfg, node, faults, crashes>>
     \/ Fail

\* db.SetStableBlock(hash), then the hash is returned.
SetStable ==
  /\ node = "setup" /\ step = "setStable"
  /\ \/ /\ db' = [db EXCEPT !.stable = TRUE]
        /\ node' = "running"
        /\ UNCHANGED <<cfg, step, faults, crashes>>
     \/ Fail

-----------------------------------------------------------------------------
(* The node around the call *)

\* Boot: with a stable block the node starts on it; else it runs
\* SetupGenesisBlock from the top.
Boot ==
  /\ node = "down"
  /\ IF db.stable THEN node' = "running" /\ UNCHANGED step
                  ELSE node' = "setup" /\ step' = "validate"
  /\ UNCHANGED <<cfg, db, faults, crashes>>

\* The process dies; the DB keeps what was written.
Crash ==
  /\ node # "down" /\ crashes < MaxCrashes
  /\ node' = "down"
  /\ crashes' = crashes + 1
  /\ UNCHANGED <<cfg, step, db, faults>>

Init ==
  /\ cfg \in Configs \cup {NilGenesis}
  /\ node = "down"
  /\ step = "validate"
  /\ db = [block |-> FALSE, state |-> FALSE, stable |-> FALSE]
  /\ faults = 0 /\ crashes = 0

SetupStep == Validate \/ Finalise \/ SetBlock \/ Save \/ SetStable

Next == SetupStep \/ Boot \/ Crash

-----------------------------------------------------------------------------
(* Properties *)

GenesisTypeOK ==
  /\ node \in {"down", "setup", "running"} /\ step \in Steps
  /\ db \in [block : BOOLEAN, state : BOOLEAN, stable : BOOLEAN]
  /\ faults \in 0..MaxFaults /\ crashes \in 0..MaxCrashes

\* Crash consistency of the genesis writes: whenever ChainDB names a
\* stable block, the block and its account state are both stored, and a
\* running node started from a valid configuration, whatever crashes and
\* failed calls came between SetBlock, Save and SetStableBlock.
StableImpliesComplete ==
  /\ db.stable => db.block /\ db.state
  /\ node = "running" => db.stable /\ Valid(cfg)
=============================================================================
