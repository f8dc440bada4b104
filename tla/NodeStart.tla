------------------------------ MODULE NodeStart ------------------------------
(***************************************************************************)
(* A node's start-up: SetupGenesisBlock (module Genesis) writes the        *)
(* genesis block and marks it stable, then the node loads the genesis     *)
(* deputies into the roster singleton of deputy_node.go as the record at  *)
(* height 0, and later records are appended at increasing heights.  The  *)
(* roster lives in memory only: a crash empties it (Instance() starts     *)
(* from an empty list) while ChainDB keeps what was written.  The code    *)
(* that loads the roster and feeds it election results is outside the     *)
(* sources (spec 2, non-goals); LoadRoster and Elect model it from the    *)
(* spec.  Roster lookups are made only while the roster is loaded: on an  *)
(* empty list getDeputiesByHeight indexes list[-1] and panics.            *)
(***************************************************************************)
EXTENDS DeputyNode

CONSTANTS Configs, NilGenesis, Default, Now, MaxFaults, MaxCrashes

VARIABLES cfg, node, step, db, faults, crashes

G == INSTANCE Genesis

genesisVars == <<cfg, node, step, db, faults, crashes>>

vars == <<list, genesisVars>>

Loaded == list # <<>>

-----------------------------------------------------------------------------

\* Instance(): the roster singleton starts as an empty list.
Init == G!Init /\ list = <<>>

\* A call of SetupGenesisBlock, and a boot, leave the roster alone.
Setup == G!SetupStep /\ UNCHANGED list

Boot == G!Boot /\ UNCHANGED list

\* A crash loses the in-memory roster with the rest of the process.
Crash == G!Crash /\ list' = <<>>

\* Once running, the node loads the stable genesis block's deputies as the
\* record at height 0: Add(0, genesis.DeputyNodes).
LoadRoster ==
  /\ node = "running" /\ ~Loaded
  /\ Add(0, G!GenesisRoster(cfg))
  /\ UNCHANGED genesisVars

\* An election result takes effect at a height above the last record.
Elect(h, r) ==
  /\ node = "running" /\ Loaded
  /\ h > list[Len(list)].height
  /\ Add(h, r)
  /\ UNCHANGED genesisVars

Next ==
  \/ Setup \/ Boot \/ Crash \/ LoadRoster
  \/ \E h \in Heights, r \in Rosters : Elect(h, r)

Spec == Init /\ [][Next]_vars

\* The start-up code runs SetupGenesisBlock's calls through, and a
\* supervisor boots a node that exited; failures and crashes are bounded.
FairSpec == Spec /\ WF_vars(Setup) /\ WF_vars(Boot)

-----------------------------------------------------------------------------
(* Properties *)

\* Types; while the roster is loaded GetSlot returns -1 (a node missing) or
\* a slot in 0..N, N the size of the roster in force (N itself only at a
\* boundary height).
TypeOK ==
  /\ G!GenesisTypeOK
  /\ list \in Seq([height : Heights, nodes : Seq(Addrs)])
  /\ Len(list) <= MaxRecords
  /\ Loaded => \A h \in Heights, a, b \in Addrs :
                 GetSlot(list, h, a, b) \in {-1} \cup 0..Len(GetDeputiesByHeight(list, h))

\* getDeputiesByHeight's scan finds the roster in force at every height.
DeputiesByHeightIsLatest ==
  Loaded => \A h \in Heights : GetDeputiesByHeight(list, h) = LatestRecord(list, h)

\* Slot round trip (spec 8.7): for two deputies of the roster in force,
\* away from the boundary heights, the slot is in 0..N-1 and walking it
\* forward from the previous miner's rank lands on the next miner's rank.
\* GetSlot mixes the count of the genesis record with ranks of the record
\* in force.
SlotRoundTrip ==
  Loaded =>
  \A h \in Heights \ {h2 \in Heights : IsBoundary(h2)} :
    LET nodes == GetDeputiesByHeight(list, h)
        n     == GetDeputiesCount(list)
    IN n >= 2 =>
       \A i, j \in DOMAIN nodes :
         LET s == GetSlot(list, h, nodes[i], nodes[j])
         IN s \in 0..n-1 /\ (i - 1 + s) % n = j - 1

\* Crash consistency of SetupGenesisBlock's three writes (Genesis): a
\* stable genesis block has its block and account state stored, and a
\* running node was set up from a valid configuration.
StableImpliesComplete == G!StableImpliesComplete

\* A node given a valid genesis configuration eventually runs, however
\* SetupGenesisBlock's writes were interrupted before: spec 7 makes
\* ChainDB's Exists on a block write idempotent, so a rerun after a failure
\* or crash past db.SetBlock should get through to SetStableBlock.
ValidConfigStarts == G!Valid(cfg) ~> node = "running"
=============================================================================
