----------------------------- MODULE MCNodeStart -----------------------------
EXTENDS NodeStart

CONSTANTS a1, a2, a3, a4

MCAddrs == {a1, a2, a3, a4}

\* A deputy of a genesis configuration: its miner address, the length of
\* its node ID, its port.
Dep(a, len, port) == [miner |-> a, idLen |-> len, port |-> port]

\* Genesis time and now are scaled to 0..2.
MCNow == 1

\* DefaultGenesisBlock(): three deputies, empty extra data, a past time.
MCDefault == [deputies |-> <<Dep(a1, 64, 7001), Dep(a2, 64, 7002), Dep(a3, 64, 7003)>>,
              extraLen |-> 0, time |-> 0]

\* The configurations a node may be started with: a valid one, and one
\* for each panic of SetupGenesisBlock.
MCConfigs ==
  { [deputies |-> <<Dep(a4, 64, 7001), Dep(a2, 64, 7002), Dep(a3, 64, 7003)>>, extraLen |-> 256, time |-> 1],
    [deputies |-> <<>>, extraLen |-> 0, time |-> 0],
    [deputies |-> <<Dep(a1, 64, 7001), Dep(a2, 64, 7002), Dep(a3, 63, 7003)>>, extraLen |-> 0, time |-> 0],
    [deputies |-> <<Dep(a1, 64, 65536), Dep(a2, 64, 7002), Dep(a3, 64, 7003)>>, extraLen |-> 0, time |-> 0],
    [deputies |-> <<Dep(a1, 64, 7001), Dep(a2, 64, 7002), Dep(a3, 64, 7003)>>, extraLen |-> 257, time |-> 0],
    [deputies |-> <<Dep(a1, 64, 7001), Dep(a2, 64, 7002), Dep(a3, 64, 7003)>>, extraLen |-> 0, time |-> 2] }
=============================================================================
