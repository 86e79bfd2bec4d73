---------------------------- MODULE MCSyncTicks -----------------------------
EXTENDS SyncTicks
CONSTANTS eod, chain, broken, lixinger, futu, t1, t2
MCDims == {eod, chain, broken}
MCPeriod == [d \in MCDims |-> IF d = chain THEN 2 ELSE 1]
MCLaneOf == [d \in MCDims |-> IF d = eod THEN lixinger ELSE futu]
=============================================================================
