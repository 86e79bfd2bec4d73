----------------------------- MODULE MCSyncRuns -----------------------------
EXTENDS SyncRuns
CONSTANTS lixinger, futu, eod, chain
MCLanes == {lixinger, futu}
MCDims == {eod, chain}
MCScheduled == {eod}
MCLaneOf == [d \in MCDims |-> IF d = eod THEN lixinger ELSE futu]
MCJobs == 1..2
MCRuns == 1..4
=============================================================================
