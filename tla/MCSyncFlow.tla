----------------------------- MODULE MCSyncFlow -----------------------------
EXTENDS SyncFlow
MCKeys == 1..3
MCPriorities == 0..1
=============================================================================
