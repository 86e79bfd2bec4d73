--------------------------- MODULE MCPushDispatch ---------------------------
EXTENDS PushDispatch
CONSTANTS alice, phone, r1, r2
MCRows == 1..2
MCBackoff == <<1, 1, 1>>
=============================================================================
