--------------------------- MODULE MCGrantReceipts ---------------------------
EXTENDS GrantReceipts

CONSTANTS q1, q2, g
==============================================================================
