--------------------------- MODULE MC_AgentPanel ----------------------------
EXTENDS AgentPanel, TLC

CONSTANTS t1, t2, r1, r2
=============================================================================
