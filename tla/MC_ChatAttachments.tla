------------------------- MODULE MC_ChatAttachments -------------------------
EXTENDS ChatAttachments, TLC

CONSTANTS a, b, d, s, q, t1

Mixed == (a :> 1) @@ (b :> 2)
=============================================================================
