-------------------------- MODULE MC_ThreadContext --------------------------
(* Two runs of one thread, each with the compaction it starts. *)
EXTENDS ThreadContext

CONSTANTS r1, r2, t1, k1, k2

CompactionOfRun == (r1 :> k1) @@ (r2 :> k2)

=============================================================================
