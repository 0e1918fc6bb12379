------------------------ MODULE MC_DocumentVersions -------------------------
EXTENDS DocumentVersions, TLC

CONSTANTS a, b, c, d

Mixed == (a :> 1) @@ (b :> 1) @@ (c :> 2) @@ (d :> 3)
\* Operations of one size are interchangeable.
MixedSymmetry == Permutations({a, b})
=============================================================================
