----------------------------- MODULE MC_Treasury -----------------------------
EXTENDS Treasury, TLC

CONSTANTS s1, s2, pay

MCBudget == (s1 :> 1) @@ (s2 :> 1) @@ (pay :> 1)

Symmetry == Permutations(Strategies)
=============================================================================
