---------------------------- MODULE MC_NavShares ----------------------------
EXTENDS NavSharesHistory, TLC

Symmetry == Permutations(Members) \union Permutations(Proposals)
=============================================================================
