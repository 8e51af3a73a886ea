--------------------------- MODULE MC_WorkManager ---------------------------
EXTENDS WorkManager, TLC

CONSTANTS ann, ben,   \* may work
          vera, vic   \* may verify

MCAgents == {ann, ben, vera, vic}

\* A task two verifiers confirm before it expires, and one that never expires.
MCOffers ==
  {[verifiers |-> {vera, vic}, threshold |-> 2, reward |-> 1, expiration |-> 3],
   [verifiers |-> {vera}, threshold |-> 1, reward |-> 2, expiration |-> 0]}

Symmetry == Permutations({ann, ben})
=============================================================================
