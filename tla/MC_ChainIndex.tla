---------------------------- MODULE MC_ChainIndex ----------------------------
(* ChainIndex for TLC: readers are interchangeable. *)
EXTENDS ChainIndex, TLC

Symmetry == Permutations(Readers)
=============================================================================
