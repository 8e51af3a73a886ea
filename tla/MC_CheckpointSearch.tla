----------------------- MODULE MC_CheckpointSearch -----------------------
(* Every strictly increasing history of up to MaxLen of the seconds         *)
(* 1..LastSecond and every second from before the first to after the last.  *)
EXTENDS CheckpointSearch

LastSecond == 7
MaxLen == 5

MCHistories == {h \in UNION {[1..n -> 1..LastSecond] : n \in 0..MaxLen} : Sorted(h)}
MCTimePoints == 0..(LastSecond + 1)
=============================================================================
