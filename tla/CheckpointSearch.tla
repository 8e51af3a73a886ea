------------------------- MODULE CheckpointSearch -------------------------
(***************************************************************************)
(* NavShareToken._past: the lookup of a member's voting weight at a past   *)
(* second, a hand-written binary search over the member's checkpoints.     *)
(* Every vote Baal counts and every retention baseline goes through it.    *)
(*                                                                         *)
(* The search is a state machine, one step per turn of the loop, over any  *)
(* history the token can hold.  The weight stored in a checkpoint plays no *)
(* part in the search, so a history is the sequence of the checkpoints'    *)
(* time points and the answer is the position of a checkpoint, 0 standing  *)
(* for the answer "no weight yet".  Positions count from 1 here, from 0 in *)
(* the code.                                                               *)
(***************************************************************************)
EXTENDS Integers, Sequences

CONSTANTS Histories,   \* the checkpoint histories searched
          TimePoints   \* the seconds asked about

Sorted(h) == \A i \in 1..Len(h), j \in 1..Len(h) : i < j => h[i] < h[j]

\* The token only ever writes histories in increasing time
\* (CheckpointsExact in NavSharesHistory).
ASSUME HistoriesSorted == \A h \in Histories : h \in Seq(Nat) /\ Sorted(h)
ASSUME TimePointsAssumption == TimePoints \subseteq Nat

VARIABLES times, timePoint,  \* the arguments
          lower, upper,      \* the range still searched
          result,            \* the position found
          pc                 \* "entry", "loop" or "returned"

searchVars == <<times, timePoint, lower, upper, result, pc>>

SearchInit ==
  /\ times \in Histories
  /\ timePoint \in TimePoints
  /\ lower = 1
  /\ upper = Len(times)
  /\ result = 0
  /\ pc = "entry"

Return(position) == /\ result' = position
                    /\ pc' = "returned"
                    /\ UNCHANGED <<times, timePoint, lower, upper>>

\* A plausible slip: the test that the history starts too late is left out.
EntryNoFirstTest ==
  /\ pc = "entry"
  /\ \/ Len(times) = 0 /\ Return(0)
     \/ Len(times) > 0 /\ times[Len(times)] <= timePoint /\ Return(Len(times))
     \/ /\ Len(times) > 0 /\ times[Len(times)] > timePoint
        /\ pc' = "loop"
        /\ UNCHANGED <<times, timePoint, lower, upper, result>>

\* The early returns: no checkpoint at all, the newest is old enough, the
\* oldest is too new; otherwise the loop starts on the whole history.
Entry ==
  /\ pc = "entry"
  /\ \/ Len(times) = 0 /\ Return(0)
     \/ Len(times) > 0 /\ times[Len(times)] <= timePoint /\ Return(Len(times))
     \/ /\ Len(times) > 0 /\ times[Len(times)] > timePoint
        /\ times[1] > timePoint
        /\ Return(0)
     \/ /\ Len(times) > 0 /\ times[Len(times)] > timePoint
        /\ times[1] <= timePoint
        /\ pc' = "loop"
        /\ UNCHANGED <<times, timePoint, lower, upper, result>>

\* A plausible slip: the middle rounded towards lower.
CenterRoundedDown == upper - (upper - lower + 1) \div 2

\* The middle, rounded towards upper so that lower = center makes progress.
Center == upper - (upper - lower) \div 2

\* One turn of the loop: an exact hit returns, a miss halves the range.
Turn ==
  /\ pc = "loop" /\ upper > lower
  /\ \/ times[Center] = timePoint /\ Return(Center)
     \/ /\ times[Center] < timePoint
        /\ lower' = Center
        /\ UNCHANGED <<times, timePoint, upper, result, pc>>
     \/ /\ times[Center] > timePoint
        /\ upper' = Center - 1
        /\ UNCHANGED <<times, timePoint, lower, result, pc>>

LoopExit == pc = "loop" /\ upper <= lower /\ Return(lower)

SearchNext == Entry \/ Turn \/ LoopExit

SearchSpec == SearchInit /\ [][SearchNext]_searchVars

---------------------------------------------------------------------------
\* The loop of _past keeps its two bounds inside the history.
SearchTypeOK ==
  /\ times \in Histories
  /\ timePoint \in TimePoints
  /\ lower \in Nat
  /\ upper \in Nat
  /\ result \in Nat
  /\ pc \in {"entry", "loop", "returned"}

\* Position i holds the newest checkpoint that is not newer than the second
\* asked about; position 0 when there is none.
IsNewest(i) ==
  IF i = 0
  THEN \A j \in 1..Len(times) : times[j] > timePoint
  ELSE /\ i \in 1..Len(times)
       /\ times[i] <= timePoint
       /\ \A j \in 1..Len(times) : j > i => times[j] > timePoint

\* The answer lies in the range at every turn, what lies outside is excluded.
RangeInv ==
  /\ pc = "entry" => lower = 1 /\ upper = Len(times)
  /\ pc = "loop" =>
    /\ 1 <= lower /\ lower <= upper /\ upper <= Len(times)
    /\ times[lower] <= timePoint
    /\ \A j \in 1..Len(times) : j > upper => times[j] > timePoint

\* What the search returns is the newest checkpoint at or before the second
\* asked about, for every history and second (NavShareToken._past).
LookupExact == pc = "returned" => IsNewest(result)

\* The inductive invariant: the range always holds the answer.
SearchInv == SearchTypeOK /\ RangeInv /\ LookupExact

\* Every turn at least halves the range, so the search ends and its gas is
\* logarithmic in the member's history: a member with many checkpoints cannot
\* make a vote or a retention replay run out of gas.
RangeHalves ==
  [][pc = "loop" /\ pc' = "loop"
       => upper' - lower' <= (upper - lower) \div 2]_searchVars
===========================================================================
