-------------------------- MODULE NavSharesHistory --------------------------
(***************************************************************************)
(* NavShares with the history the correctness of retention is stated over: *)
(* the balances every second ended with, the deficit of a proposal (the    *)
(* shares its members had when voting started and have no longer), and     *)
(* what the growth of a proposal is after each journal record.  The three  *)
(* variables only record: no guard reads them.                             *)
(***************************************************************************)
EXTENDS NavShares

CONSTANT Unsettled   \* stands for an answer exitedSince refuses

VARIABLES endOf,     \* endOf[t][m]: the balance of m when second t ended
          deficit,   \* deficit[p]: sum over members of endOf[start] - balanceOf, floored at 0
          growthTo   \* growthTo[p][k + 1]: the growth of p over the first k records

history == <<endOf, deficit, growthTo>>
allVars == <<vars, history>>

\* What the change of m's balance to new does to the history.
RecordChange(m, new) ==
  LET base(p) == endOf[votingStarts[p]][m]
      last == Len(balanceJournal) + 1
  IN  /\ endOf' = [endOf EXCEPT ![now] = [@ EXCEPT ![m] = new]]
      /\ deficit' = [p \in Proposals |->
           IF Open(p)
           THEN deficit[p] - Above(base(p), balanceOf[m]) + Above(base(p), new)
           ELSE 0]
      /\ growthTo' = [p \in Proposals |->
           Append(growthTo[p],
             IF Open(p)
             THEN growthTo[p][last] + Above(new, base(p)) - Above(balanceOf[m], base(p))
             ELSE growthTo[p][last])]

HInit == /\ Init
         /\ endOf = [t \in Seconds |-> [m \in Members |-> 0]]
         /\ deficit = [p \in Proposals |-> 0]
         /\ growthTo = [p \in Proposals |-> <<0>>]

HMint(m, amount) == Mint(m, amount) /\ RecordChange(m, balanceOf[m] + amount)
HBurn(m, amount) == Burn(m, amount) /\ RecordChange(m, balanceOf[m] - amount)

HTick == /\ Tick
         /\ endOf' = [endOf EXCEPT ![now + 1] = endOf[now]]
         /\ UNCHANGED <<deficit, growthTo>>

HRegisterProposal(p) == RegisterProposal(p) /\ UNCHANGED history
HSettleRetention(p, count) == SettleRetention(p, count) /\ UNCHANGED history
HReplayRecord == ReplayRecord /\ UNCHANGED history
HReplayReturn == ReplayReturn /\ UNCHANGED history
HReplayOutOfGas == ReplayOutOfGas /\ UNCHANGED history

HNext ==
  \/ \E m \in Members, amount \in Amounts : HMint(m, amount) \/ HBurn(m, amount)
  \/ \E p \in Proposals : HRegisterProposal(p)
  \/ \E p \in Proposals, count \in 1..MaxJournal : HSettleRetention(p, count)
  \/ HReplayRecord
  \/ HReplayReturn
  \/ HReplayOutOfGas
  \/ HTick

HSpec == HInit /\ [][HNext]_allVars

---------------------------------------------------------------------------
\* The types of the token and of the history kept beside it.
HTypeOK ==
  /\ TypeOK
  /\ endOf \in [Seconds -> [Members -> Nat]]
  /\ deficit \in [Proposals -> Int]
  /\ growthTo \in [Proposals -> Seq(Int)]

\* Votes are counted on the balances the voting-start second ended with, and
\* stay so for ever: for every second that is over, getPastVotes answers the
\* balance the member had when it ended, however often the balance changed in
\* that second or since (NavShareToken.getPastVotes, _writeCheckpoint).
CheckpointsExact ==
  \A m \in Members : \A t \in Seconds :
    t <= now => Past(checkpoints[m], t) = endOf[t][m]

\* exitedSince, whenever it answers, answers the exact deficit against the
\* balances at the end of the sponsorship second: not the burns since, which a
\* member who leaves and returns would inflate, nor the net change of the
\* supply, which new members' deposits would hide
\* (docs/RETENTION_MECHANISM.md, NavShareToken.exitedSince).
RetentionExact == \A p \in Proposals : Settled(p) => ExitedSince(p) = deficit[p]

\* The checked arithmetic of the retention accounting never underflows: the
\* growth of a window is at no record negative, and start + growth never falls
\* below the supply.  An underflow would revert settleRetention or exitedSince
\* for good, and the proposal and every later one could not be processed.
NoUnderflow ==
  /\ \A p \in Proposals : settlements[p].growth >= 0
  /\ replay.running => replay.growth >= 0
  /\ \A p \in Proposals : Settled(p) => ExitedSince(p) >= 0

---------------------------------------------------------------------------
(* What Baal sees of the token *)

Before == [m \in Members |-> Past(checkpoints[m], now - 1)]

Baselines ==
  [p \in Proposals |->
     IF Registered(p) THEN [m \in Members |-> Past(checkpoints[m], votingStarts[p])]
     ELSE [m \in Members |-> 0]]

Answers ==
  [p \in Proposals |->
     IF Registered(p) /\ settlements[p].cursor = Len(balanceJournal)
     THEN ExitedSince(p) ELSE Unsettled]

Promise == INSTANCE ShareRetention WITH
  MaxBalance <- SupplyCap, before <- Before, base <- Baselines, answer <- Answers

\* The token, with its journal, checkpoints and chunked replay, implements the
\* promise to Baal: what getPastVotes and exitedSince answer at every moment is
\* what ShareRetention answers, where the deficit is the sum over all members
\* (docs/RETENTION_MECHANISM.md) and the baseline the balances at the end of the
\* sponsorship second.
PromiseKept == Promise!ShareSpec

---------------------------------------------------------------------------
(* The parts of the inductive invariant *)

\* The newest checkpoint at or before every second exists where it must.
CheckpointsInv ==
  \A m \in Members : \A t \in Seconds : t <= now =>
    IF \E i \in 1..Len(checkpoints[m]) : IsLatest(checkpoints[m], i, t)
    THEN \A i \in 1..Len(checkpoints[m]) :
           IsLatest(checkpoints[m], i, t) => checkpoints[m][i].votes = endOf[t][m]
    ELSE endOf[t][m] = 0

CheckpointsSorted ==
  \A m \in Members :
    /\ \A i \in 1..Len(checkpoints[m]) : checkpoints[m][i].fromTimePoint <= now
    /\ \A i, j \in 1..Len(checkpoints[m]) :
         i < j => checkpoints[m][i].fromTimePoint < checkpoints[m][j].fromTimePoint

\* What record r adds to the growth of p, over the true baseline.
Delta(p, r) ==
  LET baseline == endOf[votingStarts[p]][r.account]
  IN  IF r.timePoint <= votingStarts[p] THEN 0
      ELSE Above(r.afterBalance, baseline) - Above(r.beforeBalance, baseline)

\* Growth is accumulated record by record, and the identity of the mechanism:
\* exited = supply at the start + growth - supply now.
GrowthInv ==
  \A p \in Proposals :
    /\ Len(growthTo[p]) = Len(balanceJournal) + 1
    /\ votingStarts[p] <= now
    /\ ~Open(p) => /\ deficit[p] = 0
                   /\ \A k \in 1..Len(growthTo[p]) : growthTo[p][k] = 0
    /\ votingStarts[p] = now => supplyAtTime[now] = totalSupply
    /\ Open(p) => supplyAtTime[votingStarts[p]] + growthTo[p][Len(balanceJournal) + 1]
                    - deficit[p] = totalSupply
    /\ Open(p) => \A k \in 1..Len(balanceJournal) :
         growthTo[p][k + 1] = growthTo[p][k] + Delta(p, balanceJournal[k])

SettlementInv ==
  /\ \A p \in Proposals :
       /\ settlements[p].cursor <= Len(balanceJournal)
       /\ settlements[p].growth = growthTo[p][settlements[p].cursor + 1]
       /\ ~Registered(p) => settlements[p].cursor = 0
  /\ replay.running =>
       /\ Open(replay.proposal)
       /\ replay.cursor <= replay.stop
       /\ replay.stop <= Len(balanceJournal)
       /\ replay.growth = growthTo[replay.proposal][replay.cursor + 1]

\* The inductive invariant of the token: its types, checkpoints sorted and equal
\* to the history of balances, and the growth that settleRetention accumulates
\* equal to the growth of the journal read so far, which with the deficit
\* accounts for the supply.
IInv == /\ HTypeOK
        /\ endOf[now] = balanceOf
        /\ \A k \in 1..Len(balanceJournal) : balanceJournal[k].timePoint <= now
        /\ CheckpointsSorted
        /\ CheckpointsInv
        /\ GrowthInv
        /\ SettlementInv
=============================================================================
