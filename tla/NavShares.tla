----------------------------- MODULE NavShares -----------------------------
(***************************************************************************)
(* contracts/NavShareToken.sol: the DAO's voting shares.  Baal alone mints *)
(* and burns.  Every change of a balance is appended to a journal and to   *)
(* the member's checkpoints, and the retention accounting of a proposal    *)
(* replays the journal in chunks that anyone may call for.                 *)
(*                                                                         *)
(* A step is one transaction, except that the replay loop of               *)
(* settleRetention takes one step per record: the call in progress is the  *)
(* variable replay, and nothing else happens until it returns or runs out  *)
(* of gas.  Block timestamps (now) do not decrease; several transactions   *)
(* may share a second.  The lookup of a past balance is Past: module       *)
(* CheckpointSearch shows that the binary search of the code computes it.  *)
(* Left out: the ERC-20 surface that only reverts, names and decimals, NAV *)
(* quotes (no state), and the truncation of timestamps to 32 bits (2106).  *)
(***************************************************************************)
EXTENDS Integers, Sequences, FiniteSets

CONSTANTS Members,     \* the accounts that may hold shares
          Proposals,   \* the proposal ids Baal may register
          Amounts,     \* the amounts minted or burnt by one call
          SupplyCap,   \* type(uint224).max
          MaxNow,      \* bound: the last second of a behaviour
          MaxJournal   \* bound: balance changes in a behaviour

ASSUME MembersAssumption == IsFiniteSet(Members)
ASSUME AmountsAssumption == Amounts \subseteq Nat \ {0}
ASSUME BoundsAssumption == /\ SupplyCap \in Nat
                           /\ MaxNow \in Nat \ {0}
                           /\ MaxJournal \in Nat

VARIABLES now,             \* block.timestamp
          balanceOf,       \* balanceOf[m]
          totalSupply,
          totalBurned,
          balanceJournal,  \* every balance change, oldest first
          checkpoints,     \* _checkpoints[m]
          supplyAtTime,    \* _supplyAtTime[t], 0 where never written
          votingStarts,    \* votingStarts[p], 0 while p is not registered
          settlements,     \* settlements[p]: cursor and growth
          replay           \* the settleRetention call in progress

vars == <<now, balanceOf, totalSupply, totalBurned, balanceJournal,
          checkpoints, supplyAtTime, votingStarts, settlements, replay>>

Seconds == 1..MaxNow

Idle == [running |-> FALSE]
NoCall == replay = Idle

\* x - y, floored at zero
Above(x, y) == IF x > y THEN x - y ELSE 0

---------------------------------------------------------------------------
(* Reads *)

\* Position i holds the member's newest checkpoint at or before second t.
IsLatest(h, i, t) == /\ i \in 1..Len(h)
                     /\ h[i].fromTimePoint <= t
                     /\ i = Len(h) \/ h[i + 1].fromTimePoint > t

\* _past: the weight at the end of second t.
Past(h, t) ==
  IF \E i \in 1..Len(h) : IsLatest(h, i, t)
  THEN h[CHOOSE i \in 1..Len(h) : IsLatest(h, i, t)].votes
  ELSE 0

\* getPastVotes, which reverts for a second that is not over (t >= now).
GetPastVotes(m, t) == Past(checkpoints[m], t)

Registered(p) == votingStarts[p] # 0

\* _retentionStart does not revert.
Open(p) == Registered(p) /\ votingStarts[p] < now

\* exitedSince does not revert ...
Settled(p) == Open(p) /\ settlements[p].cursor = Len(balanceJournal)

\* ... and this is what it returns.
ExitedSince(p) ==
  supplyAtTime[votingStarts[p]] + settlements[p].growth - totalSupply

---------------------------------------------------------------------------
(* Balance changes *)

\* A plausible slip: a checkpoint pushed for every change of a second.
WriteCheckpointAppend(m, new) ==
  checkpoints' = [checkpoints EXCEPT ![m] =
    Append(@, [fromTimePoint |-> now, votes |-> new])]

\* A plausible slip: a second change in one second is not written.
WriteCheckpointFirst(m, new) ==
  LET h == checkpoints[m]
  IN  checkpoints' = [checkpoints EXCEPT ![m] =
        IF Len(h) # 0 /\ h[Len(h)].fromTimePoint = now THEN h
        ELSE Append(h, [fromTimePoint |-> now, votes |-> new])]

\* _writeCheckpoint: one checkpoint per member and second, the last one wins.
WriteCheckpoint(m, new) ==
  LET h == checkpoints[m]
  IN  checkpoints' = [checkpoints EXCEPT ![m] =
        IF Len(h) # 0 /\ h[Len(h)].fromTimePoint = now
        THEN [h EXCEPT ![Len(h)] = [fromTimePoint |-> now, votes |-> new]]
        ELSE Append(h, [fromTimePoint |-> now, votes |-> new])]

RecordOf(m, new) == [timePoint |-> now, account |-> m,
                     beforeBalance |-> balanceOf[m], afterBalance |-> new]

\* What a mint and a burn that change the balance of m to new have in common.
ChangeBalance(m, new, supply) ==
  /\ Len(balanceJournal) < MaxJournal
  /\ balanceOf' = [balanceOf EXCEPT ![m] = new]
  /\ totalSupply' = supply
  /\ balanceJournal' = Append(balanceJournal, RecordOf(m, new))
  /\ supplyAtTime' = [supplyAtTime EXCEPT ![now] = supply]
  /\ WriteCheckpoint(m, new)
  /\ UNCHANGED <<now, votingStarts, settlements, replay>>

\* mint: reverts above the cap.  A mint of zero returns at once.
Mint(m, amount) ==
  /\ NoCall
  /\ totalSupply + amount <= SupplyCap
  /\ ChangeBalance(m, balanceOf[m] + amount, totalSupply + amount)
  /\ UNCHANGED totalBurned

\* burn: reverts beyond the balance.  A burn of zero returns at once.
Burn(m, amount) ==
  /\ NoCall
  /\ amount <= balanceOf[m]
  /\ ChangeBalance(m, balanceOf[m] - amount, totalSupply - amount)
  /\ totalBurned' = totalBurned + amount

---------------------------------------------------------------------------
(* Retention accounting *)

\* A plausible slip: the supply of the second is left to the balance changes.
RegisterProposalNoSupply(p) ==
  /\ NoCall
  /\ ~Registered(p)
  /\ votingStarts' = [votingStarts EXCEPT ![p] = now]
  /\ settlements' = [settlements EXCEPT ![p].cursor = Len(balanceJournal)]
  /\ UNCHANGED <<now, balanceOf, totalSupply, totalBurned, balanceJournal,
                 checkpoints, supplyAtTime, replay>>

\* registerProposal
RegisterProposal(p) ==
  /\ NoCall
  /\ ~Registered(p)
  /\ votingStarts' = [votingStarts EXCEPT ![p] = now]
  /\ settlements' = [settlements EXCEPT ![p].cursor = Len(balanceJournal)]
  /\ supplyAtTime' = [supplyAtTime EXCEPT ![now] = totalSupply]
  /\ UNCHANGED <<now, balanceOf, totalSupply, totalBurned, balanceJournal,
                 checkpoints, replay>>

\* settleRetention up to its loop: count = min(maxRecords, end - cursor)
\* records will be read.  A call with nothing to read returns at once.
SettleRetention(p, count) ==
  /\ NoCall
  /\ Open(p)
  /\ settlements[p].cursor + count <= Len(balanceJournal)
  /\ replay' = [running |-> TRUE, proposal |-> p,
                cursor |-> settlements[p].cursor,
                growth |-> settlements[p].growth,
                stop |-> settlements[p].cursor + count]
  /\ UNCHANGED <<now, balanceOf, totalSupply, totalBurned, balanceJournal,
                 checkpoints, supplyAtTime, votingStarts, settlements>>

\* A plausible slip: the baseline is left out, growth nets against losses.
RecordGrowthNet(p, r) ==
  IF r.timePoint <= votingStarts[p] THEN 0
  ELSE r.afterBalance - r.beforeBalance

\* What one journal record adds to the growth above the baseline.
RecordGrowth(p, r) ==
  LET start == votingStarts[p]
      baseline == Past(checkpoints[r.account], start)
  IN  IF r.timePoint <= start THEN 0
      ELSE Above(r.afterBalance, baseline) - Above(r.beforeBalance, baseline)

\* One turn of the loop of settleRetention.
ReplayRecord ==
  /\ replay.running
  /\ replay.cursor < replay.stop
  /\ replay' = [replay EXCEPT
       !.cursor = @ + 1,
       !.growth = @ + RecordGrowth(replay.proposal, balanceJournal[replay.cursor + 1])]
  /\ UNCHANGED <<now, balanceOf, totalSupply, totalBurned, balanceJournal,
                 checkpoints, supplyAtTime, votingStarts, settlements>>

\* A plausible slip: the progress is stored up to the journal's end.
ReplayReturnAtEnd ==
  /\ replay.running
  /\ replay.cursor = replay.stop
  /\ settlements' = [settlements EXCEPT ![replay.proposal] =
       [cursor |-> Len(balanceJournal), growth |-> replay.growth]]
  /\ replay' = Idle
  /\ UNCHANGED <<now, balanceOf, totalSupply, totalBurned, balanceJournal,
                 checkpoints, supplyAtTime, votingStarts>>

\* The end of settleRetention: the progress is stored.
ReplayReturn ==
  /\ replay.running
  /\ replay.cursor = replay.stop
  /\ settlements' = [settlements EXCEPT ![replay.proposal] =
       [cursor |-> replay.cursor, growth |-> replay.growth]]
  /\ replay' = Idle
  /\ UNCHANGED <<now, balanceOf, totalSupply, totalBurned, balanceJournal,
                 checkpoints, supplyAtTime, votingStarts>>

\* The call runs out of gas in its loop: the transaction is undone.
ReplayOutOfGas ==
  /\ replay.running
  /\ replay' = Idle
  /\ UNCHANGED <<now, balanceOf, totalSupply, totalBurned, balanceJournal,
                 checkpoints, supplyAtTime, votingStarts, settlements>>

\* The next block has a later timestamp.
Tick == /\ NoCall
        /\ now < MaxNow
        /\ now' = now + 1
        /\ UNCHANGED <<balanceOf, totalSupply, totalBurned, balanceJournal,
                       checkpoints, supplyAtTime, votingStarts, settlements, replay>>

---------------------------------------------------------------------------
\* The constructor: nobody holds a share, nothing is registered.
Init ==
  /\ now = 1
  /\ balanceOf = [m \in Members |-> 0]
  /\ totalSupply = 0
  /\ totalBurned = 0
  /\ balanceJournal = <<>>
  /\ checkpoints = [m \in Members |-> <<>>]
  /\ supplyAtTime = [t \in Seconds |-> 0]
  /\ votingStarts = [p \in Proposals |-> 0]
  /\ settlements = [p \in Proposals |-> [cursor |-> 0, growth |-> 0]]
  /\ replay = Idle

Next ==
  \/ \E m \in Members, amount \in Amounts : Mint(m, amount) \/ Burn(m, amount)
  \/ \E p \in Proposals : RegisterProposal(p)
  \/ \E p \in Proposals, count \in 1..MaxJournal : SettleRetention(p, count)
  \/ ReplayRecord
  \/ ReplayReturn
  \/ ReplayOutOfGas
  \/ Tick

Spec == Init /\ [][Next]_vars

---------------------------------------------------------------------------
BalanceRecords == [timePoint: Seconds, account: Members,
                   beforeBalance: Nat, afterBalance: Nat]
Checkpoints == [fromTimePoint: Seconds, votes: Nat]
Settlements == [cursor: Nat, growth: Int]
Calls == [running: {TRUE}, proposal: Proposals, cursor: Nat, growth: Int, stop: Nat]

\* The maps and the journal of the token hold what their declarations say, and
\* a call that replays the journal (settleRetention) has its own variables.
TypeOK ==
  /\ now \in Seconds
  /\ balanceOf \in [Members -> Nat]
  /\ totalSupply \in Int
  /\ totalBurned \in Nat
  /\ balanceJournal \in Seq(BalanceRecords)
  /\ checkpoints \in [Members -> Seq(Checkpoints)]
  /\ supplyAtTime \in [Seconds -> Int]
  /\ votingStarts \in [Proposals -> 0..MaxNow]
  /\ settlements \in [Proposals -> Settlements]
  /\ replay = Idle \/ replay \in Calls
=============================================================================
