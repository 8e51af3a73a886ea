--------------------------- MODULE ShareRetention ---------------------------
(***************************************************************************)
(* What contracts/NavShareToken.sol promises to Baal, without journal,     *)
(* checkpoints or cursor: every proposal keeps the balances its            *)
(* sponsorship second ended with, and a question about retention is either *)
(* refused or answered with the exact deficit against them.  A change of   *)
(* any balance voids the answers, settling restores them.                  *)
(*                                                                         *)
(* Module NavShares implements this specification (MC_NavShares checks     *)
(* it); module BaalGovernance is built on it.                              *)
(***************************************************************************)
EXTENDS Integers, FiniteSetsExt

CONSTANTS Members, Proposals,
          Unsettled,   \* no answer: exitedSince reverts
          MaxNow,      \* bound: the last second of a behaviour
          MaxBalance   \* bound: what one member may hold

ASSUME MembersAssumption == IsFiniteSet(Members)
ASSUME TimesAssumption == MaxNow \in Nat \ {0}

VARIABLES now,
          balanceOf,
          before,        \* before[m]: the balance of m when second now - 1 ended
          votingStarts,  \* votingStarts[p], 0 while p is not registered
          base,          \* base[p][m]: the balance when second votingStarts[p] ended
          answer         \* answer[p]: exitedSince(p), Unsettled where it reverts

shareVars == <<now, balanceOf, before, votingStarts, base, answer>>

TotalShares == MapThenSumSet(LAMBDA m : balanceOf[m], Members)
SupplyAtStart(p) == MapThenSumSet(LAMBDA m : base[p][m], Members)

\* What each member held when p's sponsorship second ended and does not hold now.
Lost(p) ==
  [m \in Members |-> IF base[p][m] > balanceOf[m] THEN base[p][m] - balanceOf[m] ELSE 0]

\* The shares gone from the members that held them when that second ended.
Deficit(p) == MapThenSumSet(LAMBDA m : Lost(p)[m], Members)

ShareInit ==
  /\ now = 1
  /\ balanceOf = [m \in Members |-> 0]
  /\ before = [m \in Members |-> 0]
  /\ votingStarts = [p \in Proposals |-> 0]
  /\ base = [p \in Proposals |-> [m \in Members |-> 0]]
  /\ answer = [p \in Proposals |-> Unsettled]

\* A mint or a burn.  In a sponsorship second it still moves the baseline.
SetBalance(m, new) ==
  /\ balanceOf' = [balanceOf EXCEPT ![m] = new]
  /\ base' = [p \in Proposals |->
       IF votingStarts[p] = now THEN [base[p] EXCEPT ![m] = new] ELSE base[p]]
  /\ answer' = [p \in Proposals |-> Unsettled]
  /\ UNCHANGED <<now, before, votingStarts>>

Register(p) ==
  /\ votingStarts[p] = 0
  /\ votingStarts' = [votingStarts EXCEPT ![p] = now]
  /\ base' = [base EXCEPT ![p] = balanceOf]
  /\ answer' = [answer EXCEPT ![p] = 0]
  /\ UNCHANGED <<now, balanceOf, before>>

Settle(p) ==
  /\ votingStarts[p] # 0 /\ votingStarts[p] < now
  /\ answer[p] = Unsettled
  /\ answer' = [answer EXCEPT ![p] = Deficit(p)]
  /\ UNCHANGED <<now, balanceOf, before, votingStarts, base>>

NextSecond ==
  /\ now < MaxNow
  /\ now' = now + 1
  /\ before' = balanceOf
  /\ UNCHANGED <<balanceOf, votingStarts, base, answer>>

ShareNext ==
  \/ \E m \in Members : \E new \in (0..MaxBalance) \ {balanceOf[m]} : SetBalance(m, new)
  \/ \E p \in Proposals : Register(p) \/ Settle(p)
  \/ NextSecond

ShareSpec == ShareInit /\ [][ShareNext]_shareVars
=============================================================================
