------------------------------ MODULE Treasury ------------------------------
(***************************************************************************)
(* Where the DAO's money is, and what a deposit or an exit gets for it:    *)
(* TreasuryLedger.sol, DepositShaman.sol, ProposalBase.sol with its        *)
(* templates StrategyProposal.sol and PaymentProposal.sol, ragequit of     *)
(* vendor/Baal.sol, and the liability of WorkManager.sol.  A step is one   *)
(* transaction; what a vote executes is one of the multicalls of           *)
(* src/proposals.ts, and fails as a whole.                                 *)
(*                                                                         *)
(* All strategies trade one asset; its price is the venue's answer, any of *)
(* Prices at any moment, and the slippage bound is a refusal.  Shares are  *)
(* counted in total: module NavShares has them by member.                  *)
(* Left out: a strategy's minInterval (runs may come at any time), the     *)
(* registry of assets (informational), the templates Project (planned) and *)
(* Config (no money), and of the migrations a vote can ask for all but      *)
(* those from a strategy to a strategy that starts in the same transaction. *)
(***************************************************************************)
EXTENDS Integers, Sequences, FiniteSets, FiniteSetsExt

CONSTANTS Strategies, Payments,  \* the deployed instances, by template
          Safe,
          Budget,       \* the budget an instance is deployed with
          MaxPerRun,    \* rule.maxPerRun
          TakeProfit, StopLoss,  \* the rule's bounds, in percent of the budget
          Prices,       \* settlement units for a unit of the asset
          Unit,         \* 1e18 / 1e6: shares for a settlement unit at genesis
          Amounts,      \* amounts deposited, topped up, burnt
          Reward,       \* rewardShares of a task
          Genesis,      \* the genesis deposit
          MaxMoney,     \* bound: settlement units in the system
          MaxShares,    \* bound: shares and liability
          MaxBudget,    \* bound: a budget after top-ups
          MaxGiven      \* bound: instances a stranger sends something to

Instances == Strategies \union Payments
Holders == Instances \union {Safe}

ASSUME InstancesAssumption ==
  IsFiniteSet(Instances) /\ Strategies \intersect Payments = {} /\ Safe \notin Instances
ASSUME TermsAssumption ==
  /\ Budget \in [Instances -> Nat \ {0}] /\ MaxPerRun \in Nat \ {0}
  /\ Prices \subseteq Nat \ {0} /\ Prices # {} /\ Unit \in Nat \ {0} /\ Reward \in Nat \ {0}
  /\ Amounts \subseteq Nat \ {0} /\ {TakeProfit, StopLoss, Genesis} \subseteq Nat

VARIABLES status,       \* status[i]
          budget,       \* budget[i]
          due,          \* the strategies whose rule.deadline has passed
          listed,       \* the sum of the payments' lists
          settlement,   \* the settlement token's balances
          asset,        \* the asset's balances
          ledger,       \* TreasuryLedger: _open and _indexPlusOne
          totalShares,
          liability,    \* WorkManager.activeRewardShares()
          given         \* the instances a stranger sent something to

terms == <<budget, due, listed>>
money == <<settlement, asset>>
shares == <<totalShares, liability>>
treasuryVars == <<terms, status, money, ledger, shares, given>>

Statuses == {"Pending", "Running", "Complete", "Stopped", "Migrated"}

---------------------------------------------------------------------------
(* TreasuryLedger *)

\* Only a strategy has an asset (ProposalBase._assetHeld).
AssetHeld(i) == IF i \in Strategies THEN asset[i] ELSE 0

IsOpen(i) == ledger.indexPlusOne[i] # 0

\* open: the instance goes to the end of the list.
Opened(led, i) ==
  [list |-> Append(led.list, i), indexPlusOne |-> [led.indexPlusOne EXCEPT ![i] = Len(led.list) + 1]]

\* A plausible slip: the instance moved into the gap keeps its old index.
ClosedKeepsIndex(led, i) ==
  LET index == led.indexPlusOne[i]
      last == led.list[Len(led.list)]
  IN  IF index = 0 THEN led
      ELSE [list |-> SubSeq([led.list EXCEPT ![index] = last], 1, Len(led.list) - 1),
            indexPlusOne |-> [led.indexPlusOne EXCEPT ![i] = 0]]

\* close: the last instance takes the place of the closed one; nothing for one
\* that was never open.
Closed(led, i) ==
  LET index == led.indexPlusOne[i]
      last == led.list[Len(led.list)]
  IN  IF index = 0 THEN led
      ELSE [list |-> SubSeq([led.list EXCEPT ![index] = last], 1, Len(led.list) - 1),
            indexPlusOne |-> [led.indexPlusOne EXCEPT ![last] = index, ![i] = 0]]

\* A plausible slip, and the rule before the ledger: the Safe's balance only.
DepositTreasurySafe == settlement[Safe]

\* The balances of the open instances, in the order of the list.
OpenBalances == [k \in DOMAIN ledger.list |-> settlement[ledger.list[k]]]

DepositTreasury ==
  settlement[Safe] + MapThenSumSet(LAMBDA k : OpenBalances[k], DOMAIN ledger.list)

Settled == \A k \in DOMAIN ledger.list : AssetHeld(ledger.list[k]) = 0

---------------------------------------------------------------------------
(* DepositShaman, ragequit, rewards *)

Quote(amount) ==
  IF totalShares = 0 \/ DepositTreasury = 0 THEN amount * Unit
  ELSE (amount * (totalShares + liability)) \div DepositTreasury

Deposit(amount) ==
  /\ Settled
  /\ Quote(amount) > 0
  /\ MaxMoney >= amount + MapThenSumSet(LAMBDA h : settlement[h], Holders)
  /\ totalShares + liability + Quote(amount) <= MaxShares
  /\ settlement' = [settlement EXCEPT ![Safe] = @ + amount]
  /\ totalShares' = totalShares + Quote(amount)
  /\ UNCHANGED <<terms, status, asset, ledger, liability, given>>

\* A plausible slip: the supply is read after the burn.
ExitPayoutAfterBurn(burnt) == IF burnt = totalShares THEN settlement[Safe]
                              ELSE (burnt * settlement[Safe]) \div (totalShares - burnt)

\* A share of the Safe alone; the supply is read before the burn.
ExitPayout(burnt) == (burnt * settlement[Safe]) \div totalShares

\* ragequit(to, burnt, 0, [settlement])
Ragequit(burnt) ==
  /\ burnt <= totalShares
  /\ ExitPayout(burnt) <= settlement[Safe]
  /\ settlement' = [settlement EXCEPT ![Safe] = @ - ExitPayout(burnt)]
  /\ totalShares' = totalShares - burnt
  /\ UNCHANGED <<terms, status, asset, ledger, liability, given>>

\* A task becomes Active; it is paid; or it ends unpaid.
ActivateReward ==
  /\ totalShares + liability + Reward <= MaxShares
  /\ liability' = liability + Reward
  /\ UNCHANGED <<terms, status, money, ledger, totalShares, given>>

PayReward ==
  /\ liability >= Reward
  /\ liability' = liability - Reward
  /\ totalShares' = totalShares + Reward
  /\ UNCHANGED <<terms, status, money, ledger, given>>

\* A plausible slip: a task that ends is dropped although it was counted out.
DropRewardTwice ==
  /\ liability' = liability - Reward
  /\ UNCHANGED <<terms, status, money, ledger, totalShares, given>>

DropReward ==
  /\ liability >= Reward
  /\ liability' = liability - Reward
  /\ UNCHANGED <<terms, status, money, ledger, totalShares, given>>

---------------------------------------------------------------------------
(* What a vote executes *)

Live(i) == status[i] \in {"Pending", "Running"}

\* bal after n units went from one holder to another.
Sent(bal, from, to, n) == [bal EXCEPT ![from] = @ - n, ![to] = @ + n]

\* What a vote transfers: the budget of when it was submitted, of the deployment
\* or of now.
Funds(i) == {Budget[i], budget[i]}

\* transfer(funded), start(): start() asks for the budget of now, or for a
\* position that holds the asset.
FundAndStart(i, funded) ==
  /\ status[i] = "Pending" /\ funded <= settlement[Safe]
  /\ settlement[i] + funded >= budget[i] \/ AssetHeld(i) > 0
  /\ UNCHANGED <<terms, asset, shares, given>>

\* A strategy keeps the money until it is run.
FundAndStartStrategy(i, funded) ==
  /\ FundAndStart(i, funded)
  /\ status' = [status EXCEPT ![i] = "Running"]
  /\ settlement' = Sent(settlement, Safe, i, funded)
  /\ ledger' = Opened(ledger, i)

\* A payment pays its list, returns the rest and is complete at once.
FundAndStartPayment(i, funded) ==
  /\ FundAndStart(i, funded)
  /\ status' = [status EXCEPT ![i] = "Complete"]
  /\ settlement' = [settlement EXCEPT ![Safe] = @ + settlement[i] - listed[i], ![i] = 0]
  /\ ledger' = Closed(Opened(ledger, i), i)

\* transfer(amount), topUp(amount): a payment only before its start.
TopUp(i, amount) ==
  /\ Live(i) /\ (i \in Payments => status[i] = "Pending")
  /\ amount <= settlement[Safe] /\ budget[i] + amount <= MaxBudget
  /\ settlement' = Sent(settlement, Safe, i, amount)
  /\ budget' = [budget EXCEPT ![i] = @ + amount]
  /\ UNCHANGED <<due, listed, status, asset, ledger, shares, given>>

\* amend: a new rule for a strategy, its deadline ahead and its other terms as
\* before; a new list for a payment not yet started.
AmendStrategy(i) ==
  /\ Live(i)
  /\ due' = due \ {i}
  /\ UNCHANGED <<budget, listed, status, money, ledger, shares, given>>

AmendPayment(i, total) ==
  /\ status[i] = "Pending"
  /\ budget' = [budget EXCEPT ![i] = total]
  /\ listed' = [listed EXCEPT ![i] = total]
  /\ UNCHANGED <<due, status, money, ledger, shares, given>>

\* A plausible slip, and the rule before phase 5: stop closes every instance.
AfterStopAlways(i) == Closed(ledger, i)

\* An instance that still holds its asset stays open.
AfterStop(i) == IF AssetHeld(i) = 0 THEN Closed(ledger, i) ELSE ledger

\* stop(): the settlement goes back, the venue is not asked.
Stop(i) ==
  /\ Live(i)
  /\ status' = [status EXCEPT ![i] = "Stopped"]
  /\ settlement' = Sent(settlement, i, Safe, settlement[i])
  /\ ledger' = AfterStop(i)
  /\ UNCHANGED <<terms, asset, shares, given>>

\* Everything of i sold at this price and returned to the Safe.
Returned(i, price) ==
  [settlement EXCEPT ![Safe] = @ + settlement[i] + asset[i] * price, ![i] = 0]

\* Bound: no sale takes the money in the system past MaxMoney.
SaleBound(i, price) ==
  MaxMoney >= asset[i] * price + MapThenSumSet(LAMBDA h : settlement[h], Holders)

\* unwind(): sells what a stopped, open strategy holds.
Unwind(i, price) ==
  /\ status[i] = "Stopped" /\ IsOpen(i)
  /\ SaleBound(i, price)
  /\ settlement' = Returned(i, price)
  /\ asset' = [asset EXCEPT ![i] = 0]
  /\ ledger' = Closed(ledger, i)
  /\ UNCHANGED <<terms, status, shares, given>>

\* old.migrate(new), new.start(): the holdings move as they are.  start()
\* accepts a position that holds the asset, whatever its settlement.
MigrateAndStart(old, new) ==
  /\ old # new /\ status[new] = "Pending"
  /\ Live(old) \/ (status[old] = "Stopped" /\ IsOpen(old))
  /\ \/ settlement[old] + settlement[new] >= budget[new]
     \/ asset[old] + asset[new] > 0
  /\ status' = [status EXCEPT ![old] = "Migrated", ![new] = "Running"]
  /\ settlement' = Sent(settlement, old, new, settlement[old])
  /\ asset' = Sent(asset, old, new, asset[old])
  /\ ledger' = Opened(Closed(ledger, old), new)
  /\ given' = IF old \in given THEN given \union {new} ELSE given
  /\ UNCHANGED <<terms, shares>>

---------------------------------------------------------------------------
(* StrategyProposal.run, by anyone *)

Value(i, price) == settlement[i] + asset[i] * price

\* The rule ends the strategy: deadline, take-profit or stop-loss.
RuleEnds(i, price) ==
  \/ i \in due
  \/ TakeProfit # 0 /\ Value(i, price) >= (budget[i] * (100 + TakeProfit)) \div 100
  \/ StopLoss # 0 /\ Value(i, price) <= (budget[i] * (100 - StopLoss)) \div 100

RunEnds(i, price) ==
  /\ status[i] = "Running"
  /\ RuleEnds(i, price)
  /\ SaleBound(i, price)
  /\ status' = [status EXCEPT ![i] = "Complete"]
  /\ settlement' = Returned(i, price)
  /\ asset' = [asset EXCEPT ![i] = 0]
  /\ ledger' = Closed(ledger, i)
  /\ UNCHANGED <<terms, shares, given>>

RunBuys(i, price) ==
  LET size == IF settlement[i] < MaxPerRun THEN settlement[i] ELSE MaxPerRun
  IN  /\ status[i] = "Running"
      /\ ~RuleEnds(i, price)
      /\ size \div price > 0
      /\ settlement' = [settlement EXCEPT ![i] = @ - size]
      /\ asset' = [asset EXCEPT ![i] = @ + size \div price]
      /\ UNCHANGED <<terms, status, ledger, shares, given>>

---------------------------------------------------------------------------
(* The rest of the world *)

\* A stranger sends a unit of a token to the Safe, or to a strategy, once.
GiveSettlement(h) ==
  /\ h \notin given /\ (h # Safe => Cardinality(given) < MaxGiven)
  /\ MaxMoney > MapThenSumSet(LAMBDA x : settlement[x], Holders)
  /\ settlement' = [settlement EXCEPT ![h] = @ + 1]
  /\ given' = IF h = Safe THEN given ELSE given \union {h}
  /\ UNCHANGED <<terms, status, asset, ledger, shares>>

GiveAsset(i) ==
  /\ i \notin given /\ Cardinality(given) < MaxGiven
  /\ asset' = [asset EXCEPT ![i] = @ + 1]
  /\ given' = given \union {i}
  /\ UNCHANGED <<terms, status, settlement, ledger, shares>>

DeadlinePasses(i) ==
  /\ i \notin due
  /\ due' = due \union {i}
  /\ UNCHANGED <<budget, listed, status, money, ledger, shares, given>>

\* After the genesis deposit, with every instance deployed.
TreasuryInit ==
  /\ status = [i \in Instances |-> "Pending"]
  /\ budget = Budget
  /\ due = {}
  /\ listed = [i \in Payments |-> Budget[i]]
  /\ settlement = [h \in Holders |-> IF h = Safe THEN Genesis ELSE 0]
  /\ asset = [i \in Strategies |-> 0]
  /\ ledger = [list |-> <<>>, indexPlusOne |-> [i \in Instances |-> 0]]
  /\ totalShares = Genesis * Unit
  /\ liability = 0
  /\ given = {}

TreasuryNext ==
  \/ \E amount \in Amounts : Deposit(amount) \/ Ragequit(amount)
  \/ ActivateReward \/ PayReward \/ DropReward
  \/ \E i \in Strategies : \E funded \in Funds(i) : FundAndStartStrategy(i, funded)
  \/ \E i \in Payments : \E funded \in Funds(i) : FundAndStartPayment(i, funded)
  \/ \E i \in Instances : Stop(i) \/ \E amount \in Amounts : TopUp(i, amount)
  \/ \E i \in Strategies : AmendStrategy(i) \/ DeadlinePasses(i)
  \/ \E i \in Payments, total \in Amounts : AmendPayment(i, total)
  \/ \E i \in Strategies, price \in Prices :
       Unwind(i, price) \/ RunEnds(i, price) \/ RunBuys(i, price)
  \/ \E old \in Strategies, new \in Strategies : MigrateAndStart(old, new)
  \/ \E h \in Strategies \union {Safe} : GiveSettlement(h)
  \/ \E i \in Strategies : GiveAsset(i)

TreasurySpec == TreasuryInit /\ [][TreasuryNext]_treasuryVars

---------------------------------------------------------------------------
(* Properties *)

\* Balances are never negative, and a status is one of the five.
TreasuryTypeOK ==
  /\ status \in [Instances -> Statuses]
  /\ budget \in [Instances -> Nat] /\ due \subseteq Strategies
  /\ listed \in [Payments -> Nat]
  /\ settlement \in [Holders -> Nat] /\ asset \in [Strategies -> Nat]
  /\ ledger.list \in Seq(Instances) /\ ledger.indexPlusOne \in [Instances -> Nat]
  /\ totalShares \in Nat /\ liability \in Nat
  /\ given \subseteq Instances

\* The ledger lists, each once and at its index, the instances that run and the
\* stopped ones that still hold their asset, in whatever order instances start,
\* end, are stopped, unwound and migrated: a wrong index would close another
\* instance, or revert and trap the money (TreasuryLedger.open, close;
\* ProposalBase.stop).
LedgerExact ==
  /\ \A i \in Instances : IsOpen(i) =>
       /\ ledger.indexPlusOne[i] \in 1..Len(ledger.list)
       /\ ledger.list[ledger.indexPlusOne[i]] = i
       /\ status[i] = "Running" \/ (status[i] = "Stopped" /\ AssetHeld(i) > 0)
  /\ \A k \in 1..Len(ledger.list) : ledger.indexPlusOne[ledger.list[k]] = k
  /\ \A i \in Instances : status[i] = "Running" => IsOpen(i)

\* No money of the DAO is where the ledger does not look: an instance that ran
\* and is not in the ledger holds neither settlement nor asset, unless a
\* stranger sent it some.  With the gate of deposits this makes the treasury a
\* deposit is priced with all there is (decision.md "Hole 1";
\* ProposalBase.stop, migrate, _complete; StrategyProposal.unwind).
NothingLeftBehind ==
  \A i \in Instances \ given :
    ~IsOpen(i) /\ status[i] # "Pending" => settlement[i] = 0 /\ AssetHeld(i) = 0

\* An instance's money, the asset at its lowest price.
Holding == [i \in Instances |-> settlement[i] + AssetHeld(i) * Min(Prices)]

\* Out are presents in instances, and what was voted into an instance not yet
\* started, which the ledger does not count either.
Counted == {i \in Instances : IsOpen(i) \/ (i \notin given /\ status[i] # "Pending")}

\* What the DAO's shares stand for, wherever it is: not only what the ledger counts.
Worth == settlement[Safe] + MapThenSumSet(LAMBDA i : Holding[i], Counted)

\* A deposit never takes value from those who are there: what a share, promised
\* ones included, stands for does not fall by it, with money out in instances,
\* tasks active, after gains and losses, and with rounding
\* (DepositShaman.deposit, TreasuryLedger.settled).
DepositKeepsWorth ==
  [][totalShares > 0 /\ totalShares' > totalShares /\ settlement' # settlement =>
       Worth' * (totalShares + liability) >= Worth * (totalShares' + liability')]_treasuryVars

\* An exit never takes value from those who stay: what a share stands for does
\* not fall by it, wherever the money is (Baal._ragequit).
ExitKeepsWorth ==
  [][totalShares' < totalShares => Worth' * totalShares >= Worth * totalShares']_treasuryVars

---------------------------------------------------------------------------
(* What the documentation says and the code does not do *)

\* docs/PARAMETERS.md: "Exit price is at most deposit price while settled".  A
\* deposit is priced with the shares and the rewards of Active tasks, an exit
\* with the shares alone, so while a task is active the exit price can be the
\* higher one (DepositShaman._quote, Baal._ragequit).
ExitPriceAtMostDepositPrice ==
  Settled /\ totalShares > 0 /\ DepositTreasury > 0 =>
    settlement[Safe] * (totalShares + liability) <= DepositTreasury * totalShares
=============================================================================
