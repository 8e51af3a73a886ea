----------------------------- MODULE Deployment -----------------------------
(***************************************************************************)
(* scripts/deploy-network.ts on Base, with src/zeroOne.ts and src/baal.ts: *)
(* one command checks its preconditions, sends 22 transactions with one    *)
(* key, each awaited before the next, reads the result back, deposits the  *)
(* first 50 USDC and writes the record everything else reads.  It may fail *)
(* or die anywhere, and be run again.                                      *)
(*                                                                         *)
(* The variables are those of the run in progress and of its contracts: a  *)
(* run makes new ones, at addresses that come from the nonces of the key,  *)
(* and the addresses of its Safe and Baal proxies from two of those.  What *)
(* an ended run left on the chain is forgotten, but for the record.        *)
(* Somebody else may create or initialize the proxies, send USDC to the    *)
(* Safe, or deposit; and somebody may use the key (as a second run at the  *)
(* same time does).                                                        *)
(*                                                                         *)
(* Left out: ether for gas (a run that has none fails), the constitution   *)
(* text, the pushed commit, verification inputs, Base Sepolia and forks.   *)
(***************************************************************************)
EXTENDS Naturals

CONSTANTS None,
          MaxRuns  \* bound: runs of the command

ASSUME RunsAssumption == MaxRuns \in Nat /\ None \notin Nat

VARIABLES
  run,        \* the number of the run
  at,         \* where it is
  predicted,  \* its next transactions lead to the Safe it predicted
  safe,       \* the Safe proxy, and how it was set up
  baal,       \* the Baal proxy, likewise
  gift,       \* the predicted Safe was sent USDC
  founder,    \* the founder has the shares of the 50 USDC
  joined,     \* somebody else deposited
  early,      \* ... before the founder
  record      \* deployments/base.json: the number of the run that wrote it

proxies == <<safe, baal>>
people == <<gift, founder, joined, early>>
dvars == <<run, at, predicted, proxies, people, record>>

Stages == {"start", "singletons", "safe", "createSafe", "createBaal", "contracts", "setup",
           "setUp", "verify", "genesis", "deposit", "minted", "record", "end"}

\* none: no proxy yet.  bare: not set up.  dao: set up by the run.  shared, other:
\* set up by somebody else, with Baal as a module or without.
SafeStates == {"none", "bare", "dao", "shared", "other"}
BaalStates == {"none", "bare", "dao", "other"}

Wired == safe = "dao" /\ baal = "dao"

---------------------------------------------------------------------------
(* A run *)

\* The preconditions hold: no record, and the predicted Safe is empty.
Check ==
  /\ at = "start"
  /\ record = None /\ ~gift
  /\ predicted' = TRUE
  /\ at' = "singletons"
  /\ UNCHANGED <<run, proxies, people, record>>

\* deployBaalInfrastructure: five transactions, the third and fourth of which
\* make the address of the Safe.
DeploySingletons ==
  /\ at = "singletons"
  /\ at' = "safe"
  /\ UNCHANGED <<run, predicted, proxies, people, record>>

\* createSafeProxy: the creation is simulated, its address is the predicted one,
\* and still empty.
CheckSafe ==
  /\ at = "safe"
  /\ safe = "none" /\ predicted /\ ~gift
  /\ at' = "createSafe"
  /\ UNCHANGED <<run, predicted, proxies, people, record>>

\* The transaction reverts, and the run ends, if the proxy is there by now.
CreateSafe ==
  /\ at = "createSafe" /\ safe = "none"
  /\ safe' = "bare"
  /\ at' = "createBaal"
  /\ UNCHANGED <<run, predicted, baal, people, record>>

CreateBaal ==
  /\ at = "createBaal" /\ baal = "none"
  /\ baal' = "bare"
  /\ at' = "contracts"
  /\ UNCHANGED <<run, predicted, safe, people, record>>

\* deployZeroOne: tokens, managers, templates, ledger, adapter, constitution.
DeployContracts ==
  /\ at = "contracts"
  /\ at' = "setup"
  /\ UNCHANGED <<run, predicted, proxies, people, record>>

\* A plausible slip: the receipt of the setup is not looked at.
SetupSafeUnasked ==
  /\ at = "setup"
  /\ safe' = IF safe = "bare" THEN "dao" ELSE safe
  /\ at' = "setUp"
  /\ UNCHANGED <<run, predicted, baal, people, record>>

\* A Safe is set up once: the transaction reverts if somebody has done it.
SetupSafe ==
  /\ at = "setup" /\ safe = "bare"
  /\ safe' = "dao"
  /\ at' = "setUp"
  /\ UNCHANGED <<run, predicted, baal, people, record>>

\* Baal.setUp acts through the Safe, so Baal must be its module.
SetUpBaal ==
  /\ at = "setUp" /\ baal = "bare" /\ safe \in {"dao", "shared"}
  /\ baal' = "dao"
  /\ at' = "verify"
  /\ UNCHANGED <<run, predicted, safe, people, record>>

\* What initializeSafeAndBaal reads back, and that there are no shares yet.
Verify ==
  /\ at = "verify"
  /\ baal = "dao" /\ safe \in {"dao", "shared"} /\ ~joined
  /\ at' = "genesis"
  /\ UNCHANGED <<run, predicted, proxies, people, record>>

\* genesisDeposit: there are no shares, and the 50 USDC are approved.
Approve ==
  /\ at = "genesis"
  /\ ~joined
  /\ at' = "deposit"
  /\ UNCHANGED <<run, predicted, proxies, people, record>>

\* The founder's money moves.
Deposit ==
  /\ at = "deposit"
  /\ founder' = TRUE /\ early' = joined
  /\ at' = "minted"
  /\ UNCHANGED <<run, predicted, proxies, gift, joined, record>>

\* A plausible slip: the founder's shares are read, not the supply.
MintedUnasked ==
  /\ at = "minted"
  /\ at' = "record"
  /\ UNCHANGED <<run, predicted, proxies, people, record>>

\* The founder has all shares, and the managers are the only shamans.
Minted ==
  /\ at = "minted"
  /\ ~joined
  /\ at' = "record"
  /\ UNCHANGED <<run, predicted, proxies, people, record>>

Forget ==
  /\ at' = "end"
  /\ predicted' = FALSE /\ safe' = "none" /\ baal' = "none"
  /\ gift' = FALSE /\ founder' = FALSE /\ joined' = FALSE /\ early' = FALSE

\* The file is written, whatever has become of it since Check.
WriteRecord ==
  /\ at = "record"
  /\ record' = run
  /\ Forget
  /\ UNCHANGED run

\* A check refuses, a transaction reverts or is not answered, the process dies.
Abort ==
  /\ at # "end"
  /\ Forget
  /\ UNCHANGED <<run, record>>

\* The command is run again: its contracts will be new ones.  With a record there,
\* Check refuses at once, which is no step.
Again ==
  /\ at = "end" /\ run < MaxRuns
  /\ record = None
  /\ run' = run + 1
  /\ at' = "start"
  /\ UNCHANGED <<predicted, proxies, people, record>>

---------------------------------------------------------------------------
(* Others *)

\* The run's factories exist, and it is not over.
Known == at \notin {"start", "singletons", "end"}

\* A transaction of the key moves its nonce.
UseKey ==
  /\ at = "singletons" /\ predicted
  /\ predicted' = FALSE
  /\ UNCHANGED <<run, at, proxies, people, record>>

Gift ==
  /\ at # "end" /\ ~gift
  /\ gift' = TRUE
  /\ UNCHANGED <<run, at, predicted, proxies, founder, joined, early, record>>

\* Somebody creates or initializes a proxy at the run's address first.
MeddleSafe(state) ==
  /\ Known
  /\ \/ safe = "none" /\ state = "bare"
     \/ safe = "bare" /\ state \in {"shared", "other"}
  /\ safe' = state
  /\ UNCHANGED <<run, at, predicted, baal, people, record>>

MeddleBaal(state) ==
  /\ Known
  /\ \/ baal = "none" /\ state = "bare"
     \/ baal = "bare" /\ state = "other"
  /\ baal' = state
  /\ UNCHANGED <<run, at, predicted, safe, people, record>>

\* Once Baal is set up, anyone may deposit.
DepositFirst ==
  /\ Known /\ baal = "dao" /\ ~joined
  /\ joined' = TRUE
  /\ UNCHANGED <<run, at, predicted, proxies, gift, founder, early, record>>

\* The operator moves the record aside, to deploy again.
MoveAside ==
  /\ record # None
  /\ record' = None
  /\ UNCHANGED <<run, at, predicted, proxies, people>>

---------------------------------------------------------------------------
DInit ==
  /\ run = 1 /\ at = "start" /\ predicted = FALSE
  /\ safe = "none" /\ baal = "none"
  /\ gift = FALSE /\ founder = FALSE /\ joined = FALSE /\ early = FALSE
  /\ record = None

DNext ==
  \/ Check \/ DeploySingletons \/ CheckSafe \/ CreateSafe \/ CreateBaal
  \/ DeployContracts \/ SetupSafe \/ SetUpBaal \/ Verify
  \/ Approve \/ Deposit \/ Minted \/ WriteRecord \/ Abort \/ Again
  \/ UseKey \/ Gift \/ DepositFirst
  \/ \E state \in SafeStates : MeddleSafe(state)
  \/ \E state \in BaalStates : MeddleBaal(state)

---------------------------------------------------------------------------
(* Properties *)

DTypeOK ==
  /\ run \in 1..MaxRuns /\ at \in Stages
  /\ safe \in SafeStates /\ baal \in BaalStates
  /\ {predicted, gift, founder, joined, early} \subseteq BOOLEAN
  /\ record \in 1..run \union {None}

\* If somebody creates or initializes a proxy first, the deployment ends before
\* any value moves: the founder deposits into a DAO only if its Safe and Baal were
\* set up by this run (docs/PARAMETERS.md, salt; initializeSafeAndBaal).
ValueOnlyWhenWired == [][~founder /\ founder' => Wired]_dvars

\* The record, which every reader trusts, is written of a DAO whose Safe is at the
\* address that was checked before the first transaction, although others use the
\* key, whose Safe and Baal this run set up, and whose founder deposited before
\* anyone else, at the price of an empty DAO (deploy-network.ts, genesisDeposit).
RecordTrue ==
  [][record' \notin {record, None} => predicted /\ Wired /\ founder /\ ~early]_dvars
=============================================================================
