# zero-one-dao: TLA+ models and proofs

The repository is a DAO: Solidity contracts that hold the treasury, the voting
shares and the work the DAO pays for (`contracts/`), a relay that sponsors the
gas of its members (`relay/`), and clients, scripts and pages around them
(`src/`, `scripts/`, `scenarios/`, `beacon/`). This directory holds TLA+
models of its core, TLC configurations that check them on small instances, and
proofs that hold for every size.

Paths below are those of the repository; `PROJECT.json` gives the lines behind
every definition.

## 1. The system

| Component | State | Operations | Talks to | Hard because of |
|---|---|---|---|---|
| **NavShareToken** (voting shares) | balances, supply, a journal of every balance change, checkpoints per member, supply per second, one replay cursor and growth per proposal | `mint`, `burn`, `registerProposal`, `settleRetention`, `getPastVotes`, `exitedSince` | called by Baal and, for settling, by anyone | several changes per second, replay cut into calls, changes between settling and verdict, a binary search, checked arithmetic |
| **Baal** (governance, `vendor/Baal.sol`) | proposals, votes, the queue tail, the configuration | submit, sponsor, vote, cancel, process; mint shares, ragequit; set configuration | token, Safe, shamans, the instances a proposal deploys | status recomputed from the clock at every read, queue order, a verdict on balances that move, an action that fails |
| **WorkManager** | tasks, confirmations per delivery, the list of active tasks with an index | submit, activate, cancel, expire, claim, deliver, confirm | Baal mints the reward; deposits are priced with its liability | swap-and-pop list, claims that lapse, repeated deliveries, expiry racing confirmation |
| **TreasuryLedger**, **DepositShaman** | open instances; none | open, close, `settled`; deposit | Safe, instances, token | deposits are refused while money is out; rounding |
| **Proposal contracts** (`ProposalBase`, Strategy, Project, Payment, Config) | status of an instance, what it holds | start, stop, migrate, complete | ledger, venue, Safe | a stopped strategy keeps its asset |
| **TemplateFactory**, **UniswapV3Venue**, **TickMath** | deployed instances; none | deploy, swap, quote | instances, Uniswap | CREATE2 addresses, arithmetic |
| **BehaviorBond** | reports and their deadline | report, settle | Safe | dispute window |
| **ZeroOneIntentAccount** | nonce per member | `execute` | called by the relay's sponsor through EIP-7702 | replay, deadline, re-entry |
| **Relay** (`relay/server.ts`) | `db.json` (requests, budget, next nonce), `sponsor-pending.json` (the journal), a queue | `/intent`, `/join`, `/pending.json`, reads | RPC node, chain, members | crash between any two writes, a failing or lagging node, timeouts and retries |
| **Relay lock** (`relay/lock.ts`) | a lock file held by a helper process | acquire, release, assert | every relay process, the index | the helper dies while the lock is held and its relay goes on, for a while without knowing |
| **Relay reads** (`relay/chain.ts`) | the persisted event index, a cached answer | `readDaoState` | RPC node, lock | reorganisations, lagging nodes and other readers between two reads of one scan |
| **Deployment** (`scripts/deploy-network.ts`, `src/zeroOne.ts`, `src/baal.ts`) | `deployments/base.json` | one run: 22 transactions, checks, the genesis deposit, the record | chain, one key | others initialize the proxies, use the key or deposit between two transactions; a run dies anywhere |
| **Service installer** (`scripts/install-mainnet-services.py`) | unit files, manifest, tunnel, jobs | plan, apply | deployment record, Cloudflare, launchd | dies between any two effects, overlapping runs, a login starts half an installation |
| **Clients** (`src/*.ts`) | none | wrap contract calls; `settleRetention` loops until settled | Baal, token | balances change between settling and processing |
| Other scripts, scenarios, beacon, mocks, constitution, loot | none that matters here | tests, pages | | |

What makes each correct:

* shares: a past balance is the balance its second ended with; retention
  answers are exact whatever the order of changes and chunks; no underflow;
* governance: one queue, no overtaking of the predecessor, exact tallies,
  retention measured at the moment of the verdict, final statuses final, the
  configuration changed by passed proposals only, no jam;
* work: the active list and its liability are exact, only the delivery on
  record is confirmed and paid, a deliverer keeps the task;
* treasury: the ledger lists exactly the instances that hold the DAO's money,
  nothing stays behind outside it, neither a deposit nor an exit takes value
  from those who stay;
* relay: nonces used once and without gaps, one broadcast per intent, an `ok`
  is true, the budget covers what may be spent, the journal settles; several
  processes together lose no write and keep the promise of one, unless one acts
  on a lock it does not know it has lost; whoever was answered ok is remembered,
  unless its transaction outlived its request; nothing is proposed twice, the
  faucet keeps its cap;
* reads: an index names exactly the rows up to its block, an answer is the state
  of one block, unless a node gave too few rows;
* release: value goes only into a DAO this deployment set up, its record is
  true, an installation that says it is done is, and an interrupted one can be
  resumed.

The list of hazards in `PROJECT.json` has the line where each bites and the
property that watches it.

## 2. The modules

```
SumFacts                  sums over finite sets, for the proofs of the accounting
CheckpointSearch          the binary search of _past, turn by turn
  MC_CheckpointSearch
NavShares                 NavShareToken.sol, one transaction (or replayed record) per step
  NavSharesHistory        + history variables: true past balances, true deficit;
                            implements ShareRetention
    NavShares_proofs        of these two and of CheckpointSearch
    MC_NavShares
ShareRetention            what the token promises to Baal (abstract)
  BaalGovernance          Baal.sol over that promise; implements ProposalLifecycle
    BaalGovernance_proofs   of this module and of ChainIndex
    MC_BaalGovernance
ProposalLifecycle         the status diagram (abstract)
WorkManager               WorkManager.sol
  WorkManager_proofs        of this module and of Treasury
  MC_WorkManager
Treasury                  ledger, deposits, exits, proposal contracts
  MC_Treasury
SponsorJournal            what the two files of the relay promise (abstract)
RelaySponsor              relay/server.ts, from a signed intent to its answer;
  RelaySponsor_proofs       implements SponsorJournal under crashes
RelayProcesses            relay/lock.ts and the queue: several relays, one directory;
  RelayProcesses_proofs     implements SponsorJournal until one of them acts on a
                            lock it does not know it has lost
RelayRequests             relay/server.ts, requests of several transactions
  RelayRequests_proofs, MC_RelayRequests
ChainIndex                relay/chain.ts, the event index and its readers
  MC_ChainIndex
Deployment                deploy-network.ts to the deployment record
  ServiceInstaller        install-mainnet-services.py from that record to the jobs
    ServiceInstaller_proofs
```

**CheckpointSearch.** `Entry`, `Turn` and `LoopExit` are the early returns, the
loop body and the end of `_past`. The history is any increasing sequence of
seconds.

**NavShares.** Variables are the storage of the contract plus the block time.
`Mint`, `Burn` and `RegisterProposal` are the three calls only Baal may make:
each does the balance, supply, journal and checkpoint writes of the code in
one step. `settleRetention` takes a step per record (`SettleRetention` starts
the call, then `ReplayRecord`, and `ReplayReturn` or `ReplayOutOfGas`), since
the loop may run out of gas at any record and then leaves nothing behind. No
other action is enabled during the call, as on the chain. `Past` is defined by
what it looks for; CheckpointSearch shows the code's search finds that.

**NavSharesHistory** adds what the contract does not store: `endOf[t]`, the
balances second `t` ended with; `deficit[p]`, the shares that were held when
the sponsorship second ended and are gone from the same members now, kept up
to date change by change; `growthTo[p][k]`, the growth after the first `k`
records. Its actions are those of NavShares with the history written beside
them.

**ShareRetention** is the token without journal, checkpoint or cursor: a
baseline per proposal and an answer that is void after any change of balance
and exact after settling. BaalGovernance is built on it, so that its state
space has no journals; `NavSharesHistory!PromiseKept` is the licence to do so.

**BaalGovernance.** One action per call of `Baal.sol`. `State(p)` is
`state(id)`, computed from clock, tally and flags as the code does.
`ProcessProposal` is `processProposal` when retention is settled;
`SettleAndProcess` is the multicall of the last `settleRetention` chunk and
`processProposal` in one transaction, which `docs/RETENTION_MECHANISM.md`
prescribes when balances keep changing. `Execute` is the verdict and the voted
multicall, whose effect on the governance is one of three: none, a new
configuration, a revert.

**WorkManager.** One action per function that changes state. Activation and
cancellation belong to the Safe and may happen at any moment.

**Treasury.** TreasuryLedger, DepositShaman, ProposalBase with Strategy and
Payment, the payout of `ragequit` and the liability of WorkManager, composed: a
step is a transaction, and what a vote executes is one of the multicalls of
`src/proposals.ts` (`FundAndStart…`, `TopUp`, `Amend…`, `Stop`, `Unwind`,
`MigrateAndStart`), with the amount that was the budget when the vote was
submitted. `ledger` is the list `_open` with the index `_indexPlusOne`, closed
by swap and pop. The venue is external: its price is any of `Prices` at any
moment, and its refusal is a step not taken. Strangers send tokens to the Safe
and to strategies. Shares are counted in total. Safety only, so a strategy's
`minInterval` is left out: runs may come at any time. `Worth` is what the shares
stand for: the Safe and everything the DAO has in instances that started, the
asset at the lowest of `Prices`, the least it can be sold for. Names begin with
`Treasury` where WorkManager has the same.

**RelaySponsor.** One request at a time, as the queue and the lock ensure.
Between two steps of a request lies a write to a file or an answer of the node,
and at every such point the process may crash. `Begin…`, `DropStaleRows` are
`recoverJournal`; `Resend…`, `WaitFails`, `Settle`, `ClearJournal` are
`recoverPending`, which every transaction passes through, freshly signed or
left by a crash; `Start…`, `Replay`, `Prepare`, `Accept`, `Refuse`, `Sign`,
`WriteJournal`, `Answer`, `ConfirmFails` are `submit` and `sponsored`. The node
and the chain are external: `ResendLost` and `ResendAccepted` leave the relay
in the same state, since a broadcast error says nothing; `Evict` drops a
waiting transaction; `PendingCounts` lets the node answer too low.

**SponsorJournal** is the relay reduced to its files and what the network may
have: a transaction is written (`Sign`), sent any number of times (`Send`),
named as settled in `db.json` (`Settle`), and leaves the journal then or later
(`Clear`). RelaySponsor and RelayProcesses each implement it by a refinement
mapping (`JournalPromise`; RelayProcesses up to the first step taken on a lost
lock). RelayRequests takes the promise for granted: there a sponsored transaction
is one step, and what it says of dead requests (`Recover`) is what the promise
allows.

**RelayProcesses.** A step of a relay is at most one read or write of a file, or
one transaction sent; between any two, other relays take theirs and a relay or a
helper may die. `Arrive` is the queue's counter and its limit; `Start`, `Acquire`,
`Busy`, `Release` are `withStateLock` and its helper; `Persist` and `Reload` are the
write and the read of `db.json`. `ReadJournal`, `ClearStale`, `Prune` are
`recoverJournal`; `Send`, `WaitFails`, `Settle`, `ClearSettled` are `recoverPending`;
`Reserve`, `WriteJournal`, `ReadBack`, `JournalGone` are `sponsored`, whose two files
are written one after the other; `Caught` is what an error still writes.
`HelperDies` frees the flock at once. `Held` is `assertStateLockHeld` as the code has
it: what Node has told the relay, which is not what is so. Until `Notice`, which
falls at one of the relay's awaits, a relay with a dead helper ("lost") passes every
assertion, and the writes of the journal assert nothing at all. Two history
variables say how far that goes: `strayed`, that a relay wrote or sent something in
that state, and `firm`, what `db.json` held when no relay was in it. What a request
does with the lock is one transaction; RelaySponsor has the rest.

**RelayRequests.** `join`, a deposit with the faucet (`TopUp`, `Transfer`), a
proposal whose instance may have to be deployed first (`Existing`, `Deploy`), an
execution that may have to settle chunks first (`SettleChunk`), then the intent
(`Submit`). `rows` are the envelopes `db.json` knows as succeeded: the same envelope
sent again is answered from its row (`Replay`, which records nobody), or goes on
when there is none or its receipt is not read (`Fresh`). `Fail` ends a request
anywhere: refused, timed out, or dead with its process; what it journaled is still
mined, and `Recover` settles it, and fills its row, before the next request.
`orphans` are the members whose intent ended that way. `ReadIdentity` may see any
earlier nonce and any delegation its envelope allows; `stale` notes when a lagging
node or a failed read hid an instance or its proposal. One request at a time: that
the processes behave like one until a lost lock is acted on is RelayProcesses.

**ChainIndex.** A block is a number, a chain a sequence of them, and a row is
named like its block, so "the rows of exactly the blocks up to here" is an
equality. `ReadBlock`, `Lock`, `TakeIndex` or `StartOver`, `Scan`, `Write`, `Resume`
are the awaits of `readDaoState` and `buildDaoState`, `Drop` the end of the cached
answer. Every call may go to another node, and a node has the chain or a dropped
fork as far as it has come (`Views`): it names its own last block, looks the
checkpoint up in its own chain, and gives the rows it has, without an error for
those it has not (`Logs`). `Grow`, `Reorganise` and `Return`, which goes back to a
dropped fork, may fall between any two, and `HelperDies` frees the lock of a reader
that goes on. The history variable `flaws` goes with the rows and says whether a
node that gave some of them lacked the reader's block; `Excused` is what the two
properties except.

**Deployment.** The run in progress and its contracts: the variables say how far
it is (`at`) and who set up its proxies. `MeddleSafe`, `MeddleBaal`, `DepositFirst`,
`Gift` and `UseKey` are what others can do between its transactions; a second
concurrent run shows as `UseKey`. `Abort` and `Again` end and repeat it.

**ServiceInstaller** extends it: `record` is what the installer reads. `Call` is
`plan`, `Lock` the flock with the second plan, and each effect of `apply` is a
step (`Build`, `WriteFile`, `WriteManifest`, `CreateTunnel`, `RouteName`,
`Bootstrap`, `Validate`, `MarkReady`). `Die` and `DieCreating` end a run at any of
them, `Login` starts every job whose file is there, `StopJob` and `RemovePages` are
the operator.

Definitions commented "a plausible slip" stand beside the definition they
would replace: each is a bug that could have been made there, and replacing
the definition by it makes TLC report the property named in
`PROJECT.json` "mutants".

## 3. The runs

| Run | Question | Distinct states |
|---|---|---|
| `checkpoint_search` | does the search return the newest checkpoint not after the second, for every history, and halve its range | 3 210 |
| `nav_shares` | are past balances and retention answers exact in every interleaving; does the token implement ShareRetention | 287 302 |
| `baal_queue` | queue, overtaking, life of a proposal, with two configuration proposals; does every proposal that reached voting end | 363 901 |
| `baal_retention` | tally and retention with single shares coming and going, with and without expiration | 1 103 358 |
| `work_manager` | list and liability, confirmations, deliverer | 847 555 |
| `treasury` | does the ledger know where the money is; does a deposit or an exit take value from the others | 1 151 262 |
| `relay_sponsor` | nonces, budget, answers, broadcasts under crashes; is the promise of the files kept; does the journal settle | 147 524 |
| `relay_processes` | do several relays keep that promise and lose no write until one acts on a lost lock, and what is safe even then; do they count their queue right and end every request | 276 991 |
| `relay_requests` | faucet cap, what is remembered, one proposal per instance, however often requests die or are sent again; does an execute get through | 368 472 |
| `chain_index` | are the index and the answers exact under reorganisations and returns, lagging nodes, concurrent readers and dead lock helpers, but for what no reader could notice | 3 330 864 |
| `release` | from the first transaction to running services: where value goes, whether record, NO-OP and jobs are true, whether an interrupted installation ends | 197 692 |
| `treasury_prices` | (violation) an exit is priced at most as high as a deposit while settled | |

Every detailed module has a type invariant (`TypeOK`, `GovTypeOK`, `DTypeOK`). It holds in
the runs and can be added to their configurations; for the modules with proofs
the typing is part of the inductive invariant.

### Bounds, and why they are enough

* `MC_CheckpointSearch`: histories of up to five of seven seconds. The search
  takes its first test and three turns; the proof covers the rest.
* `NavShares.cfg`: two members, two proposals, `MaxNow` 3, `MaxJournal` 4,
  `SupplyCap` 3, changes of one share. A member can leave, return and leave
  again after the baseline, a second can have several changes before and after
  it becomes a baseline, chunks of two replays interleave, and mints hit the
  cap. The proof covers the rest.
* `BaalQueue.cfg`: two proposals, `MaxNow` 5, `LastSubmit` 2, one second of
  voting and of grace. Two is the least that makes a queue; both may be
  sponsored in either order, in one second or two. The voted configuration
  lengthens voting, leaves grace at zero ("keep"), and raises quorum,
  threshold and retention, so that whether the first passes changes the
  verdict on the second; when fewer than two shares are left it is refused.
  `MaxSupply` 2 and whole balances keep the state space in reach. A proposal
  is submitted by second `LastSubmit` and ready by second 5 at the latest, so that
  `EveryProposalEnds` never waits for a clock that has reached `MaxNow`.
* `BaalRetention.cfg`: one proposal, three shares at genesis, retention 66 %,
  single shares. One exit is tolerated and two are not, so exits, returns and
  new deposits around the border all occur; an expiration of 4 falls on the
  last second the proposal can be processed.
* `WorkManager.cfg`: two tasks, one that expires and needs both of two
  verifiers, one that does not expire and needs one; two workers, two
  deliverables, `MaxRound` 2, `ClaimTimeout` 1, `MaxNow` 4: a claim may lapse
  before and after delivery, a delivery be replaced after a confirmation, and
  expiry race with the second confirmation.
* `Treasury.cfg`: two strategies and a payment, budgets of 1 that a vote may
  raise to 2, 2 units at genesis and at most 3 in the system (`MaxMoney`), prices
  1 and 2, at most 4 shares and promised shares, a reward of 2, one present to a
  strategy (`MaxGiven`). Two strategies are the least whose closing in either
  order moves an index; a present before the start, while running and after
  stop all occur; a strategy gains and loses; a deposit of 1 into a treasury of
  2 that three shares (held or promised) stand for rounds down.
* `RelaySponsor.cfg`: two intents and join requests, `MaxCrashes` 2,
  `DailyWei` 4 with a reserve of 2 and a cost of 1: three transactions fit,
  the fourth is refused. Two crashes allow one in a request and one in the
  recovery of it.
* `RelayProcesses.cfg`: two processes, two requests, `QueueLimit` 1 (the code
  has 8), `MaxFaults` 2. Two processes are the least that share a lock; both
  requests may be at work at once, on two copies of the files, or meet in one
  process, where the second finds the queue full; two faults let a helper die and
  the relay that took over die, too. A relay that strays over a second one, and a
  journal overwritten or cleared by it, occur. A request waiting behind another of
  its own process would need a third request, which is out of TLC's reach here;
  the proof covers it.
* `RelayRequests.cfg`: one member with a pass and one instance, an `Amount` of 1
  under a `FaucetCap` of 2, `SettleLimit` 1 (the code has 4) of at most `MaxChunks`
  2, `MaxIntents` 2. The cap is reached by two debits, of which any may be lost with
  its request; an execute needs more than one request; an instance can be proposed
  twice, if anything lets it; every envelope can be sent again. The proof covers the
  rest.
* `ChainIndex.cfg`: two readers, `LogChunk` 2, `MaxHeight` 3, `MaxBlocks` 4,
  `MaxReturns` 1: a scan takes two chunks, and a reorganisation of one block or of
  two and the return to the fork fit, or two reorganisations of a short chain. Readers are
  symmetric.
* `ServiceInstaller.cfg`: two deployments, two installers, two hostnames,
  `MaxFaults` 1. With two faults (592 736 states) everything holds as well. The
  proof covers the rest, but for `InstallEnds`.

Deadlock is checked for `relay_sponsor`, `relay_requests` and `chain_index`. The
other models end: at `MaxNow`, when the search has returned, when all requests
have, or when the bounded money, runs or faults are used up; their
configurations say so.

### Fairness

* `BaalGovernance!Fairness`: weak fairness of the clock (blocks keep coming)
  and, per proposal, of `ProcessProposal ∨ SettleAndProcess`. The code has no
  scheduler: it is whoever wants the outcome. Weak fairness is enough because
  the multicall is enabled from the moment the proposal is ready and its
  predecessor has ended, whatever happens to balances: that is the point of
  it. No fairness is assumed of sponsors, voters or settling alone.
* `RelaySponsor!Fairness`: weak fairness of the relay's own steps (requests
  arrive and the process runs), strong fairness of the broadcast being taken,
  of reading a receipt that exists, and of mining what waits. Strong, because
  each may fail any number of times in between. A transaction whose fee cap is
  below the base fee for ever would break the last: the relay never replaces
  it.
* `RelayProcesses!Spec`: weak fairness of every process's own step (`Step`). Each
  await in it has a timeout (240 s for the lock, 180 s for a receipt), which is the step
  that is always enabled. Nothing is assumed of the chain, of helpers or of
  restarts.
* `RelayRequests!Fairness`: weak fairness of `Recover`, `Fail` and of mining, which
  are the process, its timeouts and the chain; strong fairness of the member
  asking again for the execution with an intent signed for its current nonce, and
  of each step of that request which may fail any number of times in between (not
  being taken for an old one, a fresh read, a chunk, the intent, its success).
* `ServiceInstaller!Fairness`: weak fairness of a started run's next step and of
  the operator: who wants the services calls again, stops the jobs the
  installer refuses to disturb, and removes the pages it refuses to replace.

## 4. What is proved

Every invariant and every action property of the passing runs, and every
refinement, is proved for all members, proposals, tasks, instances, amounts and
bounds; TLC checks them on small instances and checks liveness. The constants are
assumed to be what the named `ASSUME`s say, which TLC evaluates in the runs: sets
that are summed over are finite, ids count from one, amounts, prices and chunk sizes
are positive, there is a price, a transaction costs no more than its reserve,
and the values that stand for nothing (`Nobody`, `None`) are nothing else.

What is assumed of the world around the code is in the models, not in an `ASSUME`,
and a theorem holds under it:

* the modules of the relay's writing side keep a mined transaction mined, and the
  chain's order of nonces; only ChainIndex has reorganisations;
* RelaySponsor: `BroadcastOnce` excepts a run in which a receipt could not be read
  (`readFailed`), since then nothing tells a mined transaction from a lost one;
* RelayProcesses: `NoLostWrite` (but for `firm`) and `JournalPromise` hold up to the first
  step on a lost lock (`strayed`); flock itself is taken to exclude, and a file to
  be written whole (the code renames);
* RelayRequests: `ProposedOnce` excepts what a node or a failed read hid (`stale`),
  `AnsweredRecorded` whose intent outlived its request (`orphans`);
* ChainIndex: an index is exact unless a node that gave its rows lacked the block
  (`Excused`); every row a node gives is one of the blocks it has;
* Deployment: others act between transactions, never within one.

**SumFacts.** Sums over finite sets, which the accounting of the token, the
governance, the treasury and the sponsor is written with. The models use the
library's `MapThenSumSet`; `SumFold` turns it into `Sum`, a table over the
subsets of a set. Each induction over a finite set is by a smallest
counterexample: the strict subset ordering is well-founded, so a set of bad
subsets that is not empty has a member with no bad proper subset
(`SmallestSubset`). From it follow what a sum does when a summand changes, a
member comes or goes, the summands are bounded, or the set is listed by an index.

**NavShares_proofs.** `SharesInvariant`, `PastVotesExact`, `RetentionIsExact`.
Exactness is not inductive by itself. The past balances need checkpoints that
are sorted and complete with respect to `endOf`, with the current second's
still open. The retention answer needs two facts that the contract never
states: (1) each settlement's growth, and that of a call in progress, is the
prefix sum `growthTo[p][cursor + 1]` of the journal, whatever the chunks were,
because a record's contribution depends on the baseline alone and the baseline
is final once its second is over; (2) for every open proposal
*supply at start + growth of the whole journal − deficit = supply now*. A
change of one balance moves growth by the change above the baseline, the
deficit by the change below it, and the supply by their difference; the lemmas
state that once for all cases. When the cursor has reached the end of the
journal, (1) and (2) give `exitedSince = deficit`.

`SumsInvariant` adds that supply and deficit are sums over the members; with (2)
the growth of a whole journal is then what members have more than at the start,
so it is natural at every moment, and `growthTo` keeps every moment: that is
`NothingUnderflows`. `PromiseIsKept` maps each step of the token to one of
ShareRetention or to a stutter: the baseline is `endOf` at the start, the answer
`exitedSince` when settled, and the deficit a sum, so that it is ShareRetention's.

The search: `LookupIsExact`, `SearchHalves`. The invariant is that the range
never excludes the answer: everything above `upper` is too new, `lower` is not
too new. `SearchHalves` needs the rounding of the middle. `SearchComputesPast`
joins the two models: what the search returns is what `Past` looks for.

**BaalGovernance_proofs.** `GovernanceInvariant`, and from it `QueueReachesAll`,
`QueueIsNotOvertaken`, `TalliesAreExact`, `LivesAreKept`, `RetentionDecides`,
`ConfigChangesByVote`. The code links each sponsored proposal to the one before;
the invariant says that there is a line of all sponsored ones in the order of
sponsorship, whose links are `prevProposalId` and whose end is the tail
(`QueueLine`). That makes `QueueComplete` an induction along the line. Not
overtaking needs that what has ended stays ended: a processed proposal has won,
its grace is over and it is not cancelled (`OutcomesInv`), and the deadlines lie
after the start, in order (`DeadlinesInv`). A tally is a sum over voters that grows by one
voter at a time, and the baselines it sums do not move once voting is possible.
That an answer is exact or void (`AnswersExact`) is all the verdict needs.

The same module proves ChainIndex: `IndexTypes`, `IndexIsExact`, `AnswerIsExact`,
for any number of readers, heights, reorganisations, returns to forks, lagging nodes
and lost locks. The rows a reader has are those of its block's chain when every node
that gave some had that block; a node that had not is told by `flaws`. What makes
that inductive (`ReadInv`, `FileInv`) is that of two blocks of one branch the lower is
under the higher (`SameBranch`), and that a block which has left the chain comes back
by `Return` alone (`NothingReturns` for the other steps, `ReturnStep` for this one). A
fork dropped while it is scanned thus needs no exception until the chain goes
back to it.

**WorkManager_proofs.** `WorkInvariant`, `ActiveListIsExact`, `WorkIsVerified`,
`DelivererIsKept`. The list and its index are inductive together. That only
verified work is paid needs the counter to equal the verifiers who confirmed
the delivery of the current round (`RoundTally`), confirmations of later rounds
not to exist, and who may confirm (`VerifierInv`); the counter below the
threshold while a task is open makes the equality test of `confirm` safe.

The ledger of the treasury is the same list with an index, closed by the same
swap and pop, so Treasury is proved in the same module, from the same lemmas
(`ListOf`, `AppendList`, `RemoveFromList`): `TreasuryInvariant`, `LedgerIsExact`,
`NothingIsLeftBehind`, `DepositsKeepWorth`, `ExitsKeepWorth`. The invariant
adds to the two run invariants that an instance not yet started has no asset
and that a payment's budget covers its list, without which a payment could
start with less than it pays. Instances are independent: a step is described
by what it does to the one or two it names (`InstanceStep`), all others rest. The
two worth properties compare products. For a deposit, the treasury the price is
taken from *is* `Worth` when the ledger is settled (`SettledIsWorth`: the list has
every counted instance that holds anything once, and none holds its asset), and
rounding down gives `w * q ≤ amount * s`. For an exit, the payout is a share of
the Safe, which is no more than `Worth`.

**RelaySponsor_proofs.** `CrashRecovery`, and from it `NoncesAreOnce`,
`IntentsAreBroadcastOnce`, `OkIsTrue`, `BudgetIsKept` and the refinement
`JournalIsKept`. The crash-recovery invariant says which files and which networks
go together: without a journal everything sent is mined and counted; with one,
nothing else is on its way and its nonce is the chain's next, or its last if it
is mined; and the marker, the next nonce and the rows of `db.json` differ by
exactly the steps of `recoverPending` that are left (`Files`, `Progress`, `Row`,
`RowsTrue`). `BudgetIsKept` adds what the day's row counts: the costs of what is
mined and settled, and a reserve for the one transaction that is not settled,
mined or not.

**RelayProcesses_proofs.** `ProcessesInvariant`, `NoWriteIsLost`, `PromiseIsKept`,
for any number of processes, requests and faults. As long as nobody has strayed, a
process whose helper lives holds the flock, and once it has read the files its copies
are what is on the disk (`Knows`); a process whose helper is dead may hold anything,
and the step with which it writes that is the one that makes `strayed` true. The
refinement follows action by action, each file of a request by itself.
`Firm` needs no such condition: a relay's copy was read when it had the lock, and
holds at least what the file held when last no helper was lost, so even one that
strays cannot undo that. `NoncesAreUsedOnce` is what the promise is for:
SponsorJournal itself never lets the network have two transactions with one nonce (the
invariant orders what the network may have: counted in `db.json`, or older than the
journal, or the journal itself), and so neither do any number of relays, before one
strays. `CounterIsExact`: the counter is the size of what the process holds, because a
request is in its line or in work, never both and never twice (`Counts`).

**RelayRequests_proofs.** `RequestsInvariant`, `FaucetIsCovered`,
`AnsweredIsRecorded`, `InstancesAreProposedOnce`. What was given, what is in the
journal and what is debited but not yet signed is within the debit (`Covered`);
the member of every row is recorded with its pass or an orphan (`RowsRecorded`), so
whoever is answered from a row is (`Accounted`); an instance a request is about to propose, or
whose deployment or proposal is in the journal, has no proposal yet, unless
something hid one (`Unproposed`).

**ServiceInstaller_proofs.** `NoValueUnlessWired` and `RecordIsTrue` for the
deployment: how far the run is tells who set up its proxies (`DInv`), because
after their creation and after their setup each is out of others' reach.
`JobsAreTheirFiles` and `NoOpIsRight` for the installer: no job is loaded while a
run still writes files, and a manifest is ready only for a routed name.

Only model-checked, because liveness under fairness and `ENABLED` are out of the
prover's reach: `EveryProposalEnds`, `JournalSettles`, `EveryRequestEnds`,
`ExecuteGetsThrough`, `InstallEnds`. And the eight statements of documents that do
not hold, of which one is a run (§5).

## 5. Where the code and its documents differ

1. **Exit price** (run `treasury_prices`). `docs/PARAMETERS.md` says "Exit price is
   at most deposit price while settled", and `decision.md` builds on it. A
   deposit is priced with the shares and the rewards of active tasks, an exit
   with the shares alone; while a task is active and no money is out, the exit
   price is the higher one. `DepositKeepsWorth` and `ExitKeepsWorth` are what
   does hold: the first counts promised shares, the second does not.

The next seven are properties of the modules that TLC finds violated when they are
added to a run's configuration:

2. **Execution order** (`BaalGovernance!ExecutesInSponsorshipOrder`, three
   proposals). `decision.md` says that Baal executes in sponsorship order.
   `processProposal` looks at the proposal sponsored just before and counts a
   cancelled or defeated one as ended, whatever precedes it; the third of three
   can execute while the first is open. `NeverOvertakesPrev` is what does hold.
3. **Cancellation** (`BaalGovernance!CancelledBySponsorOrFallen`). Documented as
   open to others "if sponsor has fallen below threshold"; the code reads the
   sponsor's votes one second ago, so a sponsor who joined in this second can
   be cancelled by anyone.
4. **`/pending.json`** (`RelaySponsor!UnlistedNeverBroadcast`). The relay answers
   there that "anything listed nowhere was never broadcast". After a crash the
   next request settles the transaction of the lost one; the intent is then in
   neither list and its member has no hash.
5. **The index's checkpoint** (`ChainIndex!CheckpointKept`). `docs/RELAY.md` says that
   its lock keeps concurrent readers from overwriting the incremental
   checkpoint. A reader that took its block before another one finds the index
   ahead, drops it, scans from the first block and writes the older checkpoint
   over the newer one. What is read is as right as before (`IndexExact`,
   `AnswerExact`).
6. **Custody** (`RelayRequests!CustodyTold`). `server.ts` says that an address the
   relay can sign for is never published as self-custody. When the request of a
   T0 join dies after its transaction was journaled, the next request settles
   the transaction and records nobody, and so does the answer of ok to the same
   intent sent again; until the member asks for something new it is published as
   self-custody. `AnsweredRecorded` is what does hold.
7. **The index and a lagging node** (`ChainIndex!IndexTrue`). `docs/SECURITY_AUDIT.md`
   says (OPS-07) that the "relay index and scripts reflect the canonical chain". A
   node that lags answers `eth_getLogs` with the rows it has and no error; the
   reader saves them under the hash of a block that stays, and nothing scans those
   heights again. `docs/RELAY.md` knows that a node may lag, and lists the reads
   that wait for it; the index is not among them.
8. **A lock lost unnoticed** (`RelayProcesses!NonceUsedOnce`). `server.ts` says that
   "recovery can only resend this exact transaction", and `docs/RELAY.md` that every
   mutating request holds the lock. A relay whose helper was killed, and which Node
   has not told, writes its journal over that of the relay which has the lock by
   then, and sends a second transaction on the same nonce; one of the two journals
   then waits for a receipt that never comes. It can also undo what others wrote
   to `db.json` since. `NoLostWrite` and `JournalPromise` are what does hold.

And some differences the models share with the code without a property of their own: an
installation that was interrupted by a login, or by a failed health check, is
refused by every rerun until somebody stops the jobs (`install-mainnet-services.py`
speaks of runs that can resume; `InstallEnds` needs the operator); one that died
after its files and before its manifest is refused as not its own; one that
died between a tunnel's name and its credentials is refused for good, as
documented; a deployment that dies between the genesis deposit and its record
leaves no record, and a rerun makes a second DAO.

## 6. Not modelled, and why

* Baal: votes by signature (a second way into the same `_submitVote`),
  administration of shamans and loot, `executeAsBaal`, the trusted forwarder,
  gas.
* Treasury: the Project template, Config (moves no money), a migration
  to another template or without the start of its successor, the registry of
  assets, strategies of different assets. Money topped up into an instance not
  yet started is outside the ledger; `Worth` leaves it out as the code does.
* Relay: rate windows, the encoding of passes and envelopes, signatures, quotes,
  the change of day (budget rows are per day), the verbs that forward one call,
  errors and their wording. Reorganisations are modelled where the relay reads
  (ChainIndex), not where it sends: there a mined transaction stays mined.
* `chain.ts` beyond the index: the answer is a function of the rows and of
  contract reads at one block, and the pages a function of the answer.
* TemplateFactory (CREATE2 appears as an instance that is deployed once),
  BehaviorBond (nothing else calls it), the re-entry guard and deadline of
  ZeroOneIntentAccount.
* Deployment on Base Sepolia and forks, gas for the deployer, the constitution
  text, verification inputs; the Sepolia services the installer must not touch,
  symlinks and permissions.
* 32-bit timestamps (until 2106) and 224-bit sums other than the cap of
  `mint`.
* Uniswap mathematics, ABI encoding, read-only pages, bridges and other operator
  scripts, the static site: data and I/O without a protocol.
* The scenarios, end-to-end drivers, probes and audits, which are by far the
  larger part of the repository's TypeScript: they call the system in one order
  each and keep no state of their own. They were read as a reference for which
  states occur.

## 7. What is left

1. *Treasury*, the rest: ProjectProposal (tranches, verdicts) and migrations
   between templates. `TreasuryInv` is stated for every instance, so a template
   adds a lemma per action.
2. *BehaviorBond and ZeroOneIntentAccount*: report, dispute window and
   settlement, once; deadline and re-entry.
3. Proofs: that a model's sums of shares and WorkManager's tasks are the totals
   Treasury counts, which today are two models of one contract each.

## 8. Running

```
tlc -workers 2 -config NavShares.cfg MC_NavShares
tlapm NavShares_proofs.tla
```

and likewise for the other rows of `PROJECT.json` "runs" and "theorems".
