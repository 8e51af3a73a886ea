--------------------------- MODULE BaalGovernance ---------------------------
(***************************************************************************)
(* contracts/vendor/Baal.sol, the DAO's governance, over the promise of    *)
(* its share token (module ShareRetention): a step is one transaction.     *)
(*                                                                         *)
(* Baal.votingStarts of a proposal and NavShareToken.votingStarts of the   *)
(* same id are written by the same transaction with the same value, so     *)
(* both are the variable votingStarts.  An id above proposalCount is       *)
(* Unborn.  The voted multicall is abstracted to its effect on the         *)
(* governance: none, a new configuration, or a failure.                    *)
(* Left out: the offering of an unsponsored submission, the calldata hash, *)
(* the gas check (the caller supplies enough), loot (never minted),        *)
(* maxTotalSharesAndLootAtVote (written, read by no rule of this fork) and *)
(* the 32-bit width of timestamps.                                         *)
(***************************************************************************)
EXTENDS ShareRetention

CONSTANTS Genesis,        \* the balances setUp minted before the first second
          InitialConfig,  \* the configuration setUp set
          Actions,        \* what a voted multicall may do
          Expirations,    \* the expirations submitted, 0 for none
          Amounts,        \* amounts of shares minted or ragequit
          MaxSupply,      \* bound: shares in existence
          LastSubmit      \* bound: the last second a proposal is submitted or sponsored

VARIABLES proposalCount,
          proposals,                  \* proposals[p]: the struct
          memberVoted,                \* the pairs <<member, id>> that voted
          latestSponsoredProposalId,
          config                      \* the governance parameters

baalVars == <<proposalCount, proposals, memberVoted, latestSponsoredProposalId, config>>
govVars == <<shareVars, baalVars>>

ConfigRecords == [voting: Nat \ {0}, grace: Nat \ {0}, quorum: Nat,
                  threshold: Nat, minRetention: 0..100]

ASSUME ProposalsAssumption ==
  IsFiniteSet(Proposals) /\ Proposals = 1..Cardinality(Proposals)
ASSUME InputsAssumption ==
  /\ Amounts \subseteq Nat /\ Expirations \subseteq Nat
  /\ \A action \in Actions : action.kind = "config" => action.config \in
       [voting: Nat, grace: Nat, quorum: Nat, threshold: Nat, minRetention: Nat]
ASSUME GenesisAssumption == Genesis \in [Members -> Nat] /\ InitialConfig \in ConfigRecords

---------------------------------------------------------------------------
(* Reads *)

\* state(id)
State(p) ==
  LET prop == proposals[p]
  IN  IF p \notin 1..proposalCount THEN "Unborn"
      ELSE IF prop.cancelled THEN "Cancelled"
      ELSE IF votingStarts[p] = 0 THEN "Submitted"
      ELSE IF now <= prop.votingEnds THEN "Voting"
      ELSE IF now <= prop.graceEnds THEN "Grace"
      ELSE IF prop.noVotes >= prop.yesVotes THEN "Defeated"
      ELSE IF prop.processed THEN "Processed" ELSE "Ready"

Ended(p) == State(p) \in {"Processed", "Cancelled", "Defeated"}

\* The proposal sponsored just before p has ended, or there is none: id 0.
PrevEnded(p) ==
  State(proposals[p].prevProposalId) \in {"Processed", "Cancelled", "Defeated", "Unborn"}

CanSponsor(m) == balanceOf[m] >= config.threshold

\* The check submission and sponsorship make of an expiration.
FarEnough(expiration) ==
  expiration = 0 \/ expiration > now + config.voting + config.grace

Submission(expiration, action) ==
  [prevProposalId |-> 0, votingEnds |-> 0, graceEnds |-> 0, expiration |-> expiration,
   action |-> action, yesVotes |-> 0, noVotes |-> 0, maxTotalSharesAtSponsor |-> 0,
   sponsor |-> {}, cancelled |-> FALSE, processed |-> FALSE, passed |-> FALSE,
   actionFailed |-> FALSE]

\* The fields sponsorship by m writes: the queue position, the deadlines and
\* the shares the quorum is measured against.
WithSponsor(prop, m) ==
  [prop EXCEPT !.prevProposalId = latestSponsoredProposalId,
               !.votingEnds = now + config.voting,
               !.graceEnds = now + config.voting + config.grace,
               !.maxTotalSharesAtSponsor = TotalShares,
               !.sponsor = {m}]

---------------------------------------------------------------------------
(* Submission, sponsorship, votes *)

\* submitProposal by an account that may not sponsor: the proposal waits.
SubmitUnsponsored(m, expiration, action) ==
  /\ now <= LastSubmit /\ proposalCount < Cardinality(Proposals)
  /\ FarEnough(expiration)
  /\ ~CanSponsor(m)
  /\ proposalCount' = proposalCount + 1
  /\ proposals' = [proposals EXCEPT ![proposalCount + 1] = Submission(expiration, action)]
  /\ UNCHANGED <<shareVars, memberVoted, latestSponsoredProposalId, config>>

\* submitProposal by a member that may sponsor: voting starts at once.
SubmitSponsored(m, expiration, action) ==
  /\ now <= LastSubmit /\ proposalCount < Cardinality(Proposals)
  /\ FarEnough(expiration)
  /\ CanSponsor(m)
  /\ proposalCount' = proposalCount + 1
  /\ proposals' = [proposals EXCEPT
       ![proposalCount + 1] = WithSponsor(Submission(expiration, action), m)]
  /\ latestSponsoredProposalId' = proposalCount + 1
  /\ Register(proposalCount + 1)
  /\ UNCHANGED <<memberVoted, config>>

\* A plausible slip: the queue's tail is left where it was.
SponsorProposalKeepsTail(m, p) ==
  /\ now <= LastSubmit
  /\ CanSponsor(m)
  /\ State(p) = "Submitted"
  /\ FarEnough(proposals[p].expiration)
  /\ proposals' = [proposals EXCEPT ![p] = WithSponsor(@, m)]
  /\ Register(p)
  /\ UNCHANGED <<proposalCount, memberVoted, latestSponsoredProposalId, config>>

\* sponsorProposal
SponsorProposal(m, p) ==
  /\ now <= LastSubmit
  /\ CanSponsor(m)
  /\ State(p) = "Submitted"
  /\ FarEnough(proposals[p].expiration)
  /\ proposals' = [proposals EXCEPT ![p] = WithSponsor(@, m)]
  /\ latestSponsoredProposalId' = p
  /\ Register(p)
  /\ UNCHANGED <<proposalCount, memberVoted, config>>

Tallied(prop, approved, weight) ==
  IF approved THEN [prop EXCEPT !.yesVotes = @ + weight]
  ELSE [prop EXCEPT !.noVotes = @ + weight]

\* A plausible slip: the voter's current shares are counted.
SubmitVoteCurrentShares(m, p, approved) ==
  /\ State(p) = "Voting"
  /\ votingStarts[p] < now
  /\ balanceOf[m] > 0
  /\ <<m, p>> \notin memberVoted
  /\ memberVoted' = memberVoted \union {<<m, p>>}
  /\ proposals' = [proposals EXCEPT ![p] = Tallied(@, approved, balanceOf[m])]
  /\ UNCHANGED <<shareVars, proposalCount, latestSponsoredProposalId, config>>

\* _submitVote.  The weight is getPastVotes at votingStarts, which reverts
\* until the sponsorship second is over; then it is the baseline.
SubmitVote(m, p, approved) ==
  /\ State(p) = "Voting"
  /\ votingStarts[p] < now
  /\ base[p][m] > 0
  /\ <<m, p>> \notin memberVoted
  /\ memberVoted' = memberVoted \union {<<m, p>>}
  /\ proposals' = [proposals EXCEPT ![p] = Tallied(@, approved, base[p][m])]
  /\ UNCHANGED <<shareVars, proposalCount, latestSponsoredProposalId, config>>

\* A plausible slip: a proposal may be cancelled until it is processed.
MayCancelLate(m, p) ==
  /\ State(p) \in {"Voting", "Grace", "Ready"}
  /\ \/ m \in proposals[p].sponsor
     \/ \E s \in proposals[p].sponsor : before[s] < config.threshold

\* The checks of cancelProposal, called by m: during voting, the sponsor, or
\* anyone when the sponsor's votes one second ago were below the threshold.
\* The DAO has no governor shaman.
MayCancel(m, p) ==
  /\ State(p) = "Voting"
  /\ \/ m \in proposals[p].sponsor
     \/ \E s \in proposals[p].sponsor : before[s] < config.threshold

CancelProposal(m, p) ==
  /\ MayCancel(m, p)
  /\ proposals' = [proposals EXCEPT ![p] = [@ EXCEPT !.cancelled = TRUE]]
  /\ UNCHANGED <<shareVars, proposalCount, memberVoted, latestSponsoredProposalId, config>>

---------------------------------------------------------------------------
(* Processing *)

\* A plausible slip, and the rule of upstream Baal: retention measured on the
\* net supply, which deposits made during voting hide exits from.
RetainedNet(p, exited) ==
  TotalShares * 100 >= config.minRetention * SupplyAtStart(p)

\* The retention rule of processProposal.
Retained(p, exited) ==
  exited * 100 <= (100 - config.minRetention) * SupplyAtStart(p)

\* okToExecute
OkToExecute(p, exited) ==
  LET prop == proposals[p]
  IN  /\ prop.expiration = 0 \/ now <= prop.expiration
      /\ prop.yesVotes * 100 >= config.quorum * prop.maxTotalSharesAtSponsor
      /\ Retained(p, exited)

\* setGovernanceConfig does not revert.
ConfigAccepted(c) ==
  /\ c.minRetention <= 100
  /\ config.threshold > 0 => c.threshold <= TotalShares

\* A plausible slip: the periods are stored as they come.
ConfiguredLiteral(c) == c

\* setGovernanceConfig: a period of zero keeps the old one.
Configured(c) == [c EXCEPT !.voting = IF @ = 0 THEN config.voting ELSE @,
                           !.grace = IF @ = 0 THEN config.grace ELSE @]

ActionSucceeds(action) ==
  \/ action.kind = "other"
  \/ action.kind = "config" /\ ConfigAccepted(action.config)

\* A plausible slip: a failing action reverts the processing transaction.
ExecuteOrRevert(p, exited) ==
  LET ok == OkToExecute(p, exited)
  IN  /\ ok => ActionSucceeds(proposals[p].action)
      /\ proposals' = [proposals EXCEPT ![p] = [@ EXCEPT !.processed = TRUE, !.passed = ok]]
      /\ config' = IF ok /\ proposals[p].action.kind = "config"
                   THEN Configured(proposals[p].action.config) ELSE config

\* A plausible slip: what a failing action did so far stays.
ExecutePartial(p, exited) ==
  LET ok == OkToExecute(p, exited)
      done == ok /\ ActionSucceeds(proposals[p].action)
  IN  /\ proposals' = [proposals EXCEPT ![p] =
           [@ EXCEPT !.processed = TRUE, !.passed = ok, !.actionFailed = ok /\ ~done]]
      /\ config' = IF ok /\ proposals[p].action.kind = "config"
                   THEN Configured(proposals[p].action.config) ELSE config

\* The verdict, the flags, and the action if the verdict is yes.  The action
\* takes effect as a whole or not at all.
Execute(p, exited) ==
  LET ok == OkToExecute(p, exited)
      done == ok /\ ActionSucceeds(proposals[p].action)
  IN  /\ proposals' = [proposals EXCEPT ![p] =
           [@ EXCEPT !.processed = TRUE, !.passed = ok, !.actionFailed = ok /\ ~done]]
      /\ config' = IF done /\ proposals[p].action.kind = "config"
                   THEN Configured(proposals[p].action.config) ELSE config

\* A plausible slip: the queue is not looked at.
MayProcessAnytime(p) == State(p) = "Ready"

\* processProposal gets past its checks of the state and of the queue.
MayProcess(p) == State(p) = "Ready" /\ PrevEnded(p)

\* processProposal: refused while retention is not settled up to this moment.
ProcessProposal(p) ==
  /\ MayProcess(p)
  /\ answer[p] # Unsettled
  /\ Execute(p, answer[p])
  /\ UNCHANGED <<shareVars, proposalCount, memberVoted, latestSponsoredProposalId>>

\* The last chunk of settleRetention and processProposal in one transaction.
SettleAndProcess(p) ==
  /\ MayProcess(p)
  /\ Settle(p)
  /\ Execute(p, Deficit(p))
  /\ UNCHANGED <<proposalCount, memberVoted, latestSponsoredProposalId>>

---------------------------------------------------------------------------
(* The token, seen from Baal *)

SettleRetention(p) == Settle(p) /\ UNCHANGED baalVars

\* mintShares by a manager shaman: a deposit or a reward.
MintShares(m, amount) ==
  /\ TotalShares + amount <= MaxSupply
  /\ SetBalance(m, balanceOf[m] + amount)
  /\ UNCHANGED baalVars

\* ragequit of shares; ragequit(0, 0) returns at once.
Ragequit(m, amount) ==
  /\ amount <= balanceOf[m]
  /\ SetBalance(m, balanceOf[m] - amount)
  /\ UNCHANGED baalVars

Tick == NextSecond /\ UNCHANGED baalVars

---------------------------------------------------------------------------
\* After setUp, which minted Genesis in an earlier second.
GovInit ==
  /\ now = 1
  /\ balanceOf = Genesis
  /\ before = Genesis
  /\ votingStarts = [p \in Proposals |-> 0]
  /\ base = [p \in Proposals |-> [m \in Members |-> 0]]
  /\ answer = [p \in Proposals |-> Unsettled]
  /\ proposalCount = 0
  /\ proposals = [p \in Proposals |-> Submission(0, [kind |-> "other"])]
  /\ memberVoted = {}
  /\ latestSponsoredProposalId = 0
  /\ config = InitialConfig

GovNext ==
  \/ \E m \in Members, expiration \in Expirations, action \in Actions :
       SubmitUnsponsored(m, expiration, action) \/ SubmitSponsored(m, expiration, action)
  \/ \E m \in Members, p \in Proposals :
       \/ SponsorProposal(m, p)
       \/ CancelProposal(m, p)
       \/ \E approved \in BOOLEAN : SubmitVote(m, p, approved)
  \/ \E p \in Proposals : SettleRetention(p) \/ ProcessProposal(p) \/ SettleAndProcess(p)
  \/ \E m \in Members, amount \in Amounts : MintShares(m, amount) \/ Ragequit(m, amount)
  \/ Tick

GovSpec == GovInit /\ [][GovNext]_govVars

\* Blocks keep coming, and whoever wants a proposal executed settles and
\* processes it, in one transaction if balances keep changing.
Fairness ==
  /\ WF_govVars(Tick)
  /\ \A p \in Proposals : WF_govVars(ProcessProposal(p) \/ SettleAndProcess(p))

FairGovSpec == GovSpec /\ Fairness

---------------------------------------------------------------------------
(* Properties *)

ProposalRecords ==
  [prevProposalId: Proposals \union {0}, votingEnds: Nat, graceEnds: Nat,
   expiration: Expirations \union {0}, action: Actions \union {[kind |-> "other"]},
   yesVotes: Nat, noVotes: Nat, maxTotalSharesAtSponsor: Nat, sponsor: SUBSET Members,
   cancelled: BOOLEAN, processed: BOOLEAN, passed: BOOLEAN, actionFailed: BOOLEAN]

\* The configuration in force is one the rules can be computed with: a voted
\* period of zero never becomes a period, and retention stays a percentage
\* (Baal.setGovernanceConfig).  The type invariant.
GovTypeOK ==
  /\ now \in 1..MaxNow
  /\ balanceOf \in [Members -> Nat] /\ before \in [Members -> Nat]
  /\ votingStarts \in [Proposals -> 0..MaxNow]
  /\ base \in [Proposals -> [Members -> Nat]]
  /\ answer \in [Proposals -> {Unsettled} \union Nat]
  /\ proposalCount \in Proposals \union {0}
  /\ proposals \in [Proposals -> ProposalRecords]
  /\ memberVoted \in SUBSET (Members \X Proposals)
  /\ latestSponsoredProposalId \in Proposals \union {0}
  /\ config \in ConfigRecords

Voters(p) == {m \in Members : <<m, p>> \in memberVoted}

\* The tally is what the voters held when the sponsorship second ended, each
\* counted once, whatever was minted, ragequit or bought since; so it never
\* exceeds the supply retention is measured against (Baal._submitVote).
TallyExact ==
  \A p \in Proposals :
    /\ proposals[p].yesVotes + proposals[p].noVotes
         = MapThenSumSet(LAMBDA m : base[p][m], Voters(p))
    /\ Voters(p) # {} => votingStarts[p] # 0 /\ votingStarts[p] < now

\* p and every proposal before it in the queue.
QueueUpTo[p \in 0..Cardinality(Proposals)] ==
  IF p = 0 THEN {} ELSE {p} \union QueueUpTo[proposals[p].prevProposalId]

\* The queue is one line without forks: from its tail every sponsored proposal
\* is reached, in whatever order proposals were submitted and sponsored, so
\* none is skipped and none waits for ever (Baal.latestSponsoredProposalId,
\* prevProposalId).
QueueComplete ==
  QueueUpTo[latestSponsoredProposalId] = {p \in Proposals : votingStarts[p] # 0}

\* No proposal is processed before the one sponsored just before it has ended,
\* and an ended one never comes back (Baal.processProposal, prev!processed).
NeverOvertakesPrev ==
  \A p \in Proposals : proposals[p].processed => PrevEnded(p)

\* A proposal passes only if, at that moment, no more than the tolerated share
\* of the shares its sponsorship second ended with is gone from the members
\* that held them (DESIGN.md "the other nodes disagreed with their feet"):
\* shares minted to others in the meantime do not make up for an exit, and an
\* exit after the last settlement counts (Baal.processProposal).
PassedMeansRetained ==
  [][\A p \in Proposals :
       ~proposals[p].passed /\ proposals[p].passed' =>
         100 * Deficit(p) <= (100 - config.minRetention) * SupplyAtStart(p)]_govVars

\* The governance parameters change only by a proposal that was Ready, passed
\* in that very step and did not fail, and only to what was voted: a rejected
\* or failed configuration leaves no trace (Baal.processProposal,
\* processActionProposal, setGovernanceConfig).
ConfigOnlyByPassedProposal ==
  [][config' # config =>
       \E p \in Proposals :
         /\ State(p) = "Ready" /\ ~proposals[p].passed
         /\ proposals[p].passed' /\ ~proposals[p].actionFailed'
         /\ proposals[p].action.kind = "config"
         /\ config' = Configured(proposals[p].action.config)]_govVars

Lifecycle == INSTANCE ProposalLifecycle WITH status <- [p \in Proposals |-> State(p)]

\* A proposal lives as the diagram of Baal.sol draws it: no late vote or cancel,
\* no clock tick and no change of the configuration takes it out of a final
\* status or skips one, although the status is computed anew at every read.
LifecycleKept == Lifecycle!LifeSpec

\* Every sponsored proposal ends: the queue never jams, be it on an action
\* that fails, on an expired or rejected proposal, or on balances that change
\* between settlement and processing (Baal.processProposal).
EveryProposalEnds ==
  \A p \in Proposals : State(p) = "Voting" ~> Ended(p)

---------------------------------------------------------------------------
(* What the documentation says and the code does not do *)

\* decision.md: "Baal executes in sponsorship order", so that a proposal takes
\* effect "only after every proposal sponsored before it has ended".  The code
\* looks at the one proposal sponsored just before, and a cancelled or defeated
\* one counts as ended whatever is still open before it
\* (Baal.processProposal).
ExecutesInSponsorshipOrder ==
  [][\A p \in Proposals :
       ~proposals[p].passed /\ proposals[p].passed' =>
         \A q \in QueueUpTo[p] \ {p} : Ended(q)]_govVars

\* Baal.sol: cancellable "if sponsor has fallen below threshold".  The code asks
\* for the sponsor's votes one second ago, which a member that joined in this
\* very second did not have yet (Baal.cancelProposal).
CancelledBySponsorOrFallen ==
  \A p \in Proposals, m \in Members :
    MayCancel(m, p) => \E s \in proposals[p].sponsor : m = s \/ balanceOf[s] < config.threshold
=============================================================================
