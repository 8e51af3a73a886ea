------------------------- MODULE BaalGovernance_proofs -------------------------
(***************************************************************************)
(* The inductive invariant of the governance and what follows from it, for *)
(* every set of members and proposals, every configuration, genesis and    *)
(* voted action.  Steps with the same effect are taken together (Kinds):   *)
(* a submission without sponsor, the start of a vote, a vote, a            *)
(* cancellation, processing, settling, a move of balances, a tick.  For    *)
(* each there is a lemma of what it changes (BeginsFacts, VoteFacts, ...), *)
(* and for each part of the invariant a lemma that every step keeps it.    *)
(*                                                                         *)
(* The last part is about the index the relay keeps of the chain's events  *)
(* (ChainIndex), and the answers it gives from it.                         *)
(***************************************************************************)
EXTENDS BaalGovernance, ChainIndex, SumFacts

---------------------------------------------------------------------------
(* The inductive invariant *)

\* A proposal nobody sponsored is blank; one that is sponsored was submitted,
\* and its two deadlines lie after its start, in order.
DeadlinesInv ==
  \A p \in Proposals :
    LET prop == proposals[p]
    IN  IF votingStarts[p] = 0
        THEN /\ Voters(p) = {} /\ prop.prevProposalId = 0
             /\ prop.yesVotes = 0 /\ prop.noVotes = 0
             /\ ~prop.cancelled /\ ~prop.processed /\ ~prop.passed
        ELSE /\ p <= proposalCount /\ votingStarts[p] <= now
             /\ votingStarts[p] < prop.votingEnds /\ prop.votingEnds < prop.graceEnds

\* A processed proposal won its vote, was not cancelled, and its grace is over.
OutcomesInv ==
  \A p \in Proposals :
    LET prop == proposals[p]
    IN  /\ prop.processed => /\ ~prop.cancelled /\ prop.graceEnds < now
                             /\ prop.noVotes < prop.yesVotes
        /\ prop.passed => prop.processed

\* The queue links sponsored proposals.
LinksInv ==
  /\ latestSponsoredProposalId # 0 => votingStarts[latestSponsoredProposalId] # 0
  /\ \A p \in Proposals : proposals[p].prevProposalId # 0 =>
       votingStarts[proposals[p].prevProposalId] # 0

\* line lists the sponsored proposals in the order they were sponsored in.
IsLine(k, line) ==
  /\ \A i, j \in 1..k : line[i] = line[j] => i = j
  /\ \A p \in Proposals : votingStarts[p] # 0 <=> \E i \in 1..k : line[i] = p
  /\ \A i \in 1..k : proposals[line[i]].prevProposalId = IF i = 1 THEN 0 ELSE line[i - 1]
  /\ latestSponsoredProposalId = IF k = 0 THEN 0 ELSE line[k]

QueueLine == \E k \in 0..Cardinality(Proposals) : \E line \in [1..k -> Proposals] : IsLine(k, line)

\* An answer about retention is the exact deficit of this moment.
AnswersExact == \A p \in Proposals : answer[p] # Unsettled => answer[p] = Deficit(p)

IInv ==
  /\ GovTypeOK
  /\ DeadlinesInv
  /\ OutcomesInv
  /\ LinksInv
  /\ QueueLine
  /\ NeverOvertakesPrev
  /\ TallyExact
  /\ AnswersExact

---------------------------------------------------------------------------
\* The ids are 1, 2, ...; 0 is none of them.
LEMMA Ids ==
  /\ Cardinality(Proposals) \in Nat
  /\ \A p \in Proposals : p \in Nat /\ p # 0
  /\ 0 \notin Proposals
<1>1. Cardinality(Proposals) \in Nat
  BY ProposalsAssumption, FS_CardinalityType
<1> QED
  BY <1>1, ProposalsAssumption

\* What submitProposal writes is a proposal.
LEMMA SubmissionType ==
  ASSUME NEW expiration \in Expirations, NEW action \in Actions
  PROVE  Submission(expiration, action) \in ProposalRecords
BY InputsAssumption DEF Submission, ProposalRecords

\* So is what sponsorship writes.
LEMMA SponsorType ==
  ASSUME GovTypeOK, NEW prop \in ProposalRecords, NEW m \in Members, TotalShares \in Nat
  PROVE  WithSponsor(prop, m) \in ProposalRecords
<1>1. /\ now \in Nat /\ config.voting \in Nat /\ config.grace \in Nat
      /\ latestSponsoredProposalId \in Proposals \union {0}
  BY TimesAssumption DEF GovTypeOK, ConfigRecords
<1> DEFINE v == now + config.voting
           g == now + config.voting + config.grace
           t == TotalShares
           l == latestSponsoredProposalId
<1>2. v \in Nat /\ g \in Nat /\ t \in Nat /\ {m} \in SUBSET Members
      /\ l \in Proposals \union {0}
  BY <1>1
<1>3. WithSponsor(prop, m) =
        [prop EXCEPT !.prevProposalId = l, !.votingEnds = v, !.graceEnds = g,
                     !.maxTotalSharesAtSponsor = t, !.sponsor = {m}]
  BY DEF WithSponsor
<1> HIDE DEF v, g, t, l
<1> QED
  BY <1>2, <1>3 DEF ProposalRecords

\* And what processing writes.
LEMMA ExecuteType ==
  ASSUME NEW prop \in ProposalRecords, NEW ok \in BOOLEAN, NEW f \in BOOLEAN
  PROVE  [prop EXCEPT !.processed = TRUE, !.passed = ok, !.actionFailed = f] \in ProposalRecords
BY DEF ProposalRecords

\* And what a vote and a cancellation write.
LEMMA VoteType ==
  ASSUME NEW prop \in ProposalRecords, NEW w \in Nat
  PROVE  /\ [prop EXCEPT !.yesVotes = @ + w] \in ProposalRecords
         /\ [prop EXCEPT !.noVotes = @ + w] \in ProposalRecords
         /\ [prop EXCEPT !.cancelled = TRUE] \in ProposalRecords
<1> DEFINE yes == prop.yesVotes + w
           no == prop.noVotes + w
<1>1. yes \in Nat /\ no \in Nat
  BY DEF ProposalRecords
<1> HIDE DEF yes, no
<1>2. [prop EXCEPT !.yesVotes = yes] \in ProposalRecords
  BY <1>1 DEF ProposalRecords
<1>3. [prop EXCEPT !.noVotes = no] \in ProposalRecords
  BY <1>1 DEF ProposalRecords
<1>4. [prop EXCEPT !.cancelled = TRUE] \in ProposalRecords
  BY DEF ProposalRecords
<1> QED
  BY <1>2, <1>3, <1>4 DEF yes, no

---------------------------------------------------------------------------
(* Sums *)

\* The supply is a natural.
LEMMA TotalSharesType ==
  ASSUME balanceOf \in [Members -> Nat]
  PROVE  TotalShares \in Nat
<1>1. TotalShares = Sum(balanceOf, Members)
  BY SumFold DEF TotalShares
<1> QED
  BY <1>1, SumNat, MembersAssumption

\* The deficit is the sum of what the members lost.
LEMMA DeficitIsSum == \A p \in Proposals : Deficit(p) = Sum(Lost(p), Members)
BY SumFold DEF Deficit

\* The deficit is a natural.
LEMMA DeficitType ==
  ASSUME GovTypeOK, NEW p \in Proposals
  PROVE  Deficit(p) \in Nat
<1>1. \A m \in Members : Lost(p)[m] \in Nat
  <2> SUFFICES ASSUME NEW m \in Members PROVE Lost(p)[m] \in Nat
    OBVIOUS
  <2>1. base[p][m] \in Nat /\ balanceOf[m] \in Nat
    BY DEF GovTypeOK
  <2> QED
    BY <2>1 DEF Lost
<1> QED
  BY <1>1, SumNat, DeficitIsSum, MembersAssumption

---------------------------------------------------------------------------
(* What the steps change.  Steps with the same effect are taken together. *)

Blank(prop) ==
  /\ prop \in ProposalRecords
  /\ prop.prevProposalId = 0 /\ prop.yesVotes = 0 /\ prop.noVotes = 0
  /\ ~prop.cancelled /\ ~prop.processed /\ ~prop.passed

\* m sponsors p, which had the fields of prop.
Begins(m, p, prop) ==
  /\ Blank(prop)
  /\ proposals' = [proposals EXCEPT ![p] = WithSponsor(prop, m)]
  /\ latestSponsoredProposalId' = p
  /\ Register(p)
  /\ p \in 1..proposalCount' /\ proposalCount' \in Proposals
  /\ \/ proposalCount' = proposalCount
     \/ proposalCount' = proposalCount + 1 /\ p = proposalCount'
  /\ UNCHANGED <<memberVoted, config>>

\* A mint or a ragequit.
Moves(m, new) == SetBalance(m, new) /\ UNCHANGED baalVars

\* p is processed with the exact deficit.
Processes(p) ==
  /\ MayProcess(p)
  /\ Execute(p, Deficit(p))
  /\ UNCHANGED <<now, balanceOf, before, votingStarts, base,
                 proposalCount, memberVoted, latestSponsoredProposalId>>
  /\ answer' \in {answer, [answer EXCEPT ![p] = Deficit(p)]}

Untouched(q) == proposals'[q] = proposals[q] /\ votingStarts'[q] = votingStarts[q]

\* Every step is of one of these kinds.
LEMMA Kinds ==
  ASSUME IInv, [GovNext]_govVars
  PROVE  \/ \E m \in Members, expiration \in Expirations, action \in Actions :
              SubmitUnsponsored(m, expiration, action)
         \/ \E m \in Members, p \in Proposals, prop \in ProposalRecords : Begins(m, p, prop)
         \/ \E m \in Members, p \in Proposals, approved \in BOOLEAN : SubmitVote(m, p, approved)
         \/ \E m \in Members, p \in Proposals : CancelProposal(m, p)
         \/ \E p \in Proposals : SettleRetention(p)
         \/ \E p \in Proposals : Processes(p)
         \/ \E m \in Members, new \in Nat : Moves(m, new)
         \/ Tick
         \/ UNCHANGED govVars
<1> USE Ids
<1>1. ASSUME NEW m \in Members, NEW expiration \in Expirations, NEW action \in Actions,
             SubmitSponsored(m, expiration, action)
      PROVE  \E p \in Proposals, prop \in ProposalRecords : Begins(m, p, prop)
  <2> DEFINE p == proposalCount + 1
             prop == Submission(expiration, action)
  <2>1. prop \in ProposalRecords
    BY SubmissionType
  <2>2. Blank(prop)
    BY <2>1 DEF Blank, Submission
  <2>3. proposalCount \in Nat /\ p \in Proposals
    BY <1>1, ProposalsAssumption DEF SubmitSponsored, IInv, GovTypeOK
  <2>4. Begins(m, p, prop)
    BY <1>1, <2>2, <2>3 DEF SubmitSponsored, Begins
  <2> QED
    BY <2>1, <2>3, <2>4
<1>2. ASSUME NEW m \in Members, NEW p \in Proposals, SponsorProposal(m, p)
      PROVE  \E prop \in ProposalRecords : Begins(m, p, prop)
  <2>1. /\ proposals[p] \in ProposalRecords /\ proposals \in [Proposals -> ProposalRecords]
        /\ proposalCount \in Proposals \union {0}
    BY DEF IInv, GovTypeOK
  <2>2. p \in 1..proposalCount /\ votingStarts[p] = 0
    BY <1>2 DEF SponsorProposal, State
  <2>3. Blank(proposals[p])
    BY <2>1, <2>2 DEF IInv, DeadlinesInv, Blank
  <2>4. proposalCount \in Proposals
    BY <2>1, <2>2
  <2>5. Begins(m, p, proposals[p])
    <3>1. proposals' = [proposals EXCEPT ![p] = WithSponsor(proposals[p], m)]
      BY <1>2 DEF SponsorProposal
    <3>2. /\ proposalCount' = proposalCount /\ latestSponsoredProposalId' = p /\ Register(p)
          /\ UNCHANGED <<memberVoted, config>>
      BY <1>2 DEF SponsorProposal
    <3> QED
      BY <2>2, <2>3, <2>4, <3>1, <3>2 DEF Begins
  <2> QED
    BY <2>1, <2>5
<1>3. ASSUME NEW p \in Proposals, ProcessProposal(p) PROVE Processes(p)
  BY <1>3 DEF ProcessProposal, Processes, shareVars, IInv, AnswersExact
<1>4. ASSUME NEW p \in Proposals, SettleAndProcess(p) PROVE Processes(p)
  BY <1>4 DEF SettleAndProcess, Processes, Settle
<1>5. ASSUME NEW m \in Members, NEW amount \in Amounts, MintShares(m, amount)
      PROVE  \E new \in Nat : Moves(m, new)
  <2>1. balanceOf[m] + amount \in Nat
    BY InputsAssumption DEF IInv, GovTypeOK
  <2> QED
    BY <1>5, <2>1 DEF MintShares, Moves
<1>6. ASSUME NEW m \in Members, NEW amount \in Amounts, Ragequit(m, amount)
      PROVE  \E new \in Nat : Moves(m, new)
  <2>1. balanceOf[m] - amount \in Nat
    BY <1>6, InputsAssumption DEF IInv, GovTypeOK, Ragequit
  <2> QED
    BY <1>6, <2>1 DEF Ragequit, Moves
<1> QED
  BY <1>1, <1>2, <1>3, <1>4, <1>5, <1>6 DEF GovNext

\* What the start of a vote changes (submitProposal by a sponsor, sponsorProposal).
LEMMA BeginsFacts ==
  ASSUME IInv, NEW m \in Members, NEW p \in Proposals, NEW prop, Begins(m, p, prop)
  PROVE  /\ proposals' \in [Proposals -> ProposalRecords]
         /\ votingStarts[p] = 0 /\ votingStarts'[p] = now
         /\ \A q \in Proposals : q # p =>
              Untouched(q) /\ base'[q] = base[q] /\ answer'[q] = answer[q]
         /\ base'[p] = balanceOf /\ answer'[p] = 0
         /\ proposals'[p].prevProposalId = latestSponsoredProposalId
         /\ proposals'[p].votingEnds = now + config.voting
         /\ proposals'[p].graceEnds = now + config.voting + config.grace
         /\ proposals'[p].yesVotes = 0 /\ proposals'[p].noVotes = 0
         /\ ~proposals'[p].cancelled /\ ~proposals'[p].processed /\ ~proposals'[p].passed
         /\ now' = now
<1>1. /\ proposals \in [Proposals -> ProposalRecords] /\ votingStarts \in [Proposals -> 0..MaxNow]
      /\ base \in [Proposals -> [Members -> Nat]] /\ prop \in ProposalRecords
      /\ answer \in [Proposals -> {Unsettled} \union Nat]
  BY DEF IInv, GovTypeOK, Begins, Blank
<1>2. WithSponsor(prop, m) \in ProposalRecords
  BY <1>1, SponsorType, TotalSharesType DEF IInv, GovTypeOK
<1>3. proposals'[p] = WithSponsor(prop, m) /\ proposals' \in [Proposals -> ProposalRecords]
  BY <1>1, <1>2 DEF Begins
<1>4. \A q \in Proposals : q # p =>
              Untouched(q) /\ base'[q] = base[q] /\ answer'[q] = answer[q]
  BY <1>1 DEF Begins, Untouched, Register
<1>5. /\ proposals'[p].prevProposalId = latestSponsoredProposalId
      /\ proposals'[p].votingEnds = now + config.voting
      /\ proposals'[p].graceEnds = now + config.voting + config.grace
      /\ proposals'[p].yesVotes = 0 /\ proposals'[p].noVotes = 0
      /\ ~proposals'[p].cancelled /\ ~proposals'[p].processed /\ ~proposals'[p].passed
  BY <1>1, <1>3 DEF Begins, Blank, WithSponsor, ProposalRecords
<1> QED
  BY <1>1, <1>3, <1>4, <1>5 DEF Begins, Register

\* The fields a vote, a cancellation and processing leave alone.
SamePlace(p) ==
  /\ votingStarts'[p] = votingStarts[p]
  /\ proposals'[p].prevProposalId = proposals[p].prevProposalId
  /\ proposals'[p].votingEnds = proposals[p].votingEnds
  /\ proposals'[p].graceEnds = proposals[p].graceEnds

\* What a submission that waits for a sponsor changes.
LEMMA SubmitFacts ==
  ASSUME IInv, NEW m \in Members, NEW expiration \in Expirations, NEW action \in Actions,
         SubmitUnsponsored(m, expiration, action), NEW p, p = proposalCount + 1
  PROVE  /\ p \in Proposals /\ p = proposalCount' /\ votingStarts[p] = 0
         /\ proposals' \in [Proposals -> ProposalRecords]
         /\ \A q \in Proposals : q # p => Untouched(q)
         /\ votingStarts' = votingStarts /\ now' = now
         /\ Blank(proposals'[p])
<1>1. /\ proposals \in [Proposals -> ProposalRecords] /\ votingStarts \in [Proposals -> 0..MaxNow]
      /\ proposalCount \in Nat /\ p \in Proposals
  BY Ids, ProposalsAssumption DEF IInv, GovTypeOK, SubmitUnsponsored
<1>2. Submission(expiration, action) \in ProposalRecords
  BY SubmissionType
<1>3. votingStarts[p] = 0
  BY <1>1 DEF IInv, DeadlinesInv
<1>4. proposals' \in [Proposals -> ProposalRecords] /\ proposals'[p] = Submission(expiration, action)
      /\ \A q \in Proposals : q # p => Untouched(q)
  BY <1>1, <1>2 DEF SubmitUnsponsored, Untouched, shareVars
<1>5. Blank(Submission(expiration, action))
  BY <1>2 DEF Blank, Submission
<1> QED
  BY <1>1, <1>3, <1>4, <1>5 DEF SubmitUnsponsored, shareVars

\* What a vote changes.
LEMMA VoteFacts ==
  ASSUME IInv, NEW m \in Members, NEW p \in Proposals, NEW approved \in BOOLEAN,
         SubmitVote(m, p, approved)
  PROVE  /\ proposals' \in [Proposals -> ProposalRecords]
         /\ \A q \in Proposals : q # p => Untouched(q)
         /\ SamePlace(p)
         /\ proposals'[p].yesVotes + proposals'[p].noVotes
              = proposals[p].yesVotes + proposals[p].noVotes + base[p][m]
         /\ proposals'[p].cancelled = proposals[p].cancelled
         /\ proposals'[p].processed = proposals[p].processed
         /\ proposals'[p].passed = proposals[p].passed
<1> DEFINE prop == proposals[p]
           w == base[p][m]
<1>1. /\ proposals \in [Proposals -> ProposalRecords] /\ votingStarts \in [Proposals -> 0..MaxNow]
      /\ w \in Nat /\ prop \in ProposalRecords
  BY DEF IInv, GovTypeOK
<1>2. prop.yesVotes \in Nat /\ prop.noVotes \in Nat
  BY <1>1 DEF ProposalRecords
<1>3. /\ [prop EXCEPT !.yesVotes = @ + w] \in ProposalRecords
      /\ [prop EXCEPT !.noVotes = @ + w] \in ProposalRecords
  BY <1>1, VoteType
<1>4. proposals' = [proposals EXCEPT ![p] = IF approved THEN [prop EXCEPT !.yesVotes = @ + w]
                                            ELSE [prop EXCEPT !.noVotes = @ + w]]
  BY DEF SubmitVote, Tallied
<1> HIDE DEF prop, w
<1>5. proposals'[p] = IF approved THEN [prop EXCEPT !.yesVotes = @ + w]
                      ELSE [prop EXCEPT !.noVotes = @ + w]
  BY <1>1, <1>4
<1>6. CASE approved
  <2>1. /\ proposals'[p].yesVotes = prop.yesVotes + w /\ proposals'[p].noVotes = prop.noVotes
        /\ proposals'[p].prevProposalId = prop.prevProposalId
        /\ proposals'[p].votingEnds = prop.votingEnds /\ proposals'[p].graceEnds = prop.graceEnds
    BY <1>1, <1>5, <1>6 DEF ProposalRecords
  <2>2. /\ proposals'[p].cancelled = prop.cancelled /\ proposals'[p].processed = prop.processed
        /\ proposals'[p].passed = prop.passed
    BY <1>1, <1>5, <1>6 DEF ProposalRecords
  <2>3. proposals' \in [Proposals -> ProposalRecords] /\ \A q \in Proposals : q # p => Untouched(q)
    BY <1>1, <1>3, <1>4, <1>6 DEF SubmitVote, Untouched, shareVars
  <2>4. SamePlace(p)
    BY <2>1 DEF SamePlace, SubmitVote, shareVars, prop
  <2>5. proposals'[p].yesVotes + proposals'[p].noVotes = prop.yesVotes + prop.noVotes + w
    BY <1>1, <1>2, <2>1
  <2> QED
    BY <2>2, <2>3, <2>4, <2>5 DEF prop, w
<1>7. CASE ~approved
  <2>1. /\ proposals'[p].noVotes = prop.noVotes + w /\ proposals'[p].yesVotes = prop.yesVotes
        /\ proposals'[p].prevProposalId = prop.prevProposalId
        /\ proposals'[p].votingEnds = prop.votingEnds /\ proposals'[p].graceEnds = prop.graceEnds
    BY <1>1, <1>5, <1>7 DEF ProposalRecords
  <2>2. /\ proposals'[p].cancelled = prop.cancelled /\ proposals'[p].processed = prop.processed
        /\ proposals'[p].passed = prop.passed
    BY <1>1, <1>5, <1>7 DEF ProposalRecords
  <2>3. proposals' \in [Proposals -> ProposalRecords] /\ \A q \in Proposals : q # p => Untouched(q)
    BY <1>1, <1>3, <1>4, <1>7 DEF SubmitVote, Untouched, shareVars
  <2>4. SamePlace(p)
    BY <2>1 DEF SamePlace, SubmitVote, shareVars, prop
  <2>5. proposals'[p].yesVotes + proposals'[p].noVotes = prop.yesVotes + prop.noVotes + w
    BY <1>1, <1>2, <2>1
  <2> QED
    BY <2>2, <2>3, <2>4, <2>5 DEF prop, w
<1> QED
  BY <1>6, <1>7

\* What a cancellation changes.
LEMMA CancelFacts ==
  ASSUME IInv, NEW m \in Members, NEW p \in Proposals, CancelProposal(m, p)
  PROVE  /\ proposals' \in [Proposals -> ProposalRecords]
         /\ \A q \in Proposals : q # p => Untouched(q)
         /\ SamePlace(p)
         /\ proposals'[p].yesVotes = proposals[p].yesVotes
         /\ proposals'[p].noVotes = proposals[p].noVotes
         /\ proposals'[p].cancelled
         /\ proposals'[p].processed = proposals[p].processed
         /\ proposals'[p].passed = proposals[p].passed
<1>1. /\ proposals \in [Proposals -> ProposalRecords] /\ votingStarts \in [Proposals -> 0..MaxNow]
      /\ proposals[p] \in ProposalRecords
  BY DEF IInv, GovTypeOK
<1>2. [proposals[p] EXCEPT !.cancelled = TRUE] \in ProposalRecords
  BY <1>1, VoteType
<1>3. /\ proposals'[p] = [proposals[p] EXCEPT !.cancelled = TRUE]
      /\ proposals' \in [Proposals -> ProposalRecords]
      /\ \A q \in Proposals : q # p => Untouched(q)
  BY <1>1, <1>2 DEF CancelProposal, Untouched, shareVars
<1>4. /\ proposals'[p].yesVotes = proposals[p].yesVotes
      /\ proposals'[p].noVotes = proposals[p].noVotes
      /\ proposals'[p].cancelled
      /\ proposals'[p].processed = proposals[p].processed
      /\ proposals'[p].passed = proposals[p].passed
  BY <1>1, <1>3 DEF ProposalRecords
<1>5. SamePlace(p)
  BY <1>1, <1>3 DEF CancelProposal, shareVars, SamePlace, ProposalRecords
<1> QED
  BY <1>3, <1>4, <1>5

\* What processing changes.
LEMMA ProcessFacts ==
  ASSUME IInv, NEW p \in Proposals, Processes(p)
  PROVE  /\ proposals' \in [Proposals -> ProposalRecords]
         /\ \A q \in Proposals : q # p => Untouched(q)
         /\ SamePlace(p)
         /\ proposals'[p].yesVotes = proposals[p].yesVotes
         /\ proposals'[p].noVotes = proposals[p].noVotes
         /\ proposals'[p].cancelled = proposals[p].cancelled
         /\ proposals'[p].processed
         /\ proposals'[p].passed = OkToExecute(p, Deficit(p))
<1> DEFINE ok == OkToExecute(p, Deficit(p))
           done == ok /\ ActionSucceeds(proposals[p].action)
           new == [proposals[p] EXCEPT !.processed = TRUE, !.passed = ok,
                                       !.actionFailed = ok /\ ~done]
<1>1. /\ proposals \in [Proposals -> ProposalRecords] /\ votingStarts \in [Proposals -> 0..MaxNow]
      /\ proposals[p] \in ProposalRecords
  BY DEF IInv, GovTypeOK
<1>2. ok \in BOOLEAN /\ (ok /\ ~done) \in BOOLEAN
  BY DEF OkToExecute
<1>3. proposals' = [proposals EXCEPT ![p] = new]
  BY DEF Processes, Execute
<1> HIDE DEF ok, done
<1>4. new \in ProposalRecords
  BY <1>1, <1>2, ExecuteType
<1>5. /\ proposals'[p] = new
      /\ proposals' \in [Proposals -> ProposalRecords]
      /\ \A q \in Proposals : q # p => Untouched(q)
  BY <1>1, <1>3, <1>4 DEF Processes, Untouched
<1>6. /\ proposals'[p].yesVotes = proposals[p].yesVotes
      /\ proposals'[p].noVotes = proposals[p].noVotes
      /\ proposals'[p].cancelled = proposals[p].cancelled
      /\ proposals'[p].processed
      /\ proposals'[p].passed = ok
  BY <1>1, <1>5 DEF ProposalRecords
<1>7. SamePlace(p)
  BY <1>1, <1>5 DEF Processes, SamePlace, ProposalRecords
<1> QED
  BY <1>5, <1>6, <1>7 DEF ok
---------------------------------------------------------------------------
(* The life of a proposal *)

\* A status depends on the struct, the start of the vote and the second alone.
LEMMA StateKept ==
  ASSUME IInv, NEW q \in Proposals, Untouched(q), now' = now,
         q \in 1..proposalCount' <=> q \in 1..proposalCount
  PROVE  State(q)' = State(q)
BY DEF State, Untouched

\* The arrows of the life, written out.
LEMMA LifeArrows ==
  /\ Lifecycle!After("Unborn") = {"Submitted", "Voting"}
  /\ Lifecycle!After("Submitted") = {"Voting"}
  /\ Lifecycle!After("Voting") = {"Cancelled", "Grace"}
  /\ Lifecycle!After("Grace") = {"Ready", "Defeated"}
  /\ Lifecycle!After("Ready") = {"Processed"}
  /\ Lifecycle!After("Cancelled") = {}
  /\ Lifecycle!After("Defeated") = {}
  /\ Lifecycle!After("Processed") = {}
BY DEF Lifecycle!After, Lifecycle!Final

\* Every step moves every proposal along an arrow of the life, or leaves it.
LEMMA LifeStep ==
  ASSUME IInv, [GovNext]_govVars, NEW q \in Proposals
  PROVE  State(q)' = State(q) \/ State(q)' \in Lifecycle!After(State(q))
<1> USE Ids
<1>0. /\ now \in Nat /\ now # 0 /\ proposalCount \in Nat /\ q \in Nat /\ q # 0
      /\ votingStarts[q] \in Nat /\ proposals[q].votingEnds \in Nat /\ proposals[q].graceEnds \in Nat
  BY TimesAssumption DEF IInv, GovTypeOK, ProposalRecords
<1>1. ASSUME NEW m \in Members, NEW expiration \in Expirations, NEW action \in Actions,
             SubmitUnsponsored(m, expiration, action)
      PROVE  State(q)' = State(q) \/ State(q)' \in Lifecycle!After(State(q))
  <2> DEFINE p == proposalCount + 1
  <2>1. /\ p \in Proposals /\ p = proposalCount' /\ votingStarts[p] = 0
        /\ \A r \in Proposals : r # p => Untouched(r)
        /\ votingStarts' = votingStarts /\ now' = now
        /\ Blank(proposals'[p])
    BY <1>1, SubmitFacts
  <2>2. CASE q # p
    BY <1>0, <2>1, <2>2, StateKept
  <2>3. CASE q = p
    <3>1. State(q) = "Unborn"
      BY <1>0, <2>3 DEF State
    <3>2. State(q)' = "Submitted"
      BY <1>0, <2>1, <2>3 DEF State, Blank
    <3> QED
      BY <3>1, <3>2, LifeArrows
  <2> QED
    BY <2>2, <2>3
<1>2. ASSUME NEW m \in Members, NEW p \in Proposals, NEW prop \in ProposalRecords,
             Begins(m, p, prop)
      PROVE  State(q)' = State(q) \/ State(q)' \in Lifecycle!After(State(q))
  <2>1. /\ votingStarts[p] = 0 /\ votingStarts'[p] = now
        /\ \A r \in Proposals : r # p => Untouched(r)
        /\ proposals'[p].votingEnds = now + config.voting
        /\ ~proposals'[p].cancelled /\ now' = now
    BY <1>2, BeginsFacts
  <2>2. /\ p \in 1..proposalCount'
        /\ \/ proposalCount' = proposalCount
           \/ proposalCount' = proposalCount + 1 /\ p = proposalCount'
    BY <1>2 DEF Begins
  <2>3. CASE q # p
    BY <1>0, <2>1, <2>2, <2>3, StateKept
  <2>4. CASE q = p
    <3>1. State(q) \in {"Unborn", "Submitted"}
      BY <2>1, <2>4 DEF State, IInv, DeadlinesInv
    <3>2. config.voting \in Nat
      BY DEF IInv, GovTypeOK, ConfigRecords
    <3>3. State(q)' = "Voting"
      BY <1>0, <2>1, <2>2, <2>4, <3>2 DEF State
    <3> QED
      BY <3>1, <3>3, LifeArrows
  <2> QED
    BY <2>3, <2>4
<1>3. ASSUME NEW m \in Members, NEW p \in Proposals, NEW approved \in BOOLEAN,
             SubmitVote(m, p, approved)
      PROVE  State(q)' = State(q)
  <2>1. /\ \A r \in Proposals : r # p => Untouched(r)
        /\ SamePlace(p) /\ proposals'[p].cancelled = proposals[p].cancelled
    BY <1>3, VoteFacts
  <2>2. now' = now /\ proposalCount' = proposalCount /\ State(p) = "Voting"
    BY <1>3 DEF SubmitVote, shareVars
  <2>3. CASE q # p
    BY <2>1, <2>2, <2>3, StateKept
  <2>4. CASE q = p
    BY <1>0, <2>1, <2>2, <2>4 DEF State, SamePlace
  <2> QED
    BY <2>3, <2>4
<1>4. ASSUME NEW m \in Members, NEW p \in Proposals, CancelProposal(m, p)
      PROVE  State(q)' = State(q) \/ State(q)' \in Lifecycle!After(State(q))
  <2>1. /\ \A r \in Proposals : r # p => Untouched(r)
        /\ SamePlace(p) /\ proposals'[p].cancelled
    BY <1>4, CancelFacts
  <2>2. now' = now /\ proposalCount' = proposalCount /\ State(p) = "Voting"
    BY <1>4 DEF CancelProposal, MayCancel, shareVars
  <2>3. CASE q # p
    BY <2>1, <2>2, <2>3, StateKept
  <2>4. CASE q = p
    <3>1. State(q)' = "Cancelled"
      BY <2>1, <2>2, <2>4 DEF State
    <3> QED
      BY <3>1, <2>2, <2>4, LifeArrows
  <2> QED
    BY <2>3, <2>4
<1>5. ASSUME NEW p \in Proposals, SettleRetention(p)
      PROVE  State(q)' = State(q)
  BY <1>5, StateKept DEF SettleRetention, Settle, baalVars, Untouched
<1>6. ASSUME NEW p \in Proposals, Processes(p)
      PROVE  State(q)' = State(q) \/ State(q)' \in Lifecycle!After(State(q))
  <2>1. /\ \A r \in Proposals : r # p => Untouched(r)
        /\ SamePlace(p) /\ proposals'[p].cancelled = proposals[p].cancelled
        /\ proposals'[p].yesVotes = proposals[p].yesVotes
        /\ proposals'[p].noVotes = proposals[p].noVotes
        /\ proposals'[p].processed
    BY <1>6, ProcessFacts
  <2>2. now' = now /\ proposalCount' = proposalCount /\ State(p) = "Ready"
    BY <1>6 DEF Processes, MayProcess
  <2>3. CASE q # p
    BY <2>1, <2>2, <2>3, StateKept
  <2>4. CASE q = p
    <3>1. State(q)' = "Processed"
      BY <1>0, <2>1, <2>2, <2>4 DEF State, SamePlace
    <3> QED
      BY <3>1, <2>2, <2>4, LifeArrows
  <2> QED
    BY <2>3, <2>4
<1>7. ASSUME NEW m \in Members, NEW new \in Nat, Moves(m, new)
      PROVE  State(q)' = State(q)
  BY <1>7, StateKept DEF Moves, SetBalance, baalVars, Untouched
<1>8. CASE Tick
  <2>1. now' = now + 1 /\ Untouched(q) /\ proposalCount' = proposalCount
    BY <1>8 DEF Tick, NextSecond, baalVars, Untouched
  <2>2. votingStarts[q] # 0 => proposals[q].votingEnds < proposals[q].graceEnds
    BY DEF IInv, DeadlinesInv
  <2>3. proposals[q].processed => proposals[q].graceEnds < now
    BY DEF IInv, OutcomesInv
  <2>4. CASE q \notin 1..proposalCount \/ proposals[q].cancelled \/ votingStarts[q] = 0
    BY <2>1, <2>4 DEF State, Untouched
  <2>5. CASE q \in 1..proposalCount /\ ~proposals[q].cancelled /\ votingStarts[q] # 0
    <3>1. CASE now <= proposals[q].votingEnds
      <4>1. State(q) = "Voting"
        BY <2>5, <3>1 DEF State
      <4>2. State(q)' = "Voting" \/ State(q)' = "Grace"
        BY <1>0, <2>1, <2>2, <2>5, <3>1 DEF State, Untouched
      <4> QED
        BY <4>1, <4>2, LifeArrows
    <3>2. CASE ~(now <= proposals[q].votingEnds) /\ now <= proposals[q].graceEnds
      <4>1. State(q) = "Grace"
        BY <2>5, <3>2 DEF State
      <4>2. ~proposals[q].processed
        BY <1>0, <2>3, <3>2
      <4>3. State(q)' \in {"Grace", "Ready", "Defeated"}
        BY <1>0, <2>1, <2>5, <3>2, <4>2 DEF State, Untouched
      <4> QED
        BY <4>1, <4>3, LifeArrows
    <3>3. CASE ~(now <= proposals[q].votingEnds) /\ ~(now <= proposals[q].graceEnds)
      <4>1. State(q)' = State(q)
        BY <1>0, <2>1, <2>5, <3>3 DEF State, Untouched
      <4> QED
        BY <4>1
    <3> QED
      BY <3>1, <3>2, <3>3
  <2> QED
    BY <2>4, <2>5
<1>9. CASE UNCHANGED govVars
  BY <1>9, StateKept DEF govVars, shareVars, baalVars, Untouched
<1> QED
  BY <1>1, <1>2, <1>3, <1>4, <1>5, <1>6, <1>7, <1>8, <1>9, Kinds
---------------------------------------------------------------------------
(* The parts of the invariant, one lemma each *)

\* Every step keeps the types.
LEMMA TypeStep ==
  ASSUME IInv, [GovNext]_govVars
  PROVE  GovTypeOK'
<1> USE Ids
<1>0. /\ GovTypeOK /\ MaxNow \in Nat
      /\ now \in 1..MaxNow
      /\ balanceOf \in [Members -> Nat] /\ before \in [Members -> Nat]
      /\ votingStarts \in [Proposals -> 0..MaxNow]
      /\ base \in [Proposals -> [Members -> Nat]]
      /\ answer \in [Proposals -> {Unsettled} \union Nat]
      /\ config \in ConfigRecords
  BY TimesAssumption DEF IInv, GovTypeOK
<1>1. ASSUME NEW m \in Members, NEW expiration \in Expirations, NEW action \in Actions,
             SubmitUnsponsored(m, expiration, action)
      PROVE  GovTypeOK'
  <2>1. proposalCount' \in Proposals /\ proposals' \in [Proposals -> ProposalRecords]
    BY <1>1, SubmitFacts
  <2> QED
    BY <1>0, <1>1, <2>1 DEF SubmitUnsponsored, shareVars, GovTypeOK
<1>2. ASSUME NEW m \in Members, NEW p \in Proposals, NEW prop \in ProposalRecords,
             Begins(m, p, prop)
      PROVE  GovTypeOK'
  <2>1. proposals' \in [Proposals -> ProposalRecords]
    BY <1>2, BeginsFacts
  <2>2. votingStarts' \in [Proposals -> 0..MaxNow] /\ base' \in [Proposals -> [Members -> Nat]]
        /\ answer' \in [Proposals -> {Unsettled} \union Nat]
    BY <1>0, <1>2 DEF Begins, Register
  <2> QED
    BY <1>0, <1>2, <2>1, <2>2 DEF Begins, Register, GovTypeOK
<1>3. ASSUME NEW m \in Members, NEW p \in Proposals, NEW approved \in BOOLEAN,
             SubmitVote(m, p, approved)
      PROVE  GovTypeOK'
  <2>1. proposals' \in [Proposals -> ProposalRecords]
    BY <1>3, VoteFacts
  <2>2. memberVoted' \in SUBSET (Members \X Proposals)
    BY <1>0, <1>3 DEF SubmitVote, GovTypeOK
  <2> QED
    BY <1>0, <1>3, <2>1, <2>2 DEF SubmitVote, shareVars, GovTypeOK
<1>4. ASSUME NEW m \in Members, NEW p \in Proposals, CancelProposal(m, p)
      PROVE  GovTypeOK'
  <2>1. proposals' \in [Proposals -> ProposalRecords]
    BY <1>4, CancelFacts
  <2> QED
    BY <1>0, <1>4, <2>1 DEF CancelProposal, shareVars, GovTypeOK
<1>5. ASSUME NEW p \in Proposals, SettleRetention(p)
      PROVE  GovTypeOK'
  <2>1. answer' \in [Proposals -> {Unsettled} \union Nat]
    BY <1>0, <1>5, DeficitType DEF SettleRetention, Settle
  <2> QED
    BY <1>0, <1>5, <2>1 DEF SettleRetention, Settle, baalVars, GovTypeOK
<1>6. ASSUME NEW p \in Proposals, Processes(p)
      PROVE  GovTypeOK'
  <2>1. proposals' \in [Proposals -> ProposalRecords]
    BY <1>6, ProcessFacts
  <2>2. answer' \in [Proposals -> {Unsettled} \union Nat]
    BY <1>0, <1>6, DeficitType DEF Processes
  <2>3. config' \in ConfigRecords
    <3> DEFINE c == proposals[p].action.config
    <3>1. CASE config' = config
      BY <1>0, <3>1
    <3>2. CASE config' # config
      <4>1. /\ proposals[p].action.kind = "config" /\ config' = Configured(c)
            /\ ActionSucceeds(proposals[p].action)
        BY <1>6, <3>2 DEF Processes, Execute
      <4>2. proposals[p].action \in Actions \union {[kind |-> "other"]}
        BY <1>0 DEF GovTypeOK, ProposalRecords
      <4>3. proposals[p].action \in Actions
        BY <4>1, <4>2
      <4>4. c \in [voting: Nat, grace: Nat, quorum: Nat, threshold: Nat, minRetention: Nat]
        BY <4>1, <4>3, InputsAssumption
      <4>5. c.minRetention <= 100
        BY <4>1 DEF ActionSucceeds, ConfigAccepted
      <4> HIDE DEF c
      <4>6. Configured(c) \in ConfigRecords
        <5> DEFINE v == IF c.voting = 0 THEN config.voting ELSE c.voting
                   g == IF c.grace = 0 THEN config.grace ELSE c.grace
        <5>0. /\ c.voting \in Nat /\ c.grace \in Nat /\ c.minRetention \in 0..100
              /\ config.voting \in Nat \ {0} /\ config.grace \in Nat \ {0}
          <6>1. config.voting \in Nat \ {0} /\ config.grace \in Nat \ {0}
            BY <1>0 DEF ConfigRecords
          <6> QED
            BY <4>4, <4>5, <6>1
        <5>1. v \in Nat \ {0} /\ g \in Nat \ {0} /\ c.minRetention \in 0..100
          BY <5>0
        <5>2. Configured(c) = [c EXCEPT !.voting = v, !.grace = g]
          BY DEF Configured
        <5> HIDE DEF v, g
        <5> QED
          BY <4>4, <5>1, <5>2 DEF ConfigRecords
      <4> QED
        BY <4>1, <4>6
    <3> QED
      BY <3>1, <3>2
  <2> QED
    BY <1>0, <1>6, <2>1, <2>2, <2>3 DEF Processes, GovTypeOK
<1>7. ASSUME NEW m \in Members, NEW new \in Nat, Moves(m, new)
      PROVE  GovTypeOK'
  <2>1. balanceOf' \in [Members -> Nat]
    BY <1>0, <1>7 DEF Moves, SetBalance
  <2>2. base' \in [Proposals -> [Members -> Nat]]
    BY <1>0, <1>7 DEF Moves, SetBalance
  <2>3. answer' \in [Proposals -> {Unsettled} \union Nat]
    BY <1>0, <1>7 DEF Moves, SetBalance
  <2> QED
    BY <1>0, <1>7, <2>1, <2>2, <2>3 DEF Moves, SetBalance, baalVars, GovTypeOK
<1>8. CASE Tick
  BY <1>0, <1>8 DEF Tick, NextSecond, baalVars, GovTypeOK
<1>9. CASE UNCHANGED govVars
  BY <1>0, <1>9 DEF govVars, shareVars, baalVars, GovTypeOK
<1> QED
  BY <1>1, <1>2, <1>3, <1>4, <1>5, <1>6, <1>7, <1>8, <1>9, Kinds

\* Of what a step leaves alone: everything about the queue.
\* A step that does not touch the queue.
SameLinks ==
  /\ votingStarts' = votingStarts /\ latestSponsoredProposalId' = latestSponsoredProposalId
  /\ \A q \in Proposals : proposals'[q].prevProposalId = proposals[q].prevProposalId

\* Only the start of a vote touches it.
LEMMA LinksChange ==
  ASSUME IInv, [GovNext]_govVars
  PROVE  \/ SameLinks
         \/ \E m \in Members, p \in Proposals, prop \in ProposalRecords : Begins(m, p, prop)
<1>1. ASSUME NEW m \in Members, NEW expiration \in Expirations, NEW action \in Actions,
             SubmitUnsponsored(m, expiration, action)
      PROVE  SameLinks
  <2> DEFINE p == proposalCount + 1
  <2>1. /\ p \in Proposals /\ votingStarts[p] = 0 /\ votingStarts' = votingStarts
        /\ \A q \in Proposals : q # p => Untouched(q)
        /\ Blank(proposals'[p])
    BY <1>1, SubmitFacts
  <2>2. proposals[p].prevProposalId = 0
    BY <2>1 DEF IInv, DeadlinesInv
  <2> QED
    BY <1>1, <2>1, <2>2 DEF SubmitUnsponsored, SameLinks, Untouched, Blank
<1>2. ASSUME NEW m \in Members, NEW p \in Proposals, NEW approved \in BOOLEAN,
             SubmitVote(m, p, approved)
      PROVE  SameLinks
  <2>1. SamePlace(p) /\ \A q \in Proposals : q # p => Untouched(q)
    BY <1>2, VoteFacts
  <2> QED
    BY <1>2, <2>1 DEF SubmitVote, shareVars, SameLinks, Untouched, SamePlace
<1>3. ASSUME NEW m \in Members, NEW p \in Proposals, CancelProposal(m, p)
      PROVE  SameLinks
  <2>1. SamePlace(p) /\ \A q \in Proposals : q # p => Untouched(q)
    BY <1>3, CancelFacts
  <2> QED
    BY <1>3, <2>1 DEF CancelProposal, shareVars, SameLinks, Untouched, SamePlace
<1>4. ASSUME NEW p \in Proposals, SettleRetention(p)
      PROVE  SameLinks
  BY <1>4 DEF SettleRetention, Settle, baalVars, SameLinks
<1>5. ASSUME NEW p \in Proposals, Processes(p)
      PROVE  SameLinks
  <2>1. SamePlace(p) /\ \A q \in Proposals : q # p => Untouched(q)
    BY <1>5, ProcessFacts
  <2> QED
    BY <1>5, <2>1 DEF Processes, SameLinks, Untouched, SamePlace
<1>6. ASSUME NEW m \in Members, NEW new \in Nat, Moves(m, new)
      PROVE  SameLinks
  BY <1>6 DEF Moves, SetBalance, baalVars, SameLinks
<1>7. CASE Tick
  BY <1>7 DEF Tick, NextSecond, baalVars, SameLinks
<1>8. CASE UNCHANGED govVars
  BY <1>8 DEF govVars, shareVars, baalVars, SameLinks
<1> QED
  BY <1>1, <1>2, <1>3, <1>4, <1>5, <1>6, <1>7, <1>8, Kinds

\* Every step keeps the links of the queue.
LEMMA LinksStep ==
  ASSUME IInv, [GovNext]_govVars
  PROVE  LinksInv'
<1> USE Ids
<1>0. /\ LinksInv /\ now # 0
      /\ \A q \in Proposals : proposals[q].prevProposalId \in Proposals \union {0}
      /\ latestSponsoredProposalId \in Proposals \union {0}
  BY DEF IInv, GovTypeOK, ProposalRecords
<1>1. CASE SameLinks
  BY <1>0, <1>1 DEF SameLinks, LinksInv
<1>2. ASSUME NEW m \in Members, NEW p \in Proposals, NEW prop \in ProposalRecords,
             Begins(m, p, prop)
      PROVE  LinksInv'
  <2>1. /\ votingStarts'[p] = now /\ \A q \in Proposals : q # p => Untouched(q)
        /\ proposals'[p].prevProposalId = latestSponsoredProposalId
    BY <1>2, BeginsFacts
  <2>2. \A q \in Proposals : votingStarts[q] # 0 => votingStarts'[q] # 0
    BY <1>0, <2>1 DEF Untouched
  <2>3. latestSponsoredProposalId' = p
    BY <1>2 DEF Begins
  <2>4. ASSUME NEW q \in Proposals, proposals'[q].prevProposalId # 0
        PROVE  votingStarts'[proposals'[q].prevProposalId] # 0
    <3>1. CASE q = p
      BY <1>0, <2>1, <2>2, <2>4, <3>1 DEF LinksInv
    <3>2. CASE q # p
      BY <1>0, <2>1, <2>2, <2>4, <3>2 DEF LinksInv, Untouched
    <3> QED
      BY <3>1, <3>2
  <2> QED
    BY <1>0, <2>1, <2>3, <2>4 DEF LinksInv
<1> QED
  BY <1>1, <1>2, LinksChange

\* Every step keeps the queue one line: the start of a vote appends to it.
LEMMA QueueLineStep ==
  ASSUME IInv, [GovNext]_govVars
  PROVE  QueueLine'
<1> USE Ids
<1>0. PICK k \in 0..Cardinality(Proposals) : \E line \in [1..k -> Proposals] : IsLine(k, line)
  BY DEF IInv, QueueLine
<1>00. PICK line \in [1..k -> Proposals] : IsLine(k, line)
  BY <1>0
<1>1. CASE SameLinks
  <2>1. IsLine(k, line)'
    BY <1>00, <1>1 DEF SameLinks, IsLine
  <2> QED
    BY <2>1 DEF QueueLine
<1>2. ASSUME NEW m \in Members, NEW p \in Proposals, NEW prop \in ProposalRecords,
             Begins(m, p, prop)
      PROVE  QueueLine'
  <2> DEFINE new == [i \in 1..(k + 1) |-> IF i = k + 1 THEN p ELSE line[i]]
  <2>0. now # 0
    BY DEF IInv, GovTypeOK
  <2>1. /\ votingStarts[p] = 0 /\ votingStarts'[p] = now /\ now # 0
        /\ \A q \in Proposals : q # p => Untouched(q)
        /\ proposals'[p].prevProposalId = latestSponsoredProposalId
    BY <1>2, <2>0, BeginsFacts
  <2>2. latestSponsoredProposalId' = p
    BY <1>2 DEF Begins
  <2>3. k \in Nat /\ \A i \in 1..k : line[i] \in Proposals /\ line[i] # p
    <3>1. k \in Nat /\ \A i \in 1..k : line[i] \in Proposals
      OBVIOUS
    <3>2. ASSUME NEW i \in 1..k PROVE line[i] # p
      <4>1. votingStarts[line[i]] # 0
        BY <1>00, <3>1 DEF IsLine
      <4> QED
        BY <2>1, <4>1
    <3> QED
      BY <3>1, <3>2
  <2>4. /\ new \in [1..(k + 1) -> Proposals] /\ new[k + 1] = p
        /\ \A i \in 1..k : i \in 1..(k + 1) /\ i # k + 1 /\ new[i] = line[i]
        /\ \A i \in 1..(k + 1) : i = k + 1 \/ i \in 1..k
        /\ k + 1 \in 1..(k + 1)
    BY <2>3
  <2> HIDE DEF new
  <2>5. \A i, j \in 1..(k + 1) : new[i] = new[j] => i = j
    <3>1. \A i, j \in 1..k : line[i] = line[j] => i = j
      BY <1>00 DEF IsLine
    <3> QED
      BY <2>3, <2>4, <3>1
  <2>6. \A q \in Proposals : votingStarts'[q] # 0 <=> \E i \in 1..(k + 1) : new[i] = q
    <3> SUFFICES ASSUME NEW q \in Proposals
                 PROVE  votingStarts'[q] # 0 <=> \E i \in 1..(k + 1) : new[i] = q
      OBVIOUS
    <3>1. CASE q = p
      BY <2>1, <2>4, <3>1
    <3>2. CASE q # p
      <4>1. votingStarts'[q] = votingStarts[q]
        BY <2>1, <3>2 DEF Untouched
      <4>2. votingStarts[q] # 0 <=> \E i \in 1..k : line[i] = q
        BY <1>00 DEF IsLine
      <4> QED
        BY <2>4, <3>2, <4>1, <4>2
    <3> QED
      BY <3>1, <3>2
  <2>7. \A i \in 1..(k + 1) :
          proposals'[new[i]].prevProposalId = IF i = 1 THEN 0 ELSE new[i - 1]
    <3> SUFFICES ASSUME NEW i \in 1..(k + 1)
                 PROVE  proposals'[new[i]].prevProposalId = IF i = 1 THEN 0 ELSE new[i - 1]
      OBVIOUS
    <3>1. CASE i = k + 1
      <4>1. latestSponsoredProposalId = IF k = 0 THEN 0 ELSE line[k]
        BY <1>00 DEF IsLine
      <4>2. k # 0 => new[k] = line[k] /\ (k + 1) - 1 = k
        BY <2>3, <2>4
      <4> QED
        BY <2>1, <2>3, <2>4, <3>1, <4>1, <4>2
    <3>2. CASE i # k + 1
      <4>1. i \in 1..k /\ new[i] = line[i] /\ line[i] # p /\ line[i] \in Proposals
        BY <2>3, <2>4, <3>2
      <4>2. proposals'[line[i]].prevProposalId = IF i = 1 THEN 0 ELSE line[i - 1]
        BY <1>00, <2>1, <4>1 DEF IsLine, Untouched
      <4>3. i # 1 => i - 1 \in 1..k
        BY <2>3, <4>1
      <4> QED
        BY <2>4, <4>1, <4>2, <4>3
    <3> QED
      BY <3>1, <3>2
  <2>8. k + 1 \in 0..Cardinality(Proposals)
    <3>1. IsFiniteSet(1..(k + 1)) /\ Cardinality(1..(k + 1)) = k + 1
      BY <2>3, FS_Interval
    <3>2. new \in Injection(1..(k + 1), Proposals)
      BY <2>4, <2>5 DEF Injection, IsInjective
    <3>3. k + 1 <= Cardinality(Proposals)
      BY <3>1, <3>2, FS_Injection, ProposalsAssumption
    <3> QED
      BY <2>3, <3>3
  <2>9. IsLine(k + 1, new)'
    <3>1. latestSponsoredProposalId' = IF k + 1 = 0 THEN 0 ELSE new[k + 1]
      BY <2>2, <2>3, <2>4
    <3> QED
      BY <2>5, <2>6, <2>7, <3>1 DEF IsLine
  <2> QED
    BY <2>4, <2>8, <2>9 DEF QueueLine
<1> QED
  BY <1>1, <1>2, LinksChange

\* Every step keeps the deadlines in order.
LEMMA DeadlinesStep ==
  ASSUME IInv, [GovNext]_govVars
  PROVE  DeadlinesInv'
<1> USE Ids
<1>0. /\ DeadlinesInv /\ now \in Nat /\ now # 0 /\ proposalCount \in Nat
      /\ config.voting \in Nat \ {0} /\ config.grace \in Nat \ {0}
      /\ votingStarts \in [Proposals -> 0..MaxNow] /\ MaxNow \in Nat
  BY TimesAssumption DEF IInv, GovTypeOK, ConfigRecords
<1> DEFINE Kept(q) ==
      LET prop == proposals[q]
      IN  IF votingStarts[q] = 0
          THEN /\ Voters(q) = {} /\ prop.prevProposalId = 0
               /\ prop.yesVotes = 0 /\ prop.noVotes = 0
               /\ ~prop.cancelled /\ ~prop.processed /\ ~prop.passed
          ELSE /\ q <= proposalCount /\ votingStarts[q] <= now
               /\ votingStarts[q] < prop.votingEnds /\ prop.votingEnds < prop.graceEnds
<1>00. ASSUME NEW q \in Proposals, Untouched(q), Voters(q)' = Voters(q),
              proposalCount' \in Nat, proposalCount' >= proposalCount,
              now' \in Nat, now' >= now
       PROVE  Kept(q)'
  BY <1>0, <1>00 DEF DeadlinesInv, Untouched
<1>1. ASSUME NEW m \in Members, NEW expiration \in Expirations, NEW action \in Actions,
             SubmitUnsponsored(m, expiration, action)
      PROVE  DeadlinesInv'
  <2>0. PICK p : p = proposalCount + 1
    OBVIOUS
  <2>1. /\ p \in Proposals /\ p = proposalCount' /\ votingStarts[p] = 0
        /\ \A q \in Proposals : q # p => Untouched(q)
        /\ votingStarts' = votingStarts /\ now' = now
        /\ Blank(proposals'[p])
    BY <1>1, <2>0, SubmitFacts
  <2>2. \A q \in Proposals : Voters(q)' = Voters(q)
    BY <1>1 DEF SubmitUnsponsored, Voters
  <2>3. \A q \in Proposals : q # p => Kept(q)'
    <3> HIDE DEF Kept
    <3> QED
      BY <1>0, <1>00, <2>0, <2>1, <2>2
  <2>4. Kept(p)'
    BY <1>0, <2>1, <2>2 DEF DeadlinesInv, Blank
  <2> HIDE DEF Kept
  <2>5. \A q \in Proposals : Kept(q)'
    BY <2>3, <2>4
  <2> QED
    BY <2>5 DEF DeadlinesInv, Kept
<1>2. ASSUME NEW m \in Members, NEW p \in Proposals, NEW prop \in ProposalRecords,
             Begins(m, p, prop)
      PROVE  DeadlinesInv'
  <2>1. /\ votingStarts[p] = 0 /\ votingStarts'[p] = now
        /\ \A q \in Proposals : q # p => Untouched(q)
        /\ proposals'[p].votingEnds = now + config.voting
        /\ proposals'[p].graceEnds = now + config.voting + config.grace
        /\ now' = now
    BY <1>2, BeginsFacts
  <2>2. p <= proposalCount' /\ proposalCount' \in Nat /\ proposalCount' >= proposalCount
    BY <1>0, <1>2 DEF Begins
  <2>3. \A q \in Proposals : Voters(q)' = Voters(q)
    BY <1>2 DEF Begins, Voters
  <2>4. \A q \in Proposals : q # p => Kept(q)'
    <3> HIDE DEF Kept
    <3> QED
      BY <1>0, <1>00, <2>1, <2>2, <2>3
  <2>5. Kept(p)'
    BY <1>0, <2>1, <2>2
  <2> HIDE DEF Kept
  <2>6. \A q \in Proposals : Kept(q)'
    BY <2>4, <2>5
  <2> QED
    BY <2>6 DEF DeadlinesInv, Kept
<1>3. ASSUME NEW m \in Members, NEW p \in Proposals, NEW approved \in BOOLEAN,
             SubmitVote(m, p, approved)
      PROVE  DeadlinesInv'
  <2>1. /\ \A q \in Proposals : q # p => Untouched(q)
        /\ SamePlace(p)
    BY <1>3, VoteFacts
  <2>2. /\ State(p) = "Voting" /\ proposalCount' = proposalCount /\ now' = now
        /\ memberVoted' = memberVoted \union {<<m, p>>}
    BY <1>3 DEF SubmitVote, shareVars
  <2>3. votingStarts[p] # 0
    BY <2>2 DEF State
  <2>4. \A q \in Proposals : q # p => Kept(q)'
    <3>1. \A q \in Proposals : q # p => Voters(q)' = Voters(q)
      BY <2>2 DEF Voters
    <3> HIDE DEF Kept
    <3> QED
      BY <1>0, <1>00, <2>1, <2>2, <3>1
  <2>5. Kept(p)'
    BY <1>0, <2>1, <2>2, <2>3 DEF DeadlinesInv, SamePlace
  <2> HIDE DEF Kept
  <2>6. \A q \in Proposals : Kept(q)'
    BY <2>4, <2>5
  <2> QED
    BY <2>6 DEF DeadlinesInv, Kept
<1>4. ASSUME NEW p \in Proposals, votingStarts[p] # 0,
             \A q \in Proposals : q # p => Untouched(q), SamePlace(p),
             memberVoted' = memberVoted, proposalCount' = proposalCount, now' = now
      PROVE  DeadlinesInv'
  <2>1. \A q \in Proposals : Voters(q)' = Voters(q)
    BY <1>4 DEF Voters
  <2>2. \A q \in Proposals : q # p => Kept(q)'
    <3> HIDE DEF Kept
    <3> QED
      BY <1>0, <1>00, <1>4, <2>1
  <2>3. Kept(p)'
    BY <1>0, <1>4 DEF DeadlinesInv, SamePlace
  <2> HIDE DEF Kept
  <2>4. \A q \in Proposals : Kept(q)'
    BY <2>2, <2>3
  <2> QED
    BY <2>4 DEF DeadlinesInv, Kept
<1>5. ASSUME NEW m \in Members, NEW p \in Proposals, CancelProposal(m, p)
      PROVE  DeadlinesInv'
  <2>1. votingStarts[p] # 0
    BY <1>5 DEF CancelProposal, MayCancel, State
  <2> QED
    BY <1>4, <1>5, <2>1, CancelFacts DEF CancelProposal, shareVars
<1>6. ASSUME NEW p \in Proposals, Processes(p)
      PROVE  DeadlinesInv'
  <2>1. votingStarts[p] # 0
    BY <1>6 DEF Processes, MayProcess, State
  <2> QED
    BY <1>4, <1>6, <2>1, ProcessFacts DEF Processes
<1>7. ASSUME UNCHANGED <<votingStarts, baalVars>>, now' \in Nat, now' >= now
      PROVE  DeadlinesInv'
  <2>1. \A q \in Proposals : Voters(q)' = Voters(q) /\ Untouched(q)
    BY <1>7 DEF Voters, Untouched, baalVars
  <2> HIDE DEF Kept
  <2>2. \A q \in Proposals : Kept(q)'
    BY <1>0, <1>00, <1>7, <2>1 DEF baalVars
  <2> QED
    BY <2>2 DEF DeadlinesInv, Kept
<1>8. ASSUME NEW p \in Proposals, SettleRetention(p)
      PROVE  DeadlinesInv'
  BY <1>0, <1>7, <1>8 DEF SettleRetention, Settle
<1>9. ASSUME NEW m \in Members, NEW new \in Nat, Moves(m, new)
      PROVE  DeadlinesInv'
  BY <1>0, <1>7, <1>9 DEF Moves, SetBalance
<1>10. CASE Tick
  BY <1>0, <1>7, <1>10 DEF Tick, NextSecond
<1>11. CASE UNCHANGED govVars
  BY <1>0, <1>7, <1>11 DEF govVars, shareVars
<1> QED
  BY <1>1, <1>2, <1>3, <1>5, <1>6, <1>8, <1>9, <1>10, <1>11, Kinds

\* Every step keeps the conditions of the outcomes.
LEMMA OutcomesStep ==
  ASSUME IInv, [GovNext]_govVars
  PROVE  OutcomesInv'
<1> USE Ids
<1> DEFINE Kept(q) ==
      LET prop == proposals[q]
      IN  /\ prop.processed => /\ ~prop.cancelled /\ prop.graceEnds < now
                               /\ prop.noVotes < prop.yesVotes
          /\ prop.passed => prop.processed
<1>0. /\ OutcomesInv /\ now \in Nat
      /\ \A q \in Proposals : /\ proposals[q].graceEnds \in Nat /\ proposals[q].votingEnds \in Nat
                              /\ proposals[q].yesVotes \in Nat /\ proposals[q].noVotes \in Nat
  BY DEF IInv, GovTypeOK, ProposalRecords
<1>00. ASSUME NEW q \in Proposals, proposals'[q] = proposals[q], now' \in Nat, now' >= now
       PROVE  Kept(q)'
  BY <1>0, <1>00 DEF OutcomesInv
<1>01. ASSUME NEW p \in Proposals, \A q \in Proposals : q # p => proposals'[q] = proposals[q],
              now' = now, Kept(p)'
       PROVE  OutcomesInv'
  <2> HIDE DEF Kept
  <2>1. \A q \in Proposals : Kept(q)'
    BY <1>0, <1>00, <1>01
  <2> QED
    BY <2>1 DEF OutcomesInv, Kept
<1>1. ASSUME NEW m \in Members, NEW expiration \in Expirations, NEW action \in Actions,
             SubmitUnsponsored(m, expiration, action)
      PROVE  OutcomesInv'
  <2>0. PICK p : p = proposalCount + 1
    OBVIOUS
  <2>1. /\ p \in Proposals /\ now' = now /\ Blank(proposals'[p])
        /\ \A q \in Proposals : q # p => proposals'[q] = proposals[q]
    BY <1>1, <2>0, SubmitFacts DEF Untouched
  <2>2. Kept(p)'
    BY <2>1 DEF Blank
  <2> HIDE DEF Kept
  <2> QED
    BY <1>01, <2>1, <2>2
<1>2. ASSUME NEW m \in Members, NEW p \in Proposals, NEW prop \in ProposalRecords,
             Begins(m, p, prop)
      PROVE  OutcomesInv'
  <2>1. /\ now' = now /\ ~proposals'[p].processed /\ ~proposals'[p].passed
        /\ \A q \in Proposals : q # p => proposals'[q] = proposals[q]
    BY <1>2, BeginsFacts DEF Untouched
  <2> QED
    BY <1>01, <2>1
<1>3. ASSUME NEW m \in Members, NEW p \in Proposals, NEW approved \in BOOLEAN,
             SubmitVote(m, p, approved)
      PROVE  OutcomesInv'
  <2>1. /\ \A q \in Proposals : q # p => proposals'[q] = proposals[q]
        /\ SamePlace(p)
        /\ proposals'[p].processed = proposals[p].processed
        /\ proposals'[p].passed = proposals[p].passed
    BY <1>3, VoteFacts DEF Untouched
  <2>2. State(p) = "Voting" /\ now' = now
    BY <1>3 DEF SubmitVote, shareVars
  <2>3. now <= proposals[p].votingEnds /\ votingStarts[p] # 0
    BY <2>2 DEF State
  <2>4. proposals[p].votingEnds < proposals[p].graceEnds
    BY <2>3 DEF IInv, DeadlinesInv
  <2>5. ~proposals[p].processed /\ ~proposals[p].passed
    BY <1>0, <2>3, <2>4 DEF OutcomesInv
  <2> QED
    BY <1>01, <2>1, <2>2, <2>5
<1>4. ASSUME NEW m \in Members, NEW p \in Proposals, CancelProposal(m, p)
      PROVE  OutcomesInv'
  <2>1. /\ \A q \in Proposals : q # p => proposals'[q] = proposals[q]
        /\ SamePlace(p)
        /\ proposals'[p].processed = proposals[p].processed
        /\ proposals'[p].passed = proposals[p].passed
    BY <1>4, CancelFacts DEF Untouched
  <2>2. State(p) = "Voting" /\ now' = now
    BY <1>4 DEF CancelProposal, MayCancel, shareVars
  <2>3. now <= proposals[p].votingEnds /\ votingStarts[p] # 0
    BY <2>2 DEF State
  <2>4. proposals[p].votingEnds < proposals[p].graceEnds
    BY <2>3 DEF IInv, DeadlinesInv
  <2>5. ~proposals[p].processed /\ ~proposals[p].passed
    BY <1>0, <2>3, <2>4 DEF OutcomesInv
  <2> QED
    BY <1>01, <2>1, <2>2, <2>5
<1>5. ASSUME NEW p \in Proposals, Processes(p)
      PROVE  OutcomesInv'
  <2>1. /\ \A q \in Proposals : q # p => proposals'[q] = proposals[q]
        /\ SamePlace(p)
        /\ proposals'[p].cancelled = proposals[p].cancelled
        /\ proposals'[p].yesVotes = proposals[p].yesVotes
        /\ proposals'[p].noVotes = proposals[p].noVotes
        /\ proposals'[p].processed
    BY <1>5, ProcessFacts DEF Untouched
  <2>2. State(p) = "Ready" /\ now' = now
    BY <1>5 DEF Processes, MayProcess
  <2>3. /\ ~proposals[p].cancelled /\ ~(now <= proposals[p].graceEnds)
        /\ ~(proposals[p].noVotes >= proposals[p].yesVotes)
    BY <2>2 DEF State
  <2>4. Kept(p)'
    BY <1>0, <2>1, <2>2, <2>3 DEF SamePlace
  <2> HIDE DEF Kept
  <2> QED
    BY <1>01, <2>1, <2>2, <2>4
<1>6. ASSUME proposals' = proposals, now' \in Nat, now' >= now
      PROVE  OutcomesInv'
  <2> HIDE DEF Kept
  <2>1. \A q \in Proposals : Kept(q)'
    BY <1>00, <1>6
  <2> QED
    BY <2>1 DEF OutcomesInv, Kept
<1>7. ASSUME NEW p \in Proposals, SettleRetention(p)
      PROVE  OutcomesInv'
  BY <1>0, <1>6, <1>7 DEF SettleRetention, Settle, baalVars
<1>8. ASSUME NEW m \in Members, NEW new \in Nat, Moves(m, new)
      PROVE  OutcomesInv'
  BY <1>0, <1>6, <1>8 DEF Moves, SetBalance, baalVars
<1>9. CASE Tick
  BY <1>0, <1>6, <1>9 DEF Tick, NextSecond, baalVars
<1>10. CASE UNCHANGED govVars
  BY <1>0, <1>6, <1>10 DEF govVars, shareVars, baalVars
<1> QED
  BY <1>1, <1>2, <1>3, <1>4, <1>5, <1>7, <1>8, <1>9, <1>10, Kinds

\* Ended proposals stay ended, so the test processing made stays true.
LEMMA OvertakesStep ==
  ASSUME IInv, [GovNext]_govVars
  PROVE  NeverOvertakesPrev'
<1> USE Ids
<1>0. /\ \A q \in Proposals : proposals[q].prevProposalId \in Proposals \union {0}
      /\ proposalCount \in Nat /\ NeverOvertakesPrev
  BY DEF IInv, GovTypeOK, ProposalRecords
<1>1. \A q \in Proposals : State(q) \in {"Processed", "Cancelled", "Defeated"} => State(q)' = State(q)
  <2> SUFFICES ASSUME NEW q \in Proposals, State(q) \in {"Processed", "Cancelled", "Defeated"}
               PROVE  State(q)' = State(q)
    OBVIOUS
  <2>1. State(q)' = State(q) \/ State(q)' \in Lifecycle!After(State(q))
    BY LifeStep
  <2>2. Lifecycle!After(State(q)) = {}
    BY LifeArrows
  <2> QED
    BY <2>1, <2>2
<1>2. \A p \in Proposals : proposals'[p].processed =>
         PrevEnded(p) /\ proposals'[p].prevProposalId = proposals[p].prevProposalId
  <2> SUFFICES ASSUME NEW p \in Proposals, proposals'[p].processed
               PROVE  PrevEnded(p) /\ proposals'[p].prevProposalId = proposals[p].prevProposalId
    OBVIOUS
  <2>0. proposals'[p] = proposals[p] =>
          PrevEnded(p) /\ proposals'[p].prevProposalId = proposals[p].prevProposalId
    BY <1>0 DEF NeverOvertakesPrev
  <2>1. ASSUME NEW m \in Members, NEW expiration \in Expirations, NEW action \in Actions,
               SubmitUnsponsored(m, expiration, action)
        PROVE  proposals'[p] = proposals[p]
    BY <2>1, SubmitFacts DEF Blank, Untouched
  <2>2. ASSUME NEW m \in Members, NEW q \in Proposals, NEW prop \in ProposalRecords,
               Begins(m, q, prop)
        PROVE  proposals'[p] = proposals[p]
    BY <2>2, BeginsFacts DEF Untouched
  <2>3. ASSUME NEW m \in Members, NEW q \in Proposals, NEW approved \in BOOLEAN,
               SubmitVote(m, q, approved)
        PROVE  PrevEnded(p) /\ proposals'[p].prevProposalId = proposals[p].prevProposalId
    <3>1. CASE p = q
      <4>1. SamePlace(p) /\ proposals'[p].processed = proposals[p].processed
        BY <2>3, <3>1, VoteFacts
      <4> QED
        BY <1>0, <4>1 DEF SamePlace, NeverOvertakesPrev
    <3>2. CASE p # q
      BY <2>0, <2>3, <3>2, VoteFacts DEF Untouched
    <3> QED
      BY <3>1, <3>2
  <2>4. ASSUME NEW m \in Members, NEW q \in Proposals, CancelProposal(m, q)
        PROVE  PrevEnded(p) /\ proposals'[p].prevProposalId = proposals[p].prevProposalId
    <3>1. CASE p = q
      <4>1. SamePlace(p) /\ proposals'[p].processed = proposals[p].processed
        BY <2>4, <3>1, CancelFacts
      <4> QED
        BY <1>0, <4>1 DEF SamePlace, NeverOvertakesPrev
    <3>2. CASE p # q
      BY <2>0, <2>4, <3>2, CancelFacts DEF Untouched
    <3> QED
      BY <3>1, <3>2
  <2>5. ASSUME NEW q \in Proposals, Processes(q)
        PROVE  PrevEnded(p) /\ proposals'[p].prevProposalId = proposals[p].prevProposalId
    <3>1. CASE p = q
      <4>1. SamePlace(p)
        BY <2>5, <3>1, ProcessFacts
      <4>2. PrevEnded(p)
        BY <2>5, <3>1 DEF Processes, MayProcess
      <4> QED
        BY <4>1, <4>2 DEF SamePlace
    <3>2. CASE p # q
      BY <2>0, <2>5, <3>2, ProcessFacts DEF Untouched
    <3> QED
      BY <3>1, <3>2
  <2>6. ASSUME NEW q \in Proposals, SettleRetention(q) PROVE proposals' = proposals
    BY <2>6 DEF SettleRetention, baalVars
  <2>7. ASSUME NEW m \in Members, NEW new \in Nat, Moves(m, new) PROVE proposals' = proposals
    BY <2>7 DEF Moves, baalVars
  <2>8. Tick \/ UNCHANGED govVars => proposals' = proposals
    BY DEF Tick, govVars, baalVars
  <2> QED
    BY <2>0, <2>1, <2>2, <2>3, <2>4, <2>5, <2>6, <2>7, <2>8, Kinds
<1>3. ASSUME NEW p \in Proposals, proposals'[p].processed
      PROVE  PrevEnded(p)'
  <2> DEFINE prev == proposals[p].prevProposalId
  <2>1. PrevEnded(p) /\ proposals'[p].prevProposalId = prev
    BY <1>2, <1>3
  <2>2. CASE prev = 0
    <3>1. proposals'[p].prevProposalId \notin 1..proposalCount'
      BY <2>1, <2>2
    <3> QED
      BY <3>1 DEF PrevEnded, State
  <2>3. CASE prev # 0
    <3>1. prev \in Proposals /\ votingStarts[prev] # 0
      BY <1>0, <2>3 DEF IInv, LinksInv
    <3>2. prev \in 1..proposalCount
      BY <1>0, <3>1 DEF IInv, DeadlinesInv
    <3>3. State(prev) # "Unborn"
      BY <3>2 DEF State
    <3>4. State(prev) \in {"Processed", "Cancelled", "Defeated"}
      BY <2>1, <3>3 DEF PrevEnded
    <3>5. PICK r \in Proposals : r = prev
      BY <3>1
    <3>6. State(r)' = State(r)
      BY <1>1, <3>4, <3>5
    <3> HIDE DEF prev
    <3> QED
      BY <2>1, <3>4, <3>5, <3>6 DEF PrevEnded
  <2> QED
    BY <2>2, <2>3
<1> QED
  BY <1>3 DEF NeverOvertakesPrev

\* TallyExact in terms of sums the lemmas speak of.
\* The tally of p, with its sum in the form of SumFacts.
Tally(p) ==
  /\ proposals[p].yesVotes + proposals[p].noVotes = Sum(base[p], Voters(p))
  /\ Voters(p) # {} => votingStarts[p] # 0 /\ votingStarts[p] < now

\* The tallies, with their sums in the form of SumFacts.
LEMMA TallyIsSum == TallyExact <=> \A p \in Proposals : Tally(p)
<1>1. \A p \in Proposals : MapThenSumSet(LAMBDA m : base[p][m], Voters(p)) = Sum(base[p], Voters(p))
  BY SumFold
<1> QED
  BY <1>1 DEF TallyExact, Tally

\* Every step keeps the tallies: a vote adds one summand, and no balance of a
\* sponsorship second changes once somebody has voted.
LEMMA TallyStep ==
  ASSUME IInv, [GovNext]_govVars
  PROVE  TallyExact'
<1> USE Ids
<1>0. /\ now \in Nat /\ now # 0 /\ MaxNow \in Nat
      /\ base \in [Proposals -> [Members -> Nat]]
      /\ memberVoted \in SUBSET (Members \X Proposals)
      /\ votingStarts \in [Proposals -> 0..MaxNow]
      /\ \A q \in Proposals : Tally(q)
  BY TallyIsSum, TimesAssumption DEF IInv, GovTypeOK
<1>00. SUFFICES \A q \in Proposals : Tally(q)'
  <2>1. (TallyExact <=> \A p \in Proposals : Tally(p))'
    BY TallyIsSum, PTL
  <2> QED
    BY <2>1
<1>1. ASSUME NEW q \in Proposals, Voters(q)' = Voters(q), votingStarts'[q] = votingStarts[q],
             proposals'[q].yesVotes + proposals'[q].noVotes
               = proposals[q].yesVotes + proposals[q].noVotes,
             Voters(q) = {} \/ base'[q] = base[q], now' \in Nat, now' >= now
      PROVE  Tally(q)'
  <2>1. Sum(base'[q], Voters(q)) = Sum(base[q], Voters(q))
    BY <1>1, SumEmpty
  <2> QED
    BY <1>0, <1>1, <2>1 DEF Tally
<1>2. ASSUME NEW m \in Members, NEW expiration \in Expirations, NEW action \in Actions,
             SubmitUnsponsored(m, expiration, action)
      PROVE  \A q \in Proposals : Tally(q)'
  <2>0. PICK p : p = proposalCount + 1
    OBVIOUS
  <2>1. /\ p \in Proposals /\ now' = now /\ Blank(proposals'[p]) /\ votingStarts[p] = 0
        /\ \A q \in Proposals : q # p => proposals'[q] = proposals[q]
    BY <1>2, <2>0, SubmitFacts DEF Untouched
  <2>2. proposals[p].yesVotes = 0 /\ proposals[p].noVotes = 0
    BY <2>1 DEF IInv, DeadlinesInv
  <2>3. \A q \in Proposals :
          proposals'[q].yesVotes + proposals'[q].noVotes
            = proposals[q].yesVotes + proposals[q].noVotes
    BY <2>1, <2>2 DEF Blank
  <2>4. \A q \in Proposals : Voters(q)' = Voters(q)
    BY <1>2 DEF SubmitUnsponsored, Voters
  <2>5. votingStarts' = votingStarts /\ base' = base
    BY <1>2 DEF SubmitUnsponsored, shareVars
  <2> QED
    BY <1>0, <1>1, <2>1, <2>3, <2>4, <2>5
<1>3. ASSUME NEW m \in Members, NEW p \in Proposals, NEW prop \in ProposalRecords,
             Begins(m, p, prop)
      PROVE  \A q \in Proposals : Tally(q)'
  <2>1. /\ now' = now /\ proposals'[p].yesVotes = 0 /\ proposals'[p].noVotes = 0
        /\ votingStarts[p] = 0
        /\ \A q \in Proposals : q # p => Untouched(q) /\ base'[q] = base[q]
    BY <1>3, BeginsFacts
  <2>2. \A q \in Proposals : Voters(q)' = Voters(q)
    BY <1>3 DEF Begins, Voters
  <2>3. Voters(p) = {}
    BY <2>1 DEF IInv, DeadlinesInv
  <2>4. Tally(p)'
    BY <2>1, <2>2, <2>3, SumEmpty DEF Tally
  <2>5. \A q \in Proposals : q # p => Tally(q)'
    BY <1>0, <1>1, <2>1, <2>2 DEF Untouched
  <2> QED
    BY <2>4, <2>5
<1>4. ASSUME NEW m \in Members, NEW p \in Proposals, NEW approved \in BOOLEAN,
             SubmitVote(m, p, approved)
      PROVE  \A q \in Proposals : Tally(q)'
  <2>1. /\ proposals'[p].yesVotes + proposals'[p].noVotes
             = proposals[p].yesVotes + proposals[p].noVotes + base[p][m]
        /\ SamePlace(p)
        /\ \A q \in Proposals : q # p => Untouched(q)
    BY <1>4, VoteFacts
  <2>2. /\ memberVoted' = memberVoted \union {<<m, p>>} /\ <<m, p>> \notin memberVoted
        /\ now' = now /\ base' = base /\ State(p) = "Voting" /\ votingStarts[p] < now
    BY <1>4 DEF SubmitVote, shareVars
  <2>3. \A q \in Proposals : q # p => Voters(q)' = Voters(q)
    BY <2>2 DEF Voters
  <2>4. Voters(p)' = Voters(p) \union {m} /\ m \notin Voters(p) /\ Voters(p) \subseteq Members
    BY <2>2 DEF Voters
  <2>5. IsFiniteSet(Voters(p)) /\ \A x \in Members : base[p][x] \in Int
    BY <1>0, <2>4, FS_Subset, MembersAssumption
  <2>6. Sum(base[p], Voters(p) \union {m}) = base[p][m] + Sum(base[p], Voters(p))
    BY <2>4, <2>5, SumAdd
  <2>7. Sum(base[p], Voters(p)) \in Int
    BY <2>4, <2>5, SumInt
  <2>8. Tally(p)'
    <3>1. proposals[p].yesVotes + proposals[p].noVotes = Sum(base[p], Voters(p))
      BY <1>0 DEF Tally
    <3>2. proposals'[p].yesVotes + proposals'[p].noVotes = Sum(base'[p], Voters(p)')
      BY <2>1, <2>2, <2>4, <2>5, <2>6, <2>7, <3>1
    <3>3. votingStarts'[p] # 0 /\ votingStarts'[p] < now'
      BY <2>1, <2>2 DEF State, SamePlace
    <3> QED
      BY <3>2, <3>3 DEF Tally
  <2>9. \A q \in Proposals : q # p => Tally(q)'
    BY <1>0, <1>1, <2>1, <2>2, <2>3 DEF Untouched
  <2> QED
    BY <2>8, <2>9
<1>5. ASSUME NEW m \in Members, NEW p \in Proposals, CancelProposal(m, p)
      PROVE  \A q \in Proposals : Tally(q)'
  <2>1. /\ proposals'[p].yesVotes = proposals[p].yesVotes
        /\ proposals'[p].noVotes = proposals[p].noVotes
        /\ SamePlace(p)
        /\ \A q \in Proposals : q # p => Untouched(q)
    BY <1>5, CancelFacts
  <2>2. now' = now /\ base' = base /\ \A q \in Proposals : Voters(q)' = Voters(q)
    BY <1>5 DEF CancelProposal, shareVars, Voters
  <2> QED
    BY <1>0, <1>1, <2>1, <2>2 DEF Untouched, SamePlace
<1>6. ASSUME NEW p \in Proposals, Processes(p)
      PROVE  \A q \in Proposals : Tally(q)'
  <2>1. /\ proposals'[p].yesVotes = proposals[p].yesVotes
        /\ proposals'[p].noVotes = proposals[p].noVotes
        /\ SamePlace(p)
        /\ \A q \in Proposals : q # p => Untouched(q)
    BY <1>6, ProcessFacts
  <2>2. now' = now /\ base' = base /\ \A q \in Proposals : Voters(q)' = Voters(q)
    BY <1>6 DEF Processes, Voters
  <2> QED
    BY <1>0, <1>1, <2>1, <2>2 DEF Untouched, SamePlace
<1>7. ASSUME NEW m \in Members, NEW new \in Nat, Moves(m, new)
      PROVE  \A q \in Proposals : Tally(q)'
  <2>1. /\ now' = now /\ votingStarts' = votingStarts /\ proposals' = proposals
        /\ \A q \in Proposals : Voters(q)' = Voters(q)
    BY <1>7 DEF Moves, SetBalance, baalVars, Voters
  <2>2. \A q \in Proposals : votingStarts[q] # now => base'[q] = base[q]
    BY <1>7 DEF Moves, SetBalance
  <2>3. \A q \in Proposals : Voters(q) # {} => votingStarts[q] # now
    BY <1>0 DEF Tally
  <2> QED
    BY <1>0, <1>1, <2>1, <2>2, <2>3
<1>8. ASSUME UNCHANGED <<votingStarts, proposals, memberVoted, base>>, now' \in Nat, now' >= now
      PROVE  \A q \in Proposals : Tally(q)'
  <2>1. \A q \in Proposals : Voters(q)' = Voters(q)
    BY <1>8 DEF Voters
  <2> QED
    BY <1>1, <1>8, <2>1
<1>9. ASSUME NEW p \in Proposals, SettleRetention(p)
      PROVE  \A q \in Proposals : Tally(q)'
  BY <1>0, <1>8, <1>9 DEF SettleRetention, Settle, baalVars
<1>10. CASE Tick
  BY <1>0, <1>8, <1>10 DEF Tick, NextSecond, baalVars
<1>11. CASE UNCHANGED govVars
  BY <1>0, <1>8, <1>11 DEF govVars, shareVars, baalVars
<1> QED
  BY <1>2, <1>3, <1>4, <1>5, <1>6, <1>7, <1>9, <1>10, <1>11, Kinds

\* The deficit depends on the baseline and the balances alone.
LEMMA DeficitKept ==
  ASSUME NEW q \in Proposals, base'[q] = base[q], balanceOf' = balanceOf
  PROVE  Deficit(q)' = Deficit(q)
<1>1. (\A p \in Proposals : Deficit(p) = Sum(Lost(p), Members))'
  BY DeficitIsSum, PTL
<1>2. Lost(q)' = Lost(q)
  BY DEF Lost
<1> QED
  BY <1>1, <1>2, DeficitIsSum

\* When a vote starts nobody has lost anything.
LEMMA DeficitBegins ==
  ASSUME NEW q \in Proposals, base'[q] = balanceOf', balanceOf' \in [Members -> Nat]
  PROVE  Deficit(q)' = 0
<1>1. (\A p \in Proposals : Deficit(p) = Sum(Lost(p), Members))'
  BY DeficitIsSum, PTL
<1>2. \A m \in Members : Lost(q)'[m] = 0
  BY DEF Lost
<1>3. Sum(Lost(q)', Members) = 0
  BY <1>2, SumZero, MembersAssumption
<1> QED
  BY <1>1, <1>3

\* Every step keeps the answers exact, by voiding them when balances move.
LEMMA AnswersStep ==
  ASSUME IInv, [GovNext]_govVars
  PROVE  AnswersExact'
<1>0. /\ AnswersExact /\ answer \in [Proposals -> {Unsettled} \union Nat]
      /\ balanceOf \in [Members -> Nat]
  BY DEF IInv, GovTypeOK
<1>1. ASSUME base' = base, balanceOf' = balanceOf,
             \A q \in Proposals : answer'[q] \in {answer[q], Deficit(q)}
      PROVE  AnswersExact'
  <2>1. \A q \in Proposals : Deficit(q)' = Deficit(q)
    BY <1>1, DeficitKept
  <2> QED
    BY <1>0, <1>1, <2>1 DEF AnswersExact
<1>2. ASSUME NEW m \in Members, NEW p \in Proposals, NEW prop \in ProposalRecords,
             Begins(m, p, prop)
      PROVE  AnswersExact'
  <2>1. /\ \A q \in Proposals : q # p => base'[q] = base[q] /\ answer'[q] = answer[q]
        /\ base'[p] = balanceOf /\ answer'[p] = 0
    BY <1>2, BeginsFacts
  <2>2. balanceOf' = balanceOf
    BY <1>2 DEF Begins, Register
  <2>3. \A q \in Proposals : q # p => Deficit(q)' = Deficit(q)
    BY <2>1, <2>2, DeficitKept
  <2>4. Deficit(p)' = 0
    BY <1>0, <2>1, <2>2, DeficitBegins
  <2> QED
    BY <1>0, <2>1, <2>3, <2>4 DEF AnswersExact
<1>3. ASSUME NEW m \in Members, NEW new \in Nat, Moves(m, new)
      PROVE  AnswersExact'
  BY <1>3 DEF Moves, SetBalance, AnswersExact
<1>4. ASSUME NEW p \in Proposals, SettleRetention(p)
      PROVE  AnswersExact'
  BY <1>0, <1>1, <1>4 DEF SettleRetention, Settle
<1>5. ASSUME NEW p \in Proposals, Processes(p)
      PROVE  AnswersExact'
  BY <1>0, <1>1, <1>5 DEF Processes
<1>6. ASSUME UNCHANGED <<base, balanceOf, answer>>
      PROVE  AnswersExact'
  BY <1>1, <1>6
<1>7. ASSUME NEW m \in Members, NEW expiration \in Expirations, NEW action \in Actions,
             SubmitUnsponsored(m, expiration, action)
      PROVE  AnswersExact'
  BY <1>6, <1>7 DEF SubmitUnsponsored, shareVars
<1>8. ASSUME NEW m \in Members, NEW p \in Proposals, NEW approved \in BOOLEAN,
             SubmitVote(m, p, approved)
      PROVE  AnswersExact'
  BY <1>6, <1>8 DEF SubmitVote, shareVars
<1>9. ASSUME NEW m \in Members, NEW p \in Proposals, CancelProposal(m, p)
      PROVE  AnswersExact'
  BY <1>6, <1>9 DEF CancelProposal, shareVars
<1>10. CASE Tick
  BY <1>6, <1>10 DEF Tick, NextSecond
<1>11. CASE UNCHANGED govVars
  BY <1>6, <1>11 DEF govVars, shareVars
<1> QED
  BY <1>2, <1>3, <1>4, <1>5, <1>7, <1>8, <1>9, <1>10, <1>11, Kinds

\* The invariant holds after setUp.
LEMMA InvariantInit == GovInit => IInv
<1> SUFFICES ASSUME GovInit PROVE IInv
  OBVIOUS
<1> USE Ids
<1>1. GovTypeOK
  <2>1. Submission(0, [kind |-> "other"]) \in ProposalRecords
    BY DEF Submission, ProposalRecords
  <2>2. /\ balanceOf \in [Members -> Nat] /\ before \in [Members -> Nat]
        /\ config \in ConfigRecords /\ now \in 1..MaxNow
    BY GenesisAssumption, TimesAssumption DEF GovInit
  <2>3. /\ votingStarts \in [Proposals -> 0..MaxNow]
        /\ base \in [Proposals -> [Members -> Nat]]
        /\ answer \in [Proposals -> {Unsettled} \union Nat]
        /\ proposals \in [Proposals -> ProposalRecords]
    BY <2>1, TimesAssumption DEF GovInit
  <2> QED
    BY <2>2, <2>3 DEF GovInit, GovTypeOK
<1>2. \A p \in Proposals : /\ proposals[p] = Submission(0, [kind |-> "other"])
                           /\ votingStarts[p] = 0 /\ Voters(p) = {} /\ answer[p] = Unsettled
  BY DEF GovInit, Voters
<1>3. /\ Submission(0, [kind |-> "other"]).prevProposalId = 0
      /\ Submission(0, [kind |-> "other"]).yesVotes = 0
      /\ Submission(0, [kind |-> "other"]).noVotes = 0
      /\ ~Submission(0, [kind |-> "other"]).cancelled
      /\ ~Submission(0, [kind |-> "other"]).processed
      /\ ~Submission(0, [kind |-> "other"]).passed
  BY DEF Submission
<1>4. DeadlinesInv /\ OutcomesInv /\ NeverOvertakesPrev
  BY <1>2, <1>3 DEF DeadlinesInv, OutcomesInv, NeverOvertakesPrev
<1>5. LinksInv
  BY <1>2, <1>3 DEF GovInit, LinksInv
<1>6. QueueLine
  <2> DEFINE line == [i \in 1..0 |-> 0]
  <2>1. line \in [1..0 -> Proposals] /\ 1..0 = {} /\ 0 \in 0..Cardinality(Proposals)
    OBVIOUS
  <2>2. IsLine(0, line)
    BY <1>2, <2>1 DEF GovInit, IsLine
  <2> QED
    BY <2>1, <2>2 DEF QueueLine
<1>7. TallyExact
  <2>1. ASSUME NEW p \in Proposals PROVE Tally(p)
    <3>1. Voters(p) = {} /\ proposals[p].yesVotes + proposals[p].noVotes = 0
      BY <1>2, <1>3
    <3>2. Sum(base[p], {}) = 0
      BY SumEmpty
    <3> QED
      BY <3>1, <3>2 DEF Tally
  <2> QED
    BY <2>1, TallyIsSum
<1>8. AnswersExact
  BY <1>2 DEF AnswersExact
<1> QED
  BY <1>1, <1>4, <1>5, <1>6, <1>7, <1>8 DEF IInv

\* The inductive invariant of the governance holds in every reachable state.
THEOREM GovernanceInvariant == GovSpec => []IInv
<1>1. IInv /\ [GovNext]_govVars => IInv'
  BY TypeStep, DeadlinesStep, OutcomesStep, LinksStep, QueueLineStep, OvertakesStep, TallyStep,
     AnswersStep DEF IInv
<1> QED
  BY <1>1, InvariantInit, PTL DEF GovSpec

---------------------------------------------------------------------------
(* The queue, read back from its tail *)

\* The equation that defines QueueUpTo.
IsQueue(g) ==
  g = [p \in 0..Cardinality(Proposals) |->
         IF p = 0 THEN {} ELSE {p} \union g[proposals[p].prevProposalId]]

\* QueueUpTo computes the beginnings of the line.
LEMMA QueueIsLine ==
  ASSUME DeadlinesInv, NEW k \in 0..Cardinality(Proposals),
         NEW line \in [1..k -> Proposals], IsLine(k, line)
  PROVE  /\ QueueUpTo[0] = {}
         /\ \A i \in 1..k : QueueUpTo[line[i]] = {line[j] : j \in 1..i}
<1> USE Ids
<1> DEFINE N == Cardinality(Proposals)
           upTo(p) == {q \in Proposals : \E i \in 1..k : line[i] = p /\ \E j \in 1..i : line[j] = q}
           g == [p \in 0..N |-> IF p = 0 THEN {} ELSE {p} \union upTo(p)]
<1>0. /\ k \in Nat /\ \A i \in 1..k : line[i] \in Proposals
      /\ \A i, j \in 1..k : line[i] = line[j] => i = j
      /\ \A i \in 1..k : proposals[line[i]].prevProposalId = IF i = 1 THEN 0 ELSE line[i - 1]
      /\ \A p \in Proposals : votingStarts[p] # 0 <=> \E i \in 1..k : line[i] = p
      /\ \A p \in 1..N : p \in Proposals
      /\ \A i \in 1..k : \A j \in 1..i : j \in 1..k
  BY ProposalsAssumption DEF IsLine
<1>1. ASSUME NEW p \in 0..N
      PROVE  g[p] = IF p = 0 THEN {} ELSE {p} \union g[proposals[p].prevProposalId]
  <2>1. CASE p = 0
    BY <2>1
  <2>2. CASE p # 0 /\ \E i \in 1..k : line[i] = p
    <3>1. PICK i \in 1..k : line[i] = p
      BY <2>2
    <3>2. upTo(p) = {line[j] : j \in 1..i}
      <4>1. ASSUME NEW q \in upTo(p) PROVE q \in {line[j] : j \in 1..i}
        <5>1. PICK ii \in 1..k : line[ii] = p /\ \E j \in 1..ii : line[j] = q
          OBVIOUS
        <5>2. ii = i
          BY <1>0, <3>1, <5>1
        <5> QED
          BY <5>1, <5>2
      <4>2. ASSUME NEW j \in 1..i PROVE line[j] \in upTo(p)
        BY <1>0, <3>1
      <4> HIDE DEF upTo, g
      <4> QED
        BY <4>1, <4>2
    <3>3. CASE i = 1
      <4>1. proposals[p].prevProposalId = 0
        BY <1>0, <3>1, <3>3
      <4>2. upTo(p) = {p}
        BY <3>1, <3>2, <3>3
      <4>3. g[0] = {} /\ g[p] = {p} \union upTo(p)
        BY <2>2
      <4> QED
        BY <2>2, <4>1, <4>2, <4>3
    <3>4. CASE i # 1
      <4>1. proposals[p].prevProposalId = line[i - 1] /\ i - 1 \in 1..k
        BY <1>0, <3>1, <3>4
      <4>2. upTo(line[i - 1]) = {line[j] : j \in 1..(i - 1)}
        <5>1. ASSUME NEW q \in upTo(line[i - 1]) PROVE q \in {line[j] : j \in 1..(i - 1)}
          <6>1. PICK ii \in 1..k : line[ii] = line[i - 1] /\ \E j \in 1..ii : line[j] = q
            OBVIOUS
          <6>2. ii = i - 1
            BY <1>0, <4>1, <6>1
          <6> QED
            BY <6>1, <6>2
        <5>2. ASSUME NEW j \in 1..(i - 1) PROVE line[j] \in upTo(line[i - 1])
          BY <1>0, <4>1
        <5> QED
          BY <5>1, <5>2
      <4>3. line[i - 1] \in Proposals /\ line[i - 1] \in 0..N /\ line[i - 1] # 0
        BY <1>0, <4>1, ProposalsAssumption
      <4>4. g[line[i - 1]] = {line[i - 1]} \union upTo(line[i - 1])
        BY <4>3
      <4>5. {line[j] : j \in 1..i} = {line[i]} \union {line[j] : j \in 1..(i - 1)}
        <5>1. \A j \in 1..i : j = i \/ j \in 1..(i - 1)
          BY <3>1
        <5>2. i \in 1..i /\ \A j \in 1..(i - 1) : j \in 1..i
          BY <3>1
        <5> QED
          BY <5>1, <5>2
      <4>6. line[i - 1] \in {line[j] : j \in 1..(i - 1)}
        BY <4>1
      <4>7. g[p] = {p} \union upTo(p)
        BY <2>2
      <4> HIDE DEF upTo, g
      <4> QED
        BY <2>2, <3>1, <3>2, <4>1, <4>2, <4>4, <4>5, <4>6, <4>7
    <3> QED
      BY <3>3, <3>4
  <2>3. CASE p # 0 /\ ~ \E i \in 1..k : line[i] = p
    <3>1. votingStarts[p] = 0 /\ p \in Proposals
      BY <1>0, <2>3
    <3>2. proposals[p].prevProposalId = 0
      BY <3>1 DEF DeadlinesInv
    <3>3. upTo(p) = {} /\ g[0] = {} /\ g[p] = {p} \union upTo(p)
      BY <2>3
    <3> QED
      BY <2>3, <3>2, <3>3
  <2> QED
    BY <2>1, <2>2, <2>3
<1>2. IsQueue(g)
  <2>1. g = [p \in 0..N |-> g[p]]
    OBVIOUS
  <2> HIDE DEF g
  <2> QED
    BY <1>1, <2>1 DEF IsQueue
<1>3. IsQueue(QueueUpTo)
  <2>1. QueueUpTo = CHOOSE f : IsQueue(f)
    BY DEF QueueUpTo, IsQueue
  <2> HIDE DEF g
  <2> QED
    BY <1>2, <2>1
<1>31. QueueUpTo[0] = {}
  BY <1>3 DEF IsQueue
<1> DEFINE Bad == {i \in 1..k : QueueUpTo[line[i]] # {line[j] : j \in 1..i}}
<1>4. SUFFICES ASSUME Bad # {} PROVE FALSE
  BY <1>31
<1>5. PICK i \in Bad : \A j \in Bad : ~(j < i)
  <2> HIDE DEF Bad
  <2>1. Bad \subseteq Nat
    BY <1>0 DEF Bad
  <2>2. PICK i \in Bad : \A j \in Bad : ~(<<j, i>> \in OpToRel(<, Nat))
    BY <1>4, <2>1, WFMin, NatLessThanWellFounded
  <2> QED
    BY <2>1, <2>2 DEF OpToRel
<1>6. QueueUpTo[line[i]] = {line[i]} \union QueueUpTo[proposals[line[i]].prevProposalId]
  <2>1. line[i] \in 0..N /\ line[i] # 0
    BY <1>0, ProposalsAssumption
  <2> QED
    BY <1>3, <2>1 DEF IsQueue
<1>7. CASE i = 1
  <2>1. proposals[line[i]].prevProposalId = 0
    BY <1>0, <1>7
  <2> QED
    BY <1>6, <1>7, <1>31, <2>1
<1>8. CASE i # 1
  <2>1. i - 1 \in 1..k /\ i - 1 < i /\ proposals[line[i]].prevProposalId = line[i - 1]
    BY <1>0, <1>8
  <2>2. QueueUpTo[line[i - 1]] = {line[j] : j \in 1..(i - 1)}
    BY <1>5, <2>1
  <2>3. {line[j] : j \in 1..i} = {line[i]} \union {line[j] : j \in 1..(i - 1)}
    <3>1. \A j \in 1..i : j = i \/ j \in 1..(i - 1)
      BY <2>1
    <3>2. i \in 1..i /\ \A j \in 1..(i - 1) : j \in 1..i
      BY <2>1
    <3> QED
      BY <3>1, <3>2
  <2> QED
    BY <1>6, <2>1, <2>2, <2>3
<1> QED
  BY <1>7, <1>8

\* A line that lists the sponsored proposals and ends at the tail is the queue.
LEMMA QueueIsComplete ==
  ASSUME DeadlinesInv, QueueLine
  PROVE  QueueComplete
<1> USE Ids
<1>1. PICK k \in 0..Cardinality(Proposals) : \E line \in [1..k -> Proposals] : IsLine(k, line)
  BY DEF QueueLine
<1>2. PICK line \in [1..k -> Proposals] : IsLine(k, line)
  BY <1>1
<1>3. \A p \in Proposals : votingStarts[p] # 0 <=> \E i \in 1..k : line[i] = p
  BY <1>2 DEF IsLine
<1>4. CASE k = 0
  <2>1. latestSponsoredProposalId = 0
    BY <1>2, <1>4 DEF IsLine
  <2>2. QueueUpTo[0] = {}
    BY <1>2, QueueIsLine
  <2> QED
    BY <1>3, <1>4, <2>1, <2>2 DEF QueueComplete
<1>5. CASE k # 0
  <2>1. latestSponsoredProposalId = line[k] /\ k \in 1..k
    BY <1>2, <1>5 DEF IsLine
  <2>2. QueueUpTo[line[k]] = {line[j] : j \in 1..k}
    BY <1>2, <2>1, QueueIsLine
  <2> QED
    BY <1>3, <2>1, <2>2 DEF QueueComplete
<1> QED
  BY <1>4, <1>5

---------------------------------------------------------------------------
(* What the invariant gives *)

\* From the tail of the queue every sponsored proposal is reached, and nothing else, for
\* any number of proposals and any order of submissions and sponsorships
\* (Baal.latestSponsoredProposalId, prevProposalId).
THEOREM QueueReachesAll == GovSpec => []QueueComplete
<1>1. IInv => QueueComplete
  BY QueueIsComplete DEF IInv
<1> QED
  BY <1>1, GovernanceInvariant, PTL

\* No proposal is processed before the one sponsored just before it has ended, for any
\* number of proposals, members and configurations (Baal.processProposal).
THEOREM QueueIsNotOvertaken == GovSpec => []NeverOvertakesPrev
<1>1. IInv => NeverOvertakesPrev
  BY DEF IInv
<1> QED
  BY <1>1, GovernanceInvariant, PTL

\* The tally of every proposal is the sum of what its voters held when its sponsorship
\* second ended, each counted once (Baal._submitVote).
THEOREM TalliesAreExact == GovSpec => []TallyExact
<1>1. IInv => TallyExact
  BY DEF IInv
<1> QED
  BY <1>1, GovernanceInvariant, PTL

\* Every step of the governance is a step of the life the diagram of Baal.sol draws, or
\* moves no proposal: BaalGovernance implements ProposalLifecycle (Baal.state).
THEOREM LivesAreKept == GovSpec => LifecycleKept
<1>1. GovInit => Lifecycle!LifeInit
  BY Ids DEF GovInit, Lifecycle!LifeInit, State
<1>2. IInv /\ [GovNext]_govVars => [Lifecycle!LifeNext]_([p \in Proposals |-> State(p)])
  <2> SUFFICES ASSUME IInv, [GovNext]_govVars
               PROVE  Lifecycle!LifeNext
    OBVIOUS
  <2> DEFINE old == [p \in Proposals |-> State(p)]
             new == [p \in Proposals |-> State(p)']
  <2>1. \A p \in Proposals : new[p] = old[p] \/ new[p] \in Lifecycle!After(old[p])
    BY LifeStep
  <2>2. new \in [Proposals ->
          UNION {Lifecycle!After(old[p]) \union {old[p]} : p \in Proposals}]
    <3> SUFFICES ASSUME NEW p \in Proposals
                 PROVE  new[p] \in UNION {Lifecycle!After(old[q]) \union {old[q]} : q \in Proposals}
      OBVIOUS
    <3> QED
      BY <2>1
  <2> QED
    BY <2>1, <2>2 DEF Lifecycle!LifeNext
<1> QED
  BY <1>1, <1>2, GovernanceInvariant, PTL DEF GovSpec, LifecycleKept, Lifecycle!LifeSpec

\* A proposal passes only if, in that very step, no more than the tolerated share of the
\* shares of its sponsorship second is gone (Baal.processProposal, exitedSince).
THEOREM RetentionDecides == GovSpec => PassedMeansRetained
<1>1. IInv /\ [GovNext]_govVars =>
        \A p \in Proposals :
          ~proposals[p].passed /\ proposals[p].passed' =>
            100 * Deficit(p) <= (100 - config.minRetention) * SupplyAtStart(p)
  <2> SUFFICES ASSUME IInv, [GovNext]_govVars, NEW p \in Proposals,
                      ~proposals[p].passed, proposals'[p].passed
               PROVE  100 * Deficit(p) <= (100 - config.minRetention) * SupplyAtStart(p)
    OBVIOUS
  <2>1. ASSUME NEW m \in Members, NEW expiration \in Expirations, NEW action \in Actions,
               SubmitUnsponsored(m, expiration, action)
        PROVE  FALSE
    BY <2>1, SubmitFacts DEF Blank, Untouched
  <2>2. ASSUME NEW m \in Members, NEW q \in Proposals, NEW prop \in ProposalRecords,
               Begins(m, q, prop)
        PROVE  FALSE
    BY <2>2, BeginsFacts DEF Untouched
  <2>3. ASSUME NEW m \in Members, NEW q \in Proposals, NEW approved \in BOOLEAN,
               SubmitVote(m, q, approved)
        PROVE  FALSE
    <3>1. proposals'[q].passed = proposals[q].passed /\ (p # q => proposals'[p] = proposals[p])
      BY <2>3, VoteFacts DEF Untouched
    <3> QED
      BY <3>1
  <2>4. ASSUME NEW m \in Members, NEW q \in Proposals, CancelProposal(m, q)
        PROVE  FALSE
    <3>1. proposals'[q].passed = proposals[q].passed /\ (p # q => proposals'[p] = proposals[p])
      BY <2>4, CancelFacts DEF Untouched
    <3> QED
      BY <3>1
  <2>5. ASSUME NEW q \in Proposals, Processes(q)
        PROVE  100 * Deficit(p) <= (100 - config.minRetention) * SupplyAtStart(p)
    <3>1. proposals'[q].passed = OkToExecute(q, Deficit(q)) /\ (p # q => proposals'[p] = proposals[p])
      BY <2>5, ProcessFacts DEF Untouched
    <3>2. p = q /\ OkToExecute(p, Deficit(p))
      BY <3>1
    <3>3. Deficit(p) * 100 <= (100 - config.minRetention) * SupplyAtStart(p)
      BY <3>2 DEF OkToExecute, Retained
    <3>4. Deficit(p) \in Nat
      BY DeficitType DEF IInv
    <3> QED
      BY <3>3, <3>4
  <2>6. ASSUME NEW q \in Proposals, SettleRetention(q) PROVE proposals' = proposals
    BY <2>6 DEF SettleRetention, baalVars
  <2>7. ASSUME NEW m \in Members, NEW new \in Nat, Moves(m, new) PROVE proposals' = proposals
    BY <2>7 DEF Moves, baalVars
  <2>8. Tick \/ UNCHANGED govVars => proposals' = proposals
    BY DEF Tick, govVars, baalVars
  <2> QED
    BY <2>1, <2>2, <2>3, <2>4, <2>5, <2>6, <2>7, <2>8, Kinds
<1> QED
  BY <1>1, GovernanceInvariant, PTL DEF GovSpec, PassedMeansRetained

\* The configuration changes only in the step that processes a proposal that is Ready,
\* passes and does not fail, and to what it asked for (Baal.setGovernanceConfig).
THEOREM ConfigChangesByVote == GovSpec => ConfigOnlyByPassedProposal
<1>1. IInv /\ [GovNext]_govVars =>
        (config' # config =>
           \E p \in Proposals :
             /\ State(p) = "Ready" /\ ~proposals[p].passed
             /\ proposals[p].passed' /\ ~proposals[p].actionFailed'
             /\ proposals[p].action.kind = "config"
             /\ config' = Configured(proposals[p].action.config))
  <2> SUFFICES ASSUME IInv, [GovNext]_govVars, config' # config
               PROVE  \E p \in Proposals :
                        /\ State(p) = "Ready" /\ ~proposals[p].passed
                        /\ proposals[p].passed' /\ ~proposals[p].actionFailed'
                        /\ proposals[p].action.kind = "config"
                        /\ config' = Configured(proposals[p].action.config)
    OBVIOUS
  <2>1. PICK p \in Proposals : Processes(p)
    BY Kinds DEF SubmitUnsponsored, Begins, SubmitVote, CancelProposal, SettleRetention, Moves,
                 Tick, govVars, baalVars
  <2>2. State(p) = "Ready" /\ Execute(p, Deficit(p))
    BY <2>1 DEF Processes, MayProcess
  <2>3. ~proposals[p].processed /\ ~proposals[p].passed
    BY <2>2 DEF State, IInv, OutcomesInv
  <2>4. /\ OkToExecute(p, Deficit(p)) /\ ActionSucceeds(proposals[p].action)
        /\ proposals[p].action.kind = "config"
        /\ config' = Configured(proposals[p].action.config)
    BY <2>2 DEF Execute
  <2>5. proposals'[p] = [proposals[p] EXCEPT !.processed = TRUE, !.passed = TRUE,
                                            !.actionFailed = FALSE]
    <3>1. proposals \in [Proposals -> ProposalRecords]
      BY DEF IInv, GovTypeOK
    <3>2. OkToExecute(p, Deficit(p)) = TRUE
      BY <2>4 DEF OkToExecute
    <3> QED
      BY <2>2, <2>4, <3>1, <3>2 DEF Execute
  <2>6. proposals[p] \in ProposalRecords
    BY DEF IInv, GovTypeOK
  <2>7. proposals'[p].passed /\ ~proposals'[p].actionFailed
    BY <2>5, <2>6 DEF ProposalRecords
  <2> QED
    BY <2>2, <2>3, <2>4, <2>7
<1> QED
  BY <1>1, GovernanceInvariant, PTL DEF GovSpec, ConfigOnlyByPassedProposal

---------------------------------------------------------------------------
(* The relay's index of the chain: readers, reorganisations, lagging nodes *)

Stages == {"idle", "lock", "load", "scan", "write", "answer"}

\* rowsRead are the rows of the first n blocks of b.
RowsOf(b, rowsRead, n) == Len(rowsRead) = n /\ \A i \in 1..n : rowsRead[i] = b[i]

\* Chains of blocks made so far: a block made later is in none of them.
Made == Seq(1..made)
Flaws == SUBSET {"node", "fork"}
MadeIndexes == [block: Made, rows: Made, flaws: Flaws]

\* Rows from nodes that all had the block are its rows.  Rows of a block that had
\* left the chain when they were read may be anything, but it stays off the chain
\* until that goes back to a fork (NothingReturns).
Found(b, rowsRead, found, n) ==
  /\ found = {} => RowsOf(b, rowsRead, n)
  /\ found = {"fork"} /\ returned = 0 => ~Canonical(b)

\* Of a reader: how far it has come, and what it has found.
ReadInv(r) ==
  /\ block[r] \in Made /\ rows[r] \in Made
  /\ Len(block[r]) <= MaxHeight
  /\ from[r] \in 1..(Len(block[r]) + 1)
  /\ pc[r] \in {"idle", "lock"} => from[r] = 1
  /\ pc[r] \in {"write", "answer"} => from[r] = Len(block[r]) + 1
  /\ pc[r] \in {"scan", "write", "answer"} => Found(block[r], rows[r], flaws[r], from[r] - 1)

FileInv ==
  file # None => /\ file \in MadeIndexes
                 /\ Found(file.block, file.rows, file.flaws, Len(file.block))

Types ==
  /\ made \in 1..MaxBlocks /\ chain \in Made /\ Len(chain) \in 1..MaxHeight
  /\ returned \in 0..MaxReturns
  /\ \A c \in forks : c \in Made /\ Len(c) \in 1..MaxHeight
  /\ holder \in Readers \union {None}
  /\ pc \in [Readers -> Stages] /\ flaws \in [Readers -> Flaws]
  /\ block \in [Readers -> Seq(Nat)] /\ rows \in [Readers -> Seq(Nat)] /\ from \in [Readers -> Nat]

ReadsInv == Types /\ FileInv /\ \A r \in Readers : ReadInv(r)

\* A block is a prefix by its members.
LEMMA PrefixByMembers ==
  ASSUME NEW S, NEW b \in Seq(S), NEW c \in Seq(S)
  PROVE  IsPrefix(b, c) <=> Len(b) <= Len(c) /\ \A i \in 1..Len(b) : b[i] = c[i]
<1>1. ASSUME Len(b) <= Len(c), SubSeq(b, 1, Len(b)) = SubSeq(c, 1, Len(b)), NEW i \in 1..Len(b)
      PROVE  b[i] = c[i]
  <2>1. SubSeq(b, 1, Len(b))[i] = b[i]
    OBVIOUS
  <2>2. SubSeq(c, 1, Len(b))[i] = c[i]
    BY <1>1
  <2> QED
    BY <1>1, <2>1, <2>2
<1>2. ASSUME Len(b) <= Len(c), \A i \in 1..Len(b) : b[i] = c[i]
      PROVE  SubSeq(b, 1, Len(b)) = SubSeq(c, 1, Len(b))
  <2>1. \A i \in 1..Len(b) : SubSeq(b, 1, Len(b))[i] = SubSeq(c, 1, Len(b))[i]
    BY <1>2
  <2>2. /\ SubSeq(b, 1, Len(b)) \in Seq(S) /\ SubSeq(c, 1, Len(b)) \in Seq(S)
        /\ Len(SubSeq(b, 1, Len(b))) = Len(b) /\ Len(SubSeq(c, 1, Len(b))) = Len(b)
    BY <1>2
  <2> QED
    BY <2>1, <2>2
<1> QED
  BY <1>1, <1>2 DEF IsPrefix

\* Parts of a sequence, and two in a row, by their members.
LEMMA PartOfSeq ==
  ASSUME NEW S, NEW c \in Seq(S), NEW m \in Nat \ {0}, NEW n \in 0..Len(c)
  PROVE  /\ SubSeq(c, m, n) \in Seq(S)
         /\ Len(SubSeq(c, m, n)) = IF m <= n THEN n - m + 1 ELSE 0
         /\ \A i \in 1..Len(SubSeq(c, m, n)) : SubSeq(c, m, n)[i] = c[m + i - 1]
OBVIOUS

LEMMA TwoSeqs ==
  ASSUME NEW S, NEW a \in Seq(S), NEW c \in Seq(S), NEW i \in 1..(Len(a) + Len(c))
  PROVE  (a \o c)[i] = IF i <= Len(a) THEN a[i] ELSE c[i - Len(a)]
OBVIOUS

\* Two blocks of one branch, by their height.
LEMMA SameBranch ==
  ASSUME NEW S, NEW a \in Seq(S), NEW b \in Seq(S), NEW c \in Seq(S),
         IsPrefix(a, c), IsPrefix(b, c) \/ IsPrefix(c, b), Len(a) <= Len(b)
  PROVE  IsPrefix(a, b)
<1>1. Len(a) <= Len(c) /\ \A i \in 1..Len(a) : a[i] = c[i]
  BY PrefixByMembers
<1>2. \A i \in 1..Len(a) : i \in 1..Len(b) /\ i \in 1..Len(c)
  BY <1>1
<1>3. (\A i \in 1..Len(b) : b[i] = c[i]) \/ (\A i \in 1..Len(c) : c[i] = b[i])
  BY PrefixByMembers
<1>4. \A i \in 1..Len(a) : a[i] = b[i]
  BY <1>1, <1>2, <1>3
<1> QED
  BY <1>4, PrefixByMembers

\* What is under a block of the chain is of the chain.
LEMMA UnderCanonical ==
  ASSUME NEW S, NEW a \in Seq(S), NEW b \in Seq(S), NEW c \in Seq(S),
         IsPrefix(a, b), IsPrefix(b, c)
  PROVE  IsPrefix(a, c)
<1>1. Len(a) <= Len(b) /\ \A i \in 1..Len(a) : a[i] = b[i]
  BY PrefixByMembers
<1>2. Len(b) <= Len(c) /\ \A i \in 1..Len(b) : b[i] = c[i]
  BY PrefixByMembers
<1>3. \A i \in 1..Len(a) : i \in 1..Len(b)
  BY <1>1
<1>4. Len(a) <= Len(c) /\ \A i \in 1..Len(a) : a[i] = c[i]
  BY <1>1, <1>2, <1>3
<1> QED
  BY <1>4, PrefixByMembers

\* A block that left the chain does not come back to it when blocks are made.
LEMMA NothingReturns ==
  ASSUME NEW m \in Nat, NEW c \in Seq(1..m), NEW d \in Seq(1..(m + 1)), NEW k \in 0..Len(c),
         Len(d) = k + 1, d[k + 1] = m + 1, \A i \in 1..k : d[i] = c[i],
         NEW b \in Seq(1..m), IsPrefix(b, d)
  PROVE  IsPrefix(b, c)
<1>1. b \in Seq(Nat) /\ c \in Seq(Nat) /\ d \in Seq(Nat)
  OBVIOUS
<1>2. Len(b) <= Len(d) /\ \A i \in 1..Len(b) : b[i] = d[i]
  BY <1>1, PrefixByMembers
<1>3. Len(b) # k + 1
  <2>1. SUFFICES ASSUME Len(b) = k + 1 PROVE FALSE
    OBVIOUS
  <2>2. k + 1 \in 1..Len(b)
    BY <2>1
  <2>3. b[k + 1] \in 1..m
    BY <2>2
  <2> QED
    BY <1>2, <2>2, <2>3
<1>4. Len(b) <= Len(c) /\ \A i \in 1..Len(b) : b[i] = c[i]
  BY <1>2, <1>3
<1> QED
  BY <1>1, <1>4, PrefixByMembers

\* Rows of a whole block are the block.
LEMMA AllRows ==
  ASSUME NEW S, NEW b \in Seq(S), NEW rowsRead \in Seq(S), RowsOf(b, rowsRead, Len(b))
  PROVE  rowsRead = b
BY DEF RowsOf

LEMMA ReadsInit == Init => ReadsInv
<1> SUFFICES ASSUME Init PROVE ReadsInv
  OBVIOUS
<1> USE BoundsAssumption DEF BoundsAssumption, Stages
<1>1. made = 1 /\ made \in 1..MaxBlocks /\ chain \in Seq(1..1) /\ Len(chain) = 1
      /\ forks = {} /\ returned \in 0..MaxReturns
  BY DEF Init
<1>2. \A r \in Readers : ReadInv(r)
  BY <1>1 DEF Init, ReadInv, Made
<1>3. /\ pc \in [Readers -> Stages] /\ from \in [Readers -> Nat]
      /\ block \in [Readers -> Seq(Nat)] /\ rows \in [Readers -> Seq(Nat)]
  <2>1. <<>> \in Seq(Nat)
    OBVIOUS
  <2> QED
    BY <2>1 DEF Init
<1>4. flaws \in [Readers -> Flaws]
  BY DEF Init, Flaws
<1> QED
  BY <1>1, <1>2, <1>3, <1>4 DEF Init, ReadsInv, Types, FileInv, Made

\* What does not change stays as it was.
LEMMA FileRests == ASSUME FileInv, UNCHANGED <<network, file>> PROVE FileInv'
BY DEF FileInv, Found, MadeIndexes, Made, Canonical, network

LEMMA ReadRests ==
  ASSUME NEW r, ReadInv(r), UNCHANGED network, pc'[r] = pc[r], block'[r] = block[r],
         rows'[r] = rows[r], from'[r] = from[r], flaws'[r] = flaws[r]
  PROVE  ReadInv(r)'
BY DEF ReadInv, Found, Made, Canonical, network

\* The chain moves, and what was off it stays off it unless it goes back.
LEMMA NetworkStep ==
  ASSUME ReadsInv, Types', Made \subseteq Made', returned \in Nat,
         returned' = 0 => returned = 0 /\ \A b \in Made : Canonical(b)' => Canonical(b),
         UNCHANGED <<file, reader>>
  PROVE  ReadsInv'
<1>1. \A b \in Made, found \in Flaws : \A rowsRead, n : Found(b, rowsRead, found, n) =>
        Found(b, rowsRead, found, n)'
  BY DEF Found
<1>2. FileInv'
  BY <1>1 DEF ReadsInv, FileInv, MadeIndexes
<1>3. ASSUME NEW r \in Readers PROVE ReadInv(r)'
  <2>1. ReadInv(r) /\ flaws[r] \in Flaws
    BY DEF ReadsInv, Types
  <2>2. UNCHANGED <<block[r], rows[r], from[r], flaws[r], pc[r]>>
    BY DEF reader
  <2>3. Found(block[r], rows[r], flaws[r], from[r] - 1) =>
          Found(block[r], rows[r], flaws[r], from[r] - 1)'
    BY <1>1, <2>1, <2>2 DEF ReadInv
  <2> QED
    BY <2>1, <2>2, <2>3 DEF ReadInv
<1> QED
  BY <1>2, <1>3 DEF ReadsInv

\* The chain grows, or its end is replaced.
LEMMA ChainStep ==
  ASSUME ReadsInv, NEW k, k \in 0..Len(chain), k < MaxHeight, made < MaxBlocks, made' = made + 1,
         chain' = Append(SubSeq(chain, 1, k), made + 1), forks' \subseteq forks \union {chain},
         UNCHANGED <<returned, file, holder, reader>>
  PROVE  ReadsInv'
<1> USE BoundsAssumption DEF BoundsAssumption
<1>0. Types
  BY DEF ReadsInv
<1>1. /\ made \in Nat /\ chain \in Seq(1..made)
      /\ chain' \in Seq(1..(made + 1)) /\ Len(chain') = k + 1 /\ chain'[k + 1] = made + 1
      /\ \A i \in 1..k : chain'[i] = chain[i]
  <2>1. made \in Nat /\ chain \in Seq(1..made) /\ chain \in Seq(1..(made + 1))
    BY <1>0 DEF Types, Made
  <2>2. SubSeq(chain, 1, k) \in Seq(1..(made + 1)) /\ Len(SubSeq(chain, 1, k)) = k
    BY <2>1
  <2>3. \A i \in 1..k : SubSeq(chain, 1, k)[i] = chain[i]
    BY <2>1
  <2> QED
    BY <2>1, <2>2, <2>3
<1>2. \A b \in Made : Canonical(b)' => Canonical(b)
  BY <1>1, NothingReturns DEF Canonical, Made
<1>3. Made \subseteq Made'
  BY <1>1 DEF Made
<1>4. made' \in 1..MaxBlocks /\ Len(chain') \in 1..MaxHeight /\ chain' \in Made'
  BY <1>0, <1>1 DEF Types, Made
<1>5. \A c \in forks' : c \in Made' /\ Len(c) \in 1..MaxHeight
  BY <1>0, <1>3 DEF Types
<1>6. Types'
  BY <1>0, <1>4, <1>5 DEF Types, reader
<1>7. returned \in Nat /\ returned' = returned
  BY <1>0 DEF Types
<1> QED
  BY <1>2, <1>3, <1>6, <1>7, NetworkStep

LEMMA ReturnStep ==
  ASSUME ReadsInv, NEW fork \in forks, Return(fork)
  PROVE  ReadsInv'
<1> USE BoundsAssumption DEF BoundsAssumption
<1>1. Types /\ returned \in Nat /\ returned' = returned + 1 /\ returned' \in 0..MaxReturns
  BY DEF ReadsInv, Types, Return
<1>2. made' = made /\ Made' = Made
  BY DEF Return, Made
<1>3. chain' \in Made /\ Len(chain') \in 1..MaxHeight
      /\ \A c \in forks' : c \in Made /\ Len(c) \in 1..MaxHeight
  BY <1>1 DEF Return, Types
<1>4. Types'
  BY <1>1, <1>2, <1>3 DEF Return, Types, reader
<1>5. UNCHANGED <<file, reader>> /\ returned' # 0
  BY <1>1 DEF Return
<1> QED
  BY <1>1, <1>2, <1>4, <1>5, NetworkStep

\* What a node has is made of blocks that were made.
LEMMA ViewsMade ==
  ASSUME Types, NEW v \in Views
  PROVE  v \in Made /\ v \in Seq(Nat) /\ Len(v) \in 1..MaxHeight
<1>1. PICK c \in forks \union {chain} : \E n \in 1..Len(c) : v = SubSeq(c, 1, n)
  BY DEF Views
<1>2. c \in Seq(1..made) /\ Len(c) \in 1..MaxHeight /\ made \in Nat
  BY <1>1, BoundsAssumption DEF Types, Made, BoundsAssumption
<1>3. v \in Seq(1..made) /\ Len(v) \in 1..Len(c)
  BY <1>1, <1>2
<1> QED
  BY <1>2, <1>3, BoundsAssumption DEF Made, BoundsAssumption

\* The other readers are where they were.
OthersRest(r) ==
  \A q \in Readers \ {r} : /\ pc'[q] = pc[q] /\ block'[q] = block[q]
                           /\ rows'[q] = rows[q] /\ from'[q] = from[q] /\ flaws'[q] = flaws[q]

\* A step of reader r that leaves the chain and the other readers alone.
LEMMA ReaderStep ==
  ASSUME ReadsInv, NEW r \in Readers, UNCHANGED network, OthersRest(r),
         Types', ReadInv(r)', FileInv'
  PROVE  ReadsInv'
<1>1. ASSUME NEW q \in Readers \ {r} PROVE ReadInv(q)'
  BY <1>1, ReadRests DEF ReadsInv, OthersRest
<1> QED
  BY <1>1 DEF ReadsInv

\* The index of the file, taken at a node's word, is good for the reader's block if
\* that node has it or is on the way to it.
LEMMA TakeStep ==
  ASSUME ReadsInv, NEW r \in Readers, NEW v \in Views, TakeIndex(r, v)
  PROVE  ReadsInv'
<1> USE BoundsAssumption DEF BoundsAssumption, Stages
<1> DEFINE b == block[r]
           good == IsPrefix(b, v) \/ IsPrefix(v, b)
           found == file.flaws \union Flaw(good, b)
<1>1. /\ Types /\ FileInv /\ ReadInv(r) /\ made \in Nat
      /\ pc \in [Readers -> Stages] /\ block \in [Readers -> Seq(Nat)]
      /\ rows \in [Readers -> Seq(Nat)] /\ from \in [Readers -> Nat] /\ flaws \in [Readers -> Flaws]
  BY DEF ReadsInv, Types
<1>2. /\ pc[r] = "load" /\ file \in MadeIndexes /\ Len(file.block) <= Len(b) /\ IsPrefix(file.block, v)
      /\ Found(file.block, file.rows, file.flaws, Len(file.block))
  BY <1>1 DEF TakeIndex, Usable, FileInv
<1>3. \A s \in Made : s \in Seq(Nat) /\ Len(s) \in Nat
  BY <1>1 DEF Made
<1>4. /\ b \in Seq(Nat) /\ file.block \in Seq(Nat) /\ file.rows \in Seq(Nat) /\ file.rows \in Made
      /\ Len(file.block) \in Nat /\ v \in Seq(Nat) /\ chain \in Seq(Nat) /\ b \in Made
      /\ file.flaws \in Flaws
  BY <1>1, <1>2, <1>3, ViewsMade DEF MadeIndexes, Types, ReadInv
<1>5. found \in Flaws
  BY <1>4 DEF Flaw, Flaws
<1>6. good => IsPrefix(file.block, b)
  BY <1>2, <1>4, SameBranch
<1>7. found = {} => good /\ file.flaws = {}
  BY DEF Flaw
<1>8. found = {} => RowsOf(b, file.rows, Len(file.block))
  <2>1. IsPrefix(file.block, b) => \A i \in 1..Len(file.block) : file.block[i] = b[i]
    BY <1>4, PrefixByMembers
  <2> QED
    BY <1>2, <1>6, <1>7, <2>1 DEF Found, RowsOf
<1>9. found = {"fork"} /\ returned = 0 => ~Canonical(b)
  <2>1. CASE ~good
    BY <2>1 DEF Flaw
  <2>2. CASE good
    <3>1. found = file.flaws /\ IsPrefix(file.block, b)
      BY <1>6, <2>2 DEF Flaw
    <3>2. Canonical(b) => Canonical(file.block)
      BY <1>4, <3>1, UnderCanonical DEF Canonical
    <3> QED
      BY <1>2, <3>1, <3>2 DEF Found
  <2> QED
    BY <2>1, <2>2
<1>10. Found(b, file.rows, found, Len(file.block))
  BY <1>8, <1>9 DEF Found
<1>11. /\ pc' = [pc EXCEPT ![r] = "scan"] /\ rows' = [rows EXCEPT ![r] = file.rows]
       /\ from' = [from EXCEPT ![r] = Len(file.block) + 1] /\ flaws' = [flaws EXCEPT ![r] = found]
       /\ UNCHANGED <<network, file, holder, block>>
  BY DEF TakeIndex
<1> HIDE DEF found, good
<1>12. /\ pc'[r] = "scan" /\ rows'[r] = file.rows /\ from'[r] = Len(file.block) + 1
       /\ flaws'[r] = found /\ block'[r] = b /\ OthersRest(r)
  BY <1>1, <1>11 DEF OthersRest
<1>13. from'[r] - 1 = Len(file.block) /\ from'[r] \in 1..(Len(b) + 1)
  BY <1>2, <1>4, <1>12
<1>14. ReadInv(r)'
  BY <1>1, <1>4, <1>10, <1>11, <1>12, <1>13 DEF ReadInv, Found, Made, Canonical, network
<1>15. Types'
  <2>1. /\ pc' \in [Readers -> Stages] /\ rows' \in [Readers -> Seq(Nat)]
        /\ from' \in [Readers -> Nat] /\ flaws' \in [Readers -> Flaws]
    BY <1>1, <1>4, <1>5, <1>11
  <2> QED
    BY <1>1, <1>11, <2>1 DEF Types, Made, network
<1>16. FileInv'
  BY <1>1, <1>11, FileRests
<1> QED
  BY <1>11, <1>12, <1>14, <1>15, <1>16, ReaderStep

\* A chunk of rows: of a node that has the reader's block they are that block's.
LEMMA ScanStep ==
  ASSUME ReadsInv, NEW r \in Readers, NEW v \in Views, Scan(r, v)
  PROVE  ReadsInv'
<1> USE BoundsAssumption DEF BoundsAssumption, Stages
<1> DEFINE f == from[r]
           b == block[r]
           last == LastOfChunk(r)
           reach == IF last < Len(v) THEN last ELSE Len(v)
           got == SubSeq(v, f, reach)
           found == flaws[r] \union Flaw(IsPrefix(b, v), b)
<1>a. /\ Types /\ FileInv /\ ReadInv(r) /\ made \in Nat
      /\ pc \in [Readers -> Stages] /\ block \in [Readers -> Seq(Nat)]
      /\ rows \in [Readers -> Seq(Nat)] /\ from \in [Readers -> Nat] /\ flaws \in [Readers -> Flaws]
      /\ v \in Made /\ v \in Seq(Nat) /\ Len(v) \in 1..MaxHeight
  BY ViewsMade DEF ReadsInv, Types
<1>1. /\ b \in Seq(Nat) /\ b \in Made /\ rows[r] \in Seq(Nat) /\ rows[r] \in Made
      /\ f \in 1..Len(b) /\ last \in f..Len(b) /\ Len(b) <= MaxHeight
      /\ reach \in Nat /\ reach <= last /\ reach <= Len(v)
  <2>1. /\ b \in Made /\ rows[r] \in Made /\ from[r] \in 1..(Len(b) + 1)
        /\ from[r] <= Len(b) /\ Len(b) <= MaxHeight /\ b \in Seq(Nat) /\ rows[r] \in Seq(Nat)
    BY <1>a DEF ReadInv, Scan
  <2>2. Len(b) \in Nat /\ f \in 1..Len(b) /\ Len(v) \in Nat
    BY <1>a, <2>1
  <2>3. last \in f..Len(b)
    BY <2>2 DEF LastOfChunk
  <2> QED
    BY <2>1, <2>2, <2>3
<1>2. /\ got \in Made /\ got \in Seq(Nat)
      /\ Len(got) = IF f <= reach THEN reach - f + 1 ELSE 0
      /\ \A i \in 1..Len(got) : got[i] = v[f + i - 1]
  <2>1. f \in Nat \ {0} /\ reach \in 0..Len(v)
    BY <1>a, <1>1
  <2> HIDE DEF reach, f
  <2>2. SubSeq(v, f, reach) \in Seq(1..made)
    BY <1>a, <2>1, PartOfSeq DEF Made
  <2>3. SubSeq(v, f, reach) \in Seq(Nat)
    BY <1>a, <2>1, PartOfSeq
  <2>4. /\ Len(SubSeq(v, f, reach)) = IF f <= reach THEN reach - f + 1 ELSE 0
        /\ \A i \in 1..Len(SubSeq(v, f, reach)) : SubSeq(v, f, reach)[i] = v[f + i - 1]
    BY <1>a, <2>1, PartOfSeq
  <2> QED
    BY <2>2, <2>3, <2>4 DEF Made
<1>3. /\ pc' = [pc EXCEPT ![r] = IF last < Len(b) THEN "scan" ELSE "write"]
      /\ rows' = [rows EXCEPT ![r] = @ \o got] /\ from' = [from EXCEPT ![r] = last + 1]
      /\ flaws' = [flaws EXCEPT ![r] = found]
      /\ UNCHANGED <<network, file, holder, block>>
  BY DEF Scan, Logs
<1>4. rows[r] \o got \in Made /\ rows[r] \o got \in Seq(Nat)
  BY <1>1, <1>2 DEF Made
<1>5. ASSUME found = {} PROVE RowsOf(b, rows[r] \o got, last)
  <2>0. IsPrefix(b, v) /\ flaws[r] = {}
    BY <1>5 DEF Flaw
  <2>1. Len(b) <= Len(v) /\ \A i \in 1..Len(b) : b[i] = v[i]
    BY <1>a, <1>1, <2>0, PrefixByMembers
  <2>2. reach = last /\ Len(got) = last - f + 1
    BY <1>1, <1>2, <2>1
  <2>3. Len(rows[r]) = f - 1 /\ \A i \in 1..(f - 1) : rows[r][i] = b[i]
    BY <1>a, <2>0 DEF ReadInv, Found, RowsOf, Scan
  <2>4. Len(rows[r] \o got) = last
    BY <1>1, <1>2, <2>2, <2>3
  <2>5. f \in Nat \ {0} /\ last \in Nat /\ got \in Seq(Nat)
    BY <1>1, <1>2
  <2>6. \A i \in 1..Len(got) : got[i] = v[f + i - 1]
    BY <1>2
  <2>7. last <= Len(b) /\ rows[r] \in Seq(Nat) /\ Len(b) \in Nat
    BY <1>1
  <2>8. ASSUME NEW i \in 1..last PROVE (rows[r] \o got)[i] = b[i]
    <3> HIDE DEF got, last, reach, f, b
    <3>1. (rows[r] \o got)[i] = IF i <= f - 1 THEN rows[r][i] ELSE got[i - (f - 1)]
      <4>1. i \in 1..(Len(rows[r]) + Len(got)) /\ Len(rows[r]) = f - 1
        BY <2>2, <2>3, <2>5
      <4>2. rows[r] \in Seq(Nat) /\ got \in Seq(Nat)
        BY <2>5, <2>7
      <4>3. (rows[r] \o got)[i] = IF i <= Len(rows[r]) THEN rows[r][i] ELSE got[i - Len(rows[r])]
        BY <4>1, <4>2, TwoSeqs
      <4> QED
        BY <4>1, <4>3
    <3>2. CASE i <= f - 1
      BY <2>3, <2>5, <3>1, <3>2
    <3>3. CASE ~(i <= f - 1)
      <4>1. i - (f - 1) \in 1..Len(got) /\ f + (i - (f - 1)) - 1 = i
        BY <2>2, <2>5, <3>3
      <4>2. got[i - (f - 1)] = v[i]
        BY <2>6, <4>1
      <4>3. i \in 1..Len(b)
        BY <2>5, <2>7
      <4> QED
        BY <2>1, <3>1, <3>3, <4>2, <4>3
    <3> QED
      BY <3>2, <3>3
  <2> QED
    BY <2>4, <2>8 DEF RowsOf
<1>6. found = {"fork"} /\ returned = 0 => ~Canonical(b)
  <2>1. CASE IsPrefix(b, v)
    BY <1>a, <2>1 DEF Flaw, ReadInv, Found, Scan
  <2>2. CASE ~IsPrefix(b, v)
    BY <2>2 DEF Flaw
  <2> QED
    BY <2>1, <2>2
<1>7. found \in Flaws
  BY <1>a DEF Flaw, Flaws
<1>8. last + 1 - 1 = last /\ last + 1 \in 1..(Len(b) + 1) /\ (~(last < Len(b)) => last = Len(b))
      /\ last \in Nat /\ last + 1 \in Nat
  BY <1>1
<1>9. Found(b, rows[r] \o got, found, last)
  BY <1>5, <1>6 DEF Found
<1> HIDE DEF got, last, reach, found, f
<1>10. /\ pc'[r] = (IF last < Len(b) THEN "scan" ELSE "write") /\ rows'[r] = rows[r] \o got
       /\ from'[r] = last + 1 /\ flaws'[r] = found /\ block'[r] = b /\ OthersRest(r)
  BY <1>a, <1>3 DEF OthersRest
<1>11. ReadInv(r)'
  <2>1. \A x, y, z, n : Found(x, y, z, n) => Found(x, y, z, n)'
    BY <1>3 DEF Found, Canonical, network
  <2>2. Found(block[r], rows[r], flaws[r], from[r] - 1)'
    <3>1. from'[r] - 1 = last
      BY <1>8, <1>10
    <3>2. Found(block'[r], rows'[r], flaws'[r], from'[r] - 1)
      BY <1>9, <1>10, <3>1, Zenon
    <3> QED
      BY <2>1, <3>2
  <2>3. b \in Made' /\ rows'[r] \in Made'
    BY <1>1, <1>3, <1>4, <1>10 DEF Made, network
  <2>4. pc'[r] \in {"scan", "write"} /\ (pc'[r] = "write" => from'[r] = Len(block'[r]) + 1)
    BY <1>8, <1>10
  <2>5. Len(block'[r]) <= MaxHeight /\ from'[r] \in 1..(Len(block'[r]) + 1)
    BY <1>1, <1>8, <1>10
  <2> QED
    BY <1>10, <2>2, <2>3, <2>4, <2>5 DEF ReadInv
<1>12. Types'
  BY <1>a, <1>3, <1>4, <1>7, <1>8 DEF Types, Made, network
<1>13. FileInv'
  BY <1>a, <1>3, FileRests
<1> QED
  BY <1>3, <1>10, <1>11, <1>12, <1>13, ReaderStep

LEMMA ReadsStep == ReadsInv /\ [Next]_vars => ReadsInv'
<1> SUFFICES ASSUME ReadsInv, [Next]_vars PROVE ReadsInv'
  OBVIOUS
<1> USE BoundsAssumption, ReadersAssumption DEF BoundsAssumption, Stages
<1>a. /\ Types /\ made \in Nat /\ chain \in Seq(1..made) /\ chain \in Seq(Nat)
      /\ Len(chain) \in 1..MaxHeight /\ holder \in Readers \union {None}
      /\ pc \in [Readers -> Stages] /\ block \in [Readers -> Seq(Nat)]
      /\ rows \in [Readers -> Seq(Nat)] /\ from \in [Readers -> Nat] /\ flaws \in [Readers -> Flaws]
      /\ FileInv
      /\ \A r \in Readers : ReadInv(r)
  BY DEF ReadsInv, Types, Made
<1>1. CASE Grow
  <2>1. PICK k \in 0..MaxHeight : k = Len(chain)
    BY <1>a
  <2>2. chain = SubSeq(chain, 1, k)
    BY <1>a, <2>1
  <2>3. /\ k \in 0..Len(chain) /\ k < MaxHeight /\ made < MaxBlocks /\ made' = made + 1
        /\ forks' = forks /\ UNCHANGED <<returned, file, holder, reader>>
    BY <1>1, <1>a, <2>1 DEF Grow
  <2>4. chain' = Append(SubSeq(chain, 1, k), made + 1)
    BY <1>1, <2>2 DEF Grow
  <2> QED
    BY <2>3, <2>4, ChainStep
<1>2. ASSUME NEW height \in 2..MaxHeight, Reorganise(height) PROVE ReadsInv'
  <2>1. height - 1 \in 0..Len(chain) /\ height - 1 < MaxHeight
    BY <1>2, <1>a DEF Reorganise
  <2>2. /\ made < MaxBlocks /\ made' = made + 1 /\ forks' = forks \union {chain}
        /\ chain' = Append(SubSeq(chain, 1, height - 1), made + 1)
        /\ UNCHANGED <<returned, file, holder, reader>>
    BY <1>2 DEF Reorganise
  <2> QED
    BY <2>1, <2>2, ChainStep
<1>3. CASE HelperDies
  <2>1. FileInv'
    BY <1>3, <1>a, FileRests DEF HelperDies
  <2>2. \A r \in Readers : ReadInv(r)'
    BY <1>3, <1>a, ReadRests DEF HelperDies, reader
  <2>3. Types'
    BY <1>3, <1>a DEF HelperDies, reader, network, Types, Made
  <2> QED
    BY <2>1, <2>2, <2>3 DEF ReadsInv
<1>4. ASSUME NEW r \in Readers, NEW v \in Views, ReadBlock(r, v) PROVE ReadsInv'
  <2>1. v \in Made /\ v \in Seq(Nat) /\ Len(v) \in 1..MaxHeight
    BY <1>a, ViewsMade
  <2>2. /\ pc[r] = "idle" /\ pc'[r] = "lock" /\ block'[r] = v
        /\ UNCHANGED <<network, rows, from, flaws>>
    BY <1>4, <1>a DEF ReadBlock
  <2>3. ReadInv(r)'
    BY <1>a, <2>1, <2>2 DEF ReadInv, Made, network
  <2>4. FileInv'
    BY <1>4, <1>a, FileRests DEF ReadBlock
  <2>5. Types' /\ OthersRest(r)
    BY <1>4, <1>a, <2>1 DEF ReadBlock, Types, OthersRest, Made, network
  <2> QED
    BY <2>2, <2>3, <2>4, <2>5, ReaderStep
<1>5. ASSUME NEW r \in Readers, Lock(r) PROVE ReadsInv'
  <2>1. ReadInv(r)'
    BY <1>5, <1>a DEF Lock, ReadInv, Made, network
  <2>2. FileInv'
    BY <1>5, <1>a, FileRests DEF Lock
  <2>3. Types' /\ OthersRest(r)
    BY <1>5, <1>a DEF Lock, Types, OthersRest, Made, network
  <2> QED
    BY <1>5, <2>1, <2>2, <2>3, ReaderStep DEF Lock
<1>6. ASSUME NEW r \in Readers, StartOver(r) PROVE ReadsInv'
  <2>1. /\ pc'[r] = "scan" /\ rows'[r] = <<>> /\ from'[r] = 1 /\ flaws'[r] = {}
        /\ block' = block /\ UNCHANGED network
    BY <1>6, <1>a DEF StartOver
  <2>2. ReadInv(r)'
    BY <1>a, <2>1 DEF ReadInv, Found, RowsOf, Made, network
  <2>3. FileInv'
    BY <1>6, <1>a, FileRests DEF StartOver
  <2>4. rows' \in [Readers -> Seq(Nat)] /\ from' \in [Readers -> Nat] /\ flaws' \in [Readers -> Flaws]
    BY <1>6, <1>a DEF StartOver, Flaws
  <2>5. pc' \in [Readers -> Stages] /\ OthersRest(r)
    BY <1>6, <1>a DEF StartOver, OthersRest
  <2>6. Types'
    BY <1>6, <1>a, <2>4, <2>5 DEF StartOver, Types, Made, network
  <2> QED
    BY <2>1, <2>2, <2>3, <2>5, <2>6, ReaderStep
<1>7. ASSUME NEW r \in Readers, Write(r) PROVE ReadsInv'
  <2>1. /\ block[r] \in Made /\ rows[r] \in Made /\ flaws[r] \in Flaws /\ Len(block[r]) \in Nat
        /\ from[r] = Len(block[r]) + 1
        /\ Found(block[r], rows[r], flaws[r], Len(block[r]))
    <3>1. pc[r] = "write" /\ ReadInv(r) /\ block[r] \in Seq(Nat) /\ flaws[r] \in Flaws
      BY <1>7, <1>a DEF Write
    <3> QED
      BY <3>1 DEF ReadInv
  <2>2. FileInv'
    BY <1>7, <2>1 DEF Write, NewIndex, FileInv, Found, MadeIndexes, Made, Canonical, network
  <2>3. ReadInv(r)'
    BY <1>7, <1>a, <2>1 DEF Write, ReadInv, Found, Made, Canonical, network
  <2>4. Types' /\ OthersRest(r)
    BY <1>7, <1>a DEF Write, Types, OthersRest, Made, Unlocked, network
  <2> QED
    BY <1>7, <2>2, <2>3, <2>4, ReaderStep DEF Write
<1>8. ASSUME NEW r \in Readers, Resume(r) PROVE ReadsInv'
  <2>1. from[r] = Len(block[r]) + 1
    <3>1. pc[r] = "scan" /\ from[r] > Len(block[r]) /\ ReadInv(r) /\ Len(block[r]) \in Nat
      BY <1>8, <1>a DEF Resume
    <3> QED
      BY <3>1 DEF ReadInv
  <2>2. FileInv'
    BY <1>8, <1>a, FileRests DEF Resume
  <2>3. ReadInv(r)'
    BY <1>8, <1>a, <2>1 DEF Resume, ReadInv, Found, Made, Canonical, network
  <2>4. Types' /\ OthersRest(r)
    BY <1>8, <1>a DEF Resume, Types, OthersRest, Made, Unlocked, network
  <2> QED
    BY <1>8, <2>2, <2>3, <2>4, ReaderStep DEF Resume
<1>9. ASSUME NEW r \in Readers, End(r), UNCHANGED <<network, file>>, holder' \in Readers \union {None}
      PROVE  ReadsInv'
  <2>1. ReadInv(r)'
    BY <1>9, <1>a DEF End, ReadInv, Made, network
  <2>2. flaws' \in [Readers -> Flaws] /\ rows' \in [Readers -> Seq(Nat)] /\ block' \in [Readers -> Seq(Nat)]
    BY <1>9, <1>a DEF End, Flaws
  <2>3. Types' /\ OthersRest(r)
    BY <1>9, <1>a, <2>2 DEF End, Types, OthersRest, Made, network
  <2>4. FileInv'
    BY <1>9, <1>a, FileRests
  <2> QED
    BY <1>9, <2>1, <2>3, <2>4, ReaderStep
<1>10. ASSUME NEW r \in Readers, Drop(r) PROVE ReadsInv'
  BY <1>9, <1>10, <1>a DEF Drop
<1>11. ASSUME NEW r \in Readers, Fail(r) PROVE ReadsInv'
  BY <1>9, <1>11, <1>a DEF Fail, Unlocked
<1>12. CASE UNCHANGED vars
  <2>1. FileInv'
    BY <1>12, <1>a, FileRests DEF vars
  <2>2. \A r \in Readers : ReadInv(r)'
    BY <1>12, <1>a, ReadRests DEF vars, reader
  <2>3. Types'
    BY <1>12, <1>a DEF vars, reader, network, Types, Made
  <2> QED
    BY <2>1, <2>2, <2>3 DEF ReadsInv
<1> QED
  BY <1>1, <1>2, <1>3, <1>4, <1>5, <1>6, <1>7, <1>8, <1>10, <1>11, <1>12,
     ReturnStep, TakeStep, ScanStep DEF Next

LEMMA ReadsInvariant == Spec => []ReadsInv
<1> QED
  BY ReadsInit, ReadsStep, PTL DEF Spec

\* Types and bounds of the readers, the network and the file.
THEOREM IndexTypes == Spec => []TypeOK
<1>1. ReadsInv => TypeOK
  <2> SUFFICES ASSUME ReadsInv PROVE TypeOK
    OBVIOUS
  <2> USE BoundsAssumption DEF BoundsAssumption, Stages
  <2>1. Made \subseteq Chains
    BY DEF ReadsInv, Types, Made, Chains
  <2>2. file \in Indexes \union {None}
    BY <2>1 DEF ReadsInv, Types, FileInv, MadeIndexes, Indexes, Flaws
  <2>3. ASSUME NEW r \in Readers
        PROVE /\ pc[r] \in {"idle", "lock", "load", "scan", "write", "answer"}
              /\ block[r] \in Chains /\ rows[r] \in Chains /\ from[r] \in 1..(MaxHeight + 1)
              /\ flaws[r] \subseteq {"node", "fork"}
    <3>1. ReadInv(r) /\ block[r] \in Seq(Nat) /\ pc[r] \in Stages /\ flaws[r] \in Flaws
      BY DEF ReadsInv, Types
    <3> QED
      BY <2>1, <3>1 DEF ReadInv, Flaws
  <2> QED
    BY <2>1, <2>2, <2>3 DEF ReadsInv, Types, TypeOK
<1> QED
  BY <1>1, ReadsInvariant, PTL

\* Rows found without an excuse are the block's.
LEMMA FoundRows ==
  ASSUME ReadsInv, NEW b \in Made, NEW rowsRead \in Made, NEW found \in Flaws,
         Found(b, rowsRead, found, Len(b)), Canonical(b),
         "node" \notin found, ~("fork" \in found /\ returned > 0)
  PROVE  rowsRead = b
<1>1. returned \in Nat
  BY BoundsAssumption DEF ReadsInv, Types, BoundsAssumption
<1>2. "fork" \notin found \/ returned = 0
  BY <1>1
<1>3. found \subseteq {"fork"}
  BY DEF Flaws
<1>4. found = {} \/ (found = {"fork"} /\ returned = 0)
  BY <1>2, <1>3
<1>5. RowsOf(b, rowsRead, Len(b))
  BY <1>4 DEF Found
<1> QED
  BY <1>5, AllRows DEF Made

\* An index whose block is on the chain lists the rows of exactly the blocks up to
\* it (chain.ts, buildDaoState), for any number of readers, any chunk, and any
\* reorganisations, crashes and lost locks, unless a node that lags or one of a
\* fork that came back gave the rows.
THEOREM IndexIsExact == Spec => []IndexExact
<1>1. ReadsInv => IndexExact
  BY FoundRows DEF ReadsInv, FileInv, MadeIndexes, IndexExact, Excused
<1> QED
  BY <1>1, ReadsInvariant, PTL

\* An answer that names a block of the chain is that block's state, although a
\* reader neither holds the lock when it answers nor reads the index again
\* (chain.ts, readDaoState), with the same exception.
THEOREM AnswerIsExact == Spec => []AnswerExact
<1>1. ASSUME ReadsInv, NEW r \in Readers, pc[r] = "answer", Canonical(block[r]), ~Excused(NewIndex(r))
      PROVE  rows[r] = block[r]
  <2>1. /\ block[r] \in Made /\ rows[r] \in Made /\ flaws[r] \in Flaws
        /\ from[r] = Len(block[r]) + 1 /\ Found(block[r], rows[r], flaws[r], from[r] - 1)
    BY <1>1 DEF ReadsInv, ReadInv, Types
  <2>2. from[r] - 1 = Len(block[r])
    <3>1. block[r] \in Seq(Nat)
      BY <1>1 DEF ReadsInv, Types
    <3> QED
      BY <2>1, <3>1
  <2>3. "node" \notin flaws[r] /\ ~("fork" \in flaws[r] /\ returned > 0)
    BY <1>1 DEF Excused, NewIndex
  <2> QED
    BY <1>1, <2>1, <2>2, <2>3, FoundRows
<1>2. ReadsInv => AnswerExact
  BY <1>1 DEF AnswerExact
<1> QED
  BY <1>2, ReadsInvariant, PTL
===============================================================================
