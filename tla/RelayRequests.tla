---------------------------- MODULE RelayRequests ----------------------------
(***************************************************************************)
(* relay/server.ts: the requests that take several sponsored transactions, *)
(* and what db.json remembers of the members they served.  join delegates  *)
(* an account and waits for its code; a deposit may be topped up by the    *)
(* faucet first; propose may deploy its template instance first; execute   *)
(* may settle chunks of the retention journal first.  A request can fail   *)
(* or die with its process between any two of these.                       *)
(*                                                                         *)
(* Requests run one at a time.  A sponsored transaction is what module     *)
(* SponsorJournal promises: journaled, mined once, and settled by its own  *)
(* request or, when that is gone, by the next one.  An envelope may be     *)
(* sent again, and is then answered from its row in db.json.  Reads may    *)
(* fail or come from a node that lags.  T0 members are those whose key the *)
(* relay derives from a pass and signs with; their requests differ only in *)
(* what is recorded.                                                       *)
(* Left out: gas budgets and rates (RelaySponsor), the checks that only    *)
(* refuse, the rows of reverted intents, which only refuse too, op=quote   *)
(* and op=identity, which write nothing, verbs without a preparation other *)
(* than execute's own, and proposals members make without the relay.       *)
(***************************************************************************)
EXTENDS Integers, FiniteSets

CONSTANTS Members,
          T0,          \* members with a pass
          Instances,   \* template instances: template, params, member and salt
          Operator,    \* the member an instance is of
          None,
          Amount,      \* USDC of a deposit
          FaucetCap,   \* policy.faucetDailyUnits
          SettleLimit, \* chunks one execute settles, 4
          MaxIntents,  \* bound: intents a member executes but the execute
          MaxChunks    \* bound: chunks of the retention journal

ASSUME MembersAssumption ==
  T0 \subseteq Members /\ Operator \in [Instances -> Members] /\ None \notin Instances
ASSUME AmountsAssumption ==
  Amount \in Nat \ {0} /\ FaucetCap \in Nat /\ SettleLimit \in Nat \ {0}
  /\ MaxIntents \in Nat /\ MaxChunks \in Nat

VARIABLES
  delegated,  \* chain: accounts that carry the adapter
  nonce,      \* chain: next intent nonce of an account
  wallet,     \* chain: USDC of a member
  given,      \* chain: USDC the faucet ever transferred
  deployed,   \* chain: instances with code
  proposed,   \* chain: how many proposals an instance is the subject of
  left,       \* chain: chunks of the journal that are not settled for the proposal
  grown,      \* chain: chunks the journal ever had
  executed,   \* chain: the proposal is processed
  recorded,   \* db.json: members in accounts
  passes,     \* db.json: members in passes
  debited,    \* db.json: today's budget row, usdc
  rows,       \* db.json: envelopes in requests whose intent succeeded
  journal,    \* None or [kind, request, status]
  pc,         \* where the request is
  request,    \* [member, op, instance, nonce, attached, amount]
  chunks,     \* chunks it has settled
  toldOk,     \* members who were ever answered ok
  orphans,    \* members with a successful intent that another request settled
  stale       \* a lagging node or a failed read hid an instance or its proposal

chain == <<delegated, nonce, wallet, given, deployed, proposed, left, grown, executed>>
db == <<recorded, passes, debited, rows>>
process == <<pc, request, chunks>>
vars == <<chain, db, journal, process, toldOk, orphans, stale>>

Ops == {"join", "deposit", "propose", "execute"}
Kinds == {"delegate", "transfer", "deploy", "settle", "intent"}
Requests == [member: Members, op: Ops, instance: Instances \union {None}, nonce: Nat,
             attached: BOOLEAN, amount: 0..Amount]
Transactions == [kind: Kinds, request: Requests, status: {"sent", "success", "reverted"}]

\* The digest of an envelope that is signed once.
Envelopes == [member: Members, op: Ops, instance: Instances \union {None}, nonce: Nat]

ASSUME NoneAssumption == None \notin Transactions

M == request.member

---------------------------------------------------------------------------
(* A request begins and ends *)

Envelope(q) == [member |-> q.member, op |-> q.op, instance |-> q.instance, nonce |-> q.nonce]

\* The journal's transaction is an intent that succeeded.
Ran == journal.kind = "intent" /\ journal.status = "success"

\* recoverPending: the row of the settled intent has its hash and status.
FillRow == rows' = IF Ran THEN rows \union {Envelope(journal.request)} ELSE rows

\* What a dead request left in the journal is settled first; its member is not
\* recorded.
Recover ==
  /\ pc = "idle" /\ journal # None
  /\ journal.status # "sent"
  /\ journal' = None
  /\ FillRow
  /\ orphans' = IF Ran THEN orphans \union {journal.request.member} ELSE orphans
  /\ UNCHANGED <<chain, recorded, passes, debited, process, toldOk, stale>>

\* A request is new, or an envelope signed for an earlier nonce.
Begin(m, op, instance, signed) ==
  /\ pc = "idle" /\ journal = None
  /\ op \in {"deposit", "propose"} => nonce[m] < MaxIntents
  /\ instance # None <=> op = "propose"
  /\ op = "propose" => Operator[instance] = m
  /\ signed \in 0..nonce[m] /\ (op = "join" => signed = 0)
  /\ request' = [member |-> m, op |-> op, instance |-> instance, nonce |-> signed,
                 attached |-> FALSE, amount |-> 0]
  /\ pc' = IF op = "join" THEN "join" ELSE "lookup"
  /\ UNCHANGED <<chain, db, journal, chunks, toldOk, orphans, stale>>

End ==
  /\ pc' = "idle" /\ request' = None /\ chunks' = 0

\* A check refuses, a call fails, a receipt does not come, the process dies.
Fail ==
  /\ pc # "idle"
  /\ End
  /\ UNCHANGED <<chain, db, journal, toldOk, orphans, stale>>

\* sponsored: from here on the transaction reaches the chain, whatever becomes
\* of the request.
Sponsor(kind) ==
  /\ journal' = [kind |-> kind, request |-> request, status |-> "sent"]
  /\ pc' = "mining"
  /\ UNCHANGED <<chain, db, request, chunks, toldOk, orphans>>

\* A plausible slip: the account is recorded without its pass.
RecordAccount ==
  /\ recorded' = recorded \union {M}
  /\ UNCHANGED <<passes, debited>>

\* record, with the pass of a T0 member.
Record ==
  /\ recorded' = recorded \union {M}
  /\ passes' = passes \union ({M} \intersect T0)
  /\ UNCHANGED debited

Ok == toldOk' = toldOk \union {M} /\ End

---------------------------------------------------------------------------
(* join *)

\* The account is delegated: it is recorded, whoever delegated it.
AlreadyJoined ==
  /\ pc = "join" /\ M \in delegated
  /\ Record /\ Ok
  /\ UNCHANGED <<chain, rows, journal, orphans, stale>>

\* It is not, or a lagging node says so: the delegation is sponsored.
Delegate ==
  /\ pc = "join"
  /\ Sponsor("delegate")
  /\ UNCHANGED stale

\* The account's code is there, and the member is recorded.
Joined ==
  /\ pc = "code" /\ M \in delegated
  /\ Record /\ Ok
  /\ UNCHANGED <<chain, rows, journal, orphans, stale>>

---------------------------------------------------------------------------
(* submit *)

\* The envelope has a row and its transaction a receipt: that is the answer, and
\* nobody is recorded.
Replay ==
  /\ pc = "lookup" /\ Envelope(request) \in rows
  /\ Ok
  /\ UNCHANGED <<chain, db, journal, orphans, stale>>

\* It has none, being signed anew, or the receipt is not read and the row dropped.
Fresh ==
  /\ pc = "lookup"
  /\ rows' \in {rows, rows \ {Envelope(request)}}
  /\ pc' = "intent"
  /\ UNCHANGED <<chain, recorded, passes, debited, journal, request, chunks, toldOk, orphans, stale>>

\* settledIdentity reads again while the answer contradicts db.json, but not for
\* ever: nonce and delegation may be those of an earlier block, so an envelope of
\* an earlier nonce may pass.  An account that seems not to be delegated needs an
\* authorization in the envelope, which custodial refuses to sign for a proposal.
ReadIdentity(attached) ==
  /\ pc = "intent"
  /\ ~attached => M \in delegated
  /\ attached => request.nonce = 0 /\ ~(M \in T0 /\ request.op = "propose")
  /\ request' = [request EXCEPT !.attached = attached]
  /\ pc' = CASE request.op = "deposit" -> "faucet"
             [] request.op = "propose" -> "instance"
             [] OTHER -> "ready"
  /\ UNCHANGED <<chain, db, journal, chunks, toldOk, orphans, stale>>

\* faucet: the balance suffices.
NoTopUp ==
  /\ pc = "faucet"
  /\ pc' = "ready"
  /\ UNCHANGED <<chain, db, journal, request, chunks, toldOk, orphans, stale>>

\* A plausible slip: the budget is debited when the transfer is sent.
DebitLater(needed) == debited' = debited

\* The day's budget is debited, and the debit written.
Debit(needed) == debited' = debited + needed

\* faucet, before the transfer: what is missing is taken from the budget.
TopUp(needed) ==
  /\ pc = "faucet"
  /\ debited + needed <= FaucetCap
  /\ Debit(needed)
  /\ request' = [request EXCEPT !.amount = needed]
  /\ pc' = "transfer"
  /\ UNCHANGED <<chain, recorded, passes, rows, journal, chunks, toldOk, orphans, stale>>

Transfer ==
  /\ pc = "transfer"
  /\ Sponsor("transfer")
  /\ UNCHANGED stale

\* A plausible slip: an instance that exists is not looked up in the proposals.
ExistingUnchecked ==
  /\ pc = "instance" /\ request.instance \in deployed
  /\ pc' = "ready"
  /\ UNCHANGED <<chain, db, journal, request, chunks, toldOk, orphans, stale>>

\* ensureInstance: the instance exists, and no proposal is about it: otherwise
\* the request is refused, unless the node lags or the read of the proposals fails.
Existing ==
  /\ pc = "instance" /\ request.instance \in deployed
  /\ stale' = (stale \/ proposed[request.instance] > 0)
  /\ pc' = "ready"
  /\ UNCHANGED <<chain, db, journal, request, chunks, toldOk, orphans>>

\* The instance has no code, or none yet at a lagging node: it is deployed.
Deploy ==
  /\ pc = "instance"
  /\ stale' = (stale \/ request.instance \in deployed)
  /\ Sponsor("deploy")

\* A plausible slip: a request that cannot settle everything settles nothing.
SettlesIfEnough == left <= SettleLimit /\ chunks < SettleLimit

\* One request settles a bounded number of chunks.
SettlesMore == chunks < SettleLimit

\* The simulated execute says RetentionUnsettled.
SettleChunk ==
  /\ pc = "ready" /\ request.op = "execute" /\ left > 0
  /\ SettlesMore
  /\ Sponsor("settle")
  /\ UNCHANGED stale

\* The simulation passes, at a node that may lag.
Submit ==
  /\ pc = "ready"
  /\ Sponsor("intent")
  /\ UNCHANGED stale

---------------------------------------------------------------------------
(* The chain *)

Executable(q) ==
  /\ q.nonce = nonce[q.member]
  /\ q.member \in delegated \/ q.attached
  /\ q.op = "deposit" => wallet[q.member] >= Amount
  /\ q.op = "execute" => left = 0 /\ ~executed

\* What a transaction does.  An instance is deployed once, and an intent that
\* proposes deploys it if it is not there.
Execute(kind, q) ==
  LET does(op) == kind = "intent" /\ q.op = op
  IN /\ kind = "intent" => Executable(q)
     /\ nonce' = IF kind = "intent" THEN [nonce EXCEPT ![q.member] = @ + 1] ELSE nonce
     /\ given' = given + IF kind = "transfer" THEN q.amount ELSE 0
     /\ wallet' = [wallet EXCEPT ![q.member] =
                     @ + (IF kind = "transfer" THEN q.amount ELSE 0)
                       - (IF does("deposit") THEN Amount ELSE 0)]
     /\ deployed' = IF kind = "deploy" \/ does("propose") THEN deployed \union {q.instance}
                    ELSE deployed
     /\ proposed' = IF does("propose") THEN [proposed EXCEPT ![q.instance] = @ + 1] ELSE proposed
     /\ left' = IF kind = "settle" /\ left > 0 THEN left - 1 ELSE left
     /\ executed' = (executed \/ does("execute"))

\* The journaled transaction is mined.  An authorization takes effect even in
\* one that reverts.
Mined(status) ==
  /\ journal # None /\ journal.status = "sent"
  /\ journal' = [journal EXCEPT !.status = status]
  /\ delegated' = IF journal.kind = "delegate" \/ (journal.kind = "intent" /\ journal.request.attached)
                  THEN delegated \union {journal.request.member} ELSE delegated
  /\ UNCHANGED <<grown, db, process, toldOk, orphans, stale>>

Succeeds == Mined("success") /\ Execute(journal.kind, journal.request)

\* The delegation rides on a transfer of nothing, which cannot revert.
Reverts ==
  /\ journal # None /\ journal.kind # "delegate"
  /\ Mined("reverted")
  /\ UNCHANGED <<nonce, wallet, given, deployed, proposed, left, executed>>

\* Others move shares: the journal grows while it is settled.
JournalGrows ==
  /\ ~executed /\ grown < MaxChunks
  /\ grown' = grown + 1 /\ left' = left + 1
  /\ UNCHANGED <<delegated, nonce, wallet, given, deployed, proposed, executed, db, journal,
                 process, toldOk, orphans, stale>>

---------------------------------------------------------------------------
(* The receipt *)

\* A preparation succeeded: the request goes on.
Prepared ==
  /\ pc = "mining" /\ journal.status = "success" /\ journal.kind # "intent"
  /\ journal' = None
  /\ pc' = IF journal.kind = "delegate" THEN "code" ELSE "ready"
  /\ chunks' = IF journal.kind = "settle" THEN chunks + 1 ELSE chunks
  /\ UNCHANGED <<chain, db, request, toldOk, orphans, stale>>

\* The intent succeeded: it is settled and recorded, then answered.
Answered ==
  /\ pc = "mining" /\ Ran
  /\ journal' = None
  /\ FillRow /\ Record /\ Ok
  /\ UNCHANGED <<chain, orphans, stale>>

\* A reverted transaction fails the request; an intent's is recorded.
Refused ==
  /\ pc = "mining" /\ journal.status = "reverted"
  /\ journal' = None
  /\ IF journal.kind = "intent" THEN Record ELSE UNCHANGED <<recorded, passes, debited>>
  /\ End
  /\ UNCHANGED <<chain, rows, toldOk, orphans, stale>>

---------------------------------------------------------------------------
Init ==
  /\ delegated = {} /\ nonce = [m \in Members |-> 0] /\ wallet = [m \in Members |-> 0]
  /\ given = 0 /\ deployed = {} /\ proposed = [i \in Instances |-> 0]
  /\ left = 0 /\ grown = 0 /\ executed = FALSE
  /\ recorded = {} /\ passes = {} /\ debited = 0 /\ rows = {}
  /\ journal = None /\ pc = "idle" /\ request = None /\ chunks = 0
  /\ toldOk = {} /\ orphans = {} /\ stale = FALSE

Identify == \E attached \in BOOLEAN : ReadIdentity(attached)

Next ==
  \/ Recover \/ Fail
  \/ \E m \in Members, op \in Ops, i \in Instances \union {None}, signed \in 0..MaxIntents :
       Begin(m, op, i, signed)
  \/ AlreadyJoined \/ Delegate \/ Joined
  \/ Replay \/ Fresh \/ Identify
  \/ NoTopUp \/ \E needed \in 1..Amount : TopUp(needed)
  \/ Transfer \/ Existing \/ Deploy \/ SettleChunk \/ Submit
  \/ Succeeds \/ Reverts \/ JournalGrows
  \/ Prepared \/ Answered \/ Refused

Spec == Init /\ [][Next]_vars

\* A read of the account as it is now.
ReadNow == request.nonce = nonce[M] /\ ReadIdentity(M \notin delegated)

\* A member asks for the execution again and again, each time with an intent it
\* signs for the nonce of its account, and of what can fail on its way nothing
\* fails for ever: reads, transactions, receipts.
Fairness ==
  /\ WF_vars(Recover) /\ WF_vars(Fail) /\ WF_vars(Succeeds \/ Reverts)
  /\ SF_vars(\E m \in Members : Begin(m, "execute", None, nonce[m]))
  /\ SF_vars(pc = "lookup" /\ request.op = "execute" /\ request.nonce = nonce[M] /\ Fresh)
  /\ SF_vars(pc = "intent" /\ request.op = "execute" /\ ReadNow)
  /\ SF_vars(SettleChunk)
  /\ SF_vars(request # None /\ request.op = "execute" /\ Executable(request) /\ Submit)
  /\ SF_vars(journal # None /\ journal.request.op = "execute" /\ Succeeds)

FairSpec == Spec /\ Fairness

---------------------------------------------------------------------------
(* Properties *)

TypeOK ==
  /\ delegated \subseteq Members /\ recorded \subseteq Members /\ passes \subseteq T0
  /\ nonce \in [Members -> 0..(MaxIntents + 1)] /\ wallet \in [Members -> 0..FaucetCap]
  /\ given \in Nat /\ debited \in Nat /\ rows \subseteq Envelopes
  /\ deployed \subseteq Instances /\ proposed \in [Instances -> Nat]
  /\ left \in 0..grown /\ grown \in 0..MaxChunks /\ executed \in BOOLEAN
  /\ journal \in Transactions \union {None}
  /\ pc \in {"idle", "join", "code", "lookup", "intent", "faucet", "transfer", "instance", "ready",
            "mining"}
  /\ request \in Requests \union {None} /\ (request = None <=> pc = "idle")
  /\ pc = "mining" => journal # None /\ journal.request = request
  /\ chunks \in 0..SettleLimit
  /\ toldOk \subseteq Members /\ orphans \subseteq Members /\ stale \in BOOLEAN

OnItsWay == IF journal # None /\ journal.kind = "transfer" /\ journal.status = "sent"
            THEN journal.request.amount ELSE 0

\* The faucet gives no more than the day's cap, however often a request dies
\* between the debit, the transfer and the deposit and is sent again: what was
\* given or is on its way has been debited before (server.ts, faucet).
FaucetCovered == given + OnItsWay <= debited /\ debited <= FaucetCap

\* A member the relay remembers: a T0 member as one whose key it holds.
Remembered(m) == m \in recorded /\ (m \in T0 => m \in passes)

\* Whoever was answered ok is delegated and remembered, whichever of join, a second
\* join, an intent that delegates or one that is sent again it was and whatever died
\* before; but for those whose intent ran after its own request was gone.  The next
\* request settles that one and records nobody, and the same envelope is then answered
\* ok from its row (server.ts, join, record, recoverPending, submit).
AnsweredRecorded ==
  \A m \in toldOk : m \in delegated /\ (Remembered(m) \/ m \in orphans)

\* The relay never lets a template instance be proposed twice: not after a
\* timeout, not after a crash between deployment and proposal, nor when the first
\* proposal is still in the journal; only a node that lags or a read that fails can
\* hide the first (server.ts, ensureInstance: "must be refused, not funded twice").
ProposedOnce == ~stale => \A i \in Instances : proposed[i] <= 1

\* An execute that is asked for again gets through, although one request settles
\* only so many chunks, requests die on the way and the journal grows: what was
\* settled stays settled (server.ts, submit: "progress survives a retry").
ExecuteGetsThrough == <>executed

---------------------------------------------------------------------------
(* What the documentation says and the code does not do *)

\* custodyOf, of an address that asked for nothing yet or was served.
CustodyOf(m) == IF m \in passes THEN "custodial-lite" ELSE "self-custody"

\* server.ts, handle: "an address the relay can sign for is never published as
\* self-custody".  A T0 member's join or first intent is mined while its request dies
\* or times out; the next request settles the transaction and records nobody, and even
\* an answer of ok to the same intent sent again does not.
CustodyTold ==
  pc = "idle" /\ journal = None =>
    \A m \in T0 \intersect delegated : CustodyOf(m) = "custodial-lite"
=============================================================================
