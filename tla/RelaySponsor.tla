---------------------------- MODULE RelaySponsor ----------------------------
(***************************************************************************)
(* relay/server.ts: how the relay turns members' signed intents into       *)
(* transactions of its one sponsor account, and how it survives crashes    *)
(* and a failing RPC node with two files, db.json and sponsor-pending.json *)
(* (the journal).                                                          *)
(*                                                                         *)
(* Requests run one at a time, under the queue and the cross-process lock, *)
(* so there is one request in progress; between two of its steps lies a    *)
(* write to a file or an answer of the node.  At every such point db.json  *)
(* holds what the process holds in memory.  A crash loses the request in   *)
(* progress and keeps the files.  A failure inside a request that leaves   *)
(* it where it is has the same effect.                                     *)
(* Intents are known by their digest.  Signing is deterministic: a         *)
(* transaction is its nonce and what it does, and so is its hash.          *)
(* Left out: the rate windows and the faucet's USDC budget, the change of  *)
(* the day (every budget row is one day's), accounts and passes, the       *)
(* contents of transactions, and reorganisations of the chain.             *)
(***************************************************************************)
EXTENDS Integers, Sequences, FiniteSetsExt

CONSTANTS Digests,     \* the signed intents that reach the relay
          NoDigest,    \* of a transaction that carries no intent
          None,
          Reserve,     \* tx.gas * policy.maxFeePerGas, debited before the broadcast
          Costs,       \* what a mined transaction may cost
          DailyWei,    \* policy.dailyWei
          MaxCrashes   \* bound: crashes in a behaviour

ASSUME DigestsAssumption == IsFiniteSet(Digests) /\ NoDigest \notin Digests
ASSUME BudgetAssumption ==
  /\ Reserve \in Nat /\ DailyWei \in Nat /\ MaxCrashes \in Nat
  /\ Costs # {} /\ Costs \subseteq 0..Reserve

VARIABLES
  requests,   \* db.json: requests[d], None or [hash, status]
  nextNonce,  \* db.json: nextSponsorNonce
  wei,        \* db.json: today's budget row
  settled,    \* db.json: the hash of the last transaction settled
  journal,    \* sponsor-pending.json
  pc,         \* where the request in progress is, "idle" when there is none
  stage,      \* which call of recoverPending it is in
  request,    \* the intent it serves, NoDigest for join
  signed,     \* the transaction it signed
  mempool,    \* the network: transactions waiting
  mined,      \* the chain: the sponsor's transactions, by nonce
  broadcast,  \* every transaction the network ever accepted
  answeredOk, \* the intents the relay answered ok
  told,       \* the intents whose member was given a hash
  readFailed, \* a receipt the node has could not be read
  crashes

db == <<requests, nextNonce, wei, settled>>
process == <<pc, stage, request, signed>>
network == <<mempool, mined, broadcast>>
answers == <<answeredOk, told, readFailed>>
vars == <<db, journal, process, network, answers, crashes>>

Transactions == [nonce: Nat, digest: Digests \union {NoDigest}]
Rows == [hash: Transactions \union {None}, status: {"pending", "success", "reverted"}]
Pending == [hash |-> None, status |-> "pending"]

ASSUME NoneAssumption == None \notin Transactions \union Rows

MinedTxs == {mined[i].tx : i \in 1..Len(mined)}
ReceiptOf(tx) == CHOOSE m \in {mined[i] : i \in 1..Len(mined)} : m.tx = tx
Executed(d) == \E i \in 1..Len(mined) : mined[i].tx.digest = d /\ mined[i].status = "success"

\* The node's pending transaction count, which a lagging node answers too low.
PendingCounts == 0..(Len(mined) + Cardinality({t \in mempool : t.nonce = Len(mined)}))

Larger(a, b) == IF a > b THEN a ELSE b

Goto(step) == pc' = step /\ UNCHANGED <<stage, request, signed>>

\* The request ends, with an answer or an error, or is lost in a crash.
End == pc' = "idle" /\ stage' = "recovery" /\ request' = NoDigest /\ signed' = None

---------------------------------------------------------------------------
(* recoverJournal: what every request starts with *)

\* A journal whose transaction is already settled in db.json is only cleared.
BeginSettled ==
  /\ pc = "idle"
  /\ journal # None /\ settled = journal
  /\ journal' = None
  /\ Goto("ready")
  /\ UNCHANGED <<db, network, answers, crashes>>

BeginRecovery ==
  /\ pc = "idle"
  /\ journal # None /\ settled # journal
  /\ Goto("recover")
  /\ UNCHANGED <<db, journal, network, answers, crashes>>

BeginClean ==
  /\ pc = "idle"
  /\ journal = None
  /\ Goto("drop")
  /\ UNCHANGED <<db, journal, network, answers, crashes>>

\* A pending request without a journal never reached the network.
DropStaleRows ==
  /\ pc = "drop"
  /\ requests' = [d \in Digests |-> IF requests[d] = Pending THEN None ELSE requests[d]]
  /\ Goto("ready")
  /\ UNCHANGED <<nextNonce, wei, settled, journal, network, answers, crashes>>

---------------------------------------------------------------------------
(* recoverPending: from a journal to a settled transaction *)

\* No receipt is read: the journaled bytes are sent again.  The node takes
\* them, or knows them already, or the call fails; the relay cannot tell.
Resend ==
  /\ pc = "recover"
  /\ Goto("wait")
  /\ UNCHANGED <<db, journal, mined, answers, crashes>>

\* A plausible slip: recovery only waits for what was sent before.
ResendAcceptedOnce ==
  /\ stage # "recovery"
  /\ Resend
  /\ broadcast' = broadcast \union {journal}
  /\ mempool' = IF journal \in MinedTxs THEN mempool ELSE mempool \union {journal}

ResendAccepted ==
  /\ Resend
  /\ broadcast' = broadcast \union {journal}
  /\ mempool' = IF journal \in MinedTxs THEN mempool ELSE mempool \union {journal}

ResendLost == Resend /\ UNCHANGED <<mempool, broadcast>>

\* A plausible slip: the waiting request forgets its row.
WaitFailsDropsRow ==
  /\ pc = "wait"
  /\ requests' = IF stage = "intent" THEN [requests EXCEPT ![request] = None] ELSE requests
  /\ told' = IF stage = "intent" THEN told \union {request} ELSE told
  /\ End
  /\ UNCHANGED <<nextNonce, wei, settled, journal, network, answeredOk, readFailed, crashes>>

\* The receipt does not come in time, or the node fails: the journal and the
\* row stay.  The error of a timeout names the hash.
WaitFails ==
  /\ pc = "wait"
  /\ told' = IF stage = "intent" THEN told \union {request} ELSE told
  /\ End
  /\ UNCHANGED <<db, journal, network, answeredOk, readFailed, crashes>>

\* A plausible slip: a transaction without an intent gets a row, too.
SettledRowsAny == [d \in Digests \union {journal.digest} |->
  IF d = journal.digest THEN [hash |-> journal, status |-> ReceiptOf(journal).status]
  ELSE requests[d]]

\* The rows once the journaled transaction is settled.
SettledRows == [d \in Digests |->
  IF d = journal.digest /\ requests[d] # None
  THEN [hash |-> journal, status |-> ReceiptOf(journal).status] ELSE requests[d]]

\* A plausible slip: the marker stays at the settlement before.
SettledMarkerOld == settled

\* The marker a crash before the journal is cleared finds in db.json.
SettledMarker == journal

\* The receipt is read: nonce, budget, row and settlement marker, one write.
Settle ==
  /\ pc \in {"recover", "wait"}
  /\ journal \in MinedTxs
  /\ nextNonce' = Larger(nextNonce, journal.nonce + 1)
  /\ wei' = wei - Reserve + ReceiptOf(journal).cost
  /\ requests' = SettledRows
  /\ settled' = SettledMarker
  /\ Goto("settled")
  /\ UNCHANGED <<journal, network, answers, crashes>>

\* The journal is cleared, and the caller of recoverPending goes on.  A prep
\* transaction that reverted fails the request.
ClearJournal ==
  /\ pc = "settled"
  /\ journal' = None
  /\ \/ stage = "recovery" /\ Goto("drop")
     \/ stage = "prep" /\ ReceiptOf(journal).status = "success" /\ Goto("checked")
     \/ stage = "prep" /\ ReceiptOf(journal).status = "reverted" /\ End
     \/ stage = "intent" /\ Goto("answer")
  /\ UNCHANGED <<db, network, answers, crashes>>

---------------------------------------------------------------------------
(* submit: one request *)

\* join, which carries no intent.
StartJoin ==
  /\ pc = "ready"
  /\ Goto("checked")
  /\ UNCHANGED <<db, journal, network, answers, crashes>>

\* A plausible slip: a replay is answered ok whatever became of the intent.
ReplayAlwaysOk(d) ==
  /\ pc = "ready"
  /\ requests[d] # None /\ requests[d].hash # None
  /\ answeredOk' = answeredOk \union {d}
  /\ told' = told \union {d}
  /\ End
  /\ UNCHANGED <<db, journal, network, readFailed, crashes>>

\* An intent with a recorded hash is answered from the receipt.
Replay(d) ==
  /\ pc = "ready"
  /\ requests[d] # None /\ requests[d].hash # None
  /\ answeredOk' = IF ReceiptOf(requests[d].hash).status = "success"
                   THEN answeredOk \union {d} ELSE answeredOk
  /\ told' = told \union {d}
  /\ End
  /\ UNCHANGED <<db, journal, network, readFailed, crashes>>

\* Otherwise it is served.  A row without a readable receipt is deleted.
StartIntent(d) ==
  /\ pc = "ready"
  /\ requests' = [requests EXCEPT ![d] = None]
  /\ readFailed' = (readFailed \/ (requests[d] # None /\ requests[d].hash # None))
  /\ pc' = "checked" /\ request' = d
  /\ UNCHANGED <<stage, signed, nextNonce, wei, settled, journal, network,
                 answeredOk, told, crashes>>

\* Any of the checks before signing fails, or join is done.
Reject ==
  /\ pc \in {"ready", "checked"}
  /\ End
  /\ UNCHANGED <<db, journal, network, answers, crashes>>

\* A transaction the intent needs first: faucet, template instance, a chunk of
\* settleRetention; or the delegation of join.
Prepare ==
  /\ pc = "checked"
  /\ pc' = "sign" /\ stage' = "prep"
  /\ UNCHANGED <<request, signed, db, journal, network, answers, crashes>>

\* The intent passes the identity, nonce and simulation checks, which a lagging
\* node lets an executed intent pass, and gets its row.
Accept ==
  /\ pc = "checked"
  /\ request # NoDigest
  /\ requests' = [requests EXCEPT ![request] = Pending]
  /\ pc' = "sign" /\ stage' = "intent"
  /\ UNCHANGED <<request, signed, nextNonce, wei, settled, journal, network, answers, crashes>>

\* sponsored refuses: today's budget or the sponsor's balance is too small, or
\* the node cannot say.
Refuse ==
  /\ pc = "sign"
  /\ requests' = IF stage = "intent" THEN [requests EXCEPT ![request] = None] ELSE requests
  /\ End
  /\ UNCHANGED <<nextNonce, wei, settled, journal, network, answers, crashes>>

\* A plausible slip: the node's pending count is taken as it comes.
NonceByCount(count) == count

\* The next nonce, from db.json and the node's pending count.
Nonce(count) == Larger(nextNonce, count)

\* The transaction is signed and its reserve debited in db.json.
Sign(count) ==
  /\ pc = "sign"
  /\ wei + Reserve <= DailyWei
  /\ signed' = [nonce |-> Nonce(count),
                digest |-> IF stage = "intent" THEN request ELSE NoDigest]
  /\ wei' = wei + Reserve
  /\ pc' = "journal"
  /\ UNCHANGED <<stage, request, requests, nextNonce, settled, journal, network, answers, crashes>>

\* The journal is written before the first broadcast.
WriteJournal ==
  /\ pc = "journal"
  /\ journal' = signed
  /\ Goto("recover")
  /\ UNCHANGED <<db, network, answers, crashes>>

\* The intent's receipt was read: the answer names the hash and the outcome.
Answer ==
  /\ pc = "answer"
  /\ answeredOk' = IF requests[request].status = "success"
                   THEN answeredOk \union {request} ELSE answeredOk
  /\ told' = told \union {request}
  /\ End
  /\ UNCHANGED <<db, journal, network, readFailed, crashes>>

\* The intent reverted and confirmReceipt cannot read the receipt again: the
\* error has no hash, the journal is clear, so the row is deleted.
ConfirmFails ==
  /\ pc = "answer"
  /\ requests[request].status = "reverted"
  /\ requests' = [requests EXCEPT ![request] = None]
  /\ readFailed' = TRUE
  /\ End
  /\ UNCHANGED <<nextNonce, wei, settled, journal, network, answeredOk, told, crashes>>

Crash ==
  /\ pc # "idle"
  /\ crashes < MaxCrashes
  /\ crashes' = crashes + 1
  /\ End
  /\ UNCHANGED <<db, journal, network, answers>>

---------------------------------------------------------------------------
(* The network *)

\* A block takes the sponsor's next transaction.  An intent executes once: its
\* account refuses a second use of the nonce.
Mine(tx) ==
  /\ tx \in mempool
  /\ tx.nonce = Len(mined)
  /\ \E status \in {"success", "reverted"}, cost \in Costs :
       /\ status = "success" => tx.digest = NoDigest \/ ~Executed(tx.digest)
       /\ mined' = Append(mined, [tx |-> tx, status |-> status, cost |-> cost])
  /\ mempool' = {t \in mempool : t.nonce # tx.nonce}
  /\ UNCHANGED <<db, journal, process, broadcast, answers, crashes>>

\* Nodes forget a transaction they hold.
Evict(tx) ==
  /\ tx \in mempool
  /\ mempool' = mempool \ {tx}
  /\ UNCHANGED <<db, journal, process, mined, broadcast, answers, crashes>>

---------------------------------------------------------------------------
Init ==
  /\ requests = [d \in Digests |-> None]
  /\ nextNonce = 0 /\ wei = 0 /\ settled = None /\ journal = None
  /\ pc = "idle" /\ stage = "recovery" /\ request = NoDigest /\ signed = None
  /\ mempool = {} /\ mined = <<>> /\ broadcast = {}
  /\ answeredOk = {} /\ told = {} /\ readFailed = FALSE
  /\ crashes = 0

Begin == BeginSettled \/ BeginRecovery \/ BeginClean

Next ==
  \/ Begin \/ DropStaleRows
  \/ ResendAccepted \/ ResendLost \/ WaitFails \/ Settle \/ ClearJournal
  \/ StartJoin \/ Reject \/ Prepare \/ Accept \/ Refuse
  \/ \E d \in Digests : Replay(d) \/ StartIntent(d)
  \/ \E count \in PendingCounts : Sign(count)
  \/ WriteJournal \/ Answer \/ ConfirmFails \/ Crash
  \/ \E tx \in mempool : Mine(tx) \/ Evict(tx)

Spec == Init /\ [][Next]_vars

\* Requests to /relay keep coming and the relay works on; a journaled transaction
\* that is resent for ever is taken by the node at last, mined at last, and its
\* receipt read at last.
Fairness ==
  /\ WF_vars(Begin) /\ WF_vars(DropStaleRows) /\ WF_vars(WriteJournal)
  /\ WF_vars(ClearJournal) /\ WF_vars(WaitFails)
  /\ SF_vars(ResendAccepted) /\ SF_vars(Settle)
  /\ SF_vars(\E tx \in mempool : Mine(tx))

FairSpec == Spec /\ Fairness

---------------------------------------------------------------------------
(* Properties *)

\* The files hold what the relay reads back: one row per intent, in the journal
\* a signed transaction or nothing, and only accepted transactions are mined.
TypeOK ==
  /\ requests \in [Digests -> Rows \union {None}]
  /\ nextNonce \in Nat /\ wei \in Int
  /\ settled \in Transactions \union {None} /\ journal \in Transactions \union {None}
  /\ pc \in {"idle", "drop", "ready", "checked", "sign", "journal", "recover", "wait",
             "settled", "answer"}
  /\ stage \in {"recovery", "prep", "intent"}
  /\ request \in Digests \union {NoDigest} /\ signed \in Transactions \union {None}
  /\ mempool \subseteq broadcast /\ MinedTxs \subseteq broadcast
  /\ broadcast \subseteq Transactions
  /\ answeredOk \subseteq Digests /\ told \subseteq Digests /\ readFailed \in BOOLEAN
  /\ crashes \in 0..MaxCrashes

\* The sponsor's nonces are used once and without a gap, whatever the node
\* answers and wherever the relay crashed: no transaction replaces another, and
\* none waits behind a nonce nobody uses (server.ts, recoverPending: "Never
\* select another nonce here").
NonceOnce ==
  /\ \A a \in broadcast, b \in broadcast : a.nonce = b.nonce => a = b
  /\ \A a \in broadcast : a.nonce <= Len(mined)

Paid == [i \in 1..Len(mined) |-> mined[i].cost]
Spent == MapThenSumSet(LAMBDA i : Paid[i], 1..Len(mined))
InFlight == Cardinality(broadcast \ MinedTxs)

\* The day's row covers what was spent and what may still be: every mined
\* transaction at its cost, every one in flight at its reserve, so the sponsor
\* never pays more than the daily budget, however often settling was cut short
\* (server.ts, sponsored, recoverPending, recoverJournal).
BudgetCovers == Spent + Reserve * InFlight <= wei /\ wei <= DailyWei

\* An ok answer means the intent is executed on the chain (docs/RELAY.md "an
\* intent is answered ok only after its transaction is on chain").
OkMeansExecuted == \A d \in answeredOk : Executed(d)

\* Crashes, timeouts and retries never broadcast an intent in two transactions,
\* even while a lagging node still lets it pass the nonce check; only a receipt
\* the node would not give again may (server.ts, submit, recoverPending).
BroadcastOnce ==
  ~readFailed => \A a \in broadcast, b \in broadcast :
    a.digest = b.digest /\ a.digest # NoDigest => a = b

Promise == INSTANCE SponsorJournal

\* The relay keeps what its two files promise, through every crash and whatever
\* the node answers: a transaction is journaled before it is sent, nothing else is
\* sent meanwhile, and it leaves the journal only when db.json has settled it
\* (server.ts, sponsored, recoverPending and recoverJournal).
JournalPromise == Promise!Spec

\* A journaled transaction settles: no crash, timeout or evicted transaction
\* leaves the relay stuck behind its journal (server.ts, recoverPending).
JournalSettles == journal # None ~> journal = None

---------------------------------------------------------------------------
(* What the documentation says and the code does not do *)

\* /pending.json: "anything listed nowhere was never broadcast", of a member who
\* has no hash.  The next request of anybody settles a transaction whose own
\* request died in a crash; it leaves both lists and its member got no hash
\* (server.ts, recoverPending).
UnlistedNeverBroadcast ==
  pc = "idle" =>
    \A tx \in broadcast :
      \/ tx.digest \in told \union {NoDigest}
      \/ requests[tx.digest] # None /\ requests[tx.digest].status = "pending"
      \/ journal # None /\ journal.digest = tx.digest
=============================================================================
