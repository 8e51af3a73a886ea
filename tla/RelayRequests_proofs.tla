------------------------ MODULE RelayRequests_proofs ------------------------
(***************************************************************************)
(* What the relay's requests keep true, for any members, instances, caps   *)
(* and bounds, and however often a request dies between two transactions.  *)
(***************************************************************************)
EXTENDS RelayRequests, TLAPS

---------------------------------------------------------------------------
(* The invariant *)

Types ==
  /\ given \in Nat /\ debited \in Nat
  /\ proposed \in [Instances -> Nat]
  /\ stale \in BOOLEAN
  /\ pc # "idle" => request \in Requests
  /\ journal # None => journal \in Transactions

\* A request that waits for a receipt waits for the journal's; one that does
\* something else has found the journal empty or emptied it.
Waiting ==
  /\ pc = "mining" => journal # None /\ journal.request = request
  /\ pc \notin {"idle", "mining"} => journal = None

\* Where a request is, and what it sponsored, tell what it asked for.
Path ==
  /\ pc \in {"join", "code"} => request.op = "join"
  /\ pc \in {"faucet", "transfer"} => request.op = "deposit"
  /\ pc = "instance" => request.op = "propose"
  /\ pc # "idle" /\ request.op = "propose" => request.instance \in Instances
  /\ journal # None =>
       /\ journal.kind = "delegate" => journal.request.op = "join"
       /\ journal.kind = "transfer" => journal.request.op = "deposit"
       /\ journal.kind = "settle" => journal.request.op = "execute"
       /\ journal.kind = "deploy" => journal.request.op = "propose"
       /\ journal.request.op = "propose" => journal.request.instance \in Instances

\* A debit waits for its transfer to be signed.
Awaiting == IF pc = "transfer" THEN request.amount ELSE 0

Covered == given + OnItsWay + Awaiting <= debited /\ debited <= FaucetCap

\* An intent that ran, ran on an account that carries the adapter.
RanDelegated ==
  journal # None /\ journal.kind = "intent" /\ journal.status = "success" =>
    journal.request.member \in delegated

\* Nobody has proposed the instance a request is about to propose, as long as
\* no lagging node or failed read hid that.
Unproposed ==
  /\ \A i \in Instances : proposed[i] > 0 => i \in deployed
  /\ ~stale /\ pc = "ready" /\ request.op = "propose" => proposed[request.instance] = 0
  /\ ~stale /\ journal # None /\ journal.request.op = "propose"
       /\ (journal.kind = "deploy" \/ journal.status = "sent")
     => proposed[journal.request.instance] = 0

\* The same may be said of whoever has a row, for the row is an answer of ok to come.
Accounted(m) == m \in delegated /\ (Remembered(m) \/ m \in orphans)

RowsRecorded == \A e \in rows : Accounted(e.member)

IInv == Types /\ Waiting /\ Path /\ Covered /\ AnsweredRecorded /\ RowsRecorded /\ RanDelegated
        /\ Unproposed /\ ProposedOnce
---------------------------------------------------------------------------
(* Steps *)

LEMMA InitInvariant == Init => IInv
<1> USE DEF Init
<1>7. Init => given \in Nat /\ debited \in Nat /\ proposed \in [Instances -> Nat]
  OBVIOUS
<1>8. Init => stale \in BOOLEAN /\ pc = "idle" /\ journal = None
  OBVIOUS
<1>4. Init => Types
  BY <1>7, <1>8 DEF Types
<1>5. Init => Waiting
  BY DEF Waiting
<1>6. Init => Path
  BY DEF Path
<1>1. Init => RanDelegated
  BY DEF RanDelegated
<1>2. Init => Covered
  BY AmountsAssumption DEF Covered, Awaiting, OnItsWay
<1>3. Init => AnsweredRecorded /\ RowsRecorded /\ Unproposed /\ ProposedOnce
  BY DEF AnsweredRecorded, RowsRecorded, Unproposed, ProposedOnce
<1> QED
  BY <1>1, <1>2, <1>3, <1>4, <1>5, <1>6 DEF IInv

\* A request ends without an answer, or the journal of a dead one is settled.
LEMMA NothingDone ==
  ASSUME IInv, Recover \/ Fail
  PROVE  IInv'
<1> USE DEF IInv, Recover, Fail, FillRow, Ran, Envelope, End, chain, db, process
<1>1. Types' /\ Waiting' /\ Path' /\ RanDelegated'
  BY DEF Types, Waiting, Path, RanDelegated
<1>2. Covered'
  BY AmountsAssumption DEF Covered, Awaiting, OnItsWay, Types, Requests, Transactions
<1>3. Unproposed' /\ ProposedOnce'
  BY DEF Unproposed, ProposedOnce
<1>4. AnsweredRecorded' /\ RowsRecorded'
  <2> USE DEF AnsweredRecorded, RowsRecorded, Accounted, Remembered
  <2>1. CASE Fail
    BY <2>1
  <2>2. CASE Recover
    <3>1. /\ Ran => journal.request.member \in delegated
          /\ \A e \in rows' : e \in rows \/ (Ran /\ e.member = journal.request.member)
      BY <2>2 DEF RanDelegated
    <3>2. /\ delegated' = delegated /\ recorded' = recorded /\ passes' = passes /\ toldOk' = toldOk
          /\ orphans \subseteq orphans' /\ (Ran => journal.request.member \in orphans')
      BY <2>2
    <3> QED
      BY <3>1, <3>2
  <2> QED
    BY <2>1, <2>2
<1> QED
  BY <1>1, <1>2, <1>3, <1>4

LEMMA BeginStep ==
  ASSUME IInv, NEW m \in Members, NEW op \in Ops, NEW i \in Instances \union {None},
         NEW signed \in 0..MaxIntents, Begin(m, op, i, signed)
  PROVE  IInv'
<1> USE DEF IInv, Begin, chain, db
<1>1. Types' /\ Waiting'
  BY AmountsAssumption DEF Types, Waiting, Requests, Ops
<1>2. Path' /\ RanDelegated'
  BY DEF Path, RanDelegated
<1>3. Covered'
  BY DEF Covered, Awaiting, OnItsWay
<1>4. AnsweredRecorded' /\ RowsRecorded' /\ Unproposed' /\ ProposedOnce'
  BY DEF AnsweredRecorded, RowsRecorded, Accounted, Remembered, Unproposed, ProposedOnce
<1> QED
  BY <1>1, <1>2, <1>3, <1>4

\* A member is answered without a transaction.
LEMMA JoinStep ==
  ASSUME IInv, AlreadyJoined \/ Joined
  PROVE  IInv'
<1> USE DEF IInv, AlreadyJoined, Joined, Record, Ok, End, M, chain
<1>1. Types' /\ Waiting' /\ Path' /\ RanDelegated'
  BY DEF Types, Waiting, Path, RanDelegated
<1>2. Covered'
  BY DEF Covered, Awaiting, OnItsWay
<1>3. AnsweredRecorded' /\ RowsRecorded' /\ Unproposed' /\ ProposedOnce'
  BY DEF AnsweredRecorded, RowsRecorded, Accounted, Remembered, Unproposed, ProposedOnce
<1> QED
  BY <1>1, <1>2, <1>3

\* The lookup of the envelope: its row is the answer, or the request goes on.
LEMMA LookupStep ==
  ASSUME IInv, Replay \/ Fresh
  PROVE  IInv'
<1> USE DEF IInv, Replay, Fresh, Ok, End, M, Envelope, chain, db
<1>1. Types' /\ Waiting' /\ Path' /\ RanDelegated'
  BY DEF Types, Waiting, Path, RanDelegated
<1>2. Covered'
  BY DEF Covered, Awaiting, OnItsWay
<1>3. AnsweredRecorded' /\ RowsRecorded' /\ Unproposed' /\ ProposedOnce'
  BY DEF AnsweredRecorded, RowsRecorded, Accounted, Remembered, Unproposed, ProposedOnce
<1> QED
  BY <1>1, <1>2, <1>3

\* A step of submit before anything is sent.
LEMMA IdentityStep ==
  ASSUME IInv, NEW attached \in BOOLEAN, ReadIdentity(attached)
  PROVE  IInv'
<1> USE DEF IInv, ReadIdentity, chain, db
<1>1. request \in Requests /\ journal = None
  BY AmountsAssumption DEF Types, Waiting
<1>2. request' \in Requests /\ request'.op = request.op /\ request'.instance = request.instance
  BY <1>1 DEF Requests
<1>3. pc' \in {"faucet", "instance", "ready"}
      /\ (pc' = "faucet" => request.op = "deposit")
      /\ (pc' = "instance" => request.op = "propose")
      /\ (pc' = "ready" => request.op # "propose")
  OBVIOUS
<1>4. Types' /\ Waiting' /\ Path' /\ RanDelegated'
  BY <1>1, <1>2, <1>3 DEF Types, Waiting, Path, RanDelegated
<1>5. Covered'
  BY <1>1, <1>3 DEF Covered, Awaiting, OnItsWay
<1>6. AnsweredRecorded' /\ RowsRecorded' /\ Unproposed' /\ ProposedOnce'
  BY <1>1, <1>2, <1>3 DEF AnsweredRecorded, RowsRecorded, Accounted, Remembered, Unproposed, ProposedOnce
<1> QED
  BY <1>4, <1>5, <1>6

LEMMA NoTopUpStep ==
  ASSUME IInv, NoTopUp
  PROVE  IInv'
<1> USE DEF IInv, NoTopUp, chain, db
<1>1. Types' /\ Waiting' /\ Path' /\ RanDelegated'
  BY DEF Types, Waiting, Path, RanDelegated
<1>2. Covered'
  BY DEF Covered, Awaiting, OnItsWay
<1>3. AnsweredRecorded' /\ RowsRecorded' /\ Unproposed' /\ ProposedOnce'
  BY DEF AnsweredRecorded, RowsRecorded, Accounted, Remembered, Unproposed, ProposedOnce, Path
<1> QED
  BY <1>1, <1>2, <1>3

\* The debit covers the transfer before it is signed.
LEMMA TopUpStep ==
  ASSUME IInv, NEW needed \in 1..Amount, TopUp(needed)
  PROVE  IInv'
<1> USE DEF IInv, TopUp, Debit, chain
<1>1. request \in Requests /\ journal = None /\ needed \in Nat /\ needed \in 0..Amount
  BY AmountsAssumption DEF Types, Waiting
<1>2. request' \in Requests /\ request'.op = request.op /\ request'.instance = request.instance
      /\ request'.amount = needed
  BY <1>1 DEF Requests
<1>3. Types' /\ Waiting' /\ Path' /\ RanDelegated'
  BY <1>1, <1>2 DEF Types, Waiting, Path, RanDelegated
<1>4. Covered'
  BY <1>1, <1>2, AmountsAssumption DEF Covered, Awaiting, OnItsWay, Types
<1>5. AnsweredRecorded' /\ RowsRecorded' /\ Unproposed' /\ ProposedOnce'
  BY <1>1, <1>2 DEF AnsweredRecorded, RowsRecorded, Accounted, Remembered, Unproposed, ProposedOnce
<1> QED
  BY <1>3, <1>4, <1>5

LEMMA ExistingStep ==
  ASSUME IInv, Existing
  PROVE  IInv'
<1> USE DEF IInv, Existing, chain, db
<1>1. request \in Requests /\ journal = None /\ request.op = "propose"
      /\ request.instance \in Instances
  BY DEF Types, Waiting, Path
<1>2. Types' /\ Waiting' /\ Path' /\ RanDelegated'
  BY DEF Types, Waiting, Path, RanDelegated
<1>3. Covered'
  BY DEF Covered, Awaiting, OnItsWay
<1>6. proposed[request.instance] \in Nat
  BY <1>1 DEF Types
<1>7. ~stale' => ~stale /\ ~(proposed[request.instance] > 0)
  OBVIOUS
<1>4. ~stale' => ~stale /\ proposed[request.instance] = 0
  BY <1>6, <1>7
<1>5. AnsweredRecorded' /\ RowsRecorded' /\ Unproposed' /\ ProposedOnce'
  BY <1>1, <1>4 DEF AnsweredRecorded, RowsRecorded, Accounted, Remembered, Unproposed, ProposedOnce
<1> QED
  BY <1>2, <1>3, <1>5

---------------------------------------------------------------------------
(* Sponsored transactions *)

\* What holds for any kind of transaction, if it fits the request.
LEMMA SponsorStep ==
  ASSUME IInv, NEW kind \in Kinds, Sponsor(kind), stale' \in BOOLEAN, stale => stale',
         pc \notin {"idle", "mining"},
         kind = "transfer" <=> pc = "transfer",
         kind = "delegate" => request.op = "join",
         kind = "settle" => request.op = "execute",
         kind = "deploy" => request.op = "propose",
         ~stale' /\ request.op = "propose" => proposed[request.instance] = 0
  PROVE  IInv'
<1> USE DEF IInv, Sponsor, chain, db
<1>1. request \in Requests /\ journal = None
  BY DEF Types, Waiting
<1>2. journal' = [kind |-> kind, request |-> request, status |-> "sent"]
      /\ journal' \in Transactions /\ journal' # None /\ pc' = "mining" /\ request' = request
  BY <1>1, NoneAssumption DEF Transactions
<1>3. journal'.kind = kind /\ journal'.request = request /\ journal'.status = "sent"
  BY <1>2
<1>4. Types' /\ Waiting'
  BY <1>2, <1>3 DEF Types, Waiting
<1>5. Path' /\ RanDelegated'
  BY <1>2, <1>3 DEF Path, RanDelegated
<1>6. Covered'
  <2>1. OnItsWay = 0 /\ Awaiting \in Nat
    BY <1>1, AmountsAssumption DEF OnItsWay, Awaiting, Requests
  <2>2. Awaiting' = 0 /\ OnItsWay' \in {0, Awaiting}
    BY <1>2, <1>3 DEF OnItsWay, Awaiting
  <2>3. given' = given /\ debited' = debited /\ given \in Nat
        /\ given + OnItsWay + Awaiting <= debited /\ debited <= FaucetCap /\ debited \in Nat
    BY DEF Covered, Types
  <2>5. CASE OnItsWay' = 0
    BY <2>1, <2>2, <2>3, <2>5 DEF Covered
  <2>6. CASE OnItsWay' = Awaiting
    BY <2>1, <2>2, <2>3, <2>6 DEF Covered
  <2> QED
    BY <2>2, <2>5, <2>6
<1>7. AnsweredRecorded' /\ RowsRecorded' /\ Unproposed' /\ ProposedOnce'
  BY <1>2, <1>3 DEF AnsweredRecorded, RowsRecorded, Accounted, Remembered, Unproposed, ProposedOnce
<1> QED
  BY <1>4, <1>5, <1>6, <1>7

LEMMA SendStep ==
  ASSUME IInv, Delegate \/ Transfer \/ Deploy \/ SettleChunk \/ Submit
  PROVE  IInv'
<1> USE DEF IInv, Kinds
<1>1. CASE Delegate
  <2>1. pc = "join" /\ request.op = "join" /\ Sponsor("delegate") /\ stale' = stale
    BY <1>1 DEF Delegate, Path
  <2>2. stale' \in BOOLEAN /\ (stale => stale')
    BY <2>1 DEF Types
  <2> QED
    BY <2>1, <2>2, SponsorStep
<1>2. CASE Transfer
  <2>1. pc = "transfer" /\ request.op = "deposit" /\ Sponsor("transfer") /\ stale' = stale
    BY <1>2 DEF Transfer, Path
  <2>2. stale' \in BOOLEAN /\ (stale => stale')
    BY <2>1 DEF Types
  <2> QED
    BY <2>1, <2>2, SponsorStep
<1>3. CASE Deploy
  <2>1. pc = "instance" /\ request.op = "propose" /\ request.instance \in Instances
        /\ Sponsor("deploy") /\ stale' = (stale \/ request.instance \in deployed)
    BY <1>3 DEF Deploy, Path
  <2>2. stale' \in BOOLEAN /\ (stale => stale')
    BY <2>1 DEF Types
  <2>3. ~stale' => ~(proposed[request.instance] > 0)
    BY <2>1 DEF Unproposed
  <2>4. proposed[request.instance] \in Nat
    BY <2>1 DEF Types
  <2>5. ~stale' => proposed[request.instance] = 0
    BY <2>3, <2>4
  <2> QED
    BY <2>1, <2>2, <2>5, SponsorStep
<1>4. CASE SettleChunk
  <2>1. pc = "ready" /\ request.op = "execute" /\ Sponsor("settle") /\ stale' = stale
    BY <1>4 DEF SettleChunk
  <2>2. stale' \in BOOLEAN /\ (stale => stale')
    BY <2>1 DEF Types
  <2> QED
    BY <2>1, <2>2, SponsorStep
<1>5. CASE Submit
  <2>1. pc = "ready" /\ Sponsor("intent") /\ stale' = stale
    BY <1>5 DEF Submit
  <2>2. stale' \in BOOLEAN /\ (stale => stale')
    BY <2>1 DEF Types
  <2>3. ~stale' /\ request.op = "propose" => proposed[request.instance] = 0
    BY <2>1 DEF Unproposed
  <2> QED
    BY <2>1, <2>2, <2>3, SponsorStep
<1> QED
  BY <1>1, <1>2, <1>3, <1>4, <1>5

---------------------------------------------------------------------------
(* The chain *)

\* The journal after its transaction is mined.
LEMMA MinedJournal ==
  ASSUME IInv, NEW status \in {"success", "reverted"}, Mined(status)
  PROVE  /\ journal \in Transactions /\ journal' \in Transactions /\ journal'.status = status
         /\ journal'.kind = journal.kind /\ journal'.request = journal.request
         /\ journal.status = "sent" /\ journal # None /\ journal' # None
BY NoneAssumption DEF IInv, Types, Mined, Transactions

\* What mining leaves alone.
LEMMA MinedStep ==
  ASSUME IInv, NEW status \in {"success", "reverted"}, Mined(status)
  PROVE  /\ Waiting' /\ Path' /\ Awaiting' = Awaiting
         /\ AnsweredRecorded' /\ RowsRecorded'
         /\ pc' = pc /\ request' = request /\ stale' = stale /\ debited' = debited
<1> USE DEF IInv
<1>1. pc' = pc /\ request' = request /\ stale' = stale /\ debited' = debited
      /\ recorded' = recorded /\ passes' = passes /\ rows' = rows
      /\ toldOk' = toldOk /\ orphans' = orphans
      /\ delegated \subseteq delegated'
  BY DEF Mined, process, db
<1>2. Waiting'
  BY <1>1, MinedJournal DEF Waiting
<1>3. Path'
  BY <1>1, MinedJournal DEF Path
<1>4. Awaiting' = Awaiting
  BY <1>1 DEF Awaiting
<1>5. AnsweredRecorded' /\ RowsRecorded'
  BY <1>1 DEF AnsweredRecorded, RowsRecorded, Accounted, Remembered
<1> QED
  BY <1>1, <1>2, <1>3, <1>4, <1>5

LEMMA RevertsStep ==
  ASSUME IInv, Reverts
  PROVE  IInv'
<1> USE DEF IInv
<1>1. Mined("reverted") /\ given' = given /\ deployed' = deployed /\ proposed' = proposed
  BY DEF Reverts
<1>2. Types'
  BY <1>1, MinedJournal, MinedStep DEF Types
<1>3. Covered'
  <2>1. OnItsWay' = 0 /\ OnItsWay \in Nat /\ Awaiting \in Nat
    BY <1>1, MinedJournal, AmountsAssumption
       DEF OnItsWay, Awaiting, Types, Transactions, Requests
  <2> QED
    BY <1>1, <2>1, MinedStep DEF Covered, Types
<1>4. RanDelegated'
  BY <1>1, MinedJournal DEF RanDelegated
<1>5. Unproposed' /\ ProposedOnce'
  BY <1>1, MinedJournal, MinedStep DEF Unproposed, ProposedOnce
<1> QED
  BY <1>1, <1>2, <1>3, <1>4, <1>5, MinedStep

LEMMA SucceedsStep ==
  ASSUME IInv, Succeeds
  PROVE  IInv'
<1> USE DEF IInv
<1> DEFINE kind == journal.kind
           q == journal.request
<1>1. Mined("success") /\ Execute(kind, q)
  BY DEF Succeeds
<1>2. kind \in Kinds /\ q \in Requests /\ q.amount \in Nat
  BY <1>1, MinedJournal, AmountsAssumption DEF Transactions, Requests
<1>3. given' = given + (IF kind = "transfer" THEN q.amount ELSE 0)
  BY <1>1 DEF Execute
<1>4. deployed \subseteq deployed'
  BY <1>1 DEF Execute
<1>5. ASSUME kind = "intent" /\ q.op = "propose"
      PROVE  proposed' \in [Instances -> Nat] /\ Unproposed' /\ ProposedOnce'
  <2>1. q.instance \in Instances
    BY <1>1, <1>5, MinedJournal DEF Path
  <2>2. proposed' = [proposed EXCEPT ![q.instance] = @ + 1] /\ q.instance \in deployed'
    BY <1>1, <1>5 DEF Execute
  <2>3. proposed' \in [Instances -> Nat]
    BY <2>1, <2>2 DEF Types
  <2>4. ~stale => proposed[q.instance] = 0
    BY <1>1, <1>5, MinedJournal DEF Unproposed
  <2>5. \A i \in Instances : proposed'[i] = IF i = q.instance THEN proposed[i] + 1 ELSE proposed[i]
    BY <2>1, <2>2 DEF Types
  <2>6. ~stale => \A i \in Instances : proposed'[i] <= 1
    BY <2>4, <2>5 DEF ProposedOnce
  <2>7. \A i \in Instances : proposed'[i] > 0 => i \in deployed'
    BY <1>4, <2>2, <2>5 DEF Unproposed
  <2>8. journal'.kind = "intent" /\ journal'.status = "success" /\ pc # "ready"
    BY <1>1, <1>5, MinedJournal DEF Waiting
  <2>9. Unproposed' /\ ProposedOnce'
    BY <1>1, <2>6, <2>7, <2>8, MinedStep DEF Unproposed, ProposedOnce
  <2> QED
    BY <2>3, <2>9
<1>6. ASSUME ~(kind = "intent" /\ q.op = "propose")
      PROVE  proposed' \in [Instances -> Nat] /\ Unproposed' /\ ProposedOnce'
  <2>1. proposed' = proposed
    BY <1>1, <1>6 DEF Execute
  <2>2. Unproposed' /\ ProposedOnce'
    BY <1>1, <1>4, <2>1, MinedStep, MinedJournal DEF Unproposed, ProposedOnce
  <2> QED
    BY <2>1, <2>2 DEF Types
<1>7. proposed' \in [Instances -> Nat] /\ Unproposed' /\ ProposedOnce'
  BY <1>5, <1>6
<1>8. given' \in Nat
  BY <1>2, <1>3 DEF Types
<1>9. Types'
  BY <1>1, <1>7, <1>8, MinedJournal, MinedStep DEF Types
<1>10. Covered'
  <2>1. OnItsWay' = 0 /\ OnItsWay = (IF kind = "transfer" THEN q.amount ELSE 0)
    BY <1>1, MinedJournal DEF OnItsWay
  <2>2. Awaiting \in Nat
    BY AmountsAssumption DEF Awaiting, Types, Requests
  <2> QED
    BY <1>1, <1>2, <1>3, <2>1, <2>2, MinedStep DEF Covered, Types
<1>11. RanDelegated'
  <2>1. kind = "intent" => q.member \in delegated \/ q.attached
    BY <1>1 DEF Execute, Executable
  <2>2. kind = "intent" => q.member \in delegated'
    BY <1>1, <2>1 DEF Mined
  <2> QED
    BY <1>1, <2>2, MinedJournal DEF RanDelegated
<1> QED
  BY <1>1, <1>7, <1>9, <1>10, <1>11, MinedStep

LEMMA GrowsStep ==
  ASSUME IInv, JournalGrows
  PROVE  IInv'
BY DEF IInv, JournalGrows, db, process, Types, Waiting, Path, Covered, Awaiting, OnItsWay,
       AnsweredRecorded, RowsRecorded, Accounted, Remembered, RanDelegated,
       Unproposed, ProposedOnce

---------------------------------------------------------------------------
(* Receipts *)

LEMMA ReceiptStep ==
  ASSUME IInv, Prepared \/ Answered \/ Refused
  PROVE  IInv'
<1> USE DEF IInv
<1>1. /\ pc = "mining" /\ request \in Requests /\ journal # None /\ journal \in Transactions
      /\ journal.request = request /\ journal' = None
      /\ given' = given /\ debited' = debited /\ deployed' = deployed /\ proposed' = proposed
      /\ stale' = stale /\ delegated' = delegated
  BY DEF Prepared, Answered, Ran, Refused, Record, Ok, End, chain, db, Types, Waiting
<1>2. \/ pc' = "idle"
      \/ /\ request' = request /\ pc' \in {"code", "ready"}
         /\ pc' = "code" <=> journal.kind = "delegate"
         /\ journal.kind # "intent" /\ journal.status = "success"
  BY DEF Prepared, Answered, Refused, Ok, End
<1>3. Types' /\ Waiting' /\ RanDelegated'
  BY <1>1, <1>2 DEF Types, Waiting, RanDelegated
<1>9. pc' = "idle" \/ (request' = request /\ (pc' = "code" => request.op = "join"))
  BY <1>1, <1>2 DEF Path
<1>4. Path'
  BY <1>1, <1>2, <1>9 DEF Path
<1>5. Covered'
  <2>1. OnItsWay' = 0 /\ OnItsWay \in Nat /\ Awaiting' = 0 /\ Awaiting = 0
    BY <1>1, <1>2, AmountsAssumption DEF OnItsWay, Awaiting, Transactions, Requests
  <2> QED
    BY <1>1, <2>1 DEF Covered, Types
<1>6. AnsweredRecorded' /\ RowsRecorded'
  <2> USE DEF AnsweredRecorded, RowsRecorded, Accounted, Remembered
  <2>1. CASE Prepared
    BY <2>1 DEF Prepared, chain, db
  <2>2. CASE Refused
    BY <2>2 DEF Refused, Record, End, M, chain
  <2>3. CASE Answered
    <3>1. M \in delegated /\ Envelope(request).member = M
      BY <1>1, <2>3 DEF Answered, RanDelegated, Ran, Envelope, M
    <3>2. /\ recorded' = recorded \union {M} /\ passes' = passes \union ({M} \intersect T0)
          /\ rows' = rows \union {Envelope(request)} /\ toldOk' = toldOk \union {M}
          /\ orphans' = orphans /\ delegated' = delegated
      BY <1>1, <2>3 DEF Answered, FillRow, Record, Ok, chain
    <3> QED
      BY <3>1, <3>2
  <2> QED
    BY <2>1, <2>2, <2>3
<1>7. pc' = "ready" /\ request'.op = "propose" => request' = request /\ journal.kind = "deploy"
  BY <1>1, <1>2 DEF Path, Transactions, Kinds
<1>8. Unproposed' /\ ProposedOnce'
  BY <1>1, <1>7 DEF Unproposed, ProposedOnce
<1> QED
  BY <1>3, <1>4, <1>5, <1>6, <1>8

---------------------------------------------------------------------------
(* Theorems *)

\* Every step of a request, of the chain and of a death between them keeps it.
LEMMA NextInvariant == IInv /\ [Next]_vars => IInv'
<1> SUFFICES ASSUME IInv, [Next]_vars PROVE IInv'
  OBVIOUS
<1>1. CASE UNCHANGED vars
  BY <1>1 DEF vars, chain, db, process, IInv, Types, Waiting, Path, Covered, Awaiting, OnItsWay,
              AnsweredRecorded, RowsRecorded, Accounted, Remembered, RanDelegated,
       Unproposed, ProposedOnce
<1>2. CASE Identify
  BY <1>2, IdentityStep DEF Identify
<1>3. CASE \E needed \in 1..Amount : TopUp(needed)
  BY <1>3, TopUpStep
<1>4. CASE \E m \in Members, op \in Ops, i \in Instances \union {None}, signed \in 0..MaxIntents :
             Begin(m, op, i, signed)
  BY <1>4, BeginStep
<1> QED
  BY <1>1, <1>2, <1>3, <1>4, NothingDone, JoinStep, LookupStep, NoTopUpStep, ExistingStep, SendStep,
     SucceedsStep, RevertsStep, GrowsStep, ReceiptStep DEF Next

\* The invariant of the requests: what db.json, the journal and the request in
\* progress say of the chain at every point where the process may die.
THEOREM RequestsInvariant == Spec => []IInv
BY InitInvariant, NextInvariant, PTL DEF Spec

\* Whatever dies between the debit, the transfer and the deposit, the faucet never
\* gives more than it debited, nor more than the cap (server.ts, faucet).
THEOREM FaucetIsCovered == Spec => []FaucetCovered
<1>1. IInv => FaucetCovered
  <2>1. IInv => Awaiting \in Nat
    BY AmountsAssumption DEF IInv, Types, Awaiting, Requests
  <2>2. IInv => OnItsWay \in Nat
    BY AmountsAssumption DEF IInv, Types, OnItsWay, Requests, Transactions
  <2> QED
    BY <2>1, <2>2 DEF IInv, Covered, Types, FaucetCovered
<1> QED
  BY <1>1, RequestsInvariant, PTL

\* A member who was answered ok is delegated and on record, with the pass of a T0
\* member, unless an intent of it was settled by another request, which records nobody
\* (server.ts, record, join, recoverPending, submit).
THEOREM AnsweredIsRecorded == Spec => []AnsweredRecorded
<1>1. IInv => AnsweredRecorded
  BY DEF IInv
<1> QED
  BY <1>1, RequestsInvariant, PTL

\* No instance is proposed twice unless a lagging node or a failed read hid it
\* (server.ts, ensureInstance).
THEOREM InstancesAreProposedOnce == Spec => []ProposedOnce
<1>1. IInv => ProposedOnce
  BY DEF IInv
<1> QED
  BY <1>1, RequestsInvariant, PTL
=============================================================================
