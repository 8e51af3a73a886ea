------------------------ MODULE RelaySponsor_proofs ------------------------
(***************************************************************************)
(* One relay over its two files, for any intents, costs, budget and number *)
(* of crashes: the invariant of crash recovery, and what follows from it,  *)
(* the budget of the day among it.                                         *)
(***************************************************************************)
EXTENDS RelaySponsor, SumFacts, TLAPS

Receipts == [tx: Transactions, status: {"success", "reverted"}, cost: Costs]

Types ==
  /\ requests \in [Digests -> Rows \union {None}]
  /\ nextNonce \in Nat
  /\ settled \in Transactions \union {None} /\ journal \in Transactions \union {None}
  /\ pc \in {"idle", "drop", "ready", "checked", "sign", "journal", "recover", "wait",
             "settled", "answer"}
  /\ stage \in {"recovery", "prep", "intent"}
  /\ request \in Digests \union {NoDigest}
  /\ broadcast \subseteq Transactions
  /\ mined \in Seq(Receipts)
  /\ readFailed \in BOOLEAN

\* Blocks take accepted transactions in the order of their nonces, and what waits
\* is not mined.
Network ==
  /\ mempool \subseteq broadcast
  /\ \A tx \in mempool : tx.nonce >= Len(mined)
  /\ \A i \in 1..Len(mined) : mined[i].tx \in broadcast /\ mined[i].tx.nonce = i - 1

\* The two files and the network: without a journal nothing is on its way, with one
\* nothing else is, and its nonce is the chain's next or its last.
Files ==
  /\ \A a, b \in broadcast : a.nonce = b.nonce => a = b
  /\ settled # None => settled.nonce < nextNonce
  /\ journal = None =>
       nextNonce = Len(mined) /\ \A tx \in broadcast : tx.nonce < Len(mined)
  /\ journal # None =>
       /\ \A tx \in broadcast : tx = journal \/ tx.nonce < journal.nonce
       /\ \/ journal \in MinedTxs /\ Len(mined) = journal.nonce + 1
          \/ journal \notin MinedTxs /\ Len(mined) = journal.nonce
       /\ settled = journal => journal \in MinedTxs /\ nextNonce = journal.nonce + 1
       /\ settled # journal => nextNonce = journal.nonce

\* What the request in progress knows of the files.
Progress ==
  /\ pc \in {"recover", "wait"} => journal # None /\ settled # journal
  /\ pc = "settled" => journal # None /\ settled = journal
  /\ pc \in {"drop", "ready", "checked", "sign", "journal", "answer"} => journal = None
  /\ pc = "journal" =>
       /\ signed \in Transactions /\ signed.nonce = nextNonce
       /\ signed.digest = IF stage = "intent" THEN request ELSE NoDigest
  /\ pc \in {"idle", "drop", "ready"} => stage = "recovery" /\ request = NoDigest
  /\ stage = "recovery" => pc = "checked" \/ request = NoDigest
  /\ pc \in {"sign", "journal"} => stage # "recovery"

\* ... and of its intent's row.
Row ==
  /\ stage = "intent" => request \in Digests
  /\ pc = "answer" => stage = "intent"
  /\ stage = "intent" /\ pc \in {"recover", "wait", "settled"} => journal.digest = request
  /\ stage = "intent" /\ pc \in {"sign", "journal"} => requests[request] = Pending
  /\ stage = "intent" /\ pc \in {"settled", "answer"} => requests[request] # None
  /\ pc = "checked" \/ (stage = "prep" /\ pc # "idle") =>
       request = NoDigest \/ requests[request] = None

\* A row is pending or names its intent's mined transaction; a journaled intent that
\* is not settled has a pending row, whatever became of its request.
RowsTrue ==
  /\ \A d \in Digests : requests[d] # None =>
       \/ requests[d] = Pending
       \/ /\ requests[d].hash \in MinedTxs /\ requests[d].hash.digest = d
          /\ requests[d].status = "success" => Executed(d)
  /\ journal # None /\ settled # journal /\ journal.digest # NoDigest =>
       requests[journal.digest] = Pending

\* Unless a receipt could not be read, every intent the network ever had is in the
\* journal, or its row names it.
Known ==
  ~readFailed => \A tx \in broadcast : tx.digest # NoDigest =>
    \/ tx = journal /\ settled # journal
    \/ requests[tx.digest] # None /\ requests[tx.digest].hash = tx

IInv == Types /\ Network /\ Files /\ Progress /\ Row /\ RowsTrue /\ Known /\ OkMeansExecuted

---------------------------------------------------------------------------
(* Transactions, rows and receipts *)

LEMMA Fields ==
  /\ None \notin Transactions /\ None \notin Rows
  /\ NoDigest \notin Digests
  /\ \A tx \in Transactions : tx.nonce \in Nat /\ tx.digest \in Digests \union {NoDigest}
  /\ \A tx \in Transactions : tx # None
  /\ Pending \in Rows /\ Pending # None /\ Pending.hash = None
BY NoneAssumption, DigestsAssumption DEF Transactions, Rows, Pending

\* A mined transaction's receipt is in the chain, under its own name.
LEMMA ReceiptFound ==
  ASSUME Types, NEW tx \in MinedTxs
  PROVE  \E i \in 1..Len(mined) : /\ ReceiptOf(tx) = mined[i] /\ mined[i].tx = tx
                                  /\ mined[i].status \in {"success", "reverted"}
<1>1. \E m \in {mined[i] : i \in 1..Len(mined)} : m.tx = tx
  BY DEF MinedTxs
<1>2. /\ ReceiptOf(tx) \in {mined[i] : i \in 1..Len(mined)}
      /\ ReceiptOf(tx).tx = tx
  BY <1>1 DEF ReceiptOf
<1>3. \A i \in 1..Len(mined) : mined[i] \in Receipts
  BY DEF Types
<1> QED
  BY <1>2, <1>3 DEF Receipts

LEMMA SuccessIsExecution ==
  ASSUME Types, NEW tx \in MinedTxs, ReceiptOf(tx).status = "success"
  PROVE  Executed(tx.digest)
BY ReceiptFound DEF Executed

\* What the chain has, it keeps.
LEMMA MineAppends ==
  ASSUME Types, broadcast \subseteq Transactions, NEW tx \in broadcast,
         mempool \subseteq broadcast, Mine(tx)
  PROVE  /\ mined' \in Seq(Receipts) /\ Len(mined') = Len(mined) + 1
         /\ \A i \in 1..Len(mined) : mined'[i] = mined[i]
         /\ mined'[Len(mined) + 1].tx = tx
         /\ MinedTxs' = MinedTxs \union {tx}
         /\ \A d : Executed(d) => Executed(d)'
<1>1. PICK status \in {"success", "reverted"}, cost \in Costs :
        mined' = Append(mined, [tx |-> tx, status |-> status, cost |-> cost])
  BY DEF Mine
<1>2. [tx |-> tx, status |-> status, cost |-> cost] \in Receipts
  BY DEF Receipts
<1>3. /\ mined' \in Seq(Receipts) /\ Len(mined') = Len(mined) + 1
      /\ \A i \in 1..Len(mined) : mined'[i] = mined[i]
      /\ mined'[Len(mined) + 1].tx = tx
      /\ Len(mined) \in Nat
  BY <1>1, <1>2 DEF Types
<1>4. MinedTxs' = MinedTxs \union {tx}
  BY <1>3 DEF MinedTxs
<1>5. \A d : Executed(d) => Executed(d)'
  BY <1>3 DEF Executed
<1> QED
  BY <1>3, <1>4, <1>5

---------------------------------------------------------------------------
(* The invariant, step by step *)

LEMMA InitInvariant == Init => IInv
<1> SUFFICES ASSUME Init PROVE IInv
  OBVIOUS
<1>1. mined = <<>> /\ Len(mined) = 0 /\ mined \in Seq(Receipts)
  BY DEF Init
<1>2. Types
  BY <1>1 DEF Init, Types
<1>3. Network /\ Files
  BY <1>1 DEF Init, Network, Files
<1>4. Progress /\ Row /\ RowsTrue /\ Known /\ OkMeansExecuted
  BY DEF Init, Progress, Row, RowsTrue, Known, OkMeansExecuted
<1> QED
  BY <1>2, <1>3, <1>4 DEF IInv

\* A step of the process that touches neither files nor network.
LEMMA Frame ==
  ASSUME IInv, UNCHANGED <<db, journal, network, readFailed>>
  PROVE  Network' /\ Files' /\ RowsTrue' /\ Known' /\ (MinedTxs' = MinedTxs)
         /\ (\A d : Executed(d)' = Executed(d))
BY DEF IInv, Network, Files, RowsTrue, Known, MinedTxs, Executed, db, network

\* Steps that only move the process.
LEMMA ProcessStep ==
  ASSUME IInv,
         \/ BeginRecovery \/ BeginClean \/ ResendLost \/ WaitFails
         \/ StartJoin \/ Reject \/ Prepare \/ Crash
  PROVE  IInv'
<1>1. UNCHANGED <<db, journal, network, readFailed, answeredOk>>
  BY DEF BeginRecovery, BeginClean, ResendLost, Resend, WaitFails, StartJoin, Reject,
         Prepare, Crash, End, Goto, db, network, answers
<1>2. Network' /\ Files' /\ RowsTrue' /\ Known' /\ OkMeansExecuted'
  BY <1>1, Frame DEF IInv, OkMeansExecuted
<1>3. Types'
  BY <1>1 DEF IInv, Types, BeginRecovery, BeginClean, ResendLost, Resend, WaitFails,
              StartJoin, Reject, Prepare, Crash, End, Goto, db, network
<1>4. Progress'
  BY <1>1 DEF IInv, Progress, Row, BeginRecovery, BeginClean, ResendLost, Resend, WaitFails,
              StartJoin, Reject, Prepare, Crash, End, Goto, db, network
<1>5. Row'
  BY <1>1, Fields DEF IInv, Progress, Row, BeginRecovery, BeginClean, ResendLost, Resend,
              WaitFails, StartJoin, Reject, Prepare, Crash, End, Goto, db, network
<1> QED
  BY <1>2, <1>3, <1>4, <1>5 DEF IInv

LEMMA BeginSettledStep ==
  ASSUME IInv, BeginSettled PROVE IInv'
<1>1. /\ journal # None /\ settled = journal /\ journal' = None /\ pc = "idle" /\ pc' = "ready"
      /\ UNCHANGED <<db, network, answers, stage, request, signed>>
  BY DEF BeginSettled, Goto
<1>2. Types' /\ Network' /\ Progress' /\ Row'
  BY <1>1 DEF IInv, Types, Network, Progress, Row, db, network, answers
<1>3. Files'
  BY <1>1, Fields DEF IInv, Types, Files, MinedTxs, db, network
<1>4. RowsTrue' /\ Known' /\ OkMeansExecuted'
  BY <1>1 DEF IInv, RowsTrue, Known, OkMeansExecuted, Executed, MinedTxs, db, network, answers
<1> QED
  BY <1>2, <1>3, <1>4 DEF IInv

LEMMA ClearJournalStep ==
  ASSUME IInv, ClearJournal PROVE IInv'
<1>1. /\ pc = "settled" /\ journal # None /\ settled = journal /\ journal' = None
      /\ UNCHANGED <<db, network, answers>>
  BY DEF ClearJournal, IInv, Progress
<1>2. /\ \/ pc' = "idle" /\ stage' = "recovery" /\ request' = NoDigest /\ signed' = None
         \/ /\ UNCHANGED <<stage, request, signed>>
            /\ \/ stage = "recovery" /\ pc' = "drop"
               \/ stage = "prep" /\ pc' = "checked"
               \/ stage = "intent" /\ pc' = "answer"
  BY DEF ClearJournal, End, Goto
<1>3. Types' /\ Network'
  BY <1>1, <1>2 DEF IInv, Types, Network, db, network, answers
<1>4. Progress' /\ Row'
  BY <1>1, <1>2 DEF IInv, Progress, Row, db
<1>5. Files'
  BY <1>1, Fields DEF IInv, Types, Files, MinedTxs, db, network
<1>6. RowsTrue' /\ Known' /\ OkMeansExecuted'
  BY <1>1 DEF IInv, RowsTrue, Known, OkMeansExecuted, Executed, MinedTxs, db, network, answers
<1> QED
  BY <1>3, <1>4, <1>5, <1>6 DEF IInv

LEMMA DropStaleRowsStep ==
  ASSUME IInv, DropStaleRows PROVE IInv'
<1>1. /\ pc = "drop" /\ pc' = "ready" /\ journal = None
      /\ requests' = [d \in Digests |-> IF requests[d] = Pending THEN None ELSE requests[d]]
      /\ UNCHANGED <<nextNonce, settled, journal, network, answers, stage, request, signed>>
  BY DEF DropStaleRows, Goto, IInv, Progress
<1>2. Types' /\ Network' /\ Files' /\ Progress' /\ Row'
  BY <1>1 DEF IInv, Types, Network, Files, Progress, Row, MinedTxs, network, answers
<1>3. RowsTrue' /\ OkMeansExecuted'
  BY <1>1 DEF IInv, RowsTrue, OkMeansExecuted, Executed, MinedTxs, network, answers
<1>4. Known'
  <2>1. \A tx \in broadcast : tx # None /\ tx.digest \in Digests \union {NoDigest}
    BY Fields DEF IInv, Types
  <2> QED
    BY <1>1, <2>1, Fields DEF IInv, Known, network, answers
<1> QED
  BY <1>2, <1>3, <1>4 DEF IInv

LEMMA ResendAcceptedStep ==
  ASSUME IInv, ResendAccepted PROVE IInv'
<1>1. /\ pc = "recover" /\ pc' = "wait" /\ journal # None /\ settled # journal
      /\ broadcast' = broadcast \union {journal}
      /\ mempool' = IF journal \in MinedTxs THEN mempool ELSE mempool \union {journal}
      /\ UNCHANGED <<db, journal, mined, answers, stage, request, signed>>
  BY DEF ResendAccepted, Resend, Goto, IInv, Progress
<1>2. journal \in Transactions /\ journal.nonce \in Nat /\ Len(mined) \in Nat
  BY <1>1, Fields DEF IInv, Types
<1>3. Types' /\ Progress' /\ Row'
  BY <1>1, <1>2 DEF IInv, Types, Progress, Row, db, answers
<1>4. Network'
  BY <1>1, <1>2 DEF IInv, Network, Files
<1>5. Files'
  BY <1>1, <1>2 DEF IInv, Files, MinedTxs, db
<1>6. RowsTrue' /\ Known' /\ OkMeansExecuted'
  BY <1>1 DEF IInv, RowsTrue, Known, OkMeansExecuted, Executed, MinedTxs, db, answers
<1> QED
  BY <1>3, <1>4, <1>5, <1>6 DEF IInv

LEMMA SettleStep ==
  ASSUME IInv, Settle PROVE IInv'
<1>1. /\ pc \in {"recover", "wait"} /\ pc' = "settled"
      /\ journal # None /\ settled # journal /\ journal \in MinedTxs
      /\ nextNonce' = Larger(nextNonce, journal.nonce + 1)
      /\ requests' = SettledRows /\ settled' = journal
      /\ UNCHANGED <<journal, network, answers, stage, request, signed>>
  BY DEF Settle, SettledMarker, Goto, IInv, Progress
<1>2. /\ journal \in Transactions /\ journal.nonce \in Nat /\ nextNonce = journal.nonce
      /\ nextNonce' = journal.nonce + 1
      /\ journal.digest \in Digests \union {NoDigest}
  BY <1>1, Fields DEF IInv, Types, Files, Larger
<1>3. /\ ReceiptOf(journal).status \in {"success", "reverted"}
      /\ ReceiptOf(journal).status = "success" => Executed(journal.digest)
  BY <1>1, ReceiptFound, SuccessIsExecution DEF IInv
<1>4. \A d \in Digests :
        requests'[d] = IF d = journal.digest /\ requests[d] # None
                       THEN [hash |-> journal, status |-> ReceiptOf(journal).status]
                       ELSE requests[d]
  BY <1>1 DEF SettledRows
<1>5. [hash |-> journal, status |-> ReceiptOf(journal).status] \in Rows
  BY <1>2, <1>3 DEF Rows
<1>6. Types'
  <2>1. requests' \in [Digests -> Rows \union {None}]
    BY <1>1, <1>5 DEF SettledRows, IInv, Types
  <2> QED
    BY <1>1, <1>2, <2>1 DEF IInv, Types, network, answers
<1>7. Network' /\ Files'
  BY <1>1, <1>2 DEF IInv, Network, Files, MinedTxs, network
<1>8. Progress'
  BY <1>1 DEF IInv, Progress
<1>9. Row'
  <2>1. \A d \in Digests : requests[d] # None <=> requests'[d] # None
    BY <1>4, <1>5, Fields
  <2>2. stage = "intent" => request \in Digests /\ requests[request] = Pending
    BY <1>1, Fields DEF IInv, Row, RowsTrue
  <2> QED
    BY <1>1, <2>1, <2>2, Fields DEF IInv, Types, Progress, Row
<1>10. RowsTrue'
  <2>1. MinedTxs' = MinedTxs /\ \A d : Executed(d)' = Executed(d)
    BY <1>1 DEF MinedTxs, Executed, network
  <2> QED
    BY <1>1, <1>2, <1>3, <1>4, <2>1 DEF IInv, RowsTrue
<1>11. Known'
  <2>1. \A tx \in broadcast : tx # None /\ tx.digest \in Digests \union {NoDigest}
    BY Fields DEF IInv, Types
  <2>2. journal.digest # NoDigest => requests[journal.digest] = Pending
    BY <1>1 DEF IInv, RowsTrue
  <2> QED
    BY <1>1, <1>2, <1>4, <1>5, <2>1, <2>2, Fields DEF IInv, Known, network, answers
<1>12. OkMeansExecuted'
  BY <1>1 DEF IInv, OkMeansExecuted, Executed, network, answers
<1> QED
  BY <1>6, <1>7, <1>8, <1>9, <1>10, <1>11, <1>12 DEF IInv

LEMMA AnswerStep ==
  ASSUME IInv, Answer \/ \E d \in Digests : Replay(d) PROVE IInv'
<1>1. /\ UNCHANGED <<db, journal, network, readFailed>>
      /\ pc' = "idle" /\ stage' = "recovery" /\ request' = NoDigest /\ signed' = None
  BY DEF Answer, Replay, End
<1>2. Network' /\ Files' /\ RowsTrue' /\ Known' /\ \A d : Executed(d)' = Executed(d)
  BY <1>1, Frame
<1>3. Types' /\ Progress' /\ Row'
  BY <1>1 DEF IInv, Types, Progress, Row, db, network
<1>4. OkMeansExecuted'
  <2>1. CASE Answer
    <3>1. request \in Digests /\ requests[request] # None
      BY <2>1 DEF IInv, Row, Answer
    <3>2. requests[request].status = "success" => Executed(request)
      BY <3>1 DEF IInv, RowsTrue, Pending
    <3> QED
      BY <2>1, <3>2, <1>2 DEF Answer, IInv, OkMeansExecuted
  <2>2. ASSUME NEW d \in Digests, Replay(d) PROVE OkMeansExecuted'
    <3>1. requests[d].hash \in MinedTxs /\ requests[d].hash.digest = d
      BY <2>2, Fields DEF IInv, RowsTrue, Replay
    <3>2. ReceiptOf(requests[d].hash).status = "success" => Executed(d)
      BY <3>1, SuccessIsExecution DEF IInv
    <3> QED
      BY <2>2, <3>2, <1>2 DEF Replay, IInv, OkMeansExecuted
  <2> QED
    BY <2>1, <2>2
<1> QED
  BY <1>2, <1>3, <1>4 DEF IInv

LEMMA StartIntentStep ==
  ASSUME IInv, NEW d \in Digests, StartIntent(d) PROVE IInv'
<1>1. /\ pc = "ready" /\ journal = None /\ stage = "recovery"
      /\ requests' = [requests EXCEPT ![d] = None]
      /\ readFailed' = (readFailed \/ (requests[d] # None /\ requests[d].hash # None))
      /\ pc' = "checked" /\ request' = d
      /\ UNCHANGED <<stage, signed, nextNonce, settled, journal, network, answeredOk>>
  BY DEF StartIntent, IInv, Progress
<1>2. Types' /\ Network' /\ Files' /\ Progress' /\ Row'
  BY <1>1 DEF IInv, Types, Network, Files, Progress, Row, MinedTxs, network
<1>3. RowsTrue' /\ OkMeansExecuted'
  BY <1>1 DEF IInv, Types, RowsTrue, OkMeansExecuted, Executed, MinedTxs, network
<1>4. Known'
  <2>1. \A tx \in broadcast : tx # None /\ tx.digest \in Digests \union {NoDigest}
    BY Fields DEF IInv, Types
  <2> QED
    BY <1>1, <2>1 DEF IInv, Types, Known, network
<1> QED
  BY <1>2, <1>3, <1>4 DEF IInv

\* The row of the intent that is served changes while the network has none of it.
LEMMA RowStep ==
  ASSUME IInv, Accept \/ Refuse PROVE IInv'
<1>1. /\ pc \in {"checked", "sign"} /\ journal = None
      /\ UNCHANGED <<nextNonce, settled, journal, network, answers>>
  BY DEF Accept, Refuse, IInv, Progress
<1>2. \/ UNCHANGED requests
      \/ /\ request \in Digests /\ requests[request] \in {None, Pending}
         /\ requests' = [requests EXCEPT ![request] = None]
      \/ /\ request \in Digests /\ requests[request] \in {None, Pending}
         /\ requests' = [requests EXCEPT ![request] = Pending]
  BY DEF Accept, Refuse, IInv, Types, Row
<1>3. Types'
  BY <1>1, <1>2, Fields DEF IInv, Types, Accept, Refuse, End, network, answers
<1>4. Network' /\ Files'
  BY <1>1 DEF IInv, Network, Files, MinedTxs, network
<1>5. Progress'
  BY <1>1 DEF IInv, Progress, Accept, Refuse, End
<1>6. Row'
  BY <1>1, Fields DEF IInv, Types, Progress, Row, Accept, Refuse, End
<1>7. RowsTrue'
  BY <1>1, <1>2, Fields DEF IInv, Types, RowsTrue, Executed, MinedTxs, network
<1>8. Known'
  <2>1. \A tx \in broadcast : tx # None /\ tx.digest \in Digests \union {NoDigest}
    BY Fields DEF IInv, Types
  <2> QED
    BY <1>1, <1>2, <2>1, Fields DEF IInv, Types, Known, network, answers
<1>9. OkMeansExecuted'
  BY <1>1 DEF IInv, OkMeansExecuted, Executed, network, answers
<1> QED
  BY <1>3, <1>4, <1>5, <1>6, <1>7, <1>8, <1>9 DEF IInv

LEMMA ConfirmFailsStep ==
  ASSUME IInv, ConfirmFails PROVE IInv'
<1>1. /\ pc = "answer" /\ journal = None /\ request \in Digests
      /\ requests' = [requests EXCEPT ![request] = None]
      /\ readFailed' = TRUE
      /\ pc' = "idle" /\ stage' = "recovery" /\ request' = NoDigest /\ signed' = None
      /\ UNCHANGED <<nextNonce, settled, journal, network, answeredOk>>
  BY DEF ConfirmFails, End, IInv, Progress, Row
<1>2. Types' /\ Network' /\ Files' /\ Progress' /\ Row'
  BY <1>1 DEF IInv, Types, Network, Files, Progress, Row, MinedTxs, network
<1>3. RowsTrue' /\ Known' /\ OkMeansExecuted'
  BY <1>1 DEF IInv, Types, RowsTrue, Known, OkMeansExecuted, Executed, MinedTxs, network
<1> QED
  BY <1>2, <1>3 DEF IInv

\* While nothing is on its way no node counts beyond the chain.
LEMMA CountsAtRest ==
  ASSUME IInv, journal = None PROVE PendingCounts \subseteq 0..Len(mined)
<1>1. {t \in mempool : t.nonce = Len(mined)} = {}
  <2>1. \A t \in mempool : t.nonce < Len(mined) /\ t.nonce \in Nat
    BY Fields DEF IInv, Types, Network, Files
  <2> QED
    BY <2>1 DEF IInv, Types
<1>2. Cardinality({t \in mempool : t.nonce = Len(mined)}) = 0
  BY <1>1, FS_EmptySet
<1>3. Len(mined) \in Nat /\ PendingCounts = 0..(Len(mined) + 0)
  BY <1>2 DEF PendingCounts, IInv, Types
<1> QED
  BY <1>3

LEMMA SignStep ==
  ASSUME IInv, NEW count \in PendingCounts, Sign(count) PROVE IInv'
<1>1. /\ pc = "sign" /\ pc' = "journal" /\ journal = None
      /\ signed' = [nonce |-> Nonce(count),
                    digest |-> IF stage = "intent" THEN request ELSE NoDigest]
      /\ UNCHANGED <<stage, request, requests, nextNonce, settled, journal, network, answers>>
  BY DEF Sign, IInv, Progress
<1>2. Nonce(count) = nextNonce /\ nextNonce \in Nat
  <2>1. count \in 0..Len(mined) /\ nextNonce = Len(mined) /\ Len(mined) \in Nat
    BY <1>1, CountsAtRest DEF IInv, Types, Files
  <2> QED
    BY <2>1 DEF Nonce, Larger
<1>3. signed' \in Transactions
  BY <1>1, <1>2 DEF IInv, Types, Transactions
<1>4. Types' /\ Network' /\ Files' /\ Progress' /\ Row'
  BY <1>1, <1>2, <1>3 DEF IInv, Types, Network, Files, Progress, Row, MinedTxs, network, answers
<1>5. RowsTrue' /\ Known' /\ OkMeansExecuted'
  BY <1>1 DEF IInv, RowsTrue, Known, OkMeansExecuted, Executed, MinedTxs, network, answers
<1> QED
  BY <1>4, <1>5 DEF IInv

LEMMA WriteJournalStep ==
  ASSUME IInv, WriteJournal PROVE IInv'
<1>1. /\ pc = "journal" /\ pc' = "recover" /\ journal = None /\ journal' = signed
      /\ signed \in Transactions /\ signed # None
      /\ signed.nonce = nextNonce /\ nextNonce = Len(mined) /\ nextNonce \in Nat
      /\ UNCHANGED <<db, network, answers, stage, request, signed>>
  BY Fields DEF WriteJournal, Goto, IInv, Types, Progress, Files
<1>2. signed \notin MinedTxs
  <2>1. \A i \in 1..Len(mined) : mined[i].tx.nonce < Len(mined)
    BY <1>1 DEF IInv, Network
  <2> QED
    BY <1>1, <2>1 DEF MinedTxs
<1>3. settled # signed
  BY <1>1 DEF IInv, Files
<1>4. Types' /\ Network' /\ Progress'
  BY <1>1, <1>3 DEF IInv, Types, Network, Progress, db, network, answers
<1>5. Files'
  BY <1>1, <1>2, <1>3 DEF IInv, Files, MinedTxs, db, network
<1>6. Row'
  BY <1>1 DEF IInv, Progress, Row, db
<1>7. RowsTrue'
  <2>1. signed.digest # NoDigest => requests[signed.digest] = Pending
    BY <1>1 DEF IInv, Progress, Row
  <2> QED
    BY <1>1, <2>1 DEF IInv, RowsTrue, Executed, MinedTxs, db, network
<1>8. Known'
  <2>1. \A tx \in broadcast : tx # None
    BY Fields DEF IInv, Types
  <2> QED
    BY <1>1, <2>1 DEF IInv, Known, db, network, answers
<1>9. OkMeansExecuted'
  BY <1>1 DEF IInv, OkMeansExecuted, Executed, network, answers
<1> QED
  BY <1>4, <1>5, <1>6, <1>7, <1>8, <1>9 DEF IInv

LEMMA MineStep ==
  ASSUME IInv, NEW tx \in mempool, Mine(tx) PROVE IInv'
<1>1. /\ tx \in broadcast /\ tx \in Transactions /\ tx.nonce = Len(mined) /\ Len(mined) \in Nat
      /\ mempool' = {t \in mempool : t.nonce # tx.nonce}
      /\ UNCHANGED <<db, journal, process, broadcast, answers>>
  BY DEF Mine, IInv, Types, Network
<1>2. /\ journal # None /\ tx = journal /\ journal \notin MinedTxs /\ settled # journal
      /\ journal.nonce = Len(mined)
  <2>1. journal # None
    BY <1>1 DEF IInv, Files
  <2>2. journal \in Transactions /\ journal.nonce \in Nat
    BY <2>1, Fields DEF IInv, Types
  <2> QED
    BY <1>1, <2>1, <2>2 DEF IInv, Files
<1>3. /\ mined' \in Seq(Receipts) /\ Len(mined') = Len(mined) + 1
      /\ \A i \in 1..Len(mined) : mined'[i] = mined[i]
      /\ mined'[Len(mined) + 1].tx = tx
      /\ MinedTxs' = MinedTxs \union {tx}
      /\ \A d : Executed(d) => Executed(d)'
  BY <1>1, MineAppends DEF IInv, Types, Network
<1>4. Types' /\ Progress' /\ Row'
  BY <1>1, <1>3 DEF IInv, Types, Progress, Row, db, process, answers
<1>5. Network'
  <2>1. \A t \in mempool' : t.nonce >= Len(mined')
    <3>1. \A t \in mempool : t.nonce \in Nat
      BY Fields DEF IInv, Types, Network
    <3> QED
      BY <1>1, <1>3, <3>1 DEF IInv, Network
  <2>2. \A i \in 1..Len(mined') : mined'[i].tx \in broadcast' /\ mined'[i].tx.nonce = i - 1
    BY <1>1, <1>3 DEF IInv, Network
  <2> QED
    BY <1>1, <2>1, <2>2 DEF IInv, Network
<1>6. Files'
  BY <1>1, <1>2, <1>3 DEF IInv, Files, db
<1>7. RowsTrue' /\ Known' /\ OkMeansExecuted'
  BY <1>1, <1>2, <1>3 DEF IInv, RowsTrue, Known, OkMeansExecuted, db, answers
<1> QED
  BY <1>4, <1>5, <1>6, <1>7 DEF IInv

LEMMA EvictStep ==
  ASSUME IInv, NEW tx \in mempool, Evict(tx) PROVE IInv'
BY DEF IInv, Types, Network, Files, Progress, Row, RowsTrue, Known, OkMeansExecuted, Executed,
       MinedTxs, Evict, db, process, answers

LEMMA StutterStep == IInv /\ UNCHANGED vars => IInv'
BY DEF IInv, Types, Network, Files, Progress, Row, RowsTrue, Known, OkMeansExecuted, Executed,
       MinedTxs, vars, db, process, network, answers

LEMMA InvariantStep == IInv /\ [Next]_vars => IInv'
<1> SUFFICES ASSUME IInv, [Next]_vars PROVE IInv'
  OBVIOUS
<1>1. CASE Begin \/ DropStaleRows
  BY <1>1, ProcessStep, BeginSettledStep, DropStaleRowsStep DEF Begin
<1>2. CASE ResendAccepted \/ ResendLost \/ WaitFails \/ Settle \/ ClearJournal
  BY <1>2, ProcessStep, ResendAcceptedStep, SettleStep, ClearJournalStep
<1>3. CASE StartJoin \/ Reject \/ Prepare \/ Accept \/ Refuse \/ Crash
  BY <1>3, ProcessStep, RowStep
<1>4. CASE \E d \in Digests : Replay(d) \/ StartIntent(d)
  BY <1>4, AnswerStep, StartIntentStep
<1>5. CASE (\E count \in PendingCounts : Sign(count)) \/ WriteJournal
  BY <1>5, SignStep, WriteJournalStep
<1>6. CASE Answer \/ ConfirmFails
  BY <1>6, AnswerStep, ConfirmFailsStep
<1>7. CASE \E tx \in mempool : Mine(tx) \/ Evict(tx)
  BY <1>7, MineStep, EvictStep
<1> QED
  BY <1>1, <1>2, <1>3, <1>4, <1>5, <1>6, <1>7, StutterStep DEF Next

---------------------------------------------------------------------------
(* What follows from it *)

LEMMA NoncesDistinct == IInv => NonceOnce
<1> SUFFICES ASSUME IInv PROVE NonceOnce
  OBVIOUS
<1>1. /\ Len(mined) \in Nat
      /\ \A tx \in broadcast : tx.nonce \in Nat
      /\ journal # None => journal.nonce \in Nat
  BY Fields DEF IInv, Types
<1>2. \A tx \in broadcast : tx.nonce <= Len(mined)
  BY <1>1 DEF IInv, Files
<1> QED
  BY <1>2 DEF NonceOnce, IInv, Files

LEMMA BroadcastsDistinct == IInv => BroadcastOnce
<1> SUFFICES ASSUME IInv, ~readFailed,
                    NEW a \in broadcast, NEW b \in broadcast,
                    a.digest = b.digest, a.digest # NoDigest
             PROVE  a = b
  BY DEF BroadcastOnce
<1>1. a # None /\ b # None
  BY Fields DEF IInv, Types
<1>2. journal # None /\ settled # journal /\ journal.digest # NoDigest =>
        requests[journal.digest].hash = None
  BY Fields DEF IInv, RowsTrue
<1> QED
  BY <1>1, <1>2 DEF IInv, Known

\* Every step is one of SponsorJournal, or none of it.
LEMMA PromiseStep ==
  ASSUME IInv, [Next]_vars PROVE [Promise!Next]_(Promise!jvars)
<1> DEFINE Quiet == UNCHANGED <<nextNonce, settled, journal, broadcast>>
<1>1. Quiet => [Promise!Next]_(Promise!jvars)
  BY DEF Promise!jvars
<1>2. WriteJournal => Promise!Next
  BY DEF WriteJournal, IInv, Types, Progress, db, network, Promise!Next, Promise!Sign
<1>3. ResendAccepted => Promise!Next
  BY DEF ResendAccepted, Resend, IInv, Progress, db, Promise!Next, Promise!Send
<1>4. Settle => Promise!Next
  BY DEF Settle, SettledMarker, Larger, IInv, Progress, network, Promise!Next, Promise!Settle
<1>5. ClearJournal \/ BeginSettled => Promise!Next
  BY DEF ClearJournal, BeginSettled, IInv, Progress, db, network, Promise!Next, Promise!Clear
<1>6. BeginRecovery \/ BeginClean \/ DropStaleRows \/ ResendLost \/ WaitFails => Quiet
  BY DEF BeginRecovery, BeginClean, DropStaleRows, ResendLost, Resend, WaitFails, db, network
<1>7. StartJoin \/ Reject \/ Prepare \/ Accept \/ Refuse \/ Crash => Quiet
  BY DEF StartJoin, Reject, Prepare, Accept, Refuse, Crash, db, network
<1>8. ASSUME NEW d \in Digests, Replay(d) \/ StartIntent(d) PROVE Quiet
  BY <1>8 DEF Replay, StartIntent, db, network
<1>9. ASSUME NEW count \in PendingCounts, Sign(count) PROVE Quiet
  BY <1>9 DEF Sign, network
<1>10. Answer \/ ConfirmFails => Quiet
  BY DEF Answer, ConfirmFails, db, network
<1>11. ASSUME NEW tx \in mempool, Mine(tx) \/ Evict(tx) PROVE Quiet
  BY <1>11 DEF Mine, Evict, db
<1>12. UNCHANGED vars => Quiet
  BY DEF vars, db, network
<1> QED
  BY <1>1, <1>2, <1>3, <1>4, <1>5, <1>6, <1>7, <1>8, <1>9, <1>10, <1>11, <1>12 DEF Next, Begin

---------------------------------------------------------------------------
(* The budget *)

Unsettled == journal # None /\ settled # journal

\* The day's row holds what was paid, and the reserve of a transaction from the moment
\* it is signed until it is settled, when its cost replaces the reserve.
BudgetInv ==
  /\ wei \in Int /\ wei <= DailyWei
  /\ ~Unsettled => Spent <= wei
  /\ pc = "journal" => Spent + Reserve <= wei
  /\ Unsettled /\ journal \notin MinedTxs => Spent + Reserve <= wei
  /\ Unsettled /\ journal \in MinedTxs => Spent - mined[Len(mined)].cost + Reserve <= wei

\* What was paid is the sum of the costs, each within the reserve.
SpentExact == Spent = Sum(Paid, 1..Len(mined))
CostsSmall == \A i \in 1..Len(mined) : mined[i].cost \in Nat /\ mined[i].cost <= Reserve

LEMMA SpentIsSum == SpentExact
BY SumFold DEF Spent, SpentExact

LEMMA CostsAreSmall == Types => CostsSmall
<1> SUFFICES ASSUME Types, NEW i \in 1..Len(mined)
             PROVE  mined[i].cost \in Nat /\ mined[i].cost <= Reserve
  BY DEF CostsSmall
<1>1. mined[i] \in Receipts
  BY DEF Types
<1>2. mined[i].cost \in Costs
  BY <1>1 DEF Receipts
<1>3. mined[i].cost \in 0..Reserve /\ Reserve \in Nat
  BY <1>2, BudgetAssumption
<1> QED
  BY <1>3

LEMMA SpentFacts ==
  ASSUME Types
  PROVE  /\ Len(mined) \in Nat /\ Spent \in Nat /\ Reserve \in Nat /\ DailyWei \in Nat
         /\ \A i \in 1..Len(mined) : mined[i].cost \in Nat /\ mined[i].cost <= Reserve
<1>1. \A i \in 1..Len(mined) : mined[i].cost \in Nat /\ mined[i].cost <= Reserve
  BY CostsAreSmall DEF CostsSmall
<1>2. Len(mined) \in Nat
  BY DEF Types
<1>3. IsFiniteSet(1..Len(mined))
  BY <1>2, FS_Interval
<1>4. \A i \in 1..Len(mined) : Paid[i] \in Nat
  BY <1>1 DEF Paid
<1>5. Sum(Paid, 1..Len(mined)) \in Nat
  BY <1>3, <1>4, SumNat
<1> QED
  BY <1>1, <1>2, <1>5, SpentIsSum, BudgetAssumption DEF SpentExact

\* The costs of the receipts there were already stay paid.
LEMMA SpentKept ==
  ASSUME mined' = mined
  PROVE  Spent' = Spent
<1>1. SpentExact /\ SpentExact'
  BY SpentIsSum, PTL
<1>2. Paid' = Paid
  BY DEF Paid
<1> QED
  BY <1>1, <1>2 DEF SpentExact

\* A mined transaction is paid for.
LEMMA SpentGrows ==
  ASSUME Types, Types', Len(mined') = Len(mined) + 1,
         \A i \in 1..Len(mined) : mined'[i] = mined[i]
  PROVE  Spent' = Spent + mined'[Len(mined')].cost /\ mined'[Len(mined')].cost \in Nat
<1>1. SpentExact /\ SpentExact' /\ CostsSmall'
  BY SpentIsSum, CostsAreSmall, PTL
<1>2. PICK n \in Nat : n = Len(mined)
  BY SpentFacts
<1>3. IsFiniteSet(1..n) /\ (n + 1) \notin 1..n /\ 1..(n + 1) = (1..n) \union {n + 1}
  <2>1. IsFiniteSet(1..n)
    BY FS_Interval
  <2>2. (n + 1) \notin 1..n
    OBVIOUS
  <2>3. 1..(n + 1) = (1..n) \union {n + 1}
    OBVIOUS
  <2> QED
    BY <2>1, <2>2, <2>3
<1>4. Spent = Sum(Paid, 1..n) /\ Spent' = Sum(Paid', 1..(n + 1))
  BY <1>1, <1>2 DEF SpentExact
<1>5. /\ \A i \in 1..(n + 1) : mined'[i].cost \in Nat
      /\ \A i \in 1..(n + 1) : Paid'[i] = mined'[i].cost
      /\ \A i \in 1..n : Paid[i] = mined[i].cost
  BY <1>1, <1>2 DEF CostsSmall, Paid
<1>6. \A i \in 1..n : Paid'[i] = Paid[i] /\ i \in 1..(n + 1)
  BY <1>2, <1>3, <1>5
<1>7. Sum(Paid', (1..n) \union {n + 1}) = Paid'[n + 1] + Sum(Paid', 1..n)
  <2>1. \A i \in (1..n) \union {n + 1} : Paid'[i] \in Int
    BY <1>3, <1>5
  <2> QED
    BY <1>3, <2>1, SumAdd
<1>8. Sum(Paid', 1..n) = Sum(Paid, 1..n)
  BY <1>3, <1>6, SumSame
<1>9. Spent \in Nat /\ mined'[n + 1].cost \in Nat /\ Paid'[n + 1] = mined'[n + 1].cost
  BY <1>3, <1>5, SpentFacts
<1>10. Spent' = Paid'[n + 1] + Spent
  BY <1>3, <1>4, <1>7, <1>8
<1> QED
  BY <1>2, <1>9, <1>10

\* No money moves, and the journal stays as settled or unsettled as it was.
LEMMA BudgetFrame ==
  ASSUME IInv, BudgetInv, UNCHANGED <<wei, mined>>, pc' # "journal" \/ pc' = pc,
         (journal' = journal /\ settled' = settled) \/ ~Unsettled'
  PROVE  BudgetInv'
<1>0. Spent \in Nat /\ Reserve \in Nat /\ wei \in Int
      /\ \A i \in 1..Len(mined) : mined[i].cost \in Nat /\ mined[i].cost <= Reserve
      /\ Len(mined) \in Nat
  BY SpentFacts DEF IInv, BudgetInv
<1>1. Spent' = Spent /\ MinedTxs' = MinedTxs
  BY SpentKept DEF MinedTxs
<1>2. Spent <= wei
  <2>1. CASE Unsettled /\ journal \in MinedTxs
    <3>1. Len(mined) \in 1..Len(mined)
      BY <1>0, <2>1 DEF MinedTxs
    <3> QED
      BY <1>0, <2>1, <3>1 DEF BudgetInv
  <2> QED
    BY <1>0, <2>1 DEF BudgetInv
<1>3. CASE journal' = journal /\ settled' = settled
  BY <1>1, <1>3 DEF BudgetInv, Unsettled
<1>4. CASE ~Unsettled'
  BY <1>1, <1>2, <1>4 DEF BudgetInv
<1> QED
  BY <1>3, <1>4

LEMMA BudgetSign ==
  ASSUME IInv, BudgetInv, NEW count \in PendingCounts, Sign(count)
  PROVE  BudgetInv'
<1>0. Spent \in Nat /\ Reserve \in Nat /\ wei \in Int /\ DailyWei \in Nat
  BY SpentFacts DEF IInv, BudgetInv
<1>1. /\ wei' = wei + Reserve /\ wei' <= DailyWei /\ journal = None /\ journal' = None
      /\ mined' = mined
  BY DEF Sign, network, IInv, Progress
<1>2. Spent' = Spent
  BY <1>1, SpentKept
<1>3. Spent <= wei
  BY <1>1 DEF BudgetInv, Unsettled
<1>4. Spent + Reserve <= wei'
  BY <1>0, <1>1, <1>3
<1>5. Spent <= wei' /\ wei' \in Int
  BY <1>0, <1>1, <1>4
<1> QED
  BY <1>1, <1>2, <1>4, <1>5 DEF BudgetInv, Unsettled

LEMMA BudgetJournal ==
  ASSUME IInv, BudgetInv, WriteJournal
  PROVE  BudgetInv'
<1>0. Spent \in Nat /\ Reserve \in Nat /\ wei \in Int
      /\ \A i \in 1..Len(mined) : mined[i].cost \in Nat
      /\ Len(mined) \in Nat
  BY SpentFacts DEF IInv, BudgetInv
<1>1. Spent + Reserve <= wei /\ pc' # "journal" /\ UNCHANGED <<wei, mined>>
  BY DEF WriteJournal, Goto, db, network, BudgetInv
<1>2. Spent' = Spent
  BY <1>1, SpentKept
<1>3. ASSUME Unsettled', journal' \in MinedTxs'
      PROVE  Spent - mined[Len(mined)].cost + Reserve <= wei
  <2>1. Len(mined) \in 1..Len(mined)
    BY <1>0, <1>1, <1>3 DEF MinedTxs
  <2>2. mined[Len(mined)].cost \in Nat
    BY <1>0, <2>1
  <2> QED
    BY <1>0, <1>1, <2>2
<1>4. Spent <= wei
  BY <1>0, <1>1
<1> QED
  BY <1>1, <1>2, <1>3, <1>4 DEF BudgetInv

LEMMA BudgetSettle ==
  ASSUME IInv, BudgetInv, Settle
  PROVE  BudgetInv'
<1>0. Spent \in Nat /\ Reserve \in Nat /\ wei \in Int /\ DailyWei \in Nat
      /\ \A i \in 1..Len(mined) : mined[i].cost \in Nat /\ mined[i].cost <= Reserve
      /\ Len(mined) \in Nat
  BY SpentFacts DEF IInv, BudgetInv
<1>1. /\ journal # None /\ settled # journal /\ journal \in MinedTxs /\ settled' = journal
      /\ journal' = journal /\ mined' = mined /\ pc' # "journal"
      /\ wei' = wei - Reserve + ReceiptOf(journal).cost
  BY DEF Settle, SettledMarker, Goto, IInv, Progress, network
<1>2. ReceiptOf(journal) = mined[Len(mined)] /\ Len(mined) \in 1..Len(mined)
  <2>1. PICK i \in 1..Len(mined) : ReceiptOf(journal) = mined[i] /\ mined[i].tx = journal
    BY <1>1, ReceiptFound DEF IInv
  <2>2. journal.nonce = i - 1 /\ Len(mined) = journal.nonce + 1
    BY <1>1, <2>1 DEF IInv, Network, Files
  <2> QED
    BY <1>0, <2>1, <2>2
<1>3. Spent - mined[Len(mined)].cost + Reserve <= wei
  BY <1>1 DEF BudgetInv, Unsettled
<1>4. mined[Len(mined)].cost \in Nat /\ mined[Len(mined)].cost <= Reserve /\ wei <= DailyWei
  BY <1>0, <1>2 DEF BudgetInv
<1>5. wei' = wei - Reserve + mined[Len(mined)].cost
  BY <1>1, <1>2
<1>6. wei' \in Int /\ wei' <= DailyWei /\ Spent <= wei'
  BY <1>0, <1>3, <1>4, <1>5
<1>7. Spent' = Spent /\ ~Unsettled'
  BY <1>1, SpentKept DEF Unsettled
<1> QED
  BY <1>1, <1>6, <1>7 DEF BudgetInv

LEMMA BudgetMine ==
  ASSUME IInv, IInv', BudgetInv, NEW tx \in mempool, Mine(tx)
  PROVE  BudgetInv'
<1>0. Spent \in Nat /\ Reserve \in Nat /\ wei \in Int /\ Len(mined) \in Nat
  BY SpentFacts DEF IInv, BudgetInv
<1>1. /\ tx \in broadcast /\ tx \in Transactions /\ tx.nonce = Len(mined)
      /\ UNCHANGED <<wei, journal, settled, pc>>
  BY DEF Mine, IInv, Types, Network, db, process
<1>2. /\ journal # None /\ tx = journal /\ journal \notin MinedTxs /\ settled # journal
  <2>1. journal # None
    BY <1>0, <1>1 DEF IInv, Files
  <2>2. journal \in Transactions /\ journal.nonce \in Nat
    BY <2>1, Fields DEF IInv, Types
  <2> QED
    BY <1>0, <1>1, <2>1, <2>2 DEF IInv, Files
<1>3. /\ Len(mined') = Len(mined) + 1 /\ \A i \in 1..Len(mined) : mined'[i] = mined[i]
      /\ MinedTxs' = MinedTxs \union {tx}
  BY <1>1, MineAppends DEF IInv, Types, Network
<1>4. Spent' = Spent + mined'[Len(mined')].cost /\ mined'[Len(mined')].cost \in Nat
  BY <1>3, SpentGrows DEF IInv
<1>5. Spent + Reserve <= wei /\ wei <= DailyWei
  BY <1>2 DEF BudgetInv, Unsettled
<1>6. Spent' - mined'[Len(mined')].cost + Reserve <= wei'
  BY <1>0, <1>1, <1>4, <1>5
<1>7. Unsettled' /\ journal' \in MinedTxs' /\ pc' # "journal"
  BY <1>1, <1>2, <1>3 DEF Unsettled, IInv, Progress
<1> QED
  BY <1>0, <1>1, <1>5, <1>6, <1>7 DEF BudgetInv

LEMMA BudgetStep ==
  ASSUME IInv, IInv', BudgetInv, [Next]_vars
  PROVE  BudgetInv'
<1>1. CASE BeginSettled \/ ClearJournal
  <2>1. UNCHANGED <<wei, mined>> /\ pc' # "journal" /\ journal' = None
    BY <1>1 DEF BeginSettled, ClearJournal, Goto, End, db, network
  <2> QED
    BY <2>1, BudgetFrame DEF Unsettled
<1>2. CASE BeginRecovery \/ BeginClean \/ DropStaleRows \/ ResendAccepted \/ ResendLost \/ WaitFails
  <2>1. UNCHANGED <<wei, mined, journal, settled>> /\ pc' # "journal"
    BY <1>2 DEF BeginRecovery, BeginClean, DropStaleRows, ResendAccepted, ResendLost, Resend,
                WaitFails, Goto, End, db, network
  <2> QED
    BY <2>1, BudgetFrame
<1>3. CASE StartJoin \/ Reject \/ Prepare \/ Accept \/ Refuse \/ Crash \/ Answer \/ ConfirmFails
  <2>1. UNCHANGED <<wei, mined, journal, settled>> /\ pc' # "journal"
    BY <1>3 DEF StartJoin, Reject, Prepare, Accept, Refuse, Crash, Answer, ConfirmFails, Goto, End,
                db, network
  <2> QED
    BY <2>1, BudgetFrame
<1>4. ASSUME NEW d \in Digests, Replay(d) \/ StartIntent(d) PROVE BudgetInv'
  <2>1. UNCHANGED <<wei, mined, journal, settled>> /\ pc' # "journal"
    BY <1>4 DEF Replay, StartIntent, End, db, network
  <2> QED
    BY <2>1, BudgetFrame
<1>5. ASSUME NEW tx \in mempool, Evict(tx) PROVE BudgetInv'
  BY <1>5, BudgetFrame DEF Evict, db, process
<1>6. CASE UNCHANGED vars
  BY <1>6, BudgetFrame DEF vars, db, network, process
<1> QED
  BY <1>1, <1>2, <1>3, <1>4, <1>5, <1>6, BudgetSign, BudgetJournal, BudgetSettle, BudgetMine
     DEF Next, Begin

\* What is in flight is the unsettled journal, or nothing.
LEMMA InFlightIsJournal ==
  ASSUME IInv
  PROVE  broadcast \ MinedTxs \subseteq IF Unsettled THEN {journal} ELSE {}
<1> SUFFICES ASSUME NEW tx \in broadcast, tx \notin MinedTxs
             PROVE  Unsettled /\ tx = journal
  OBVIOUS
<1>0. Len(mined) \in Nat /\ tx.nonce \in Nat /\ (journal # None => journal.nonce \in Nat)
  BY Fields DEF IInv, Types
<1>1. ~(tx.nonce < Len(mined))
  <2> SUFFICES ASSUME tx.nonce < Len(mined) PROVE FALSE
    OBVIOUS
  <2>1. tx.nonce + 1 \in 1..Len(mined)
    BY <1>0
  <2>2. mined[tx.nonce + 1].tx \in broadcast /\ mined[tx.nonce + 1].tx.nonce = tx.nonce
    BY <1>0, <2>1 DEF IInv, Network
  <2>3. mined[tx.nonce + 1].tx = tx
    BY <2>2 DEF IInv, Files
  <2> QED
    BY <2>1, <2>3 DEF MinedTxs
<1>2. journal # None
  BY <1>1 DEF IInv, Files
<1>3. journal.nonce <= Len(mined)
  BY <1>0, <1>2 DEF IInv, Files
<1>4. tx = journal
  BY <1>0, <1>1, <1>2, <1>3 DEF IInv, Files
<1>5. settled # journal
  BY <1>2, <1>4 DEF IInv, Files
<1> QED
  BY <1>2, <1>4, <1>5 DEF Unsettled

LEMMA BudgetHolds ==
  ASSUME IInv, BudgetInv
  PROVE  BudgetCovers
<1>0. /\ Spent \in Nat /\ Reserve \in Nat /\ wei \in Int /\ wei <= DailyWei
      /\ \A i \in 1..Len(mined) : mined[i].cost \in Nat /\ mined[i].cost <= Reserve
      /\ Len(mined) \in Nat
  BY SpentFacts DEF IInv, BudgetInv
<1>1. CASE Unsettled /\ journal \notin MinedTxs
  <2>1. Spent + Reserve <= wei
    BY <1>1 DEF BudgetInv
  <2>2. InFlight \in {0, 1}
    <3>1. broadcast \ MinedTxs = {} \/ broadcast \ MinedTxs = {journal}
      BY <1>1, InFlightIsJournal
    <3> QED
      BY <3>1, FS_EmptySet, FS_Singleton DEF InFlight
  <2> QED
    BY <1>0, <2>1, <2>2 DEF BudgetCovers
<1>2. CASE ~(Unsettled /\ journal \notin MinedTxs)
  <2>1. broadcast \ MinedTxs = {}
    BY <1>2, InFlightIsJournal
  <2>2. InFlight = 0
    BY <2>1, FS_EmptySet DEF InFlight
  <2>3. Spent <= wei
    <3>1. CASE Unsettled
      <4>1. Len(mined) \in 1..Len(mined)
        BY <1>0, <1>2, <3>1 DEF MinedTxs
      <4>2. mined[Len(mined)].cost \in Nat /\ mined[Len(mined)].cost <= Reserve
        BY <1>0, <4>1
      <4>3. Spent - mined[Len(mined)].cost + Reserve <= wei
        BY <1>2, <3>1 DEF BudgetInv
      <4> QED
        BY <1>0, <4>2, <4>3
    <3> QED
      BY <3>1 DEF BudgetInv
  <2> QED
    BY <1>0, <2>2, <2>3 DEF BudgetCovers
<1> QED
  BY <1>1, <1>2

---------------------------------------------------------------------------
(* The theorems *)

\* What the files, the network and the request in progress know of each other holds
\* in every state (server.ts, recoverJournal, recoverPending, sponsored, submit).
THEOREM CrashRecovery == Spec => []IInv
<1> QED
  BY InitInvariant, InvariantStep, PTL DEF Spec

\* The sponsor's nonces are used once and without a gap, whatever the node answers
\* and however often the relay crashes (server.ts, sponsored, recoverPending).
THEOREM NoncesAreOnce == Spec => []NonceOnce
<1> QED
  BY InitInvariant, InvariantStep, NoncesDistinct, PTL DEF Spec

\* No intent is ever broadcast in two transactions, unless a receipt could not be
\* read again (server.ts, submit, recoverPending).
THEOREM IntentsAreBroadcastOnce == Spec => []BroadcastOnce
<1> QED
  BY InitInvariant, InvariantStep, BroadcastsDistinct, PTL DEF Spec

\* An intent that was answered ok is executed (server.ts, submit).
THEOREM OkIsTrue == Spec => []OkMeansExecuted
<1>1. IInv => OkMeansExecuted
  BY DEF IInv
<1> QED
  BY <1>1, InitInvariant, InvariantStep, PTL DEF Spec

\* The day's row always covers what was paid and what may still be paid, and never
\* exceeds the daily budget, however often a request is cut short between the debit,
\* the journal, the broadcast and the settlement (server.ts, sponsored, recoverPending,
\* recoverJournal).
THEOREM BudgetIsKept == Spec => []BudgetCovers
<1>1. Init => BudgetInv
  <2> SUFFICES ASSUME Init PROVE BudgetInv
    OBVIOUS
  <2>1. Len(mined) = 0 /\ wei = 0 /\ journal = None /\ pc = "idle"
    BY DEF Init
  <2>2. Spent = 0
    <3>1. 1..Len(mined) = {}
      BY <2>1
    <3>2. Spent = Sum(Paid, {})
      BY <3>1, SpentIsSum DEF SpentExact
    <3> QED
      BY <3>2, SumEmpty
  <2> QED
    BY <2>1, <2>2, BudgetAssumption DEF BudgetInv, Unsettled
<1>2. IInv /\ IInv' /\ BudgetInv /\ [Next]_vars => BudgetInv'
  BY BudgetStep
<1>3. IInv /\ BudgetInv => BudgetCovers
  BY BudgetHolds
<1> QED
  BY <1>1, <1>2, <1>3, CrashRecovery, PTL DEF Spec

\* One relay, however it crashes, implements SponsorJournal (server.ts, sponsored,
\* recoverPending, recoverJournal).
THEOREM JournalIsKept == Spec => JournalPromise
<1>1. Init => Promise!Init
  BY DEF Init, Promise!Init
<1>2. IInv /\ [Next]_vars => [Promise!Next]_(Promise!jvars)
  BY PromiseStep
<1> QED
  BY <1>1, <1>2, InitInvariant, InvariantStep, PTL DEF Spec, JournalPromise, Promise!Spec
=============================================================================
