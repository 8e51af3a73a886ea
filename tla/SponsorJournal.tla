--------------------------- MODULE SponsorJournal ---------------------------
(***************************************************************************)
(* What the relay's two files promise about the sponsor account, in four   *)
(* steps (relay/server.ts, recoverPending, recoverJournal, sponsored): a   *)
(* transaction is in the journal before the network can have it, nothing   *)
(* else is sent meanwhile, and it leaves the journal only after db.json    *)
(* names it as settled and counts past its nonce.  RelaySponsor implements *)
(* this with one process that crashes, RelayProcesses with several, until  *)
(* one of them acts on a lock it has lost without knowing.                 *)
(***************************************************************************)
EXTENDS Integers

CONSTANTS Transactions,  \* records with a field nonce
          None           \* not one of them

VARIABLES
  nextNonce,  \* db.json: the least nonce the relay may use
  settled,    \* db.json: the transaction settled last
  journal,    \* sponsor-pending.json
  broadcast   \* what the network may have

jvars == <<nextNonce, settled, journal, broadcast>>

Init == nextNonce = 0 /\ settled = None /\ journal = None /\ broadcast = {}

\* A signed transaction is written, on a nonce that db.json has not counted.
Sign ==
  /\ journal = None
  /\ journal' \in Transactions /\ journal'.nonce >= nextNonce
  /\ UNCHANGED <<nextNonce, settled, broadcast>>

\* The journaled transaction, and no other, is sent: once or many times.
Send ==
  /\ journal # None
  /\ broadcast' = broadcast \union {journal}
  /\ UNCHANGED <<nextNonce, settled, journal>>

\* The marker and the nonce are written, and the journal with them or later.
Settle ==
  /\ journal # None
  /\ settled' = journal
  /\ nextNonce' = IF nextNonce > journal.nonce + 1 THEN nextNonce ELSE journal.nonce + 1
  /\ journal' \in {journal, None}
  /\ UNCHANGED broadcast

\* A journal db.json names as settled is cleared.
Clear ==
  /\ journal # None /\ settled = journal
  /\ journal' = None
  /\ UNCHANGED <<nextNonce, settled, broadcast>>

Next == Sign \/ Send \/ Settle \/ Clear

Spec == Init /\ [][Next]_jvars

---------------------------------------------------------------------------
(* Properties *)

\* The network never has two transactions with one nonce, so the sponsor's account
\* executes what was journaled and nothing twice (server.ts, sponsored: "Recovery
\* can only resend this exact transaction").
NonceUsedOnce == \A a, b \in broadcast : a.nonce = b.nonce => a = b
=============================================================================
