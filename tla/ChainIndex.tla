----------------------------- MODULE ChainIndex -----------------------------
(***************************************************************************)
(* relay/chain.ts: how the relay reads the DAO.  Every read takes the      *)
(* latest block, then, under the lock "index", the persisted index of      *)
(* event rows with the block it covers, scans the blocks after it, writes  *)
(* the index back and answers from it.  Readers are concurrent calls, of   *)
(* one process or of several; the chain grows and reorganises under them.  *)
(*                                                                         *)
(* A block is a number: its position in the chain is its height, and       *)
(* every new block has a new number, so a block's hash is the chain up to  *)
(* it.  A dropped fork may become the chain again.  Every block has one    *)
(* event row, named like the block; the three scans (Baal, WorkManager,    *)
(* shares) are one.  The RPC is load-balanced: each call may be answered   *)
(* by a node that lags or is still on a dropped fork.                      *)
(* An answer is its block and the rows behind it, which the reader keeps   *)
(* while the answer is cached; what is computed of the two and of contract *)
(* reads at that block is left out.                                        *)
(***************************************************************************)
EXTENDS Integers, SequencesExt

CONSTANTS Readers,     \* calls of readDaoState that may overlap
          None,
          LogChunk,    \* LOG_CHUNK: blocks per eth_getLogs
          MaxHeight, MaxBlocks, \* bounds: length of the chain, blocks ever made,
          MaxReturns            \* returns to a dropped fork

ASSUME ReadersAssumption == None \notin Readers
ASSUME BoundsAssumption ==
  /\ LogChunk \in Nat \ {0} /\ MaxHeight \in Nat \ {0} /\ MaxBlocks \in Nat \ {0}
  /\ MaxReturns \in Nat

VARIABLES
  chain,   \* the canonical chain
  made,    \* the number of blocks ever made
  forks,   \* the chains that were left
  returned,\* how often the chain went back to one of them
  file,    \* the persisted index, None or [block, rows, flaws]
  holder,  \* the reader whose helper holds the lock "index"
  pc,      \* where a reader is
  block,   \* the block it reads at
  rows,    \* the rows it has: of the index it took, and of its scan
  from,    \* the next height it scans
  flaws    \* history: what was wrong with the nodes that gave it these rows

network == <<chain, made, forks, returned>>
reader == <<pc, block, rows, from, flaws>>
vars == <<network, file, holder, reader>>

Chains == Seq(1..MaxBlocks)
Indexes == [block: Chains, rows: Chains, flaws: SUBSET {"node", "fork"}]

Canonical(b) == IsPrefix(b, chain)

\* What a node may have: the chain or a dropped fork, as far as it has come.
Views == UNION {{SubSeq(c, 1, n) : n \in 1..Len(c)} : c \in forks \union {chain}}

\* eth_getLogs: the rows of a range that the node has, and no error for the rest.
Logs(v, first, last) == SubSeq(v, first, IF last < Len(v) THEN last ELSE Len(v))

\* A reply from a node that should have had block b and did not: the chain had it,
\* or had dropped it itself.
Flaw(good, b) == IF good THEN {} ELSE IF Canonical(b) THEN {"node"} ELSE {"fork"}

---------------------------------------------------------------------------
(* The chain *)

Grow ==
  /\ Len(chain) < MaxHeight /\ made < MaxBlocks
  /\ made' = made + 1
  /\ chain' = Append(chain, made + 1)
  /\ UNCHANGED <<forks, returned, file, holder, reader>>

\* The blocks from a height on are replaced by new ones, as many or fewer.
Reorganise(height) ==
  /\ height \in 2..Len(chain) /\ made < MaxBlocks
  /\ made' = made + 1
  /\ chain' = Append(SubSeq(chain, 1, height - 1), made + 1)
  /\ forks' = forks \union {chain}
  /\ UNCHANGED <<returned, file, holder, reader>>

\* The chain goes back to a fork it had left.
Return(fork) ==
  /\ fork \in forks /\ returned < MaxReturns
  /\ chain' = fork
  /\ forks' = (forks \ {fork}) \union {chain}
  /\ returned' = returned + 1
  /\ UNCHANGED <<made, file, holder, reader>>

---------------------------------------------------------------------------
(* buildDaoState *)

\* The latest block of the node that is asked.
ReadBlock(r, v) ==
  /\ pc[r] = "idle"
  /\ block' = [block EXCEPT ![r] = v]
  /\ pc' = [pc EXCEPT ![r] = "lock"]
  /\ UNCHANGED <<network, file, holder, rows, from, flaws>>

Lock(r) ==
  /\ pc[r] = "lock" /\ holder = None
  /\ holder' = r
  /\ pc' = [pc EXCEPT ![r] = "load"]
  /\ UNCHANGED <<network, file, block, rows, from, flaws>>

\* A plausible slip: the index is taken whatever became of its block.
UsableAnyFork(r, v) == file # None /\ Len(file.block) <= Len(block[r])

\* A plausible slip: the index is taken even if it reaches further.
UsableAhead(r, v) == file # None /\ IsPrefix(file.block, v)

\* The index counts if it reaches no further than the reader's own block, and
\* its checkpoint still has the saved hash at the node that is asked.
Usable(r, v) == file # None /\ Len(file.block) <= Len(block[r]) /\ IsPrefix(file.block, v)

\* The checkpoint's block is looked up: at a node with the reader's block or one
\* on the way to it, or at another.
TakeIndex(r, v) ==
  /\ pc[r] = "load" /\ Usable(r, v)
  /\ rows' = [rows EXCEPT ![r] = file.rows]
  /\ from' = [from EXCEPT ![r] = Len(file.block) + 1]
  /\ flaws' = [flaws EXCEPT ![r] =
       file.flaws \union Flaw(IsPrefix(block[r], v) \/ IsPrefix(v, block[r]), block[r])]
  /\ pc' = [pc EXCEPT ![r] = "scan"]
  /\ UNCHANGED <<network, file, holder, block>>

\* There is none, it is not usable, or the lookup has no answer.
StartOver(r) ==
  /\ pc[r] = "load"
  /\ rows' = [rows EXCEPT ![r] = <<>>]
  /\ from' = [from EXCEPT ![r] = 1]
  /\ flaws' = [flaws EXCEPT ![r] = {}]
  /\ pc' = [pc EXCEPT ![r] = "scan"]
  /\ UNCHANGED <<network, file, holder, block>>

LastOfChunk(r) ==
  LET last == from[r] + LogChunk - 1 IN IF last < Len(block[r]) THEN last ELSE Len(block[r])

\* scanLogs: one chunk, of any node.
Scan(r, v) ==
  /\ pc[r] = "scan" /\ from[r] <= Len(block[r])
  /\ rows' = [rows EXCEPT ![r] = @ \o Logs(v, from[r], LastOfChunk(r))]
  /\ from' = [from EXCEPT ![r] = LastOfChunk(r) + 1]
  /\ flaws' = [flaws EXCEPT ![r] = @ \union Flaw(IsPrefix(block[r], v), block[r])]
  /\ pc' = [pc EXCEPT ![r] = IF LastOfChunk(r) < Len(block[r]) THEN "scan" ELSE "write"]
  /\ UNCHANGED <<network, file, holder, block>>

Unlocked(r) == IF holder = r THEN None ELSE holder

\* The rows and the block, with the hash it was read with.
NewIndex(r) == [block |-> block[r], rows |-> rows[r], flaws |-> flaws[r]]

\* Nothing asserts that the lock is still held.
Write(r) ==
  /\ pc[r] = "write"
  /\ file' = NewIndex(r)
  /\ holder' = Unlocked(r)
  /\ pc' = [pc EXCEPT ![r] = "answer"]
  /\ UNCHANGED <<network, block, rows, from, flaws>>

\* The index covers the reader's block: nothing is scanned or written.
Resume(r) ==
  /\ pc[r] = "scan" /\ from[r] > Len(block[r])
  /\ holder' = Unlocked(r)
  /\ pc' = [pc EXCEPT ![r] = "answer"]
  /\ UNCHANGED <<network, file, block, rows, from, flaws>>

\* The call is over, and its locals with it.
End(r) ==
  /\ pc' = [pc EXCEPT ![r] = "idle"]
  /\ block' = [block EXCEPT ![r] = <<>>]
  /\ rows' = [rows EXCEPT ![r] = <<>>]
  /\ from' = [from EXCEPT ![r] = 1]
  /\ flaws' = [flaws EXCEPT ![r] = {}]

\* The contract reads at the block succeeded, the answer was given and cached; it
\* is dropped by invalidateState, or three seconds later.
Drop(r) ==
  /\ pc[r] = "answer"
  /\ End(r)
  /\ UNCHANGED <<network, file, holder>>

---------------------------------------------------------------------------
(* Faults *)

\* A call of the node fails, the lock is busy, or the process dies: the read
\* ends without an answer.
Fail(r) ==
  /\ pc[r] # "idle"
  /\ holder' = Unlocked(r)
  /\ End(r)
  /\ UNCHANGED <<network, file>>

\* The lock helper is killed; its reader goes on.
HelperDies ==
  /\ holder # None
  /\ holder' = None
  /\ UNCHANGED <<network, file, reader>>

---------------------------------------------------------------------------
Init ==
  /\ chain = <<1>> /\ made = 1 /\ forks = {} /\ returned = 0
  /\ file = None /\ holder = None
  /\ pc = [r \in Readers |-> "idle"]
  /\ block = [r \in Readers |-> <<>>]
  /\ rows = [r \in Readers |-> <<>>]
  /\ from = [r \in Readers |-> 1]
  /\ flaws = [r \in Readers |-> {}]

Next ==
  \/ Grow \/ \E height \in 2..MaxHeight : Reorganise(height)
  \/ \E fork \in forks : Return(fork)
  \/ HelperDies
  \/ \E r \in Readers :
       \/ \E v \in Views : ReadBlock(r, v) \/ TakeIndex(r, v) \/ Scan(r, v)
       \/ Lock(r) \/ StartOver(r) \/ Write(r) \/ Resume(r) \/ Drop(r) \/ Fail(r)

Spec == Init /\ [][Next]_vars

---------------------------------------------------------------------------
(* Properties *)

TypeOK ==
  /\ chain \in Chains /\ Len(chain) \in 1..MaxHeight
  /\ made \in 1..MaxBlocks /\ forks \subseteq Chains /\ returned \in 0..MaxReturns
  /\ file \in Indexes \union {None}
  /\ holder \in Readers \union {None}
  /\ \A r \in Readers :
       /\ pc[r] \in {"idle", "lock", "load", "scan", "write", "answer"}
       /\ block[r] \in Chains /\ rows[r] \in Chains /\ from[r] \in 1..(MaxHeight + 1)
       /\ flaws[r] \subseteq {"node", "fork"}

\* What excuses wrong rows of a block that is on the chain: a node that answered
\* for them lacked it while the chain had it, or while the chain had dropped it to
\* come back to it later.  The code notices neither.
Excused(index) == "node" \in index.flaws \/ ("fork" \in index.flaws /\ returned > 0)

\* An index whose block is on the chain lists the rows of exactly the blocks up
\* to it: no phantom of a dropped block, no row missing or twice, whatever
\* reorganisation, crash, dead lock helper or second reader fell into the scan,
\* but for what is excused (chain.ts, buildDaoState; SECURITY_AUDIT OPS-07).
IndexExact ==
  file # None /\ Canonical(file.block) /\ ~Excused(file) => file.rows = file.block

\* What a reader is told is one block's state: if the block it names is on the
\* chain, the rows behind the answer are the rows up to that block, even when
\* another reader has moved the index on meanwhile, but for what is excused
\* (chain.ts, readDaoState).
AnswerExact ==
  \A r \in Readers :
    pc[r] = "answer" /\ Canonical(block[r]) /\ ~Excused(NewIndex(r)) => rows[r] = block[r]

---------------------------------------------------------------------------
(* What the documentation says and the code does not do *)

\* SECURITY_AUDIT OPS-07: "Relay index and scripts reflect the canonical chain; a
\* reorg cannot leave phantom proposals or stale checkpoints".  Nothing tells a short
\* eth_getLogs reply of a node that lags from a complete one, and its rows are kept
\* under a hash that stays (chain.ts, scanLogs, buildDaoState).
IndexTrue == file # None /\ Canonical(file.block) => file.rows = file.block

\* docs/RELAY.md: "The index uses its own lock so concurrent readers cannot
\* overwrite the incremental checkpoint".  A reader that took its block before
\* another one finds the index ahead, drops it, scans again from the first block
\* and writes the older checkpoint over the newer (chain.ts, buildDaoState).
CheckpointKept ==
  [][file # None /\ Canonical(file.block) => Len(file'.block) >= Len(file.block)]_vars
=============================================================================
