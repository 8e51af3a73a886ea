--------------------------- MODULE RelayProcesses ---------------------------
(***************************************************************************)
(* relay/lock.ts and the request queue of relay/server.ts: several relay   *)
(* processes serve one state directory.  Each takes requests one at a time *)
(* from a short queue, and works on one only while a helper process of its *)
(* own holds the flock on sponsor.lock.  The helper is a process that can  *)
(* die; then the flock is free at once, and the relay still runs.  Before  *)
(* most writes it asserts that the helper lives, by what Node has told it: *)
(* that may be late, and Node tells it nothing between two awaits.  Until  *)
(* then the relay acts on a lock that another relay may hold.              *)
(*                                                                         *)
(* A step of a relay is at most one read or one write of a file, or one    *)
(* transaction sent, and whatever it does in memory with that.  The relay  *)
(* may die between any two, and other relays may take theirs.              *)
(*                                                                         *)
(* db.json is what it must not lose: the facts written to it, the next     *)
(* nonce and the settlement marker.  What a request does with the lock is  *)
(* cut down to one transaction; module RelaySponsor has the rest.          *)
(* recoverJournal reads the journal twice in a row, the model once.  Left  *)
(* out: the two sections of a relay's startup, the one second a helper     *)
(* waits after a relay that died, a read-only quote, mined transactions    *)
(* that revert and transactions the nodes forget.                          *)
(***************************************************************************)
EXTENDS Integers, Sequences, FiniteSets

CONSTANTS Processes,   \* relay processes that share the state directory
          Requests,    \* GET /relay, whichever process it reaches
          None,
          QueueLimit,  \* requests a process holds at a time
          MaxFaults    \* bound: deaths of helpers and relays in a behaviour

ASSUME RequestsAssumption == IsFiniteSet(Requests) /\ None \notin Requests \union Processes
ASSUME LimitsAssumption == QueueLimit \in Nat \ {0} /\ MaxFaults \in Nat

VARIABLES
  disk,       \* db.json
  journal,    \* sponsor-pending.json
  holder,     \* the process whose helper holds the flock
  pc,         \* where a process is with the request it works on
  job,        \* that request
  helper,     \* its lock helper
  mem,        \* its copy of db.json
  held,       \* its copy of the journal
  line,       \* the requests behind it, in order
  queued,     \* its counter of requests
  broadcast,  \* transactions the network accepted
  mined,      \* transactions in a block
  ended,      \* requests that were answered, refused, or lost with their process
  faults,
  strayed,    \* history: a relay has acted on a lock it had lost
  firm        \* history: db.json when no relay was about to do that

files == <<disk, journal>>
work == <<pc, job, mem, held>>
queue == <<line, queued, ended>>
chain == <<broadcast, mined>>
history == <<strayed, firm>>
vars == <<files, holder, helper, work, queue, chain, faults, history>>

Transactions == [nonce: Nat, request: Requests]
Facts == {"counted", "debited", "settled", "recorded"} \X Requests
Databases == [facts: SUBSET Facts, next: Nat, settled: Transactions \union {None}]

ASSUME NoneAssumption == None \notin Transactions

Larger(a, b) == IF a > b THEN a ELSE b

\* The node's pending transaction count, which a lagging node answers too low.
PendingCounts ==
  {n \in 0..Cardinality(broadcast) :
     \A i \in Cardinality(mined)..(n - 1) : \E t \in broadcast : t.nonce = i}

InLine(p) == {line[p][i] : i \in 1..Len(line[p])}
At(p) == InLine(p) \union ({job[p]} \ {None})
Arrived == ended \union UNION {At(p) : p \in Processes}

---------------------------------------------------------------------------
(* The queue of a process and its helper *)

\* A request is refused when the queue is full, and waits otherwise.
Arrive(p, r) ==
  /\ pc[p] # "down" /\ r \notin Arrived
  /\ IF queued[p] >= QueueLimit
     THEN ended' = ended \union {r} /\ UNCHANGED <<line, queued>>
     ELSE /\ line' = [line EXCEPT ![p] = Append(@, r)]
          /\ queued' = [queued EXCEPT ![p] = @ + 1]
          /\ UNCHANGED ended
  /\ UNCHANGED <<files, holder, helper, work, chain, faults>>

\* The request before has ended: the next one spawns its helper.
Start(p) ==
  /\ pc[p] = "idle" /\ line[p] # <<>>
  /\ job' = [job EXCEPT ![p] = Head(line[p])]
  /\ line' = [line EXCEPT ![p] = Tail(@)]
  /\ helper' = [helper EXCEPT ![p] = "waiting"]
  /\ pc' = [pc EXCEPT ![p] = "locking"]
  /\ UNCHANGED <<files, holder, mem, held, queued, ended, chain, faults>>

\* flock: the helper of one process at a time.
Acquire(p) ==
  /\ pc[p] = "locking" /\ helper[p] = "waiting"
  /\ holder = None
  /\ holder' = p
  /\ helper' = [helper EXCEPT ![p] = "holding"]
  /\ UNCHANGED <<files, work, queue, chain, faults>>

\* A plausible slip: the counter comes down only after a success.
LeaveOnSuccess(p) ==
  /\ queued' = [queued EXCEPT ![p] = IF pc[p] = "done" THEN @ - 1 ELSE @]
  /\ ended' = ended \union {job[p]}

\* handle's finally: the counter comes down however the request ended.
Leave(p) ==
  /\ queued' = [queued EXCEPT ![p] = @ - 1]
  /\ ended' = ended \union {job[p]}

\* withStateLock's finally: the helper is told to end, and is waited for.
Release(p) ==
  /\ holder' = IF holder = p THEN None ELSE holder
  /\ helper' = [helper EXCEPT ![p] = "none"]

\* The request ends, with an answer or an error.  What it changed in memory and
\* did not write stays there until the next reload.
End(p) ==
  /\ Leave(p) /\ Release(p)
  /\ pc' = [pc EXCEPT ![p] = "idle"]
  /\ job' = [job EXCEPT ![p] = None]
  /\ held' = [held EXCEPT ![p] = None]
  /\ UNCHANGED <<line, chain, faults>>

\* 240 seconds are over, or the helper's end is seen before its word that it has the
\* lock.
Busy(p) ==
  /\ pc[p] = "locking"
  /\ End(p)
  /\ UNCHANGED <<files, mem>>

---------------------------------------------------------------------------
(* A request under the lock *)

\* A plausible slip: a write does not ask whether the lock is still held.
HeldUnasked(p) == TRUE

\* assertStateLockHeld: as far as the relay knows, the helper lives.
Held(p) == helper[p] \in {"holding", "lost"}

\* persist: memory becomes the file.
Persist(p, db) ==
  /\ Held(p)
  /\ mem' = [mem EXCEPT ![p] = db]
  /\ disk' = db

\* A step that must write finds the lock lost, and the request fails.
LockLost(p) ==
  /\ pc[p] \in {"recover", "wait", "ready", "checked", "done"}
  /\ ~Held(p)
  /\ End(p)
  /\ UNCHANGED <<files, mem>>

\* An error behind submit's checks: it writes db.json once more if it can, and other
\* callers of sponsored do not.
Caught(p) ==
  /\ UNCHANGED disk \/ (Held(p) /\ disk' = mem[p])
  /\ UNCHANGED <<journal, mem>>

\* A plausible slip: the process trusts the copy it has.
ReloadedNot(p) == mem[p]

\* reload: db.json as another process may have left it.
Reloaded(p) == disk

\* The helper has said that it has the lock.
Reload(p) ==
  /\ pc[p] = "locking" /\ Held(p)
  /\ mem' = [mem EXCEPT ![p] = Reloaded(p)]
  /\ pc' = [pc EXCEPT ![p] = "loaded"]
  /\ UNCHANGED <<files, holder, helper, job, held, queue, chain, faults>>

\* recoverJournal reads the journal.
ReadJournal(p) ==
  /\ pc[p] = "loaded"
  /\ held' = [held EXCEPT ![p] = IF journal = mem[p].settled THEN None ELSE journal]
  /\ pc' = [pc EXCEPT ![p] = CASE journal = None -> "prune"
                              [] journal # None /\ journal = mem[p].settled -> "stale"
                              [] OTHER -> "recover"]
  /\ UNCHANGED <<files, holder, helper, job, mem, queue, chain, faults>>

\* A journal that db.json says is settled is cleared; no lock is asserted.
ClearStale(p) ==
  /\ pc[p] = "stale"
  /\ journal' = None
  /\ pc' = [pc EXCEPT ![p] = "ready"]
  /\ UNCHANGED <<disk, holder, helper, job, mem, held, queue, chain, faults>>

\* There is no journal, or none any more: rows that never were sent are dropped.
Prune(p) ==
  /\ pc[p] = "prune"
  /\ Persist(p, mem[p])
  /\ pc' = [pc EXCEPT ![p] = "ready"]
  /\ UNCHANGED <<journal, holder, helper, job, held, queue, chain, faults>>

\* No receipt is read: the journaled bytes are sent (again), and arrive or not.
Send(p) ==
  /\ pc[p] = "recover" /\ Held(p)
  /\ broadcast' \in {broadcast, broadcast \union {held[p]}}
  /\ pc' = [pc EXCEPT ![p] = "wait"]
  /\ UNCHANGED <<files, holder, helper, job, mem, held, queue, mined, faults>>

\* A plausible slip: the receipt is waited for without a timeout.
WaitFailsLate(p) ==
  /\ pc[p] = "wait" /\ ~Held(p)
  /\ Caught(p) /\ End(p)

\* The receipt does not come in time.
WaitFails(p) ==
  /\ pc[p] = "wait"
  /\ Caught(p) /\ End(p)

SettledDb(p) == [facts |-> mem[p].facts \union {<<"settled", held[p].request>>},
                 next |-> Larger(mem[p].next, held[p].nonce + 1),
                 settled |-> held[p]]

\* The receipt is read: it is settled in db.json, ...
Settle(p) ==
  /\ pc[p] \in {"recover", "wait"} /\ held[p] \in mined
  /\ Persist(p, SettledDb(p))
  /\ pc' = [pc EXCEPT ![p] = "settled"]
  /\ UNCHANGED <<journal, holder, helper, job, held, queue, chain, faults>>

\* It was recovered for the transaction this request has signed, or before that.
SignedYet(p) == <<"debited", job[p]>> \in mem[p].facts

\* ... and the journal cleared; no lock is asserted.
ClearSettled(p) ==
  /\ pc[p] = "settled"
  /\ journal' = None
  /\ held' = [held EXCEPT ![p] = None]
  /\ pc' = [pc EXCEPT ![p] = IF SignedYet(p) THEN "done" ELSE "prune"]
  /\ UNCHANGED <<disk, holder, helper, job, mem, queue, chain, faults>>

\* rate: the request is counted, and the count written, before anything else.
Count(p) ==
  /\ pc[p] = "ready"
  /\ Persist(p, [mem[p] EXCEPT !.facts = @ \union {<<"counted", job[p]>>}])
  /\ pc' = [pc EXCEPT ![p] = "checked"]
  /\ UNCHANGED <<journal, holder, helper, job, held, queue, chain, faults>>

\* Any of the checks fails, or the node does not answer.
Reject(p) ==
  /\ pc[p] = "checked"
  /\ Caught(p) /\ End(p)

Signed(p, count) == [nonce |-> Larger(mem[p].next, count), request |-> job[p]]
Debited(p) == [mem[p] EXCEPT !.facts = @ \union {<<"debited", job[p]>>}]

\* sponsored: the transaction is signed and its reserve written, ...
Reserve(p, count) ==
  /\ pc[p] = "checked"
  /\ Persist(p, Debited(p))
  /\ held' = [held EXCEPT ![p] = Signed(p, count)]
  /\ pc' = [pc EXCEPT ![p] = "reserved"]
  /\ UNCHANGED <<journal, holder, helper, job, queue, chain, faults>>

\* ... then the journal; no lock is asserted.
WriteJournal(p) ==
  /\ pc[p] = "reserved"
  /\ journal' = held[p]
  /\ pc' = [pc EXCEPT ![p] = "journaled"]
  /\ UNCHANGED <<disk, holder, helper, job, mem, held, queue, chain, faults>>

\* recoverPending reads it back.
ReadBack(p) ==
  /\ pc[p] = "journaled" /\ journal # None
  /\ held' = [held EXCEPT ![p] = journal]
  /\ pc' = [pc EXCEPT ![p] = "recover"]
  /\ UNCHANGED <<files, holder, helper, job, mem, queue, chain, faults>>

\* There is nothing to read: somebody else has cleared it.
JournalGone(p) ==
  /\ pc[p] = "journaled" /\ journal = None
  /\ Caught(p) /\ End(p)

\* record: the member's own transaction is in its account.
Record(p) ==
  /\ pc[p] = "done"
  /\ Persist(p, [mem[p] EXCEPT !.facts = @ \union {<<"recorded", job[p]>>}])
  /\ End(p)
  /\ UNCHANGED journal

---------------------------------------------------------------------------
(* Faults, and the network *)

Fault == faults < MaxFaults /\ faults' = faults + 1

\* The helper is killed: the system frees its flock at once, the relay goes on.
HelperDies(p) ==
  /\ Fault
  /\ helper[p] \in {"waiting", "holding"}
  /\ helper' = [helper EXCEPT ![p] = IF holder = p THEN "lost" ELSE "dead"]
  /\ holder' = IF holder = p THEN None ELSE holder
  /\ UNCHANGED <<files, work, queue, chain>>

\* Node tells the relay, at one of its awaits, sooner or later.
Notice(p) ==
  /\ helper[p] = "lost"
  /\ pc[p] \in {"recover", "wait", "ready", "checked", "done"}
  /\ helper' = [helper EXCEPT ![p] = "dead"]
  /\ UNCHANGED <<files, holder, work, queue, chain, faults>>

\* The process is gone with its queue.  Its helper reads the end of its pipe
\* and leaves, too.
Crash(p) ==
  /\ Fault
  /\ pc[p] # "down"
  /\ pc' = [pc EXCEPT ![p] = "down"]
  /\ ended' = ended \union At(p)
  /\ line' = [line EXCEPT ![p] = <<>>]
  /\ queued' = [queued EXCEPT ![p] = 0]
  /\ job' = [job EXCEPT ![p] = None]
  /\ held' = [held EXCEPT ![p] = None]
  /\ Release(p)
  /\ UNCHANGED <<files, mem, chain>>

Restart(p) ==
  /\ pc[p] = "down"
  /\ pc' = [pc EXCEPT ![p] = "idle"]
  /\ mem' = [mem EXCEPT ![p] = disk]
  /\ UNCHANGED <<files, holder, helper, job, held, queue, chain, faults>>

Mine(tx) ==
  /\ tx.nonce = Cardinality(mined)
  /\ mined' = mined \union {tx}
  /\ UNCHANGED <<files, holder, helper, work, queue, broadcast, faults>>

---------------------------------------------------------------------------
EmptyDb == [facts |-> {}, next |-> 0, settled |-> None]

Init ==
  /\ disk = EmptyDb /\ journal = None /\ holder = None
  /\ pc = [p \in Processes |-> "idle"]
  /\ job = [p \in Processes |-> None]
  /\ helper = [p \in Processes |-> "none"]
  /\ mem = [p \in Processes |-> EmptyDb]
  /\ held = [p \in Processes |-> None]
  /\ line = [p \in Processes |-> <<>>]
  /\ queued = [p \in Processes |-> 0]
  /\ broadcast = {} /\ mined = {} /\ ended = {} /\ faults = 0
  /\ strayed = FALSE /\ firm = [facts |-> {}, next |-> 0]

\* What a process does by itself.
Turn(p) ==
  \/ Start(p) \/ Acquire(p) \/ Busy(p) \/ LockLost(p)
  \/ Reload(p) \/ ReadJournal(p) \/ ClearStale(p) \/ Prune(p)
  \/ Send(p) \/ WaitFails(p) \/ Settle(p) \/ ClearSettled(p) \/ Count(p) \/ Reject(p)
  \/ \E count \in PendingCounts : Reserve(p, count)
  \/ WriteJournal(p) \/ ReadBack(p) \/ JournalGone(p) \/ Record(p)

\* It writes a file or sends something although its helper is dead.
Strays(p) == helper[p] = "lost" /\ <<files, broadcast>>' # <<files, broadcast>>

Remember ==
  firm' = IF strayed' \/ \E p \in Processes : helper'[p] = "lost" THEN firm
          ELSE [facts |-> disk'.facts, next |-> disk'.next]

Step(p) == Turn(p) /\ strayed' = (strayed \/ Strays(p)) /\ Remember

Others ==
  /\ \/ \E p \in Processes :
          \/ HelperDies(p) \/ Notice(p) \/ Crash(p) \/ Restart(p)
          \/ \E r \in Requests : Arrive(p, r)
     \/ \E tx \in broadcast : Mine(tx)
  /\ UNCHANGED strayed /\ Remember

Next == Others \/ \E p \in Processes : Step(p)

\* A running process takes its next step: every await of the code has a timeout.
Spec == Init /\ [][Next]_vars /\ \A p \in Processes : WF_vars(Step(p))

---------------------------------------------------------------------------
(* Properties *)

\* Whoever holds the flock has a living helper, and a process that is not at
\* work has none.
TypeOK ==
  /\ disk \in Databases /\ journal \in Transactions \union {None}
  /\ holder \in Processes \union {None}
  /\ \A p \in Processes :
       /\ pc[p] \in {"down", "idle", "locking", "loaded", "stale", "prune", "recover", "wait",
                     "settled", "ready", "checked", "reserved", "journaled", "done"}
       /\ job[p] \in Requests \union {None}
       /\ helper[p] \in {"none", "waiting", "holding", "lost", "dead"}
       /\ mem[p] \in Databases /\ held[p] \in Transactions \union {None}
       /\ (holder = p) <=> (helper[p] = "holding")
       /\ (pc[p] \in {"down", "idle"}) <=> (helper[p] = "none")
  /\ broadcast \subseteq Transactions /\ mined \subseteq broadcast
  /\ ended \subseteq Requests /\ faults \in 0..MaxFaults
  /\ strayed \in BOOLEAN /\ firm \in [facts: SUBSET Facts, next: Nat]

\* The counter is the number of requests the process holds, never above the
\* limit: an error, a lost lock or a busy one leaves no request counted for ever
\* (server.ts, handle).
QueuedExact ==
  \A p \in Processes : queued[p] = Cardinality(At(p)) /\ queued[p] <= QueueLimit

\* Nothing written to db.json is lost: whatever was counted, debited, settled or
\* recorded stays, as long as no relay acts on a lock it has lost without knowing.
\* One that does can undo what others wrote after it lost the lock, but never what
\* the file held before: its copy is older than their writes, not than its own lock
\* (lock.ts, assertStateLockHeld; server.ts, reload and persist).
NoLostWrite ==
  [][/\ strayed' \/ (disk.facts \subseteq disk'.facts /\ disk.next <= disk'.next)
     /\ firm.facts \subseteq disk'.facts /\ firm.next <= disk'.next]_vars

Promise == INSTANCE SponsorJournal WITH
  nextNonce <- disk.next, settled <- disk.settled

\* However many processes share the files, together they keep the promise of one,
\* until one of them acts on a lock it has lost without knowing: only the journaled
\* transaction is sent, nobody overwrites or clears the journal of another before its
\* transaction is settled, and no nonce is used twice (lock.ts, withStateLock;
\* server.ts, recoverPending and recoverJournal).
JournalPromise ==
  Promise!Init /\ [][strayed' \/ Promise!Next \/ UNCHANGED Promise!jvars]_vars

\* Every request that reaches a process ends: none waits for ever behind a lock,
\* a dead helper or a receipt (lock.ts, the 240 seconds; recoverPending, the 180).
EveryRequestEnds == \A r \in Requests : r \in Arrived ~> r \in ended

---------------------------------------------------------------------------
(* What the documentation says and the code does not do *)

\* server.ts: "Recovery can only resend this exact transaction"; docs/RELAY.md: "Every
\* mutating request holds an OS advisory file lock on sponsor.lock".  A relay that has
\* not noticed the death of its helper writes the journal over that of the relay which
\* has the lock now, and sends a second transaction on the same nonce (server.ts,
\* sponsored; lock.ts, assertStateLockHeld).
NonceUsedOnce == Promise!NonceUsedOnce
=============================================================================
