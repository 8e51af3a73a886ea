----------------------- MODULE RelayProcesses_proofs -----------------------
(***************************************************************************)
(* Several relays over one state directory, for any number of processes,   *)
(* requests and faults: until one of them acts on a lock it has lost       *)
(* without knowing, they keep the promise of SponsorJournal, no write is   *)
(* lost and no nonce used twice.  Even then nothing is lost that db.json   *)
(* held before that lock was lost, and the counter of requests is exact.   *)
(***************************************************************************)
EXTENDS RelayProcesses, FiniteSetTheorems, TLAPS

Stages == {"down", "idle", "locking", "loaded", "stale", "prune", "recover", "wait",
           "settled", "ready", "checked", "reserved", "journaled", "done"}

\* The values of the variables; a relay at work has a request.
Types ==
  /\ disk \in Databases /\ journal \in Transactions \union {None}
  /\ holder \in Processes \union {None}
  /\ pc \in [Processes -> Stages]
  /\ job \in [Processes -> Requests \union {None}]
  /\ helper \in [Processes -> {"none", "waiting", "holding", "lost", "dead"}]
  /\ mem \in [Processes -> Databases]
  /\ held \in [Processes -> Transactions \union {None}]
  /\ line \in [Processes -> Seq(Requests)] /\ queued \in [Processes -> Int]
  /\ \A p \in Processes :
       /\ pc[p] \notin {"down", "idle"} => job[p] \in Requests
       /\ pc[p] \in {"recover", "wait", "settled", "reserved", "journaled"} =>
            held[p] \in Transactions
  /\ IsFiniteSet(broadcast) /\ broadcast \subseteq Transactions
  /\ IsFiniteSet(mined) /\ mined \subseteq broadcast

\* One helper holds the flock, and a relay learns of its helper's death at an await
\* only: never between the write of one file and that of the other.
Locks ==
  \A p \in Processes :
    /\ (holder = p) <=> (helper[p] = "holding")
    /\ (pc[p] \in {"down", "idle"}) <=> (helper[p] = "none")
    /\ pc[p] \notin {"down", "idle", "locking"} => helper[p] \in {"holding", "lost", "dead"}
    /\ pc[p] \in {"loaded", "stale", "prune", "settled", "reserved", "journaled"} => Held(p)

\* What a relay at work can rely on while it has the flock and nobody has acted on a
\* lost one: its copy is what is on the disk, and it knows the journal.
Known(p) ==
  /\ pc[p] # "locking" => mem[p] = disk
  /\ pc[p] = "stale" => journal # None /\ journal = disk.settled
  /\ pc[p] \in {"prune", "ready", "checked", "reserved", "done"} => journal = None
  /\ pc[p] = "reserved" => held[p].nonce >= disk.next
  /\ pc[p] \in {"recover", "wait", "journaled"} => journal # None /\ held[p] = journal
  /\ pc[p] = "settled" => journal # None /\ disk.settled = journal

\* The nonce that is counted on is beyond that of the settled transaction.
Counted == disk.settled # None => disk.settled.nonce < disk.next

Knows ==
  ~strayed => Counted /\ \A p \in Processes : helper[p] = "holding" => Known(p)

Within(a, b) == a.facts \subseteq b.facts /\ a.next <= b.next

\* It has read db.json under a lock it believes to have.
Reads(p) == Held(p) /\ pc[p] # "locking"

\* What db.json held when nobody was about to act on a lost lock is in it, and in
\* every copy that may still be written.
Firm ==
  /\ strayed \in BOOLEAN
  /\ firm \in [facts: SUBSET Facts, next: Nat]
  /\ Within(firm, disk)
  /\ \A p \in Processes : Reads(p) => Within(firm, mem[p])

IInv == Types /\ Locks /\ Knows /\ Firm

LEMMA Records ==
  /\ None \notin Transactions
  /\ \A tx \in Transactions : tx.nonce \in Nat /\ tx.request \in Requests
  /\ \A db \in Databases : /\ db.facts \in SUBSET Facts /\ db.next \in Nat
                           /\ db.settled \in Transactions \union {None}
  /\ EmptyDb \in Databases
BY NoneAssumption DEF Transactions, Databases, EmptyDb

LEMMA CountsAreNaturals ==
  ASSUME Types PROVE PendingCounts \subseteq Nat
BY FS_CardinalityType DEF Types, PendingCounts

LEMMA InitInvariant == Init => IInv
<1> SUFFICES ASSUME Init PROVE IInv
  OBVIOUS
<1>1. Types
  BY Records, FS_EmptySet DEF Init, Types, Stages
<1>2. Locks
  BY RequestsAssumption DEF Init, Locks
<1>3. Knows
  BY DEF Init, Knows, Counted, EmptyDb
<1>4. Firm
  <2>1. /\ disk.facts = {} /\ disk.next = 0 /\ firm = [facts |-> {}, next |-> 0]
        /\ \A p \in Processes : ~Reads(p)
    BY DEF Init, EmptyDb, Reads, Held
  <2>2. Within(firm, disk) /\ firm \in [facts: SUBSET Facts, next: Nat]
    BY <2>1 DEF Within
  <2>3. strayed \in BOOLEAN
    BY DEF Init
  <2> QED
    BY <2>1, <2>2, <2>3 DEF Firm
<1> QED
  BY <1>1, <1>2, <1>3, <1>4 DEF IInv

\* A fact is added to a database, and nothing else changes.
LEMMA FactAdded ==
  ASSUME NEW db \in Databases, NEW kind \in {"counted", "debited", "settled", "recorded"},
         NEW r \in Requests
  PROVE  LET new == [db EXCEPT !.facts = @ \union {<<kind, r>>}]
         IN  new \in Databases /\ new.next = db.next /\ new.settled = db.settled
             /\ new.facts = db.facts \union {<<kind, r>>} /\ Within(db, new)
<1> DEFINE new == [db EXCEPT !.facts = @ \union {<<kind, r>>}]
<1>1. /\ new \in Databases /\ new.next = db.next /\ new.settled = db.settled
      /\ new.facts = db.facts \union {<<kind, r>>}
  BY DEF Databases, Facts
<1>2. db.next \in Nat
  BY Records
<1> QED
  BY <1>1, <1>2 DEF Within

\* What Settle writes.
LEMMA SettlementWritten ==
  ASSUME Types, NEW p \in Processes, held[p] \in Transactions
  PROVE  /\ SettledDb(p) \in Databases
         /\ SettledDb(p).settled = held[p]
         /\ SettledDb(p).next = IF mem[p].next > held[p].nonce + 1 THEN mem[p].next
                                ELSE held[p].nonce + 1
         /\ Within(mem[p], SettledDb(p))
<1>1. mem[p].facts \in SUBSET Facts /\ mem[p].next \in Nat
      /\ held[p].nonce \in Nat /\ held[p].request \in Requests
  BY Records DEF Types
<1>2. <<"settled", held[p].request>> \in Facts
  BY <1>1 DEF Facts
<1>3. /\ SettledDb(p) \in Databases
      /\ SettledDb(p).settled = held[p]
      /\ SettledDb(p).next = IF mem[p].next > held[p].nonce + 1 THEN mem[p].next
                             ELSE held[p].nonce + 1
      /\ mem[p].facts \subseteq SettledDb(p).facts
  BY <1>1, <1>2 DEF SettledDb, Larger, Databases
<1> QED
  BY <1>1, <1>3 DEF Within

---------------------------------------------------------------------------
(* What a relay may write *)

\* A database is written that adds to the relay's copy, or none; the copy is read
\* anew, or becomes what is written.
LEMMA Writes ==
  ASSUME Types, Locks, NEW p \in Processes, Turn(p)
  PROVE  /\ disk' = disk \/ (Reads(p) /\ disk' \in Databases /\ Within(mem[p], disk'))
         /\ \/ mem' = mem /\ (Reads(p)' => Reads(p))
            \/ mem' = [mem EXCEPT ![p] = disk] /\ disk' = disk
            \/ mem' = [mem EXCEPT ![p] = disk'] /\ Reads(p)
               /\ disk' \in Databases /\ Within(mem[p], disk')
<1> DEFINE Adds == Reads(p) /\ disk' \in Databases /\ Within(mem[p], disk')
           Persists == mem' = [mem EXCEPT ![p] = disk'] /\ Adds
           Idle == mem' = mem /\ (Reads(p)' => Reads(p)) /\ (disk' = disk \/ Adds)
           Rereads == mem' = [mem EXCEPT ![p] = disk] /\ disk' = disk
<1>0. /\ mem[p] \in Databases /\ mem[p].next \in Nat /\ mem \in [Processes -> Databases]
      /\ pc \in [Processes -> Stages] /\ helper[p] \in {"none", "waiting", "holding", "lost", "dead"}
      /\ helper \in [Processes -> {"none", "waiting", "holding", "lost", "dead"}]
      /\ Within(mem[p], mem[p])
  BY Records DEF Types, Within
<1>1. Start(p) \/ Acquire(p) => Idle
  BY <1>0 DEF Start, Acquire, files, work, Reads, Held
<1>2. Busy(p) \/ LockLost(p) => Idle
  BY <1>0 DEF Busy, LockLost, End, Release, files, Reads, Held
<1>3. Reload(p) => Rereads
  BY DEF Reload, Reloaded, files
<1>4. ReadJournal(p) \/ ClearStale(p) \/ Send(p) => Idle
  BY <1>0 DEF ReadJournal, ClearStale, Send, files, Reads, Held
<1>5. ClearSettled(p) \/ WriteJournal(p) \/ ReadBack(p) => Idle
  BY <1>0 DEF ClearSettled, WriteJournal, ReadBack, files, Reads, Held
<1>6. Prune(p) => Persists
  BY <1>0 DEF Prune, Persist, Reads
<1>7. WaitFails(p) \/ Reject(p) \/ JournalGone(p) => Idle
  <2> SUFFICES ASSUME WaitFails(p) \/ Reject(p) \/ JournalGone(p) PROVE Idle
    OBVIOUS
  <2>1. pc[p] # "locking" /\ Caught(p) /\ End(p)
    BY DEF WaitFails, Reject, JournalGone
  <2>2. mem' = mem /\ (disk' = disk \/ (Held(p) /\ disk' = mem[p]))
    BY <2>1 DEF Caught
  <2>3. ~Reads(p)'
    BY <2>1, <1>0 DEF End, Release, Reads, Held
  <2> QED
    BY <2>1, <2>2, <2>3, <1>0 DEF Reads
<1>8. Settle(p) => Persists
  <2> SUFFICES ASSUME Settle(p) PROVE Persists
    OBVIOUS
  <2>1. held[p] \in Transactions /\ Reads(p)
    BY DEF Types, Settle, Persist, Reads
  <2> QED
    BY <2>1, SettlementWritten DEF Settle, Persist
<1>9. Count(p) \/ Record(p) \/ (\E count \in PendingCounts : Reserve(p, count)) => Persists
  <2> SUFFICES ASSUME Count(p) \/ Record(p) \/ \E count \in PendingCounts : Reserve(p, count)
               PROVE  Persists
    OBVIOUS
  <2>1. job[p] \in Requests /\ Reads(p)
    BY DEF Types, Count, Record, Reserve, Persist, Reads
  <2>2. \E kind \in {"counted", "debited", "settled", "recorded"} :
          /\ disk' = [mem[p] EXCEPT !.facts = @ \union {<<kind, job[p]>>}]
          /\ mem' = [mem EXCEPT ![p] = disk']
    BY DEF Count, Record, Reserve, Persist, Debited
  <2> QED
    BY <2>1, <2>2, <1>0, FactAdded
<1>10. Idle \/ Rereads \/ Persists
  BY <1>1, <1>2, <1>3, <1>4, <1>5, <1>6, <1>7, <1>8, <1>9 DEF Turn
<1> QED
  BY <1>10

\* A relay leaves what the others have alone.
LEMMA Frame ==
  ASSUME Types, Locks, NEW p \in Processes, Turn(p), NEW q \in Processes, q # p
  PROVE  /\ helper'[q] = helper[q] /\ pc'[q] = pc[q] /\ held'[q] = held[q] /\ mem'[q] = mem[q]
         /\ job'[q] = job[q] /\ line'[q] = line[q] /\ queued'[q] = queued[q]
<1> DEFINE Same == /\ helper'[q] = helper[q] /\ pc'[q] = pc[q] /\ held'[q] = held[q]
                   /\ job'[q] = job[q] /\ line'[q] = line[q] /\ queued'[q] = queued[q]
<1>0. /\ pc \in [Processes -> Stages] /\ job \in [Processes -> Requests \union {None}]
      /\ helper \in [Processes -> {"none", "waiting", "holding", "lost", "dead"}]
      /\ held \in [Processes -> Transactions \union {None}]
      /\ line \in [Processes -> Seq(Requests)] /\ queued \in [Processes -> Int]
      /\ mem \in [Processes -> Databases]
  BY DEF Types
<1>1. End(p) => Same
  BY <1>0 DEF End, Leave, Release
<1>2. Start(p) \/ Acquire(p) => Same
  BY <1>0 DEF Start, Acquire, work, queue
<1>3. Busy(p) \/ LockLost(p) \/ WaitFails(p) \/ Reject(p) \/ JournalGone(p) \/ Record(p) => Same
  BY <1>1 DEF Busy, LockLost, WaitFails, Reject, JournalGone, Record
<1>4. Reload(p) \/ ReadJournal(p) \/ ClearStale(p) \/ Prune(p) \/ Send(p) => Same
  BY <1>0 DEF Reload, ReadJournal, ClearStale, Prune, Send, queue
<1>5. Settle(p) \/ ClearSettled(p) \/ Count(p) \/ WriteJournal(p) \/ ReadBack(p) => Same
  BY <1>0 DEF Settle, ClearSettled, Count, WriteJournal, ReadBack, queue
<1>6. (\E count \in PendingCounts : Reserve(p, count)) => Same
  BY <1>0 DEF Reserve, queue
<1>7. Same
  BY <1>2, <1>3, <1>4, <1>5, <1>6 DEF Turn
<1>8. mem'[q] = mem[q]
  BY <1>0, Writes
<1> QED
  BY <1>7, <1>8

\* Only a relay that believes its helper to live writes a file or sends anything.
LEMMA Believers ==
  ASSUME Types, Locks, NEW p \in Processes, Turn(p)
  PROVE  UNCHANGED <<files, broadcast>> \/ Held(p)
<1>1. Start(p) \/ Acquire(p) \/ Busy(p) \/ LockLost(p) \/ Reload(p) \/ ReadJournal(p) \/ ReadBack(p)
        => UNCHANGED <<files, broadcast>>
  BY DEF Start, Acquire, Busy, LockLost, Reload, ReadJournal, ReadBack, End, chain
<1>2. ClearStale(p) \/ ClearSettled(p) \/ WriteJournal(p) \/ JournalGone(p) => Held(p)
  BY DEF ClearStale, ClearSettled, WriteJournal, JournalGone, Locks
<1>3. Prune(p) \/ Send(p) \/ Settle(p) \/ Count(p) \/ Record(p) => Held(p)
  BY DEF Prune, Send, Settle, Count, Record, Persist
<1>4. (\E count \in PendingCounts : Reserve(p, count)) => Held(p)
  BY DEF Reserve, Persist
<1>5. WaitFails(p) \/ Reject(p) => UNCHANGED <<files, broadcast>> \/ Held(p)
  BY DEF WaitFails, Reject, Caught, End, files, chain
<1> QED
  BY <1>1, <1>2, <1>3, <1>4, <1>5 DEF Turn

---------------------------------------------------------------------------
(* The types, and who has the lock *)

TypesLocks == Types /\ Locks

\* A request ends.
LEMMA EndTypes ==
  ASSUME TypesLocks, NEW p \in Processes, End(p), disk' \in Databases, journal' = journal,
         mem' \in [Processes -> Databases]
  PROVE  TypesLocks'
<1>1. Types'
  <2>1. queued' \in [Processes -> Int]
    BY DEF TypesLocks, Types, End, Leave
  <2> QED
    BY <2>1 DEF TypesLocks, Types, Stages, End, Release, chain
<1>2. Locks'
  BY RequestsAssumption DEF TypesLocks, Types, Locks, Stages, Held, End, Release
<1> QED
  BY <1>1, <1>2 DEF TypesLocks

\* A step of a relay that keeps its helper and its request.
LEMMA WorkTypes ==
  ASSUME TypesLocks, NEW p \in Processes, pc[p] \notin {"down", "idle"},
         UNCHANGED <<holder, helper, job, queue, mined>>,
         NEW stage \in Stages \ {"down", "idle"}, pc' = [pc EXCEPT ![p] = stage],
         disk' \in Databases, journal' \in Transactions \union {None},
         mem' \in [Processes -> Databases],
         held' \in [Processes -> Transactions \union {None}],
         \A q \in Processes : q # p => held'[q] = held[q],
         stage \in {"recover", "wait", "settled", "reserved", "journaled"} =>
           held'[p] \in Transactions,
         IsFiniteSet(broadcast'), broadcast' \subseteq Transactions,
         broadcast \subseteq broadcast',
         stage # "locking" => helper[p] \in {"holding", "lost", "dead"},
         stage \in {"loaded", "stale", "prune", "settled", "reserved", "journaled"} => Held(p)
  PROVE  TypesLocks'
<1>1. Types'
  <2>1. /\ disk' \in Databases /\ journal' \in Transactions \union {None}
        /\ holder' \in Processes \union {None}
        /\ pc' \in [Processes -> Stages]
        /\ job' \in [Processes -> Requests \union {None}]
        /\ helper' \in [Processes -> {"none", "waiting", "holding", "lost", "dead"}]
        /\ mem' \in [Processes -> Databases]
        /\ held' \in [Processes -> Transactions \union {None}]
        /\ line' \in [Processes -> Seq(Requests)] /\ queued' \in [Processes -> Int]
    BY DEF TypesLocks, Types, queue
  <2>2. \A q \in Processes :
          /\ pc'[q] \notin {"down", "idle"} => job'[q] \in Requests
          /\ pc'[q] \in {"recover", "wait", "settled", "reserved", "journaled"} =>
               held'[q] \in Transactions
    BY DEF TypesLocks, Types
  <2>3. IsFiniteSet(mined') /\ mined' \subseteq broadcast'
    BY DEF TypesLocks, Types
  <2> QED
    BY <2>1, <2>2, <2>3 DEF Types
<1>2. Locks'
  BY DEF TypesLocks, Types, Locks, Held
<1> QED
  BY <1>1, <1>2 DEF TypesLocks

LEMMA TurnTypes ==
  ASSUME TypesLocks, NEW p \in Processes, Turn(p)
  PROVE  TypesLocks'
<1>0. /\ Types /\ Locks /\ disk \in Databases /\ journal \in Transactions \union {None}
      /\ mem \in [Processes -> Databases] /\ held \in [Processes -> Transactions \union {None}]
      /\ IsFiniteSet(broadcast) /\ broadcast \subseteq Transactions
      /\ pc[p] \in {"recover", "wait", "settled", "reserved", "journaled"} =>
           held[p] \in Transactions
      /\ mem[p] \in Databases
      /\ pc[p] \notin {"down", "idle"} => job[p] \in Requests
      /\ pc[p] \notin {"down", "idle", "locking"} => helper[p] \in {"holding", "lost", "dead"}
      /\ pc[p] \in {"loaded", "stale", "prune", "settled", "reserved", "journaled"} => Held(p)
  BY DEF TypesLocks, Types, Locks
<1>w. disk' \in Databases /\ mem' \in [Processes -> Databases]
  BY <1>0, Writes
<1>1. CASE Start(p)
  <2>1. /\ line' = [line EXCEPT ![p] = Tail(@)] /\ line[p] # <<>> /\ line[p] \in Seq(Requests)
        /\ job' = [job EXCEPT ![p] = Head(line[p])] /\ pc[p] = "idle"
        /\ helper' = [helper EXCEPT ![p] = "waiting"] /\ pc' = [pc EXCEPT ![p] = "locking"]
        /\ UNCHANGED <<files, holder, mem, held, queued, ended, chain, faults>>
    BY <1>1 DEF Start, TypesLocks, Types
  <2>2. Head(line[p]) \in Requests /\ Tail(line[p]) \in Seq(Requests)
    BY <2>1
  <2>3. Types'
    BY <2>1, <2>2 DEF TypesLocks, Types, Stages, files, chain
  <2>4. Locks'
    BY <2>1 DEF TypesLocks, Types, Locks, Held
  <2> QED
    BY <2>3, <2>4 DEF TypesLocks
<1>2. CASE Acquire(p)
  <2>1. Types'
    BY <1>2 DEF TypesLocks, Types, Acquire, files, work, queue, chain
  <2>2. Locks'
    BY <1>2, RequestsAssumption DEF TypesLocks, Types, Locks, Held, Acquire, work
  <2> QED
    BY <2>1, <2>2 DEF TypesLocks
<1>3. CASE Busy(p) \/ LockLost(p) \/ WaitFails(p) \/ Reject(p) \/ JournalGone(p) \/ Record(p)
  <2>1. End(p) /\ journal' = journal
    BY <1>3 DEF Busy, LockLost, WaitFails, Reject, JournalGone, Record, Caught, files
  <2> QED
    BY <2>1, <1>w, EndTypes
<1>4. CASE Reload(p) \/ Prune(p) \/ Count(p)
  <2>1. \E stage \in {"loaded", "ready", "checked"} :
          pc' = [pc EXCEPT ![p] = stage] /\ (stage = "loaded" => Held(p))
    BY <1>4 DEF Reload, Prune, Count
  <2>2. /\ pc[p] \notin {"down", "idle"} /\ journal' = journal /\ held' = held
        /\ UNCHANGED <<holder, helper, job, queue, mined, broadcast>>
        /\ helper[p] \in {"holding", "lost", "dead"}
    BY <1>0, <1>4 DEF Reload, Prune, Count, Held, Persist, files, chain
  <2> QED
    BY <2>1, <2>2, <1>0, <1>w, WorkTypes DEF Stages
<1>5. CASE ReadJournal(p)
  <2>1. \E stage \in {"prune", "stale", "recover"} :
          /\ pc' = [pc EXCEPT ![p] = stage]
          /\ stage = "recover" => journal # None /\ journal # mem[p].settled
    BY <1>5 DEF ReadJournal
  <2>2. /\ pc[p] = "loaded" /\ UNCHANGED <<holder, helper, job, queue, mined, broadcast, journal>>
        /\ held' = [held EXCEPT ![p] = IF journal = mem[p].settled THEN None ELSE journal]
    BY <1>5 DEF ReadJournal, files, chain
  <2>3. /\ held' \in [Processes -> Transactions \union {None}]
        /\ \A q \in Processes : q # p => held'[q] = held[q]
        /\ journal # None /\ journal # mem[p].settled => held'[p] \in Transactions
    BY <2>2, <1>0
  <2>4. Held(p) /\ helper[p] \in {"holding", "lost", "dead"}
    BY <2>2, <1>0
  <2> QED
    BY <2>1, <2>2, <2>3, <2>4, <1>0, <1>w, WorkTypes DEF Stages
<1>6. CASE ClearStale(p) \/ WriteJournal(p)
  <2>1. \E stage \in {"ready", "journaled"} :
          /\ pc' = [pc EXCEPT ![p] = stage]
          /\ stage = "journaled" => Held(p) /\ held[p] \in Transactions
    BY <1>0, <1>6 DEF ClearStale, WriteJournal
  <2>2. /\ pc[p] \notin {"down", "idle"} /\ journal' \in Transactions \union {None} /\ held' = held
        /\ UNCHANGED <<holder, helper, job, queue, mined, broadcast>>
        /\ helper[p] \in {"holding", "lost", "dead"}
    BY <1>0, <1>6 DEF ClearStale, WriteJournal, chain
  <2> QED
    BY <2>1, <2>2, <1>0, <1>w, WorkTypes DEF Stages
<1>7. CASE Send(p)
  <2>1. /\ pc[p] = "recover" /\ pc' = [pc EXCEPT ![p] = "wait"] /\ held' = held
        /\ UNCHANGED <<holder, helper, job, queue, mined, journal>>
        /\ broadcast' = broadcast \/ broadcast' = broadcast \union {held[p]}
    BY <1>7 DEF Send, files
  <2>2. held[p] \in Transactions /\ helper[p] \in {"holding", "lost", "dead"}
    BY <2>1, <1>0
  <2>3. /\ IsFiniteSet(broadcast') /\ broadcast' \subseteq Transactions
        /\ broadcast \subseteq broadcast'
    BY <2>1, <2>2, <1>0, FS_AddElement
  <2> QED
    BY <2>1, <2>2, <2>3, <1>0, <1>w, WorkTypes DEF Stages
<1>8. CASE Settle(p)
  <2>1. /\ pc[p] \in {"recover", "wait"} /\ pc' = [pc EXCEPT ![p] = "settled"] /\ held' = held
        /\ UNCHANGED <<holder, helper, job, queue, mined, journal, broadcast>> /\ Held(p)
    BY <1>8 DEF Settle, Persist, chain
  <2>2. held[p] \in Transactions /\ helper[p] \in {"holding", "lost", "dead"}
    BY <2>1, <1>0
  <2> QED
    BY <2>1, <2>2, <1>0, <1>w, WorkTypes DEF Stages
<1>9. CASE ClearSettled(p)
  <2>1. /\ pc[p] = "settled" /\ held' = [held EXCEPT ![p] = None] /\ journal' = None
        /\ UNCHANGED <<holder, helper, job, queue, mined, broadcast>>
        /\ \E stage \in {"done", "prune"} : pc' = [pc EXCEPT ![p] = stage]
    BY <1>9 DEF ClearSettled, chain
  <2>2. Held(p) /\ helper[p] \in {"holding", "lost", "dead"}
    BY <2>1, <1>0
  <2>3. /\ held' \in [Processes -> Transactions \union {None}]
        /\ \A q \in Processes : q # p => held'[q] = held[q]
    BY <2>1, <1>0
  <2> QED
    BY <2>1, <2>2, <2>3, <1>0, <1>w, WorkTypes DEF Stages
<1>10. ASSUME NEW count \in PendingCounts, Reserve(p, count) PROVE TypesLocks'
  <2>1. /\ pc[p] = "checked" /\ held' = [held EXCEPT ![p] = Signed(p, count)]
        /\ UNCHANGED <<holder, helper, job, queue, mined, journal, broadcast>>
        /\ pc' = [pc EXCEPT ![p] = "reserved"] /\ Held(p)
    BY <1>10 DEF Reserve, Persist, chain
  <2>2. Signed(p, count) \in Transactions /\ helper[p] \in {"holding", "lost", "dead"}
    <3>1. count \in Nat /\ mem[p].next \in Nat /\ job[p] \in Requests
      BY <2>1, <1>0, CountsAreNaturals, Records
    <3> QED
      BY <2>1, <1>0, <3>1 DEF Signed, Larger, Transactions
  <2>3. /\ held' \in [Processes -> Transactions \union {None}]
        /\ \A q \in Processes : q # p => held'[q] = held[q]
        /\ held'[p] \in Transactions
    BY <2>1, <2>2, <1>0
  <2> QED
    BY <2>1, <2>2, <2>3, <1>0, <1>w, WorkTypes DEF Stages
<1>11. CASE ReadBack(p)
  <2>1. /\ pc[p] = "journaled" /\ journal # None /\ held' = [held EXCEPT ![p] = journal]
        /\ UNCHANGED <<holder, helper, job, queue, mined, journal, broadcast>>
        /\ pc' = [pc EXCEPT ![p] = "recover"]
    BY <1>11 DEF ReadBack, files, chain
  <2>2. /\ held' \in [Processes -> Transactions \union {None}]
        /\ \A q \in Processes : q # p => held'[q] = held[q]
        /\ held'[p] \in Transactions /\ helper[p] \in {"holding", "lost", "dead"}
    BY <2>1, <1>0
  <2> QED
    BY <2>1, <2>2, <1>0, <1>w, WorkTypes DEF Stages
<1> QED
  BY <1>1, <1>2, <1>3, <1>4, <1>5, <1>6, <1>7, <1>8, <1>9, <1>10, <1>11 DEF Turn

LEMMA OtherTypes ==
  ASSUME TypesLocks, Others PROVE TypesLocks'
<1>1. ASSUME NEW p \in Processes, NEW r \in Requests, Arrive(p, r) PROVE TypesLocks'
  <2>1. Append(line[p], r) \in Seq(Requests)
    BY DEF TypesLocks, Types
  <2>2. line' \in [Processes -> Seq(Requests)]
    BY <1>1, <2>1 DEF TypesLocks, Types, Arrive
  <2>3. queued' \in [Processes -> Int]
    BY <1>1 DEF TypesLocks, Types, Arrive
  <2>4. UNCHANGED <<files, holder, helper, work, chain>>
    BY <1>1 DEF Arrive
  <2>5. Types'
    BY <2>2, <2>3, <2>4 DEF TypesLocks, Types, files, work, chain
  <2>6. Locks'
    BY <2>4 DEF TypesLocks, Locks, Held, work
  <2> QED
    BY <2>5, <2>6 DEF TypesLocks
<1>2. ASSUME NEW p \in Processes, HelperDies(p) PROVE TypesLocks'
  <2>1. Types'
    BY <1>2 DEF TypesLocks, Types, HelperDies, files, work, queue, chain
  <2>2. pc[p] = "locking" \/ helper[p] = "holding"
    BY <1>2 DEF TypesLocks, Types, Locks, HelperDies, Stages
  <2>3. Locks'
    BY <1>2, <2>2, RequestsAssumption DEF TypesLocks, Types, Locks, Held, HelperDies, work
  <2> QED
    BY <2>1, <2>3 DEF TypesLocks
<1>3. ASSUME NEW p \in Processes, Notice(p) PROVE TypesLocks'
  <2>1. Types'
    BY <1>3 DEF TypesLocks, Types, Notice, files, work, queue, chain
  <2>2. Locks'
    BY <1>3 DEF TypesLocks, Types, Locks, Held, Notice, work
  <2> QED
    BY <2>1, <2>2 DEF TypesLocks
<1>4. ASSUME NEW p \in Processes, Crash(p) PROVE TypesLocks'
  <2>1. Types'
    BY <1>4 DEF TypesLocks, Types, Stages, Crash, Release, files, chain
  <2>2. Locks'
    BY <1>4, RequestsAssumption DEF TypesLocks, Types, Locks, Held, Crash, Release
  <2> QED
    BY <2>1, <2>2 DEF TypesLocks
<1>5. ASSUME NEW p \in Processes, Restart(p) PROVE TypesLocks'
  <2>1. Types'
    BY <1>5 DEF TypesLocks, Types, Stages, Restart, files, queue, chain
  <2>2. Locks'
    BY <1>5 DEF TypesLocks, Types, Locks, Held, Restart
  <2> QED
    BY <2>1, <2>2 DEF TypesLocks
<1>6. ASSUME NEW tx \in broadcast, Mine(tx) PROVE TypesLocks'
  <2>1. IsFiniteSet(mined \union {tx})
    BY FS_AddElement DEF TypesLocks, Types
  <2>2. Types'
    BY <1>6, <2>1 DEF TypesLocks, Types, Mine, files, work, queue
  <2>3. Locks'
    BY <1>6 DEF TypesLocks, Locks, Held, Mine, work
  <2> QED
    BY <2>2, <2>3 DEF TypesLocks
<1> QED
  BY <1>1, <1>2, <1>3, <1>4, <1>5, <1>6 DEF Others

---------------------------------------------------------------------------
(* What a relay knows *)

\* A step of the relay that has the flock leaves it knowing the files.
LEMMA OwnStep ==
  ASSUME IInv, NEW p \in Processes, Turn(p), helper[p] = "holding", ~strayed
  PROVE  Counted' /\ (helper'[p] = "holding" => Known(p)')
<1>0. /\ Known(p) /\ Counted /\ Types /\ Locks
      /\ mem[p] \in Databases /\ mem[p].next \in Nat /\ mem \in [Processes -> Databases]
      /\ disk \in Databases /\ disk.next \in Nat /\ None \notin Transactions
      /\ pc \in [Processes -> Stages] /\ held \in [Processes -> Transactions \union {None}]
      /\ helper \in [Processes -> {"none", "waiting", "holding", "lost", "dead"}]
      /\ pc[p] \notin {"down", "idle"} /\ job[p] \in Requests
      /\ pc[p] \in {"recover", "wait", "settled", "reserved", "journaled"} =>
           held[p] \in Transactions /\ held[p].nonce \in Nat
      /\ journal \in Transactions \union {None}
  BY Records DEF IInv, Knows, Types, Locks
<1>1. CASE Start(p) \/ Acquire(p)
  BY <1>0, <1>1 DEF Start, Acquire
<1>2. CASE Busy(p) \/ LockLost(p) \/ WaitFails(p) \/ Reject(p) \/ JournalGone(p) \/ Record(p)
  <2>1. helper'[p] = "none"
    BY <1>0, <1>2 DEF Busy, LockLost, WaitFails, Reject, JournalGone, Record, End, Release
  <2>2. CASE Record(p)
    <3>1. disk' = [disk EXCEPT !.facts = @ \union {<<"recorded", job[p]>>}]
      BY <1>0, <2>2 DEF Record, Persist, Known
    <3>2. disk'.next = disk.next /\ disk'.settled = disk.settled
      BY <3>1, <1>0, FactAdded
    <3> QED
      BY <2>1, <3>2, <1>0 DEF Counted
  <2>3. CASE ~Record(p)
    <3>1. disk' = disk
      BY <1>0, <1>2, <2>3 DEF Busy, LockLost, WaitFails, Reject, JournalGone, Caught, files, Known
    <3> QED
      BY <2>1, <3>1, <1>0 DEF Counted
  <2> QED
    BY <2>2, <2>3
<1>3. CASE Reload(p)
  <2>1. mem'[p] = disk /\ pc'[p] = "loaded" /\ disk' = disk
    BY <1>0, <1>3 DEF Reload, Reloaded, files
  <2> QED
    BY <2>1, <1>0 DEF Known, Counted
<1>4. CASE ReadJournal(p)
  BY <1>0, <1>4 DEF ReadJournal, Known, Counted, files
<1>5. CASE ClearStale(p)
  BY <1>0, <1>5 DEF ClearStale, Known, Counted
<1>6. CASE Prune(p)
  <2>1. mem'[p] = disk /\ pc'[p] = "ready" /\ disk' = disk /\ journal' = None
    BY <1>0, <1>6 DEF Prune, Persist, Known
  <2> QED
    BY <2>1, <1>0 DEF Known, Counted
<1>7. CASE Send(p)
  BY <1>0, <1>7 DEF Send, Known, Counted, files
<1>8. CASE Settle(p)
  <2>1. /\ disk' = SettledDb(p) /\ mem'[p] = disk' /\ pc'[p] = "settled" /\ journal' = journal
        /\ journal # None /\ held[p] = journal /\ held[p] \in Transactions
    BY <1>0, <1>8 DEF Settle, Persist, Known
  <2>2. /\ disk'.settled = held[p]
        /\ disk'.next = IF mem[p].next > held[p].nonce + 1 THEN mem[p].next
                        ELSE held[p].nonce + 1
    BY <2>1, <1>0, SettlementWritten
  <2>3. mem[p].next \in Nat /\ held[p].nonce \in Nat
    BY <2>1, <1>0, Records
  <2>4. held[p].nonce < disk'.next
    BY <2>2, <2>3
  <2> QED
    BY <2>1, <2>2, <2>4 DEF Known, Counted
<1>9. CASE ClearSettled(p)
  <2>1. /\ mem'[p] = disk' /\ disk' = disk /\ journal' = None /\ pc'[p] \in {"done", "prune"}
    BY <1>0, <1>9 DEF ClearSettled, Known
  <2> QED
    BY <2>1, <1>0 DEF Known, Counted
<1>10. CASE Count(p)
  <2>1. /\ disk' = [disk EXCEPT !.facts = @ \union {<<"counted", job[p]>>}]
        /\ mem'[p] = disk' /\ pc'[p] = "checked" /\ journal' = None
    BY <1>0, <1>10 DEF Count, Persist, Known
  <2>2. disk'.next = disk.next /\ disk'.settled = disk.settled
    BY <2>1, <1>0, FactAdded
  <2> QED
    BY <2>1, <2>2, <1>0 DEF Known, Counted
<1>11. ASSUME NEW count \in PendingCounts, Reserve(p, count)
       PROVE  Counted' /\ (helper'[p] = "holding" => Known(p)')
  <2>1. /\ disk' = [disk EXCEPT !.facts = @ \union {<<"debited", job[p]>>}]
        /\ mem'[p] = disk' /\ pc'[p] = "reserved" /\ journal' = None
        /\ held'[p] = Signed(p, count) /\ mem[p] = disk
    BY <1>0, <1>11 DEF Reserve, Persist, Debited, Known
  <2>2. disk'.next = disk.next /\ disk'.settled = disk.settled
    BY <2>1, <1>0, FactAdded
  <2>3. count \in Nat
    BY <1>0, CountsAreNaturals
  <2>4. held'[p].nonce >= disk.next
    BY <2>1, <2>3, <1>0 DEF Signed, Larger
  <2> QED
    BY <2>1, <2>2, <2>4, <1>0 DEF Known, Counted
<1>12. CASE WriteJournal(p)
  BY <1>0, <1>12 DEF WriteJournal, Known, Counted
<1>13. CASE ReadBack(p)
  BY <1>0, <1>13 DEF ReadBack, Known, Counted, files
<1> QED
  BY <1>1, <1>2, <1>3, <1>4, <1>5, <1>6, <1>7, <1>8, <1>9, <1>10, <1>11, <1>12, <1>13 DEF Turn

\* A relay that has not the flock and does not stray writes nothing.
LEMMA IdleStep ==
  ASSUME IInv, NEW p \in Processes, Turn(p), helper[p] # "holding", ~Strays(p)
  PROVE  UNCHANGED <<files, broadcast>> /\ (helper'[p] = "holding" => pc'[p] = "locking")
<1>1. UNCHANGED <<files, broadcast>>
  BY Believers DEF IInv, Held, Strays
<1>2. helper'[p] = "holding" => pc'[p] = "locking"
  <2>0. helper \in [Processes -> {"none", "waiting", "holding", "lost", "dead"}]
    BY DEF IInv, Types
  <2>1. Start(p) \/ Acquire(p) => (helper'[p] = "holding" => pc'[p] = "locking")
    BY <2>0 DEF Start, Acquire, work
  <2>2. Busy(p) \/ LockLost(p) \/ WaitFails(p) \/ Reject(p) \/ JournalGone(p) \/ Record(p)
          => helper'[p] # "holding"
    BY <2>0 DEF Busy, LockLost, WaitFails, Reject, JournalGone, Record, End, Release
  <2>3. Reload(p) \/ ReadJournal(p) \/ ClearStale(p) \/ Prune(p) \/ Send(p) \/ Settle(p)
          => helper' = helper
    BY DEF Reload, ReadJournal, ClearStale, Prune, Send, Settle
  <2>4. ClearSettled(p) \/ Count(p) \/ WriteJournal(p) \/ ReadBack(p) => helper' = helper
    BY DEF ClearSettled, Count, WriteJournal, ReadBack
  <2>5. (\E count \in PendingCounts : Reserve(p, count)) => helper' = helper
    BY DEF Reserve
  <2> QED
    BY <2>1, <2>2, <2>3, <2>4, <2>5 DEF Turn
<1> QED
  BY <1>1, <1>2

LEMMA TurnKnows ==
  ASSUME IInv, NEW p \in Processes, Turn(p), strayed' = (strayed \/ Strays(p))
  PROVE  Knows'
<1> SUFFICES ASSUME ~strayed'
             PROVE  Counted' /\ \A q \in Processes : (helper[q] = "holding")' => Known(q)'
  BY DEF Knows
<1>0. ~strayed /\ ~Strays(p)
  OBVIOUS
<1>1. Types /\ Locks /\ Counted /\ \A q \in Processes : helper[q] = "holding" => Known(q)
  BY <1>0 DEF IInv, Knows
<1>2. CASE helper[p] = "holding"
  <2>1. Counted' /\ (helper'[p] = "holding" => Known(p)')
    BY <1>0, <1>2, OwnStep
  <2>2. ASSUME NEW q \in Processes, q # p PROVE helper'[q] # "holding"
    <3>1. helper[q] # "holding"
      BY <1>1, <1>2, <2>2 DEF Locks
    <3> QED
      BY <3>1, <2>2, <1>1, Frame
  <2> QED
    BY <2>1, <2>2
<1>3. CASE helper[p] # "holding"
  <2>1. UNCHANGED <<files, broadcast>> /\ (helper'[p] = "holding" => pc'[p] = "locking")
    BY <1>0, <1>3, IdleStep
  <2>2. Counted' /\ (helper'[p] = "holding" => Known(p)')
    BY <2>1, <1>1 DEF Counted, Known, files
  <2>3. ASSUME NEW q \in Processes, q # p, helper'[q] = "holding" PROVE Known(q)'
    <3>1. /\ helper'[q] = helper[q] /\ pc'[q] = pc[q] /\ held'[q] = held[q] /\ mem'[q] = mem[q]
      BY <1>1, <2>3, Frame
    <3> QED
      BY <3>1, <2>3, <2>1, <1>1 DEF Known, files
  <2> QED
    BY <2>2, <2>3
<1> QED
  BY <1>2, <1>3

\* Nothing else that happens writes a file or sends anything.
LEMMA OthersQuiet ==
  ASSUME Others PROVE UNCHANGED <<disk, journal, broadcast, strayed>>
<1>1. ASSUME NEW p \in Processes, NEW r \in Requests, Arrive(p, r)
      PROVE  UNCHANGED <<disk, journal, broadcast>>
  BY <1>1 DEF Arrive, files, chain
<1>2. ASSUME NEW p \in Processes, HelperDies(p) \/ Notice(p) \/ Crash(p) \/ Restart(p)
      PROVE  UNCHANGED <<disk, journal, broadcast>>
  BY <1>2 DEF HelperDies, Notice, Crash, Restart, files, chain
<1>3. ASSUME NEW tx \in broadcast, Mine(tx) PROVE UNCHANGED <<disk, journal, broadcast>>
  BY <1>3 DEF Mine, files
<1>4. /\ \/ \E p \in Processes :
              \/ HelperDies(p) \/ Notice(p) \/ Crash(p) \/ Restart(p)
              \/ \E r \in Requests : Arrive(p, r)
         \/ \E tx \in broadcast : Mine(tx)
      /\ UNCHANGED strayed
  BY DEF Others
<1> QED
  BY <1>1, <1>2, <1>3, <1>4

\* Nor does it give a relay a lock, or move one that keeps its lock.
LEMMA OthersKeep ==
  ASSUME Types, Locks, Others, NEW q \in Processes, Held(q)'
  PROVE  /\ Held(q) /\ (helper'[q] = "holding" => helper[q] = "holding")
         /\ pc'[q] = pc[q] /\ held'[q] = held[q] /\ mem'[q] = mem[q]
<1> DEFINE Same == /\ Held(q) /\ (helper'[q] = "holding" => helper[q] = "holding")
                   /\ pc'[q] = pc[q] /\ held'[q] = held[q] /\ mem'[q] = mem[q]
<1>0. /\ pc \in [Processes -> Stages] /\ mem \in [Processes -> Databases]
      /\ helper \in [Processes -> {"none", "waiting", "holding", "lost", "dead"}]
      /\ held \in [Processes -> Transactions \union {None}]
      /\ helper'[q] \in {"holding", "lost"}
  BY DEF Types, Held
<1>1. ASSUME NEW p \in Processes, NEW r \in Requests, Arrive(p, r) PROVE Same
  BY <1>0, <1>1 DEF Arrive, work, Held
<1>2. ASSUME NEW p \in Processes, HelperDies(p) PROVE Same
  <2>1. helper[p] # "holding" => helper'[p] = "dead"
    BY <1>0, <1>2 DEF HelperDies, Locks
  <2> QED
    BY <2>1, <1>0, <1>2 DEF HelperDies, work, Held
<1>3. ASSUME NEW p \in Processes, Notice(p) \/ Crash(p) \/ Restart(p) PROVE Same
  BY <1>0, <1>3 DEF Notice, Crash, Restart, Release, work, Held, Locks
<1>4. ASSUME NEW tx \in broadcast, Mine(tx) PROVE Same
  BY <1>0, <1>4 DEF Mine, work, Held
<1> QED
  BY <1>1, <1>2, <1>3, <1>4 DEF Others

LEMMA OthersKnow ==
  ASSUME IInv, Others PROVE Knows'
<1> SUFFICES ASSUME ~strayed'
             PROVE  Counted' /\ \A q \in Processes : (helper[q] = "holding")' => Known(q)'
  BY DEF Knows
<1>1. UNCHANGED <<disk, journal, broadcast, strayed>>
  BY OthersQuiet
<1>2. Types /\ Locks /\ Counted /\ \A q \in Processes : helper[q] = "holding" => Known(q)
  BY <1>1 DEF IInv, Knows
<1>3. ASSUME NEW q \in Processes, helper'[q] = "holding" PROVE Known(q)'
  <2>1. helper[q] = "holding" /\ pc'[q] = pc[q] /\ held'[q] = held[q] /\ mem'[q] = mem[q]
    BY <1>2, <1>3, OthersKeep DEF Held
  <2> QED
    BY <1>1, <1>2, <2>1 DEF Known
<1> QED
  BY <1>1, <1>2, <1>3 DEF Counted

---------------------------------------------------------------------------
(* What is firm *)

LEMMA WithinIsOrder ==
  ASSUME NEW a, NEW b, NEW c, a.next \in Nat, b.next \in Nat, c.next \in Nat
  PROVE  Within(a, a) /\ (Within(a, b) /\ Within(b, c) => Within(a, c))
BY DEF Within

\* Whatever is written and whoever writes it, what was firm is in it.
LEMMA FirmKept ==
  ASSUME IInv, Next, TypesLocks'
  PROVE  Within(firm, disk') /\ \A q \in Processes : Reads(q)' => Within(firm, mem'[q])
<1>0. /\ Types /\ Locks /\ firm.next \in Nat /\ Within(firm, disk)
      /\ disk.next \in Nat /\ disk'.next \in Nat
      /\ \A q \in Processes : mem[q].next \in Nat /\ (Reads(q) => Within(firm, mem[q]))
      /\ mem \in [Processes -> Databases]
  BY Records DEF IInv, Types, TypesLocks, Firm
<1>1. ASSUME NEW p \in Processes, Turn(p)
      PROVE  Within(firm, disk') /\ \A q \in Processes : Reads(q)' => Within(firm, mem'[q])
  <2>1. Within(firm, disk')
    BY <1>0, <1>1, Writes, WithinIsOrder
  <2>2. Reads(p)' => Within(firm, mem'[p])
    <3>1. CASE mem' = mem /\ (Reads(p)' => Reads(p))
      BY <1>0, <3>1
    <3>2. CASE mem' = [mem EXCEPT ![p] = disk] \/ mem' = [mem EXCEPT ![p] = disk']
      BY <1>0, <2>1, <3>2
    <3> QED
      BY <1>0, <1>1, <3>1, <3>2, Writes
  <2>3. ASSUME NEW q \in Processes, q # p, Reads(q)' PROVE Within(firm, mem'[q])
    <3>1. helper'[q] = helper[q] /\ pc'[q] = pc[q] /\ mem'[q] = mem[q]
      BY <1>0, <1>1, <2>3, Frame
    <3>2. Reads(q)
      BY <2>3, <3>1 DEF Reads, Held
    <3> QED
      BY <1>0, <3>1, <3>2
  <2> QED
    BY <2>1, <2>2, <2>3
<1>2. ASSUME Others
      PROVE  Within(firm, disk') /\ \A q \in Processes : Reads(q)' => Within(firm, mem'[q])
  <2>1. disk' = disk
    BY <1>2, OthersQuiet
  <2>2. ASSUME NEW q \in Processes, Reads(q)' PROVE Within(firm, mem'[q])
    <3>1. Held(q) /\ pc'[q] = pc[q] /\ mem'[q] = mem[q]
      BY <1>0, <1>2, <2>2, OthersKeep DEF Reads
    <3>2. Reads(q)
      BY <2>2, <3>1 DEF Reads
    <3> QED
      BY <1>0, <3>1, <3>2
  <2> QED
    BY <1>0, <2>1, <2>2
<1> QED
  BY <1>1, <1>2 DEF Next, Step

LEMMA FirmStep ==
  ASSUME IInv, Next, TypesLocks', Knows'
  PROVE  Firm'
<1>0. /\ strayed \in BOOLEAN /\ firm \in [facts: SUBSET Facts, next: Nat]
      /\ disk' \in Databases /\ disk'.facts \in SUBSET Facts /\ disk'.next \in Nat
  BY Records DEF IInv, Firm, TypesLocks, Types
<1>1. Remember /\ strayed' \in BOOLEAN
  <2>1. ASSUME NEW p \in Processes, Step(p) PROVE Remember /\ strayed' \in BOOLEAN
    BY <2>1, <1>0 DEF Step
  <2>2. Others => Remember /\ strayed' \in BOOLEAN
    BY <1>0 DEF Others
  <2> QED
    BY <2>1, <2>2 DEF Next
<1>2. CASE firm' = firm
  <2>1. Within(firm, disk') /\ \A q \in Processes : Reads(q)' => Within(firm, mem'[q])
    BY FirmKept
  <2>2. (Within(firm, disk) /\ \A q \in Processes : Reads(q) => Within(firm, mem[q]))'
    BY <1>2, <2>1 DEF Within
  <2> QED
    BY <1>0, <1>1, <1>2, <2>2 DEF Firm
<1>3. CASE firm' # firm
  <2>1. /\ ~strayed' /\ \A p \in Processes : helper'[p] # "lost"
        /\ firm' = [facts |-> disk'.facts, next |-> disk'.next]
    BY <1>1, <1>3 DEF Remember
  <2>2. firm' \in [facts: SUBSET Facts, next: Nat]
    BY <1>0, <2>1
  <2>3. firm'.facts = disk'.facts /\ firm'.next = disk'.next
    BY <2>1
  <2>4. Within(firm', disk')
    BY <1>0, <2>3 DEF Within
  <2>5. ASSUME NEW q \in Processes, Reads(q)' PROVE mem'[q] = disk'
    <3>1. helper'[q] = "holding" /\ pc'[q] # "locking"
      BY <2>1, <2>5 DEF Reads, Held
    <3> QED
      BY <2>1, <3>1 DEF Knows, Known
  <2>6. (Within(firm, disk) /\ \A q \in Processes : Reads(q) => Within(firm, mem[q]))'
    BY <2>4, <2>5
  <2> QED
    BY <1>1, <2>2, <2>6 DEF Firm
<1> QED
  BY <1>2, <1>3

LEMMA StutterStep == IInv /\ UNCHANGED vars => IInv'
<1> SUFFICES ASSUME IInv, UNCHANGED vars PROVE IInv'
  OBVIOUS
<1> USE DEF vars, files, work, queue, chain, history
<1>1. Types' /\ Locks'
  BY DEF IInv, Types, Locks, Held
<1>2. Knows'
  BY DEF IInv, Knows, Counted, Known
<1>3. Firm'
  BY DEF IInv, Firm, Within, Reads, Held
<1> QED
  BY <1>1, <1>2, <1>3 DEF IInv

LEMMA InvariantStep == IInv /\ [Next]_vars => IInv'
<1> SUFFICES ASSUME IInv, Next PROVE IInv'
  BY StutterStep
<1>1. TypesLocks' /\ Knows'
  <2>1. ASSUME NEW p \in Processes, Step(p) PROVE TypesLocks' /\ Knows'
    BY <2>1, TurnTypes, TurnKnows DEF Step, IInv, TypesLocks
  <2>2. ASSUME Others PROVE TypesLocks' /\ Knows'
    BY <2>2, OtherTypes, OthersKnow DEF IInv, TypesLocks
  <2> QED
    BY <2>1, <2>2 DEF Next
<1>2. Firm'
  BY <1>1, FirmStep
<1> QED
  BY <1>1, <1>2 DEF IInv, TypesLocks

---------------------------------------------------------------------------
(* What a step writes *)

\* A step that writes or sends something is that of the relay which has the flock,
\* or a relay has strayed.
LEMMA Writer ==
  ASSUME IInv, [Next]_vars, ~strayed'
  PROVE  \/ UNCHANGED <<disk, journal, broadcast>>
         \/ \E p \in Processes : Turn(p) /\ helper[p] = "holding" /\ Known(p)
<1>1. CASE UNCHANGED vars
  BY <1>1 DEF vars, files, chain
<1>2. CASE Others
  BY <1>2, OthersQuiet
<1>3. ASSUME NEW p \in Processes, Step(p)
      PROVE  \/ UNCHANGED <<disk, journal, broadcast>>
             \/ Turn(p) /\ helper[p] = "holding" /\ Known(p)
  <2>1. Turn(p) /\ ~strayed /\ ~Strays(p)
    BY <1>3 DEF Step
  <2>2. CASE helper[p] = "holding"
    BY <2>1, <2>2 DEF IInv, Knows
  <2>3. CASE helper[p] # "holding"
    BY <2>1, <2>3, IdleStep DEF files
  <2> QED
    BY <2>1, <2>2, <2>3
<1> QED
  BY <1>1, <1>2, <1>3 DEF Next

\* Nothing written is ever written over; what is firm, not even by a relay that strays.
LEMMA WritesAdd ==
  ASSUME IInv, [Next]_vars
  PROVE  (strayed' \/ Within(disk, disk')) /\ Within(firm, disk')
<1>0. disk.next \in Nat /\ disk'.next \in Nat /\ Within(disk, disk)
  BY InvariantStep, Records DEF IInv, Types, Within
<1>1. ASSUME ~strayed' PROVE Within(disk, disk')
  <2>1. CASE UNCHANGED <<disk, journal, broadcast>>
    BY <2>1, <1>0
  <2>2. ASSUME NEW p \in Processes, Turn(p), helper[p] = "holding", Known(p)
        PROVE  Within(disk, disk')
    BY <2>2, <1>0, Writes DEF IInv, Known, Reads
  <2> QED
    BY <1>1, <2>1, <2>2, Writer
<1>2. Within(firm, disk')
  <2>1. CASE Next
    BY <2>1, InvariantStep, FirmKept DEF IInv, TypesLocks
  <2>2. CASE UNCHANGED vars
    BY <2>2 DEF IInv, Firm, Within, vars, files
  <2> QED
    BY <2>1, <2>2
<1> QED
  BY <1>1, <1>2

\* Every step is one of SponsorJournal, or none of it, until a relay has strayed.
LEMMA PromiseStep ==
  ASSUME IInv, [Next]_vars, ~strayed' PROVE [Promise!Next]_(Promise!jvars)
<1> DEFINE Quiet == UNCHANGED <<disk.next, disk.settled, journal, broadcast>>
<1>1. Quiet => [Promise!Next]_(Promise!jvars)
  BY DEF Promise!jvars
<1>2. CASE UNCHANGED <<disk, journal, broadcast>>
  BY <1>1, <1>2
<1>3. ASSUME NEW p \in Processes, Turn(p), helper[p] = "holding", Known(p)
      PROVE  Quiet \/ Promise!Next
  <2>0. /\ Types /\ mem[p] \in Databases /\ disk \in Databases /\ disk.next \in Nat
        /\ pc[p] \notin {"down", "idle"} => job[p] \in Requests
        /\ pc[p] \in {"recover", "wait", "settled", "reserved", "journaled"} =>
             held[p] \in Transactions
        /\ None \notin Transactions
    BY Records DEF IInv, Types
  <2>1. Start(p) \/ Acquire(p) \/ Busy(p) \/ LockLost(p) \/ Reload(p) \/ ReadJournal(p)
          \/ ReadBack(p) => Quiet
    BY DEF Start, Acquire, Busy, LockLost, Reload, ReadJournal, ReadBack, End, files, chain
  <2>2. ClearStale(p) => Promise!Next
    BY <1>3 DEF ClearStale, Known, chain, Promise!Next, Promise!Clear
  <2>3. Prune(p) => Quiet
    BY <1>3 DEF Prune, Persist, Known, chain
  <2>4. Send(p) => Quiet \/ Promise!Next
    BY <1>3 DEF Send, Known, files, Promise!Next, Promise!Send
  <2>5. WaitFails(p) \/ Reject(p) \/ JournalGone(p) => Quiet
    BY <1>3 DEF WaitFails, Reject, JournalGone, Caught, End, Known, chain
  <2>6. ASSUME Settle(p) PROVE Promise!Next
    <3>1. /\ held[p] \in Transactions /\ held[p] = journal /\ journal # None
          /\ mem[p] = disk /\ disk' = SettledDb(p) /\ UNCHANGED <<journal, broadcast>>
      BY <1>3, <2>0, <2>6 DEF Settle, Persist, Known, chain
    <3>2. /\ disk'.settled = journal
          /\ disk'.next = IF disk.next > journal.nonce + 1 THEN disk.next ELSE journal.nonce + 1
      BY <3>1, <2>0, SettlementWritten
    <3> QED
      BY <3>1, <3>2 DEF Promise!Next, Promise!Settle
  <2>7. ClearSettled(p) => Promise!Next
    BY <1>3 DEF ClearSettled, Known, chain, Promise!Next, Promise!Clear
  <2>8. ASSUME Count(p) \/ Record(p) \/ \E count \in PendingCounts : Reserve(p, count) PROVE Quiet
    <3>1. job[p] \in Requests /\ mem[p] = disk /\ UNCHANGED <<journal, broadcast>>
      BY <1>3, <2>0, <2>8 DEF Count, Record, Reserve, End, Known, chain
    <3>2. \E kind \in {"counted", "debited", "settled", "recorded"} :
            disk' = [disk EXCEPT !.facts = @ \union {<<kind, job[p]>>}]
      BY <3>1, <2>8 DEF Count, Record, Reserve, Persist, Debited
    <3> QED
      BY <3>1, <3>2, <2>0, FactAdded
  <2>9. WriteJournal(p) => Promise!Next
    BY <1>3, <2>0 DEF WriteJournal, Known, chain, Promise!Next, Promise!Sign
  <2> QED
    BY <1>3, <2>1, <2>2, <2>3, <2>4, <2>5, <2>6, <2>7, <2>8, <2>9 DEF Turn
<1> HIDE DEF Quiet
<1> QED
  BY <1>1, <1>2, <1>3, Writer

---------------------------------------------------------------------------
(* The nonces of the network *)

\* What the network may have is counted, or older than the journal, or the journal.
JournalInv ==
  /\ journal = None => \A tx \in broadcast : tx.nonce < disk.next
  /\ journal # None => \A tx \in broadcast :
       tx = journal \/ (tx.nonce < journal.nonce /\ tx.nonce < disk.next)
  /\ Promise!NonceUsedOnce

\* The four steps of SponsorJournal keep it, whichever relay takes them.
LEMMA JournalStep ==
  ASSUME IInv, IInv', ~strayed, JournalInv, [Promise!Next]_(Promise!jvars)
  PROVE  JournalInv'
<1>0. /\ journal \in Transactions \union {None} /\ disk.next \in Nat /\ disk'.next \in Nat
      /\ broadcast \subseteq Transactions /\ broadcast' \subseteq Transactions
      /\ journal' \in Transactions \union {None}
      /\ disk.settled # None => disk.settled.nonce < disk.next
      /\ \A tx \in Transactions : tx.nonce \in Nat
  BY Records DEF IInv, Types, Knows, Counted
<1>1. CASE Promise!Sign
  <2>1. journal' \in Transactions /\ journal'.nonce \in Nat /\ journal'.nonce >= disk.next
        /\ UNCHANGED <<disk.next, broadcast>> /\ journal = None /\ journal' # None
    BY <1>0, <1>1, Records DEF Promise!Sign
  <2>2. \A tx \in broadcast : tx.nonce \in Nat /\ tx.nonce < disk.next
    BY <1>0, <2>1 DEF JournalInv
  <2>3. \A tx \in broadcast' : tx.nonce < journal'.nonce /\ tx.nonce < disk'.next
    BY <1>0, <2>1, <2>2
  <2>4. Promise!NonceUsedOnce'
    BY <2>1 DEF JournalInv, Promise!NonceUsedOnce
  <2> QED
    BY <2>1, <2>3, <2>4 DEF JournalInv
<1>2. CASE Promise!Send
  <2>1. /\ journal \in Transactions /\ journal # None /\ journal.nonce \in Nat
        /\ broadcast' = broadcast \union {journal} /\ UNCHANGED <<disk.next, journal>>
    BY <1>0, <1>2 DEF Promise!Send
  <2>2. \A tx \in broadcast' :
          tx = journal \/ (tx.nonce < journal.nonce /\ tx.nonce < disk.next)
    BY <2>1 DEF JournalInv
  <2>3. \A tx \in broadcast' : tx.nonce \in Nat
    BY <1>0
  <2>4. ASSUME NEW a \in broadcast', NEW b \in broadcast', a.nonce = b.nonce PROVE a = b
    <3>1. CASE a \in broadcast /\ b \in broadcast
      BY <2>4, <3>1 DEF JournalInv, Promise!NonceUsedOnce
    <3>2. CASE a = journal \/ b = journal
      BY <2>1, <2>2, <2>3, <2>4, <3>2
    <3> QED
      BY <2>1, <3>1, <3>2
  <2>5. Promise!NonceUsedOnce'
    BY <2>4 DEF Promise!NonceUsedOnce
  <2> QED
    BY <2>1, <2>2, <2>5 DEF JournalInv
<1>3. CASE Promise!Settle
  <2>1. /\ journal \in Transactions /\ journal # None /\ journal.nonce \in Nat
        /\ journal' \in {journal, None} /\ broadcast' = broadcast
        /\ disk'.next >= disk.next /\ journal.nonce < disk'.next
    BY <1>0, <1>3 DEF Promise!Settle
  <2>2. \A tx \in broadcast :
          tx = journal \/ (tx.nonce < journal.nonce /\ tx.nonce < disk.next /\ tx.nonce \in Nat)
    BY <1>0, <2>1 DEF JournalInv
  <2>3. \A tx \in broadcast : tx.nonce < disk'.next
    BY <1>0, <2>1, <2>2
  <2>4. Promise!NonceUsedOnce'
    BY <2>1 DEF JournalInv, Promise!NonceUsedOnce
  <2> QED
    BY <2>1, <2>2, <2>3, <2>4 DEF JournalInv
<1>4. CASE Promise!Clear
  <2>1. /\ journal \in Transactions /\ journal # None /\ journal' = None
        /\ journal.nonce < disk.next /\ UNCHANGED <<disk.next, broadcast>>
    BY <1>0, <1>4 DEF Promise!Clear
  <2>2. \A tx \in broadcast : tx.nonce < disk.next
    BY <2>1 DEF JournalInv
  <2>3. Promise!NonceUsedOnce'
    BY <2>1 DEF JournalInv, Promise!NonceUsedOnce
  <2> QED
    BY <2>1, <2>2, <2>3 DEF JournalInv
<1>5. CASE UNCHANGED Promise!jvars
  BY <1>5 DEF Promise!jvars, JournalInv, Promise!NonceUsedOnce
<1> QED
  BY <1>1, <1>2, <1>3, <1>4, <1>5 DEF Promise!Next

---------------------------------------------------------------------------
(* The counter of requests *)

\* A process holds no request twice, an idle one works on none, and its counter is
\* the number of those it holds.
Counts(p) ==
  /\ \A i, j \in 1..Len(line[p]) : line[p][i] = line[p][j] => i = j
  /\ job[p] \notin InLine(p)
  /\ pc[p] \in {"down", "idle"} => job[p] = None
  /\ IsFiniteSet(At(p))
  /\ queued[p] = Cardinality(At(p)) /\ queued[p] <= QueueLimit

\* The counter of each process counts the requests that process has.
QueueInv == \A p \in Processes : Counts(p)

\* Nothing happens to the requests of a process.
LEMMA CountsKept ==
  ASSUME NEW p \in Processes, Counts(p), line'[p] = line[p], queued'[p] = queued[p],
         job'[p] = job[p], pc'[p] \in {"down", "idle"} => pc[p] \in {"down", "idle"}
  PROVE  Counts(p)'
BY DEF Counts, At, InLine

\* The request a process works on ends.
LEMMA CountsEnd ==
  ASSUME IInv, NEW p \in Processes, Counts(p), pc[p] \notin {"down", "idle"},
         line'[p] = line[p], queued'[p] = queued[p] - 1, job'[p] = None
  PROVE  Counts(p)'
<1>1. /\ line[p] \in Seq(Requests) /\ job[p] \in Requests /\ job[p] # None
      /\ None \notin InLine(p)
  BY RequestsAssumption DEF IInv, Types, InLine
<1>2. InLine(p)' = InLine(p)
  BY DEF InLine
<1>3. At(p)' = At(p) \ {job[p]} /\ job[p] \in At(p)
  BY <1>1, <1>2 DEF At, Counts
<1>4. /\ IsFiniteSet(At(p)') /\ Cardinality(At(p)') = Cardinality(At(p)) - 1
      /\ Cardinality(At(p)) \in Nat
  BY <1>3, FS_RemoveElement, FS_CardinalityType DEF Counts
<1>5. queued'[p] = Cardinality(At(p)') /\ queued'[p] <= QueueLimit
  BY <1>4, LimitsAssumption DEF Counts
<1> QED
  BY <1>1, <1>2, <1>4, <1>5 DEF Counts

\* The first in line becomes the request a process works on.
LEMMA CountsStart ==
  ASSUME IInv, NEW p \in Processes, Counts(p), Start(p)
  PROVE  Counts(p)'
<1>1. /\ line[p] \in Seq(Requests) /\ line[p] # <<>> /\ job[p] = None
      /\ job'[p] = line[p][1] /\ line'[p] = Tail(line[p]) /\ queued' = queued
      /\ pc'[p] = "locking"
  BY DEF IInv, Types, Start, Counts
<1>2. /\ Len(line[p]) \in Nat \ {0} /\ Len(line'[p]) = Len(line[p]) - 1
      /\ \A i \in 1..Len(line'[p]) : line'[p][i] = line[p][i + 1] /\ i + 1 \in 1..Len(line[p])
  BY <1>1
<1>3. /\ \A i, j \in 1..Len(line'[p]) : line'[p][i] = line'[p][j] => i = j
      /\ \A i \in 1..Len(line'[p]) : line'[p][i] # line[p][1]
  <2>1. \A i, j \in 1..Len(line[p]) : line[p][i] = line[p][j] => i = j
    BY DEF Counts
  <2> QED
    BY <1>2, <2>1
<1>4. InLine(p) = InLine(p)' \union {job'[p]} /\ job'[p] \notin InLine(p)'
  <2>1. ASSUME NEW i \in 1..Len(line[p]) PROVE line[p][i] \in InLine(p)' \union {job'[p]}
    <3>1. CASE i = 1
      BY <1>1, <3>1
    <3>2. CASE i # 1
      <4>1. i - 1 \in 1..Len(line'[p])
        BY <1>2, <3>2
      <4>2. line'[p][i - 1] = line[p][i]
        BY <1>2, <4>1
      <4> QED
        BY <4>1, <4>2 DEF InLine
    <3> QED
      BY <3>1, <3>2
  <2>2. job'[p] \in InLine(p)
    BY <1>1, <1>2 DEF InLine
  <2> QED
    BY <1>1, <1>2, <1>3, <2>1, <2>2 DEF InLine
<1>5. At(p)' = At(p)
  <2>1. job'[p] # None
    BY <1>1, RequestsAssumption
  <2> QED
    BY <1>1, <1>4, <2>1 DEF At
<1> QED
  BY <1>1, <1>3, <1>4, <1>5 DEF Counts

\* A request is put in line, or refused by a full one.
LEMMA CountsArrive ==
  ASSUME IInv, NEW p \in Processes, Counts(p), NEW r \in Requests, Arrive(p, r),
         queued \in [Processes -> Int]
  PROVE  Counts(p)'
<1>0. UNCHANGED <<job, pc>>
  BY DEF Arrive, work
<1>1. CASE queued[p] >= QueueLimit
  BY <1>0, <1>1, CountsKept DEF Arrive
<1>2. CASE ~(queued[p] >= QueueLimit)
  <2>1. /\ line'[p] = Append(line[p], r) /\ queued'[p] = queued[p] + 1
        /\ line[p] \in Seq(Requests) /\ r \notin At(p)
    <3>1. /\ line' = [line EXCEPT ![p] = Append(@, r)] /\ queued' = [queued EXCEPT ![p] = @ + 1]
          /\ line \in [Processes -> Seq(Requests)]
      BY <1>2 DEF Arrive, IInv, Types
    <3>2. r \notin At(p)
      BY DEF Arrive, Arrived
    <3> QED
      BY <3>1, <3>2
  <2>2. /\ Len(line[p]) \in Nat /\ Len(line'[p]) = Len(line[p]) + 1
        /\ line'[p][Len(line[p]) + 1] = r
        /\ \A i \in 1..Len(line[p]) : line'[p][i] = line[p][i]
    BY <2>1
  <2>3. InLine(p)' = InLine(p) \union {r}
    BY <2>2 DEF InLine
  <2>4. r \notin InLine(p) /\ (job[p] # None => r # job[p]) /\ r # None
    BY <2>1, RequestsAssumption DEF At
  <2>5. At(p)' = At(p) \union {r}
    BY <1>0, <2>3 DEF At
  <2>6. /\ IsFiniteSet(At(p)') /\ Cardinality(At(p)') = Cardinality(At(p)) + 1
        /\ Cardinality(At(p)) \in Nat
    <3>1. IsFiniteSet(At(p))
      BY DEF Counts
    <3>2. /\ IsFiniteSet(At(p) \union {r})
          /\ Cardinality(At(p) \union {r}) = Cardinality(At(p)) + 1
          /\ Cardinality(At(p)) \in Nat
      BY <2>1, <3>1, FS_AddElement, FS_CardinalityType
    <3> QED
      BY <2>5, <3>2
  <2>7. queued'[p] = Cardinality(At(p)') /\ queued'[p] <= QueueLimit
    BY <1>2, <2>1, <2>6, LimitsAssumption DEF Counts
  <2>8. \A i, j \in 1..Len(line'[p]) : line'[p][i] = line'[p][j] => i = j
    <3>1. \A i \in 1..Len(line[p]) : line[p][i] # r
      BY <2>4 DEF InLine
    <3>2. \A i, j \in 1..Len(line[p]) : line[p][i] = line[p][j] => i = j
      BY DEF Counts
    <3>3. \A i \in 1..Len(line'[p]) : i \in 1..Len(line[p]) \/ i = Len(line[p]) + 1
      BY <2>2
    <3>4. \A i \in 1..Len(line'[p]) : line'[p][i] = IF i \in 1..Len(line[p]) THEN line[p][i] ELSE r
      BY <2>2, <3>3
    <3> QED
      BY <3>1, <3>2, <3>3, <3>4
  <2>9. job'[p] \notin InLine(p)'
    BY <1>0, <2>3, <2>4 DEF Counts
  <2> QED
    BY <1>0, <2>6, <2>7, <2>8, <2>9 DEF Counts
<1> QED
  BY <1>1, <1>2

\* The process is gone, and its requests with it.
LEMMA CountsCrash ==
  ASSUME IInv, NEW p \in Processes, Crash(p)
  PROVE  Counts(p)'
<1>1. line'[p] = <<>> /\ queued'[p] = 0 /\ job'[p] = None
  BY DEF Crash, IInv, Types
<1>2. InLine(p)' = {} /\ At(p)' = {}
  BY <1>1 DEF InLine, At
<1> QED
  BY <1>1, <1>2, FS_EmptySet, LimitsAssumption DEF Counts

\* What a relay does with its own requests.
LEMMA CountsTurn ==
  ASSUME IInv, NEW p \in Processes, Counts(p), Turn(p)
  PROVE  Counts(p)'
<1>0. /\ pc \in [Processes -> Stages] /\ job \in [Processes -> Requests \union {None}]
      /\ queued \in [Processes -> Int]
  BY DEF IInv, Types
<1>1. CASE Start(p)
  BY <1>1, CountsStart
<1>2. CASE Busy(p) \/ LockLost(p) \/ WaitFails(p) \/ Reject(p) \/ JournalGone(p) \/ Record(p)
  <2>1. End(p) /\ pc[p] \notin {"down", "idle"}
    BY <1>2 DEF Busy, LockLost, WaitFails, Reject, JournalGone, Record
  <2>2. line'[p] = line[p] /\ queued'[p] = queued[p] - 1 /\ job'[p] = None
    BY <2>1, <1>0 DEF End, Leave
  <2> QED
    BY <2>1, <2>2, CountsEnd
<1>3. CASE Acquire(p) \/ Reload(p) \/ ReadJournal(p) \/ ClearStale(p) \/ Prune(p) \/ Send(p)
  <2>1. UNCHANGED <<line, queued, job>> /\ pc'[p] \notin {"down", "idle"}
    BY <1>0, <1>3 DEF Acquire, Reload, ReadJournal, ClearStale, Prune, Send, queue, work
  <2> QED
    BY <2>1, CountsKept
<1>4. CASE \/ Settle(p) \/ ClearSettled(p) \/ Count(p) \/ WriteJournal(p) \/ ReadBack(p)
           \/ \E count \in PendingCounts : Reserve(p, count)
  <2>1. UNCHANGED <<line, queued, job>> /\ pc'[p] \notin {"down", "idle"}
    BY <1>0, <1>4 DEF Settle, ClearSettled, Count, WriteJournal, ReadBack, Reserve, queue
  <2> QED
    BY <2>1, CountsKept
<1> QED
  BY <1>1, <1>2, <1>3, <1>4 DEF Turn

LEMMA CountsStep ==
  ASSUME IInv, QueueInv, [Next]_vars
  PROVE  QueueInv'
<1> USE DEF QueueInv
<1>0. /\ line \in [Processes -> Seq(Requests)] /\ queued \in [Processes -> Int]
      /\ job \in [Processes -> Requests \union {None}] /\ pc \in [Processes -> Stages]
  BY DEF IInv, Types
<1>1. ASSUME NEW p \in Processes, Turn(p) PROVE QueueInv'
  <2>1. Counts(p)'
    BY <1>1, CountsTurn
  <2>2. ASSUME NEW q \in Processes, q # p PROVE Counts(q)'
    BY <1>1, <2>2, Frame, CountsKept DEF IInv
  <2> QED
    BY <2>1, <2>2
<1>2. ASSUME NEW p \in Processes, NEW r \in Requests, Arrive(p, r) PROVE QueueInv'
  <2>1. Counts(p)'
    BY <1>0, <1>2, CountsArrive
  <2>2. ASSUME NEW q \in Processes, q # p PROVE Counts(q)'
    <3>1. line'[q] = line[q] /\ queued'[q] = queued[q] /\ job'[q] = job[q] /\ pc'[q] = pc[q]
      BY <1>0, <1>2, <2>2 DEF Arrive, work
    <3> QED
      BY <3>1, CountsKept
  <2> QED
    BY <2>1, <2>2
<1>3. ASSUME NEW p \in Processes, HelperDies(p) \/ Notice(p) \/ Restart(p) PROVE QueueInv'
  <2>1. /\ UNCHANGED <<line, queued, job>>
        /\ \A q \in Processes : pc'[q] \in {"down", "idle"} => pc[q] \in {"down", "idle"}
    BY <1>0, <1>3 DEF HelperDies, Notice, Restart, queue, work
  <2> QED
    BY <2>1, CountsKept
<1>4. ASSUME NEW p \in Processes, Crash(p) PROVE QueueInv'
  <2>1. Counts(p)'
    BY <1>4, CountsCrash
  <2>2. ASSUME NEW q \in Processes, q # p PROVE Counts(q)'
    <3>1. line'[q] = line[q] /\ queued'[q] = queued[q] /\ job'[q] = job[q] /\ pc'[q] = pc[q]
      BY <1>0, <1>4, <2>2 DEF Crash
    <3> QED
      BY <3>1, CountsKept
  <2> QED
    BY <2>1, <2>2
<1>5. ASSUME NEW tx \in broadcast, Mine(tx) PROVE QueueInv'
  BY <1>5, CountsKept DEF Mine, queue, work
<1>6. CASE UNCHANGED vars
  BY <1>6, CountsKept DEF vars, queue, work
<1> QED
  BY <1>1, <1>2, <1>3, <1>4, <1>5, <1>6 DEF Next, Others, Step

---------------------------------------------------------------------------
(* The theorems *)

\* The types, who has the lock and believes to, what each relay knows of the files
\* until one has strayed, and what is firm ever after hold in every state.
THEOREM ProcessesInvariant == Spec => []IInv
<1> QED
  BY InitInvariant, InvariantStep, PTL DEF Spec

\* Any number of relays, however their helpers and they themselves die, write db.json
\* only from a copy that misses nothing, until one acts on a lock it has lost without
\* knowing; and nothing that one does is lost of what db.json held before that
\* (lock.ts, assertStateLockHeld; server.ts, reload and persist).
THEOREM NoWriteIsLost == Spec => NoLostWrite
<1>1. IInv /\ [Next]_vars =>
        [/\ strayed' \/ (disk.facts \subseteq disk'.facts /\ disk.next <= disk'.next)
         /\ firm.facts \subseteq disk'.facts /\ firm.next <= disk'.next]_vars
  BY WritesAdd DEF Within
<1> QED
  BY <1>1, InitInvariant, InvariantStep, PTL DEF Spec, NoLostWrite

\* Until a relay acts on a lock it has lost without knowing, any number of them over one
\* state directory take only the steps of SponsorJournal, though each is the write of a
\* single file, between the writes of the others (lock.ts, withStateLock; server.ts,
\* recoverPending, recoverJournal, sponsored).
THEOREM PromiseIsKept == Spec => JournalPromise
<1>1. Init => Promise!Init
  BY DEF Init, EmptyDb, Promise!Init
<1>2. IInv /\ [Next]_vars =>
        [strayed' \/ Promise!Next \/ UNCHANGED Promise!jvars]_vars
  BY PromiseStep
<1> QED
  BY <1>1, <1>2, InitInvariant, InvariantStep, PTL DEF Spec, JournalPromise

\* Until a relay acts on a lock it has lost without knowing, any number of them, however
\* their helpers and they themselves die, never give the network two transactions with
\* one nonce (server.ts, sponsored: "Recovery can only resend this exact transaction").
THEOREM NoncesAreUsedOnce == Spec => [](~strayed => NonceUsedOnce)
<1>1. Init => (~strayed => JournalInv)
  BY DEF Init, EmptyDb, JournalInv, Promise!NonceUsedOnce
<1>2. IInv /\ IInv' /\ (~strayed => JournalInv) /\ [Next]_vars => (~strayed => JournalInv)'
  <2> SUFFICES ASSUME IInv, IInv', ~strayed => JournalInv, [Next]_vars, ~strayed'
               PROVE  JournalInv'
    OBVIOUS
  <2>1. ~strayed
    <3>1. CASE Others \/ UNCHANGED vars
      BY <3>1, OthersQuiet DEF vars, history
    <3>2. ASSUME NEW p \in Processes, Step(p) PROVE ~strayed
      BY <3>2 DEF Step
    <3> QED
      BY <3>1, <3>2 DEF Next
  <2> QED
    BY <2>1, PromiseStep, JournalStep
<1>3. (~strayed => JournalInv) => (~strayed => NonceUsedOnce)
  BY DEF JournalInv, NonceUsedOnce
<1> QED
  BY <1>1, <1>2, <1>3, ProcessesInvariant, PTL DEF Spec

\* The counter a full queue is told by is exact in every process, however its requests
\* end: an error, a lost lock, a busy one or a crash leaves none counted for ever, and
\* none is held beyond the limit (server.ts, handle).
THEOREM CounterIsExact == Spec => []QueuedExact
<1>1. Init => QueueInv
  <2> SUFFICES ASSUME Init, NEW p \in Processes PROVE Counts(p)
    BY DEF Init, QueueInv
  <2>1. line[p] = <<>> /\ queued[p] = 0 /\ job[p] = None
    BY DEF Init
  <2>2. InLine(p) = {} /\ At(p) = {}
    BY <2>1 DEF InLine, At
  <2> QED
    BY <2>1, <2>2, FS_EmptySet, LimitsAssumption DEF Counts
<1>2. IInv /\ QueueInv /\ [Next]_vars => QueueInv'
  BY CountsStep
<1>3. QueueInv => QueuedExact
  BY DEF QueueInv, Counts, QueuedExact
<1> QED
  BY <1>1, <1>2, <1>3, ProcessesInvariant, PTL DEF Spec
=============================================================================
