---------------------------- MODULE WorkManager ----------------------------
(***************************************************************************)
(* contracts/WorkManager.sol: tasks that a vote activates, a worker claims *)
(* and delivers, named verifiers confirm, and shares pay.  A step is one   *)
(* transaction.                                                            *)
(*                                                                         *)
(* Which task proposals pass, and when, is Baal's matter: the Safe may     *)
(* activate or cancel a task at any moment.  A confirmation is kept with   *)
(* the evidence it was given for, where the code keeps the pair of round   *)
(* and verifier, so that a property can tell what was confirmed.           *)
(* Left out: the proposer of a task beyond the check on verifiers, the     *)
(* proposal id, text and offering, and the width of counters.              *)
(***************************************************************************)
EXTENDS Integers, Sequences, FiniteSetsExt

CONSTANTS Agents,
          Nobody,        \* address(0)
          Evidence,      \* what may be delivered, as its hash
          NoEvidence,    \* bytes32(0)
          Tasks,         \* the task ids, 1, 2, ...
          Offers,        \* the arguments submitTask is called with
          ClaimTimeout,  \* CLAIM_TIMEOUT
          MaxNow,        \* bound: the last second of a behaviour
          MaxRound       \* bound: deliveries of a task

ASSUME TasksAssumption == IsFiniteSet(Tasks) /\ Tasks = 1..Cardinality(Tasks)
ASSUME AgentsAssumption == IsFiniteSet(Agents)
ASSUME NobodyAssumption == Nobody \notin Agents /\ NoEvidence \notin Evidence
ASSUME OffersAssumption ==
  Offers \subseteq [verifiers: SUBSET Agents, threshold: Nat, reward: Nat, expiration: Nat]
ASSUME TimesAssumption == ClaimTimeout \in Nat /\ MaxNow \in Nat \ {0} /\ MaxRound \in Nat

VARIABLES now,
          taskCount,
          tasks,               \* _tasks[t] and _verifiers[t]
          activeTasks,         \* _activeTasks
          activeIndexPlusOne,  \* _activeIndexPlusOne[t]
          confirmedBy,         \* the confirmations <<task, round, verifier, evidence>>
          earned               \* earned[m]: the shares minted to m

vars == <<now, taskCount, tasks, activeTasks, activeIndexPlusOne, confirmedBy, earned>>

Status == {"None", "Proposed", "Active", "Complete", "Cancelled", "Expired"}

NoTask == [status |-> "None", verifiers |-> {}, threshold |-> 0, reward |-> 0,
           expiration |-> 0, worker |-> Nobody, claimedAt |-> 0, round |-> 0,
           evidence |-> NoEvidence, confirmations |-> 0]

---------------------------------------------------------------------------
(* Reads *)

\* _expired
Expired(t) == tasks[t].expiration # 0 /\ now > tasks[t].expiration

\* A plausible slip: what the worker delivered is not looked at.
ClaimLapsedDelivered(t) ==
  tasks[t].worker # Nobody /\ now > tasks[t].claimedAt + ClaimTimeout

\* claimLapsed
ClaimLapsed(t) ==
  /\ tasks[t].worker # Nobody
  /\ tasks[t].evidence = NoEvidence
  /\ now > tasks[t].claimedAt + ClaimTimeout

\* activeRewardShares: the shares voted away and not minted yet, which
\* DepositShaman prices into deposits.
ActiveRewardShares ==
  MapThenSumSet(LAMBDA i : IF Expired(activeTasks[i]) THEN 0 ELSE tasks[activeTasks[i]].reward,
                1..Len(activeTasks))

---------------------------------------------------------------------------
(* The Safe and the proposer *)

\* submitTask by m.  A repeated verifier is refused: verifiers are a set.
\* Baal refuses an expiration that is not later.
SubmitTask(m, offer) ==
  /\ taskCount < Cardinality(Tasks)
  /\ offer.verifiers # {} /\ m \notin offer.verifiers
  /\ offer.threshold \in 1..Cardinality(offer.verifiers)
  /\ offer.reward > 0
  /\ offer.expiration = 0 \/ offer.expiration > now
  /\ taskCount' = taskCount + 1
  /\ tasks' = [tasks EXCEPT ![taskCount + 1] =
       [NoTask EXCEPT !.status = "Proposed", !.verifiers = offer.verifiers,
                      !.threshold = offer.threshold, !.reward = offer.reward,
                      !.expiration = offer.expiration]]
  /\ UNCHANGED <<now, activeTasks, activeIndexPlusOne, confirmedBy, earned>>

ActivateTask(t) ==
  /\ tasks[t].status = "Proposed"
  /\ ~Expired(t)
  /\ tasks' = [tasks EXCEPT ![t].status = "Active"]
  /\ activeTasks' = Append(activeTasks, t)
  /\ activeIndexPlusOne' = [activeIndexPlusOne EXCEPT ![t] = Len(activeTasks) + 1]
  /\ UNCHANGED <<now, taskCount, confirmedBy, earned>>

\* A plausible slip: the task moved into the gap keeps its old index.
RemoveActiveKeepsIndex(t) ==
  LET index == activeIndexPlusOne[t]
      last == activeTasks[Len(activeTasks)]
  IN  /\ activeTasks' = SubSeq([activeTasks EXCEPT ![index] = last], 1, Len(activeTasks) - 1)
      /\ activeIndexPlusOne' = [activeIndexPlusOne EXCEPT ![t] = 0]

\* _removeActive: the last task of the list moves into the gap.  It is only
\* called for an Active task, whose index is not zero.
RemoveActive(t) ==
  LET index == activeIndexPlusOne[t]
      last == activeTasks[Len(activeTasks)]
  IN  /\ activeTasks' = SubSeq([activeTasks EXCEPT ![index] = last], 1, Len(activeTasks) - 1)
      /\ activeIndexPlusOne' = [activeIndexPlusOne EXCEPT ![last] = index, ![t] = 0]

\* cancelTask
CancelTask(t) ==
  /\ \/ /\ tasks[t].status = "Proposed"
        /\ UNCHANGED <<activeTasks, activeIndexPlusOne>>
     \/ /\ tasks[t].status = "Active"
        /\ RemoveActive(t)
  /\ tasks' = [tasks EXCEPT ![t].status = "Cancelled"]
  /\ UNCHANGED <<now, taskCount, confirmedBy, earned>>

\* expireTask, by anyone.
ExpireTask(t) ==
  /\ tasks[t].status = "Active"
  /\ Expired(t)
  /\ RemoveActive(t)
  /\ tasks' = [tasks EXCEPT ![t].status = "Expired"]
  /\ UNCHANGED <<now, taskCount, confirmedBy, earned>>

---------------------------------------------------------------------------
(* Workers and verifiers *)

\* claim by m: an open task, or one whose claim has lapsed.
Claim(m, t) ==
  /\ tasks[t].status = "Active"
  /\ ~Expired(t)
  /\ m \notin tasks[t].verifiers
  /\ tasks[t].worker = Nobody \/ ClaimLapsed(t)
  /\ tasks' = [tasks EXCEPT ![t].worker = m, ![t].claimedAt = now]
  /\ UNCHANGED <<now, taskCount, activeTasks, activeIndexPlusOne, confirmedBy, earned>>

\* A plausible slip: the confirmations of the delivery before still count.
DeliverKeepsCount(t, evidence) ==
  /\ tasks[t].round < MaxRound
  /\ tasks[t].status = "Active"
  /\ tasks[t].worker # Nobody
  /\ tasks' = [tasks EXCEPT ![t].round = @ + 1, ![t].evidence = evidence]
  /\ UNCHANGED <<now, taskCount, activeTasks, activeIndexPlusOne, confirmedBy, earned>>

\* deliver by the worker, as often as he likes and even after the expiration:
\* every delivery opens a new round.
Deliver(t, evidence) ==
  /\ tasks[t].round < MaxRound
  /\ tasks[t].status = "Active"
  /\ tasks[t].worker # Nobody
  /\ tasks' = [tasks EXCEPT ![t].round = @ + 1, ![t].confirmations = 0,
                            ![t].evidence = evidence]
  /\ UNCHANGED <<now, taskCount, activeTasks, activeIndexPlusOne, confirmedBy, earned>>

\* A plausible slip: the evidence shown is not compared.
MayConfirmAnyEvidence(v, t, evidence) ==
  /\ tasks[t].status = "Active"
  /\ ~Expired(t)
  /\ v \in tasks[t].verifiers
  /\ tasks[t].evidence # NoEvidence
  /\ \A e \in Evidence : <<t, tasks[t].round, v, e>> \notin confirmedBy

\* A plausible slip: a delivery is confirmed after the task's expiration.
MayConfirmLate(v, t, evidence) ==
  /\ tasks[t].status = "Active"
  /\ v \in tasks[t].verifiers
  /\ tasks[t].evidence # NoEvidence
  /\ evidence = tasks[t].evidence
  /\ \A e \in Evidence : <<t, tasks[t].round, v, e>> \notin confirmedBy

\* confirm gets past its checks.
MayConfirm(v, t, evidence) ==
  /\ tasks[t].status = "Active"
  /\ ~Expired(t)
  /\ v \in tasks[t].verifiers
  /\ tasks[t].evidence # NoEvidence
  /\ evidence = tasks[t].evidence
  /\ \A e \in Evidence : <<t, tasks[t].round, v, e>> \notin confirmedBy

\* confirm by a verifier v: the last confirmation needed closes the task and
\* mints its reward to the worker.
Confirm(v, t, evidence) ==
  /\ MayConfirm(v, t, evidence)
  /\ confirmedBy' = confirmedBy \union {<<t, tasks[t].round, v, evidence>>}
  /\ IF tasks[t].confirmations + 1 = tasks[t].threshold
     THEN /\ RemoveActive(t)
          /\ tasks' = [tasks EXCEPT ![t].confirmations = @ + 1, ![t].status = "Complete"]
          /\ earned' = [earned EXCEPT ![tasks[t].worker] = @ + tasks[t].reward]
     ELSE /\ tasks' = [tasks EXCEPT ![t].confirmations = @ + 1]
          /\ UNCHANGED <<activeTasks, activeIndexPlusOne, earned>>
  /\ UNCHANGED <<now, taskCount>>

Tick == /\ now < MaxNow
        /\ now' = now + 1
        /\ UNCHANGED <<taskCount, tasks, activeTasks, activeIndexPlusOne, confirmedBy, earned>>

---------------------------------------------------------------------------
Init ==
  /\ now = 1
  /\ taskCount = 0
  /\ tasks = [t \in Tasks |-> NoTask]
  /\ activeTasks = <<>>
  /\ activeIndexPlusOne = [t \in Tasks |-> 0]
  /\ confirmedBy = {}
  /\ earned = [m \in Agents |-> 0]

Next ==
  \/ \E m \in Agents, offer \in Offers : SubmitTask(m, offer)
  \/ \E t \in Tasks : ActivateTask(t) \/ CancelTask(t) \/ ExpireTask(t)
  \/ \E m \in Agents, t \in Tasks : Claim(m, t)
  \/ \E t \in Tasks, evidence \in Evidence : Deliver(t, evidence)
  \/ \E v \in Agents, t \in Tasks, evidence \in Evidence : Confirm(v, t, evidence)
  \/ Tick

Spec == Init /\ [][Next]_vars

---------------------------------------------------------------------------
(* Properties *)

TaskRecords ==
  [status: Status, verifiers: SUBSET Agents, threshold: Nat, reward: Nat, expiration: Nat,
   worker: Agents \union {Nobody}, claimedAt: 0..MaxNow, round: 0..MaxRound,
   evidence: Evidence \union {NoEvidence}, confirmations: Nat]

\* Tasks, confirmations and the list of active tasks hold what WorkManager
\* declares them to hold.
TypeOK ==
  /\ now \in 1..MaxNow
  /\ taskCount \in 0..Cardinality(Tasks)
  /\ tasks \in [Tasks -> TaskRecords]
  /\ activeTasks \in Seq(Tasks)
  /\ activeIndexPlusOne \in [Tasks -> Nat]
  /\ confirmedBy \subseteq Tasks \X (1..MaxRound) \X Agents \X Evidence
  /\ earned \in [Agents -> Nat]

\* The verifiers that confirmed the delivery on record, in its round.
Confirmers(t) == {v \in Agents : <<t, tasks[t].round, v, tasks[t].evidence>> \in confirmedBy}

\* The active list holds every Active task once and no other, and the index of
\* a task is its place, in whatever order tasks were activated, paid, cancelled
\* and expired: else a removal takes the wrong task out of the liability, or
\* fails and takes the payment with it (WorkManager._removeActive).
ActiveListExact ==
  /\ \A t \in Tasks :
       IF tasks[t].status = "Active"
       THEN /\ activeIndexPlusOne[t] \in 1..Len(activeTasks)
            /\ activeTasks[activeIndexPlusOne[t]] = t
       ELSE activeIndexPlusOne[t] = 0
  /\ \A i \in 1..Len(activeTasks) : activeIndexPlusOne[activeTasks[i]] = i

\* The counter of confirmations is the number of verifiers that confirmed the
\* delivery on record, and stays below the threshold while the task is open: a
\* new delivery starts from none, and the equality test of confirm cannot be
\* jumped over (WorkManager.deliver, confirm).
RoundTally ==
  \A t \in Tasks :
    /\ \A c \in confirmedBy : c[1] = t =>
         /\ c[2] <= tasks[t].round
         /\ c[2] = tasks[t].round => c[4] = tasks[t].evidence
    /\ tasks[t].confirmations = Cardinality(Confirmers(t))
    /\ tasks[t].status = "Active" => tasks[t].confirmations < tasks[t].threshold
    /\ tasks[t].round = 0 <=> tasks[t].evidence = NoEvidence
    /\ tasks[t].round > 0 => tasks[t].worker # Nobody

\* Who confirmed, who may work, and when a task is Complete.
VerifierInv ==
  \A t \in Tasks :
    /\ \A c \in confirmedBy : c[1] = t => c[3] \in tasks[t].verifiers
    /\ tasks[t].worker \notin tasks[t].verifiers
    /\ tasks[t].status \in {"None", "Proposed"} => tasks[t].round = 0
    /\ tasks[t].status = "Complete" => tasks[t].confirmations = tasks[t].threshold
    /\ tasks[t].status # "None" => tasks[t].threshold > 0
    /\ tasks[t].status = "None" <=> t > taskCount

\* The inductive invariant: types, the active list with its indices, and for
\* every task a confirmation count that equals the verifiers who confirmed the
\* delivery of the current round.
IInv == TypeOK /\ ActiveListExact /\ RoundTally /\ VerifierInv

\* Shares are minted for verified work only: as many named verifiers as the
\* vote asked for, the worker not among them, confirmed the very delivery that
\* is on record, in its own round; a confirmation of an earlier delivery or of
\* other evidence counts for nothing (WorkManager.deliver, confirm).
VerifiedBeforePaid ==
  \A t \in Tasks : tasks[t].status = "Complete" =>
    /\ Cardinality(Confirmers(t)) = tasks[t].threshold
    /\ Confirmers(t) \subseteq tasks[t].verifiers \ {tasks[t].worker}

\* Whoever delivered keeps the task, however long confirmation takes: the
\* reward of a delivery never goes to somebody who took the task over
\* (WorkManager.claim, claimLapsed).
DelivererKept ==
  [][\A t \in Tasks : tasks[t].round > 0 => tasks'[t].worker = tasks[t].worker]_vars
=============================================================================
