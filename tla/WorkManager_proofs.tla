------------------------- MODULE WorkManager_proofs -------------------------
(***************************************************************************)
(* The inductive invariants of the task manager and of the treasury and    *)
(* what follows from them: for any number of tasks, agents and rounds and  *)
(* any offers; for any instances, budgets, rules and prices.  Both keep a  *)
(* list with an index and close a gap in it with the last member, so they  *)
(* share the lemmas about such a list.                                     *)
(***************************************************************************)
EXTENDS WorkManager, Treasury, SumFacts

---------------------------------------------------------------------------
(* A list with an index, as WorkManager and TreasuryLedger keep one *)

\* List and index agree on the part S of U.
ListOf(U, S, list, index) ==
  /\ list \in Seq(U) /\ index \in [U -> Nat]
  /\ \A t \in U : IF t \in S THEN index[t] \in 1..Len(list) /\ list[index[t]] = t
                      ELSE index[t] = 0
  /\ \A i \in 1..Len(list) : index[list[i]] = i

LEMMA AppendList ==
  ASSUME NEW U, NEW S \in SUBSET U, NEW t \in U \ S, NEW list, NEW index,
         ListOf(U, S, list, index)
  PROVE  ListOf(U, S \union {t}, Append(list, t), [index EXCEPT ![t] = Len(list) + 1])
<1> DEFINE list2 == Append(list, t)
           index2 == [index EXCEPT ![t] = Len(list) + 1]
<1>1. /\ list \in Seq(U) /\ index \in [U -> Nat] /\ Len(list) \in Nat
      /\ \A i \in 1..Len(list) : list[i] \in U
  BY DEF ListOf
<1>2. /\ list2 \in Seq(U) /\ Len(list2) = Len(list) + 1 /\ list2[Len(list) + 1] = t
      /\ \A i \in 1..Len(list) : list2[i] = list[i]
  BY <1>1
<1>3. /\ index2 \in [U -> Nat] /\ index2[t] = Len(list) + 1
      /\ \A u \in U : u # t => index2[u] = index[u]
  BY <1>1
<1>4. \A i \in 1..Len(list) : list[i] # t
  <2> SUFFICES ASSUME NEW i \in 1..Len(list), list[i] = t PROVE FALSE
    OBVIOUS
  <2>1. index[t] = i /\ index[t] = 0
    BY DEF ListOf
  <2> QED
    BY <2>1, <1>1
<1> HIDE DEF list2, index2
<1>5. \A u \in U : IF u \in S \union {t} THEN index2[u] \in 1..Len(list2) /\ list2[index2[u]] = u
                       ELSE index2[u] = 0
  <2> TAKE u \in U
  <2>1. CASE u = t
    BY <2>1, <1>1, <1>2, <1>3
  <2>2. CASE u # t
    BY SMTT(30), <2>2, <1>1, <1>2, <1>3 DEF ListOf
  <2> QED
    BY <2>1, <2>2
<1>6. \A i \in 1..Len(list2) : index2[list2[i]] = i
  <2> TAKE i \in 1..Len(list2)
  <2>1. CASE i = Len(list) + 1
    BY <2>1, <1>2, <1>3
  <2>2. CASE i # Len(list) + 1
    <3>1. i \in 1..Len(list)
      BY <2>2, <1>1, <1>2
    <3> QED
      BY ZenonT(30), <3>1, <1>1, <1>2, <1>3, <1>4 DEF ListOf
  <2> QED
    BY <2>1, <2>2
<1>7. ListOf(U, S \union {t}, list2, index2)
  BY <1>2, <1>3, <1>5, <1>6 DEF ListOf
<1> QED
  BY <1>7 DEF list2, index2

\* Swap and pop: the last member moves into the gap.
LEMMA RemoveFromList ==
  ASSUME NEW U, NEW S \in SUBSET U, NEW t \in S, NEW list, NEW index,
         ListOf(U, S, list, index)
  PROVE  LET gap == index[t]
             last == list[Len(list)]
         IN  ListOf(U, S \ {t}, SubSeq([list EXCEPT ![gap] = last], 1, Len(list) - 1),
                             [index EXCEPT ![last] = gap, ![t] = 0])
<1> DEFINE gap == index[t]
           last == list[Len(list)]
           moved == [list EXCEPT ![gap] = last]
           list2 == SubSeq(moved, 1, Len(list) - 1)
           index2 == [index EXCEPT ![last] = gap, ![t] = 0]
           n == Len(list)
<1>1. /\ list \in Seq(U) /\ index \in [U -> Nat] /\ n \in Nat
      /\ \A i \in 1..n : list[i] \in U
  BY DEF ListOf
<1>2. t \in U /\ gap \in 1..n /\ list[gap] = t /\ n > 0
  BY <1>1 DEF ListOf
<1>3. last \in U /\ index[last] = n
  BY <1>1, <1>2 DEF ListOf
<1>4. moved \in Seq(U) /\ Len(moved) = n
      /\ \A i \in 1..n : moved[i] = IF i = gap THEN last ELSE list[i]
  BY <1>1, <1>2, <1>3
<1>5. list2 \in Seq(U) /\ Len(list2) = n - 1
      /\ \A i \in 1..(n - 1) : list2[i] = IF i = gap THEN last ELSE list[i]
  BY <1>1, <1>2, <1>4
<1>6. /\ index2 \in [U -> Nat] /\ index2[t] = 0
      /\ last # t => index2[last] = gap
      /\ \A u \in U : u # t /\ u # last => index2[u] = index[u]
  BY <1>1, <1>2, <1>3
<1>7. last = t <=> gap = n
  BY <1>1, <1>2, <1>3
<1>8. \A i, j \in 1..n : list[i] = list[j] => i = j
  BY DEF ListOf
<1> HIDE DEF gap, last, moved, list2, index2, n
<1>9. \A u \in U : IF u \in S \ {t} THEN index2[u] \in 1..Len(list2) /\ list2[index2[u]] = u
                       ELSE index2[u] = 0
  <2> TAKE u \in U
  <2>1. CASE u = t
    BY <2>1, <1>6
  <2>2. CASE u # t /\ u = last
    <3>1. gap # n /\ gap \in 1..(n - 1)
      BY <2>2, <1>1, <1>2, <1>7
    <3>2. u \in S
      BY <2>2, <1>1, <1>2, <1>3 DEF ListOf, n
    <3> QED
      BY <2>2, <3>1, <3>2, <1>5, <1>6
  <2>3. CASE u # t /\ u # last /\ u \in S
    <3>1. index[u] \in 1..n /\ list[index[u]] = u
      BY <2>3 DEF ListOf, n
    <3>2. index[u] # n /\ index[u] # gap
      BY <2>3, <3>1, <1>2 DEF last, n
    <3>3. index[u] \in 1..(n - 1)
      BY <3>1, <3>2, <1>1
    <3> QED
      BY <2>3, <3>1, <3>2, <3>3, <1>5, <1>6
  <2>4. CASE u # t /\ u # last /\ u \notin S
    BY <2>4, <1>6 DEF ListOf
  <2> QED
    BY <2>1, <2>2, <2>3, <2>4
<1>10. \A i \in 1..Len(list2) : index2[list2[i]] = i
  <2> TAKE i \in 1..Len(list2)
  <2>1. i \in 1..(n - 1) /\ i \in 1..n /\ i # n
    BY <1>1, <1>5
  <2>2. CASE i = gap
    BY <2>1, <2>2, <1>5, <1>6, <1>7
  <2>3. CASE i # gap
    <3>1. list2[i] = list[i]
      BY <2>1, <2>3, <1>5
    <3>2. list[i] # t /\ list[i] # last /\ list[i] \in U
      BY <2>1, <2>3, <1>1, <1>2, <1>8 DEF last, n
    <3>3. index[list[i]] = i
      BY <2>1 DEF ListOf, n
    <3> QED
      BY <3>1, <3>2, <3>3, <1>6
  <2> QED
    BY <2>2, <2>3
<1>11. ListOf(U, S \ {t}, list2, index2)
  BY <1>5, <1>6, <1>9, <1>10 DEF ListOf
<1> QED
  BY <1>11 DEF gap, last, moved, list2, index2, n

---------------------------------------------------------------------------
(* WorkManager *)

ActiveSet == {t \in Tasks : tasks[t].status = "Active"}

LEMMA ListOfActive ==
  TypeOK => (ActiveListExact <=> ListOf(Tasks, ActiveSet, activeTasks, activeIndexPlusOne))
BY DEF TypeOK, ActiveListExact, ListOf, ActiveSet

---------------------------------------------------------------------------
(* One task's part of the invariant, and the steps that do not reach it *)

TaskInv(t) ==
  /\ \A c \in confirmedBy : c[1] = t =>
       /\ c[2] <= tasks[t].round
       /\ c[2] = tasks[t].round => c[4] = tasks[t].evidence
       /\ c[3] \in tasks[t].verifiers
  /\ tasks[t].confirmations = Cardinality(Confirmers(t))
  /\ tasks[t].status = "Active" => tasks[t].confirmations < tasks[t].threshold
  /\ tasks[t].round = 0 <=> tasks[t].evidence = NoEvidence
  /\ tasks[t].round > 0 => tasks[t].worker # Nobody
  /\ tasks[t].worker \notin tasks[t].verifiers
  /\ tasks[t].status \in {"None", "Proposed"} => tasks[t].round = 0
  /\ tasks[t].status = "Complete" => tasks[t].confirmations = tasks[t].threshold
  /\ tasks[t].status # "None" => tasks[t].threshold > 0
  /\ tasks[t].status = "None" <=> t > taskCount

LEMMA TaskInvs == RoundTally /\ VerifierInv <=> \A t \in Tasks : TaskInv(t)
BY DEF RoundTally, VerifierInv, TaskInv

LEMMA TaskFacts ==
  ASSUME TypeOK, NEW t \in Tasks
  PROVE  /\ tasks[t].status \in Status /\ tasks[t].verifiers \subseteq Agents
         /\ tasks[t].threshold \in Nat /\ tasks[t].reward \in Nat
         /\ tasks[t].expiration \in Nat /\ tasks[t].claimedAt \in 0..MaxNow
         /\ tasks[t].worker \in Agents \union {Nobody}
         /\ tasks[t].round \in 0..MaxRound
         /\ tasks[t].evidence \in Evidence \union {NoEvidence}
         /\ tasks[t].confirmations \in Nat
         /\ t \in Nat /\ t > 0
BY TasksAssumption, FS_CardinalityType DEF TypeOK, TaskRecords

LEMMA ConfirmationFacts ==
  ASSUME TypeOK, NEW c \in confirmedBy
  PROVE  /\ c[1] \in Tasks /\ c[2] \in Nat /\ c[2] > 0 /\ c[3] \in Agents /\ c[4] \in Evidence
         /\ c = <<c[1], c[2], c[3], c[4]>>
BY TimesAssumption DEF TypeOK

\* A task whose record and confirmations stay keeps its part.
LEMMA Untouched ==
  ASSUME NEW t \in Tasks, TaskInv(t),
         tasks'[t] = tasks[t],
         \A c : c[1] = t => (c \in confirmedBy' <=> c \in confirmedBy),
         t > taskCount' <=> t > taskCount
  PROVE  TaskInv(t)'
<1>1. Confirmers(t)' = Confirmers(t)
  BY DEF Confirmers
<1> QED
  BY <1>1 DEF TaskInv

\* Nobody has confirmed in a round that is still to come.
LEMMA NoConfirmers ==
  ASSUME TypeOK, NEW t \in Tasks, TaskInv(t), NEW r \in Nat, r > tasks[t].round \/ r = 0,
         NEW e
  PROVE  {v \in Agents : <<t, r, v, e>> \in confirmedBy} = {}
<1> SUFFICES ASSUME NEW v \in Agents, <<t, r, v, e>> \in confirmedBy
             PROVE  FALSE
  OBVIOUS
<1> DEFINE c == <<t, r, v, e>>
<1>1. c \in confirmedBy /\ c[1] = t /\ c[2] = r
  OBVIOUS
<1> HIDE DEF c
<1>2. c[2] <= tasks[t].round /\ c[2] > 0 /\ tasks[t].round \in Nat
  BY <1>1, ConfirmationFacts, TaskFacts, TimesAssumption DEF TaskInv
<1> QED
  BY <1>1, <1>2

\* Round zero counts nothing.
LEMMA RoundZero ==
  ASSUME TypeOK, NEW t \in Tasks, TaskInv(t), tasks[t].round = 0
  PROVE  /\ Confirmers(t) = {} /\ tasks[t].confirmations = 0
         /\ \A c \in confirmedBy : c[1] # t
<1>1. Confirmers(t) = {}
  BY NoConfirmers DEF Confirmers
<1>2. tasks[t].confirmations = 0
  BY <1>1, FS_EmptySet DEF TaskInv
<1>3. ASSUME NEW c \in confirmedBy, c[1] = t PROVE FALSE
  <2>1. c[2] <= 0 /\ c[2] > 0 /\ c[2] \in Nat
    BY <1>3, ConfirmationFacts DEF TaskInv
  <2> QED
    BY <2>1
<1> QED
  BY <1>1, <1>2, <1>3

LEMMA InitIInv == Init => IInv
<1> SUFFICES ASSUME Init PROVE IInv
  OBVIOUS
<1>1. TypeOK
  <2>1. NoTask \in TaskRecords
    BY TimesAssumption, NobodyAssumption DEF NoTask, TaskRecords, Status
  <2>2. Cardinality(Tasks) \in Nat
    BY TasksAssumption, FS_CardinalityType
  <2> QED
    BY <2>1, <2>2, TimesAssumption DEF Init, TypeOK
<1>2. ActiveListExact
  BY DEF Init, ActiveListExact, NoTask
<1>3. ASSUME NEW t \in Tasks PROVE TaskInv(t)
  <2>1. tasks[t] = NoTask /\ confirmedBy = {} /\ taskCount = 0
    BY DEF Init
  <2>2. Confirmers(t) = {}
    BY <2>1 DEF Confirmers
  <2>3. t > taskCount
    BY <1>1, <2>1, TaskFacts
  <2> QED
    BY <2>1, <2>2, <2>3, FS_EmptySet DEF TaskInv, NoTask
<1> QED
  BY <1>1, <1>2, <1>3, TaskInvs DEF IInv

---------------------------------------------------------------------------
(* Every step keeps the invariant *)

\* The active list follows the set of Active tasks.
LEMMA ListSame ==
  ASSUME TypeOK, ActiveListExact, ActiveSet' = ActiveSet,
         UNCHANGED <<activeTasks, activeIndexPlusOne>>
  PROVE  /\ activeTasks' \in Seq(Tasks) /\ activeIndexPlusOne' \in [Tasks -> Nat]
         /\ TypeOK' => ActiveListExact'
<1>1. ListOf(Tasks, ActiveSet', activeTasks', activeIndexPlusOne')
  BY ListOfActive DEF ListOf
<1>2. TypeOK' => (ActiveListExact' <=> ListOf(Tasks, ActiveSet', activeTasks', activeIndexPlusOne'))
  BY DEF TypeOK, ActiveListExact, ListOf, ActiveSet
<1> QED
  BY <1>1, <1>2 DEF TypeOK

LEMMA ListRemoved ==
  ASSUME TypeOK, ActiveListExact, NEW t \in ActiveSet, ActiveSet' = ActiveSet \ {t},
         RemoveActive(t)
  PROVE  /\ activeTasks' \in Seq(Tasks) /\ activeIndexPlusOne' \in [Tasks -> Nat]
         /\ TypeOK' => ActiveListExact'
<1>1. ActiveSet \in SUBSET Tasks
  BY DEF ActiveSet
<1>2. ListOf(Tasks, ActiveSet', activeTasks', activeIndexPlusOne')
  BY <1>1, ListOfActive, RemoveFromList DEF RemoveActive
<1>3. TypeOK' => (ActiveListExact' <=> ListOf(Tasks, ActiveSet', activeTasks', activeIndexPlusOne'))
  BY DEF TypeOK, ActiveListExact, ListOf, ActiveSet
<1> QED
  BY <1>2, <1>3 DEF ListOf

LEMMA SubmitTaskStep ==
  ASSUME IInv, NEW m \in Agents, NEW offer \in Offers, SubmitTask(m, offer)
  PROVE  IInv'
<1> DEFINE t == taskCount + 1
           new == [NoTask EXCEPT !.status = "Proposed", !.verifiers = offer.verifiers,
                                 !.threshold = offer.threshold, !.reward = offer.reward,
                                 !.expiration = offer.expiration]
<1>1. /\ TypeOK /\ ActiveListExact /\ \A u \in Tasks : TaskInv(u)
      /\ Cardinality(Tasks) \in Nat /\ taskCount \in Nat
  BY TaskInvs, TasksAssumption, FS_CardinalityType DEF IInv, TypeOK
<1>2. t \in Tasks
  BY <1>1, TasksAssumption DEF SubmitTask
<1>3. /\ offer.verifiers \subseteq Agents /\ offer.threshold \in Nat /\ offer.threshold > 0
      /\ offer.reward \in Nat /\ offer.expiration \in Nat
  BY OffersAssumption DEF SubmitTask
<1>4. /\ new \in TaskRecords
      /\ new.status = "Proposed" /\ new.verifiers = offer.verifiers
      /\ new.threshold = offer.threshold /\ new.round = 0 /\ new.evidence = NoEvidence
      /\ new.confirmations = 0 /\ new.worker = Nobody
  <2>1. NoTask \in TaskRecords
    BY TimesAssumption, NobodyAssumption DEF NoTask, TaskRecords, Status
  <2>2. new \in TaskRecords
    <3>1. "Proposed" \in Status
      BY DEF Status
    <3> HIDE DEF new
    <3>2. new = [NoTask EXCEPT !.status = "Proposed", !.verifiers = offer.verifiers,
                               !.threshold = offer.threshold, !.reward = offer.reward,
                               !.expiration = offer.expiration]
      BY DEF new
    <3> QED
      BY <2>1, <3>1, <3>2, <1>3 DEF TaskRecords
  <2>3. /\ new.status = "Proposed" /\ new.verifiers = offer.verifiers
        /\ new.threshold = offer.threshold /\ new.round = NoTask.round
        /\ new.evidence = NoTask.evidence
        /\ new.confirmations = NoTask.confirmations /\ new.worker = NoTask.worker
    BY <2>1 DEF TaskRecords
  <2> QED
    BY <2>2, <2>3 DEF NoTask
<1>5. tasks' = [tasks EXCEPT ![t] = new] /\ taskCount' = t
      /\ UNCHANGED <<now, activeTasks, activeIndexPlusOne, confirmedBy, earned>>
  BY DEF SubmitTask
<1> HIDE DEF new, t
<1>6. tasks'[t] = new /\ \A u \in Tasks : u # t => tasks'[u] = tasks[u]
  BY <1>1, <1>2, <1>5 DEF TypeOK
<1>7. TypeOK'
  <2>1. tasks' \in [Tasks -> TaskRecords]
    BY <1>1, <1>4, <1>5 DEF TypeOK
  <2>2. taskCount' \in 0..Cardinality(Tasks)
    BY <1>1, <1>5 DEF SubmitTask, t
  <2> QED
    BY <1>1, <1>5, <2>1, <2>2 DEF TypeOK
<1>8. tasks[t].status = "None" /\ tasks[t].round = 0
  <2>1. t > taskCount
    BY <1>1 DEF t
  <2> QED
    BY <1>1, <1>2, <2>1 DEF TaskInv
<1>9. ActiveSet' = ActiveSet
  BY <1>2, <1>4, <1>6, <1>8 DEF ActiveSet
<1>10. ActiveListExact'
  BY <1>1, <1>5, <1>7, <1>9, ListSame
<1>11. ASSUME NEW u \in Tasks PROVE TaskInv(u)'
  <2>1. CASE u = t
    <3>1. \A c \in confirmedBy : c[1] # t
      BY <1>1, <1>2, <1>8, RoundZero
    <3>2. Confirmers(u)' = {}
      <4>1. Confirmers(u)' = {v \in Agents : <<t, 0, v, NoEvidence>> \in confirmedBy}
        BY <2>1, <1>4, <1>5, <1>6 DEF Confirmers
      <4> QED
        BY <4>1, <1>1, <1>2, NoConfirmers
    <3>3. ~(t > taskCount') /\ Nobody \notin offer.verifiers
      BY <1>1, <1>3, <1>5, NobodyAssumption DEF t
    <3> QED
      BY <2>1, <3>1, <3>2, <3>3, <1>3, <1>4, <1>5, <1>6, FS_EmptySet DEF TaskInv
  <2>2. CASE u # t
    <3>1. u > taskCount' <=> u > taskCount
      BY <2>2, <1>1, <1>5, TaskFacts DEF t
    <3> QED
      BY <2>2, <3>1, <1>1, <1>5, <1>6, Untouched
  <2> QED
    BY <2>1, <2>2
<1>12. (RoundTally /\ VerifierInv)'
  BY <1>11 DEF RoundTally, VerifierInv, TaskInv
<1> QED
  BY <1>7, <1>10, <1>12 DEF IInv

LEMMA SetStatus ==
  ASSUME NEW r \in TaskRecords, NEW s \in Status
  PROVE  [r EXCEPT !.status = s] \in TaskRecords
BY DEF TaskRecords

\* A step that gives t another status and changes no other task.
LEMMA StatusStep ==
  ASSUME IInv, NEW t \in Tasks, NEW s \in Status,
         tasks' = [tasks EXCEPT ![t].status = s],
         UNCHANGED <<now, taskCount, confirmedBy, earned>>,
         activeTasks' \in Seq(Tasks), activeIndexPlusOne' \in [Tasks -> Nat],
         tasks[t].status # "None",
         s \in {"Active", "Cancelled", "Expired"},
         s = "Active" => tasks[t].confirmations < tasks[t].threshold
  PROVE  /\ TypeOK' /\ (RoundTally /\ VerifierInv)'
         /\ ActiveSet' = IF s = "Active" THEN ActiveSet \union {t} ELSE ActiveSet \ {t}
<1>1. TypeOK /\ \A u \in Tasks : TaskInv(u)
  BY TaskInvs DEF IInv
<1>2. /\ tasks'[t] = [tasks[t] EXCEPT !.status = s]
      /\ \A u \in Tasks : u # t => tasks'[u] = tasks[u]
  BY <1>1 DEF TypeOK
<1>3. /\ tasks'[t] \in TaskRecords /\ tasks'[t].status = s
      /\ tasks'[t].verifiers = tasks[t].verifiers /\ tasks'[t].threshold = tasks[t].threshold
      /\ tasks'[t].worker = tasks[t].worker /\ tasks'[t].round = tasks[t].round
      /\ tasks'[t].evidence = tasks[t].evidence
      /\ tasks'[t].confirmations = tasks[t].confirmations
  <2>1. tasks[t] \in TaskRecords
    BY <1>1 DEF TypeOK
  <2>2. tasks'[t] \in TaskRecords
    BY <2>1, <1>2, SetStatus
  <2>3. /\ tasks'[t].status = s
        /\ tasks'[t].verifiers = tasks[t].verifiers /\ tasks'[t].threshold = tasks[t].threshold
        /\ tasks'[t].worker = tasks[t].worker /\ tasks'[t].round = tasks[t].round
        /\ tasks'[t].evidence = tasks[t].evidence
        /\ tasks'[t].confirmations = tasks[t].confirmations
    BY <2>1, <1>2 DEF TaskRecords
  <2> QED
    BY <2>2, <2>3
<1>4. TypeOK'
  <2>1. tasks' \in [Tasks -> TaskRecords]
    BY <1>1, <1>3 DEF TypeOK
  <2> QED
    BY <1>1, <2>1 DEF TypeOK
<1>5. ASSUME NEW u \in Tasks PROVE TaskInv(u)'
  <2>1. CASE u = t
    <3>1. Confirmers(t)' = Confirmers(t)
      BY <1>3 DEF Confirmers
    <3> QED
      BY <2>1, <3>1, <1>1, <1>3 DEF TaskInv
  <2>2. CASE u # t
    BY <2>2, <1>1, <1>2, Untouched
  <2> QED
    BY <2>1, <2>2
<1>6. (RoundTally /\ VerifierInv)'
  BY <1>5 DEF RoundTally, VerifierInv, TaskInv
<1>7. ActiveSet' = IF s = "Active" THEN ActiveSet \union {t} ELSE ActiveSet \ {t}
  BY <1>2, <1>3 DEF ActiveSet
<1> QED
  BY <1>4, <1>6, <1>7

LEMMA ActivateTaskStep ==
  ASSUME IInv, NEW t \in Tasks, ActivateTask(t)
  PROVE  IInv'
<1>1. TypeOK /\ ActiveListExact /\ TaskInv(t)
  BY TaskInvs DEF IInv
<1>2. ActiveSet \in SUBSET Tasks /\ t \in Tasks \ ActiveSet
  BY DEF ActivateTask, ActiveSet
<1>3. ListOf(Tasks, ActiveSet \union {t}, activeTasks', activeIndexPlusOne')
  BY <1>1, <1>2, ListOfActive, AppendList DEF ActivateTask
<1>4. tasks[t].confirmations < tasks[t].threshold
  <2>1. tasks[t].round = 0 /\ tasks[t].threshold > 0 /\ tasks[t].threshold \in Nat
    BY <1>1, TaskFacts DEF ActivateTask, TaskInv
  <2> QED
    BY <2>1, <1>1, RoundZero
<1>5. /\ TypeOK' /\ (RoundTally /\ VerifierInv)'
      /\ ActiveSet' = ActiveSet \union {t}
  <2>1. "Active" \in Status /\ tasks[t].status # "None"
    BY DEF Status, ActivateTask
  <2> QED
    BY <2>1, <1>3, <1>4, StatusStep DEF ActivateTask, ListOf
<1>6. ActiveListExact'
  <2>1. TypeOK' => (ActiveListExact' <=> ListOf(Tasks, ActiveSet', activeTasks', activeIndexPlusOne'))
    BY DEF TypeOK, ActiveListExact, ListOf, ActiveSet
  <2> QED
    BY <2>1, <1>3, <1>5
<1> QED
  BY <1>5, <1>6 DEF IInv

LEMMA CancelTaskStep ==
  ASSUME IInv, NEW t \in Tasks, CancelTask(t)
  PROVE  IInv'
<1>1. TypeOK /\ ActiveListExact
  BY DEF IInv
<1>2. "Cancelled" \in Status /\ tasks[t].status # "None"
  BY DEF Status, CancelTask
<1>3. CASE tasks[t].status = "Active"
  <2>1. RemoveActive(t) /\ t \in ActiveSet
    BY <1>3 DEF CancelTask, ActiveSet
  <2>2. activeTasks' \in Seq(Tasks) /\ activeIndexPlusOne' \in [Tasks -> Nat]
    <3>1. ListOf(Tasks, ActiveSet \ {t}, activeTasks', activeIndexPlusOne')
      BY <2>1, <1>1, ListOfActive, RemoveFromList DEF RemoveActive, ActiveSet
    <3> QED
      BY <3>1 DEF ListOf
  <2>3. /\ TypeOK' /\ (RoundTally /\ VerifierInv)' /\ ActiveSet' = ActiveSet \ {t}
    BY <2>2, <1>2, StatusStep DEF CancelTask
  <2> QED
    BY <2>1, <2>3, <1>1, ListRemoved DEF IInv
<1>4. CASE tasks[t].status # "Active"
  <2>1. UNCHANGED <<activeTasks, activeIndexPlusOne>> /\ t \notin ActiveSet
    BY <1>4 DEF CancelTask, ActiveSet
  <2>2. activeTasks' \in Seq(Tasks) /\ activeIndexPlusOne' \in [Tasks -> Nat]
    BY <2>1, <1>1 DEF TypeOK
  <2>3. /\ TypeOK' /\ (RoundTally /\ VerifierInv)' /\ ActiveSet' = ActiveSet \ {t}
    BY <2>2, <1>2, StatusStep DEF CancelTask
  <2> QED
    BY <2>1, <2>3, <1>1, ListSame DEF IInv
<1> QED
  BY <1>3, <1>4

LEMMA ExpireTaskStep ==
  ASSUME IInv, NEW t \in Tasks, ExpireTask(t)
  PROVE  IInv'
<1>1. TypeOK /\ ActiveListExact
  BY DEF IInv
<1>2. "Expired" \in Status /\ tasks[t].status # "None" /\ RemoveActive(t) /\ t \in ActiveSet
  BY DEF Status, ExpireTask, ActiveSet
<1>3. ListOf(Tasks, ActiveSet \ {t}, activeTasks', activeIndexPlusOne')
  BY <1>1, <1>2, ListOfActive, RemoveFromList DEF RemoveActive, ActiveSet
<1>4. /\ TypeOK' /\ (RoundTally /\ VerifierInv)' /\ ActiveSet' = ActiveSet \ {t}
  BY ZenonT(30), <1>2, <1>3, StatusStep DEF ExpireTask, ListOf
<1> QED
  BY <1>1, <1>2, <1>4, ListRemoved DEF IInv

LEMMA ClaimStep ==
  ASSUME IInv, NEW m \in Agents, NEW t \in Tasks, Claim(m, t)
  PROVE  IInv'
<1>1. TypeOK /\ ActiveListExact /\ \A u \in Tasks : TaskInv(u)
  BY TaskInvs DEF IInv
<1>2. /\ tasks'[t] = [tasks[t] EXCEPT !.worker = m, !.claimedAt = now]
      /\ \A u \in Tasks : u # t => tasks'[u] = tasks[u]
      /\ tasks[t] \in TaskRecords /\ now \in 0..MaxNow /\ m \notin tasks[t].verifiers
      /\ UNCHANGED <<now, taskCount, activeTasks, activeIndexPlusOne, confirmedBy, earned>>
  BY <1>1, TimesAssumption DEF TypeOK, Claim
<1>3. tasks'[t] \in TaskRecords
  BY <1>2 DEF TaskRecords
<1>4. /\ tasks'[t].status = tasks[t].status /\ tasks'[t].worker = m
      /\ tasks'[t].verifiers = tasks[t].verifiers /\ tasks'[t].threshold = tasks[t].threshold
      /\ tasks'[t].round = tasks[t].round /\ tasks'[t].evidence = tasks[t].evidence
      /\ tasks'[t].confirmations = tasks[t].confirmations
  BY <1>2 DEF TaskRecords
<1>5. TypeOK'
  <2>1. tasks' \in [Tasks -> TaskRecords]
    BY <1>1, <1>3 DEF TypeOK, Claim
  <2> QED
    BY <1>1, <1>2, <2>1 DEF TypeOK
<1>6. ActiveSet' = ActiveSet
  BY <1>2, <1>4 DEF ActiveSet
<1>7. ASSUME NEW u \in Tasks PROVE TaskInv(u)'
  <2>1. CASE u = t
    <3>1. Confirmers(t)' = Confirmers(t)
      BY <1>2, <1>4 DEF Confirmers
    <3>2. m # Nobody
      BY NobodyAssumption
    <3> QED
      BY <2>1, <3>1, <3>2, <1>1, <1>2, <1>4 DEF TaskInv
  <2>2. CASE u # t
    BY <2>2, <1>1, <1>2, Untouched
  <2> QED
    BY <2>1, <2>2
<1>8. (RoundTally /\ VerifierInv)'
  BY <1>7 DEF RoundTally, VerifierInv, TaskInv
<1> QED
  BY <1>1, <1>2, <1>5, <1>6, <1>8, ListSame DEF IInv

LEMMA SetDelivery ==
  ASSUME NEW r \in TaskRecords, NEW k \in 0..MaxRound, NEW e \in Evidence
  PROVE  [r EXCEPT !.round = k, !.confirmations = 0, !.evidence = e] \in TaskRecords
BY DEF TaskRecords

LEMMA DeliverStep ==
  ASSUME IInv, NEW t \in Tasks, NEW evidence \in Evidence, Deliver(t, evidence)
  PROVE  IInv'
<1>1. TypeOK /\ ActiveListExact /\ \A u \in Tasks : TaskInv(u)
  BY TaskInvs DEF IInv
<1>2. /\ tasks'[t] = [tasks[t] EXCEPT !.round = @ + 1, !.confirmations = 0,
                                      !.evidence = evidence]
      /\ \A u \in Tasks : u # t => tasks'[u] = tasks[u]
      /\ tasks[t] \in TaskRecords /\ tasks[t].round + 1 \in 0..MaxRound
      /\ UNCHANGED <<now, taskCount, activeTasks, activeIndexPlusOne, confirmedBy, earned>>
  <2>1. tasks[t].round \in 0..MaxRound
    BY <1>1, TaskFacts
  <2> QED
    BY <2>1, <1>1, TimesAssumption DEF TypeOK, Deliver
<1>3. tasks'[t] \in TaskRecords
  <2> DEFINE k == tasks[t].round + 1
  <2>1. tasks'[t] = [tasks[t] EXCEPT !.round = k, !.confirmations = 0, !.evidence = evidence]
    BY <1>2
  <2>2. k \in 0..MaxRound
    BY <1>2
  <2>3. tasks[t] \in TaskRecords
    BY <1>2
  <2> HIDE DEF k
  <2>4. [tasks[t] EXCEPT !.round = k, !.confirmations = 0, !.evidence = evidence]
          \in TaskRecords
    BY ONLY <2>2, <2>3, SetDelivery, evidence \in Evidence
  <2> QED
    BY <2>1, <2>4
<1>4. /\ tasks'[t].status = tasks[t].status /\ tasks'[t].worker = tasks[t].worker
      /\ tasks'[t].verifiers = tasks[t].verifiers /\ tasks'[t].threshold = tasks[t].threshold
      /\ tasks'[t].round = tasks[t].round + 1 /\ tasks'[t].evidence = evidence
      /\ tasks'[t].confirmations = 0
  BY <1>2 DEF TaskRecords
<1>5. TypeOK'
  <2>1. tasks' \in [Tasks -> TaskRecords]
    BY <1>1, <1>3 DEF TypeOK, Deliver
  <2> QED
    BY <1>1, <1>2, <2>1 DEF TypeOK
<1>6. ActiveSet' = ActiveSet
  BY <1>2, <1>4 DEF ActiveSet
<1>7. ASSUME NEW u \in Tasks PROVE TaskInv(u)'
  <2>1. CASE u = t
    <3> DEFINE r == tasks[t].round + 1
    <3>1. r \in Nat /\ r > tasks[t].round /\ r > 0 /\ tasks[t].round \in Nat
      BY <1>1, TaskFacts, TimesAssumption
    <3>2. Confirmers(t)' = {}
      <4>1. Confirmers(t)' = {v \in Agents : <<t, r, v, evidence>> \in confirmedBy}
        BY <1>2, <1>4 DEF Confirmers
      <4> HIDE DEF r
      <4> QED
        BY <4>1, <3>1, <1>1, NoConfirmers
    <3>3. \A c \in confirmedBy : c[1] = t =>
            c[2] < r /\ c[3] \in tasks[t].verifiers /\ c[2] \in Nat
      BY <3>1, <1>1, ConfirmationFacts DEF TaskInv
    <3>4. /\ evidence # NoEvidence /\ tasks[t].worker # Nobody /\ tasks[t].status = "Active"
          /\ tasks[t].threshold > 0
      BY <1>1, NobodyAssumption DEF Deliver, TaskInv
    <3> HIDE DEF r
    <3>5. tasks'[t].round = r
      BY <1>4 DEF r
    <3>6. \A c \in confirmedBy : c[1] = t =>
            c[2] <= r /\ c[2] # r /\ c[3] \in tasks[t].verifiers
      BY <3>1, <3>3
    <3>7. tasks[t].worker \notin tasks[t].verifiers /\ ~(t > taskCount)
      BY <3>4, <1>1 DEF TaskInv
    <3> QED
      BY <2>1, <3>1, <3>2, <3>4, <3>5, <3>6, <3>7, <1>2, <1>4, FS_EmptySet DEF TaskInv
  <2>2. CASE u # t
    BY <2>2, <1>1, <1>2, Untouched
  <2> QED
    BY <2>1, <2>2
<1>8. (RoundTally /\ VerifierInv)'
  BY <1>7 DEF RoundTally, VerifierInv, TaskInv
<1> QED
  BY <1>1, <1>2, <1>5, <1>6, <1>8, ListSame DEF IInv

LEMMA SetConfirmations ==
  ASSUME NEW r \in TaskRecords, NEW n \in Nat, NEW s \in Status
  PROVE  /\ [r EXCEPT !.confirmations = n, !.status = s] \in TaskRecords
         /\ [r EXCEPT !.confirmations = n] \in TaskRecords
BY DEF TaskRecords

\* One confirmation more, of the delivery on record, by a verifier new to it.
LEMMA OneConfirmerMore ==
  ASSUME TypeOK, NEW t \in Tasks, TaskInv(t), NEW v \in Agents, NEW evidence \in Evidence,
         MayConfirm(v, t, evidence),
         tasks'[t].round = tasks[t].round, tasks'[t].evidence = tasks[t].evidence,
         confirmedBy' = confirmedBy \union {<<t, tasks[t].round, v, evidence>>}
  PROVE  /\ Cardinality(Confirmers(t)') = tasks[t].confirmations + 1
         /\ tasks[t].confirmations + 1 <= tasks[t].threshold
<1>1. Confirmers(t)' = Confirmers(t) \union {v} /\ v \notin Confirmers(t)
  <2>1. evidence = tasks[t].evidence
    BY DEF MayConfirm
  <2>2. v \notin Confirmers(t)
    BY <2>1 DEF MayConfirm, Confirmers
  <2>3. \A w \in Agents : <<t, tasks[t].round, w, evidence>> \in confirmedBy'
          <=> <<t, tasks[t].round, w, evidence>> \in confirmedBy \/ w = v
    OBVIOUS
  <2>4. Confirmers(t)' = {w \in Agents : <<t, tasks[t].round, w, evidence>> \in confirmedBy'}
    BY <2>1 DEF Confirmers
  <2>5. Confirmers(t) = {w \in Agents : <<t, tasks[t].round, w, evidence>> \in confirmedBy}
    BY <2>1 DEF Confirmers
  <2> QED
    BY <2>2, <2>3, <2>4, <2>5
<1>2. IsFiniteSet(Confirmers(t))
  BY AgentsAssumption, FS_Subset DEF Confirmers
<1>3. Cardinality(Confirmers(t)') = Cardinality(Confirmers(t)) + 1
  BY <1>1, <1>2, FS_AddElement
<1>4. /\ tasks[t].confirmations = Cardinality(Confirmers(t))
      /\ tasks[t].confirmations < tasks[t].threshold
      /\ tasks[t].confirmations \in Nat /\ tasks[t].threshold \in Nat
  BY TaskFacts DEF TaskInv, MayConfirm
<1> QED
  BY <1>3, <1>4

LEMMA ConfirmStep ==
  ASSUME IInv, NEW v \in Agents, NEW t \in Tasks, NEW evidence \in Evidence,
         Confirm(v, t, evidence)
  PROVE  IInv'
<1> DEFINE n == tasks[t].confirmations + 1
           last == n = tasks[t].threshold
           s == IF last THEN "Complete" ELSE "Active"
           c == <<t, tasks[t].round, v, evidence>>
<1>1. TypeOK /\ ActiveListExact /\ \A u \in Tasks : TaskInv(u)
  BY TaskInvs DEF IInv
<1>2. /\ MayConfirm(v, t, evidence) /\ tasks[t].status = "Active"
      /\ evidence = tasks[t].evidence /\ evidence # NoEvidence /\ v \in tasks[t].verifiers
      /\ confirmedBy' = confirmedBy \union {c}
      /\ UNCHANGED <<now, taskCount>>
  BY DEF Confirm, MayConfirm
<1>3. /\ tasks[t] \in TaskRecords /\ tasks \in [Tasks -> TaskRecords]
      /\ n \in Nat /\ s \in Status
  BY <1>1, TaskFacts DEF TypeOK, Status
<1>4. /\ tasks' = [tasks EXCEPT ![t] = [@ EXCEPT !.confirmations = n, !.status = s]]
  <2>1. CASE last
    BY <2>1 DEF Confirm
  <2>2. CASE ~last
    <3>1. tasks' = [tasks EXCEPT ![t].confirmations = n] /\ s = tasks[t].status
      BY <2>2, <1>2 DEF Confirm
    <3>2. [tasks[t] EXCEPT !.confirmations = n, !.status = tasks[t].status]
            = [tasks[t] EXCEPT !.confirmations = n]
      BY <1>3 DEF TaskRecords
    <3> QED
      BY <3>1, <3>2, <1>3
  <2> QED
    BY <2>1, <2>2
<1> HIDE DEF s, n
<1>5. /\ tasks'[t] = [tasks[t] EXCEPT !.confirmations = n, !.status = s]
      /\ \A u \in Tasks : u # t => tasks'[u] = tasks[u]
  BY <1>3, <1>4
<1>6. /\ tasks'[t].status = s /\ tasks'[t].confirmations = n
      /\ tasks'[t].verifiers = tasks[t].verifiers /\ tasks'[t].threshold = tasks[t].threshold
      /\ tasks'[t].worker = tasks[t].worker /\ tasks'[t].round = tasks[t].round
      /\ tasks'[t].evidence = tasks[t].evidence
  BY <1>3, <1>5 DEF TaskRecords
<1>7. tasks' \in [Tasks -> TaskRecords]
  BY <1>3, <1>4, <1>5, SetConfirmations
<1>8. tasks[t].round > 0 /\ tasks[t].round \in 1..MaxRound /\ tasks[t].worker \in Agents
  <2>1. tasks[t].round # 0 /\ tasks[t].round \in 0..MaxRound
    BY <1>1, <1>2, TaskFacts DEF TaskInv
  <2>2. tasks[t].worker # Nobody /\ tasks[t].worker \in Agents \union {Nobody}
    BY <2>1, <1>1, TaskFacts DEF TaskInv
  <2> QED
    BY <2>1, <2>2
<1>9. /\ Cardinality(Confirmers(t)') = n /\ n <= tasks[t].threshold
  BY <1>1, <1>2, <1>6, OneConfirmerMore DEF n
<1>10. ASSUME NEW u \in Tasks PROVE TaskInv(u)'
  <2>1. CASE u = t
    <3>1. \A d \in confirmedBy' : d[1] = t =>
            /\ d[2] <= tasks'[t].round
            /\ d[2] = tasks'[t].round => d[4] = tasks'[t].evidence
            /\ d[3] \in tasks'[t].verifiers
      <4> SUFFICES ASSUME NEW d \in confirmedBy', d[1] = t
                   PROVE  /\ d[2] <= tasks[t].round
                          /\ d[2] = tasks[t].round => d[4] = tasks[t].evidence
                          /\ d[3] \in tasks[t].verifiers
        BY <1>6
      <4>1. CASE d \in confirmedBy
        BY <4>1, <1>1 DEF TaskInv
      <4>2. CASE d = c
        BY <4>2, <1>2, <1>8
      <4> QED
        BY <4>1, <4>2, <1>2
    <3>2. /\ s = "Active" => n < tasks[t].threshold
          /\ s = "Complete" => n = tasks[t].threshold
          /\ s \notin {"None", "Proposed"}
      <4>1. n \in Nat /\ tasks[t].threshold \in Nat
        BY <1>1, <1>3, TaskFacts
      <4> QED
        BY <4>1, <1>9 DEF s
    <3>3. /\ tasks[t].worker # Nobody /\ tasks[t].worker \notin tasks[t].verifiers
          /\ tasks[t].threshold > 0 /\ ~(t > taskCount)
      BY <1>1, <1>2, <1>8, NobodyAssumption DEF TaskInv
    <3> QED
      BY <2>1, <3>1, <3>2, <3>3, <1>2, <1>6, <1>8, <1>9 DEF TaskInv
  <2>2. CASE u # t
    <3>1. \A d : d[1] = u => (d \in confirmedBy' <=> d \in confirmedBy)
      BY <2>2, <1>2
    <3> QED
      BY <2>2, <3>1, <1>1, <1>2, <1>5, Untouched
  <2> QED
    BY <2>1, <2>2
<1>11. (RoundTally /\ VerifierInv)'
  BY <1>10 DEF RoundTally, VerifierInv, TaskInv
<1>12. c \in Tasks \X (1..MaxRound) \X Agents \X Evidence
  BY <1>8
<1>13. CASE last
  <2>1. /\ RemoveActive(t) /\ s = "Complete"
        /\ earned' = [earned EXCEPT ![tasks[t].worker] = @ + tasks[t].reward]
    BY <1>13 DEF Confirm, s, n
  <2>2. ActiveSet' = ActiveSet \ {t} /\ t \in ActiveSet
    BY <2>1, <1>2, <1>5, <1>6 DEF ActiveSet
  <2>3. ListOf(Tasks, ActiveSet \ {t}, activeTasks', activeIndexPlusOne')
    BY <2>1, <2>2, <1>1, ListOfActive, RemoveFromList DEF RemoveActive, ActiveSet
  <2>4. earned' \in [Agents -> Nat]
    BY SMTT(30), <2>1, <1>1, <1>8, TaskFacts DEF TypeOK
  <2>5. TypeOK'
    BY <2>3, <2>4, <1>1, <1>2, <1>7, <1>12 DEF TypeOK, ListOf
  <2> QED
    BY <2>1, <2>2, <2>5, <1>1, <1>11, ListRemoved DEF IInv
<1>14. CASE ~last
  <2>1. UNCHANGED <<activeTasks, activeIndexPlusOne, earned>> /\ s = "Active"
    BY <1>14 DEF Confirm, s, n
  <2>2. ActiveSet' = ActiveSet
    BY <2>1, <1>2, <1>5, <1>6 DEF ActiveSet
  <2>3. TypeOK'
    BY <2>1, <1>1, <1>2, <1>7, <1>12 DEF TypeOK
  <2> QED
    BY <2>1, <2>2, <2>3, <1>1, <1>11, ListSame DEF IInv
<1> QED
  BY <1>13, <1>14

LEMMA StutterStep ==
  ASSUME IInv, Tick \/ UNCHANGED vars
  PROVE  IInv'
<1>1. /\ UNCHANGED <<taskCount, tasks, activeTasks, activeIndexPlusOne, confirmedBy, earned>>
      /\ now' \in 1..MaxNow
  BY TimesAssumption DEF Tick, vars, IInv, TypeOK
<1>2. TypeOK'
  BY <1>1 DEF IInv, TypeOK
<1>3. ActiveListExact'
  BY <1>1 DEF IInv, ActiveListExact
<1>4. RoundTally' /\ VerifierInv'
  BY <1>1 DEF IInv, RoundTally, VerifierInv, Confirmers
<1> QED
  BY <1>2, <1>3, <1>4 DEF IInv

LEMMA InductiveStep == IInv /\ [Next]_vars => IInv'
BY SubmitTaskStep, ActivateTaskStep, CancelTaskStep, ExpireTaskStep, ClaimStep,
   DeliverStep, ConfirmStep, StutterStep DEF Next

---------------------------------------------------------------------------
(* Theorems *)

\* The list of active tasks, the counters of confirmations and the statuses
\* agree in every reachable state: the inductive invariant.
THEOREM WorkInvariant == Spec => []IInv
BY InitIInv, InductiveStep, PTL DEF Spec

\* The active list, from which DepositShaman reads the liability, is exactly
\* the Active tasks, each at its index (WorkManager._removeActive).
THEOREM ActiveListIsExact == Spec => []ActiveListExact
<1>1. IInv => ActiveListExact
  BY DEF IInv
<1> QED
  BY <1>1, WorkInvariant, PTL

\* No reward is minted for work that the voted number of named verifiers, the
\* worker not among them, has not confirmed as it stands (WorkManager.confirm).
THEOREM WorkIsVerified == Spec => []VerifiedBeforePaid
<1>1. IInv => VerifiedBeforePaid
  <2> SUFFICES ASSUME IInv, NEW t \in Tasks, tasks[t].status = "Complete"
               PROVE  /\ Cardinality(Confirmers(t)) = tasks[t].threshold
                      /\ Confirmers(t) \subseteq tasks[t].verifiers \ {tasks[t].worker}
    BY DEF VerifiedBeforePaid
  <2>1. TaskInv(t)
    BY TaskInvs DEF IInv
  <2>2. Confirmers(t) \subseteq tasks[t].verifiers
    <3> SUFFICES ASSUME NEW v \in Confirmers(t) PROVE v \in tasks[t].verifiers
      OBVIOUS
    <3>1. <<t, tasks[t].round, v, tasks[t].evidence>> \in confirmedBy
      BY DEF Confirmers
    <3> QED
      BY <2>1, <3>1 DEF TaskInv
  <2> QED
    BY <2>1, <2>2 DEF TaskInv
<1> QED
  BY <1>1, WorkInvariant, PTL

\* A task that was delivered stays with the worker who delivered it
\* (WorkManager.claim).
THEOREM DelivererIsKept == Spec => DelivererKept
<1>1. IInv /\ [Next]_vars =>
        [\A t \in Tasks : tasks[t].round > 0 => tasks'[t].worker = tasks[t].worker]_vars
  <2> SUFFICES ASSUME IInv, Next, NEW t \in Tasks, tasks[t].round > 0
               PROVE  tasks'[t].worker = tasks[t].worker
    OBVIOUS
  <2>1. /\ TypeOK /\ TaskInv(t) /\ tasks \in [Tasks -> TaskRecords]
        /\ tasks[t].round \in Nat /\ tasks[t].evidence # NoEvidence
        /\ tasks[t].worker # Nobody /\ tasks[t].status # "None"
    <3>1. TypeOK /\ TaskInv(t)
      BY TaskInvs DEF IInv
    <3>2. tasks \in [Tasks -> TaskRecords] /\ tasks[t].round \in Nat
      BY <3>1, TaskFacts, TimesAssumption DEF TypeOK
    <3> QED
      BY <3>1, <3>2 DEF TaskInv
  <2>2. ASSUME NEW m \in Agents, NEW offer \in Offers, SubmitTask(m, offer)
        PROVE  tasks'[t] = tasks[t]
    <3>1. taskCount + 1 # t
      <4>1. ~(t > taskCount) /\ taskCount \in Nat /\ t \in Nat
        BY <2>1, TaskFacts DEF TaskInv, TypeOK
      <4> QED
        BY <4>1
    <3> QED
      BY <2>1, <2>2, <3>1 DEF SubmitTask
  <2>3. ASSUME NEW m \in Agents, NEW u \in Tasks, Claim(m, u)
        PROVE  tasks'[t] = tasks[t]
    <3>1. u # t
      BY <2>1, <2>3 DEF Claim, ClaimLapsed
    <3> QED
      BY <2>1, <2>3, <3>1 DEF Claim
  <2>4. ASSUME NEW u \in Tasks, ActivateTask(u) \/ CancelTask(u) \/ ExpireTask(u)
        PROVE  tasks'[t].worker = tasks[t].worker
    <3>1. \E st \in Status : tasks' = [tasks EXCEPT ![u].status = st]
      BY <2>4 DEF ActivateTask, CancelTask, ExpireTask, Status
    <3>2. tasks[t] \in TaskRecords
      BY <2>1
    <3> QED
      BY <3>1, <3>2, <2>1 DEF TaskRecords
  <2>5. ASSUME NEW u \in Tasks, NEW evidence \in Evidence, Deliver(u, evidence)
        PROVE  tasks'[t].worker = tasks[t].worker
    BY <2>1, <2>5 DEF Deliver, TaskRecords
  <2>6. ASSUME NEW v \in Agents, NEW u \in Tasks, NEW evidence \in Evidence,
               Confirm(v, u, evidence)
        PROVE  tasks'[t].worker = tasks[t].worker
    BY <2>1, <2>6 DEF Confirm, TaskRecords
  <2>7. Tick => tasks'[t] = tasks[t]
    BY DEF Tick
  <2> QED
    BY <2>2, <2>3, <2>4, <2>5, <2>6, <2>7 DEF Next
<1> QED
  BY <1>1, WorkInvariant, PTL DEF Spec, DelivererKept

---------------------------------------------------------------------------
(* Treasury: the invariant *)

OpenSet == {i \in Instances : IsOpen(i)}

Listed(led, S) == ListOf(Instances, S, led.list, led.indexPlusOne)

\* An instance: open as long as it runs, or is stopped with its asset; empty
\* when it is not open, and of the asset before it starts, but for presents; a
\* payment's budget covers its list.
InstanceInv(i) ==
  /\ IsOpen(i) => status[i] = "Running" \/ (status[i] = "Stopped" /\ AssetHeld(i) > 0)
  /\ status[i] = "Running" => IsOpen(i)
  /\ i \notin given /\ ~IsOpen(i) /\ status[i] # "Pending" => settlement[i] = 0 /\ AssetHeld(i) = 0
  /\ i \notin given /\ status[i] = "Pending" => AssetHeld(i) = 0
  /\ i \in Payments => listed[i] <= budget[i]

InstancesInv == \A i \in Instances : InstanceInv(i)

LedgerInv == Listed(ledger, OpenSet)

TreasuryInv == TreasuryTypeOK /\ LedgerInv /\ InstancesInv

LEMMA Sets ==
  /\ IsFiniteSet(Instances) /\ Safe \notin Instances /\ Safe \in Holders
  /\ Strategies \subseteq Instances /\ Payments \subseteq Instances
  /\ Instances \subseteq Holders /\ \A i \in Payments : i \notin Strategies
  /\ \A h \in Holders : h # Safe => h \in Instances
BY InstancesAssumption DEF Instances, Holders

LEMMA ListedOpens ==
  ASSUME NEW led, NEW S \in SUBSET Instances, NEW i \in Instances \ S, Listed(led, S)
  PROVE  Listed(Opened(led, i), S \union {i})
BY AppendList DEF Listed, Opened

LEMMA ListedCloses ==
  ASSUME NEW led, NEW S \in SUBSET Instances, NEW i \in Instances, Listed(led, S)
  PROVE  Listed(Closed(led, i), S \ {i})
<1>1. led.indexPlusOne[i] = 0 <=> i \notin S
  BY DEF Listed, ListOf
<1>2. CASE i \notin S
  <2>1. Closed(led, i) = led /\ S \ {i} = S
    BY <1>1, <1>2 DEF Closed
  <2> QED
    BY <2>1
<1>3. CASE i \in S
  <2>1. Closed(led, i).list =
          SubSeq([led.list EXCEPT ![led.indexPlusOne[i]] = led.list[Len(led.list)]],
                 1, Len(led.list) - 1)
    BY <1>1, <1>3 DEF Closed
  <2>2. Closed(led, i).indexPlusOne =
          [led.indexPlusOne EXCEPT ![led.list[Len(led.list)]] = led.indexPlusOne[i], ![i] = 0]
    BY <1>1, <1>3 DEF Closed
  <2>3. ListOf(Instances, S \ {i},
               SubSeq([led.list EXCEPT ![led.indexPlusOne[i]] = led.list[Len(led.list)]],
                      1, Len(led.list) - 1),
               [led.indexPlusOne EXCEPT ![led.list[Len(led.list)]] = led.indexPlusOne[i], ![i] = 0])
    BY <1>3, RemoveFromList DEF Listed
  <2> QED
    BY <2>1, <2>2, <2>3 DEF Listed
<1> QED
  BY <1>2, <1>3

LEMMA ListedOpen ==
  ASSUME NEW S \in SUBSET Instances, Listed(ledger, S)
  PROVE  OpenSet = S /\ LedgerInv
<1>1. \A i \in Instances : IsOpen(i) <=> i \in S
  BY DEF IsOpen, Listed, ListOf
<1>2. OpenSet = S
  BY <1>1 DEF OpenSet
<1> QED
  BY <1>2 DEF LedgerInv

LEMMA ListedOpenNext ==
  ASSUME NEW S \in SUBSET Instances, Listed(ledger', S)
  PROVE  OpenSet' = S /\ LedgerInv' /\ ledger'.list \in Seq(Instances)
         /\ ledger'.indexPlusOne \in [Instances -> Nat]
         /\ \A i \in Instances : IsOpen(i)' <=> i \in S
<1>1. \A i \in Instances : IsOpen(i)' <=> i \in S
  BY DEF IsOpen, Listed, ListOf
<1>2. OpenSet' = S
  BY <1>1 DEF OpenSet
<1>3. LedgerInv'
  BY <1>2 DEF LedgerInv, Listed
<1> QED
  BY <1>1, <1>2, <1>3 DEF Listed, ListOf

LEMMA InstanceRests ==
  ASSUME NEW i, InstanceInv(i), status'[i] = status[i], settlement'[i] = settlement[i],
         AssetHeld(i)' = AssetHeld(i), IsOpen(i)' <=> IsOpen(i), given \subseteq given',
         i \in Payments => listed'[i] = listed[i], budget'[i] = budget[i]
  PROVE  InstanceInv(i)'
BY DEF InstanceInv

\* A step that touches no instance.
LEMMA OutsideStep ==
  ASSUME TreasuryInv, TreasuryTypeOK', UNCHANGED <<status, asset, ledger, listed, budget>>,
         given \subseteq given', \A i \in Instances : settlement'[i] = settlement[i]
  PROVE  TreasuryInv'
<1>1. ASSUME NEW i \in Instances PROVE InstanceInv(i)'
  BY InstanceRests DEF TreasuryInv, InstancesInv, AssetHeld, IsOpen
<1>2. LedgerInv'
  BY DEF TreasuryInv, LedgerInv, Listed, OpenSet, IsOpen
<1> QED
  BY <1>1, <1>2 DEF TreasuryInv, InstancesInv

\* What a step leaves alone.
Rests(j) ==
  /\ status'[j] = status[j] /\ settlement'[j] = settlement[j]
  /\ j \in Strategies => asset'[j] = asset[j]
  /\ j \in Payments => listed'[j] = listed[j]
  /\ budget'[j] = budget[j]

LEMMA RestsInv ==
  ASSUME TreasuryInv, NEW S \in SUBSET Instances, Listed(ledger', S),
         NEW j \in Instances, j \in S <=> j \in OpenSet, Rests(j), given \subseteq given'
  PROVE  InstanceInv(j)'
<1>1. IsOpen(j)' <=> IsOpen(j)
  BY ListedOpenNext DEF OpenSet
<1>2. AssetHeld(j)' = AssetHeld(j)
  BY DEF Rests, AssetHeld
<1> QED
  BY <1>1, <1>2, InstanceRests DEF TreasuryInv, InstancesInv, Rests

\* A step that touches one instance, and leaves S open.
LEMMA InstanceStep ==
  ASSUME TreasuryInv, TreasuryTypeOK', NEW S \in SUBSET Instances, Listed(ledger', S),
         NEW i \in Instances, S \ {i} = OpenSet \ {i},
         \A j \in Instances \ {i} : Rests(j), given \subseteq given', InstanceInv(i)'
  PROVE  TreasuryInv'
<1>1. ASSUME NEW j \in Instances \ {i} PROVE InstanceInv(j)'
  BY <1>1, RestsInv
<1>2. LedgerInv'
  BY ListedOpenNext
<1> QED
  BY <1>1, <1>2 DEF TreasuryInv, InstancesInv

---------------------------------------------------------------------------
(* Treasury: sums of money *)

LEMMA LowestPrice == Min(Prices) \in Nat
<1>1. Prices \subseteq Nat /\ Prices # {}
  BY TermsAssumption DEF TermsAssumption
<1>2. PICK n \in Prices : \A m \in Prices : ~(<<m, n>> \in OpToRel(<, Nat))
  BY <1>1, WFMin, NatLessThanWellFounded
<1>3. ASSUME NEW m \in Prices PROVE n <= m
  <2>1. m \in Nat /\ n \in Nat
    BY <1>1
  <2>2. ~(m < n)
    BY <1>2, <2>1 DEF OpToRel
  <2> QED
    BY <2>1, <2>2
<1>4. \E x \in Prices : \A y \in Prices : x <= y
  BY <1>3
<1>5. Min(Prices) \in Prices
  BY <1>4 DEF Min
<1> QED
  BY <1>1, <1>5

LEMMA WorthIsSum == Worth = settlement[Safe] + Sum(Holding, Counted)
BY SumFold DEF Worth

LEMMA TreasuryIsSum ==
  DepositTreasury = settlement[Safe] + Sum(OpenBalances, DOMAIN ledger.list)
BY SumFold DEF DepositTreasury

\* The list of the ledger has every open instance once.
LEMMA OpenOnce ==
  ASSUME TreasuryInv
  PROVE  /\ IsFiniteSet(DOMAIN ledger.list) /\ DOMAIN ledger.list = 1..Len(ledger.list)
         /\ \A k \in DOMAIN ledger.list : ledger.list[k] \in OpenSet
         /\ \A k, l \in DOMAIN ledger.list : ledger.list[k] = ledger.list[l] => k = l
         /\ {ledger.list[k] : k \in DOMAIN ledger.list} = OpenSet
<1>1. /\ ledger.list \in Seq(Instances) /\ ledger.indexPlusOne \in [Instances -> Nat]
      /\ \A t \in Instances : IF t \in OpenSet THEN /\ ledger.indexPlusOne[t] \in 1..Len(ledger.list)
                                                    /\ ledger.list[ledger.indexPlusOne[t]] = t
                              ELSE ledger.indexPlusOne[t] = 0
      /\ \A i \in 1..Len(ledger.list) : ledger.indexPlusOne[ledger.list[i]] = i
  BY DEF TreasuryInv, LedgerInv, Listed, ListOf
<1>2. DOMAIN ledger.list = 1..Len(ledger.list) /\ Len(ledger.list) \in Nat
      /\ \A i \in 1..Len(ledger.list) : ledger.list[i] \in Instances
  BY <1>1
<1>3. IsFiniteSet(1..Len(ledger.list))
  BY <1>2, FS_Interval
<1>4. \A i \in 1..Len(ledger.list) : ledger.list[i] \in OpenSet
  BY <1>1, <1>2
<1>5. OpenSet \subseteq Instances
  BY DEF OpenSet
<1> QED
  BY <1>1, <1>2, <1>3, <1>4, <1>5

LEMMA HoldingNat ==
  ASSUME TreasuryInv
  PROVE  /\ \A i \in Instances : Holding[i] \in Nat /\ Holding[i] = settlement[i] + AssetHeld(i) * Min(Prices)
         /\ IsFiniteSet(Counted) /\ Counted \subseteq Instances
         /\ Sum(Holding, Counted) \in Nat /\ settlement[Safe] \in Nat
         /\ Worth \in Nat /\ Worth >= settlement[Safe]
<1>1. ASSUME NEW i \in Instances
      PROVE  Holding[i] \in Nat /\ Holding[i] = settlement[i] + AssetHeld(i) * Min(Prices)
  <2>1. settlement[i] \in Nat /\ AssetHeld(i) \in Nat
    BY Sets DEF TreasuryInv, TreasuryTypeOK, AssetHeld
  <2>2. AssetHeld(i) * Min(Prices) \in Nat
    BY <2>1, LowestPrice
  <2>3. Holding[i] = settlement[i] + AssetHeld(i) * Min(Prices)
    BY DEF Holding
  <2> QED
    BY <2>1, <2>2, <2>3
<1>2. Counted \subseteq Instances /\ IsFiniteSet(Counted)
  BY Sets, FS_Subset DEF Counted
<1>3. Sum(Holding, Counted) \in Nat
  BY <1>1, <1>2, SumNat
<1>4. settlement[Safe] \in Nat
  BY Sets DEF TreasuryInv, TreasuryTypeOK
<1> QED
  BY <1>1, <1>2, <1>3, <1>4, WorthIsSum

LEMMA TreasuryNat == TreasuryInv => DepositTreasury \in Nat
<1> SUFFICES ASSUME TreasuryInv PROVE DepositTreasury \in Nat
  OBVIOUS
<1>1. IsFiniteSet(DOMAIN ledger.list)
  BY OpenOnce
<1>2. ASSUME NEW k \in DOMAIN ledger.list PROVE OpenBalances[k] \in Nat
  <2>1. ledger.list[k] \in Holders
    BY OpenOnce, Sets DEF OpenSet
  <2> QED
    BY <2>1 DEF OpenBalances, TreasuryInv, TreasuryTypeOK
<1>3. Sum(OpenBalances, DOMAIN ledger.list) \in Nat
  BY <1>1, <1>2, SumNat
<1>4. settlement[Safe] \in Nat
  BY Sets DEF TreasuryInv, TreasuryTypeOK
<1> QED
  BY <1>3, <1>4, TreasuryIsSum

\* With no asset out, the treasury a deposit is priced with is all there is.
LEMMA SettledIsWorth ==
  ASSUME TreasuryInv, Settled
  PROVE  Worth = DepositTreasury
<1>1. /\ IsFiniteSet(DOMAIN ledger.list)
      /\ \A k \in DOMAIN ledger.list : ledger.list[k] \in OpenSet
      /\ \A k, l \in DOMAIN ledger.list : ledger.list[k] = ledger.list[l] => k = l
      /\ {ledger.list[k] : k \in DOMAIN ledger.list} = OpenSet
  BY OpenOnce
<1>2. OpenSet \subseteq Counted
  BY DEF OpenSet, Counted
<1>3. ASSUME NEW i \in OpenSet PROVE Holding[i] = settlement[i] /\ Holding[i] \in Nat
  <2>1. i \in Instances
    BY DEF OpenSet
  <2>2. AssetHeld(i) = 0
    BY <1>1 DEF Settled
  <2>3. settlement[i] \in Nat
    BY <2>1, Sets DEF TreasuryInv, TreasuryTypeOK
  <2> QED
    BY <2>1, <2>2, <2>3, LowestPrice, HoldingNat
<1>4. ASSUME NEW i \in Counted \ OpenSet PROVE Holding[i] = 0
  <2>1. i \in Instances /\ i \notin given /\ ~IsOpen(i) /\ status[i] # "Pending"
    BY DEF Counted, OpenSet
  <2>2. settlement[i] = 0 /\ AssetHeld(i) = 0
    BY <2>1 DEF TreasuryInv, InstancesInv, InstanceInv
  <2> QED
    BY <2>1, <2>2, LowestPrice, HoldingNat
<1>5. Sum(Holding, Counted) = Sum(Holding, OpenSet)
  <2>1. IsFiniteSet(Counted) /\ \A i \in Counted : Holding[i] \in Int
    BY HoldingNat
  <2> QED
    BY <1>2, <1>4, <2>1, SumOfSome
<1>6. ASSUME NEW k \in DOMAIN ledger.list
      PROVE  OpenBalances[k] = Holding[ledger.list[k]] /\ OpenBalances[k] \in Int
  BY <1>1, <1>3 DEF OpenBalances
<1>7. Sum(OpenBalances, DOMAIN ledger.list) = Sum(Holding, OpenSet)
  <2> DEFINE list == ledger.list
             K == DOMAIN list
  <2>1. Sum(OpenBalances, K) = Sum(Holding, {list[k] : k \in K})
    BY <1>1, <1>6, SumReindexed
  <2> QED
    BY <1>1, <2>1
<1> QED
  BY <1>5, <1>7, WorthIsSum, TreasuryIsSum

---------------------------------------------------------------------------
(* Treasury: every step keeps the invariant *)

LEMMA TreasuryInitial == TreasuryInit => TreasuryInv
<1> SUFFICES ASSUME TreasuryInit PROVE TreasuryInv
  OBVIOUS
<1> USE Sets, TermsAssumption DEF TermsAssumption
<1>1. TreasuryTypeOK
  <2>1. settlement \in [Holders -> Nat]
    BY DEF TreasuryInit
  <2>2. totalShares \in Nat
    BY DEF TreasuryInit
  <2>3. ledger.list \in Seq(Instances) /\ ledger.indexPlusOne \in [Instances -> Nat]
    BY DEF TreasuryInit
  <2> QED
    BY <2>1, <2>2, <2>3 DEF TreasuryInit, TreasuryTypeOK, Statuses
<1>2. Listed(ledger, {})
  BY DEF TreasuryInit, Listed, ListOf
<1>3. LedgerInv /\ OpenSet = {}
  BY <1>2, ListedOpen
<1>4. ASSUME NEW i \in Instances PROVE InstanceInv(i)
  <2>1. ~IsOpen(i) /\ status[i] = "Pending" /\ AssetHeld(i) = 0
    BY <1>3 DEF TreasuryInit, OpenSet, AssetHeld
  <2>2. i \in Payments => listed[i] <= budget[i]
    BY DEF TreasuryInit
  <2> QED
    BY <2>1, <2>2 DEF InstanceInv
<1> QED
  BY <1>1, <1>3, <1>4 DEF TreasuryInv, InstancesInv

LEMMA SentFacts ==
  ASSUME NEW D, NEW bal \in [D -> Nat], NEW from \in D, NEW to \in D, from # to,
         NEW n \in Nat, n <= bal[from]
  PROVE  /\ Sent(bal, from, to, n) \in [D -> Nat]
         /\ Sent(bal, from, to, n)[from] = bal[from] - n
         /\ Sent(bal, from, to, n)[to] = bal[to] + n
         /\ \A d \in D : d # from /\ d # to => Sent(bal, from, to, n)[d] = bal[d]
<1>1. bal[from] - n \in Nat /\ bal[to] + n \in Nat
  OBVIOUS
<1> QED
  BY <1>1 DEF Sent

\* What the steps read, of an instance.
LEMMA InstanceFacts ==
  ASSUME TreasuryInv, NEW i \in Instances
  PROVE  /\ InstanceInv(i) /\ Listed(ledger, OpenSet) /\ OpenSet \in SUBSET Instances
         /\ (IsOpen(i) <=> i \in OpenSet)
         /\ status[i] \in Statuses /\ budget[i] \in Nat /\ settlement[i] \in Nat
         /\ AssetHeld(i) \in Nat /\ settlement[Safe] \in Nat /\ i # Safe
         /\ i \in Strategies => AssetHeld(i) = asset[i] /\ asset[i] \in Nat
         /\ i \in Payments => AssetHeld(i) = 0 /\ listed[i] \in Nat
         /\ \A funded \in Funds(i) : funded \in Nat
<1>1. Budget[i] \in Nat
  BY TermsAssumption DEF TermsAssumption
<1> QED
  BY <1>1, Sets DEF TreasuryInv, InstancesInv, LedgerInv, OpenSet, TreasuryTypeOK, AssetHeld, Funds

LEMMA FundStrategyStep ==
  ASSUME TreasuryInv, NEW i \in Strategies, NEW funded \in Funds(i),
         FundAndStartStrategy(i, funded)
  PROVE  TreasuryInv'
<1> USE DEF FundAndStartStrategy, FundAndStart
<1>1. i \in Instances
  BY Sets
<1>2. TreasuryTypeOK /\ funded \in Nat /\ settlement[Safe] \in Nat /\ settlement[i] \in Nat /\ i # Safe
  BY <1>1, InstanceFacts DEF TreasuryInv
<1>3. i \notin OpenSet /\ Listed(ledger, OpenSet) /\ OpenSet \in SUBSET Instances
  BY <1>1, InstanceFacts DEF InstanceInv
<1>4. Listed(ledger', OpenSet \union {i})
  BY <1>1, <1>3, ListedOpens
<1>5. IsOpen(i)' /\ ledger'.list \in Seq(Instances) /\ ledger'.indexPlusOne \in [Instances -> Nat]
  BY <1>1, <1>3, <1>4, ListedOpenNext
<1>6. settlement' \in [Holders -> Nat] /\ status' \in [Instances -> Statuses] /\ status'[i] = "Running"
  <2>1. settlement[Safe] - funded \in Nat /\ settlement[i] + funded \in Nat
    BY <1>2
  <2> QED
    BY <1>1, <1>2, <2>1, Sets DEF TreasuryTypeOK, Sent, Statuses
<1>7. TreasuryTypeOK'
  BY <1>2, <1>5, <1>6 DEF TreasuryTypeOK, terms, shares
<1>8. InstanceInv(i)'
  <2>1. i \in Payments => listed'[i] <= budget'[i]
    BY <1>1, Sets
  <2> QED
    BY <1>5, <1>6, <2>1 DEF InstanceInv
<1>9. \A j \in Instances \ {i} : Rests(j)
  BY <1>1, <1>2, Sets DEF Rests, TreasuryTypeOK, Sent, terms
<1>10. given \subseteq given'
  OBVIOUS
<1> QED
  BY <1>1, <1>3, <1>4, <1>7, <1>8, <1>9, <1>10, InstanceStep

LEMMA FundPaymentStep ==
  ASSUME TreasuryInv, NEW i \in Payments, NEW funded \in Funds(i),
         FundAndStartPayment(i, funded)
  PROVE  TreasuryInv'
<1> USE DEF FundAndStartPayment, FundAndStart
<1>1. i \in Instances
  BY Sets
<1>2. /\ TreasuryTypeOK /\ funded \in Nat /\ settlement[Safe] \in Nat /\ settlement[i] \in Nat /\ i # Safe
      /\ listed[i] \in Nat /\ budget[i] \in Nat /\ listed[i] <= budget[i] /\ AssetHeld(i) = 0
  BY <1>1, InstanceFacts DEF TreasuryInv, InstanceInv
<1>3. i \notin OpenSet /\ Listed(ledger, OpenSet) /\ OpenSet \in SUBSET Instances
  BY <1>1, InstanceFacts DEF InstanceInv
<1>4. Listed(ledger', OpenSet)
  <2>1. Listed(Opened(ledger, i), OpenSet \union {i})
    BY <1>1, <1>3, ListedOpens
  <2>2. Listed(Closed(Opened(ledger, i), i), (OpenSet \union {i}) \ {i})
    BY <1>1, <1>3, <2>1, ListedCloses
  <2>3. (OpenSet \union {i}) \ {i} = OpenSet
    BY <1>3
  <2> QED
    BY <2>2, <2>3
<1>5. ~IsOpen(i)' /\ ledger'.list \in Seq(Instances) /\ ledger'.indexPlusOne \in [Instances -> Nat]
  BY <1>1, <1>3, <1>4, ListedOpenNext
<1>6. /\ settlement' \in [Holders -> Nat] /\ settlement'[i] = 0
      /\ status' \in [Instances -> Statuses] /\ status'[i] = "Complete"
  <2>1. settlement[Safe] + settlement[i] - listed[i] \in Nat
    BY <1>2
  <2> QED
    BY <1>1, <1>2, <2>1, Sets DEF TreasuryTypeOK, Statuses
<1>7. TreasuryTypeOK'
  BY <1>2, <1>5, <1>6 DEF TreasuryTypeOK, terms, shares
<1>8. InstanceInv(i)'
  <2>1. AssetHeld(i)' = 0
    BY Sets DEF AssetHeld
  <2>2. listed'[i] <= budget'[i]
    BY <1>2 DEF terms
  <2> QED
    BY <1>5, <1>6, <2>1, <2>2 DEF InstanceInv
<1>9. \A j \in Instances \ {i} : Rests(j)
  BY <1>1, <1>2, Sets DEF Rests, TreasuryTypeOK, terms
<1>10. given \subseteq given'
  OBVIOUS
<1> QED
  BY <1>1, <1>3, <1>4, <1>7, <1>8, <1>9, <1>10, InstanceStep

LEMMA TopUpStep ==
  ASSUME TreasuryInv, NEW i \in Instances, NEW amount \in Amounts, TopUp(i, amount)
  PROVE  TreasuryInv'
<1> USE DEF TopUp
<1>1. /\ TreasuryTypeOK /\ amount \in Nat /\ settlement[Safe] \in Nat /\ settlement[i] \in Nat /\ i # Safe
      /\ budget[i] \in Nat
      /\ InstanceInv(i)
  BY InstanceFacts, TermsAssumption DEF TreasuryInv, TermsAssumption
<1>2. Listed(ledger', OpenSet) /\ OpenSet \in SUBSET Instances
  BY InstanceFacts
<1>3. /\ settlement' \in [Holders -> Nat] /\ settlement'[i] = settlement[i] + amount
      /\ budget' \in [Instances -> Nat] /\ budget'[i] = budget[i] + amount
  <2>1. settlement \in [Holders -> Nat] /\ Safe \in Holders /\ i \in Holders
    BY <1>1, Sets DEF TreasuryTypeOK
  <2>2. settlement' \in [Holders -> Nat] /\ settlement'[i] = settlement[i] + amount
    BY <1>1, <2>1, SentFacts
  <2>3. budget' \in [Instances -> Nat] /\ budget'[i] = budget[i] + amount
    BY <1>1 DEF TreasuryTypeOK
  <2> QED
    BY <2>2, <2>3
<1>4. TreasuryTypeOK'
  BY <1>1, <1>3 DEF TreasuryTypeOK, shares
<1>5. InstanceInv(i)'
  <2>1. AssetHeld(i)' = AssetHeld(i) /\ (IsOpen(i)' <=> IsOpen(i)) /\ status' = status
        /\ given' = given /\ listed' = listed
    BY DEF AssetHeld, IsOpen
  <2>2. status[i] = "Pending" \/ status[i] = "Running"
    BY DEF Live
  <2>3. i \in Payments => listed[i] <= budget'[i]
    BY <1>1, <1>3, InstanceFacts DEF InstanceInv
  <2> QED
    BY <1>1, <2>1, <2>2, <2>3 DEF InstanceInv
<1>6. \A j \in Instances \ {i} : Rests(j)
  BY <1>1, Sets DEF Rests, TreasuryTypeOK, Sent
<1>7. given \subseteq given'
  OBVIOUS
<1> QED
  BY <1>2, <1>4, <1>5, <1>6, <1>7, InstanceStep

LEMMA AmendPaymentStep ==
  ASSUME TreasuryInv, NEW i \in Payments, NEW total \in Amounts, AmendPayment(i, total)
  PROVE  TreasuryInv'
<1> USE DEF AmendPayment
<1>1. TreasuryTypeOK /\ total \in Nat /\ InstanceInv(i) /\ i \in Instances /\ i # Safe
  BY InstanceFacts, Sets, TermsAssumption DEF TreasuryInv, TermsAssumption
<1>2. Listed(ledger', OpenSet) /\ OpenSet \in SUBSET Instances
  BY <1>1, InstanceFacts
<1>3. TreasuryTypeOK' /\ listed'[i] = total /\ budget'[i] = total
  BY <1>1 DEF TreasuryTypeOK, shares, money
<1>4. InstanceInv(i)'
  <2>1. /\ AssetHeld(i)' = AssetHeld(i) /\ (IsOpen(i)' <=> IsOpen(i)) /\ status' = status
        /\ given' = given /\ settlement' = settlement
    BY DEF AssetHeld, IsOpen, money
  <2> QED
    BY <1>1, <1>3, <2>1 DEF InstanceInv
<1>5. \A j \in Instances \ {i} : Rests(j)
  BY <1>1 DEF Rests, TreasuryTypeOK, money
<1>6. given \subseteq given'
  OBVIOUS
<1> QED
  BY <1>1, <1>2, <1>3, <1>4, <1>5, <1>6, InstanceStep

LEMMA StopStep ==
  ASSUME TreasuryInv, NEW i \in Instances, Stop(i)
  PROVE  TreasuryInv'
<1> USE DEF Stop
<1>1. /\ TreasuryTypeOK /\ settlement[Safe] \in Nat /\ settlement[i] \in Nat /\ i # Safe
      /\ InstanceInv(i) /\ AssetHeld(i) \in Nat
  BY InstanceFacts DEF TreasuryInv
<1>2. Listed(ledger, OpenSet) /\ OpenSet \in SUBSET Instances /\ (IsOpen(i) <=> i \in OpenSet)
  BY InstanceFacts
<1> DEFINE S == IF AssetHeld(i) = 0 THEN OpenSet \ {i} ELSE OpenSet
<1>3. Listed(ledger', S) /\ S \in SUBSET Instances /\ S \ {i} = OpenSet \ {i}
  BY <1>2, ListedCloses DEF AfterStop
<1>4. /\ settlement' \in [Holders -> Nat] /\ settlement'[i] = 0
      /\ status' \in [Instances -> Statuses] /\ status'[i] = "Stopped"
  <2>1. settlement \in [Holders -> Nat] /\ Safe \in Holders /\ i \in Holders
    BY <1>1, Sets DEF TreasuryTypeOK
  <2>2. settlement' \in [Holders -> Nat] /\ settlement'[i] = 0
    BY <1>1, <2>1, SentFacts
  <2>3. status' \in [Instances -> Statuses] /\ status'[i] = "Stopped"
    BY <1>1 DEF TreasuryTypeOK, Statuses
  <2> QED
    BY <2>2, <2>3
<1>5. /\ ledger'.list \in Seq(Instances) /\ ledger'.indexPlusOne \in [Instances -> Nat]
      /\ IsOpen(i)' <=> i \in S
  <2> HIDE DEF S
  <2> QED
    BY <1>3, ListedOpenNext
<1>6. TreasuryTypeOK'
  BY <1>1, <1>4, <1>5 DEF TreasuryTypeOK, terms, shares
<1>7. InstanceInv(i)'
  <2>1. AssetHeld(i)' = AssetHeld(i)
    BY DEF AssetHeld
  <2>2. i \in Payments => listed'[i] <= budget'[i]
    BY <1>1 DEF InstanceInv, terms
  <2>3. IsOpen(i)' => AssetHeld(i) > 0
    BY <1>1, <1>5
  <2>4. i \notin given /\ ~IsOpen(i)' => AssetHeld(i) = 0
    <3>1. SUFFICES ASSUME i \notin given, ~IsOpen(i)', AssetHeld(i) # 0 PROVE FALSE
      OBVIOUS
    <3>2. ~IsOpen(i)
      BY <1>2, <1>5, <3>1
    <3>3. status[i] = "Pending"
      BY <1>1, <3>2 DEF InstanceInv, Live
    <3> QED
      BY <1>1, <3>1, <3>3 DEF InstanceInv
  <2> QED
    BY <1>4, <2>1, <2>2, <2>3, <2>4 DEF InstanceInv
<1>8. \A j \in Instances \ {i} : Rests(j)
  BY <1>1, Sets DEF Rests, TreasuryTypeOK, Sent, terms
<1>9. given \subseteq given'
  OBVIOUS
<1> HIDE DEF S
<1> QED
  BY <1>3, <1>6, <1>7, <1>8, <1>9, InstanceStep

\* Everything of i is sold and returned, and i is closed.
LEMMA ReturnStep ==
  ASSUME TreasuryInv, NEW i \in Strategies, NEW price \in Prices,
         settlement' = Returned(i, price), asset' = [asset EXCEPT ![i] = 0],
         ledger' = Closed(ledger, i), UNCHANGED <<terms, shares, given>>,
         status' = [status EXCEPT ![i] = status'[i]], status'[i] \in {"Complete", "Stopped"}
  PROVE  TreasuryInv'
<1>1. /\ TreasuryTypeOK /\ settlement[Safe] \in Nat /\ settlement[i] \in Nat /\ i # Safe
      /\ i \in Instances /\ asset[i] \in Nat /\ price \in Nat
  BY InstanceFacts, Sets, TermsAssumption DEF TreasuryInv, TermsAssumption
<1>2. Listed(ledger, OpenSet) /\ OpenSet \in SUBSET Instances
  BY <1>1, InstanceFacts
<1>3. Listed(ledger', OpenSet \ {i}) /\ OpenSet \ {i} \in SUBSET Instances
  BY <1>1, <1>2, ListedCloses
<1>4. ~IsOpen(i)' /\ ledger'.list \in Seq(Instances) /\ ledger'.indexPlusOne \in [Instances -> Nat]
  BY <1>1, <1>3, ListedOpenNext
<1>5. settlement' \in [Holders -> Nat] /\ settlement'[i] = 0
  <2>1. asset[i] * price \in Nat
    BY <1>1
  <2>2. settlement[Safe] + settlement[i] + asset[i] * price \in Nat
    BY <1>1, <2>1
  <2> QED
    BY <1>1, <2>2, Sets DEF TreasuryTypeOK, Returned
<1>6. asset' \in [Strategies -> Nat] /\ asset'[i] = 0 /\ status' \in [Instances -> Statuses]
  BY <1>1 DEF TreasuryTypeOK, Statuses
<1>7. TreasuryTypeOK'
  BY <1>1, <1>4, <1>5, <1>6 DEF TreasuryTypeOK, terms, shares
<1>8. InstanceInv(i)'
  <2>1. AssetHeld(i)' = 0 /\ i \notin Payments
    BY <1>1, <1>6, Sets DEF AssetHeld
  <2> QED
    BY <1>4, <1>5, <2>1 DEF InstanceInv
<1>9. \A j \in Instances \ {i} : Rests(j)
  BY <1>1, Sets DEF Rests, TreasuryTypeOK, Returned, terms
<1>10. given \subseteq given'
  OBVIOUS
<1> QED
  BY <1>1, <1>3, <1>7, <1>8, <1>9, <1>10, InstanceStep

LEMMA BuyStep ==
  ASSUME TreasuryInv, NEW i \in Strategies, NEW price \in Prices, RunBuys(i, price)
  PROVE  TreasuryInv'
<1> DEFINE size == IF settlement[i] < MaxPerRun THEN settlement[i] ELSE MaxPerRun
<1>1. /\ TreasuryTypeOK /\ settlement[i] \in Nat /\ i # Safe /\ InstanceInv(i)
      /\ i \in Instances /\ asset[i] \in Nat /\ price \in Nat \ {0} /\ MaxPerRun \in Nat
  BY InstanceFacts, Sets, TermsAssumption DEF TreasuryInv, TermsAssumption
<1>2. Listed(ledger, OpenSet) /\ OpenSet \in SUBSET Instances
  BY <1>1, InstanceFacts
<1>3. /\ settlement' = [settlement EXCEPT ![i] = @ - size]
      /\ asset' = [asset EXCEPT ![i] = @ + size \div price]
      /\ status[i] = "Running" /\ UNCHANGED <<terms, status, ledger, shares, given>>
  BY DEF RunBuys
<1>4. settlement[i] - size \in Nat /\ size \in Nat /\ asset[i] + size \div price \in Nat
  BY <1>1
<1> HIDE DEF size
<1>5. settlement' \in [Holders -> Nat] /\ asset' \in [Strategies -> Nat]
  BY <1>1, <1>3, <1>4, Sets DEF TreasuryTypeOK
<1>6. TreasuryTypeOK'
  BY <1>1, <1>3, <1>5 DEF TreasuryTypeOK, terms, shares
<1>7. InstanceInv(i)'
  BY <1>1, <1>3, Sets DEF InstanceInv, IsOpen
<1>8. \A j \in Instances \ {i} : Rests(j)
  BY <1>1, <1>3, Sets DEF Rests, TreasuryTypeOK, terms
<1>9. Listed(ledger', OpenSet) /\ given \subseteq given'
  BY <1>2, <1>3
<1> QED
  BY <1>1, <1>2, <1>6, <1>7, <1>8, <1>9, InstanceStep

LEMMA MigrateStep ==
  ASSUME TreasuryInv, NEW old \in Strategies, NEW new \in Strategies, MigrateAndStart(old, new)
  PROVE  TreasuryInv'
<1> USE DEF MigrateAndStart
<1>1. /\ TreasuryTypeOK /\ old # new /\ old \in Instances /\ new \in Instances
      /\ old # Safe /\ new # Safe /\ InstanceInv(new)
      /\ settlement[old] \in Nat /\ settlement[new] \in Nat /\ asset[old] \in Nat /\ asset[new] \in Nat
      /\ status[new] = "Pending"
  BY InstanceFacts, Sets DEF TreasuryInv
<1>2. /\ Listed(ledger, OpenSet) /\ OpenSet \in SUBSET Instances /\ new \notin OpenSet
  BY <1>1, InstanceFacts DEF InstanceInv
<1> DEFINE S == (OpenSet \ {old}) \union {new}
<1>3. Listed(ledger', S) /\ S \in SUBSET Instances
  <2>1. Listed(Closed(ledger, old), OpenSet \ {old})
    BY <1>1, <1>2, ListedCloses
  <2>2. OpenSet \ {old} \in SUBSET Instances /\ new \notin OpenSet \ {old}
    BY <1>2
  <2> QED
    BY <1>1, <2>1, <2>2, ListedOpens
<1>4. /\ ledger'.list \in Seq(Instances) /\ ledger'.indexPlusOne \in [Instances -> Nat]
      /\ ~IsOpen(old)' /\ IsOpen(new)' /\ LedgerInv'
  <2>1. old \notin S /\ new \in S
    BY <1>1
  <2> HIDE DEF S
  <2> QED
    BY <1>1, <1>3, <2>1, ListedOpenNext
<1>5. /\ settlement' \in [Holders -> Nat] /\ settlement'[old] = 0
      /\ asset' \in [Strategies -> Nat] /\ asset'[old] = 0
  <2>1. settlement \in [Holders -> Nat] /\ asset \in [Strategies -> Nat]
        /\ old \in Holders /\ new \in Holders
    BY <1>1, Sets DEF TreasuryTypeOK
  <2>2. settlement' \in [Holders -> Nat] /\ settlement'[old] = 0
    BY <1>1, <2>1, SentFacts
  <2>3. asset' \in [Strategies -> Nat] /\ asset'[old] = 0
    BY <1>1, <2>1, SentFacts
  <2> QED
    BY <2>2, <2>3
<1>6. status' \in [Instances -> Statuses] /\ status'[old] = "Migrated" /\ status'[new] = "Running"
  BY <1>1 DEF TreasuryTypeOK, Statuses
<1>7. TreasuryTypeOK' /\ given \subseteq given'
  BY <1>1, <1>4, <1>5, <1>6 DEF TreasuryTypeOK, terms, shares
<1>8. InstanceInv(old)' /\ InstanceInv(new)'
  <2>1. AssetHeld(old)' = 0 /\ old \notin Payments /\ new \notin Payments
    BY <1>5, Sets DEF AssetHeld
  <2> QED
    BY <1>4, <1>5, <1>6, <2>1 DEF InstanceInv
<1>9. ASSUME NEW j \in Instances \ {old, new} PROVE InstanceInv(j)'
  <2>1. Rests(j)
    BY <1>1, <1>9, Sets DEF Rests, TreasuryTypeOK, Sent, terms
  <2>2. j \in S <=> j \in OpenSet
    BY <1>9
  <2> HIDE DEF S
  <2> QED
    BY <1>3, <1>7, <1>9, <2>1, <2>2, RestsInv
<1> QED
  BY <1>4, <1>7, <1>8, <1>9 DEF TreasuryInv, InstancesInv

\* Division rounds down.
LEMMA DivBound ==
  ASSUME NEW n \in Nat, NEW d \in Nat \ {0}
  PROVE  n \div d \in Nat /\ d * (n \div d) <= n
OBVIOUS

LEMMA QuoteNat ==
  ASSUME TreasuryInv, NEW amount \in Amounts
  PROVE  Quote(amount) \in Nat
<1>1. /\ amount \in Nat /\ Unit \in Nat /\ totalShares \in Nat /\ liability \in Nat
      /\ DepositTreasury \in Nat
  BY TermsAssumption, TreasuryNat DEF TermsAssumption, TreasuryInv, TreasuryTypeOK
<1>2. amount * Unit \in Nat /\ amount * (totalShares + liability) \in Nat
  BY <1>1
<1>3. DepositTreasury # 0 => (amount * (totalShares + liability)) \div DepositTreasury \in Nat
  BY <1>1, <1>2, DivBound
<1> QED
  BY <1>2, <1>3 DEF Quote

LEMMA DepositStep ==
  ASSUME TreasuryInv, NEW amount \in Amounts, Deposit(amount)
  PROVE  /\ TreasuryInv' /\ settlement'[Safe] = settlement[Safe] + amount
         /\ \A i \in Instances : settlement'[i] = settlement[i]
<1>1. amount \in Nat /\ TreasuryTypeOK /\ Quote(amount) \in Nat
  BY QuoteNat, TermsAssumption DEF TermsAssumption, TreasuryInv
<1>2. /\ settlement' = [settlement EXCEPT ![Safe] = @ + amount]
      /\ totalShares' = totalShares + Quote(amount)
      /\ UNCHANGED <<terms, status, asset, ledger, liability, given>>
  BY DEF Deposit
<1>3. /\ settlement' \in [Holders -> Nat] /\ settlement'[Safe] = settlement[Safe] + amount
      /\ \A i \in Instances : settlement'[i] = settlement[i]
  BY <1>1, <1>2, Sets DEF TreasuryTypeOK
<1>4. totalShares' \in Nat
  BY <1>1, <1>2 DEF TreasuryTypeOK
<1>5. TreasuryTypeOK'
  BY <1>1, <1>2, <1>3, <1>4 DEF TreasuryTypeOK, terms
<1> QED
  BY <1>2, <1>3, <1>5, OutsideStep DEF terms

LEMMA RagequitStep ==
  ASSUME TreasuryInv, NEW burnt \in Amounts, Ragequit(burnt)
  PROVE  /\ TreasuryInv' /\ settlement'[Safe] = settlement[Safe] - ExitPayout(burnt)
         /\ ExitPayout(burnt) \in Nat /\ totalShares * ExitPayout(burnt) <= burnt * settlement[Safe]
         /\ totalShares \in Nat \ {0} /\ burnt \in Nat /\ totalShares' = totalShares - burnt
         /\ \A i \in Instances : settlement'[i] = settlement[i]
<1>1. burnt \in Nat \ {0} /\ TreasuryTypeOK /\ totalShares \in Nat /\ settlement[Safe] \in Nat
  BY Sets, TermsAssumption DEF TermsAssumption, TreasuryInv, TreasuryTypeOK
<1>2. /\ burnt <= totalShares /\ ExitPayout(burnt) <= settlement[Safe]
      /\ settlement' = [settlement EXCEPT ![Safe] = @ - ExitPayout(burnt)]
      /\ totalShares' = totalShares - burnt
      /\ UNCHANGED <<terms, status, asset, ledger, liability, given>>
  BY DEF Ragequit
<1>3. totalShares \in Nat \ {0} /\ burnt * settlement[Safe] \in Nat
  BY <1>1, <1>2
<1>4. ExitPayout(burnt) \in Nat /\ totalShares * ExitPayout(burnt) <= burnt * settlement[Safe]
  BY <1>3, DivBound DEF ExitPayout
<1>5. settlement[Safe] - ExitPayout(burnt) \in Nat /\ totalShares - burnt \in Nat
  BY <1>1, <1>2, <1>4
<1>6. /\ settlement' \in [Holders -> Nat] /\ settlement'[Safe] = settlement[Safe] - ExitPayout(burnt)
      /\ \A i \in Instances : settlement'[i] = settlement[i]
  BY <1>1, <1>2, <1>5, Sets DEF TreasuryTypeOK
<1>7. TreasuryTypeOK'
  BY <1>1, <1>2, <1>5, <1>6 DEF TreasuryTypeOK, terms
<1>8. TreasuryInv'
  BY <1>2, <1>6, <1>7, OutsideStep DEF terms
<1> QED
  BY <1>1, <1>2, <1>3, <1>4, <1>6, <1>8

LEMMA RewardStep ==
  ASSUME TreasuryInv, ActivateReward \/ PayReward \/ DropReward
  PROVE  TreasuryInv' /\ settlement' = settlement /\ totalShares' >= totalShares
<1>1. /\ totalShares \in Nat /\ liability \in Nat /\ Reward \in Nat \ {0} /\ TreasuryTypeOK
  BY TermsAssumption DEF TermsAssumption, TreasuryInv, TreasuryTypeOK
<1>2. totalShares' \in Nat /\ liability' \in Nat /\ totalShares' >= totalShares
      /\ UNCHANGED <<terms, status, money, ledger, given>>
  BY <1>1 DEF ActivateReward, PayReward, DropReward
<1>3. TreasuryTypeOK'
  BY <1>1, <1>2 DEF TreasuryTypeOK, terms, money
<1> QED
  BY <1>2, <1>3, OutsideStep DEF terms, money

LEMMA DueStep ==
  ASSUME TreasuryInv, NEW i \in Strategies, AmendStrategy(i) \/ DeadlinePasses(i)
  PROVE  TreasuryInv'
<1>1. due' \subseteq Strategies /\ UNCHANGED <<budget, listed, status, money, ledger, shares, given>>
  BY DEF AmendStrategy, DeadlinePasses, TreasuryInv, TreasuryTypeOK
<1>2. TreasuryTypeOK'
  BY <1>1 DEF TreasuryInv, TreasuryTypeOK, money, shares
<1> QED
  BY <1>1, <1>2, OutsideStep DEF money

LEMMA GiveSettlementStep ==
  ASSUME TreasuryInv, NEW h \in Strategies \union {Safe}, GiveSettlement(h)
  PROVE  TreasuryInv'
<1>1. /\ TreasuryTypeOK /\ h \in Holders /\ settlement[h] + 1 \in Nat
  BY Sets DEF TreasuryInv, TreasuryTypeOK
<1>2. /\ settlement' = [settlement EXCEPT ![h] = @ + 1]
      /\ given' = IF h = Safe THEN given ELSE given \union {h}
      /\ UNCHANGED <<terms, status, asset, ledger, shares>>
  BY DEF GiveSettlement
<1>3. settlement' \in [Holders -> Nat] /\ given' \subseteq Instances /\ given \subseteq given'
  BY <1>1, <1>2, Sets DEF TreasuryTypeOK
<1>4. TreasuryTypeOK'
  BY <1>1, <1>2, <1>3 DEF TreasuryTypeOK, terms, shares
<1>5. CASE h = Safe
  <2>1. \A i \in Instances : settlement'[i] = settlement[i]
    BY <1>1, <1>2, <1>5, Sets DEF TreasuryTypeOK
  <2> QED
    BY <1>2, <1>3, <1>4, <2>1, OutsideStep DEF terms
<1>6. CASE h # Safe
  <2>1. h \in Instances /\ h \in given' /\ InstanceInv(h) /\ Listed(ledger', OpenSet)
        /\ OpenSet \in SUBSET Instances
    BY <1>2, <1>6, Sets, InstanceFacts
  <2>2. InstanceInv(h)'
    BY <1>2, <2>1 DEF InstanceInv, IsOpen, AssetHeld, terms
  <2>3. \A j \in Instances \ {h} : Rests(j)
    BY <1>1, <1>2, Sets DEF Rests, TreasuryTypeOK, terms
  <2> QED
    BY <1>3, <1>4, <2>1, <2>2, <2>3, InstanceStep
<1> QED
  BY <1>5, <1>6

LEMMA GiveAssetStep ==
  ASSUME TreasuryInv, NEW i \in Strategies, GiveAsset(i)
  PROVE  TreasuryInv'
<1>1. /\ TreasuryTypeOK /\ i \in Instances /\ InstanceInv(i) /\ asset[i] \in Nat /\ AssetHeld(i) = asset[i]
  BY Sets, InstanceFacts DEF TreasuryInv
<1>2. /\ asset' = [asset EXCEPT ![i] = @ + 1] /\ given' = given \union {i}
      /\ UNCHANGED <<terms, status, settlement, ledger, shares>>
  BY DEF GiveAsset
<1>3. asset' \in [Strategies -> Nat] /\ asset'[i] = asset[i] + 1 /\ given' \subseteq Instances
  BY <1>1, <1>2 DEF TreasuryTypeOK
<1>4. TreasuryTypeOK'
  BY <1>1, <1>2, <1>3 DEF TreasuryTypeOK, terms, shares
<1>5. InstanceInv(i)'
  <2>1. AssetHeld(i)' = asset[i] + 1 /\ i \in given'
    BY <1>2, <1>3 DEF AssetHeld
  <2> QED
    BY <1>1, <1>2, <2>1 DEF InstanceInv, IsOpen, terms
<1>6. \A j \in Instances \ {i} : Rests(j)
  BY <1>1, <1>2 DEF Rests, TreasuryTypeOK, terms
<1>7. Listed(ledger', OpenSet) /\ OpenSet \in SUBSET Instances /\ given \subseteq given'
  BY <1>1, <1>2, InstanceFacts
<1> QED
  BY <1>1, <1>4, <1>5, <1>6, <1>7, InstanceStep

LEMMA TreasuryStep == TreasuryInv /\ [TreasuryNext]_treasuryVars => TreasuryInv'
<1> SUFFICES ASSUME TreasuryInv, [TreasuryNext]_treasuryVars PROVE TreasuryInv'
  OBVIOUS
<1>1. ASSUME NEW amount \in Amounts, Deposit(amount) \/ Ragequit(amount) PROVE TreasuryInv'
  BY <1>1, DepositStep, RagequitStep
<1>2. CASE ActivateReward \/ PayReward \/ DropReward
  BY <1>2, RewardStep
<1>3. ASSUME NEW i \in Strategies, NEW funded \in Funds(i), FundAndStartStrategy(i, funded)
      PROVE  TreasuryInv'
  BY <1>3, FundStrategyStep
<1>4. ASSUME NEW i \in Payments, NEW funded \in Funds(i), FundAndStartPayment(i, funded)
      PROVE  TreasuryInv'
  BY <1>4, FundPaymentStep
<1>5. ASSUME NEW i \in Instances, Stop(i) \/ \E amount \in Amounts : TopUp(i, amount)
      PROVE  TreasuryInv'
  BY <1>5, StopStep, TopUpStep
<1>6. ASSUME NEW i \in Strategies, AmendStrategy(i) \/ DeadlinePasses(i) PROVE TreasuryInv'
  BY <1>6, DueStep
<1>7. ASSUME NEW i \in Payments, NEW total \in Amounts, AmendPayment(i, total) PROVE TreasuryInv'
  BY <1>7, AmendPaymentStep
<1>8. ASSUME NEW i \in Strategies, NEW price \in Prices, Unwind(i, price) PROVE TreasuryInv'
  <2>1. status' = [status EXCEPT ![i] = status'[i]] /\ status'[i] = "Stopped"
    BY <1>8 DEF Unwind, TreasuryInv, TreasuryTypeOK
  <2> QED
    BY <1>8, <2>1, ReturnStep DEF Unwind
<1>9. ASSUME NEW i \in Strategies, NEW price \in Prices, RunEnds(i, price) PROVE TreasuryInv'
  <2>1. status' = [status EXCEPT ![i] = status'[i]] /\ status'[i] = "Complete"
    BY <1>9, Sets DEF RunEnds, TreasuryInv, TreasuryTypeOK
  <2> QED
    BY <1>9, <2>1, ReturnStep DEF RunEnds
<1>10. ASSUME NEW i \in Strategies, NEW price \in Prices, RunBuys(i, price) PROVE TreasuryInv'
  BY <1>10, BuyStep
<1>11. ASSUME NEW old \in Strategies, NEW new \in Strategies, MigrateAndStart(old, new)
       PROVE  TreasuryInv'
  BY <1>11, MigrateStep
<1>12. ASSUME NEW h \in Strategies \union {Safe}, GiveSettlement(h) PROVE TreasuryInv'
  BY <1>12, GiveSettlementStep
<1>13. ASSUME NEW i \in Strategies, GiveAsset(i) PROVE TreasuryInv'
  BY <1>13, GiveAssetStep
<1>14. CASE UNCHANGED treasuryVars
  <2>1. TreasuryTypeOK'
    BY <1>14 DEF treasuryVars, terms, money, shares, TreasuryInv, TreasuryTypeOK
  <2> QED
    BY <1>14, <2>1, OutsideStep DEF treasuryVars, terms, money
<1> QED
  BY <1>1, <1>2, <1>3, <1>4, <1>5, <1>6, <1>7, <1>8, <1>9, <1>10, <1>11, <1>12, <1>13, <1>14
  DEF TreasuryNext

\* Balances stay natural numbers, the ledger's list and index agree, and every
\* instance is open, empty or untouched as its status says, under every order of
\* votes, runs, deposits, exits and presents (TreasuryLedger, ProposalBase and its
\* templates, DepositShaman, Baal._ragequit).
THEOREM TreasuryInvariant == TreasurySpec => []TreasuryInv
BY TreasuryInitial, TreasuryStep, PTL DEF TreasurySpec

\* The ledger lists the running instances and the stopped ones that still hold
\* their asset, each once and at its index (TreasuryLedger.open, close;
\* ProposalBase.stop, migrate, _complete).
THEOREM LedgerIsExact == TreasurySpec => []LedgerExact
<1>1. TreasuryInv => LedgerExact
  BY DEF TreasuryInv, LedgerInv, Listed, ListOf, OpenSet, InstancesInv, InstanceInv, LedgerExact
<1> QED
  BY <1>1, TreasuryInvariant, PTL

\* An instance that started and is not in the ledger is empty, but for what a
\* stranger sent it: what a deposit is priced with leaves nothing out
\* (TreasuryLedger.depositTreasury; ProposalBase.stop, migrate, _complete).
THEOREM NothingIsLeftBehind == TreasurySpec => []NothingLeftBehind
<1>1. TreasuryInv => NothingLeftBehind
  BY DEF TreasuryInv, InstancesInv, InstanceInv, NothingLeftBehind
<1> QED
  BY <1>1, TreasuryInvariant, PTL

---------------------------------------------------------------------------
(* Treasury: what a share stands for *)

LEMMA WorthNat == TreasuryInv => Worth \in Nat
BY HoldingNat

\* Money that comes into or leaves the Safe alone.
LEMMA SafeChanges ==
  ASSUME TreasuryInv, TreasuryInv', UNCHANGED <<status, asset, ledger, given>>,
         \A i \in Instances : settlement'[i] = settlement[i]
  PROVE  Worth' - settlement'[Safe] = Worth - settlement[Safe]
<1>1. Holding' = Holding
  BY DEF Holding, AssetHeld
<1>2. Counted' = Counted
  BY DEF Counted, IsOpen
<1>3. Worth' = settlement'[Safe] + Sum(Holding, Counted)
  <2>1. Worth' = settlement'[Safe] + Sum(Holding', Counted')
    <3>1. (Worth = settlement[Safe] + Sum(Holding, Counted))'
      BY WorthIsSum, PTL
    <3> QED
      BY <3>1
  <2> QED
    BY <1>1, <1>2, <2>1
<1>4. Worth = settlement[Safe] + Sum(Holding, Counted)
  BY WorthIsSum
<1>5. Sum(Holding, Counted) \in Nat /\ settlement[Safe] \in Nat
  BY HoldingNat
<1>6. settlement'[Safe] \in Nat
  BY Sets DEF TreasuryInv, TreasuryTypeOK
<1> QED
  BY <1>3, <1>4, <1>5, <1>6

LEMMA DepositWorth ==
  ASSUME TreasuryInv, NEW amount \in Amounts, Deposit(amount), totalShares > 0
  PROVE  Worth' * (totalShares + liability) >= Worth * (totalShares' + liability')
<1> DEFINE s == totalShares + liability
           w == Worth
           q == Quote(amount)
<1>1. /\ amount \in Nat /\ s \in Nat /\ w \in Nat /\ q \in Nat /\ totalShares \in Nat /\ liability \in Nat
      /\ settlement[Safe] \in Nat /\ Worth' \in Nat
  <2>1. TreasuryInv'
    BY DepositStep
  <2>2. (TreasuryInv => Worth \in Nat)'
    BY WorthNat, PTL
  <2>3. Worth' \in Nat
    BY <2>1, <2>2
  <2>4. totalShares \in Nat /\ liability \in Nat /\ amount \in Nat
    BY TermsAssumption DEF TermsAssumption, TreasuryInv, TreasuryTypeOK
  <2>5. s \in Nat
    BY <2>4
  <2>6. w \in Nat /\ settlement[Safe] \in Nat
    BY HoldingNat
  <2>7. q \in Nat
    BY QuoteNat
  <2> QED
    BY <2>3, <2>4, <2>5, <2>6, <2>7
<1>2. totalShares' + liability' = s + q
  BY <1>1 DEF Deposit
<1>3. Worth' = w + amount
  <2>1. /\ TreasuryInv' /\ settlement'[Safe] = settlement[Safe] + amount
        /\ \A i \in Instances : settlement'[i] = settlement[i]
    BY DepositStep
  <2>2. UNCHANGED <<status, asset, ledger, given>>
    BY DEF Deposit
  <2>3. Worth' - settlement'[Safe] = w - settlement[Safe]
    BY <2>1, <2>2, SafeChanges
  <2> QED
    BY <1>1, <2>1, <2>3
<1>4. w * q <= amount * s
  <2>1. w = DepositTreasury
    BY SettledIsWorth DEF Deposit
  <2>2. CASE w = 0
    BY <1>1, <2>2
  <2>3. CASE w # 0
    <3>1. q = (amount * s) \div w
      BY <1>1, <2>1, <2>3 DEF Quote
    <3>2. amount * s \in Nat /\ w \in Nat \ {0}
      BY <1>1, <2>3
    <3> HIDE DEF s, w, q
    <3> QED
      BY <3>1, <3>2, DivBound
  <2> QED
    BY <2>2, <2>3
<1> HIDE DEF s, w, q
<1>5. (w + amount) * s >= w * (s + q)
  <2>1. (w + amount) * s = w * s + amount * s /\ w * (s + q) = w * s + w * q
    BY <1>1
  <2>2. w * s \in Nat /\ amount * s \in Nat /\ w * q \in Nat
    BY <1>1
  <2> QED
    BY <1>4, <2>1, <2>2
<1> QED
  BY <1>2, <1>3, <1>5 DEF s, w

LEMMA ExitWorth ==
  ASSUME TreasuryInv, NEW burnt \in Amounts, Ragequit(burnt)
  PROVE  Worth' * totalShares >= Worth * totalShares'
<1> DEFINE s == totalShares
           w == Worth
           c == ExitPayout(burnt)
           bal == settlement[Safe]
<1>1. /\ TreasuryInv' /\ settlement'[Safe] = bal - c /\ c \in Nat /\ s * c <= burnt * bal
      /\ s \in Nat \ {0} /\ burnt \in Nat /\ totalShares' = s - burnt
      /\ \A i \in Instances : settlement'[i] = settlement[i]
  BY RagequitStep
<1>2. bal \in Nat /\ w \in Nat /\ w >= bal
  BY HoldingNat
<1>3. Worth' \in Nat
  <2>1. (TreasuryInv => Worth \in Nat)'
    BY WorthNat, PTL
  <2> QED
    BY <1>1, <2>1
<1>4. Worth' = w - c
  <2>1. UNCHANGED <<status, asset, ledger, given>>
    BY DEF Ragequit
  <2>2. Worth' - settlement'[Safe] = w - bal
    BY <1>1, <2>1, SafeChanges
  <2>3. settlement'[Safe] = bal - c /\ c \in Nat /\ bal \in Nat /\ w \in Nat
    BY <1>1, <1>2
  <2>4. \A x, y, a, b, d \in Int : x - y = a - b /\ y = b - d => x = a - d
    OBVIOUS
  <2>5. settlement'[Safe] \in Int
    BY <2>3
  <2>6. w \in Int /\ bal \in Int /\ c \in Int /\ Worth' \in Int
    BY <1>3, <2>3
  <2>7. Worth' - settlement'[Safe] = w - bal /\ settlement'[Safe] = bal - c
    BY <2>2, <2>3
  <2> QED
    BY <2>4, <2>5, <2>6, <2>7
<1> HIDE DEF s, w, c, bal
<1>5. s * c <= burnt * w
  <2>1. burnt * bal <= burnt * w
    BY <1>1, <1>2
  <2>2. s * c \in Nat /\ burnt * bal \in Nat /\ burnt * w \in Nat
    BY <1>1, <1>2
  <2> QED
    BY <1>1, <2>1, <2>2
<1>6. (w - c) * s >= w * (s - burnt)
  <2>1. (w - c) * s = w * s - s * c /\ w * (s - burnt) = w * s - burnt * w
    BY <1>1, <1>2
  <2>2. w * s \in Nat /\ s * c \in Nat /\ burnt * w \in Nat
    BY <1>1, <1>2
  <2> QED
    BY <1>5, <2>1, <2>2
<1> QED
  BY <1>1, <1>4, <1>6 DEF s, w

\* Shares come from deposits and rewards, and go with exits, and with nothing else.
LEMMA SharesChange ==
  ASSUME TreasuryInv, [TreasuryNext]_treasuryVars
  PROVE  /\ totalShares' > totalShares /\ settlement' # settlement =>
              \E amount \in Amounts : Deposit(amount)
         /\ totalShares' < totalShares => \E burnt \in Amounts : Ragequit(burnt)
<1> SUFFICES ASSUME ~ \E amount \in Amounts : Deposit(amount),
                    ~ \E burnt \in Amounts : Ragequit(burnt)
             PROVE  totalShares' = totalShares
                    \/ (totalShares' >= totalShares /\ settlement' = settlement)
  <2>1. totalShares \in Nat /\ totalShares' \in Nat
    BY TreasuryStep DEF TreasuryInv, TreasuryTypeOK
  <2>2. ASSUME NEW amount \in Amounts, Deposit(amount)
        PROVE  totalShares' >= totalShares
    <3>1. Quote(amount) \in Nat
      BY QuoteNat
    <3>2. totalShares' = totalShares + Quote(amount)
      BY <2>2 DEF Deposit
    <3> QED
      BY <2>1, <3>1, <3>2
  <2>3. ASSUME NEW burnt \in Amounts, Ragequit(burnt)
        PROVE  totalShares' <= totalShares
    <3>1. burnt \in Nat /\ totalShares' = totalShares - burnt
      BY <2>3, RagequitStep
    <3> QED
      BY <2>1, <3>1
  <2>4. CASE \E amount \in Amounts : Deposit(amount)
    BY <2>1, <2>2, <2>4
  <2>5. CASE \E burnt \in Amounts : Ragequit(burnt)
    BY <2>1, <2>3, <2>5
  <2>6. CASE /\ ~ \E amount \in Amounts : Deposit(amount)
             /\ ~ \E burnt \in Amounts : Ragequit(burnt)
    BY <2>1, <2>6
  <2> QED
    BY <2>4, <2>5, <2>6
<1>1. CASE ActivateReward \/ PayReward \/ DropReward
  BY <1>1, RewardStep
<1>2. ASSUME NEW i \in Strategies, NEW funded \in Funds(i), FundAndStartStrategy(i, funded)
      PROVE  totalShares' = totalShares
  BY <1>2 DEF FundAndStartStrategy, FundAndStart, shares
<1>3. ASSUME NEW i \in Payments, NEW funded \in Funds(i), FundAndStartPayment(i, funded)
      PROVE  totalShares' = totalShares
  BY <1>3 DEF FundAndStartPayment, FundAndStart, shares
<1>4. ASSUME NEW i \in Instances, Stop(i) \/ \E amount \in Amounts : TopUp(i, amount)
      PROVE  totalShares' = totalShares
  BY <1>4 DEF Stop, TopUp, shares
<1>5. ASSUME NEW i \in Strategies, AmendStrategy(i) \/ DeadlinePasses(i)
      PROVE  totalShares' = totalShares
  BY <1>5 DEF AmendStrategy, DeadlinePasses, shares
<1>6. ASSUME NEW i \in Payments, NEW total \in Amounts, AmendPayment(i, total)
      PROVE  totalShares' = totalShares
  BY <1>6 DEF AmendPayment, shares
<1>7. ASSUME NEW i \in Strategies, NEW price \in Prices,
             Unwind(i, price) \/ RunEnds(i, price) \/ RunBuys(i, price)
      PROVE  totalShares' = totalShares
  BY <1>7 DEF Unwind, RunEnds, RunBuys, shares
<1>8. ASSUME NEW old \in Strategies, NEW new \in Strategies, MigrateAndStart(old, new)
      PROVE  totalShares' = totalShares
  BY <1>8 DEF MigrateAndStart, shares
<1>9. ASSUME NEW h \in Strategies \union {Safe}, GiveSettlement(h) PROVE totalShares' = totalShares
  BY <1>9 DEF GiveSettlement, shares
<1>10. ASSUME NEW i \in Strategies, GiveAsset(i) PROVE totalShares' = totalShares
  BY <1>10 DEF GiveAsset, shares
<1>11. CASE UNCHANGED treasuryVars
  BY <1>11 DEF treasuryVars, shares
<1> QED
  BY <1>1, <1>2, <1>3, <1>4, <1>5, <1>6, <1>7, <1>8, <1>9, <1>10, <1>11 DEF TreasuryNext

\* No deposit lowers what a share, promised ones included, stands for, whatever
\* the gains, losses and running instances: the price rounds down and the gate
\* admits deposits only when all there is is counted (DepositShaman.deposit, _quote).
THEOREM DepositsKeepWorth == TreasurySpec => DepositKeepsWorth
<1>1. TreasuryInv /\ [TreasuryNext]_treasuryVars =>
        [totalShares > 0 /\ totalShares' > totalShares /\ settlement' # settlement =>
           Worth' * (totalShares + liability) >= Worth * (totalShares' + liability')]_treasuryVars
  BY SharesChange, DepositWorth
<1> QED
  BY <1>1, TreasuryInvariant, PTL DEF TreasurySpec, DepositKeepsWorth

\* No exit lowers what a share of those who stay stands for: it pays from the Safe
\* alone, by the supply before the burn, rounded down (Baal._ragequit).
THEOREM ExitsKeepWorth == TreasurySpec => ExitKeepsWorth
<1>1. TreasuryInv /\ [TreasuryNext]_treasuryVars =>
        [totalShares' < totalShares => Worth' * totalShares >= Worth * totalShares']_treasuryVars
  BY SharesChange, ExitWorth
<1> QED
  BY <1>1, TreasuryInvariant, PTL DEF TreasurySpec, ExitKeepsWorth
==============================================================================
