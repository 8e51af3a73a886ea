-------------------------- MODULE NavShares_proofs --------------------------
(***************************************************************************)
(* The inductive invariant of the share token and what follows from it,    *)
(* for every set of members and proposals, every amount, every order of    *)
(* calls and every way of cutting the replay into chunks.  And the search  *)
(* among the checkpoints: it is exact and halves its range at every turn,  *)
(* for every history, so what the code looks up is what the token's model  *)
(* calls Past.                                                             *)
(***************************************************************************)
EXTENDS NavSharesHistory, CheckpointSearch, SumFacts, TLAPS

(***************************************************************************)
(* Facts about the operators.                                              *)
(***************************************************************************)

LEMMA AppendFacts ==
  ASSUME NEW S, NEW s \in Seq(S), NEW e \in S
  PROVE  /\ Append(s, e) \in Seq(S)
         /\ Len(Append(s, e)) = Len(s) + 1
         /\ Len(s) \in Nat
         /\ \A i \in 1..Len(s) : Append(s, e)[i] = s[i]
         /\ Append(s, e)[Len(s) + 1] = e
OBVIOUS

LEMMA AboveFacts ==
  ASSUME NEW x \in Nat, NEW y \in Nat
  PROVE  /\ Above(x, y) \in Nat
         /\ Above(x, y) - Above(y, x) = x - y
BY DEF Above

\* The history of one member after _writeCheckpoint: sorted, its last entry
\* carries the new weight, and no second before the current one is disturbed.
WriteTo(h, t, new) ==
  IF Len(h) # 0 /\ h[Len(h)].fromTimePoint = t
  THEN [h EXCEPT ![Len(h)] = [fromTimePoint |-> t, votes |-> new]]
  ELSE Append(h, [fromTimePoint |-> t, votes |-> new])

SortedUpTo(h, t) ==
  /\ \A i \in 1..Len(h) : h[i].fromTimePoint <= t
  /\ \A i, j \in 1..Len(h) : i < j => h[i].fromTimePoint < h[j].fromTimePoint

LEMMA WriteFacts ==
  ASSUME NEW h \in Seq(Checkpoints), NEW t \in Seconds, NEW new \in Nat,
         SortedUpTo(h, t), NEW h2, h2 = WriteTo(h, t, new)
  PROVE  /\ h2 \in Seq(Checkpoints)
         /\ SortedUpTo(h2, t)
         /\ Len(h2) \in 1..(Len(h) + 1) /\ h2[Len(h2)].votes = new
         /\ \A i \in 1..Len(h2) : IsLatest(h2, i, t) <=> i = Len(h2)
         /\ \A u \in Seconds : u < t =>
              /\ \A i \in 1..Len(h2) : IsLatest(h2, i, u) =>
                   i \in 1..Len(h) /\ IsLatest(h, i, u) /\ h2[i].votes = h[i].votes
              /\ \A i \in 1..Len(h) : IsLatest(h, i, u) =>
                   i \in 1..Len(h2) /\ IsLatest(h2, i, u)
<1> DEFINE e == [fromTimePoint |-> t, votes |-> new]
<1>0. /\ e \in Checkpoints /\ Len(h) \in Nat
      /\ \A i \in 1..Len(h) : h[i] \in Checkpoints
      /\ \A i \in 1..Len(h) : h[i].fromTimePoint \in Nat
      /\ t \in Nat /\ Seconds \subseteq Nat
      /\ e.fromTimePoint = t /\ e.votes = new
  <2>1. t \in Nat /\ Seconds \subseteq Nat
    BY BoundsAssumption DEF Seconds
  <2>2. e \in Checkpoints /\ e.fromTimePoint = t /\ e.votes = new
    BY DEF Checkpoints
  <2>3. Len(h) \in Nat /\ \A i \in 1..Len(h) : h[i] \in Checkpoints
    OBVIOUS
  <2>4. \A i \in 1..Len(h) : h[i].fromTimePoint \in Nat
    BY <2>1, <2>3 DEF Checkpoints
  <2> QED
    BY <2>1, <2>2, <2>3, <2>4
<1>1. CASE Len(h) # 0 /\ h[Len(h)].fromTimePoint = t
  <2>1. h2 = [h EXCEPT ![Len(h)] = e]
    BY <1>1 DEF WriteTo
  <2> HIDE DEF e
  <2>2. /\ h2 \in Seq(Checkpoints) /\ Len(h2) = Len(h)
        /\ h2[Len(h)] = e
        /\ \A i \in 1..Len(h) : i # Len(h) => h2[i] = h[i]
    BY <1>0, <1>1, <2>1
  <2>3. \A i \in 1..Len(h) : h2[i].fromTimePoint = h[i].fromTimePoint
    BY <1>0, <1>1, <2>2
  <2>4. SortedUpTo(h2, t)
    BY <2>2, <2>3 DEF SortedUpTo
  <2>5. \A i \in 1..Len(h2) : IsLatest(h2, i, t) <=> i = Len(h2)
    BY <1>0, <1>1, <2>2, <2>3, <2>4 DEF SortedUpTo, IsLatest
  <2>6. ASSUME NEW u \in Seconds, u < t, NEW i \in 1..Len(h)
        PROVE  /\ IsLatest(h2, i, u) <=> IsLatest(h, i, u)
               /\ IsLatest(h, i, u) => h2[i].votes = h[i].votes
    <3>1. u \in Nat /\ i \in Nat
      BY <1>0
    <3>2. i # Len(h) => i + 1 \in 1..Len(h)
      BY <1>0, <3>1
    <3>3. IsLatest(h2, i, u) <=> IsLatest(h, i, u)
      BY <2>2, <2>3, <3>2 DEF IsLatest
    <3>4. IsLatest(h, i, u) => i # Len(h)
      BY <1>0, <1>1, <2>6, <3>1 DEF IsLatest
    <3> QED
      BY <2>2, <3>3, <3>4
  <2> QED
    BY <1>0, <1>1, <2>2, <2>4, <2>5, <2>6
<1>2. CASE ~(Len(h) # 0 /\ h[Len(h)].fromTimePoint = t)
  <2>1. h2 = Append(h, e)
    BY <1>2 DEF WriteTo
  <2> HIDE DEF e
  <2>2. /\ h2 \in Seq(Checkpoints) /\ Len(h2) = Len(h) + 1
        /\ h2[Len(h) + 1] = e
        /\ \A i \in 1..Len(h) : h2[i] = h[i]
    BY <1>0, <2>1, AppendFacts
  <2>a. h2[Len(h) + 1].fromTimePoint = t /\ h2[Len(h) + 1].votes = new
    BY <1>0, <2>2
  <2>b. Len(h2) = Len(h) + 1 /\ Len(h) + 1 \in 1..Len(h2)
    BY <1>0, <2>2
  <2>3. \A i \in 1..Len(h) : h[i].fromTimePoint < t
    <3> SUFFICES ASSUME NEW i \in 1..Len(h) PROVE h[i].fromTimePoint < t
      OBVIOUS
    <3>1. h[Len(h)].fromTimePoint < t
      BY <1>0, <1>2 DEF SortedUpTo
    <3>2. i # Len(h) => h[i].fromTimePoint < h[Len(h)].fromTimePoint
      BY <1>0 DEF SortedUpTo
    <3> QED
      BY <1>0, <3>1, <3>2
  <2>4. SortedUpTo(h2, t)
    <3>1. ASSUME NEW i \in 1..Len(h2) PROVE h2[i].fromTimePoint <= t
      <4>1. CASE i \in 1..Len(h)
        <5>1. h2[i] = h[i] /\ h[i].fromTimePoint < t /\ h[i].fromTimePoint \in Nat
          BY <1>0, <2>2, <2>3, <4>1
        <5> QED
          BY <1>0, <5>1
      <4>2. CASE i = Len(h) + 1
        BY <1>0, <2>a, <4>2
      <4> QED
        BY <1>0, <2>b, <4>1, <4>2
    <3>2. ASSUME NEW i \in 1..Len(h2), NEW j \in 1..Len(h2), i < j
          PROVE  h2[i].fromTimePoint < h2[j].fromTimePoint
      <4>1. i \in 1..Len(h)
        BY <1>0, <2>2, <3>2
      <4>2. CASE j = Len(h) + 1
        BY <2>2, <2>3, <2>a, <4>1, <4>2
      <4>3. CASE j \in 1..Len(h)
        BY <2>2, <3>2, <4>1, <4>3 DEF SortedUpTo
      <4> QED
        BY <1>0, <2>2, <4>2, <4>3
    <3> QED
      BY <3>1, <3>2 DEF SortedUpTo
  <2>5. \A i \in 1..Len(h2) : IsLatest(h2, i, t) <=> i = Len(h2)
    <3> SUFFICES ASSUME NEW i \in 1..Len(h2)
                 PROVE  IsLatest(h2, i, t) <=> i = Len(h2)
      OBVIOUS
    <3>1. CASE i = Len(h2)
      BY <1>0, <2>a, <2>b, <3>1 DEF IsLatest
    <3>2. CASE i # Len(h2)
      <4>1. i + 1 \in 1..Len(h2)
        BY <1>0, <2>b, <3>2
      <4>2. h2[i + 1].fromTimePoint <= t
        BY <2>4, <4>1 DEF SortedUpTo
      <4>3. h2[i + 1].fromTimePoint \in Nat
        <5>1. h2[i + 1] \in Checkpoints
          BY <2>2, <4>1
        <5> QED
          BY <1>0, <5>1 DEF Checkpoints
      <4> QED
        BY <1>0, <2>b, <3>2, <4>2, <4>3 DEF IsLatest
    <3> QED
      BY <3>1, <3>2
  <2>6. ASSUME NEW u \in Seconds, u < t, NEW i \in 1..Len(h)
        PROVE  IsLatest(h2, i, u) <=> IsLatest(h, i, u)
    <3>1. u \in Nat /\ i \in 1..Len(h2) /\ i # Len(h2)
      BY <1>0, <2>2
    <3>2. CASE i = Len(h)
      BY <1>0, <2>2, <2>6, <3>1, <3>2 DEF IsLatest
    <3>3. CASE i # Len(h)
      <4>1. i + 1 \in 1..Len(h)
        BY <1>0, <3>3
      <4> QED
        BY <1>0, <2>2, <3>1, <3>3, <4>1 DEF IsLatest
    <3> QED
      BY <3>2, <3>3
  <2>7. ASSUME NEW u \in Seconds, u < t
        PROVE  ~IsLatest(h2, Len(h2), u)
    <3>1. u \in Nat
      BY <1>0
    <3> QED
      BY <1>0, <2>a, <2>b, <2>7, <3>1 DEF IsLatest
  <2>8. h2[Len(h2)].votes = new /\ Len(h2) \in 1..(Len(h) + 1)
    BY <1>0, <2>2
  <2>9. \A i \in 1..Len(h2) : i # Len(h2) => i \in 1..Len(h)
    BY <1>0, <2>2
  <2>10. \A i \in 1..Len(h) : i \in 1..Len(h2)
    BY <1>0, <2>2
  <2> QED
    BY <2>2, <2>4, <2>5, <2>6, <2>7, <2>8, <2>9, <2>10
<1> QED
  BY <1>1, <1>2

\* getPastVotes answers what the history variable recorded.
LEMMA PastIsEndOf ==
  ASSUME CheckpointsInv, NEW m \in Members, NEW t \in Seconds, t <= now
  PROVE  Past(checkpoints[m], t) = endOf[t][m]
BY DEF CheckpointsInv, Past

(***************************************************************************)
(* The initial state.                                                      *)
(***************************************************************************)
LEMMA InitInv == HInit => IInv
<1> SUFFICES ASSUME HInit PROVE IInv
  OBVIOUS
<1> USE DEF HInit, Init
<1>0. /\ 1 \in Seconds /\ MaxNow \in Nat
      /\ Len(balanceJournal) = 0
      /\ \A m \in Members : Len(checkpoints[m]) = 0
      /\ \A p \in Proposals : votingStarts[p] = 0 /\ Len(growthTo[p]) = 1 /\ growthTo[p][1] = 0
  BY BoundsAssumption DEF Seconds
<1>1. HTypeOK
  BY <1>0 DEF HTypeOK, TypeOK, Settlements, Idle
<1>2. endOf[now] = balanceOf
  BY <1>0
<1>3. CheckpointsSorted /\ CheckpointsInv
  BY <1>0 DEF CheckpointsSorted, CheckpointsInv
<1>4. GrowthInv
  BY <1>0 DEF GrowthInv, Open, Registered
<1>5. SettlementInv
  BY <1>0 DEF SettlementInv, Idle, Registered
<1> QED
  BY <1>0, <1>1, <1>2, <1>3, <1>4, <1>5 DEF IInv

(***************************************************************************)
(* A mint or a burn.                                                       *)
(***************************************************************************)
LEMMA ChangeStep ==
  ASSUME IInv, NoCall, NEW m \in Members, NEW new \in Nat, NEW supply \in Int,
         supply - totalSupply = new - balanceOf[m], totalBurned' \in Nat,
         ChangeBalance(m, new, supply), RecordChange(m, new)
  PROVE  IInv'
<1> DEFINE r == RecordOf(m, new)
<1> DEFINE n == Len(balanceJournal)
<1>0. /\ HTypeOK /\ TypeOK /\ now \in Seconds /\ now \in Nat /\ Seconds \subseteq Nat
      /\ n \in Nat /\ r \in BalanceRecords
      /\ now' = now /\ votingStarts' = votingStarts /\ settlements' = settlements
      /\ replay' = replay /\ replay = Idle
      /\ balanceOf' = [balanceOf EXCEPT ![m] = new] /\ totalSupply' = supply
      /\ supplyAtTime' = [supplyAtTime EXCEPT ![now] = supply]
  <2>1. HTypeOK /\ TypeOK
    BY DEF IInv, HTypeOK
  <2>2. now \in Seconds /\ now \in Nat /\ Seconds \subseteq Nat /\ n \in Nat
    BY <2>1, BoundsAssumption DEF TypeOK, Seconds
  <2>3. balanceOf[m] \in Nat
    BY <2>1 DEF TypeOK
  <2>4. r \in BalanceRecords
    BY <2>2, <2>3 DEF RecordOf, BalanceRecords
  <2>5. /\ now' = now /\ votingStarts' = votingStarts /\ settlements' = settlements
        /\ replay' = replay /\ replay = Idle
        /\ balanceOf' = [balanceOf EXCEPT ![m] = new] /\ totalSupply' = supply
        /\ supplyAtTime' = [supplyAtTime EXCEPT ![now] = supply]
    BY DEF ChangeBalance, NoCall
  <2> QED
    BY <2>1, <2>2, <2>4, <2>5
<1>1. /\ balanceJournal' \in Seq(BalanceRecords)
      /\ Len(balanceJournal') = n + 1
      /\ \A k \in 1..n : balanceJournal'[k] = balanceJournal[k]
      /\ balanceJournal'[n + 1] = r
  BY <1>0, AppendFacts DEF ChangeBalance, TypeOK
<1>2. endOf' = [endOf EXCEPT ![now] = [@ EXCEPT ![m] = new]]
  BY DEF RecordChange
<1>3. /\ endOf' \in [Seconds -> [Members -> Nat]]
      /\ endOf'[now'] = balanceOf'
      /\ \A t \in Seconds : t # now => endOf'[t] = endOf[t]
      /\ \A x \in Members : x # m => endOf'[now][x] = endOf[now][x]
      /\ endOf'[now][m] = new
  BY <1>0, <1>2 DEF IInv, HTypeOK, TypeOK
<1> HIDE DEF r, n
<1>4. \A x \in Members :
        /\ checkpoints'[x] \in Seq(Checkpoints)
        /\ x # m => checkpoints'[x] = checkpoints[x]
  <2>1. checkpoints'[m] = WriteTo(checkpoints[m], now, new)
    BY <1>0 DEF ChangeBalance, WriteCheckpoint, WriteTo, TypeOK
  <2>2. \A x \in Members : x # m => checkpoints'[x] = checkpoints[x]
    BY <1>0 DEF ChangeBalance, WriteCheckpoint, TypeOK
  <2>3. checkpoints[m] \in Seq(Checkpoints) /\ SortedUpTo(checkpoints[m], now)
    BY <1>0 DEF TypeOK, IInv, CheckpointsSorted, SortedUpTo
  <2>4. checkpoints'[m] \in Seq(Checkpoints)
    BY <1>0, <2>1, <2>3, WriteFacts
  <2> QED
    BY <1>0, <2>2, <2>4 DEF TypeOK
<1>5. CheckpointsSorted' /\ CheckpointsInv'
  <2> DEFINE h == checkpoints[m]
             h2 == checkpoints'[m]
  <2>1. h2 = WriteTo(h, now, new)
    BY <1>0 DEF ChangeBalance, WriteCheckpoint, WriteTo, TypeOK
  <2>2. h \in Seq(Checkpoints) /\ SortedUpTo(h, now)
    BY <1>0 DEF TypeOK, IInv, CheckpointsSorted, SortedUpTo
  <2>3. /\ SortedUpTo(h2, now)
        /\ Len(h2) \in 1..(Len(h) + 1) /\ h2[Len(h2)].votes = new
        /\ \A i \in 1..Len(h2) : IsLatest(h2, i, now) <=> i = Len(h2)
        /\ \A u \in Seconds : u < now =>
             /\ \A i \in 1..Len(h2) : IsLatest(h2, i, u) =>
                  i \in 1..Len(h) /\ IsLatest(h, i, u) /\ h2[i].votes = h[i].votes
             /\ \A i \in 1..Len(h) : IsLatest(h, i, u) =>
                  i \in 1..Len(h2) /\ IsLatest(h2, i, u)
    <3> HIDE DEF h, h2
    <3> QED
      BY <1>0, <2>1, <2>2, WriteFacts
  <2>4. CheckpointsSorted'
    BY <1>0, <1>4, <2>3 DEF CheckpointsSorted, SortedUpTo, IInv
  <2>5. CheckpointsInv'
    <3> SUFFICES ASSUME NEW x \in Members, NEW t \in Seconds, t <= now
                 PROVE  IF \E i \in 1..Len(checkpoints'[x]) : IsLatest(checkpoints'[x], i, t)
                        THEN \A i \in 1..Len(checkpoints'[x]) :
                               IsLatest(checkpoints'[x], i, t)
                                 => checkpoints'[x][i].votes = endOf'[t][x]
                        ELSE endOf'[t][x] = 0
      BY <1>0 DEF CheckpointsInv
    <3>0. IF \E i \in 1..Len(checkpoints[x]) : IsLatest(checkpoints[x], i, t)
          THEN \A i \in 1..Len(checkpoints[x]) :
                 IsLatest(checkpoints[x], i, t) => checkpoints[x][i].votes = endOf[t][x]
          ELSE endOf[t][x] = 0
      BY DEF IInv, CheckpointsInv
    <3>1. CASE x # m
      <4>1. endOf'[t][x] = endOf[t][x]
        BY <1>3, <3>1
      <4>2. checkpoints'[x] = checkpoints[x]
        BY <1>4, <3>1
      <4> QED
        BY <3>0, <4>1, <4>2
    <3>2. CASE x = m /\ t = now
      <4>1. Len(h2) \in 1..Len(h2)
        BY <1>0, <2>2, <2>3
      <4> QED
        BY <1>3, <2>3, <3>2, <4>1
    <3>3. CASE x = m /\ t # now
      <4>1. t < now /\ endOf'[t] = endOf[t]
        <5>1. t \in Nat /\ now \in Nat /\ t # now /\ t <= now
          BY <1>0, <3>3
        <5>2. t < now
          BY <5>1
        <5> QED
          BY <1>3, <5>1, <5>2
      <4> QED
        BY <2>3, <3>0, <3>3, <4>1
    <3> QED
      BY <3>1, <3>2, <3>3
  <2> QED
    BY <2>4, <2>5
<1>6. \A k \in 1..Len(balanceJournal') : balanceJournal'[k].timePoint <= now'
  <2> SUFFICES ASSUME NEW k \in 1..Len(balanceJournal')
               PROVE  balanceJournal'[k].timePoint <= now
    BY <1>0
  <2>1. CASE k = n + 1
    BY <1>0, <1>1, <2>1 DEF r, RecordOf
  <2>2. CASE k # n + 1
    <3>1. k \in 1..n
      BY <1>0, <1>1, <2>2
    <3> QED
      BY <1>1, <3>1 DEF IInv, n
  <2> QED
    BY <2>1, <2>2
<1>7. ASSUME NEW p \in Proposals
      PROVE  /\ growthTo'[p] \in Seq(Int)
             /\ Len(growthTo[p]) = n + 1 /\ Len(growthTo'[p]) = n + 2
             /\ \A k \in 1..(n + 1) : growthTo'[p][k] = growthTo[p][k] /\ growthTo[p][k] \in Int
             /\ Open(p) => growthTo'[p][n + 2] = growthTo[p][n + 1]
                             + Above(new, endOf[votingStarts[p]][m])
                             - Above(balanceOf[m], endOf[votingStarts[p]][m])
             /\ ~Open(p) => growthTo'[p][n + 2] = growthTo[p][n + 1]
             /\ deficit'[p] \in Int
             /\ Open(p) => deficit'[p] = deficit[p]
                             - Above(endOf[votingStarts[p]][m], balanceOf[m])
                             + Above(endOf[votingStarts[p]][m], new)
             /\ ~Open(p) => deficit'[p] = 0
  <2>1. growthTo[p] \in Seq(Int) /\ Len(growthTo[p]) = n + 1 /\ deficit[p] \in Int
    BY <1>0 DEF HTypeOK, IInv, GrowthInv, n
  <2>2. Open(p) => /\ endOf[votingStarts[p]][m] \in Nat
    BY <1>0 DEF HTypeOK, TypeOK, Open, Registered, Seconds
  <2>3. balanceOf[m] \in Nat
    BY <1>0 DEF TypeOK
  <2> DEFINE g == IF Open(p)
                  THEN growthTo[p][n + 1] + Above(new, endOf[votingStarts[p]][m])
                         - Above(balanceOf[m], endOf[votingStarts[p]][m])
                  ELSE growthTo[p][n + 1]
  <2>4. growthTo[p][n + 1] \in Int
    BY <1>0, <2>1
  <2>5. /\ Open(p) => /\ Above(new, endOf[votingStarts[p]][m]) \in Nat
                      /\ Above(balanceOf[m], endOf[votingStarts[p]][m]) \in Nat
                      /\ Above(endOf[votingStarts[p]][m], balanceOf[m]) \in Nat
                      /\ Above(endOf[votingStarts[p]][m], new) \in Nat
        /\ g \in Int
    <3>1. ASSUME NEW b \in Nat, NEW o \in Nat
          PROVE  /\ Above(new, b) \in Nat /\ Above(o, b) \in Nat
                 /\ Above(b, o) \in Nat /\ Above(b, new) \in Nat
      BY AboveFacts
    <3>2. Open(p) => /\ Above(new, endOf[votingStarts[p]][m]) \in Nat
                     /\ Above(balanceOf[m], endOf[votingStarts[p]][m]) \in Nat
                     /\ Above(endOf[votingStarts[p]][m], balanceOf[m]) \in Nat
                     /\ Above(endOf[votingStarts[p]][m], new) \in Nat
      BY <2>2, <2>3, <3>1
    <3> QED
      BY <2>4, <3>2
  <2>6. growthTo'[p] = Append(growthTo[p], g)
    BY DEF RecordChange, n
  <2>7. deficit'[p] = IF Open(p)
                      THEN deficit[p] - Above(endOf[votingStarts[p]][m], balanceOf[m])
                             + Above(endOf[votingStarts[p]][m], new)
                      ELSE 0
    BY DEF RecordChange
  <2>8. deficit'[p] \in Int
    BY <2>1, <2>5, <2>7
  <2> HIDE DEF g
  <2>9. /\ growthTo'[p] \in Seq(Int) /\ Len(growthTo'[p]) = n + 2
        /\ \A k \in 1..(n + 1) : growthTo'[p][k] = growthTo[p][k] /\ growthTo[p][k] \in Int
        /\ growthTo'[p][n + 2] = g
    BY SMTT(30), <1>0, <2>1, <2>5, <2>6
  <2> QED
    BY <2>1, <2>7, <2>8, <2>9 DEF g
<1>8. HTypeOK'
  <2>1. TypeOK'
    <3>1. checkpoints' \in [Members -> Seq(Checkpoints)]
      BY <1>0, <1>4 DEF ChangeBalance, WriteCheckpoint, TypeOK
    <3> QED
      BY <1>0, <1>1, <3>1 DEF TypeOK
  <2>2. deficit' \in [Proposals -> Int]
    BY <1>7 DEF RecordChange
  <2>3. growthTo' \in [Proposals -> Seq(Int)]
    BY <1>7 DEF RecordChange
  <2> QED
    BY <1>3, <2>1, <2>2, <2>3 DEF HTypeOK
<1>9. GrowthInv'
  <2> SUFFICES ASSUME NEW p \in Proposals
               PROVE  /\ Len(growthTo'[p]) = Len(balanceJournal') + 1
                      /\ votingStarts[p] <= now
                      /\ ~Open(p) => /\ deficit'[p] = 0
                                     /\ \A k \in 1..Len(growthTo'[p]) : growthTo'[p][k] = 0
                      /\ votingStarts[p] = now => supplyAtTime'[now] = totalSupply'
                      /\ Open(p) => supplyAtTime'[votingStarts[p]]
                                      + growthTo'[p][Len(balanceJournal') + 1]
                                      - deficit'[p] = totalSupply'
                      /\ Open(p) => \A k \in 1..Len(balanceJournal') :
                           growthTo'[p][k + 1] = growthTo'[p][k] + Delta(p, balanceJournal[k])'
    BY <1>0 DEF GrowthInv, Open, Registered
  <2>0. /\ votingStarts[p] <= now /\ votingStarts[p] \in Nat
        /\ ~Open(p) => \A k \in 1..Len(growthTo[p]) : growthTo[p][k] = 0
        /\ Open(p) => supplyAtTime[votingStarts[p]] + growthTo[p][n + 1] - deficit[p] = totalSupply
        /\ Open(p) => \A k \in 1..n :
             growthTo[p][k + 1] = growthTo[p][k] + Delta(p, balanceJournal[k])
        /\ Open(p) => votingStarts[p] \in Seconds /\ votingStarts[p] < now
        /\ balanceOf[m] \in Nat /\ totalSupply \in Int /\ deficit[p] \in Int
    <3>1. /\ votingStarts[p] \in Nat /\ now \in Seconds /\ balanceOf[m] \in Nat /\ totalSupply \in Int
          /\ deficit[p] \in Int /\ GrowthInv
      BY <1>0 DEF IInv, HTypeOK, TypeOK
    <3>2. /\ votingStarts[p] <= now
          /\ ~Open(p) => \A k \in 1..Len(growthTo[p]) : growthTo[p][k] = 0
          /\ Open(p) => supplyAtTime[votingStarts[p]] + growthTo[p][n + 1] - deficit[p] = totalSupply
          /\ Open(p) => \A k \in 1..n :
               growthTo[p][k + 1] = growthTo[p][k] + Delta(p, balanceJournal[k])
      BY <3>1 DEF GrowthInv, n
    <3>3. Open(p) => votingStarts[p] \in Seconds /\ votingStarts[p] < now
      <4>1. ASSUME Open(p) PROVE votingStarts[p] # 0 /\ votingStarts[p] < now
        BY <4>1 DEF Open, Registered
      <4> QED
        BY <3>1, <4>1, BoundsAssumption DEF Seconds
    <3> QED
      BY <3>1, <3>2, <3>3
  <2>1. Len(growthTo'[p]) = Len(balanceJournal') + 1
    BY <1>0, <1>1, <1>7
  <2>2. ~Open(p) => /\ deficit'[p] = 0
                    /\ \A k \in 1..Len(growthTo'[p]) : growthTo'[p][k] = 0
    <3> SUFFICES ASSUME ~Open(p), NEW k \in 1..(n + 2)
                 PROVE  growthTo'[p][k] = 0
      BY <1>7
    <3>1. \A j \in 1..(n + 1) : growthTo[p][j] = 0
      BY <1>7, <2>0
    <3>2. CASE k = n + 2
      <4>1. n + 1 \in 1..(n + 1)
        BY <1>0
      <4> QED
        BY <1>7, <3>1, <3>2, <4>1
    <3>3. CASE k # n + 2
      <4>1. k \in 1..(n + 1)
        BY <1>0, <3>3
      <4> QED
        BY <1>7, <3>1, <4>1
    <3> QED
      BY <3>2, <3>3
  <2>3. votingStarts[p] = now => supplyAtTime'[now] = totalSupply'
    BY <1>0 DEF TypeOK
  <2>4. ASSUME Open(p)
        PROVE  supplyAtTime'[votingStarts[p]] + growthTo'[p][n + 2] - deficit'[p] = totalSupply'
    <3>1. supplyAtTime'[votingStarts[p]] = supplyAtTime[votingStarts[p]]
      BY <1>0, <2>0, <2>4 DEF TypeOK
    <3>2. supplyAtTime[votingStarts[p]] \in Int /\ endOf[votingStarts[p]][m] \in Nat
      BY <1>0, <2>0, <2>4 DEF TypeOK, HTypeOK
    <3>3. growthTo[p][n + 1] \in Int
      <4>1. n + 1 \in 1..(n + 1)
        BY <1>0
      <4> QED
        BY <1>7, <4>1
    <3> DEFINE b == endOf[votingStarts[p]][m]
               o == balanceOf[m]
    <3>4. b \in Nat /\ o \in Nat
      BY <2>0, <3>2
    <3>5. /\ Above(new, b) \in Nat /\ Above(b, new) \in Nat
          /\ Above(o, b) \in Nat /\ Above(b, o) \in Nat
          /\ Above(new, b) - Above(b, new) = new - b
          /\ Above(o, b) - Above(b, o) = o - b
      <4> HIDE DEF b, o
      <4> QED
        BY <3>4, AboveFacts
    <3>6. /\ growthTo'[p][n + 2] = growthTo[p][n + 1] + Above(new, b) - Above(o, b)
          /\ deficit'[p] = deficit[p] - Above(b, o) + Above(b, new)
      BY <1>7, <2>4
    <3>7. supplyAtTime[votingStarts[p]] + growthTo[p][n + 1] - deficit[p] = totalSupply
      BY <2>0, <2>4
    <3>8. supply - totalSupply = new - o /\ totalSupply' = supply
      BY <1>0
    <3>9. totalSupply \in Int /\ deficit[p] \in Int
      BY <2>0
    <3> DEFINE s0 == supplyAtTime[votingStarts[p]]
               g0 == growthTo[p][n + 1]
    <3>10. /\ s0 \in Int /\ g0 \in Int /\ s0 + g0 - deficit[p] = totalSupply
           /\ supplyAtTime'[votingStarts[p]] = s0
           /\ growthTo'[p][n + 2] = g0 + Above(new, b) - Above(o, b)
      BY <3>1, <3>2, <3>3, <3>6, <3>7
    <3> HIDE DEF b, o, s0, g0
    <3>11. s0 + (g0 + Above(new, b) - Above(o, b))
             - (deficit[p] - Above(b, o) + Above(b, new)) = supply
      BY <3>4, <3>5, <3>8, <3>9, <3>10
    <3> QED
      BY <3>6, <3>8, <3>10, <3>11
  <2>5. ASSUME Open(p), NEW k \in 1..(n + 1)
        PROVE  growthTo'[p][k + 1] = growthTo'[p][k] + Delta(p, balanceJournal[k])'
    <3>1. endOf'[votingStarts[p]] = endOf[votingStarts[p]]
      BY <1>0, <1>3, <2>0, <2>5
    <3>2. CASE k = n + 1
      <4>1. Delta(p, balanceJournal[k])' = Above(new, endOf[votingStarts[p]][m])
                                            - Above(balanceOf[m], endOf[votingStarts[p]][m])
        <5>1. balanceJournal'[k] = r
          BY <1>1, <3>2
        <5>2. /\ r.timePoint = now /\ r.account = m
              /\ r.beforeBalance = balanceOf[m] /\ r.afterBalance = new
          BY DEF r, RecordOf
        <5>3. ~(now <= votingStarts[p]) /\ votingStarts' = votingStarts
          BY <1>0, <2>0, <2>5
        <5>4. endOf'[votingStarts'[p]] = endOf[votingStarts[p]]
          BY <3>1, <5>3
        <5> HIDE DEF r
        <5>5. Delta(p, balanceJournal[k])' =
                Above(r.afterBalance, endOf[votingStarts[p]][r.account])
                - Above(r.beforeBalance, endOf[votingStarts[p]][r.account])
          BY <5>1, <5>2, <5>3, <5>4 DEF Delta, Above
        <5> QED
          BY <5>2, <5>5
      <4>2. growthTo'[p][n + 1] = growthTo[p][n + 1]
        <5>1. n + 1 \in 1..(n + 1)
          BY <1>0
        <5> QED
          BY <1>7, <5>1
      <4>3. growthTo[p][n + 1] \in Int /\ k + 1 = n + 2
        <5>1. n + 1 \in 1..(n + 1) /\ k + 1 = n + 2
          BY <1>0, <3>2
        <5> QED
          BY <1>7, <5>1
      <4>4. growthTo'[p][n + 2] = growthTo[p][n + 1]
                             + Above(new, endOf[votingStarts[p]][m])
                             - Above(balanceOf[m], endOf[votingStarts[p]][m])
        BY <1>7, <2>5
      <4>5. endOf[votingStarts[p]][m] \in Nat
        BY <1>0, <2>0, <2>5 DEF HTypeOK
      <4>6. /\ Above(new, endOf[votingStarts[p]][m]) \in Nat
            /\ Above(balanceOf[m], endOf[votingStarts[p]][m]) \in Nat
        <5>1. ASSUME NEW b \in Nat, NEW o \in Nat
              PROVE  Above(new, b) \in Nat /\ Above(o, b) \in Nat
          BY AboveFacts
        <5>2. balanceOf[m] \in Nat
          BY <2>0
        <5> QED
          BY <4>5, <5>1, <5>2
      <4> QED
        BY <3>2, <4>1, <4>2, <4>3, <4>4, <4>6
    <3>3. CASE k # n + 1
      <4>1. k \in 1..n /\ k + 1 \in 1..(n + 1) /\ k \in 1..(n + 1)
        BY <1>0, <3>3
      <4>2. Delta(p, balanceJournal[k])' = Delta(p, balanceJournal[k])
        BY <1>0, <1>1, <3>1, <4>1 DEF Delta
      <4> QED
        BY <1>7, <2>0, <2>5, <4>1, <4>2
    <3> QED
      BY <3>2, <3>3
  <2> QED
    BY <1>0, <1>1, <2>0, <2>1, <2>2, <2>3, <2>4, <2>5
<1>10. SettlementInv'
  <2>1. ~replay'.running
    BY <1>0 DEF Idle
  <2>2. ASSUME NEW p \in Proposals
        PROVE  /\ settlements[p].cursor <= n + 1
               /\ settlements[p].growth = growthTo'[p][settlements[p].cursor + 1]
               /\ ~Registered(p) => settlements[p].cursor = 0
    <3>1. /\ settlements[p].cursor \in Nat /\ settlements[p].cursor <= n
          /\ settlements[p].growth = growthTo[p][settlements[p].cursor + 1]
          /\ ~Registered(p) => settlements[p].cursor = 0
      BY <1>0 DEF IInv, SettlementInv, TypeOK, Settlements, n
    <3>2. settlements[p].cursor + 1 \in 1..(n + 1) /\ n \in Nat
      BY <1>0, <3>1
    <3>3. growthTo'[p][settlements[p].cursor + 1] = growthTo[p][settlements[p].cursor + 1]
      BY <1>7, <3>2
    <3> QED
      BY <3>1, <3>2, <3>3
  <2> QED
    BY <1>0, <1>1, <2>1, <2>2 DEF SettlementInv, Registered
<1> QED
  BY <1>3, <1>5, <1>6, <1>8, <1>9, <1>10 DEF IInv

(***************************************************************************)
(* The other steps.                                                        *)
(***************************************************************************)

\* What the steps below read of the types.
LEMMA TypeFacts ==
  ASSUME IInv
  PROVE  /\ now \in Nat /\ now \in Seconds /\ MaxNow \in Nat /\ Seconds \subseteq Nat
         /\ Len(balanceJournal) \in Nat /\ totalSupply \in Int
         /\ \A p \in Proposals :
              /\ votingStarts[p] \in Nat /\ votingStarts[p] <= now
              /\ votingStarts[p] # 0 => votingStarts[p] \in Seconds
              /\ deficit[p] \in Int
              /\ Len(growthTo[p]) = Len(balanceJournal) + 1
              /\ \A k \in 1..(Len(balanceJournal) + 1) : growthTo[p][k] \in Int
         /\ \A m \in Members :
              /\ Len(checkpoints[m]) \in Nat
              /\ \A i \in 1..Len(checkpoints[m]) : checkpoints[m][i].fromTimePoint \in Nat
         /\ \A k \in 1..Len(balanceJournal) :
              /\ balanceJournal[k].timePoint \in Nat
              /\ balanceJournal[k].timePoint <= now
              /\ balanceJournal[k].account \in Members
<1>0. HTypeOK /\ TypeOK /\ GrowthInv
  BY DEF IInv, HTypeOK
<1>1. /\ now \in Nat /\ now \in Seconds /\ MaxNow \in Nat /\ Seconds \subseteq Nat
      /\ Len(balanceJournal) \in Nat /\ totalSupply \in Int
  BY <1>0, BoundsAssumption DEF TypeOK, Seconds
<1>2. ASSUME NEW p \in Proposals
      PROVE  /\ votingStarts[p] \in Nat /\ votingStarts[p] <= now
             /\ votingStarts[p] # 0 => votingStarts[p] \in Seconds
             /\ deficit[p] \in Int
             /\ Len(growthTo[p]) = Len(balanceJournal) + 1
             /\ \A k \in 1..(Len(balanceJournal) + 1) : growthTo[p][k] \in Int
  <2>1. growthTo[p] \in Seq(Int) /\ Len(growthTo[p]) = Len(balanceJournal) + 1
    BY <1>0 DEF HTypeOK, GrowthInv
  <2>2. votingStarts[p] \in 0..MaxNow /\ votingStarts[p] <= now /\ deficit[p] \in Int
    BY <1>0 DEF HTypeOK, TypeOK, GrowthInv
  <2>3. \A k \in 1..(Len(balanceJournal) + 1) : growthTo[p][k] \in Int
    BY <1>1, <2>1
  <2> QED
    BY <1>1, <2>1, <2>2, <2>3 DEF Seconds
<1>3. ASSUME NEW m \in Members
      PROVE  /\ Len(checkpoints[m]) \in Nat
             /\ \A i \in 1..Len(checkpoints[m]) : checkpoints[m][i].fromTimePoint \in Nat
  <2>1. checkpoints[m] \in Seq(Checkpoints)
    BY <1>0 DEF TypeOK
  <2>2. \A i \in 1..Len(checkpoints[m]) : checkpoints[m][i] \in Checkpoints
    BY <2>1
  <2>3. \A c \in Checkpoints : c.fromTimePoint \in Nat
    BY <1>1 DEF Checkpoints
  <2> QED
    BY <2>1, <2>2, <2>3
<1>4. ASSUME NEW k \in 1..Len(balanceJournal)
      PROVE  /\ balanceJournal[k].timePoint \in Nat
             /\ balanceJournal[k].timePoint <= now
             /\ balanceJournal[k].account \in Members
  <2>1. balanceJournal[k] \in BalanceRecords
    BY <1>0 DEF TypeOK
  <2>2. balanceJournal[k].timePoint <= now
    BY DEF IInv
  <2> QED
    BY <1>1, <2>1, <2>2 DEF BalanceRecords
<1> QED
  BY <1>1, <1>2, <1>3, <1>4

\* The next second: the windows of the proposals sponsored in the last one open.
LEMMA TickStep ==
  ASSUME IInv, HTick
  PROVE  IInv'
<1>0. /\ now' = now + 1 /\ now < MaxNow /\ replay = Idle
      /\ endOf' = [endOf EXCEPT ![now + 1] = endOf[now]]
      /\ UNCHANGED <<balanceOf, totalSupply, totalBurned, balanceJournal, checkpoints,
                     supplyAtTime, votingStarts, settlements, replay, deficit, growthTo>>
  BY DEF HTick, Tick, NoCall
<1>1. HTypeOK /\ TypeOK
  BY DEF IInv, HTypeOK
<1>2. now' \in Seconds /\ now + 1 \in Seconds
  BY <1>0, TypeFacts DEF Seconds
<1>3. /\ endOf' \in [Seconds -> [Members -> Nat]]
      /\ endOf'[now + 1] = endOf[now]
      /\ \A t \in Seconds : t <= now => endOf'[t] = endOf[t]
  <2>1. \A t \in Seconds : t <= now => t # now + 1
    BY TypeFacts
  <2> QED
    BY <1>0, <1>1, <1>2, <2>1, TypeFacts DEF HTypeOK
<1>4. HTypeOK'
  BY <1>0, <1>1, <1>2, <1>3 DEF HTypeOK, TypeOK
<1>5. endOf'[now'] = balanceOf'
  BY <1>0, <1>3 DEF IInv
<1>6. \A k \in 1..Len(balanceJournal') : balanceJournal'[k].timePoint <= now'
  BY <1>0, TypeFacts
<1>7. CheckpointsSorted'
  <2>1. \A m \in Members : \A i \in 1..Len(checkpoints[m]) :
          checkpoints[m][i].fromTimePoint <= now + 1
    BY TypeFacts DEF IInv, CheckpointsSorted
  <2> QED
    BY <1>0, <2>1 DEF IInv, CheckpointsSorted
<1>8. CheckpointsInv'
  <2> SUFFICES ASSUME NEW m \in Members, NEW t \in Seconds, t <= now + 1
               PROVE  IF \E i \in 1..Len(checkpoints[m]) : IsLatest(checkpoints[m], i, t)
                      THEN \A i \in 1..Len(checkpoints[m]) :
                             IsLatest(checkpoints[m], i, t)
                               => checkpoints[m][i].votes = endOf'[t][m]
                      ELSE endOf'[t][m] = 0
    BY <1>0 DEF CheckpointsInv
  <2>0. \A u \in Seconds : u <= now =>
          IF \E i \in 1..Len(checkpoints[m]) : IsLatest(checkpoints[m], i, u)
          THEN \A i \in 1..Len(checkpoints[m]) :
                 IsLatest(checkpoints[m], i, u) => checkpoints[m][i].votes = endOf[u][m]
          ELSE endOf[u][m] = 0
    BY DEF IInv, CheckpointsInv
  <2>1. CASE t <= now
    BY <1>3, <2>0, <2>1
  <2>2. CASE t = now + 1
    <3>1. ASSUME NEW i \in 1..Len(checkpoints[m])
          PROVE  IsLatest(checkpoints[m], i, t) <=> IsLatest(checkpoints[m], i, now)
      <4>1. \A j \in 1..Len(checkpoints[m]) :
              /\ checkpoints[m][j].fromTimePoint \in Nat
              /\ checkpoints[m][j].fromTimePoint <= now
        BY TypeFacts DEF IInv, CheckpointsSorted
      <4>2. i # Len(checkpoints[m]) => i + 1 \in 1..Len(checkpoints[m])
        BY TypeFacts
      <4> QED
        BY SMTT(30), <2>2, <4>1, <4>2, TypeFacts DEF IsLatest
    <3>2. endOf'[t][m] = endOf[now][m] /\ now \in Seconds /\ now <= now
      BY <1>3, <2>2, TypeFacts
    <3> QED
      BY <2>0, <3>1, <3>2
  <2> QED
    BY <2>1, <2>2, TypeFacts
<1>9. GrowthInv'
  <2> SUFFICES ASSUME NEW p \in Proposals
               PROVE  /\ Len(growthTo[p]) = Len(balanceJournal) + 1
                      /\ votingStarts[p] <= now + 1
                      /\ ~Open(p)' => /\ deficit[p] = 0
                                      /\ \A k \in 1..Len(growthTo[p]) : growthTo[p][k] = 0
                      /\ votingStarts[p] = now + 1 => supplyAtTime[now + 1] = totalSupply
                      /\ Open(p)' => supplyAtTime[votingStarts[p]]
                                      + growthTo[p][Len(balanceJournal) + 1]
                                      - deficit[p] = totalSupply
                      /\ Open(p)' => \A k \in 1..Len(balanceJournal) :
                           growthTo[p][k + 1] = growthTo[p][k] + Delta(p, balanceJournal[k])'
    BY <1>0 DEF GrowthInv
  <2>0. /\ Len(growthTo[p]) = Len(balanceJournal) + 1
        /\ ~Open(p) => /\ deficit[p] = 0
                       /\ \A k \in 1..Len(growthTo[p]) : growthTo[p][k] = 0
        /\ votingStarts[p] = now => supplyAtTime[now] = totalSupply
        /\ Open(p) => supplyAtTime[votingStarts[p]]
                        + growthTo[p][Len(balanceJournal) + 1] - deficit[p] = totalSupply
        /\ Open(p) => \A k \in 1..Len(balanceJournal) :
             growthTo[p][k + 1] = growthTo[p][k] + Delta(p, balanceJournal[k])
    BY DEF IInv, GrowthInv
  <2>1. votingStarts[p] <= now + 1 /\ votingStarts[p] # now + 1
    BY TypeFacts
  <2>2. CASE Open(p)
    <3>1. endOf'[votingStarts[p]] = endOf[votingStarts[p]]
      BY <1>3, <2>2, TypeFacts DEF Open, Registered
    <3>2. \A k \in 1..Len(balanceJournal) :
            Delta(p, balanceJournal[k])' = Delta(p, balanceJournal[k])
      BY <1>0, <3>1 DEF Delta
    <3>3. Open(p)'
      BY <1>0, <2>2, TypeFacts DEF Open, Registered
    <3> QED
      BY <2>0, <2>1, <2>2, <3>2, <3>3
  <2>3. CASE ~Open(p) /\ votingStarts[p] # now
    <3>1. ~Open(p)'
      BY <1>0, <2>3, TypeFacts DEF Open, Registered
    <3> QED
      BY <2>0, <2>1, <2>3, <3>1
  <2>4. CASE ~Open(p) /\ votingStarts[p] = now
    <3>1. Open(p)'
      BY <1>0, <2>4, TypeFacts DEF Open, Registered, Seconds
    <3>2. ASSUME NEW k \in 1..Len(balanceJournal)
          PROVE  Delta(p, balanceJournal[k])' = 0
      <4>1. balanceJournal[k].timePoint <= votingStarts[p]
        BY <2>4, TypeFacts
      <4> QED
        BY <1>0, <4>1 DEF Delta
    <3>3. \A k \in 1..(Len(balanceJournal) + 1) : growthTo[p][k] = 0
      BY <2>0, <2>4
    <3>4. \A k \in 1..Len(balanceJournal) :
            k \in 1..(Len(balanceJournal) + 1) /\ k + 1 \in 1..(Len(balanceJournal) + 1)
      BY TypeFacts
    <3>5. growthTo[p][Len(balanceJournal) + 1] = 0
      BY <3>3, TypeFacts
    <3>6. supplyAtTime[votingStarts[p]] = totalSupply /\ deficit[p] = 0
      BY <2>0, <2>4
    <3>7. ASSUME NEW k \in 1..Len(balanceJournal)
          PROVE  growthTo[p][k + 1] = growthTo[p][k] + Delta(p, balanceJournal[k])'
      <4>1. growthTo[p][k] = 0 /\ growthTo[p][k + 1] = 0
        BY <3>3, <3>4
      <4> QED
        BY <3>2, <4>1
    <3>8. supplyAtTime[votingStarts[p]] + growthTo[p][Len(balanceJournal) + 1] - deficit[p]
            = totalSupply
      BY <3>5, <3>6, TypeFacts
    <3> QED
      BY <2>0, <2>1, <3>1, <3>7, <3>8
  <2> QED
    BY <2>2, <2>3, <2>4
<1>10. SettlementInv'
  <2>1. ~replay'.running
    BY <1>0 DEF Idle
  <2> QED
    BY <1>0, <2>1 DEF IInv, SettlementInv, Registered
<1> QED
  BY <1>4, <1>5, <1>6, <1>7, <1>8, <1>9, <1>10 DEF IInv

\* Registering a proposal leaves every other window alone.
LEMMA RegisterStep ==
  ASSUME IInv, NEW p \in Proposals, HRegisterProposal(p)
  PROVE  IInv'
<1>0. /\ votingStarts[p] = 0
      /\ votingStarts' = [votingStarts EXCEPT ![p] = now]
      /\ settlements' = [settlements EXCEPT ![p].cursor = Len(balanceJournal)]
      /\ supplyAtTime' = [supplyAtTime EXCEPT ![now] = totalSupply]
      /\ replay = Idle
      /\ UNCHANGED <<now, balanceOf, totalSupply, totalBurned, balanceJournal, checkpoints,
                     replay, endOf, deficit, growthTo>>
  BY DEF HRegisterProposal, RegisterProposal, history, NoCall, Registered
<1>1. HTypeOK /\ TypeOK
  BY DEF IInv, HTypeOK
<1>2. /\ votingStarts' \in [Proposals -> 0..MaxNow]
      /\ votingStarts'[p] = now
      /\ \A q \in Proposals : q # p => votingStarts'[q] = votingStarts[q]
  BY <1>0, <1>1, TypeFacts DEF TypeOK, Seconds
<1>3. /\ supplyAtTime' \in [Seconds -> Int]
      /\ supplyAtTime'[now] = totalSupply
      /\ \A t \in Seconds : t # now => supplyAtTime'[t] = supplyAtTime[t]
  BY <1>0, <1>1, TypeFacts DEF TypeOK
<1>4. /\ settlements' \in [Proposals -> Settlements]
      /\ settlements'[p].cursor = Len(balanceJournal)
      /\ settlements'[p].growth = settlements[p].growth
      /\ \A q \in Proposals : q # p => settlements'[q] = settlements[q]
  BY <1>0, <1>1, TypeFacts DEF TypeOK, Settlements
<1>5. HTypeOK'
  BY <1>0, <1>1, <1>2, <1>3, <1>4 DEF HTypeOK, TypeOK
<1>6. CheckpointsSorted' /\ CheckpointsInv'
  BY <1>0 DEF IInv, CheckpointsSorted, CheckpointsInv
<1>7. ~Open(p) /\ ~Open(p)'
  BY <1>0, <1>2, TypeFacts DEF Open, Registered
<1>8. \A q \in Proposals : q # p => (Open(q)' <=> Open(q))
  BY <1>0, <1>2 DEF Open, Registered
<1>9. /\ deficit[p] = 0
      /\ \A k \in 1..(Len(balanceJournal) + 1) : growthTo[p][k] = 0
  BY <1>7 DEF IInv, GrowthInv
<1>10. GrowthInv'
  <2> SUFFICES ASSUME NEW q \in Proposals
               PROVE  /\ Len(growthTo[q]) = Len(balanceJournal) + 1
                      /\ votingStarts'[q] <= now
                      /\ ~Open(q)' => /\ deficit[q] = 0
                                      /\ \A k \in 1..Len(growthTo[q]) : growthTo[q][k] = 0
                      /\ votingStarts'[q] = now => supplyAtTime'[now] = totalSupply
                      /\ Open(q)' => supplyAtTime'[votingStarts'[q]]
                                      + growthTo[q][Len(balanceJournal) + 1]
                                      - deficit[q] = totalSupply
                      /\ Open(q)' => \A k \in 1..Len(balanceJournal) :
                           growthTo[q][k + 1] = growthTo[q][k] + Delta(q, balanceJournal[k])'
    BY <1>0 DEF GrowthInv
  <2>1. CASE q = p
    BY <1>2, <1>3, <1>7, <1>9, <2>1, TypeFacts
  <2>2. CASE q # p
    <3>1. /\ Len(growthTo[q]) = Len(balanceJournal) + 1
          /\ votingStarts[q] <= now
          /\ ~Open(q) => /\ deficit[q] = 0
                         /\ \A k \in 1..Len(growthTo[q]) : growthTo[q][k] = 0
          /\ Open(q) => supplyAtTime[votingStarts[q]]
                          + growthTo[q][Len(balanceJournal) + 1] - deficit[q] = totalSupply
          /\ Open(q) => \A k \in 1..Len(balanceJournal) :
               growthTo[q][k + 1] = growthTo[q][k] + Delta(q, balanceJournal[k])
      BY DEF IInv, GrowthInv
    <3>2. \A k \in 1..Len(balanceJournal) :
            Delta(q, balanceJournal[k])' = Delta(q, balanceJournal[k])
      BY <1>0, <1>2, <2>2 DEF Delta
    <3>3. Open(q) => supplyAtTime'[votingStarts'[q]] = supplyAtTime[votingStarts[q]]
      BY <1>2, <1>3, <2>2, TypeFacts DEF Open, Registered
    <3> QED
      BY <1>2, <1>3, <1>8, <2>2, <3>1, <3>2, <3>3
  <2> QED
    BY <2>1, <2>2
<1>11. SettlementInv'
  <2>1. ~replay'.running
    BY <1>0 DEF Idle
  <2>2. ASSUME NEW q \in Proposals
        PROVE  /\ settlements'[q].cursor <= Len(balanceJournal)
               /\ settlements'[q].growth = growthTo[q][settlements'[q].cursor + 1]
               /\ ~Registered(q)' => settlements'[q].cursor = 0
    <3>1. CASE q = p
      <4>1. settlements[p].cursor = 0 /\ settlements[p].growth = growthTo[p][1]
        BY <1>0 DEF IInv, SettlementInv, Registered
      <4>2. /\ 1 \in 1..(Len(balanceJournal) + 1)
            /\ Len(balanceJournal) + 1 \in 1..(Len(balanceJournal) + 1)
            /\ Registered(p)'
        BY <1>2, TypeFacts DEF Registered, Seconds
      <4> QED
        BY <1>4, <1>9, <3>1, <4>1, <4>2, TypeFacts
    <3>2. CASE q # p
      BY <1>2, <1>4, <3>2 DEF IInv, SettlementInv, Registered
    <3> QED
      BY <3>1, <3>2
  <2> QED
    BY <1>0, <2>1, <2>2 DEF SettlementInv
<1> QED
  BY <1>0, <1>5, <1>6, <1>10, <1>11 DEF IInv

\* The replay touches nothing but the call in progress and the progress stored.
LEMMA ReplayFrame ==
  ASSUME IInv, HTypeOK', SettlementInv',
         UNCHANGED <<now, balanceOf, totalSupply, totalBurned, balanceJournal, checkpoints,
                     supplyAtTime, votingStarts, history>>
  PROVE  IInv'
<1>1. UNCHANGED <<endOf, deficit, growthTo>>
  BY DEF history
<1>2. CheckpointsSorted' /\ CheckpointsInv'
  BY <1>1 DEF IInv, CheckpointsSorted, CheckpointsInv
<1>3. GrowthInv'
  BY <1>1 DEF IInv, GrowthInv, Open, Registered, Delta
<1> QED
  BY <1>1, <1>2, <1>3 DEF IInv

LEMMA SettleStep ==
  ASSUME IInv, NEW p \in Proposals, NEW count \in 1..MaxJournal, HSettleRetention(p, count)
  PROVE  IInv'
<1>0. /\ Open(p)
      /\ settlements[p].cursor + count <= Len(balanceJournal)
      /\ replay' = [running |-> TRUE, proposal |-> p, cursor |-> settlements[p].cursor,
                    growth |-> settlements[p].growth, stop |-> settlements[p].cursor + count]
      /\ UNCHANGED <<now, balanceOf, totalSupply, totalBurned, balanceJournal, checkpoints,
                     supplyAtTime, votingStarts, settlements, endOf, deficit, growthTo>>
  BY DEF HSettleRetention, SettleRetention, history
<1>1. HTypeOK /\ TypeOK
  BY DEF IInv, HTypeOK
<1>2. /\ settlements[p].cursor \in Nat /\ settlements[p].growth \in Int /\ count \in Nat
      /\ settlements[p].cursor <= settlements[p].cursor + count
      /\ settlements[p].cursor + count \in Nat
  <2>1. settlements[p] \in Settlements
    BY <1>1 DEF TypeOK
  <2>2. count \in Nat
    BY BoundsAssumption
  <2> QED
    BY <2>1, <2>2 DEF Settlements
<1>3. replay' \in Calls
  BY <1>0, <1>2 DEF Calls
<1>4. HTypeOK'
  BY <1>0, <1>1, <1>3 DEF HTypeOK, TypeOK
<1>5. SettlementInv'
  <2>1. settlements[p].growth = growthTo[p][settlements[p].cursor + 1]
    BY DEF IInv, SettlementInv
  <2>2. /\ replay'.running /\ replay'.proposal = p /\ replay'.cursor = settlements[p].cursor
        /\ replay'.growth = settlements[p].growth
        /\ replay'.stop = settlements[p].cursor + count
    BY <1>0
  <2>3. Open(p)'
    BY <1>0, <2>2 DEF Open, Registered
  <2>4. \A q \in Proposals :
          /\ settlements'[q].cursor <= Len(balanceJournal')
          /\ settlements'[q].growth = growthTo'[q][settlements'[q].cursor + 1]
          /\ ~Registered(q)' => settlements'[q].cursor = 0
    BY <1>0 DEF IInv, SettlementInv, Registered
  <2> QED
    BY <1>0, <1>2, <2>1, <2>2, <2>3, <2>4 DEF SettlementInv, Open, Registered
<1> QED
  BY <1>0, <1>4, <1>5, ReplayFrame DEF history

\* One record: its baseline is what the voting-start second ended with.
LEMMA RecordStep ==
  ASSUME IInv, HReplayRecord
  PROVE  IInv'
<1>0. /\ replay.running /\ replay.cursor < replay.stop
      /\ replay' = [replay EXCEPT !.cursor = @ + 1,
                      !.growth = @ + RecordGrowth(replay.proposal,
                                                  balanceJournal[replay.cursor + 1])]
      /\ UNCHANGED <<now, balanceOf, totalSupply, totalBurned, balanceJournal, checkpoints,
                     supplyAtTime, votingStarts, settlements, endOf, deficit, growthTo>>
  BY DEF HReplayRecord, ReplayRecord, history
<1>1. HTypeOK /\ TypeOK
  BY DEF IInv, HTypeOK
<1>2. replay \in Calls
  BY <1>0, <1>1 DEF TypeOK, Idle
<1>p. PICK p \in Proposals, c \in Nat : p = replay.proposal /\ c = replay.cursor
  BY <1>2 DEF Calls
<1>3. /\ p \in Proposals /\ c \in Nat /\ replay.growth \in Int /\ replay.stop \in Nat
      /\ replay.stop <= Len(balanceJournal) /\ Open(p)
      /\ replay.growth = growthTo[p][c + 1]
  BY <1>0, <1>2, <1>p DEF Calls, IInv, SettlementInv
<1>4. c + 1 \in 1..Len(balanceJournal) /\ (c + 1) + 1 \in 1..(Len(balanceJournal) + 1)
  <2>1. c < replay.stop /\ Len(balanceJournal) \in Nat
    BY <1>0, <1>p, TypeFacts
  <2> QED
    BY <1>3, <2>1
<1>5. RecordGrowth(p, balanceJournal[c + 1]) = Delta(p, balanceJournal[c + 1])
  <2>1. balanceJournal[c + 1].account \in Members
    BY <1>4, TypeFacts
  <2>2. votingStarts[p] \in Seconds /\ votingStarts[p] <= now
    BY <1>3, TypeFacts DEF Open, Registered
  <2>3. Past(checkpoints[balanceJournal[c + 1].account], votingStarts[p])
          = endOf[votingStarts[p]][balanceJournal[c + 1].account]
    BY <2>1, <2>2, PastIsEndOf DEF IInv
  <2> QED
    BY <2>3 DEF RecordGrowth, Delta
<1>6. growthTo[p][(c + 1) + 1] = growthTo[p][c + 1] + Delta(p, balanceJournal[c + 1])
  BY <1>3, <1>4 DEF IInv, GrowthInv
<1>7. replay.growth + RecordGrowth(p, balanceJournal[c + 1]) = growthTo[p][(c + 1) + 1]
  BY <1>3, <1>5, <1>6
<1>8. /\ replay'.running /\ replay'.proposal = p /\ replay'.cursor = c + 1
      /\ replay'.growth = growthTo[p][(c + 1) + 1] /\ replay'.stop = replay.stop
      /\ replay' \in Calls
  <2>1. growthTo[p][(c + 1) + 1] \in Int
    BY <1>3, <1>4, TypeFacts
  <2>2. replay' = [replay EXCEPT !.cursor = c + 1, !.growth = growthTo[p][(c + 1) + 1]]
    BY <1>0, <1>2, <1>7, <1>p DEF Calls
  <2>3. c + 1 \in Nat
    BY <1>3
  <2>4. ASSUME NEW call \in Calls, NEW x \in Nat, NEW y \in Int
        PROVE  LET next == [call EXCEPT !.cursor = x, !.growth = y]
               IN  /\ next.running /\ next.proposal = call.proposal /\ next.cursor = x
                   /\ next.growth = y /\ next.stop = call.stop /\ next \in Calls
    BY DEF Calls
  <2> DEFINE x == c + 1
             y == growthTo[p][(c + 1) + 1]
             next == [replay EXCEPT !.cursor = x, !.growth = y]
  <2>5. /\ next.running /\ next.proposal = replay.proposal /\ next.cursor = x
        /\ next.growth = y /\ next.stop = replay.stop /\ next \in Calls
    <3> HIDE DEF x, y
    <3> QED
      BY <1>2, <2>1, <2>3, <2>4 DEF x, y
  <2>6. replay' = next
    BY <2>2
  <2> HIDE DEF next
  <2> QED
    BY <1>p, <2>5, <2>6
<1>9. HTypeOK'
  BY <1>0, <1>1, <1>8 DEF HTypeOK, TypeOK
<1>10. SettlementInv'
  <2>1. Open(p)'
    BY <1>0, <1>3 DEF Open, Registered
  <2>2. \A q \in Proposals :
          /\ settlements'[q].cursor <= Len(balanceJournal')
          /\ settlements'[q].growth = growthTo'[q][settlements'[q].cursor + 1]
          /\ ~Registered(q)' => settlements'[q].cursor = 0
    BY <1>0 DEF IInv, SettlementInv, Registered
  <2>3. c + 1 <= replay.stop
    BY <1>0, <1>3, <1>p
  <2> QED
    BY <1>0, <1>3, <1>8, <2>1, <2>2, <2>3 DEF SettlementInv, Open, Registered
<1> QED
  BY <1>0, <1>9, <1>10, ReplayFrame DEF history

LEMMA ReturnStep ==
  ASSUME IInv, HReplayReturn
  PROVE  IInv'
<1>0. /\ replay.running /\ replay.cursor = replay.stop /\ replay' = Idle
      /\ settlements' = [settlements EXCEPT ![replay.proposal] =
           [cursor |-> replay.cursor, growth |-> replay.growth]]
      /\ UNCHANGED <<now, balanceOf, totalSupply, totalBurned, balanceJournal, checkpoints,
                     supplyAtTime, votingStarts, endOf, deficit, growthTo>>
  BY DEF HReplayReturn, ReplayReturn, history
<1>1. HTypeOK /\ TypeOK
  BY DEF IInv, HTypeOK
<1>2. replay \in Calls
  BY <1>0, <1>1 DEF TypeOK, Idle
<1>p. PICK p \in Proposals : p = replay.proposal
  BY <1>2 DEF Calls
<1>3. /\ p \in Proposals /\ replay.cursor \in Nat /\ replay.growth \in Int
      /\ replay.cursor <= Len(balanceJournal) /\ Open(p)
      /\ replay.growth = growthTo[p][replay.cursor + 1]
  BY <1>0, <1>2, <1>p DEF Calls, IInv, SettlementInv
<1>4. /\ settlements' \in [Proposals -> Settlements]
      /\ settlements'[p].cursor = replay.cursor /\ settlements'[p].growth = replay.growth
      /\ \A q \in Proposals : q # p => settlements'[q] = settlements[q]
  <2>1. [cursor |-> replay.cursor, growth |-> replay.growth] \in Settlements
    BY <1>3 DEF Settlements
  <2> QED
    BY <1>0, <1>1, <1>3, <1>p, <2>1 DEF TypeOK
<1>5. HTypeOK'
  BY <1>0, <1>1, <1>4 DEF HTypeOK, TypeOK
<1>6. SettlementInv'
  <2>1. ~replay'.running
    BY <1>0 DEF Idle
  <2>2. Registered(p)'
    BY <1>0, <1>3 DEF Open, Registered
  <2>3. \A q \in Proposals :
          /\ settlements[q].cursor <= Len(balanceJournal)
          /\ settlements[q].growth = growthTo[q][settlements[q].cursor + 1]
          /\ ~Registered(q) => settlements[q].cursor = 0
    BY DEF IInv, SettlementInv
  <2>4. \A q \in Proposals : Registered(q)' <=> Registered(q)
    BY <1>0 DEF Registered
  <2> QED
    BY <1>0, <1>3, <1>4, <2>1, <2>2, <2>3, <2>4 DEF SettlementInv
<1> QED
  BY <1>0, <1>5, <1>6, ReplayFrame DEF history

LEMMA OutOfGasStep ==
  ASSUME IInv, HReplayOutOfGas
  PROVE  IInv'
<1>0. /\ replay' = Idle
      /\ UNCHANGED <<now, balanceOf, totalSupply, totalBurned, balanceJournal, checkpoints,
                     supplyAtTime, votingStarts, settlements, endOf, deficit, growthTo>>
  BY DEF HReplayOutOfGas, ReplayOutOfGas, history
<1>1. HTypeOK'
  BY <1>0 DEF IInv, HTypeOK, TypeOK
<1>2. ~replay'.running
  BY <1>0 DEF Idle
<1>3. SettlementInv'
  BY <1>0, <1>2 DEF IInv, SettlementInv, Registered
<1> QED
  BY <1>0, <1>1, <1>3, ReplayFrame DEF history

(***************************************************************************)
(* The invariant and the theorems.                                         *)
(***************************************************************************)
LEMMA NextInv == IInv /\ [HNext]_allVars => IInv'
<1> SUFFICES ASSUME IInv, [HNext]_allVars PROVE IInv'
  OBVIOUS
<1>1. ASSUME NEW m \in Members, NEW amount \in Amounts, HMint(m, amount) PROVE IInv'
  <2>1. /\ NoCall /\ totalBurned' = totalBurned
        /\ ChangeBalance(m, balanceOf[m] + amount, totalSupply + amount)
        /\ RecordChange(m, balanceOf[m] + amount)
    BY <1>1 DEF HMint, Mint
  <2>2. /\ balanceOf[m] \in Nat /\ totalSupply \in Int /\ totalBurned \in Nat /\ amount \in Nat
    BY AmountsAssumption DEF IInv, HTypeOK, TypeOK
  <2>3. /\ balanceOf[m] + amount \in Nat /\ totalSupply + amount \in Int
        /\ (totalSupply + amount) - totalSupply = (balanceOf[m] + amount) - balanceOf[m]
        /\ totalBurned' \in Nat
    BY <2>1, <2>2
  <2> QED
    BY <2>1, <2>3, ChangeStep
<1>2. ASSUME NEW m \in Members, NEW amount \in Amounts, HBurn(m, amount) PROVE IInv'
  <2>1. /\ NoCall /\ totalBurned' = totalBurned + amount /\ amount <= balanceOf[m]
        /\ ChangeBalance(m, balanceOf[m] - amount, totalSupply - amount)
        /\ RecordChange(m, balanceOf[m] - amount)
    BY <1>2 DEF HBurn, Burn
  <2>2. /\ balanceOf[m] \in Nat /\ totalSupply \in Int /\ totalBurned \in Nat /\ amount \in Nat
    BY AmountsAssumption DEF IInv, HTypeOK, TypeOK
  <2>3. /\ balanceOf[m] - amount \in Nat /\ totalSupply - amount \in Int
        /\ (totalSupply - amount) - totalSupply = (balanceOf[m] - amount) - balanceOf[m]
        /\ totalBurned' \in Nat
    BY <2>1, <2>2
  <2> QED
    BY <2>1, <2>3, ChangeStep
<1>3. CASE UNCHANGED allVars
  <2>1. UNCHANGED <<now, balanceOf, totalSupply, totalBurned, balanceJournal, checkpoints,
                    supplyAtTime, votingStarts, settlements, replay, history>>
    BY <1>3 DEF allVars, vars
  <2>2. HTypeOK'
    BY <2>1 DEF IInv, HTypeOK, TypeOK, history
  <2>3. SettlementInv'
    BY <2>1 DEF IInv, SettlementInv, Open, Registered, history
  <2> QED
    BY <2>1, <2>2, <2>3, ReplayFrame
<1> QED
  BY <1>1, <1>2, <1>3, RegisterStep, SettleStep, RecordStep, ReturnStep, OutOfGasStep, TickStep
     DEF HNext

\* The inductive invariant holds of every behaviour of the share token.
THEOREM SharesInvariant == HSpec => []IInv
BY InitInv, NextInv, PTL DEF HSpec

\* Every past balance getPastVotes answers is the balance the member had when
\* that second ended (NavShareToken.getPastVotes, _writeCheckpoint).
THEOREM PastVotesExact == HSpec => []CheckpointsExact
<1>1. IInv => CheckpointsExact
  <2> SUFFICES ASSUME IInv, NEW m \in Members, NEW t \in Seconds, t <= now
               PROVE  Past(checkpoints[m], t) = endOf[t][m]
    BY DEF CheckpointsExact
  <2> QED
    BY PastIsEndOf DEF IInv
<1> QED
  BY <1>1, SharesInvariant, PTL

\* An answer of exitedSince is the deficit.
LEMMA SettledIsExact ==
  ASSUME IInv, NEW p \in Proposals, Settled(p)
  PROVE  ExitedSince(p) = deficit[p]
<1>1. /\ Open(p) /\ settlements[p].cursor = Len(balanceJournal)
      /\ settlements[p].growth = growthTo[p][Len(balanceJournal) + 1]
  BY DEF Settled, IInv, SettlementInv
<1>2. supplyAtTime[votingStarts[p]] + growthTo[p][Len(balanceJournal) + 1]
        - deficit[p] = totalSupply
  BY <1>1 DEF IInv, GrowthInv
<1>3. /\ supplyAtTime[votingStarts[p]] \in Int /\ deficit[p] \in Int /\ totalSupply \in Int
      /\ growthTo[p][Len(balanceJournal) + 1] \in Int
  <2>1. votingStarts[p] \in Seconds
    BY <1>1, TypeFacts DEF Open, Registered
  <2>2. Len(balanceJournal) + 1 \in 1..(Len(balanceJournal) + 1)
    BY TypeFacts
  <2> QED
    BY <2>1, <2>2, TypeFacts DEF IInv, HTypeOK, TypeOK
<1> QED
  BY <1>1, <1>2, <1>3 DEF ExitedSince

\* However the replay is cut into calls, exitedSince answers the exact deficit
\* of the members against the balances the sponsorship second ended with
\* (NavShareToken.settleRetention, exitedSince).
THEOREM RetentionIsExact == HSpec => []RetentionExact
<1>1. IInv => RetentionExact
  BY SettledIsExact DEF RetentionExact
<1> QED
  BY <1>1, SharesInvariant, PTL

(***************************************************************************)
(* The supply and the deficits are sums over the members, and no window    *)
(* ever has a negative growth.                                             *)
(***************************************************************************)

\* What each member held when p's sponsorship second ended and does not hold now.
Gap(p) == [m \in Members |-> Above(endOf[votingStarts[p]][m], balanceOf[m])]

SumsInv ==
  /\ totalSupply = Sum(balanceOf, Members)
  /\ \A p \in Proposals : Open(p) =>
       /\ supplyAtTime[votingStarts[p]] = Sum(endOf[votingStarts[p]], Members)
       /\ deficit[p] = Sum(Gap(p), Members)

GrowthNat ==
  \A p \in Proposals : \A k \in 1..(Len(balanceJournal) + 1) : growthTo[p][k] >= 0

\* The growth up to now.
LastGrowthNat == \A p \in Proposals : growthTo[p][Len(balanceJournal) + 1] >= 0

\* A call that replays records gets further than its proposal was.
CursorInv == replay.running => settlements[replay.proposal].cursor < replay.stop

LEMMA BalanceTypes ==
  ASSUME IInv
  PROVE  /\ \A m \in Members : balanceOf[m] \in Nat
         /\ \A t \in Seconds, m \in Members : endOf[t][m] \in Nat
         /\ \A p \in Proposals : Open(p) =>
              /\ votingStarts[p] \in Seconds /\ votingStarts[p] # now
              /\ \A m \in Members : Gap(p)[m] \in Nat
<1>1. /\ \A m \in Members : balanceOf[m] \in Nat
      /\ \A t \in Seconds, m \in Members : endOf[t][m] \in Nat
  BY DEF IInv, HTypeOK, TypeOK
<1>2. ASSUME NEW p \in Proposals, Open(p)
      PROVE  /\ votingStarts[p] \in Seconds /\ votingStarts[p] # now
             /\ \A m \in Members : Gap(p)[m] \in Nat
  <2>1. votingStarts[p] \in Seconds /\ votingStarts[p] # now
    BY <1>2, TypeFacts DEF Open, Registered
  <2>2. \A m \in Members : Gap(p)[m] \in Nat
    BY <1>1, <2>1, AboveFacts DEF Gap
  <2> QED
    BY <2>1, <2>2
<1> QED
  BY <1>1, <1>2

\* A change of one balance changes one summand of the supply and one of each deficit.
LEMMA SumsChange ==
  ASSUME IInv, SumsInv, NEW m \in Members, NEW new \in Nat, NEW supply \in Int,
         ChangeBalance(m, new, supply), RecordChange(m, new),
         supply - totalSupply = new - balanceOf[m]
  PROVE  SumsInv'
<1>0. /\ balanceOf' = [balanceOf EXCEPT ![m] = new] /\ totalSupply' = supply
      /\ supplyAtTime' = [supplyAtTime EXCEPT ![now] = supply]
      /\ now' = now /\ votingStarts' = votingStarts
      /\ endOf' = [endOf EXCEPT ![now] = [@ EXCEPT ![m] = new]]
      /\ balanceOf \in [Members -> Nat] /\ now \in Seconds
      /\ endOf \in [Seconds -> [Members -> Nat]] /\ supplyAtTime \in [Seconds -> Int]
  BY DEF ChangeBalance, RecordChange, IInv, HTypeOK, TypeOK
<1>1. totalSupply' = Sum(balanceOf', Members)
  <2>1. /\ \A x \in Members : balanceOf[x] \in Int /\ balanceOf'[x] \in Int
        /\ \A x \in Members \ {m} : balanceOf[x] = balanceOf'[x]
        /\ balanceOf'[m] = new
    BY <1>0
  <2>2. Sum(balanceOf', Members) = Sum(balanceOf, Members) - balanceOf[m] + balanceOf'[m]
    BY <2>1, SumChange, MembersAssumption
  <2>3. totalSupply = Sum(balanceOf, Members) /\ totalSupply \in Int /\ balanceOf[m] \in Int
    BY DEF SumsInv, IInv, HTypeOK, TypeOK
  <2>4. Sum(balanceOf', Members) = totalSupply - balanceOf[m] + new
    BY <2>1, <2>2, <2>3
  <2>5. supply = totalSupply - balanceOf[m] + new
    BY <2>3
  <2> QED
    BY <1>0, <2>4, <2>5
<1>2. ASSUME NEW p \in Proposals, Open(p)'
      PROVE  /\ supplyAtTime'[votingStarts'[p]] = Sum(endOf'[votingStarts'[p]], Members)
             /\ deficit'[p] = Sum(Gap(p)', Members)
  <2>1. Open(p)
    BY <1>0, <1>2 DEF Open, Registered
  <2>2. votingStarts[p] \in Seconds /\ votingStarts[p] # now /\ \A x \in Members : Gap(p)[x] \in Nat
    BY <2>1, BalanceTypes
  <2>3. /\ supplyAtTime'[votingStarts[p]] = supplyAtTime[votingStarts[p]]
        /\ endOf'[votingStarts[p]] = endOf[votingStarts[p]]
    BY <1>0, <2>2
  <2>4. deficit'[p] = deficit[p] - Above(endOf[votingStarts[p]][m], balanceOf[m])
                                 + Above(endOf[votingStarts[p]][m], new)
    BY <2>1 DEF RecordChange
  <2>5. /\ Gap(p)[m] = Above(endOf[votingStarts[p]][m], balanceOf[m])
        /\ Gap(p)'[m] = Above(endOf[votingStarts[p]][m], new)
        /\ \A x \in Members \ {m} : Gap(p)[x] = Gap(p)'[x]
    BY <1>0, <2>3 DEF Gap
  <2>6. \A x \in Members : Gap(p)[x] \in Int /\ Gap(p)'[x] \in Int
    <3>0. endOf[votingStarts[p]][m] \in Nat
      BY <2>2, BalanceTypes
    <3>1. Gap(p)'[m] \in Nat
      BY <2>5, <3>0, AboveFacts
    <3> QED
      BY <2>2, <2>5, <3>1
  <2>7. Sum(Gap(p)', Members) = Sum(Gap(p), Members) - Gap(p)[m] + Gap(p)'[m]
    BY <2>5, <2>6, SumChange, MembersAssumption
  <2> QED
    BY <1>0, <2>1, <2>3, <2>4, <2>5, <2>7 DEF SumsInv
<1> QED
  BY <1>1, <1>2 DEF SumsInv

LEMMA SumsStep ==
  ASSUME IInv, SumsInv, [HNext]_allVars
  PROVE  SumsInv'
<1>1. ASSUME NEW m \in Members, NEW amount \in Amounts, HMint(m, amount) PROVE SumsInv'
  <2>1. /\ ChangeBalance(m, balanceOf[m] + amount, totalSupply + amount)
        /\ RecordChange(m, balanceOf[m] + amount)
    BY <1>1 DEF HMint, Mint
  <2>2. /\ balanceOf[m] + amount \in Nat /\ totalSupply + amount \in Int
        /\ (totalSupply + amount) - totalSupply = (balanceOf[m] + amount) - balanceOf[m]
    <3>1. balanceOf[m] \in Nat /\ totalSupply \in Int /\ amount \in Nat
      BY AmountsAssumption DEF IInv, HTypeOK, TypeOK
    <3> QED
      BY <3>1
  <2> QED
    BY <2>1, <2>2, SumsChange
<1>2. ASSUME NEW m \in Members, NEW amount \in Amounts, HBurn(m, amount) PROVE SumsInv'
  <2>1. /\ amount <= balanceOf[m]
        /\ ChangeBalance(m, balanceOf[m] - amount, totalSupply - amount)
        /\ RecordChange(m, balanceOf[m] - amount)
    BY <1>2 DEF HBurn, Burn
  <2>2. /\ balanceOf[m] - amount \in Nat /\ totalSupply - amount \in Int
        /\ (totalSupply - amount) - totalSupply = (balanceOf[m] - amount) - balanceOf[m]
    <3>1. balanceOf[m] \in Nat /\ totalSupply \in Int /\ amount \in Nat
      BY AmountsAssumption DEF IInv, HTypeOK, TypeOK
    <3> QED
      BY <2>1, <3>1
  <2> QED
    BY <2>1, <2>2, SumsChange
<1>3. ASSUME NEW p \in Proposals, HRegisterProposal(p) PROVE SumsInv'
  <2>1. /\ votingStarts' = [votingStarts EXCEPT ![p] = now]
        /\ supplyAtTime' = [supplyAtTime EXCEPT ![now] = totalSupply]
        /\ now' = now /\ balanceOf' = balanceOf /\ totalSupply' = totalSupply
        /\ endOf' = endOf /\ deficit' = deficit
        /\ votingStarts \in [Proposals -> 0..MaxNow] /\ supplyAtTime \in [Seconds -> Int]
    BY <1>3 DEF HRegisterProposal, RegisterProposal, history, IInv, HTypeOK, TypeOK
  <2>2. ASSUME NEW q \in Proposals, Open(q)'
        PROVE  /\ supplyAtTime'[votingStarts'[q]] = Sum(endOf'[votingStarts'[q]], Members)
               /\ deficit'[q] = Sum(Gap(q)', Members)
    <3>0. now \in Nat /\ votingStarts'[q] < now
      BY <2>1, <2>2, TypeFacts DEF Open
    <3>1. q # p /\ votingStarts'[q] = votingStarts[q]
      BY <2>1, <3>0
    <3>2. Open(q)
      BY <2>1, <2>2, <3>1 DEF Open, Registered
    <3>3. supplyAtTime'[votingStarts[q]] = supplyAtTime[votingStarts[q]]
      BY <2>1, <3>2, BalanceTypes
    <3>4. Gap(q)' = Gap(q)
      BY <2>1, <3>1 DEF Gap
    <3> QED
      BY <2>1, <3>1, <3>2, <3>3, <3>4 DEF SumsInv
  <2> QED
    BY <2>1, <2>2 DEF SumsInv
<1>4. CASE HTick
  <2>1. /\ now' = now + 1 /\ now \in Nat /\ now + 1 \in Seconds
        /\ endOf' = [endOf EXCEPT ![now + 1] = endOf[now]] /\ deficit' = deficit
        /\ UNCHANGED <<balanceOf, totalSupply, supplyAtTime, votingStarts>>
        /\ endOf \in [Seconds -> [Members -> Nat]]
    BY <1>4, TypeFacts DEF HTick, Tick, Seconds, IInv, HTypeOK
  <2>2. ASSUME NEW q \in Proposals, Open(q)'
        PROVE  /\ supplyAtTime'[votingStarts'[q]] = Sum(endOf'[votingStarts'[q]], Members)
               /\ deficit'[q] = Sum(Gap(q)', Members)
    <3>0. /\ votingStarts[q] \in Nat /\ votingStarts[q] <= now /\ votingStarts[q] # 0
          /\ votingStarts[q] \in Seconds
      BY <2>1, <2>2, TypeFacts DEF Open, Registered
    <3>1. endOf'[votingStarts[q]] = endOf[votingStarts[q]]
      BY <2>1, <3>0
    <3>2. Gap(q)' = Gap(q)
      BY <2>1, <3>1 DEF Gap
    <3>3. CASE Open(q)
      BY <2>1, <3>1, <3>2, <3>3 DEF SumsInv
    <3>4. CASE ~Open(q)
      <4>0. now \in Nat /\ ~(votingStarts[q] < now)
        BY <2>1, <3>0, <3>4 DEF Open, Registered
      <4>1. votingStarts[q] = now
        BY <3>0, <4>0
      <4>2. endOf[now] = balanceOf /\ supplyAtTime[now] = totalSupply /\ deficit[q] = 0
        BY <3>4, <4>1 DEF IInv, GrowthInv
      <4>3. \A x \in Members : Gap(q)[x] = 0
        BY <4>1, <4>2, BalanceTypes DEF Gap, Above
      <4>4. Sum(Gap(q), Members) = 0
        BY <4>3, SumZero, MembersAssumption
      <4> QED
        BY <2>1, <3>1, <3>2, <4>1, <4>2, <4>4 DEF SumsInv
    <3> QED
      BY <3>3, <3>4
  <2> QED
    BY <2>1, <2>2 DEF SumsInv
<1>5. ASSUME UNCHANGED <<now, balanceOf, totalSupply, supplyAtTime, votingStarts, endOf, deficit>>
      PROVE  SumsInv'
  BY <1>5 DEF SumsInv, Open, Registered, Gap
<1>6. ASSUME NEW p \in Proposals, NEW count \in 1..MaxJournal, HSettleRetention(p, count)
      PROVE  SumsInv'
  BY <1>5, <1>6 DEF HSettleRetention, SettleRetention, history
<1>7. CASE HReplayRecord \/ HReplayReturn \/ HReplayOutOfGas
  BY <1>5, <1>7 DEF HReplayRecord, HReplayReturn, HReplayOutOfGas, ReplayRecord, ReplayReturn,
                    ReplayOutOfGas, history
<1>8. CASE UNCHANGED allVars
  BY <1>5, <1>8 DEF allVars, vars, history
<1> QED
  BY <1>1, <1>2, <1>3, <1>4, <1>6, <1>7, <1>8 DEF HNext

\* The growth of a window up to now is the sum of what members have gained in it.
LEMMA LastGrowth == IInv /\ SumsInv => LastGrowthNat
<1> SUFFICES ASSUME IInv, SumsInv, NEW p \in Proposals
             PROVE  growthTo[p][Len(balanceJournal) + 1] >= 0
  BY DEF LastGrowthNat
<1>0. /\ Len(balanceJournal) + 1 \in 1..(Len(balanceJournal) + 1)
      /\ Len(growthTo[p]) = Len(balanceJournal) + 1
      /\ growthTo[p][Len(balanceJournal) + 1] \in Int
  BY TypeFacts
<1>1. CASE ~Open(p)
  BY <1>0, <1>1 DEF IInv, GrowthInv
<1>2. CASE Open(p)
  <2> DEFINE start == endOf[votingStarts[p]]
             gain == [m \in Members |-> Above(balanceOf[m], start[m])]
             kept == [m \in Members |-> start[m] + gain[m]]
  <2>1. \A m \in Members : balanceOf[m] \in Nat /\ start[m] \in Nat /\ Gap(p)[m] \in Nat
    BY <1>2, BalanceTypes
  <2>2. \A m \in Members : gain[m] \in Nat /\ kept[m] \in Int
           /\ kept[m] = start[m] + gain[m] /\ kept[m] = balanceOf[m] + Gap(p)[m]
    <3> SUFFICES ASSUME NEW m \in Members
                 PROVE  /\ gain[m] \in Nat /\ kept[m] \in Int
                        /\ kept[m] = start[m] + gain[m] /\ kept[m] = balanceOf[m] + Gap(p)[m]
      OBVIOUS
    <3>1. Gap(p)[m] = Above(start[m], balanceOf[m])
      BY DEF Gap
    <3> QED
      BY <2>1, <3>1 DEF Above
  <2> HIDE DEF gain, kept, start
  <2>3. /\ Sum(kept, Members) = Sum(start, Members) + Sum(gain, Members)
        /\ Sum(kept, Members) = Sum(balanceOf, Members) + Sum(Gap(p), Members)
    <3>1. /\ \A m \in Members : start[m] \in Int /\ gain[m] \in Int /\ kept[m] = start[m] + gain[m]
          /\ \A m \in Members : balanceOf[m] \in Int /\ Gap(p)[m] \in Int
                                  /\ kept[m] = balanceOf[m] + Gap(p)[m]
      BY <2>1, <2>2
    <3> QED
      BY <3>1, SumPlus, MembersAssumption
  <2>4. /\ Sum(gain, Members) \in Nat /\ Sum(start, Members) \in Int
        /\ Sum(balanceOf, Members) \in Int /\ Sum(Gap(p), Members) \in Int
    <3>1. /\ Sum(gain, Members) \in Nat /\ Sum(start, Members) \in Nat
          /\ Sum(balanceOf, Members) \in Nat /\ Sum(Gap(p), Members) \in Nat
      BY <2>1, <2>2, SumNat, MembersAssumption
    <3> QED
      BY <3>1
  <2>5. /\ totalSupply = Sum(balanceOf, Members) /\ deficit[p] = Sum(Gap(p), Members)
        /\ supplyAtTime[votingStarts[p]] = Sum(start, Members)
    BY <1>2 DEF SumsInv, start
  <2>6. supplyAtTime[votingStarts[p]] + growthTo[p][Len(balanceJournal) + 1] - deficit[p]
          = totalSupply
    BY <1>2 DEF IInv, GrowthInv
  <2> QED
    BY <1>0, <2>3, <2>4, <2>5, <2>6
<1> QED
  BY <1>1, <1>2

\* No step makes the growth of a window over some first records negative.
LEMMA GrowthStep ==
  ASSUME IInv, IInv', GrowthNat, LastGrowthNat', [HNext]_allVars
  PROVE  GrowthNat'
<1>1. ASSUME NEW m \in Members, NEW new, RecordChange(m, new),
             Len(balanceJournal') = Len(balanceJournal) + 1
      PROVE  GrowthNat'
  <2> SUFFICES ASSUME NEW p \in Proposals, NEW k \in 1..(Len(balanceJournal') + 1)
               PROVE  growthTo'[p][k] >= 0
    BY DEF GrowthNat
  <2>1. /\ Len(balanceJournal) \in Nat /\ growthTo[p] \in Seq(Int)
        /\ Len(growthTo[p]) = Len(balanceJournal) + 1
    BY TypeFacts DEF IInv, HTypeOK
  <2>2. \E e : growthTo'[p] = Append(growthTo[p], e)
    BY <1>1 DEF RecordChange
  <2>3. CASE k = Len(balanceJournal') + 1
    BY <2>3 DEF LastGrowthNat
  <2>4. CASE k # Len(balanceJournal') + 1
    <3>1. k \in 1..(Len(balanceJournal) + 1)
      BY <1>1, <2>1, <2>4
    <3>2. growthTo'[p][k] = growthTo[p][k]
      BY <2>1, <2>2, <3>1
    <3> QED
      BY <3>1, <3>2 DEF GrowthNat
  <2> QED
    BY <2>3, <2>4
<1>2. ASSUME NEW m \in Members, NEW new, NEW supply, ChangeBalance(m, new, supply),
             RecordChange(m, new)
      PROVE  GrowthNat'
  <2>1. Len(balanceJournal') = Len(balanceJournal) + 1
    BY <1>2 DEF ChangeBalance, IInv, HTypeOK, TypeOK
  <2> QED
    BY <1>1, <1>2, <2>1
<1>3. ASSUME NEW m \in Members, NEW amount \in Amounts, HMint(m, amount) \/ HBurn(m, amount)
      PROVE  GrowthNat'
  BY <1>2, <1>3 DEF HMint, HBurn, Mint, Burn
<1>4. ASSUME UNCHANGED <<growthTo, balanceJournal>> PROVE GrowthNat'
  BY <1>4 DEF GrowthNat
<1>5. ASSUME NEW p \in Proposals, HRegisterProposal(p) PROVE GrowthNat'
  BY <1>4, <1>5 DEF HRegisterProposal, RegisterProposal, history
<1>6. ASSUME NEW p \in Proposals, NEW count \in 1..MaxJournal, HSettleRetention(p, count)
      PROVE  GrowthNat'
  BY <1>4, <1>6 DEF HSettleRetention, SettleRetention, history
<1>7. CASE HReplayRecord \/ HReplayReturn \/ HReplayOutOfGas
  BY <1>4, <1>7 DEF HReplayRecord, HReplayReturn, HReplayOutOfGas, ReplayRecord, ReplayReturn,
                    ReplayOutOfGas, history
<1>8. CASE HTick
  BY <1>4, <1>8 DEF HTick, Tick
<1>9. CASE UNCHANGED allVars
  BY <1>4, <1>9 DEF allVars, vars, history
<1> QED
  BY <1>3, <1>5, <1>6, <1>7, <1>8, <1>9 DEF HNext

LEMMA CursorStep ==
  ASSUME IInv, CursorInv, [HNext]_allVars
  PROVE  CursorInv'
<1>1. ASSUME replay' = Idle PROVE CursorInv'
  BY <1>1 DEF CursorInv, Idle
<1>2. ASSUME UNCHANGED <<replay, settlements>> PROVE CursorInv'
  BY <1>2 DEF CursorInv
<1>3. ASSUME NEW m \in Members, NEW amount \in Amounts, HMint(m, amount) \/ HBurn(m, amount)
      PROVE  CursorInv'
  BY <1>2, <1>3 DEF HMint, HBurn, Mint, Burn, ChangeBalance
<1>4. ASSUME NEW p \in Proposals, HRegisterProposal(p) PROVE CursorInv'
  BY <1>1, <1>4 DEF HRegisterProposal, RegisterProposal, NoCall
<1>5. ASSUME NEW p \in Proposals, NEW count \in 1..MaxJournal, HSettleRetention(p, count)
      PROVE  CursorInv'
  <2>1. settlements[p].cursor \in Nat
    BY DEF IInv, HTypeOK, TypeOK, Settlements
  <2> QED
    BY <1>5, <2>1, BoundsAssumption DEF HSettleRetention, SettleRetention, CursorInv
<1>6. CASE HReplayRecord
  <2>1. replay \in Calls
    BY <1>6 DEF HReplayRecord, ReplayRecord, IInv, HTypeOK, TypeOK, Idle
  <2>2. replay'.proposal = replay.proposal /\ replay'.stop = replay.stop
        /\ settlements' = settlements /\ replay.running
    BY <1>6, <2>1 DEF HReplayRecord, ReplayRecord, Calls
  <2> QED
    BY <2>2 DEF CursorInv
<1>7. CASE HReplayReturn \/ HReplayOutOfGas
  BY <1>1, <1>7 DEF HReplayReturn, HReplayOutOfGas, ReplayReturn, ReplayOutOfGas
<1>8. CASE HTick
  BY <1>2, <1>8 DEF HTick, Tick
<1>9. CASE UNCHANGED allVars
  BY <1>2, <1>9 DEF allVars, vars
<1> QED
  BY <1>3, <1>4, <1>5, <1>6, <1>7, <1>8, <1>9 DEF HNext

\* The cap of mint holds for the supply, and so for every balance.
CapInv == totalSupply <= SupplyCap

LEMMA CapStep ==
  ASSUME IInv, CapInv, [HNext]_allVars
  PROVE  CapInv'
<1>0. totalSupply \in Int /\ SupplyCap \in Nat
  BY BoundsAssumption DEF IInv, HTypeOK, TypeOK
<1>1. ASSUME totalSupply' = totalSupply PROVE CapInv'
  BY <1>1 DEF CapInv
<1>2. ASSUME NEW m \in Members, NEW amount \in Amounts, HMint(m, amount) PROVE CapInv'
  BY <1>2 DEF HMint, Mint, ChangeBalance, CapInv
<1>3. ASSUME NEW m \in Members, NEW amount \in Amounts, HBurn(m, amount) PROVE CapInv'
  <2>1. totalSupply' = totalSupply - amount /\ amount \in Nat
    BY <1>3, AmountsAssumption DEF HBurn, Burn, ChangeBalance
  <2> QED
    BY <1>0, <2>1 DEF CapInv
<1>4. ASSUME NEW p \in Proposals, HRegisterProposal(p) PROVE CapInv'
  BY <1>1, <1>4 DEF HRegisterProposal, RegisterProposal
<1>5. ASSUME NEW p \in Proposals, NEW count \in 1..MaxJournal, HSettleRetention(p, count)
      PROVE  CapInv'
  BY <1>1, <1>5 DEF HSettleRetention, SettleRetention
<1>6. CASE HReplayRecord \/ HReplayReturn \/ HReplayOutOfGas
  BY <1>1, <1>6 DEF HReplayRecord, HReplayReturn, HReplayOutOfGas,
                    ReplayRecord, ReplayReturn, ReplayOutOfGas
<1>7. CASE HTick
  BY <1>1, <1>7 DEF HTick, Tick
<1>8. CASE UNCHANGED allVars
  BY <1>1, <1>8 DEF allVars, vars
<1> QED
  BY <1>2, <1>3, <1>4, <1>5, <1>6, <1>7, <1>8 DEF HNext

\* No member holds more than the supply.
LEMMA MemberOfSupply ==
  ASSUME IInv, SumsInv, NEW m \in Members
  PROVE  balanceOf[m] <= totalSupply
<1>1. \A x \in Members : balanceOf[x] \in Nat
  BY DEF IInv, HTypeOK, TypeOK
<1>2. Sum(balanceOf, Members) = balanceOf[m] + Sum(balanceOf, Members \ {m})
  BY <1>1, SumRemove, MembersAssumption
<1>3. Sum(balanceOf, Members \ {m}) \in Nat
  <2>1. IsFiniteSet(Members \ {m})
    BY MembersAssumption, FS_Difference
  <2> QED
    BY <1>1, <2>1, SumNat
<1> QED
  BY <1>1, <1>2, <1>3 DEF SumsInv

\* The whole invariant: that of the token, its sums, its cap, growth and cursors.
SharesExact == IInv /\ SumsInv /\ CapInv /\ LastGrowthNat /\ GrowthNat /\ CursorInv

\* Along every history of mints, burns, registrations and replays in chunks the
\* supply is the sum of the balances, an open proposal's deficit the sum of what
\* each member has less than then, its cap holds, and a replay's growth is natural
\* (NavShareToken._mint, _burn, settleRetention).
THEOREM SumsInvariant == HSpec => []SharesExact
<1>1. HInit => SumsInv /\ CapInv /\ GrowthNat /\ CursorInv
  <2> SUFFICES ASSUME HInit PROVE SumsInv /\ CapInv /\ GrowthNat /\ CursorInv
    OBVIOUS
  <2>1. totalSupply = 0 /\ \A m \in Members : balanceOf[m] = 0
    BY DEF HInit, Init
  <2>2. Sum(balanceOf, Members) = 0
    BY <2>1, SumZero, MembersAssumption
  <2>3. \A p \in Proposals : ~Open(p)
    BY DEF HInit, Init, Open, Registered
  <2>4. GrowthNat
    BY DEF HInit, Init, GrowthNat
  <2>5. CursorInv
    BY DEF HInit, Init, CursorInv, Idle
  <2>6. CapInv
    BY <2>1, BoundsAssumption DEF CapInv
  <2> QED
    BY <2>1, <2>2, <2>3, <2>4, <2>5, <2>6 DEF SumsInv
<1>2. IInv /\ SumsInv /\ [HNext]_allVars => SumsInv'
  BY SumsStep
<1>3. IInv /\ IInv' /\ GrowthNat /\ LastGrowthNat' /\ [HNext]_allVars => GrowthNat'
  BY GrowthStep
<1>4. IInv /\ CursorInv /\ [HNext]_allVars => CursorInv'
  BY CursorStep
<1>5. IInv /\ CapInv /\ [HNext]_allVars => CapInv'
  BY CapStep
<1> QED
  BY <1>1, <1>2, <1>3, <1>4, <1>5, LastGrowth, SharesInvariant, PTL DEF HSpec, SharesExact

\* Neither settleRetention nor exitedSince ever subtracts more than there is, for any
\* members, amounts and chunks: the proposal can always be settled and processed
\* (NavShareToken.settleRetention, exitedSince).
THEOREM NothingUnderflows == HSpec => []NoUnderflow
<1>1. SharesExact => NoUnderflow
  <2> SUFFICES ASSUME SharesExact PROVE NoUnderflow
    OBVIOUS
  <2> USE DEF SharesExact
  <2>1. ASSUME NEW p \in Proposals PROVE settlements[p].growth >= 0
    <3>1. /\ settlements[p].cursor \in Nat /\ settlements[p].cursor <= Len(balanceJournal)
          /\ settlements[p].growth = growthTo[p][settlements[p].cursor + 1]
      BY DEF IInv, SettlementInv, HTypeOK, TypeOK, Settlements
    <3>2. settlements[p].cursor + 1 \in 1..(Len(balanceJournal) + 1)
      BY <3>1, TypeFacts
    <3> QED
      BY <3>1, <3>2 DEF GrowthNat
  <2>2. ASSUME replay.running PROVE replay.growth >= 0
    <3>1. replay \in Calls
      BY <2>2 DEF IInv, HTypeOK, TypeOK, Idle
    <3>2. /\ replay.cursor \in Nat /\ replay.stop \in Nat /\ replay.proposal \in Proposals
          /\ replay.cursor <= replay.stop /\ replay.stop <= Len(balanceJournal)
          /\ replay.growth = growthTo[replay.proposal][replay.cursor + 1]
      BY <2>2, <3>1 DEF IInv, SettlementInv, Calls
    <3>3. replay.cursor + 1 \in 1..(Len(balanceJournal) + 1)
      BY <3>2, TypeFacts
    <3> QED
      BY <3>2, <3>3 DEF GrowthNat
  <2>3. ASSUME NEW p \in Proposals, Settled(p) PROVE ExitedSince(p) >= 0
    <3>1. ExitedSince(p) = deficit[p] /\ Open(p)
      BY <2>3, SettledIsExact DEF Settled
    <3>2. deficit[p] = Sum(Gap(p), Members) /\ \A m \in Members : Gap(p)[m] \in Nat
      BY <3>1, BalanceTypes DEF SumsInv
    <3> QED
      BY <3>1, <3>2, SumNat, MembersAssumption
  <2> QED
    BY <2>1, <2>2, <2>3 DEF NoUnderflow
<1> QED
  BY <1>1, SumsInvariant, PTL

(***************************************************************************)
(* The promise to Baal.                                                    *)
(***************************************************************************)

\* What Baal sees, in the terms of the history.
BeforeExact == Before = [m \in Members |-> IF now = 1 THEN 0 ELSE endOf[now - 1][m]]

BaselinesExact ==
  Baselines = [p \in Proposals |-> IF Registered(p) THEN endOf[votingStarts[p]]
                                   ELSE [m \in Members |-> 0]]

LEMMA SightIsExact == IInv => BeforeExact /\ BaselinesExact
<1> SUFFICES ASSUME IInv PROVE BeforeExact /\ BaselinesExact
  OBVIOUS
<1>1. ASSUME NEW m \in Members
      PROVE  Past(checkpoints[m], now - 1) = IF now = 1 THEN 0 ELSE endOf[now - 1][m]
  <2>0. now \in 1..MaxNow /\ MaxNow \in Nat /\ now \in Nat
    BY TypeFacts DEF Seconds
  <2>1. CASE now = 1
    <3>1. checkpoints[m] \in Seq(Checkpoints)
      BY DEF IInv, HTypeOK, TypeOK
    <3>2. \A i \in 1..Len(checkpoints[m]) : checkpoints[m][i] \in Checkpoints
      BY <3>1
    <3>3. \A i \in 1..Len(checkpoints[m]) : checkpoints[m][i].fromTimePoint \in Seconds
      BY <3>2 DEF Checkpoints
    <3>4. ~ \E i \in 1..Len(checkpoints[m]) : IsLatest(checkpoints[m], i, now - 1)
      BY <2>0, <2>1, <3>3 DEF IsLatest, Seconds
    <3> QED
      BY <2>1, <3>4 DEF Past
  <2>2. CASE now # 1
    <3>1. now - 1 \in Seconds /\ now - 1 <= now
      BY <2>0, <2>2 DEF Seconds
    <3> QED
      BY <2>2, <3>1, PastIsEndOf DEF IInv
  <2> QED
    BY <2>1, <2>2
<1>2. ASSUME NEW p \in Proposals, Registered(p)
      PROVE  [m \in Members |-> Past(checkpoints[m], votingStarts[p])] = endOf[votingStarts[p]]
  <2>1. votingStarts[p] \in Seconds /\ votingStarts[p] <= now
    BY <1>2, TypeFacts DEF Registered
  <2>2. \A m \in Members : Past(checkpoints[m], votingStarts[p]) = endOf[votingStarts[p]][m]
    BY <2>1, PastIsEndOf DEF IInv
  <2>3. endOf[votingStarts[p]] \in [Members -> Nat]
    BY <2>1 DEF IInv, HTypeOK
  <2> QED
    BY <2>2, <2>3
<1>3. BeforeExact
  BY <1>1 DEF BeforeExact, Before
<1>4. BaselinesExact
  BY <1>2 DEF BaselinesExact, Baselines
<1> QED
  BY <1>3, <1>4

\* The answer of a proposal: refused, none missing, or the deficit.
AnswersKnown ==
  \A p \in Proposals :
    Answers[p] = IF Registered(p) /\ settlements[p].cursor = Len(balanceJournal)
                 THEN IF Open(p) THEN deficit[p] ELSE 0
                 ELSE Unsettled

LEMMA AnswersAreKnown == IInv => AnswersKnown
<1> SUFFICES ASSUME IInv, NEW p \in Proposals, Registered(p),
                    settlements[p].cursor = Len(balanceJournal)
             PROVE  ExitedSince(p) = IF Open(p) THEN deficit[p] ELSE 0
  BY DEF AnswersKnown, Answers
<1>1. CASE Open(p)
  BY <1>1, SettledIsExact DEF Settled
<1>2. CASE ~Open(p)
  <2>0. votingStarts[p] \in Nat /\ votingStarts[p] <= now /\ now \in Nat /\ totalSupply \in Int
    BY TypeFacts
  <2>1. votingStarts[p] = now
    BY <1>2, <2>0 DEF Open, Registered
  <2>2. supplyAtTime[now] = totalSupply
    BY <2>1 DEF IInv, GrowthInv
  <2>3. settlements[p].growth = growthTo[p][Len(balanceJournal) + 1]
    BY DEF IInv, SettlementInv
  <2>4. Len(balanceJournal) + 1 \in 1..Len(growthTo[p])
    BY TypeFacts
  <2>5. settlements[p].growth = 0
    BY <1>2, <2>3, <2>4 DEF IInv, GrowthInv
  <2> QED
    BY <1>2, <2>0, <2>1, <2>2, <2>5 DEF ExitedSince
<1> QED
  BY <1>1, <1>2

\* The deficit of the promise, a sum over all members, is the deficit.
LEMMA PromisedDeficit ==
  ASSUME SharesExact, NEW p \in Proposals, Open(p)
  PROVE  Promise!Deficit(p) = deficit[p]
<1>1. Baselines[p] = endOf[votingStarts[p]]
  BY SightIsExact DEF SharesExact, BaselinesExact, Open
<1>2. Promise!Lost(p) = Gap(p)
  BY <1>1 DEF Promise!Lost, Gap, Above
<1>3. Promise!Deficit(p) = Sum(Promise!Lost(p), Members)
  BY DEF Promise!Deficit, Promise!MapThenSumSet, Promise!MapThenFoldSet, Sum, IsSum
<1> QED
  BY <1>2, <1>3 DEF SharesExact, SumsInv

LEMMA PromisedChange ==
  ASSUME SharesExact, SharesExact', NEW m \in Members, NEW new \in Nat, NEW supply \in Int,
         new # balanceOf[m], new <= SupplyCap,
         ChangeBalance(m, new, supply), RecordChange(m, new)
  PROVE  Promise!ShareNext
<1> USE DEF SharesExact
<1>0. /\ IInv /\ IInv' /\ BeforeExact /\ BeforeExact' /\ BaselinesExact /\ BaselinesExact'
      /\ AnswersKnown /\ AnswersKnown'
  BY SightIsExact, AnswersAreKnown, PTL
<1>1. /\ balanceOf' = [balanceOf EXCEPT ![m] = new]
      /\ now' = now /\ votingStarts' = votingStarts /\ settlements' = settlements
      /\ endOf' = [endOf EXCEPT ![now] = [@ EXCEPT ![m] = new]]
      /\ endOf \in [Seconds -> [Members -> Nat]] /\ now \in Seconds
      /\ Len(balanceJournal') = Len(balanceJournal) + 1
  BY <1>0 DEF ChangeBalance, RecordChange, IInv, HTypeOK, TypeOK
<1>2. Before' = Before
  <2>1. now \in Nat /\ (now # 1 => now - 1 \in Seconds /\ now - 1 # now)
    BY <1>1, BoundsAssumption DEF Seconds
  <2>2. now # 1 => endOf'[now - 1] = endOf[now - 1]
    BY <1>1, <2>1
  <2> QED
    BY <1>0, <1>1, <2>2 DEF BeforeExact
<1>3. Baselines' = [p \in Proposals |->
        IF votingStarts[p] = now THEN [Baselines[p] EXCEPT ![m] = new] ELSE Baselines[p]]
  <2>1. now # 0
    BY <1>1, BoundsAssumption DEF Seconds
  <2>2. \A p \in Proposals : (Registered(p) <=> Registered(p)')
    BY <1>1 DEF Registered
  <2>3. ASSUME NEW p \in Proposals
        PROVE  Baselines'[p] = IF votingStarts[p] = now THEN [Baselines[p] EXCEPT ![m] = new]
                               ELSE Baselines[p]
    <3>1. CASE ~Registered(p)
      BY <1>0, <2>1, <2>2, <3>1 DEF BaselinesExact, Registered
    <3>2. CASE Registered(p)
      <4>1. Baselines[p] = endOf[votingStarts[p]] /\ Baselines'[p] = endOf'[votingStarts[p]]
        BY <1>0, <1>1, <2>2, <3>2 DEF BaselinesExact
      <4>2. votingStarts[p] \in Seconds
        BY <1>0, <3>2, TypeFacts DEF Registered
      <4> QED
        BY <1>1, <4>1, <4>2
    <3> QED
      BY <3>1, <3>2
  <2>4. Baselines' = [p \in Proposals |-> Baselines'[p]]
    BY DEF Baselines
  <2> QED
    BY <2>3, <2>4
<1>4. Answers' = [p \in Proposals |-> Unsettled]
  <2>1. \A p \in Proposals : settlements'[p].cursor # Len(balanceJournal')
    <3> SUFFICES ASSUME NEW p \in Proposals PROVE settlements[p].cursor # Len(balanceJournal) + 1
      BY <1>1
    <3>1. settlements[p].cursor <= Len(balanceJournal) /\ Len(balanceJournal) \in Nat
          /\ settlements[p].cursor \in Nat
      BY <1>0, TypeFacts DEF IInv, SettlementInv, HTypeOK, TypeOK, Settlements
    <3> QED
      BY <3>1
  <2>2. \A p \in Proposals : Answers'[p] = Unsettled
    BY <1>0, <2>1 DEF AnswersKnown
  <2>3. Answers' = [p \in Proposals |-> Answers'[p]]
    BY DEF Answers
  <2> QED
    BY <2>2, <2>3
<1>5. Promise!SetBalance(m, new)
  BY <1>1, <1>2, <1>3, <1>4 DEF Promise!SetBalance
<1>6. new \in (0..SupplyCap) \ {balanceOf[m]}
  BY BoundsAssumption
<1> QED
  BY <1>5, <1>6 DEF Promise!ShareNext

LEMMA PromisedRegister ==
  ASSUME SharesExact, SharesExact', NEW p \in Proposals, HRegisterProposal(p)
  PROVE  Promise!ShareNext
<1> USE DEF SharesExact
<1>0. /\ IInv /\ IInv' /\ BeforeExact /\ BeforeExact' /\ BaselinesExact /\ BaselinesExact'
      /\ AnswersKnown /\ AnswersKnown'
  BY SightIsExact, AnswersAreKnown, PTL
<1>1. /\ ~Registered(p) /\ votingStarts' = [votingStarts EXCEPT ![p] = now]
      /\ now' = now /\ balanceOf' = balanceOf /\ endOf' = endOf /\ deficit' = deficit
      /\ balanceJournal' = balanceJournal
      /\ settlements' = [settlements EXCEPT ![p].cursor = Len(balanceJournal)]
      /\ votingStarts \in [Proposals -> 0..MaxNow] /\ settlements \in [Proposals -> Settlements]
      /\ now \in Nat /\ now # 0 /\ endOf[now] = balanceOf
  BY <1>0, BoundsAssumption DEF HRegisterProposal, RegisterProposal, history, IInv, HTypeOK,
                                TypeOK, Seconds
<1>2. Before' = Before
  BY <1>0, <1>1 DEF BeforeExact
<1>3. Baselines' = [Baselines EXCEPT ![p] = balanceOf]
  <2>1. ASSUME NEW q \in Proposals
        PROVE  Baselines'[q] = IF q = p THEN balanceOf ELSE Baselines[q]
    BY <1>0, <1>1 DEF BaselinesExact, Registered
  <2>2. Baselines' = [q \in Proposals |-> Baselines'[q]]
        /\ Baselines = [q \in Proposals |-> Baselines[q]]
    BY DEF Baselines
  <2> QED
    BY <2>1, <2>2
<1>4. Answers' = [Answers EXCEPT ![p] = 0]
  <2>1. Answers'[p] = 0
    <3>1. Registered(p)' /\ ~Open(p)' /\ settlements'[p].cursor = Len(balanceJournal')
      BY <1>1 DEF Registered, Open, Settlements
    <3> QED
      BY <1>0, <3>1 DEF AnswersKnown
  <2>2. ASSUME NEW q \in Proposals, q # p PROVE Answers'[q] = Answers[q]
    <3>1. /\ Registered(q)' <=> Registered(q)
          /\ Open(q)' <=> Open(q)
          /\ settlements'[q] = settlements[q]
      BY <1>1, <2>2 DEF Registered, Open
    <3> QED
      BY <1>0, <1>1, <3>1 DEF AnswersKnown
  <2>3. Answers' = [q \in Proposals |-> Answers'[q]]
        /\ Answers = [q \in Proposals |-> Answers[q]]
    BY DEF Answers
  <2> QED
    BY <2>1, <2>2, <2>3
<1>5. Promise!Register(p)
  BY <1>1, <1>2, <1>3, <1>4 DEF Promise!Register, Registered
<1> QED
  BY <1>5 DEF Promise!ShareNext

LEMMA PromisedTick ==
  ASSUME SharesExact, SharesExact', HTick
  PROVE  Promise!ShareNext
<1> USE DEF SharesExact
<1>0. /\ IInv /\ IInv' /\ BeforeExact /\ BeforeExact' /\ BaselinesExact /\ BaselinesExact'
      /\ AnswersKnown /\ AnswersKnown'
  BY SightIsExact, AnswersAreKnown, PTL
<1>1. /\ now' = now + 1 /\ now < MaxNow /\ now \in Nat /\ now # 0 /\ now + 1 \in Seconds
      /\ endOf' = [endOf EXCEPT ![now + 1] = endOf[now]] /\ deficit' = deficit
      /\ UNCHANGED <<balanceOf, votingStarts, settlements, balanceJournal>>
      /\ endOf \in [Seconds -> [Members -> Nat]] /\ endOf[now] = balanceOf
      /\ balanceOf \in [Members -> Nat]
  BY <1>0, BoundsAssumption DEF HTick, Tick, Seconds, IInv, HTypeOK, TypeOK
<1>2. Before' = balanceOf
  <2>1. endOf'[now] = balanceOf
    BY <1>1, TypeFacts
  <2>2. Before' = [m \in Members |-> endOf'[now][m]]
    BY <1>0, <1>1 DEF BeforeExact
  <2> QED
    BY <1>1, <2>1, <2>2
<1>3. Baselines' = Baselines
  <2>1. ASSUME NEW q \in Proposals PROVE Baselines'[q] = Baselines[q]
    <3>1. Registered(q)' <=> Registered(q)
      BY <1>1 DEF Registered
    <3>2. Registered(q) => endOf'[votingStarts[q]] = endOf[votingStarts[q]]
      <4>1. votingStarts[q] \in Nat /\ votingStarts[q] <= now
            /\ (Registered(q) => votingStarts[q] \in Seconds)
        BY <1>0, TypeFacts DEF Registered
      <4> QED
        BY <1>1, <4>1
    <3> QED
      BY <1>0, <1>1, <3>1, <3>2 DEF BaselinesExact
  <2>2. Baselines' = [q \in Proposals |-> Baselines'[q]]
        /\ Baselines = [q \in Proposals |-> Baselines[q]]
    BY DEF Baselines
  <2> QED
    BY <2>1, <2>2
<1>4. Answers' = Answers
  <2>1. ASSUME NEW q \in Proposals PROVE Answers'[q] = Answers[q]
    <3>1. Registered(q)' <=> Registered(q)
      BY <1>1 DEF Registered
    <3>2. Open(q) => Open(q)'
      BY <1>1, TypeFacts DEF Open, Registered
    <3>3. ~Open(q) => deficit[q] = 0
      BY <1>0 DEF IInv, GrowthInv
    <3>4. ~Open(q)' => ~Registered(q)
      BY <1>0, <1>1, TypeFacts DEF Open, Registered
    <3> QED
      BY <1>0, <1>1, <3>1, <3>2, <3>3, <3>4 DEF AnswersKnown
  <2>2. Answers' = [q \in Proposals |-> Answers'[q]]
        /\ Answers = [q \in Proposals |-> Answers[q]]
    BY DEF Answers
  <2> QED
    BY <2>1, <2>2
<1>5. Promise!NextSecond
  BY <1>1, <1>2, <1>3, <1>4 DEF Promise!NextSecond
<1> QED
  BY <1>5 DEF Promise!ShareNext

\* What moves none of the balances and registers nothing: settlement may get further.
LEMMA PromisedReplay ==
  ASSUME SharesExact, SharesExact',
         UNCHANGED <<now, balanceOf, votingStarts, endOf, deficit, balanceJournal>>,
         \/ settlements' = settlements
         \/ \E p \in Proposals : /\ Open(p)
                                 /\ settlements[p].cursor # Len(balanceJournal)
                                 /\ \A q \in Proposals : q # p => settlements'[q] = settlements[q]
  PROVE  [Promise!ShareNext]_(Promise!shareVars)
<1> USE DEF SharesExact
<1>0. /\ IInv /\ IInv' /\ BeforeExact /\ BeforeExact' /\ BaselinesExact /\ BaselinesExact'
      /\ AnswersKnown /\ AnswersKnown'
  BY SightIsExact, AnswersAreKnown, PTL
<1>1. Before' = Before
  BY <1>0 DEF BeforeExact
<1>2. Baselines' = Baselines
  BY <1>0 DEF BaselinesExact, Registered
<1>3. \A q \in Proposals : (Registered(q)' <=> Registered(q)) /\ (Open(q)' <=> Open(q))
  BY DEF Registered, Open
<1>4. Answers' = [q \in Proposals |-> Answers'[q]] /\ Answers = [q \in Proposals |-> Answers[q]]
  BY DEF Answers
<1>5. ASSUME NEW q \in Proposals, settlements'[q] = settlements[q] PROVE Answers'[q] = Answers[q]
  BY <1>0, <1>3, <1>5 DEF AnswersKnown
<1>6. CASE Answers' = Answers
  BY <1>1, <1>2, <1>6 DEF Promise!shareVars
<1>7. CASE Answers' # Answers
  <2>1. PICK p \in Proposals : /\ Open(p)
                               /\ settlements[p].cursor # Len(balanceJournal)
                               /\ \A q \in Proposals : q # p => settlements'[q] = settlements[q]
    BY <1>4, <1>5, <1>7
  <2>2. Answers[p] = Unsettled
    BY <1>0, <2>1 DEF AnswersKnown
  <2>3. \A q \in Proposals : q # p => Answers'[q] = Answers[q]
    BY <1>5, <2>1
  <2>4. Answers'[p] # Unsettled
    BY <1>4, <1>7, <2>2, <2>3
  <2>5. Answers'[p] = deficit[p]
    BY <1>0, <1>3, <2>1, <2>4 DEF AnswersKnown
  <2>6. Answers' = [Answers EXCEPT ![p] = Promise!Deficit(p)]
    BY <1>4, <2>1, <2>3, <2>5, PromisedDeficit
  <2>7. Promise!Settle(p)
    BY <1>1, <1>2, <2>1, <2>2, <2>6 DEF Promise!Settle, Open, Registered
  <2> QED
    BY <2>7 DEF Promise!ShareNext
<1> QED
  BY <1>6, <1>7

LEMMA PromiseStep ==
  ASSUME SharesExact, SharesExact', [HNext]_allVars
  PROVE  [Promise!ShareNext]_(Promise!shareVars)
<1> USE DEF SharesExact
<1>0. \A m \in Members : balanceOf[m] \in Nat
  BY DEF IInv, HTypeOK, TypeOK
<1>1. ASSUME NEW m \in Members, NEW amount \in Amounts, HMint(m, amount)
      PROVE  Promise!ShareNext
  <2>1. /\ ChangeBalance(m, balanceOf[m] + amount, totalSupply + amount)
        /\ RecordChange(m, balanceOf[m] + amount) /\ totalSupply + amount <= SupplyCap
    BY <1>1 DEF HMint, Mint
  <2>2. balanceOf[m] \in Nat /\ totalSupply \in Int /\ amount \in Nat /\ amount # 0
    BY AmountsAssumption DEF IInv, HTypeOK, TypeOK
  <2>3. balanceOf[m] <= totalSupply
    BY MemberOfSupply
  <2>4. /\ balanceOf[m] + amount \in Nat /\ totalSupply + amount \in Int
        /\ balanceOf[m] + amount # balanceOf[m] /\ balanceOf[m] + amount <= SupplyCap
    BY <2>1, <2>2, <2>3, BoundsAssumption
  <2> QED
    BY <2>1, <2>4, PromisedChange
<1>2. ASSUME NEW m \in Members, NEW amount \in Amounts, HBurn(m, amount)
      PROVE  Promise!ShareNext
  <2>1. /\ amount <= balanceOf[m]
        /\ ChangeBalance(m, balanceOf[m] - amount, totalSupply - amount)
        /\ RecordChange(m, balanceOf[m] - amount)
    BY <1>2 DEF HBurn, Burn
  <2>2. balanceOf[m] \in Nat /\ totalSupply \in Int /\ amount \in Nat /\ amount # 0
    BY AmountsAssumption DEF IInv, HTypeOK, TypeOK
  <2>3. balanceOf[m] <= totalSupply /\ totalSupply <= SupplyCap
    BY MemberOfSupply DEF CapInv
  <2>4. /\ balanceOf[m] - amount \in Nat /\ totalSupply - amount \in Int
        /\ balanceOf[m] - amount # balanceOf[m] /\ balanceOf[m] - amount <= SupplyCap
    BY <2>1, <2>2, <2>3, BoundsAssumption
  <2> QED
    BY <2>1, <2>4, PromisedChange
<1>3. ASSUME NEW p \in Proposals, HRegisterProposal(p) PROVE Promise!ShareNext
  BY <1>3, PromisedRegister
<1>4. CASE HTick
  BY <1>4, PromisedTick
<1>5. ASSUME NEW p \in Proposals, NEW count \in 1..MaxJournal, HSettleRetention(p, count)
      PROVE  [Promise!ShareNext]_(Promise!shareVars)
  BY <1>5, PromisedReplay DEF HSettleRetention, SettleRetention, history
<1>6. CASE HReplayRecord \/ HReplayOutOfGas
  BY <1>6, PromisedReplay DEF HReplayRecord, ReplayRecord, HReplayOutOfGas, ReplayOutOfGas, history
<1>7. CASE HReplayReturn
  <2>1. /\ replay.running /\ replay \in Calls
        /\ UNCHANGED <<now, balanceOf, votingStarts, endOf, deficit, balanceJournal>>
        /\ settlements' = [settlements EXCEPT ![replay.proposal] =
                             [cursor |-> replay.cursor, growth |-> replay.growth]]
    BY <1>7 DEF HReplayReturn, ReplayReturn, history, IInv, HTypeOK, TypeOK, Idle
  <2>2. replay.proposal \in Proposals /\ Open(replay.proposal)
        /\ settlements[replay.proposal].cursor < replay.stop /\ replay.stop <= Len(balanceJournal)
    BY <2>1 DEF Calls, IInv, SettlementInv, CursorInv
  <2>3. settlements[replay.proposal].cursor # Len(balanceJournal)
    <3>1. /\ settlements[replay.proposal].cursor \in Nat /\ replay.stop \in Nat
          /\ Len(balanceJournal) \in Nat
      BY <2>1, <2>2, TypeFacts DEF IInv, HTypeOK, TypeOK, Settlements, Calls
    <3> QED
      BY <2>2, <3>1
  <2>4. \A q \in Proposals : q # replay.proposal => settlements'[q] = settlements[q]
    BY <2>1 DEF IInv, HTypeOK, TypeOK
  <2> QED
    BY <2>1, <2>2, <2>3, <2>4, PromisedReplay
<1>8. CASE UNCHANGED allVars
  <2>1. /\ UNCHANGED <<now, balanceOf, votingStarts, endOf, deficit, balanceJournal>>
        /\ settlements' = settlements
    BY <1>8 DEF allVars, vars, history
  <2> QED
    BY <2>1, PromisedReplay
<1> QED
  BY <1>1, <1>2, <1>3, <1>4, <1>5, <1>6, <1>7, <1>8 DEF HNext

\* The token implements the promise the governance is built on: with its checkpoints,
\* its journal and its replay in chunks it answers, at every moment, what
\* ShareRetention answers (NavShareToken.getPastVotes, exitedSince).
THEOREM PromiseIsKept == HSpec => PromiseKept
<1>1. HInit => Promise!ShareInit
  <2> SUFFICES ASSUME HInit PROVE Promise!ShareInit
    OBVIOUS
  <2>1. /\ now = 1 /\ balanceOf = [m \in Members |-> 0]
        /\ votingStarts = [p \in Proposals |-> 0]
    BY DEF HInit, Init
  <2>2. Before = [m \in Members |-> 0]
    BY DEF HInit, Init, Before, Past
  <2>3. /\ Baselines = [p \in Proposals |-> [m \in Members |-> 0]]
        /\ Answers = [p \in Proposals |-> Unsettled]
    BY <2>1 DEF Baselines, Answers, Registered
  <2> QED
    BY <2>1, <2>2, <2>3 DEF Promise!ShareInit
<1>2. SharesExact /\ SharesExact' /\ [HNext]_allVars => [Promise!ShareNext]_(Promise!shareVars)
  BY PromiseStep
<1> QED
  BY <1>1, <1>2, SumsInvariant, PTL DEF HSpec, PromiseKept, Promise!ShareSpec

(***************************************************************************)
(* The search among the checkpoints.                                       *)
(***************************************************************************)

\* What the search is given: an increasing sequence of seconds.
LEMMA TimesType ==
  ASSUME SearchTypeOK
  PROVE  /\ times \in Seq(Nat) /\ Len(times) \in Nat
         /\ \A i \in 1..Len(times) : times[i] \in Nat
         /\ Sorted(times)
         /\ timePoint \in Nat
BY HistoriesSorted, TimePointsAssumption DEF SearchTypeOK

LEMMA SearchStarts == SearchInit => SearchInv
<1> SUFFICES ASSUME SearchInit PROVE SearchInv
  OBVIOUS
<1>1. times \in Seq(Nat)
  BY HistoriesSorted DEF SearchInit
<1> QED
  BY <1>1 DEF SearchInit, SearchInv, SearchTypeOK, RangeInv, LookupExact

\* The middle of a range that holds two positions or more lies above lower.
LEMMA CenterInRange ==
  ASSUME SearchTypeOK, upper > lower
  PROVE  /\ Center \in Nat
         /\ lower < Center /\ Center <= upper
         /\ Center - 1 \in Nat
         /\ upper - Center <= (upper - lower) \div 2
         /\ Center - 1 - lower <= (upper - lower) \div 2
BY DEF SearchTypeOK, Center

LEMMA SearchGoesOn == SearchInv /\ [SearchNext]_searchVars => SearchInv'
<1> SUFFICES ASSUME SearchInv, [SearchNext]_searchVars PROVE SearchInv'
  OBVIOUS
<1> USE DEF SearchInv
<1>0. /\ times \in Seq(Nat) /\ Len(times) \in Nat
      /\ \A i \in 1..Len(times) : times[i] \in Nat
      /\ Sorted(times)
      /\ timePoint \in Nat
  BY TimesType
<1>1. CASE Entry
  <2>1. CASE Len(times) = 0 /\ Return(0)
    BY <1>0, <1>1, <2>1 DEF Entry, Return, SearchTypeOK, RangeInv, LookupExact, IsNewest
  <2>2. CASE Len(times) > 0 /\ times[Len(times)] <= timePoint /\ Return(Len(times))
    BY <1>0, <1>1, <2>2 DEF Entry, Return, SearchTypeOK, RangeInv, LookupExact, IsNewest
  <2>3. CASE /\ Len(times) > 0 /\ times[Len(times)] > timePoint
             /\ times[1] > timePoint
             /\ Return(0)
    <3>1. \A j \in 1..Len(times) : times[j] > timePoint
      BY <1>0, <2>3 DEF Sorted
    <3> QED
      BY <1>0, <1>1, <2>3, <3>1 DEF Entry, Return, SearchTypeOK, RangeInv, LookupExact, IsNewest
  <2>4. CASE /\ Len(times) > 0 /\ times[Len(times)] > timePoint
             /\ times[1] <= timePoint
             /\ pc' = "loop"
             /\ UNCHANGED <<times, timePoint, lower, upper, result>>
    <3>1. lower = 1 /\ upper = Len(times)
      BY <1>1 DEF Entry, RangeInv
    <3> QED
      BY <1>0, <1>1, <2>4, <3>1 DEF Entry, SearchTypeOK, RangeInv, LookupExact
  <2> QED
    BY <1>1, <2>1, <2>2, <2>3, <2>4 DEF Entry
<1>2. CASE Turn
  <2>1. /\ Center \in Nat
        /\ lower < Center /\ Center <= upper
        /\ Center - 1 \in Nat
        /\ pc = "loop"
    BY <1>2, CenterInRange DEF Turn
  <2>2. /\ 1 <= lower /\ upper <= Len(times)
        /\ times[lower] <= timePoint
        /\ \A j \in 1..Len(times) : j > upper => times[j] > timePoint
        /\ lower \in Nat /\ upper \in Nat
    BY <2>1 DEF RangeInv, SearchTypeOK
  <2>3. CASE times[Center] = timePoint /\ Return(Center)
    <3>1. \A j \in 1..Len(times) : j > Center => times[j] > timePoint
      BY SMTT(30), <1>0, <2>1, <2>2, <2>3 DEF Sorted
    <3>2. Center \in 1..Len(times) /\ Center # 0
      BY <1>0, <2>1, <2>2
    <3> HIDE DEF SearchInv
    <3>3. /\ times' = times /\ timePoint' = timePoint /\ lower' = lower
          /\ upper' = upper /\ result' = Center /\ pc' = "returned"
      BY <2>3 DEF Return
    <3>4. IsNewest(result)'
      BY <2>3, <3>1, <3>2, <3>3, <1>0 DEF IsNewest
    <3>5. SearchTypeOK'
      BY <2>1, <3>3 DEF SearchTypeOK, SearchInv
    <3> QED
      BY <3>3, <3>4, <3>5 DEF SearchInv, RangeInv, LookupExact
  <2>4. CASE /\ times[Center] < timePoint
             /\ lower' = Center
             /\ UNCHANGED <<times, timePoint, upper, result, pc>>
    BY <1>0, <2>1, <2>2, <2>4 DEF SearchTypeOK, RangeInv, LookupExact
  <2>5. CASE /\ times[Center] > timePoint
             /\ upper' = Center - 1
             /\ UNCHANGED <<times, timePoint, lower, result, pc>>
    <3>1. \A j \in 1..Len(times) : j > Center - 1 => times[j] > timePoint
      BY SMTT(30), <1>0, <2>1, <2>2, <2>5 DEF Sorted
    <3> QED
      BY <1>0, <2>1, <2>2, <2>5, <3>1 DEF SearchTypeOK, RangeInv, LookupExact
  <2> QED
    BY <1>2, <2>3, <2>4, <2>5 DEF Turn
<1>3. CASE LoopExit
  <2>1. lower = upper /\ lower \in Nat /\ 1 <= lower /\ upper <= Len(times)
    BY <1>3 DEF LoopExit, RangeInv, SearchTypeOK
  <2>2. IsNewest(lower)
    BY <1>0, <1>3, <2>1 DEF LoopExit, RangeInv, IsNewest
  <2>3. /\ times' = times /\ timePoint' = timePoint /\ lower' = lower
        /\ upper' = upper /\ result' = lower /\ pc' = "returned"
    BY <1>3 DEF LoopExit, Return
  <2>4. IsNewest(result)'
    BY <2>2, <2>3 DEF IsNewest
  <2> QED
    BY <2>1, <2>3, <2>4 DEF SearchTypeOK, RangeInv, LookupExact
<1>4. CASE UNCHANGED searchVars
  BY <1>4 DEF searchVars, SearchTypeOK, RangeInv, LookupExact, IsNewest
<1> QED
  BY <1>1, <1>2, <1>3, <1>4 DEF SearchNext

(***************************************************************************)
(* The lookup is exact: for every history in increasing time and every     *)
(* second, what _past returns is the newest checkpoint not after it.       *)
(***************************************************************************)
THEOREM LookupIsExact == SearchSpec => []LookupExact
<1>1. SearchSpec => []SearchInv
  BY SearchStarts, SearchGoesOn, PTL DEF SearchSpec
<1>2. SearchInv => LookupExact
  BY DEF SearchInv
<1> QED
  BY <1>1, <1>2, PTL

(***************************************************************************)
(* The search ends: every turn that stays in the loop at least halves the  *)
(* range.                                                                  *)
(***************************************************************************)
THEOREM SearchHalves == SearchSpec => RangeHalves
<1>1. SearchSpec => []SearchInv
  BY SearchStarts, SearchGoesOn, PTL DEF SearchSpec
<1>2. SearchInv /\ [SearchNext]_searchVars
        => [pc = "loop" /\ pc' = "loop"
              => upper' - lower' <= (upper - lower) \div 2]_searchVars
  <2> SUFFICES ASSUME SearchInv, SearchNext, pc = "loop", pc' = "loop"
               PROVE  upper' - lower' <= (upper - lower) \div 2
    BY DEF searchVars
  <2>1. Turn
    BY DEF SearchNext, Entry, LoopExit, Return
  <2>2. /\ upper - Center <= (upper - lower) \div 2
        /\ Center - 1 - lower <= (upper - lower) \div 2
    BY <2>1, CenterInRange DEF Turn, SearchInv
  <2> QED
    BY <2>1, <2>2 DEF Turn, Return
<1> QED
  BY <1>1, <1>2, PTL DEF SearchSpec, RangeHalves

TimesOf(h) == [i \in 1..Len(h) |-> h[i].fromTimePoint]

\* What the search found is what Past calls the weight at that second.
SearchIsPast ==
  pc = "returned" =>
    \A h \in Seq(Checkpoints) : TimesOf(h) = times =>
      Past(h, timePoint) = IF result = 0 THEN 0 ELSE h[result].votes

\* The loop of _past computes what the model of the token looks up with one CHOOSE.
THEOREM SearchComputesPast == SearchSpec => []SearchIsPast
<1>1. SearchInv => SearchIsPast
  <2> SUFFICES ASSUME SearchInv, pc = "returned",
                      NEW h \in Seq(Checkpoints), TimesOf(h) = times
               PROVE  Past(h, timePoint) = IF result = 0 THEN 0 ELSE h[result].votes
    BY DEF SearchIsPast
  <2>1. /\ Len(h) \in Nat /\ Len(times) = Len(h)
        /\ \A i \in 1..Len(h) : times[i] = h[i].fromTimePoint
    BY DEF TimesOf
  <2>2. /\ Sorted(times) /\ \A i \in 1..Len(h) : times[i] \in Nat
        /\ timePoint \in Nat /\ result \in Nat /\ IsNewest(result)
    BY <2>1, TimesType DEF SearchInv, LookupExact, SearchTypeOK
  <2>3. CASE result = 0
    <3>1. ~ \E i \in 1..Len(h) : IsLatest(h, i, timePoint)
      BY <2>1, <2>2, <2>3 DEF IsNewest, IsLatest
    <3> QED
      BY <2>3, <3>1 DEF Past
  <2>4. CASE result # 0
    <3>1. result \in 1..Len(h) /\ IsLatest(h, result, timePoint)
      BY <2>1, <2>2, <2>4 DEF IsNewest, IsLatest
    <3>2. ASSUME NEW i \in 1..Len(h), IsLatest(h, i, timePoint) PROVE i = result
      <4>1. ~(i > result)
        BY <2>1, <2>2, <2>4, <3>2 DEF IsNewest, IsLatest
      <4>2. ~(i < result)
        <5>1. ASSUME i < result PROVE FALSE
          <6>1. i + 1 \in 1..Len(h) /\ times[i + 1] > timePoint
            BY <2>1, <3>1, <3>2, <5>1 DEF IsLatest
          <6>2. times[i + 1] <= times[result]
            BY <2>1, <2>2, <3>1, <5>1, <6>1 DEF Sorted
          <6>3. times[result] <= timePoint
            BY <2>2, <2>4 DEF IsNewest
          <6> QED
            BY <2>1, <2>2, <3>1, <6>1, <6>2, <6>3
        <5> QED
          BY <5>1
      <4> QED
        BY <3>1, <4>1, <4>2
    <3>3. (CHOOSE i \in 1..Len(h) : IsLatest(h, i, timePoint)) = result
      BY <3>1, <3>2
    <3> QED
      BY <2>4, <3>1, <3>3 DEF Past
  <2> QED
    BY <2>3, <2>4
<1>2. SearchSpec => []SearchInv
  BY SearchStarts, SearchGoesOn, PTL DEF SearchSpec
<1> QED
  BY <1>1, <1>2, PTL
===============================================================================
