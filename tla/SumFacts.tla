------------------------------- MODULE SumFacts -------------------------------
(***************************************************************************)
(* Facts about sums over finite sets: what the accounting of the contracts *)
(* and of the relay is proved with.  The models write their sums with      *)
(* MapThenSumSet of FiniteSetsExt, which SumFold turns into Sum.           *)
(*                                                                         *)
(* Every induction over a finite set is by a smallest counterexample: the  *)
(* strict subset ordering of the finite subsets is well-founded, so a set  *)
(* of counterexamples that is not empty has a member no proper subset of   *)
(* which is one (SmallestSubset).                                          *)
(***************************************************************************)
EXTENDS Integers, FiniteSetsExt, FiniteSetTheorems, WellFoundedInduction, TLAPS

\* g is the table of the sums of F over the subsets of S.
IsSum(g, S, F) ==
  g = [T \in SUBSET S |-> IF T = {} THEN 0
                          ELSE F[CHOOSE x \in T : TRUE] + g[T \ {CHOOSE x \in T : TRUE}]]

\* The sum of F over S.
Sum(F, S) == (CHOOSE g : IsSum(g, S, F))[S]

\* Sets of subsets of a finite set have a minimal member.
LEMMA SmallestSubset ==
  ASSUME NEW S, IsFiniteSet(S), NEW Bad \in SUBSET (SUBSET S), Bad # {}
  PROVE  \E T \in Bad : \A U \in SUBSET T : U # T => U \notin Bad
<1>1. IsWellFoundedOn(StrictSubsetOrdering(S), FiniteSubsetsOf(S))
  BY FS_StrictSubsetOrderingWellFounded
<1>2. Bad \subseteq FiniteSubsetsOf(S)
  BY FS_Subset DEF FiniteSubsetsOf
<1>3. PICK T \in Bad : \A U \in Bad : ~(<<U, T>> \in StrictSubsetOrdering(S))
  BY <1>1, <1>2, WFMin
<1>4. ASSUME NEW U \in SUBSET T, U # T, U \in Bad PROVE FALSE
  BY <1>3, <1>4 DEF StrictSubsetOrdering
<1> QED
  BY <1>3, <1>4

\* The summand MapThenSumSet takes first is one of the set.
LEMMA PickIsMember ==
  ASSUME NEW T, T # {}
  PROVE  (CHOOSE x \in T : TRUE) \in T
  OBVIOUS

\* The sums the models are written with are these sums.
LEMMA SumFold ==
  ASSUME NEW F, NEW S
  PROVE  MapThenSumSet(LAMBDA x : F[x], S) = Sum(F, S)
  BY DEF MapThenSumSet, MapThenFoldSet, Sum, IsSum

\* Two tables agree on every common set on which the summands agree.
LEMMA SumsAgree ==
  ASSUME NEW S, IsFiniteSet(S), NEW R, NEW F, NEW G, NEW f, NEW g,
         IsSum(f, S, F), IsSum(g, R, G),
         NEW T, T \subseteq S, T \subseteq R, \A x \in T : F[x] = G[x]
  PROVE  f[T] = g[T]
<1> DEFINE Bad == {U \in SUBSET S : U \subseteq T /\ f[U] # g[U]}
<1>1. SUFFICES ASSUME Bad # {} PROVE FALSE
  OBVIOUS
<1>2. PICK U \in Bad : \A V \in SUBSET U : V # U => V \notin Bad
  <2> HIDE DEF Bad
  <2>1. Bad \in SUBSET (SUBSET S)
    BY DEF Bad
  <2> QED
    BY <1>1, <2>1, SmallestSubset
<1>3. /\ f[U] = IF U = {} THEN 0
                ELSE F[CHOOSE x \in U : TRUE] + f[U \ {CHOOSE x \in U : TRUE}]
      /\ g[U] = IF U = {} THEN 0
                ELSE G[CHOOSE x \in U : TRUE] + g[U \ {CHOOSE x \in U : TRUE}]
  BY DEF IsSum
<1>4. U # {}
  BY <1>3
<1>5. PICK y \in U : y = CHOOSE x \in U : TRUE
  BY <1>4, PickIsMember
<1>6. U \ {y} \in SUBSET U /\ U \ {y} # U /\ U \ {y} \in SUBSET S /\ U \ {y} \subseteq T
  OBVIOUS
<1>7. f[U \ {y}] = g[U \ {y}]
  BY <1>2, <1>6
<1>8. F[y] = G[y]
  OBVIOUS
<1> QED
  BY <1>3, <1>4, <1>5, <1>7, <1>8

\* Every finite set has a table of sums.
LEMMA SumExists ==
  ASSUME NEW S, IsFiniteSet(S), NEW F
  PROVE  \E g : IsSum(g, S, F)
<1> DEFINE Bad == {T \in SUBSET S : ~ \E g : IsSum(g, T, F)}
<1>1. SUFFICES ASSUME Bad # {} PROVE FALSE
  OBVIOUS
<1>2. PICK T \in Bad : \A U \in SUBSET T : U # T => U \notin Bad
  <2> HIDE DEF Bad
  <2>1. Bad \in SUBSET (SUBSET S)
    BY DEF Bad
  <2> QED
    BY <1>1, <2>1, SmallestSubset
<1> DEFINE h == [U \in SUBSET T |-> CHOOSE g : IsSum(g, U, F)]
           last == CHOOSE x \in T : TRUE
           all == [U \in SUBSET T |->
                     IF U # T THEN h[U][U]
                     ELSE IF T = {} THEN 0 ELSE F[last] + h[T \ {last}][T \ {last}]]
<1>3. \A U \in SUBSET T : U # T => IsSum(h[U], U, F)
  <2> SUFFICES ASSUME NEW U \in SUBSET T, U # T PROVE IsSum(h[U], U, F)
    OBVIOUS
  <2>1. \E g : IsSum(g, U, F)
    BY <1>2
  <2>2. IsSum(CHOOSE g : IsSum(g, U, F), U, F)
    BY <2>1
  <2> QED
    BY <2>2
<1>4. \A U \in SUBSET T : \A V \in SUBSET U : U # T => h[U][V] = h[V][V]
  <2> SUFFICES ASSUME NEW U \in SUBSET T, NEW V \in SUBSET U, U # T PROVE h[U][V] = h[V][V]
    OBVIOUS
  <2> HIDE DEF h
  <2>1. V \in SUBSET T /\ V # T
    OBVIOUS
  <2>2. IsSum(h[U], U, F) /\ IsSum(h[V], V, F)
    BY <1>3, <2>1
  <2>3. IsFiniteSet(U)
    BY FS_Subset
  <2> QED
    BY <2>2, <2>3, SumsAgree
<1>5. ASSUME NEW U \in SUBSET T
      PROVE  all[U] = IF U = {} THEN 0
                      ELSE F[CHOOSE x \in U : TRUE] + all[U \ {CHOOSE x \in U : TRUE}]
  <2> HIDE DEF h
  <2>0. CASE U = {}
    <3>1. CASE T = {}
      BY <2>0, <3>1
    <3>2. CASE T # {}
      <4>1. IsSum(h[U], U, F)
        BY <1>3, <2>0, <3>2
      <4>2. h[U][U] = 0
        BY <4>1, <2>0 DEF IsSum
      <4> QED
        BY <4>2, <2>0, <3>2
    <3> QED
      BY <3>1, <3>2
  <2>1. CASE U # {}
    <3> DEFINE y == CHOOSE x \in U : TRUE
    <3>1. y \in U
      BY <2>1, PickIsMember
    <3> HIDE DEF y
    <3>2. U \ {y} \in SUBSET T /\ U \ {y} # T /\ U \ {y} \in SUBSET U
      BY <3>1
    <3>3. all[U \ {y}] = h[U \ {y}][U \ {y}]
      BY <3>2
    <3>4. CASE U = T
      BY <3>4, <2>1, <3>3 DEF y
    <3>5. CASE U # T
      <4>1. IsSum(h[U], U, F)
        BY <1>3, <3>5
      <4>2. h[U][U] = F[y] + h[U][U \ {y}]
        BY <4>1, <2>1 DEF IsSum, y
      <4>3. h[U][U \ {y}] = h[U \ {y}][U \ {y}]
        BY <1>4, <3>2, <3>5
      <4>4. all[U] = h[U][U]
        BY <3>5
      <4> QED
        BY <4>2, <4>3, <4>4, <3>3, <2>1 DEF y
    <3> QED
      BY <3>4, <3>5
  <2> QED
    BY <2>0, <2>1
<1>6. IsSum(all, T, F)
  <2> HIDE DEF h
  <2>1. all = [U \in SUBSET T |-> all[U]]
    OBVIOUS
  <2> HIDE DEF all
  <2> QED
    BY <2>1, <1>5 DEF IsSum
<1> QED
  BY <1>6, <1>2

\* So the table that is chosen is one.
LEMMA SumIsSum ==
  ASSUME NEW S, IsFiniteSet(S), NEW F
  PROVE  IsSum(CHOOSE g : IsSum(g, S, F), S, F)
BY SumExists

\* The sum over no members is zero.
LEMMA SumEmpty ==
  ASSUME NEW F
  PROVE  Sum(F, {}) = 0
<1>1. IsSum(CHOOSE g : IsSum(g, {}, F), {}, F)
  BY SumIsSum, FS_EmptySet
<1> QED
  BY <1>1 DEF Sum, IsSum

\* A table holds the sums of the subsets.
LEMMA SumOfPart ==
  ASSUME NEW S, IsFiniteSet(S), NEW F, NEW g, IsSum(g, S, F), NEW T \in SUBSET S
  PROVE  g[T] = Sum(F, T)
<1>1. IsFiniteSet(T)
  BY FS_Subset
<1>2. IsSum(CHOOSE f : IsSum(f, T, F), T, F)
  BY <1>1, SumIsSum
<1> QED
  BY <1>1, <1>2, SumsAgree DEF Sum

\* The recursion of the sum.
LEMMA SumUnfold ==
  ASSUME NEW S, IsFiniteSet(S), NEW F, S # {}
  PROVE  Sum(F, S) = F[CHOOSE x \in S : TRUE] + Sum(F, S \ {CHOOSE x \in S : TRUE})
<1> DEFINE g == CHOOSE f : IsSum(f, S, F)
           y == CHOOSE x \in S : TRUE
<1>1. IsSum(g, S, F)
  BY SumIsSum
<1> HIDE DEF g
<1>2. g[S] = F[y] + g[S \ {y}]
  BY <1>1 DEF IsSum
<1>3. S \ {y} \in SUBSET S
  OBVIOUS
<1> HIDE DEF y
<1>4. g[S \ {y}] = Sum(F, S \ {y}) /\ g[S] = Sum(F, S)
  BY <1>1, <1>3, SumOfPart
<1> QED
  BY <1>2, <1>4 DEF y

\* Only the values on the set matter.
LEMMA SumSame ==
  ASSUME NEW S, IsFiniteSet(S), NEW F, NEW G, \A x \in S : F[x] = G[x]
  PROVE  Sum(F, S) = Sum(G, S)
<1>1. /\ IsSum(CHOOSE g : IsSum(g, S, F), S, F)
      /\ IsSum(CHOOSE g : IsSum(g, S, G), S, G)
  BY SumIsSum
<1> QED
  BY <1>1, SumsAgree DEF Sum

\* A set that holds 0 and every sum of two of its members holds every sum.
LEMMA SumClosed ==
  ASSUME NEW A, 0 \in A, \A a, b \in A : a + b \in A,
         NEW S, IsFiniteSet(S), NEW F, \A x \in S : F[x] \in A
  PROVE  Sum(F, S) \in A
<1> DEFINE Bad == {T \in SUBSET S : Sum(F, T) \notin A}
<1>1. SUFFICES ASSUME Bad # {} PROVE FALSE
  OBVIOUS
<1>2. PICK T \in Bad : \A U \in SUBSET T : U # T => U \notin Bad
  <2> HIDE DEF Bad
  <2>1. Bad \in SUBSET (SUBSET S)
    BY DEF Bad
  <2> QED
    BY <1>1, <2>1, SmallestSubset
<1>3. T # {}
  BY SumEmpty
<1>4. PICK y \in T : y = CHOOSE x \in T : TRUE
  BY <1>3, PickIsMember
<1>5. Sum(F, T) = F[y] + Sum(F, T \ {y})
  BY <1>3, <1>4, SumUnfold, FS_Subset
<1>6. Sum(F, T \ {y}) \in A
  BY <1>2
<1> QED
  BY <1>5, <1>6

\* A sum of naturals is a natural.
LEMMA SumNat ==
  ASSUME NEW S, IsFiniteSet(S), NEW F, \A x \in S : F[x] \in Nat
  PROVE  Sum(F, S) \in Nat
<1>1. 0 \in Nat /\ \A a, b \in Nat : a + b \in Nat
  OBVIOUS
<1> QED
  BY <1>1, SumClosed

\* A sum of integers is an integer.
LEMMA SumInt ==
  ASSUME NEW S, IsFiniteSet(S), NEW F, \A x \in S : F[x] \in Int
  PROVE  Sum(F, S) \in Int
<1>1. 0 \in Int /\ \A a, b \in Int : a + b \in Int
  OBVIOUS
<1> QED
  BY <1>1, SumClosed

\* A sum of zeros is zero.
LEMMA SumZero ==
  ASSUME NEW S, IsFiniteSet(S), NEW F, \A x \in S : F[x] = 0
  PROVE  Sum(F, S) = 0
<1>1. 0 \in {0} /\ \A a, b \in {0} : a + b \in {0}
  OBVIOUS
<1>2. Sum(F, S) \in {0}
  BY <1>1, SumClosed
<1> QED
  BY <1>2

\* The order of the summands does not matter: any member may be taken out.
LEMMA SumRemove ==
  ASSUME NEW S, IsFiniteSet(S), NEW F, \A x \in S : F[x] \in Int, NEW a \in S
  PROVE  Sum(F, S) = F[a] + Sum(F, S \ {a})
<1> DEFINE Bad == {T \in SUBSET S : \E x \in T : Sum(F, T) # F[x] + Sum(F, T \ {x})}
<1>1. SUFFICES ASSUME Bad # {} PROVE FALSE
  OBVIOUS
<1>2. PICK T \in Bad : \A U \in SUBSET T : U # T => U \notin Bad
  <2> HIDE DEF Bad
  <2>1. Bad \in SUBSET (SUBSET S)
    BY DEF Bad
  <2> QED
    BY <1>1, <2>1, SmallestSubset
<1>3. PICK b \in T : Sum(F, T) # F[b] + Sum(F, T \ {b})
  OBVIOUS
<1>4. PICK y \in T : y = CHOOSE x \in T : TRUE
  BY <1>3, PickIsMember
<1>5. Sum(F, T) = F[y] + Sum(F, T \ {y})
  BY <1>4, SumUnfold, FS_Subset
<1>6. b # y
  BY <1>3, <1>5
<1>7. /\ T \ {y} \in SUBSET T /\ T \ {y} # T /\ T \ {y} \in SUBSET S /\ b \in T \ {y}
      /\ T \ {b} \in SUBSET T /\ T \ {b} # T /\ T \ {b} \in SUBSET S /\ y \in T \ {b}
      /\ (T \ {y}) \ {b} = (T \ {b}) \ {y} /\ (T \ {y}) \ {b} \in SUBSET S
  BY <1>6
<1>8. Sum(F, T \ {y}) = F[b] + Sum(F, (T \ {y}) \ {b})
  BY <1>2, <1>7
<1>9. Sum(F, T \ {b}) = F[y] + Sum(F, (T \ {b}) \ {y})
  BY <1>2, <1>7
<1>10. Sum(F, (T \ {y}) \ {b}) \in Int /\ F[b] \in Int /\ F[y] \in Int
  <2>1. IsFiniteSet((T \ {y}) \ {b}) /\ \A x \in (T \ {y}) \ {b} : F[x] \in Int
    BY <1>7, FS_Subset
  <2> QED
    BY <2>1, SumInt
<1> QED
  BY <1>3, <1>5, <1>7, <1>8, <1>9, <1>10


\* One member more.
LEMMA SumAdd ==
  ASSUME NEW S, IsFiniteSet(S), NEW F, NEW a, a \notin S,
         \A x \in S \union {a} : F[x] \in Int
  PROVE  Sum(F, S \union {a}) = F[a] + Sum(F, S)
<1>1. IsFiniteSet(S \union {a}) /\ a \in S \union {a} /\ (S \union {a}) \ {a} = S
  BY FS_AddElement
<1> QED
  BY <1>1, SumRemove

\* Only the summand of a differs.
LEMMA SumChange ==
  ASSUME NEW S, IsFiniteSet(S), NEW a \in S, NEW F, NEW G,
         \A x \in S : F[x] \in Int /\ G[x] \in Int,
         \A x \in S \ {a} : F[x] = G[x]
  PROVE  Sum(G, S) = Sum(F, S) - F[a] + G[a]
<1>1. /\ Sum(F, S) = F[a] + Sum(F, S \ {a})
      /\ Sum(G, S) = G[a] + Sum(G, S \ {a})
  BY SumRemove
<1>2. IsFiniteSet(S \ {a})
  BY FS_RemoveElement
<1>3. Sum(F, S \ {a}) = Sum(G, S \ {a})
  BY <1>2, SumSame
<1>4. Sum(F, S \ {a}) \in Int /\ F[a] \in Int /\ G[a] \in Int
  BY <1>2, SumInt
<1> QED
  BY <1>1, <1>3, <1>4

\* The sum of sums.
LEMMA SumPlus ==
  ASSUME NEW S, IsFiniteSet(S), NEW F, NEW G, NEW H,
         \A x \in S : F[x] \in Int /\ G[x] \in Int /\ H[x] = F[x] + G[x]
  PROVE  Sum(H, S) = Sum(F, S) + Sum(G, S)
<1> DEFINE Bad == {T \in SUBSET S : Sum(H, T) # Sum(F, T) + Sum(G, T)}
<1>1. SUFFICES ASSUME Bad # {} PROVE FALSE
  OBVIOUS
<1>2. PICK T \in Bad : \A U \in SUBSET T : U # T => U \notin Bad
  <2> HIDE DEF Bad
  <2>1. Bad \in SUBSET (SUBSET S)
    BY DEF Bad
  <2> QED
    BY <1>1, <2>1, SmallestSubset
<1>3. PICK y : y \in T
  <2>1. Sum(F, {}) = 0 /\ Sum(G, {}) = 0 /\ Sum(H, {}) = 0
    BY SumEmpty
  <2> QED
    BY <2>1
<1>4. IsFiniteSet(T) /\ IsFiniteSet(T \ {y}) /\ T \ {y} \in SUBSET S
  BY FS_Subset, FS_RemoveElement
<1>5. /\ Sum(F, T) = F[y] + Sum(F, T \ {y}) /\ Sum(G, T) = G[y] + Sum(G, T \ {y})
      /\ Sum(H, T) = H[y] + Sum(H, T \ {y})
  <2>1. \A x \in T : F[x] \in Int /\ G[x] \in Int /\ H[x] \in Int
    OBVIOUS
  <2> QED
    BY <1>3, <1>4, <2>1, SumRemove
<1>6. Sum(H, T \ {y}) = Sum(F, T \ {y}) + Sum(G, T \ {y})
  BY <1>2, <1>3
<1>7. Sum(F, T \ {y}) \in Int /\ Sum(G, T \ {y}) \in Int
  BY <1>4, SumInt
<1> QED
  BY <1>3, <1>5, <1>6, <1>7

\* Larger summands, larger sum.
LEMMA SumAtMost ==
  ASSUME NEW S, IsFiniteSet(S), NEW F, NEW G,
         \A x \in S : F[x] \in Int /\ G[x] \in Int /\ F[x] <= G[x]
  PROVE  Sum(F, S) <= Sum(G, S)
<1> DEFINE D == [x \in S |-> G[x] - F[x]]
<1>1. \A x \in S : D[x] \in Nat /\ G[x] = F[x] + D[x]
  OBVIOUS
<1> HIDE DEF D
<1>2. Sum(G, S) = Sum(F, S) + Sum(D, S)
  BY <1>1, SumPlus
<1>3. Sum(D, S) \in Nat /\ Sum(F, S) \in Int
  BY <1>1, SumNat, SumInt
<1> QED
  BY <1>2, <1>3

\* Summands that are zero do not count.
LEMMA SumOfSome ==
  ASSUME NEW S, IsFiniteSet(S), NEW F, \A x \in S : F[x] \in Int,
         NEW T \in SUBSET S, \A x \in S \ T : F[x] = 0
  PROVE  Sum(F, S) = Sum(F, T)
<1> DEFINE Bad == {U \in SUBSET S : Sum(F, U) # Sum(F, U \cap T)}
<1>1. SUFFICES ASSUME Bad # {} PROVE FALSE
  <2>1. Sum(F, S) = Sum(F, S \cap T)
    BY <1>1
  <2>2. S \cap T = T
    OBVIOUS
  <2> QED
    BY <2>1, <2>2
<1>2. PICK U \in Bad : \A V \in SUBSET U : V # U => V \notin Bad
  <2> HIDE DEF Bad
  <2>1. Bad \in SUBSET (SUBSET S)
    BY DEF Bad
  <2> QED
    BY <1>1, <2>1, SmallestSubset
<1>3. PICK y : y \in U
  <2>1. {} \cap T = {}
    OBVIOUS
  <2> QED
    BY <2>1
<1>4. /\ IsFiniteSet(U) /\ U \ {y} \in SUBSET S /\ IsFiniteSet(U \cap T)
  BY FS_Subset
<1>5. Sum(F, U) = F[y] + Sum(F, U \ {y})
  BY <1>3, <1>4, SumRemove
<1>6. Sum(F, U \ {y}) = Sum(F, (U \ {y}) \cap T)
  BY <1>2, <1>3, <1>4
<1>7. CASE y \in T
  <2>1. y \in U \cap T /\ (U \cap T) \ {y} = (U \ {y}) \cap T
    BY <1>3, <1>7
  <2>2. Sum(F, U \cap T) = F[y] + Sum(F, (U \ {y}) \cap T)
    BY <2>1, <1>4, SumRemove
  <2> QED
    BY <1>5, <1>6, <2>2
<1>8. CASE y \notin T
  <2>1. (U \ {y}) \cap T = U \cap T /\ F[y] = 0
    BY <1>3, <1>8
  <2>2. Sum(F, U \cap T) \in Int
    BY <1>4, SumInt
  <2> QED
    BY <1>5, <1>6, <2>1, <2>2
<1> QED
  BY <1>7, <1>8

\* A sum of naturals is at least the sum over a part.
LEMMA SumOfSubset ==
  ASSUME NEW S, IsFiniteSet(S), NEW F, \A x \in S : F[x] \in Nat, NEW T \in SUBSET S
  PROVE  Sum(F, T) <= Sum(F, S)
<1> DEFINE G == [x \in S |-> IF x \in T THEN F[x] ELSE 0]
<1>1. /\ \A x \in S : G[x] \in Int /\ F[x] \in Int /\ G[x] <= F[x]
      /\ \A x \in S \ T : G[x] = 0
      /\ \A x \in T : F[x] = G[x]
  OBVIOUS
<1> HIDE DEF G
<1>2. Sum(G, S) = Sum(G, T)
  BY <1>1, SumOfSome
<1>3. IsFiniteSet(T) /\ Sum(F, T) = Sum(G, T)
  BY <1>1, FS_Subset, SumSame
<1>4. Sum(G, S) <= Sum(F, S)
  BY <1>1, SumAtMost
<1> QED
  BY <1>2, <1>3, <1>4

\* The sum over the members of a list, each once.
LEMMA SumReindexed ==
  ASSUME NEW S, IsFiniteSet(S), NEW h, \A x, y \in S : h[x] = h[y] => x = y,
         NEW F, NEW G, \A x \in S : G[x] = F[h[x]] /\ G[x] \in Int
  PROVE  Sum(G, S) = Sum(F, {h[x] : x \in S})
<1> DEFINE Image(U) == {h[x] : x \in U}
           Bad == {U \in SUBSET S : Sum(G, U) # Sum(F, Image(U))}
<1>1. SUFFICES ASSUME Bad # {} PROVE FALSE
  BY <1>1
<1>2. PICK U \in Bad : \A V \in SUBSET U : V # U => V \notin Bad
  <2> HIDE DEF Bad
  <2>1. Bad \in SUBSET (SUBSET S)
    BY DEF Bad
  <2> QED
    BY <1>1, <2>1, SmallestSubset
<1>3. PICK y : y \in U
  <2>1. Image({}) = {} /\ Sum(G, {}) = 0 /\ Sum(F, {}) = 0
    BY SumEmpty
  <2> QED
    BY <2>1
<1>4. IsFiniteSet(U) /\ U \ {y} \in SUBSET S /\ IsFiniteSet(U \ {y}) /\ y \in S
  BY <1>3, FS_Subset
<1>5. Sum(G, U) = G[y] + Sum(G, U \ {y})
  BY <1>3, <1>4, SumRemove
<1>6. Sum(G, U \ {y}) = Sum(F, Image(U \ {y}))
  BY <1>2, <1>3, <1>4
<1>7. Image(U) = Image(U \ {y}) \union {h[y]} /\ h[y] \notin Image(U \ {y})
  BY <1>3, <1>4
<1>8. IsFiniteSet(Image(U \ {y}))
  <2> DEFINE V == U \ {y}
             f == [x \in V |-> h[x]]
  <2>1. f \in Surjection(V, Image(V))
    BY DEF Surjection
  <2> HIDE DEF f
  <2> QED
    BY <1>4, <2>1, FS_Surjection
<1>9. \A z \in Image(U \ {y}) \union {h[y]} : F[z] \in Int
  BY <1>4
<1> HIDE DEF Image
<1>10. Sum(F, Image(U)) = F[h[y]] + Sum(F, Image(U \ {y}))
  BY <1>7, <1>8, <1>9, SumAdd
<1> QED
  BY <1>4, <1>5, <1>6, <1>10
===============================================================================
