-------------------------- MODULE OperatorProofs --------------------------
(***************************************************************************)
(* What operators of the models return, for arguments of every size: sums  *)
(* over finite sets, listings of a set along an order, tables filled row   *)
(* by row, the knapsack that Experiment C measures targeting against, the  *)
(* folds of cross-fitting, the estimators, percentiles of a sample, the    *)
(* inventory from its matches to its review, and the statistics of arms.   *)
(*                                                                         *)
(* MapThenSumSet and FoldSeq are functions defined by recursion over the   *)
(* subsets of a set, of which nothing is known until such a function has   *)
(* been shown to exist.  The induction is over sets: among the finite      *)
(* subsets with a property there is one that is minimal; a nonempty set of *)
(* naturals has a least member.                                            *)
(***************************************************************************)
EXTENDS Integers, Sequences, FiniteSets, FiniteSetsExt, Percentiles, RuleInstances,
        FiniteSetTheorems, SequenceTheorems, TLAPS

(* A nonempty collection of subsets of a finite set has a minimal member.   *)
LEMMA MinimalSubset ==
  ASSUME NEW S, IsFiniteSet(S), NEW C, \A U \in C : U \subseteq S, C # {}
  PROVE  \E T \in C : \A U \in C : ~ (U \subseteq T /\ U # T)
<1>1. IsWellFoundedOn(StrictSubsetOrdering(S), FiniteSubsetsOf(S))
  BY FS_StrictSubsetOrderingWellFounded
<1>2. C \subseteq FiniteSubsetsOf(S)
  BY FS_Subset DEF FiniteSubsetsOf
<1>3. PICK T \in C : \A U \in C : ~ (<<U, T>> \in StrictSubsetOrdering(S))
  BY <1>1, <1>2, WFMin
<1> QED BY <1>3, <1>2 DEF StrictSubsetOrdering, FiniteSubsetsOf

(* A nonempty set of naturals has a least member: the initial segments up   *)
(* to its members have a minimal one.                                      *)
LEMMA LeastNatural ==
  ASSUME NEW N \in SUBSET Nat, NEW b \in N
  PROVE  \E k \in N : \A j \in N : k <= j
<1> DEFINE M == {j \in N : j <= b}
           C == {0 .. j : j \in M}
<1>1. \A U \in C : U \subseteq 0 .. b
  OBVIOUS
<1>2. C # {}
  OBVIOUS
<1>0. IsFiniteSet(0 .. b)
  BY FS_Interval
<1> HIDE DEF C
<1>3. PICK T \in C : \A U \in C : ~ (U \subseteq T /\ U # T)
  BY <1>0, <1>1, <1>2, MinimalSubset
<1>4. PICK k \in M : T = 0 .. k
  BY DEF C
<1>5. ASSUME NEW j \in N, j < k PROVE FALSE
  <2>1. 0 .. j \in C
    BY <1>5 DEF C
  <2>2. 0 .. j \subseteq 0 .. k /\ 0 .. j # 0 .. k
    BY <1>5
  <2> QED BY <2>1, <2>2, <1>3, <1>4
<1> QED BY <1>4, <1>5
-----------------------------------------------------------------------------
Chosen(s) == CHOOSE x \in s : TRUE

(* The sum of the values of F over S, as the community modules compute it.  *)
SumOver(F, S) == MapThenSumSet(LAMBDA x : F[x], S)

(* g is the function whose value at S they return. *)
IsSum(g, F, S) ==
  g = [s \in SUBSET S |-> IF s = {} THEN 0 ELSE F[Chosen(s)] + g[s \ {Chosen(s)}]]

LEMMA ChosenIn == ASSUME NEW s, s # {} PROVE Chosen(s) \in s
BY DEF Chosen

(* The same function on the subsets of fewer than k elements. *)
Below(S, k) == {s \in SUBSET S : Cardinality(s) < k}
IsPartialSum(g, F, S, k) ==
  g = [s \in Below(S, k) |-> IF s = {} THEN 0 ELSE F[Chosen(s)] + g[s \ {Chosen(s)}]]

LEMMA PartialSumGrows ==
  ASSUME NEW F, NEW S, IsFiniteSet(S), NEW k \in Nat, NEW g, IsPartialSum(g, F, S, k)
  PROVE  \E h : IsPartialSum(h, F, S, k + 1)
<1> DEFINE h == [s \in Below(S, k + 1) |->
                   IF s = {} THEN 0 ELSE F[Chosen(s)] + g[s \ {Chosen(s)}]]
<1>1. ASSUME NEW s \in Below(S, k) PROVE s \in Below(S, k + 1) /\ h[s] = g[s]
  <2>1. s \in Below(S, k + 1)
    BY FS_Subset, FS_CardinalityType DEF Below
  <2> QED BY <2>1 DEF IsPartialSum
<1>2. ASSUME NEW s \in Below(S, k + 1), s # {} PROVE s \ {Chosen(s)} \in Below(S, k)
  <2>1. IsFiniteSet(s) /\ s \subseteq S
    BY FS_Subset DEF Below
  <2>2. Cardinality(s \ {Chosen(s)}) = Cardinality(s) - 1 /\ Cardinality(s) \in Nat
    BY <1>2, <2>1, FS_RemoveElement, FS_CardinalityType, ChosenIn
  <2> QED BY <2>1, <2>2 DEF Below
<1>3. \A s \in Below(S, k + 1) :
        h[s] = IF s = {} THEN 0 ELSE F[Chosen(s)] + h[s \ {Chosen(s)}]
  BY <1>1, <1>2
<1>4. h = [s \in Below(S, k + 1) |-> h[s]]
  OBVIOUS
<1> HIDE DEF h
<1>5. IsPartialSum(h, F, S, k + 1)
  BY <1>3, <1>4 DEF IsPartialSum
<1> QED BY <1>5

LEMMA PartialSumExists ==
  ASSUME NEW F, NEW S, IsFiniteSet(S), NEW k \in Nat
  PROVE  \E h : IsPartialSum(h, F, S, k)
<1> DEFINE N == {n \in Nat : ~ \E h : IsPartialSum(h, F, S, n)}
<1> SUFFICES ASSUME k \in N PROVE FALSE
  OBVIOUS
<1>1. PICK n \in N : \A j \in N : n <= j
  BY LeastNatural
<1>2. n # 0
  <2>1. Below(S, 0) = {}
    BY FS_Subset, FS_CardinalityType DEF Below
  <2>2. IsPartialSum([s \in {} |-> 0], F, S, 0)
    BY <2>1 DEF IsPartialSum
  <2> QED BY <2>2
<1>3. n - 1 \in Nat /\ n - 1 \notin N
  BY <1>1, <1>2
<1>4. PICK g : IsPartialSum(g, F, S, n - 1)
  BY <1>3
<1>5. \E h : IsPartialSum(h, F, S, (n - 1) + 1)
  BY <1>3, <1>4, PartialSumGrows
<1> QED BY <1>5, <1>1

LEMMA SumExists ==
  ASSUME NEW F, NEW S, IsFiniteSet(S)
  PROVE  \E g : IsSum(g, F, S)
<1>1. Cardinality(S) \in Nat /\ Cardinality(S) + 1 \in Nat
  BY FS_CardinalityType
<1>2. PICK g : IsPartialSum(g, F, S, Cardinality(S) + 1)
  BY <1>1, PartialSumExists
<1>3. Below(S, Cardinality(S) + 1) = SUBSET S
  BY <1>1, FS_Subset, FS_CardinalityType DEF Below
<1> QED BY <1>2, <1>3 DEF IsPartialSum, IsSum

LEMMA SumUnique ==
  ASSUME NEW F, NEW S, IsFiniteSet(S), NEW g, NEW h, IsSum(g, F, S), IsSum(h, F, S)
  PROVE  g = h
<1>1. ASSUME NEW s \in SUBSET S, g[s] # h[s] PROVE FALSE
  <2> DEFINE C == {u \in SUBSET S : g[u] # h[u]}
  <2>a. \A U \in C : U \subseteq S
    OBVIOUS
  <2>b. C # {}
    BY <1>1
  <2>1. PICK T \in C : \A U \in C : ~ (U \subseteq T /\ U # T)
    <3> HIDE DEF C
    <3> QED BY <2>a, <2>b, MinimalSubset
  <2>2. T # {}
    BY DEF IsSum
  <2>3. g[T \ {Chosen(T)}] = h[T \ {Chosen(T)}]
    BY <2>1, <2>2, ChosenIn
  <2> QED BY <2>2, <2>3 DEF IsSum
<1>2. g = [s \in SUBSET S |-> g[s]] /\ h = [s \in SUBSET S |-> h[s]]
  BY DEF IsSum
<1> QED BY <1>1, <1>2

(* The sum is the value at S of any function that satisfies the recursion.  *)
LEMMA SumValue ==
  ASSUME NEW F, NEW S, IsFiniteSet(S), NEW g, IsSum(g, F, S)
  PROVE  SumOver(F, S) = g[S]
<1> DEFINE G == CHOOSE iter : iter =
                  [s \in SUBSET S |-> IF s = {} THEN 0
                     ELSE F[CHOOSE x \in s : TRUE] + iter[s \ {CHOOSE x \in s : TRUE}]]
<1>1. SumOver(F, S) = G[S]
  BY DEF SumOver, MapThenSumSet, MapThenFoldSet
<1>2. G = [s \in SUBSET S |-> IF s = {} THEN 0
             ELSE F[CHOOSE x \in s : TRUE] + G[s \ {CHOOSE x \in s : TRUE}]]
  <2>1. g = [s \in SUBSET S |-> IF s = {} THEN 0
               ELSE F[CHOOSE x \in s : TRUE] + g[s \ {CHOOSE x \in s : TRUE}]]
    BY DEF IsSum, Chosen
  <2> QED BY <2>1
<1> HIDE DEF G
<1>3. IsSum(G, F, S)
  BY <1>2 DEF IsSum, Chosen
<1> QED BY <1>1, <1>3, SumUnique
-----------------------------------------------------------------------------
(* The sum over a subset is the value there of the same function. *)
LEMMA SumOfSubset ==
  ASSUME NEW F, NEW S, IsFiniteSet(S), NEW g, IsSum(g, F, S), NEW T, T \subseteq S
  PROVE  SumOver(F, T) = g[T]
<1> DEFINE h == [s \in SUBSET T |-> g[s]]
<1>1. IsFiniteSet(T)
  BY FS_Subset
<1>2. h = [s \in SUBSET T |-> IF s = {} THEN 0 ELSE F[Chosen(s)] + h[s \ {Chosen(s)}]]
  BY DEF IsSum
<1> HIDE DEF h
<1>3. IsSum(h, F, T)
  BY <1>2 DEF IsSum
<1>4. SumOver(F, T) = h[T]
  BY <1>1, <1>3, SumValue
<1> QED BY <1>4 DEF h

LEMMA SumEquation ==
  ASSUME NEW F, NEW S, NEW g, IsSum(g, F, S), NEW s, s \subseteq S, s # {}
  PROVE  g[s] = F[Chosen(s)] + g[s \ {Chosen(s)}]
BY DEF IsSum

LEMMA SumEquationEmpty ==
  ASSUME NEW F, NEW S, NEW g, IsSum(g, F, S) PROVE g[{}] = 0
BY DEF IsSum

(* Sums of integers are integers, those of naturals naturals; one of these   *)
(* that is not zero has a summand that is not.                               *)
LEMMA SumIsInt ==
  ASSUME NEW F, NEW S, IsFiniteSet(S), \A x \in S : F[x] \in Int
  PROVE  SumOver(F, S) \in Int
<1>1. PICK g : IsSum(g, F, S)
  BY SumExists
<1> DEFINE C == {u \in SUBSET S : g[u] \notin Int}
<1>2. ASSUME C # {} PROVE FALSE
  <2>1. \A U \in C : U \subseteq S
    OBVIOUS
  <2>2. PICK T \in C : \A U \in C : ~ (U \subseteq T /\ U # T)
    <3> HIDE DEF C
    <3> QED BY <1>2, <2>1, MinimalSubset
  <2>8. T \in SUBSET S /\ g[T] \notin Int
    OBVIOUS
  <2>3. T # {} /\ T \in SUBSET S
    BY <1>1, <2>8, SumEquationEmpty
  <2>4. Chosen(T) \in T
    BY <2>3, ChosenIn
  <2>5. g[T \ {Chosen(T)}] \in Int
    BY <2>2, <2>3, <2>4
  <2>6. F[Chosen(T)] \in Int
    BY <2>3, <2>4
  <2>7. g[T] = F[Chosen(T)] + g[T \ {Chosen(T)}]
    <3> HIDE DEF C
    <3>1. T \subseteq S /\ T # {}
      BY <2>3
    <3> QED BY <1>1, <3>1 DEF IsSum
  <2> QED BY <2>5, <2>6, <2>7, <2>8
<1>3. SumOver(F, S) = g[S]
  BY <1>1, SumValue
<1> QED BY <1>2, <1>3

LEMMA SumIsNat ==
  ASSUME NEW F, NEW S, IsFiniteSet(S), \A x \in S : F[x] \in Nat
  PROVE  SumOver(F, S) \in Nat
<1>1. PICK g : IsSum(g, F, S)
  BY SumExists
<1> DEFINE C == {u \in SUBSET S : g[u] \notin Nat}
<1>2. ASSUME C # {} PROVE FALSE
  <2>1. \A U \in C : U \subseteq S
    OBVIOUS
  <2>2. PICK T \in C : \A U \in C : ~ (U \subseteq T /\ U # T)
    <3> HIDE DEF C
    <3> QED BY <1>2, <2>1, MinimalSubset
  <2>8. T \in SUBSET S /\ g[T] \notin Nat
    OBVIOUS
  <2>3. T # {} /\ T \in SUBSET S
    BY <1>1, <2>8, SumEquationEmpty
  <2>4. Chosen(T) \in T
    BY <2>3, ChosenIn
  <2>5. g[T \ {Chosen(T)}] \in Nat
    BY <2>2, <2>3, <2>4
  <2>6. F[Chosen(T)] \in Nat
    BY <2>3, <2>4
  <2>7. g[T] = F[Chosen(T)] + g[T \ {Chosen(T)}]
    <3> HIDE DEF C
    <3> QED BY <1>1, <2>3, SumEquation
  <2> QED BY <2>5, <2>6, <2>7, <2>8
<1>3. SumOver(F, S) = g[S]
  BY <1>1, SumValue
<1> QED BY <1>2, <1>3

LEMMA SumHasSummand ==
  ASSUME NEW F, NEW S, IsFiniteSet(S), \A x \in S : F[x] \in Nat, SumOver(F, S) # 0
  PROVE  \E x \in S : F[x] > 0
<1> SUFFICES ASSUME \A x \in S : F[x] = 0 PROVE FALSE
  OBVIOUS
<1>1. PICK g : IsSum(g, F, S)
  BY SumExists
<1> DEFINE C == {u \in SUBSET S : g[u] # 0}
<1>2. S \in C
  BY <1>1, SumValue
<1>3. \A U \in C : U \subseteq S
  OBVIOUS
<1>4. PICK T \in C : \A U \in C : ~ (U \subseteq T /\ U # T)
  <2> HIDE DEF C
  <2> QED BY <1>2, <1>3, MinimalSubset
<1>10. T \in SUBSET S /\ g[T] # 0
  OBVIOUS
<1>5. T # {} /\ T \in SUBSET S
  BY <1>1, <1>10, SumEquationEmpty
<1>6. Chosen(T) \in T
  BY <1>5, ChosenIn
<1>7. g[T \ {Chosen(T)}] = 0
  BY <1>4, <1>5, <1>6
<1>8. F[Chosen(T)] = 0
  BY <1>5, <1>6
<1>9. g[T] = F[Chosen(T)] + g[T \ {Chosen(T)}]
  <2> HIDE DEF C
  <2> QED BY <1>1, <1>5, SumEquation
<1> QED BY <1>7, <1>8, <1>9, <1>10

(* The order of the summands does not matter: any of them may be taken out. *)
LEMMA SumTakesOut ==
  ASSUME NEW F, NEW S, IsFiniteSet(S), \A x \in S : F[x] \in Int, NEW e \in S
  PROVE  SumOver(F, S) = F[e] + SumOver(F, S \ {e})
<1>1. PICK g : IsSum(g, F, S)
  BY SumExists
<1>2. ASSUME NEW T \in SUBSET S PROVE g[T] \in Int
  <2>1. IsFiniteSet(T) /\ \A x \in T : F[x] \in Int
    BY FS_Subset
  <2>2. SumOver(F, T) \in Int
    BY <2>1, SumIsInt
  <2> QED BY <1>1, <2>2, SumOfSubset
<1> DEFINE C == {u \in SUBSET S : \E x \in u : g[u] # F[x] + g[u \ {x}]}
<1>3. ASSUME C # {} PROVE FALSE
  <2>1. \A U \in C : U \subseteq S
    OBVIOUS
  <2>2. PICK T \in C : \A U \in C : ~ (U \subseteq T /\ U # T)
    <3> HIDE DEF C
    <3> QED BY <1>3, <2>1, MinimalSubset
  <2>0. \A U \in SUBSET S : U \subseteq T /\ U # T =>
          \A x \in U : g[U] = F[x] + g[U \ {x}]
    BY <2>2
  <2>3. PICK x \in T : g[T] # F[x] + g[T \ {x}]
    OBVIOUS
  <2>11. T \in SUBSET S
    OBVIOUS
  <2> HIDE DEF C
  <2>4. Chosen(T) \in T
    BY ChosenIn
  <2>5. g[T] = F[Chosen(T)] + g[T \ {Chosen(T)}]
    BY <1>1, <2>4, <2>11, SumEquation
  <2>6. x # Chosen(T)
    BY <2>3, <2>5
  <2>7. g[T \ {Chosen(T)}] = F[x] + g[(T \ {Chosen(T)}) \ {x}]
    BY <2>0, <2>4, <2>6, <2>11
  <2>8. g[T \ {x}] = F[Chosen(T)] + g[(T \ {x}) \ {Chosen(T)}]
    BY <2>0, <2>4, <2>6, <2>11
  <2>9. (T \ {Chosen(T)}) \ {x} = (T \ {x}) \ {Chosen(T)}
    OBVIOUS
  <2>10. F[x] \in Int /\ F[Chosen(T)] \in Int /\ g[(T \ {x}) \ {Chosen(T)}] \in Int
    BY <1>2, <2>4, <2>11
  <2>12. g[T] = F[Chosen(T)] + (F[x] + g[(T \ {x}) \ {Chosen(T)}])
    BY <2>5, <2>7, <2>9
  <2>13. g[T] = F[x] + (F[Chosen(T)] + g[(T \ {x}) \ {Chosen(T)}])
    BY <2>10, <2>12
  <2> QED BY <2>3, <2>8, <2>13
<1>4. g[S] = F[e] + g[S \ {e}]
  BY <1>3
<1> QED BY <1>1, <1>4, SumOfSubset

LEMMA SumOfNone == ASSUME NEW F PROVE SumOver(F, {}) = 0
<1>1. IsFiniteSet({})
  BY FS_EmptySet
<1>2. PICK g : IsSum(g, F, {})
  BY <1>1, SumExists
<1> QED BY <1>1, <1>2, SumValue DEF IsSum

(* Only the values on the set matter. *)
LEMMA SumCongruence ==
  ASSUME NEW F, NEW G, NEW S, IsFiniteSet(S), \A x \in S : F[x] = G[x]
  PROVE  SumOver(F, S) = SumOver(G, S)
<1>1. PICK g : IsSum(g, F, S)
  BY SumExists
<1>2. \A s \in SUBSET S : s # {} => F[Chosen(s)] = G[Chosen(s)]
  BY ChosenIn
<1>3. IsSum(g, G, S)
  BY <1>1, <1>2 DEF IsSum
<1> QED BY <1>1, <1>3, SumValue
-----------------------------------------------------------------------------
(* A finite set can be listed along any strict total order of its members:   *)
(* each comes after those that are not behind it.                            *)
LEMMA SortingExists ==
  ASSUME NEW A, IsFiniteSet(A), NEW R,
         \A d \in A : <<d, d>> \notin R,
         \A d, e \in A : d # e => <<d, e>> \in R \/ <<e, d>> \in R,
         \A d, e, f \in A : <<d, e>> \in R /\ <<e, f>> \in R => <<d, f>> \in R
  PROVE  \E s \in [1 .. Cardinality(A) -> A] :
           \A j, k \in DOMAIN s : j < k => <<s[j], s[k]>> \in R
<1>. DEFINE upTo(d) == {e \in A : e = d \/ <<e, d>> \in R}
            n == Cardinality(A)
            rank == [d \in A |-> Cardinality(upTo(d))]
<1>1. n \in Nat /\ IsFiniteSet(1 .. n) /\ Cardinality(1 .. n) = n
  BY FS_CardinalityType, FS_Interval
<1>2. ASSUME NEW d \in A
      PROVE  IsFiniteSet(upTo(d)) /\ rank[d] \in 1 .. n /\ d \in upTo(d)
  <2>1. upTo(d) \in SUBSET A /\ d \in upTo(d)
    OBVIOUS
  <2>. DEFINE U == upTo(d)
  <2>2. rank[d] = Cardinality(U)
    OBVIOUS
  <2>. HIDE DEF U, rank, n
  <2>3. IsFiniteSet(U) /\ Cardinality(U) <= Cardinality(A) /\ Cardinality(U) \in Nat
    BY <2>1, FS_Subset, FS_CardinalityType DEF U
  <2>4. Cardinality(U) # 0
    BY <2>1, <2>3, FS_EmptySet DEF U
  <2>. QED
    BY <1>1, <2>1, <2>2, <2>3, <2>4 DEF U, n
<1>3. ASSUME NEW d \in A, NEW e \in A, <<d, e>> \in R
      PROVE  rank[d] < rank[e]
  <2>. DEFINE U == upTo(d)
              V == upTo(e)
  <2>1. U \subseteq V /\ e \in V /\ e \notin U
    BY <1>3
  <2>2. rank[d] = Cardinality(U) /\ rank[e] = Cardinality(V)
    OBVIOUS
  <2>3. IsFiniteSet(U) /\ IsFiniteSet(V)
    BY <1>2
  <2>. HIDE DEF U, V, rank
  <2>4. Cardinality(U) <= Cardinality(V) /\ (Cardinality(V) = Cardinality(U) => V = U)
    BY <2>1, <2>3, FS_Subset
  <2>5. Cardinality(U) \in Nat /\ Cardinality(V) \in Nat
    BY <2>3, FS_CardinalityType
  <2>. QED
    BY <2>1, <2>2, <2>4, <2>5
<1>4. rank \in Surjection(A, 1 .. n)
  <2>1. rank \in [A -> 1 .. n]
    BY <1>2
  <2>. HIDE DEF rank, n
  <2>2. \A d, e \in A : rank[d] = rank[e] => d = e
    <3>. SUFFICES ASSUME NEW d \in A, NEW e \in A, rank[d] = rank[e], d # e PROVE FALSE
      OBVIOUS
    <3>1. <<d, e>> \in R \/ <<e, d>> \in R
      OBVIOUS
    <3>2. rank[d] \in Nat /\ rank[e] \in Nat
      BY <1>1, <2>1
    <3>. QED
      BY <1>3, <3>1, <3>2
  <2>3. rank \in Injection(A, 1 .. n)
    BY <2>1, <2>2 DEF Injection, IsInjective
  <2>. QED
    BY <1>1, <2>3, FS_Injection DEF n
<1>5. \A k \in 1 .. n : \E d \in A : rank[d] = k
  <2>. HIDE DEF rank, n
  <2>. QED
    BY <1>4 DEF Surjection
<1>. DEFINE s == [k \in 1 .. n |-> CHOOSE d \in A : rank[d] = k]
<1>. HIDE DEF rank, n
<1>6. \A k \in 1 .. n : s[k] \in A /\ rank[s[k]] = k
  BY <1>5
<1>7. s \in [1 .. n -> A] /\ DOMAIN s = 1 .. n
  BY <1>6
<1>. HIDE DEF s
<1>8. ASSUME NEW j \in 1 .. n, NEW k \in 1 .. n, j < k PROVE <<s[j], s[k]>> \in R
  <2>1. s[j] \in A /\ s[k] \in A /\ rank[s[j]] = j /\ rank[s[k]] = k
    BY <1>6
  <2>2. <<s[k], s[j]>> \notin R
    <3>. SUFFICES ASSUME <<s[k], s[j]>> \in R PROVE FALSE
      OBVIOUS
    <3>1. rank[s[k]] < rank[s[j]]
      BY <1>3, <2>1
    <3>. QED
      BY <1>1, <1>8, <2>1, <3>1
  <2>3. s[k] # s[j]
    BY <1>1, <1>8, <2>1
  <2>. QED
    BY <2>1, <2>2, <2>3
<1>. QED
  BY <1>7, <1>8 DEF n
-----------------------------------------------------------------------------
(* A table of n rows and columns up to B, the first row zero and each entry  *)
(* of the others computed by h from two of the row above.                    *)
IsTable(f, n, B, V, zero, col, h) ==
  /\ f \in [(0 .. n) \X (0 .. B) -> V]
  /\ \A b \in 0 .. B : f[<<0, b>>] = zero
  /\ \A i \in 1 .. n, b \in 0 .. B :
       f[<<i, b>>] = h[<<i, b>>][<<f[<<i - 1, b>>], f[<<i - 1, col[<<i, b>>]>>]>>]
EntryRule(n, B, V) == [(1 .. n) \X (0 .. B) -> [V \X V -> V]]

LEMMA TableExists ==
  ASSUME NEW n \in Nat, NEW B \in Nat, NEW V, NEW zero \in V,
         NEW col \in [(1 .. n) \X (0 .. B) -> 0 .. B], NEW h \in EntryRule(n, B, V)
  PROVE  \E f : IsTable(f, n, B, V, zero, col, h)
<1>. DEFINE Fills(f, m) == IsTable(f, m, B, V, zero, col, h)
            N == {m \in 0 .. n : ~ \E f : Fills(f, m)}
<1>. USE DEF IsTable, EntryRule
<1>1. ASSUME n \in N PROVE FALSE
  <2>1. N \in SUBSET Nat
    OBVIOUS
  <2>2. PICK k \in N : \A j \in N : k <= j
    <3>. HIDE DEF N
    <3>. QED
      BY <1>1, <2>1, LeastNatural
  <2>3. k \in 0 .. n /\ ~ \E f : Fills(f, k)
    OBVIOUS
  <2>4. CASE k = 0
    <3>. DEFINE f == [p \in (0 .. 0) \X (0 .. B) |-> zero]
    <3>1. f \in [(0 .. 0) \X (0 .. B) -> V] /\ \A b \in 0 .. B : f[<<0, b>>] = zero
      OBVIOUS
    <3>2. 1 .. 0 = {}
      OBVIOUS
    <3>. HIDE DEF f
    <3>3. Fills(f, 0)
      BY <3>1, <3>2
    <3>. QED
      BY <2>3, <2>4, <3>3
  <2>5. CASE k # 0
    <3>1. k - 1 \in 0 .. n /\ k \in 1 .. n /\ k \in Nat
      BY <2>3, <2>5
    <3>2. PICK g : Fills(g, k - 1)
      <4>1. k - 1 \notin N
        <5>. HIDE DEF N
        <5>. QED
          BY <2>1, <2>2, <3>1
      <4>. HIDE DEF Fills
      <4>. QED
        BY <3>1, <4>1
    <3>. DEFINE f == [p \in (0 .. k) \X (0 .. B) |->
                       IF p[1] < k THEN g[p]
                       ELSE h[<<k, p[2]>>][<<g[<<k - 1, p[2]>>], g[<<k - 1, col[<<k, p[2]>>]>>]>>]]
    <3>. HIDE DEF N
    <3>3. \A b \in 0 .. B : col[<<k, b>>] \in 0 .. B
      BY <3>1
    <3>4. ASSUME NEW i \in 0 .. (k - 1), NEW b \in 0 .. B
          PROVE  g[<<i, b>>] \in V /\ f[<<i, b>>] = g[<<i, b>>]
      <4>1. i \in 0 .. k /\ i < k /\ <<i, b>> \in (0 .. k - 1) \X (0 .. B)
        BY <3>1
      <4>2. g \in [(0 .. k - 1) \X (0 .. B) -> V]
        BY <3>2
      <4>3. g[<<i, b>>] \in V
        BY <4>1, <4>2
      <4>4. <<i, b>> \in (0 .. k) \X (0 .. B) /\ <<i, b>>[1] = i
        BY <4>1
      <4>5. f[<<i, b>>] = g[<<i, b>>]
        BY <4>1, <4>4
      <4>. QED
        BY <4>3, <4>5
    <3>5. \A b \in 0 .. B :
            f[<<k, b>>] = h[<<k, b>>][<<g[<<k - 1, b>>], g[<<k - 1, col[<<k, b>>]>>]>>]
      <4>1. \A b \in 0 .. B : <<k, b>> \in (0 .. k) \X (0 .. B) /\ <<k, b>>[1] = k /\ <<k, b>>[2] = b
        BY <3>1
      <4>2. ~ (k < k)
        BY <3>1
      <4>. QED
        BY <4>1, <4>2
    <3>6. ASSUME NEW b \in 0 .. B PROVE f[<<k, b>>] \in V
      <4>. DEFINE x == g[<<k - 1, b>>]
                  y == g[<<k - 1, col[<<k, b>>]>>]
      <4>1. k - 1 \in 0 .. (k - 1)
        BY <3>1
      <4>2. x \in V /\ y \in V
        BY <3>3, <3>4, <4>1
      <4>3. f[<<k, b>>] = h[<<k, b>>][<<x, y>>]
        BY <3>5
      <4>. HIDE DEF x, y, f
      <4>. QED
        BY <3>1, <4>2, <4>3
    <3>7. ASSUME NEW i \in 0 .. k, NEW b \in 0 .. B PROVE f[<<i, b>>] \in V
      <4>1. i = k \/ i \in 0 .. (k - 1)
        BY <3>1
      <4>. HIDE DEF f
      <4>. QED
        BY <3>4, <3>6, <4>1
    <3>8. f \in [(0 .. k) \X (0 .. B) -> V]
      <4>1. \A p \in (0 .. k) \X (0 .. B) : p[1] \in 0 .. k /\ p[2] \in 0 .. B /\ p = <<p[1], p[2]>>
        OBVIOUS
      <4>. DEFINE D == (0 .. k) \X (0 .. B)
      <4>2. \A p \in D : f[p] \in V
        <5>. HIDE DEF f
        <5>. QED
          BY <3>7, <4>1
      <4>. QED
        BY <4>2
    <3>. HIDE DEF f
    <3>9. \A b \in 0 .. B : f[<<0, b>>] = zero
      <4>1. 0 \in 0 .. (k - 1)
        BY <3>1
      <4>2. \A b \in 0 .. B : g[<<0, b>>] = zero
        BY <3>2
      <4>. QED
        BY <3>4, <4>1, <4>2
    <3>10. ASSUME NEW i \in 1 .. k, NEW b \in 0 .. B
           PROVE  f[<<i, b>>] = h[<<i, b>>][<<f[<<i - 1, b>>], f[<<i - 1, col[<<i, b>>]>>]>>]
      <4>1. i - 1 \in 0 .. (k - 1) /\ col[<<i, b>>] \in 0 .. B
        BY <3>1
      <4>2. f[<<i - 1, b>>] = g[<<i - 1, b>>] /\ f[<<i - 1, col[<<i, b>>]>>] = g[<<i - 1, col[<<i, b>>]>>]
        BY <3>4, <4>1
      <4>3. CASE i = k
        BY <3>5, <4>2, <4>3
      <4>4. CASE i # k
        <5>1. i \in 1 .. (k - 1) /\ i \in 0 .. (k - 1)
          BY <3>1, <4>4
        <5>. QED
          BY <3>2, <3>4, <4>2, <5>1
      <4>. QED
        BY <4>3, <4>4
    <3>11. Fills(f, k)
      BY <3>8, <3>9, <3>10
    <3>. HIDE DEF Fills
    <3>. QED
      BY <2>3, <3>11
  <2>. QED
    BY <2>4, <2>5
<1>2. \E f : Fills(f, n)
  <2>1. n \in 0 .. n
    OBVIOUS
  <2>. HIDE DEF Fills
  <2>. QED
    BY <1>1, <2>1
<1>. QED
  BY <1>2
-----------------------------------------------------------------------------
Budget == INSTANCE BudgetRules

(* What a set of items costs and is worth.                                   *)
CostSum(T) == SumOver([it \in T |-> it.cost], T)
UtilSum(T) == SumOver([it \in T |-> it.util], T)

Priced(X) == IsFiniteSet(X) /\ \A it \in X : it.cost \in Nat /\ it.util \in Int

LEMMA ItemTaken ==
  ASSUME NEW T, Priced(T), NEW it \in T
  PROVE  /\ CostSum(T) = it.cost + CostSum(T \ {it}) /\ UtilSum(T) = it.util + UtilSum(T \ {it})
         /\ CostSum(T \ {it}) \in Nat /\ UtilSum(T \ {it}) \in Int
<1>. DEFINE S == T \ {it}
            c == [x \in T |-> x.cost]
            u == [x \in T |-> x.util]
            cS == [x \in S |-> x.cost]
            uS == [x \in S |-> x.util]
<1>1. IsFiniteSet(T) /\ IsFiniteSet(S)
  BY FS_Subset DEF Priced
<1>2. \A x \in T : c[x] \in Int /\ u[x] \in Int
  BY DEF Priced
<1>3. \A x \in S : cS[x] \in Nat /\ uS[x] \in Int /\ c[x] = cS[x] /\ u[x] = uS[x]
  BY DEF Priced
<1>4. c[it] = it.cost /\ u[it] = it.util
  OBVIOUS
<1>5. CostSum(T) = SumOver(c, T) /\ UtilSum(T) = SumOver(u, T)
      /\ CostSum(S) = SumOver(cS, S) /\ UtilSum(S) = SumOver(uS, S)
  BY DEF CostSum, UtilSum
<1>. HIDE DEF c, u, cS, uS
<1>6. SumOver(c, T) = c[it] + SumOver(c, S) /\ SumOver(u, T) = u[it] + SumOver(u, S)
  BY <1>1, <1>2, SumTakesOut
<1>. HIDE DEF S
<1>7. SumOver(c, S) = SumOver(cS, S) /\ SumOver(u, S) = SumOver(uS, S)
  BY <1>1, <1>3, SumCongruence
<1>8. SumOver(cS, S) \in Nat /\ SumOver(uS, S) \in Int
  BY <1>1, <1>3, SumIsNat, SumIsInt
<1>. QED
  BY <1>4, <1>5, <1>6, <1>7, <1>8 DEF S

LEMMA NothingTaken == CostSum({}) = 0 /\ UtilSum({}) = 0
BY SumOfNone DEF CostSum, UtilSum

(* Budget!Best satisfies the equations of its table.                         *)
LEMMA MaxOfTwo ==
  ASSUME NEW x \in Int, NEW y \in Int PROVE Budget!Max({x, y}) = IF y > x THEN y ELSE x
<1>. DEFINE m == IF y > x THEN y ELSE x
<1>1. m \in {x, y} /\ \A z \in {x, y} : m >= z
  OBVIOUS
<1>2. \A k \in {x, y} : (\A z \in {x, y} : k >= z) => k = m
  OBVIOUS
<1>. HIDE DEF m
<1>3. Budget!Max({x, y}) = m
  BY <1>1, <1>2 DEF Budget!Max
<1>. QED
  BY <1>3 DEF m

BestEntry(dp, s, p) ==
  IF p[1] = 0 THEN 0
  ELSE LET it == s[p[1]]
           skip == dp[<<p[1] - 1, p[2]>>]
       IN  IF it.cost > p[2] THEN skip
           ELSE Budget!Max({skip, dp[<<p[1] - 1, p[2] - it.cost>>] + it.util})
IsBest(dp, s, B) == dp = [p \in (0 .. Len(s)) \X (0 .. B) |-> BestEntry(dp, s, p)]

LEMMA BestValue ==
  ASSUME NEW s, NEW B, \E dp : IsBest(dp, s, B)
  PROVE  IsBest(Budget!Best(s, B), s, B)
<1>. DEFINE G == CHOOSE dp : IsBest(dp, s, B)
<1>1. IsBest(G, s, B)
  OBVIOUS
<1>2. Budget!Best(s, B) = G
  BY Zenon DEF Budget!Best, IsBest, BestEntry
<1>. QED
  BY <1>1, <1>2

LEMMA BestTable ==
  ASSUME NEW X, Priced(X), NEW s \in Seq(X), NEW B \in Nat,
         NEW dp, dp = Budget!Best(s, B)
  PROVE  /\ \A i \in 0 .. Len(s), b \in 0 .. B : dp[<<i, b>>] \in Int
         /\ \A b \in 0 .. B : dp[<<0, b>>] = 0
         /\ \A i \in 1 .. Len(s), b \in 0 .. B :
              dp[<<i, b>>] =
                IF s[i].cost <= b /\ dp[<<i - 1, b - s[i].cost>>] + s[i].util > dp[<<i - 1, b>>]
                  THEN dp[<<i - 1, b - s[i].cost>>] + s[i].util
                  ELSE dp[<<i - 1, b>>]
<1>. DEFINE n == Len(s)
            col == [p \in (1 .. n) \X (0 .. B) |->
                      IF s[p[1]].cost <= p[2] THEN p[2] - s[p[1]].cost ELSE p[2]]
            h == [p \in (1 .. n) \X (0 .. B) |-> [q \in Int \X Int |->
                   IF s[p[1]].cost <= p[2] /\ q[2] + s[p[1]].util > q[1]
                     THEN q[2] + s[p[1]].util ELSE q[1]]]
<1>1. n \in Nat /\ \A i \in 1 .. n : s[i] \in X /\ s[i].cost \in Nat /\ s[i].util \in Int
  BY DEF Priced
<1>2. col \in [(1 .. n) \X (0 .. B) -> 0 .. B]
  BY <1>1
<1>3. h \in [(1 .. n) \X (0 .. B) -> [Int \X Int -> Int]]
  BY <1>1
<1>4. ASSUME NEW i \in 1 .. n, NEW b \in 0 .. B
      PROVE  /\ col[<<i, b>>] = IF s[i].cost <= b THEN b - s[i].cost ELSE b
             /\ \A x, y \in Int : h[<<i, b>>][<<x, y>>] =
                  IF s[i].cost <= b /\ y + s[i].util > x THEN y + s[i].util ELSE x
  OBVIOUS
<1>. HIDE DEF n, col, h
<1>5. PICK f : IsTable(f, n, B, Int, 0, col, h)
  <2>1. n \in Nat /\ 0 \in Int /\ h \in EntryRule(n, B, Int)
    BY <1>1, <1>3 DEF EntryRule
  <2>. QED
    BY <1>2, <2>1, TableExists
<1>6. IsBest(f, s, B)
  <2>1. \A i \in 0 .. n, b \in 0 .. B : f[<<i, b>>] \in Int
    BY <1>5 DEF IsTable
  <2>2. ASSUME NEW i \in 1 .. n, NEW b \in 0 .. B PROVE f[<<i, b>>] = BestEntry(f, s, <<i, b>>)
    <3>. DEFINE x == f[<<i - 1, b>>]
                y == f[<<i - 1, col[<<i, b>>]>>]
    <3>1. i - 1 \in 0 .. n /\ col[<<i, b>>] \in 0 .. B /\ i # 0
      BY <1>1, <1>2
    <3>2. x \in Int /\ y \in Int
      BY <2>1, <3>1
    <3>3. f[<<i, b>>] = h[<<i, b>>][<<x, y>>]
      BY <1>5 DEF IsTable
    <3>4. f[<<i, b>>] = IF s[i].cost <= b /\ y + s[i].util > x THEN y + s[i].util ELSE x
      <4>1. \A v, w \in Int : h[<<i, b>>][<<v, w>>] =
              IF s[i].cost <= b /\ w + s[i].util > v THEN w + s[i].util ELSE v
        BY Zenon, <1>4
      <4>. HIDE DEF x, y
      <4>2. h[<<i, b>>][<<x, y>>] = IF s[i].cost <= b /\ y + s[i].util > x THEN y + s[i].util ELSE x
        BY Zenon, <4>1, <3>2
      <4>. QED
        BY Zenon, <3>3, <4>2
    <3>5. CASE s[i].cost > b
      <4>1. BestEntry(f, s, <<i, b>>) = x
        BY <3>1, <3>5 DEF BestEntry
      <4>2. f[<<i, b>>] = x
        <5>. HIDE DEF x, y
        <5>. QED
          BY <1>1, <3>4, <3>5
      <4>. QED
        BY <4>1, <4>2
    <3>6. CASE ~ (s[i].cost > b)
      <4>0. s[i].cost <= b
        BY <1>1, <3>6
      <4>1. col[<<i, b>>] = b - s[i].cost
        BY Zenon, <1>4, <4>0
      <4>2. BestEntry(f, s, <<i, b>>) = Budget!Max({x, y + s[i].util})
        BY <3>1, <3>6, <4>1 DEF BestEntry
      <4>. HIDE DEF x, y
      <4>3. Budget!Max({x, y + s[i].util}) = IF y + s[i].util > x THEN y + s[i].util ELSE x
        <5>1. s[i].util \in Int
          BY <1>1
        <5>2. y + s[i].util \in Int
          BY <3>2, <5>1
        <5>. QED
          BY Zenon, <3>2, <5>2, MaxOfTwo
      <4>. QED
        BY <1>1, <3>4, <3>6, <4>2, <4>3
    <3>. QED
      BY <3>5, <3>6
  <2>3. \A b \in 0 .. B : f[<<0, b>>] = BestEntry(f, s, <<0, b>>)
    BY <1>5 DEF IsTable, BestEntry
  <2>4. \A i \in 0 .. n, b \in 0 .. B : f[<<i, b>>] = BestEntry(f, s, <<i, b>>)
    <3>1. \A i \in 0 .. n : i = 0 \/ i \in 1 .. n
      BY <1>1
    <3>. QED
      BY <2>2, <2>3, <3>1
  <2>5. DOMAIN f = (0 .. n) \X (0 .. B) /\ f = [p \in DOMAIN f |-> f[p]]
    BY <1>5 DEF IsTable
  <2>6. \A p \in (0 .. n) \X (0 .. B) : f[p] = BestEntry(f, s, p)
    <3>1. \A p \in (0 .. n) \X (0 .. B) : p[1] \in 0 .. n /\ p[2] \in 0 .. B /\ p = <<p[1], p[2]>>
      OBVIOUS
    <3>. QED
      BY <2>4, <3>1
  <2>. QED
    BY Zenon, <2>5, <2>6 DEF IsBest, n
<1>7. /\ \A b \in 0 .. B : dp[<<0, b>>] = 0
      /\ \A i \in 1 .. n, b \in 0 .. B : dp[<<i, b>>] = BestEntry(dp, s, <<i, b>>)
  <2>1. IsBest(dp, s, B)
    BY <1>6, BestValue
  <2>2. \A i \in 0 .. n, b \in 0 .. B : dp[<<i, b>>] = BestEntry(dp, s, <<i, b>>)
    BY <2>1 DEF IsBest, n
  <2>3. 0 \in 0 .. n /\ \A i \in 1 .. n : i \in 0 .. n
    BY <1>1
  <2>4. \A b \in 0 .. B : BestEntry(dp, s, <<0, b>>) = 0
    BY DEF BestEntry
  <2>. QED
    BY <2>2, <2>3, <2>4
<1>8. ASSUME NEW i \in 1 .. n, NEW b \in 0 .. B, \A a \in 0 .. B : dp[<<i - 1, a>>] \in Int
      PROVE  /\ dp[<<i, b>>] \in Int
             /\ dp[<<i, b>>] =
                  IF s[i].cost <= b /\ dp[<<i - 1, b - s[i].cost>>] + s[i].util > dp[<<i - 1, b>>]
                    THEN dp[<<i - 1, b - s[i].cost>>] + s[i].util
                    ELSE dp[<<i - 1, b>>]
  <2>. DEFINE c == s[i].cost
              u == s[i].util
              x == dp[<<i - 1, b>>]
              y == dp[<<i - 1, b - c>>]
  <2>1. c \in Nat /\ u \in Int /\ x \in Int /\ i # 0
    BY <1>1, <1>8
  <2>2. CASE c > b
    <3>1. dp[<<i, b>>] = x
      BY <1>7, <2>1, <2>2 DEF BestEntry
    <3>. HIDE DEF c, u, x, y
    <3>2. ~ (c <= b)
      BY <2>1, <2>2
    <3>. QED
      BY <2>1, <3>1, <3>2 DEF c, u, x, y
  <2>3. CASE ~ (c > b)
    <3>1. b - c \in 0 .. B /\ c <= b
      <4>. HIDE DEF c
      <4>. QED
        BY <2>1, <2>3
    <3>2. y \in Int
      BY <1>8, <3>1
    <3>3. dp[<<i, b>>] = Budget!Max({x, y + u})
      BY <1>7, <2>1, <2>3 DEF BestEntry
    <3>. HIDE DEF c, u, x, y
    <3>4. dp[<<i, b>>] = IF y + u > x THEN y + u ELSE x
      BY <2>1, <3>2, <3>3, MaxOfTwo
    <3>5. dp[<<i, b>>] = (IF c <= b /\ y + u > x THEN y + u ELSE x) /\ dp[<<i, b>>] \in Int
      BY <2>1, <3>1, <3>2, <3>4
    <3>. QED
      BY <3>5 DEF c, u, x, y
  <2>. QED
    BY <2>2, <2>3
<1>9. \A i \in 0 .. n, b \in 0 .. B : dp[<<i, b>>] \in Int
  <2>. DEFINE N == {i \in 0 .. n : ~ \A b \in 0 .. B : dp[<<i, b>>] \in Int}
  <2>1. ASSUME N # {} PROVE FALSE
    <3>1. N \in SUBSET Nat
      OBVIOUS
    <3>2. PICK k \in N : \A j \in N : k <= j
      <4>. HIDE DEF N
      <4>. QED
        BY <2>1, <3>1, LeastNatural
    <3>3. k \in 0 .. n /\ ~ \A b \in 0 .. B : dp[<<k, b>>] \in Int
      OBVIOUS
    <3>4. k # 0
      BY <1>7, <3>3
    <3>5. k \in 1 .. n /\ k - 1 \in 0 .. n /\ ~ (k <= k - 1)
      BY <1>1, <3>3, <3>4
    <3>6. k - 1 \notin N
      <4>. HIDE DEF N
      <4>. QED
        BY <3>2, <3>5
    <3>7. \A a \in 0 .. B : dp[<<k - 1, a>>] \in Int
      BY <3>5, <3>6
    <3>. QED
      BY <1>8, <3>3, <3>5, <3>7
  <2>. QED
    BY <2>1
<1>10. ASSUME NEW i \in 1 .. n, NEW b \in 0 .. B
       PROVE  dp[<<i, b>>] =
                IF s[i].cost <= b /\ dp[<<i - 1, b - s[i].cost>>] + s[i].util > dp[<<i - 1, b>>]
                  THEN dp[<<i - 1, b - s[i].cost>>] + s[i].util
                  ELSE dp[<<i - 1, b>>]
  <2>1. i - 1 \in 0 .. n
    BY <1>1
  <2>. QED
    BY <1>8, <1>9, <2>1
<1>. QED
  BY <1>7, <1>9, <1>10 DEF n

(* What Budget!Backtrack reads off the table, entry by entry.                *)
PickEntry(c, s, dp, p) ==
  IF p[1] = 0 THEN {}
  ELSE IF Budget!Takes(s, dp, p[1], p[2])
       THEN {s[p[1]]} \cup c[<<p[1] - 1, p[2] - s[p[1]].cost>>]
       ELSE c[<<p[1] - 1, p[2]>>]
IsPicks(c, s, dp, B) == c = [p \in (0 .. Len(s)) \X (0 .. B) |-> PickEntry(c, s, dp, p)]

LEMMA BacktrackValue ==
  ASSUME NEW s, NEW dp, NEW B, \E c : IsPicks(c, s, dp, B)
  PROVE  \E c : IsPicks(c, s, dp, B) /\ Budget!Backtrack(s, dp, B) = c[<<Len(s), B>>]
<1>. DEFINE G == CHOOSE c : IsPicks(c, s, dp, B)
<1>1. IsPicks(G, s, dp, B)
  OBVIOUS
<1>2. Budget!Backtrack(s, dp, B) = G[<<Len(s), B>>]
  BY Zenon DEF Budget!Backtrack, IsPicks, PickEntry
<1>. QED
  BY <1>1, <1>2

ReadsOff(c, s, dp, B) ==
  /\ Budget!Backtrack(s, dp, B) = c[<<Len(s), B>>]
  /\ \A b \in 0 .. B : c[<<0, b>>] = {}
  /\ \A i \in 1 .. Len(s), b \in 0 .. B :
       c[<<i, b>>] = IF Budget!Takes(s, dp, i, b)
                     THEN {s[i]} \cup c[<<i - 1, b - s[i].cost>>]
                     ELSE c[<<i - 1, b>>]

LEMMA PicksTable ==
  ASSUME NEW X, Priced(X), NEW s \in Seq(X), NEW B \in Nat, NEW dp
  PROVE  \E c : ReadsOff(c, s, dp, B)
<1>. DEFINE n == Len(s)
            col == [p \in (1 .. n) \X (0 .. B) |->
                      IF Budget!Takes(s, dp, p[1], p[2]) THEN p[2] - s[p[1]].cost ELSE p[2]]
            h == [p \in (1 .. n) \X (0 .. B) |-> [q \in (SUBSET X) \X (SUBSET X) |->
                   IF Budget!Takes(s, dp, p[1], p[2]) THEN {s[p[1]]} \cup q[2] ELSE q[1]]]
<1>1. n \in Nat /\ \A i \in 1 .. n : s[i] \in X /\ s[i].cost \in Nat
  BY DEF Priced
<1>2. ASSUME NEW i \in 1 .. n, NEW b \in 0 .. B, Budget!Takes(s, dp, i, b)
      PROVE  b - s[i].cost \in 0 .. B
  BY <1>1, <1>2 DEF Budget!Takes, Budget!Fits
<1>3. col \in [(1 .. n) \X (0 .. B) -> 0 .. B]
  BY <1>2
<1>4. h \in [(1 .. n) \X (0 .. B) -> [(SUBSET X) \X (SUBSET X) -> SUBSET X]]
  BY <1>1
<1>5. ASSUME NEW i \in 1 .. n, NEW b \in 0 .. B
      PROVE  /\ col[<<i, b>>] = IF Budget!Takes(s, dp, i, b) THEN b - s[i].cost ELSE b
             /\ \A x, y \in SUBSET X : h[<<i, b>>][<<x, y>>] =
                  IF Budget!Takes(s, dp, i, b) THEN {s[i]} \cup y ELSE x
  OBVIOUS
<1>. HIDE DEF n, col, h
<1>6. PICK f : IsTable(f, n, B, SUBSET X, {}, col, h)
  <2>1. n \in Nat /\ {} \in SUBSET X /\ h \in EntryRule(n, B, SUBSET X)
    BY <1>1, <1>4 DEF EntryRule
  <2>. QED
    BY <1>3, <2>1, TableExists
<1>7. IsPicks(f, s, dp, B)
  <2>1. \A i \in 0 .. n, b \in 0 .. B : f[<<i, b>>] \in SUBSET X
    BY <1>6 DEF IsTable
  <2>2. ASSUME NEW i \in 1 .. n, NEW b \in 0 .. B PROVE f[<<i, b>>] = PickEntry(f, s, dp, <<i, b>>)
    <3>. DEFINE x == f[<<i - 1, b>>]
                y == f[<<i - 1, col[<<i, b>>]>>]
    <3>1. i - 1 \in 0 .. n /\ col[<<i, b>>] \in 0 .. B /\ i # 0
      BY <1>1, <1>3
    <3>2. x \in SUBSET X /\ y \in SUBSET X
      BY <2>1, <3>1
    <3>3. f[<<i, b>>] = h[<<i, b>>][<<x, y>>]
      BY <1>6 DEF IsTable
    <3>4. f[<<i, b>>] = IF Budget!Takes(s, dp, i, b) THEN {s[i]} \cup y ELSE x
      <4>1. \A v, w \in SUBSET X : h[<<i, b>>][<<v, w>>] =
              IF Budget!Takes(s, dp, i, b) THEN {s[i]} \cup w ELSE v
        BY Zenon, <1>5
      <4>. HIDE DEF x, y
      <4>2. h[<<i, b>>][<<x, y>>] = IF Budget!Takes(s, dp, i, b) THEN {s[i]} \cup y ELSE x
        BY Zenon, <4>1, <3>2
      <4>. QED
        BY Zenon, <3>3, <4>2
    <3>5. CASE Budget!Takes(s, dp, i, b)
      <4>1. col[<<i, b>>] = b - s[i].cost
        BY Zenon, <1>5, <3>5
      <4>. QED
        BY <3>1, <3>4, <3>5, <4>1 DEF PickEntry
    <3>6. CASE ~ Budget!Takes(s, dp, i, b)
      BY <3>1, <3>4, <3>6 DEF PickEntry
    <3>. QED
      BY <3>5, <3>6
  <2>3. \A b \in 0 .. B : f[<<0, b>>] = PickEntry(f, s, dp, <<0, b>>)
    BY <1>6 DEF IsTable, PickEntry
  <2>4. \A i \in 0 .. n, b \in 0 .. B : f[<<i, b>>] = PickEntry(f, s, dp, <<i, b>>)
    <3>1. \A i \in 0 .. n : i = 0 \/ i \in 1 .. n
      BY <1>1
    <3>. QED
      BY <2>2, <2>3, <3>1
  <2>5. DOMAIN f = (0 .. n) \X (0 .. B) /\ f = [p \in DOMAIN f |-> f[p]]
    BY <1>6 DEF IsTable
  <2>6. \A p \in (0 .. n) \X (0 .. B) : f[p] = PickEntry(f, s, dp, p)
    <3>1. \A p \in (0 .. n) \X (0 .. B) : p[1] \in 0 .. n /\ p[2] \in 0 .. B /\ p = <<p[1], p[2]>>
      OBVIOUS
    <3>. QED
      BY <2>4, <3>1
  <2>. QED
    BY Zenon, <2>5, <2>6 DEF IsPicks, n
<1>8. PICK c : IsPicks(c, s, dp, B) /\ Budget!Backtrack(s, dp, B) = c[<<Len(s), B>>]
  BY <1>7, BacktrackValue
<1>9. \A i \in 0 .. n, b \in 0 .. B : c[<<i, b>>] = PickEntry(c, s, dp, <<i, b>>)
  BY <1>8 DEF IsPicks, n
<1>10. \A b \in 0 .. B : c[<<0, b>>] = {}
  <2>1. 0 \in 0 .. n
    BY <1>1
  <2>. QED
    BY <1>9, <2>1 DEF PickEntry
<1>11. ASSUME NEW i \in 1 .. n, NEW b \in 0 .. B
       PROVE  c[<<i, b>>] = IF Budget!Takes(s, dp, i, b)
                            THEN {s[i]} \cup c[<<i - 1, b - s[i].cost>>]
                            ELSE c[<<i - 1, b>>]
  <2>1. i \in 0 .. n /\ i # 0
    BY <1>1
  <2>. QED
    BY <1>9, <2>1 DEF PickEntry
<1>. QED
  BY Zenon, <1>8, <1>10, <1>11 DEF n, ReadsOff
-----------------------------------------------------------------------------
(* S is a best choice among the items T for b tokens, and is worth u.        *)
BestChoice(S, T, b, u) ==
  /\ S \subseteq T /\ CostSum(S) <= b /\ UtilSum(S) = u
  /\ \A R \in SUBSET T : CostSum(R) <= b => UtilSum(R) <= u

(* A best choice with one more item, from those without it.                  *)
LEMMA ChoiceGrows ==
  ASSUME NEW T, Priced(T), NEW it \in T, NEW b \in Nat, NEW S, NEW u \in Int,
         BestChoice(S, T \ {it}, b, u)
  PROVE  /\ it.cost > b => BestChoice(S, T, b, u)
         /\ it.cost <= b => \A R : \A v \in Int : BestChoice(R, T \ {it}, b - it.cost, v) =>
              /\ v + it.util > u => BestChoice({it} \cup R, T, b, v + it.util)
              /\ ~ (v + it.util > u) => BestChoice(S, T, b, u)
<1>1. it.cost \in Nat /\ it.util \in Int
  BY DEF Priced
<1>2. ASSUME NEW R \in SUBSET T
      PROVE  /\ it \notin R => R \in SUBSET (T \ {it})
             /\ it \in R => /\ R \ {it} \in SUBSET (T \ {it})
                            /\ CostSum(R) = it.cost + CostSum(R \ {it}) /\ CostSum(R \ {it}) \in Nat
                            /\ UtilSum(R) = it.util + UtilSum(R \ {it}) /\ UtilSum(R \ {it}) \in Int
  <2>1. Priced(R)
    BY FS_Subset DEF Priced
  <2>. QED
    BY <2>1, ItemTaken
<1>3. ASSUME it.cost > b PROVE BestChoice(S, T, b, u)
  <2>1. ASSUME NEW R \in SUBSET T, CostSum(R) <= b PROVE UtilSum(R) <= u
    <3>1. it \notin R
      <4>. SUFFICES ASSUME it \in R PROVE FALSE
        OBVIOUS
      <4>1. CostSum(R) = it.cost + CostSum(R \ {it}) /\ CostSum(R \ {it}) \in Nat
        BY <1>2
      <4>2. CostSum(R) <= b /\ it.cost > b
        BY <1>3, <2>1
      <4>. QED
        BY <1>1, <4>1, <4>2
    <3>. QED
      BY <1>2, <2>1, <3>1 DEF BestChoice
  <2>. QED
    BY <2>1 DEF BestChoice
<1>4. ASSUME it.cost <= b, NEW R, NEW v \in Int, BestChoice(R, T \ {it}, b - it.cost, v)
      PROVE  /\ v + it.util > u => BestChoice({it} \cup R, T, b, v + it.util)
             /\ ~ (v + it.util > u) => BestChoice(S, T, b, u)
  <2>1. ASSUME NEW Q \in SUBSET T, CostSum(Q) <= b
        PROVE  \/ it \notin Q /\ UtilSum(Q) <= u
               \/ it \in Q /\ UtilSum(Q) <= v + it.util
    <3>1. CASE it \notin Q
      BY <1>2, <2>1, <3>1 DEF BestChoice
    <3>2. CASE it \in Q
      <4>1. /\ Q \ {it} \in SUBSET (T \ {it}) /\ CostSum(Q) = it.cost + CostSum(Q \ {it})
            /\ CostSum(Q \ {it}) \in Nat /\ UtilSum(Q) = it.util + UtilSum(Q \ {it})
            /\ UtilSum(Q \ {it}) \in Int
        BY <1>2, <3>2
      <4>2. CostSum(Q \ {it}) <= b - it.cost
        BY <1>1, <2>1, <4>1
      <4>3. UtilSum(Q \ {it}) <= v
        BY <1>4, <4>1, <4>2 DEF BestChoice
      <4>. QED
        BY <1>1, <3>2, <4>1, <4>3
    <3>. QED
      BY <3>1, <3>2
  <2>2. \A Q \in SUBSET T : CostSum(Q) <= b => UtilSum(Q) \in Int
    <3>1. ASSUME NEW Q \in SUBSET T PROVE UtilSum(Q) \in Int
      <4>1. IsFiniteSet(Q) /\ \A x \in Q : [y \in Q |-> y.util][x] \in Int
        BY FS_Subset DEF Priced
      <4>. QED
        BY <4>1, SumIsInt DEF UtilSum
    <3>. QED
      BY <3>1
  <2>3. ASSUME v + it.util > u PROVE BestChoice({it} \cup R, T, b, v + it.util)
    <3>1. {it} \cup R \in SUBSET T /\ it \in {it} \cup R /\ ({it} \cup R) \ {it} = R
      BY <1>4 DEF BestChoice
    <3>2. /\ CostSum({it} \cup R) = it.cost + CostSum(R) /\ CostSum(R) \in Nat
          /\ UtilSum({it} \cup R) = it.util + UtilSum(R)
      BY <1>2, <3>1
    <3>3. CostSum(R) <= b - it.cost /\ UtilSum(R) = v
      BY <1>4 DEF BestChoice
    <3>4. CostSum({it} \cup R) <= b /\ UtilSum({it} \cup R) = v + it.util
      BY <1>1, <3>2, <3>3
    <3>5. \A Q \in SUBSET T : CostSum(Q) <= b => UtilSum(Q) <= v + it.util
      BY <1>1, <2>1, <2>2, <2>3
    <3>. QED
      BY <3>1, <3>4, <3>5 DEF BestChoice
  <2>4. ASSUME ~ (v + it.util > u) PROVE BestChoice(S, T, b, u)
    <3>1. \A Q \in SUBSET T : CostSum(Q) <= b => UtilSum(Q) <= u
      BY <1>1, <2>1, <2>2, <2>4
    <3>. QED
      BY <3>1 DEF BestChoice
  <2>. QED
    BY <2>3, <2>4
<1>. QED
  BY <1>3, <1>4

(* Every entry of the table is the worth of a best choice among the items of *)
(* the rows up to it, and the choice is the one that is read off.            *)
LEMMA EntriesAreBest ==
  ASSUME NEW X, Priced(X), NEW s \in Seq(X), \A i, j \in 1 .. Len(s) : s[i] = s[j] => i = j,
         NEW B \in Nat
  PROVE  BestChoice(Budget!Backtrack(s, Budget!Best(s, B), B), {s[k] : k \in 1 .. Len(s)}, B,
                    Budget!Best(s, B)[<<Len(s), B>>])
<1>. DEFINE n == Len(s)
            upTo(i) == {s[k] : k \in 1 .. i}
<1>0. n \in Nat /\ \A i \in 1 .. n : s[i] \in X
  OBVIOUS
<1>1. PICK dp : dp = Budget!Best(s, B)
  OBVIOUS
<1>2. /\ \A i \in 0 .. n, b \in 0 .. B : dp[<<i, b>>] \in Int
      /\ \A b \in 0 .. B : dp[<<0, b>>] = 0
      /\ \A i \in 1 .. n, b \in 0 .. B :
           dp[<<i, b>>] =
             IF s[i].cost <= b /\ dp[<<i - 1, b - s[i].cost>>] + s[i].util > dp[<<i - 1, b>>]
               THEN dp[<<i - 1, b - s[i].cost>>] + s[i].util
               ELSE dp[<<i - 1, b>>]
  <2>. HIDE DEF n
  <2>. QED
    BY <1>1, BestTable DEF n
<1>10. PICK c : ReadsOff(c, s, dp, B)
  BY PicksTable
<1>3. /\ Budget!Backtrack(s, dp, B) = c[<<n, B>>]
      /\ \A b \in 0 .. B : c[<<0, b>>] = {}
      /\ \A i \in 1 .. n, b \in 0 .. B :
           c[<<i, b>>] = IF Budget!Takes(s, dp, i, b)
                         THEN {s[i]} \cup c[<<i - 1, b - s[i].cost>>]
                         ELSE c[<<i - 1, b>>]
  BY Zenon, <1>10 DEF ReadsOff
<1>. HIDE DEF n
<1>. DEFINE Good(i) == \A b \in 0 .. B : BestChoice(c[<<i, b>>], upTo(i), b, dp[<<i, b>>])
<1>4. Good(0)
  <2>1. upTo(0) = {}
    OBVIOUS
  <2>2. ASSUME NEW b \in 0 .. B PROVE BestChoice({}, {}, b, 0)
    <3>1. \A R \in SUBSET {} : UtilSum(R) <= 0
      <4>1. \A R \in SUBSET {} : R = {}
        OBVIOUS
      <4>2. UtilSum({}) <= 0
        BY NothingTaken
      <4>. QED
        BY <4>1, <4>2
    <3>2. CostSum({}) <= b /\ UtilSum({}) = 0
      BY NothingTaken
    <3>. QED
      BY <3>1, <3>2 DEF BestChoice
  <2>. QED
    BY <1>2, <1>3, <2>1, <2>2
<1>5. ASSUME NEW i \in 1 .. n, Good(i - 1) PROVE Good(i)
  <2>. SUFFICES ASSUME NEW b \in 0 .. B PROVE BestChoice(c[<<i, b>>], upTo(i), b, dp[<<i, b>>])
    OBVIOUS
  <2>. DEFINE it == s[i]
              T == upTo(i)
              u == dp[<<i - 1, b>>]
              v == dp[<<i - 1, b - it.cost>>]
              S == c[<<i - 1, b>>]
              R == c[<<i - 1, b - it.cost>>]
  <2>1. it \in T /\ T \ {it} = upTo(i - 1)
    <3>1. \A k \in 1 .. i : k = i \/ k \in 1 .. (i - 1)
      BY <1>0
    <3>2. \A k \in 1 .. (i - 1) : k \in 1 .. i /\ s[k] # s[i]
      BY <1>0 DEF n
    <3>. QED
      BY <1>0, <3>1, <3>2
  <2>2. Priced(T) /\ it.cost \in Nat /\ it.util \in Int
    <3>1. IsFiniteSet(T)
      <4>1. T \subseteq X
        BY <1>0
      <4>. QED
        BY <4>1, FS_Subset DEF Priced
    <3>. QED
      BY <1>0, <3>1 DEF Priced
  <2>3. u \in Int /\ b \in Nat /\ BestChoice(S, T \ {it}, b, u)
    <3>1. i - 1 \in 0 .. n
      BY <1>0
    <3>2. BestChoice(c[<<i - 1, b>>], upTo(i - 1), b, dp[<<i - 1, b>>])
      BY <1>5
    <3>3. u \in Int /\ b \in Nat
      BY <1>2, <3>1
    <3>. HIDE DEF upTo, T
    <3>. QED
      BY <2>1, <3>2, <3>3
  <2>4. CASE it.cost > b
    <3>1. ~ (it.cost <= b)
      BY <2>2, <2>4
    <3>2. dp[<<i, b>>] = u /\ c[<<i, b>>] = S
      BY <1>2, <1>3, <3>1 DEF Budget!Takes, Budget!Fits
    <3>. HIDE DEF it, T, u, S
    <3>3. BestChoice(S, T, b, u)
      BY <2>1, <2>2, <2>3, <2>4, ChoiceGrows
    <3>. QED
      BY <3>2, <3>3 DEF T
  <2>5. CASE it.cost <= b
    <3>1. b - it.cost \in 0 .. B /\ i - 1 \in 0 .. n
      BY <1>0, <2>2, <2>5
    <3>2. v \in Int /\ BestChoice(R, T \ {it}, b - it.cost, v)
      <4>1. BestChoice(c[<<i - 1, b - it.cost>>], upTo(i - 1), b - it.cost, dp[<<i - 1, b - it.cost>>])
        BY <1>5, <3>1
      <4>. HIDE DEF upTo
      <4>. QED
        BY <1>2, <2>1, <3>1, <4>1
    <3>3. CASE v + it.util > u
      <4>1. Budget!Takes(s, dp, i, b)
        BY <2>5, <3>3 DEF Budget!Takes, Budget!Fits, Budget!Grab
      <4>2. dp[<<i, b>>] = v + it.util /\ c[<<i, b>>] = {it} \cup R
        BY <1>2, <1>3, <2>5, <3>3, <4>1
      <4>. HIDE DEF it, T, u, v, S, R
      <4>3. BestChoice({it} \cup R, T, b, v + it.util)
        BY <2>1, <2>2, <2>3, <2>5, <3>2, <3>3, ChoiceGrows
      <4>. QED
        BY <4>2, <4>3 DEF T
    <3>4. CASE ~ (v + it.util > u)
      <4>1. ~ Budget!Takes(s, dp, i, b)
        BY <2>5, <3>4 DEF Budget!Takes, Budget!Fits, Budget!Grab
      <4>2. dp[<<i, b>>] = u /\ c[<<i, b>>] = S
        BY <1>2, <1>3, <2>5, <3>4, <4>1
      <4>. HIDE DEF it, T, u, v, S, R
      <4>3. BestChoice(S, T, b, u)
        BY <2>1, <2>2, <2>3, <2>5, <3>2, <3>4, ChoiceGrows
      <4>. QED
        BY <4>2, <4>3 DEF T
    <3>. QED
      BY <3>3, <3>4
  <2>. QED
    BY <2>2, <2>4, <2>5
<1>. HIDE DEF Good
<1>6. Good(n)
  <2>. DEFINE N == {i \in 0 .. n : ~ Good(i)}
  <2>1. ASSUME N # {} PROVE FALSE
    <3>1. N \in SUBSET Nat
      OBVIOUS
    <3>2. PICK k \in N : \A j \in N : k <= j
      <4>. HIDE DEF N
      <4>. QED
        BY <2>1, <3>1, LeastNatural
    <3>3. k \in 0 .. n /\ ~ Good(k)
      OBVIOUS
    <3>4. k \in 1 .. n /\ k - 1 \in 0 .. n /\ ~ (k <= k - 1)
      <4>1. k # 0
        BY <1>4, <3>3
      <4>. QED
        BY <1>0, <3>3, <4>1
    <3>5. Good(k - 1)
      <4>1. k - 1 \notin N
        <5>. HIDE DEF N
        <5>. QED
          BY <3>2, <3>4
      <4>. QED
        BY <3>4, <4>1
    <3>. QED
      BY <1>5, <3>3, <3>4, <3>5
  <2>. QED
    BY <1>0, <2>1
<1>7. BestChoice(c[<<n, B>>], upTo(n), B, dp[<<n, B>>])
  <2>1. B \in 0 .. B
    OBVIOUS
  <2>. HIDE DEF upTo
  <2>. QED
    BY <1>6, <2>1 DEF Good
<1>. HIDE DEF upTo
<1>8. Budget!Backtrack(s, dp, B) = c[<<n, B>>]
  BY <1>3
<1>9. BestChoice(Budget!Backtrack(s, dp, B), upTo(n), B, dp[<<n, B>>])
  BY <1>7, <1>8
<1>. QED
  BY <1>1, <1>9 DEF n, upTo
(* The items differ in their price or their identifier, so there is one way  *)
(* to sort them.                                                             *)
LEMMA PricesSort ==
  ASSUME NEW X, Priced(X), \A x \in X : x.id \in Int,
         \A x, y \in X : x.cost = y.cost /\ x.id = y.id => x = y
  PROVE  LET s == Budget!InOrderOfCost(X)
         IN  /\ s \in Seq(X) /\ Len(s) = Cardinality(X)
             /\ \A i, j \in 1 .. Len(s) : s[i] = s[j] => i = j
             /\ {s[k] : k \in 1 .. Len(s)} = X
<1>. DEFINE R == {p \in X \X X : Budget!CheaperFirst(p[1], p[2])}
            n == Cardinality(X)
            s == Budget!InOrderOfCost(X)
<1>1. \A x \in X : x.cost \in Nat /\ x.id \in Int
  BY DEF Priced
<1>2. \A x, y \in X : <<x, y>> \in R <=> x.cost < y.cost \/ (x.cost = y.cost /\ x.id < y.id)
  BY DEF Budget!CheaperFirst
<1>3. IsFiniteSet(X) /\ n \in Nat
  BY FS_CardinalityType DEF Priced
<1>. HIDE DEF R
<1>4. /\ \A x \in X : <<x, x>> \notin R
      /\ \A x, y \in X : x # y => <<x, y>> \in R \/ <<y, x>> \in R
      /\ \A x, y, z \in X : <<x, y>> \in R /\ <<y, z>> \in R => <<x, z>> \in R
  <2>1. \A x \in X : <<x, x>> \notin R
    BY <1>1, <1>2
  <2>2. ASSUME NEW x \in X, NEW y \in X, x # y PROVE <<x, y>> \in R \/ <<y, x>> \in R
    <3>1. ~ (x.cost = y.cost /\ x.id = y.id)
      BY <2>2
    <3>2. x.cost < y.cost \/ y.cost < x.cost \/ (x.cost = y.cost /\ (x.id < y.id \/ y.id < x.id))
      BY <1>1, <3>1
    <3>. QED
      BY <1>2, <3>2
  <2>3. ASSUME NEW x \in X, NEW y \in X, NEW z \in X, <<x, y>> \in R, <<y, z>> \in R
        PROVE  <<x, z>> \in R
    BY <1>1, <1>2, <2>3
  <2>. QED
    BY <2>1, <2>2, <2>3
<1>5. \E t \in [1 .. n -> X] : \A j, k \in DOMAIN t : j < k => <<t[j], t[k]>> \in R
  BY <1>3, <1>4, SortingExists
<1>6. \E t \in [1 .. n -> X] : \A j, k \in DOMAIN t : j < k => Budget!CheaperFirst(t[j], t[k])
  <2>1. PICK t \in [1 .. n -> X] : \A j, k \in DOMAIN t : j < k => <<t[j], t[k]>> \in R
    BY <1>5
  <2>2. \A j, k \in DOMAIN t : j < k => Budget!CheaperFirst(t[j], t[k])
    BY <2>1 DEF R
  <2>. QED
    BY <2>1, <2>2
<1>7. s \in [1 .. n -> X] /\ \A j, k \in DOMAIN s : j < k => Budget!CheaperFirst(s[j], s[k])
  <2>1. Budget!Cardinality(X) = n
    BY Zenon DEF Cardinality, Budget!Cardinality
  <2>. QED
    BY <1>6, <2>1 DEF Budget!InOrderOfCost
<1>. HIDE DEF s, n
<1>8. s \in Seq(X) /\ Len(s) = n
  BY <1>3, <1>7
<1>9. ASSUME NEW i \in 1 .. n, NEW j \in 1 .. n, s[i] = s[j] PROVE i = j
  <2>1. s[i] \in X /\ DOMAIN s = 1 .. n
    BY <1>7
  <2>2. ~ Budget!CheaperFirst(s[i], s[i])
    BY <1>1, <2>1 DEF Budget!CheaperFirst
  <2>3. ~ (i < j) /\ ~ (j < i)
    BY <1>7, <1>9, <2>1, <2>2
  <2>. QED
    BY <1>3, <2>3
<1>10. {s[k] : k \in 1 .. n} = X
  <2>1. IsFiniteSet(1 .. n) /\ Cardinality(1 .. n) = n
    BY <1>3, FS_Interval
  <2>2. s \in Injection(1 .. n, X)
    BY <1>7, <1>9 DEF Injection, IsInjective
  <2>3. s \in Surjection(1 .. n, X)
    BY <1>3, <2>1, <2>2, FS_Injection DEF n
  <2>. QED
    BY <1>7, <2>3 DEF Surjection
<1>. QED
  BY <1>8, <1>9, <1>10 DEF s, n

(* knapsack (causal/targeting.py), the oracle every targeting ratio is       *)
(* divided by: what it returns is within the budget, is worth what it says,  *)
(* and no other set of the items within the budget is worth more; for any    *)
(* items, costs, utilities of either sign and budget.                        *)
THEOREM KnapsackIsOptimal ==
  ASSUME NEW X, Priced(X), \A x \in X : x.id \in Int,
         \A x, y \in X : x.cost = y.cost /\ x.id = y.id => x = y, NEW B \in Nat
  PROVE  LET r == Budget!knapsack(X, B)
         IN  \E S : r.chosen = {x.id : x \in S} /\ BestChoice(S, X, B, r.total_utility)
<1>. DEFINE s == Budget!InOrderOfCost(X)
            dp == Budget!Best(s, B)
            S == Budget!Backtrack(s, dp, B)
            r == Budget!knapsack(X, B)
<1>1. r.chosen = {x.id : x \in S} /\ r.total_utility = dp[<<Len(s), B>>]
  BY DEF Budget!knapsack
<1>2. /\ s \in Seq(X) /\ \A i, j \in 1 .. Len(s) : s[i] = s[j] => i = j
      /\ {s[k] : k \in 1 .. Len(s)} = X
  BY PricesSort
<1>. HIDE DEF s
<1>3. BestChoice(S, {s[k] : k \in 1 .. Len(s)}, B, dp[<<Len(s), B>>])
  BY <1>2, EntriesAreBest
<1>. HIDE DEF dp, S, r
<1>4. r.chosen = {x.id : x \in S} /\ BestChoice(S, X, B, r.total_utility)
  BY <1>1, <1>2, <1>3
<1>. QED
  BY <1>4 DEF r
-----------------------------------------------------------------------------
(* The estimators.                                                           *)

Est == INSTANCE EstimateRules WITH Unit <- 1

(* Induction along 0 .. n, over a set.                                       *)
LEMMA InductUpTo ==
  ASSUME NEW n \in Nat, NEW P, 0 \in P, \A k \in 1 .. n : k - 1 \in P => k \in P
  PROVE  \A k \in 0 .. n : k \in P
<1> DEFINE N == {k \in 0 .. n : k \notin P}
<1>1. N \in SUBSET Nat
  OBVIOUS
<1>2. ASSUME NEW k \in N PROVE FALSE
  <2>1. PICK m \in N : \A j \in N : m <= j
    <3> HIDE DEF N
    <3> QED BY <1>1, <1>2, LeastNatural
  <2>2. m \in 1 .. n /\ m - 1 \in 0 .. n
    BY <2>1
  <2>3. m - 1 \notin N
    BY <2>1, <2>2
  <2> QED BY <2>1, <2>2, <2>3
<1> QED BY <1>2

(* A chain of n steps from zero, each value computed from the one before.    *)
IsChain(f, n, V, zero, h) ==
  /\ f \in [0 .. n -> V]
  /\ f[0] = zero
  /\ \A k \in 1 .. n : f[k] = h[k][f[k - 1]]

(* Applying step k to the result of step k - 1 has a result for every k.     *)
LEMMA ChainExists ==
  ASSUME NEW n \in Nat, NEW V, NEW zero \in V, NEW h \in [1 .. n -> [V -> V]]
  PROVE  \E f : IsChain(f, n, V, zero, h)
<1> DEFINE Fills(m) == \E f : IsChain(f, m, V, zero, h)
           P == {m \in 0 .. n : Fills(m)}
<1>1. 0 \in P
  <2>1. IsChain([k \in 0 .. 0 |-> zero], 0, V, zero, h)
    BY DEF IsChain
  <2> QED BY <2>1
<1>2. ASSUME NEW m \in 1 .. n, m - 1 \in P PROVE m \in P
  <2>1. PICK f : IsChain(f, m - 1, V, zero, h)
    BY <1>2
  <2> DEFINE v == h[m][f[m - 1]]
             g == [k \in 0 .. m |-> IF k = m THEN v ELSE f[k]]
  <2>2. f[m - 1] \in V /\ \A k \in 0 .. m - 1 : f[k] \in V
    BY <2>1 DEF IsChain
  <2>3. v \in V
    BY <2>2
  <2> HIDE DEF v
  <2>4. g \in [0 .. m -> V]
    BY <2>2, <2>3
  <2>5. g[0] = zero
    BY <2>1 DEF IsChain
  <2>6. ASSUME NEW k \in 1 .. m PROVE g[k] = h[k][g[k - 1]]
    <3>1. g[k - 1] = f[k - 1]
      OBVIOUS
    <3>2. CASE k = m
      BY <3>1, <3>2 DEF v
    <3>3. CASE k # m
      BY <2>1, <3>1, <3>3 DEF IsChain
    <3> QED BY <3>2, <3>3
  <2> HIDE DEF g
  <2>7. IsChain(g, m, V, zero, h)
    BY <2>4, <2>5, <2>6 DEF IsChain
  <2> QED BY <2>7
<1> HIDE DEF P
<1>3. \A k \in 0 .. n : k \in P
  BY <1>1, <1>2, InductUpTo
<1>4. n \in P
  BY <1>3
<1> QED BY <1>4 DEF P

(* No document has rows on both sides of a fold, whatever the rows.          *)
LEMMA FoldsNeverLeak ==
  ASSUME NEW groups, NEW n_splits
  PROVE  ~ Est!Leaks(groups, Est!grouped_folds(groups, n_splits))
<1> DEFINE unique == Est!Documents(groups, DOMAIN groups)
           n == IF Est!Cardinality(unique) < n_splits THEN Est!Max({2, Est!Cardinality(unique)}) ELSE n_splits
           Rank(d) == Est!Cardinality({e \in unique : e < d})
           Test(k) == {i \in DOMAIN groups : Rank(groups[i]) % n = k}
           Train(k) == DOMAIN groups \ Test(k)
           K == {j \in 0..(n - 1) : Test(j) # {} /\ Train(j) # {}}
           folds == [k \in K |-> [test |-> Test(k), train |-> Train(k)]]
<1>1. Est!grouped_folds(groups, n_splits) = folds
  BY Zenon DEF Est!grouped_folds
<1>2. ASSUME NEW k \in K,
             Est!Documents(groups, folds[k].test) \cap Est!Documents(groups, folds[k].train) # {}
      PROVE  FALSE
  <2>1. folds[k].test = Test(k) /\ folds[k].train = Train(k)
    <3> HIDE DEF K, Test, Train
    <3> QED OBVIOUS
  <2> HIDE DEF folds, K, Rank, n, unique
  <2>2. PICK i \in Test(k), j \in Train(k) : groups[i] = groups[j]
    BY <1>2, <2>1 DEF Est!Documents
  <2>3. Rank(groups[i]) % n = k /\ Rank(groups[j]) % n # k
    OBVIOUS
  <2> QED BY <2>2, <2>3, Zenon
<1>3. DOMAIN folds = K
  <2> HIDE DEF K, Test, Train
  <2> QED OBVIOUS
<1> HIDE DEF folds, K
<1> QED BY <1>1, <1>2, <1>3 DEF Est!Leaks

(* R is a strict total order of A.                                           *)
Orders(R, A) ==
  /\ \A d \in A : <<d, d>> \notin R
  /\ \A d, e \in A : d # e => <<d, e>> \in R \/ <<e, d>> \in R
  /\ \A d, e, f \in A : <<d, e>> \in R /\ <<e, f>> \in R => <<d, f>> \in R
Lists(s, A, R) ==
  /\ s \in [1 .. Cardinality(A) -> A] /\ {s[k] : k \in 1 .. Cardinality(A)} = A
  /\ \A j, k \in 1 .. Cardinality(A) : j < k => <<s[j], s[k]>> \in R
  /\ \A j, k \in 1 .. Cardinality(A) : s[j] = s[k] => j = k

(* A listing along a strict total order names every member once.             *)
LEMMA ListingCovers ==
  ASSUME NEW A, IsFiniteSet(A), NEW R, Orders(R, A), NEW s \in [1 .. Cardinality(A) -> A],
         \A j, k \in DOMAIN s : j < k => <<s[j], s[k]>> \in R
  PROVE  Lists(s, A, R)
<1> DEFINE n == Cardinality(A)
<1>1. n \in Nat /\ IsFiniteSet(1 .. n) /\ Cardinality(1 .. n) = n
  BY FS_CardinalityType, FS_Interval
<1> HIDE DEF n
<1>2. s \in [1 .. n -> A] /\ \A j, k \in 1 .. n : j < k => <<s[j], s[k]>> \in R
  BY DEF n
<1>3. ASSUME NEW j \in 1 .. n, NEW k \in 1 .. n, s[j] = s[k] PROVE j = k
  <2>1. s[j] \in A
    BY <1>2
  <2>2. <<s[j], s[j]>> \notin R
    BY <2>1 DEF Orders
  <2>3. ~ (j < k) /\ ~ (k < j)
    BY <1>2, <1>3, <2>2
  <2> QED BY <1>1, <2>3
<1>4. s \in Injection(1 .. n, A)
  BY <1>2, <1>3 DEF Injection, IsInjective
<1>5. s \in Surjection(1 .. n, A)
  BY <1>1, <1>4, FS_Injection DEF n
<1> QED BY <1>2, <1>3, <1>5 DEF Lists, Surjection, n

(* A finite set has a listing along every strict total order of it.          *)
LEMMA ListingExists ==
  ASSUME NEW A, IsFiniteSet(A), NEW R, Orders(R, A)
  PROVE  \E s : Lists(s, A, R)
<1>1. PICK s \in [1 .. Cardinality(A) -> A] : \A j, k \in DOMAIN s : j < k => <<s[j], s[k]>> \in R
  BY SortingExists DEF Orders
<1> QED BY <1>1, ListingCovers

(* A nonempty finite set has a first member along a strict total order.      *)
LEMMA LeastMember ==
  ASSUME NEW A, IsFiniteSet(A), A # {}, NEW R, Orders(R, A)
  PROVE  \E x \in A : \A y \in A : y = x \/ <<x, y>> \in R
<1>1. PICK s : Lists(s, A, R)
  BY ListingExists
<1>2. Cardinality(A) \in Nat /\ Cardinality(A) # 0
  BY FS_CardinalityType, FS_EmptySet
<1>3. s[1] \in A
  BY <1>1, <1>2 DEF Lists
<1>4. ASSUME NEW y \in A PROVE y = s[1] \/ <<s[1], y>> \in R
  <2>1. PICK k \in 1 .. Cardinality(A) : y = s[k]
    BY <1>1 DEF Lists
  <2>2. k = 1 \/ 1 < k
    BY <1>2
  <2> QED BY <1>1, <1>2, <2>1, <2>2 DEF Lists
<1> QED BY <1>3, <1>4

(* A nonempty finite set of integers has a least member.                     *)
LEMMA LeastInteger ==
  ASSUME NEW S, IsFiniteSet(S), S \subseteq Int, S # {}
  PROVE  \E x \in S : \A y \in S : x <= y
<1> DEFINE R == {p \in S \X S : p[1] < p[2]}
<1>1. \A x, y \in S : <<x, y>> \in R <=> x < y
  OBVIOUS
<1> HIDE DEF R
<1>2. Orders(R, S)
  BY <1>1 DEF Orders
<1>3. PICK x \in S : \A y \in S : y = x \/ <<x, y>> \in R
  BY <1>2, LeastMember
<1>4. ASSUME NEW y \in S PROVE x <= y
  <2>1. x \in Int /\ y \in Int /\ (y = x \/ x < y)
    BY <1>1, <1>3
  <2> QED BY <2>1
<1> QED BY <1>4

(* A nonempty finite set of integers has a greatest member.                  *)
LEMMA GreatestInteger ==
  ASSUME NEW S, IsFiniteSet(S), S \subseteq Int, S # {}
  PROVE  \E x \in S : \A y \in S : y <= x
<1> DEFINE R == {p \in S \X S : p[1] > p[2]}
<1>1. \A x, y \in S : <<x, y>> \in R <=> x > y
  OBVIOUS
<1> HIDE DEF R
<1>2. Orders(R, S)
  BY <1>1 DEF Orders
<1>3. PICK x \in S : \A y \in S : y = x \/ <<x, y>> \in R
  BY <1>2, LeastMember
<1>4. ASSUME NEW y \in S PROVE y <= x
  <2>1. x \in Int /\ y \in Int /\ (y = x \/ x > y)
    BY <1>1, <1>3
  <2> QED BY <2>1
<1> QED BY <1>4

(* The image of a finite set is finite.                                      *)
LEMMA FiniteImage ==
  ASSUME NEW S, IsFiniteSet(S), NEW f
  PROVE  IsFiniteSet({f[x] : x \in S}) /\ Cardinality({f[x] : x \in S}) <= Cardinality(S)
<1> DEFINE T == {f[x] : x \in S}
           g == [x \in S |-> f[x]]
<1>1. g \in Surjection(S, T)
  BY DEF Surjection
<1> HIDE DEF T, g
<1>2. IsFiniteSet(T) /\ Cardinality(T) <= Cardinality(S)
  BY <1>1, FS_Surjection
<1> QED BY <1>2 DEF T

(* Of at least two integers, one has none below it and one has one.          *)
LEMMA LowestTwo ==
  ASSUME NEW S, IsFiniteSet(S), S \subseteq Int, Cardinality(S) >= 2
  PROVE  \E x, y \in S : /\ Cardinality({e \in S : e < x}) = 0
                         /\ Cardinality({e \in S : e < y}) = 1
<1>1. S # {}
  BY FS_EmptySet
<1>2. PICK x \in S : \A e \in S : x <= e
  BY <1>1, LeastInteger
<1> DEFINE Q == S \ {x}
<1>3. IsFiniteSet(Q) /\ Cardinality(Q) = Cardinality(S) - 1 /\ Q \subseteq Int
  BY FS_RemoveElement
<1>4. Q # {}
  <2>1. Cardinality(Q) # 0
    BY <1>3, FS_CardinalityType
  <2> QED BY <2>1, FS_EmptySet
<1> HIDE DEF Q
<1>5. PICK y \in Q : \A e \in Q : y <= e
  BY <1>3, <1>4, LeastInteger
<1>6. x \in Int /\ y \in Int /\ y \in S /\ x < y
  <2>1. x \in Int /\ y \in S /\ y # x /\ y \in Int
    BY DEF Q
  <2>2. x <= y
    BY <1>2, <2>1
  <2> QED BY <2>1, <2>2
<1>7. {e \in S : e < x} = {}
  <2>1. \A e \in S : ~ (e < x)
    <3> SUFFICES ASSUME NEW e \in S PROVE ~ (e < x)
      OBVIOUS
    <3>1. e \in Int /\ x <= e
      BY <1>2
    <3> QED BY <1>6, <3>1
  <2> QED BY <2>1
<1>8. {e \in S : e < y} = {x}
  <2>1. ASSUME NEW e \in S, e < y PROVE e = x
    <3>1. e \in Int
      OBVIOUS
    <3>2. e \in Q => y <= e
      BY <1>5
    <3> QED BY <1>6, <2>1, <3>1, <3>2 DEF Q
  <2> QED BY <1>6, <2>1
<1> QED BY <1>6, <1>7, <1>8, FS_EmptySet, FS_Singleton

(* The number of a document's fold is its rank modulo the number of folds.   *)
Rank(docs, d) == Est!Cardinality({e \in docs : e < d})

(* The rank of a document, counted with the finite sets of the prover.       *)
LEMMA RankIs == \A docs, d : Rank(docs, d) = Cardinality({e \in docs : e < d})
BY Zenon DEF Est!Cardinality, Cardinality, Rank

(* Every document is in the test rows of one fold, the one of its rank.      *)
LEMMA FoldOfDocument ==
  ASSUME NEW groups, IsFiniteSet(DOMAIN groups), \A i \in DOMAIN groups : groups[i] \in Int,
         NEW n \in Nat, n >= 2, Cardinality(Est!Documents(groups, DOMAIN groups)) >= n
  PROVE  LET docs == Est!Documents(groups, DOMAIN groups)
             folds == Est!grouped_folds(groups, n)
         IN  /\ \A k \in DOMAIN folds :
                  /\ folds[k].test = {i \in DOMAIN groups : Rank(docs, groups[i]) % n = k}
                  /\ folds[k].train = DOMAIN groups \ folds[k].test
             /\ \A d \in docs : Rank(docs, d) % n \in DOMAIN folds
<1> DEFINE I == DOMAIN groups
           docs == Est!Documents(groups, I)
           folds == Est!grouped_folds(groups, n)
           Test(k) == {i \in I : Rank(docs, groups[i]) % n = k}
           Train(k) == I \ Test(k)
           K == {j \in 0..(n - 1) : Test(j) # {} /\ Train(j) # {}}
<1>0. docs = {groups[i] : i \in I} /\ docs \subseteq Int
  BY DEF Est!Documents
<1>1. IsFiniteSet(docs)
  BY <1>0, FiniteImage
<1> HIDE DEF docs
<1>2. folds = [k \in K |-> [test |-> Test(k), train |-> Train(k)]]
  <2> DEFINE m == IF Est!Cardinality(docs) < n THEN Est!Max({2, Est!Cardinality(docs)}) ELSE n
  <2>1. m = n
    <3>1. Est!Cardinality(docs) = Cardinality(docs)
      BY Zenon DEF Est!Cardinality, Cardinality
    <3>2. Cardinality(docs) \in Nat
      BY <1>1, FS_CardinalityType
    <3> QED BY <3>1, <3>2 DEF docs
  <2>2. folds = [k \in {j \in 0..(m - 1) : {i \in I : Rank(docs, groups[i]) % m = j} # {}
                                        /\ I \ {i \in I : Rank(docs, groups[i]) % m = j} # {}} |->
                   [test |-> {i \in I : Rank(docs, groups[i]) % m = k},
                    train |-> I \ {i \in I : Rank(docs, groups[i]) % m = k}]]
    BY Zenon DEF Est!grouped_folds, Rank, docs
  <2> HIDE DEF m
  <2> QED BY <2>1, <2>2
<1>3. \A d \in docs : Rank(docs, d) \in Nat
  <2> SUFFICES ASSUME NEW d \in docs PROVE Rank(docs, d) \in Nat
    OBVIOUS
  <2>1. IsFiniteSet({e \in docs : e < d})
    BY <1>1, FS_Subset
  <2> QED BY <2>1, FS_CardinalityType, RankIs
<1>4. ASSUME NEW d \in docs PROVE Rank(docs, d) % n \in K
  <2> DEFINE k == Rank(docs, d) % n
  <2>1. k \in 0 .. n - 1
    BY <1>3
  <2>2. Test(k) # {}
    BY <1>0
  <2>3. Train(k) # {}
    <3>1. PICK x, y \in docs : Rank(docs, x) = 0 /\ Rank(docs, y) = 1
      <4>1. Cardinality(docs) >= 2
        <5>1. Cardinality(docs) \in Nat /\ Cardinality(docs) >= n
          BY <1>1, FS_CardinalityType DEF docs
        <5> QED BY <5>1
      <4> QED BY <1>0, <1>1, <4>1, LowestTwo, RankIs
    <3>2. Rank(docs, x) % n = 0 /\ Rank(docs, y) % n = 1
      BY <3>1
    <3>3. Rank(docs, x) % n # k \/ Rank(docs, y) % n # k
      BY <3>2
    <3> QED BY <1>0, <3>1, <3>3
  <2> QED BY <2>1, <2>2, <2>3
<1>5. DOMAIN folds = K /\ \A k \in K : folds[k].test = Test(k) /\ folds[k].train = Train(k)
  <2> HIDE DEF K, Test, Train, folds
  <2> QED BY <1>2
<1> HIDE DEF folds, K
<1> QED BY <1>4, <1>5 DEF folds, docs

(* run_nested_grouped_crossfit (causalrelay/nested_crossfit.py): with too few *)
(* documents it refuses; otherwise neither of its leakage errors is ever     *)
(* raised, every document is in the test rows of exactly one outer fold, and *)
(* its prediction comes from rows of other documents only; for any rows,     *)
(* any assignment of documents to them and any number of folds.              *)
THEOREM CrossFitNeverLeaks ==
  ASSUME NEW groups, IsFiniteSet(DOMAIN groups), DOMAIN groups \subseteq Int,
         \A i \in DOMAIN groups : groups[i] \in Int,
         NEW error, NEW n_outer \in Nat, n_outer >= 2, NEW n_inner
  PROVE  LET r == Est!run_nested(groups, error, n_outer, n_inner)
             docs == Est!Documents(groups, DOMAIN groups)
             folds == r.fold_results
         IN  IF Cardinality(docs) < n_outer THEN r.raised = "ValueError"
             ELSE /\ r.raised = ""
                  /\ \A d \in docs :
                       /\ \E k \in DOMAIN folds : \A j \in DOMAIN folds :
                            d \in folds[j].test_document_ids <=> j = k
                       /\ d \notin Est!Documents(groups, r.predictions[d].fitted_on)
<1> DEFINE I == DOMAIN groups
           docs == Est!Documents(groups, I)
           outer == Est!grouped_folds(groups, n_outer)
           Trained(f) == LET rows == Est!SetToSortSeq(f.train, <)
                         IN  [i \in DOMAIN rows |-> groups[rows[i]]]
           inner == [k \in DOMAIN outer |-> Est!grouped_folds(Trained(outer[k]), n_inner)]
           Predicted(d) == CHOOSE i \in DOMAIN groups :
                             groups[i] = d /\ \A j \in DOMAIN groups : groups[j] = d => j <= i
           FoldOf(i) == CHOOSE k \in DOMAIN outer : i \in outer[k].test
           r == Est!run_nested(groups, error, n_outer, n_inner)
           results == [k \in DOMAIN outer |->
              [train_document_ids |-> Est!Documents(groups, outer[k].train),
               test_document_ids |-> Est!Documents(groups, outer[k].test),
               selected |-> IF DOMAIN inner[k] = {} THEN 0 ELSE Est!FirstBest(error)]]
           predictions == [d \in docs |->
              [row |-> Predicted(d), fitted_on |-> outer[FoldOf(Predicted(d))].train]]
           leaks == Est!Leaks(groups, outer) \/ \E k \in DOMAIN outer : Est!Leaks(Trained(outer[k]), inner[k])
<1>1. r = IF Est!Cardinality(docs) < n_outer THEN [raised |-> "ValueError"]
          ELSE IF leaks THEN [raised |-> "LeakageError"]
          ELSE [raised |-> "", fold_results |-> results, predictions |-> predictions]
  BY Zenon DEF Est!run_nested
<1>2. Est!Cardinality(docs) = Cardinality(docs)
  BY Zenon DEF Est!Cardinality, Cardinality
<1>3. ~ leaks
  <2>1. ~ Est!Leaks(groups, outer)
    BY FoldsNeverLeak
  <2>2. ASSUME NEW k \in DOMAIN outer PROVE ~ Est!Leaks(Trained(outer[k]), inner[k])
    <3> DEFINE g == Trained(outer[k])
    <3>1. inner[k] = Est!grouped_folds(g, n_inner)
      <4> HIDE DEF outer, Trained
      <4> QED OBVIOUS
    <3> HIDE DEF g, inner
    <3>2. ~ Est!Leaks(g, Est!grouped_folds(g, n_inner))
      BY FoldsNeverLeak
    <3>3. ~ Est!Leaks(g, inner[k])
      BY <3>1, <3>2
    <3> QED BY <3>3 DEF g
  <2> HIDE DEF outer, inner, Trained
  <2> QED BY <2>1, <2>2
<1>4. CASE Cardinality(docs) < n_outer
  <2> HIDE DEF docs, leaks, results, predictions, r
  <2>1. r = [raised |-> "ValueError"]
    BY <1>1, <1>2, <1>4
  <2> QED BY <1>4, <2>1 DEF r, docs
<1>5. CASE ~ (Cardinality(docs) < n_outer)
  <2>1. r.raised = "" /\ r.fold_results = results /\ r.predictions = predictions
    <3> HIDE DEF docs, leaks, results, predictions, r
    <3>1. r = [raised |-> "", fold_results |-> results, predictions |-> predictions]
      BY <1>1, <1>2, <1>3, <1>5
    <3> QED BY <3>1
  <2>2. docs = {groups[i] : i \in I} /\ IsFiniteSet(docs)
    <3>1. docs = {groups[i] : i \in I}
      BY DEF Est!Documents
    <3> HIDE DEF docs
    <3> QED BY <3>1, FiniteImage
  <2>3. /\ \A k \in DOMAIN outer :
             /\ outer[k].test = {i \in I : Rank(docs, groups[i]) % n_outer = k}
             /\ outer[k].train = I \ outer[k].test
        /\ \A d \in docs : Rank(docs, d) % n_outer \in DOMAIN outer
    <3>1. Cardinality(docs) >= n_outer
      <4>1. Cardinality(docs) \in Nat
        BY <2>2, FS_CardinalityType
      <4> QED BY <1>5, <4>1
    <3> QED BY <3>1, FoldOfDocument
  <2>4. DOMAIN results = DOMAIN outer
        /\ \A k \in DOMAIN outer : results[k].test_document_ids = Est!Documents(groups, outer[k].test)
    <3> HIDE DEF outer, inner
    <3> QED OBVIOUS
  <2>5. \A d \in docs : predictions[d].fitted_on = outer[FoldOf(Predicted(d))].train
    <3> HIDE DEF outer, docs, Predicted, FoldOf
    <3> QED OBVIOUS
  <2> HIDE DEF outer, docs, results, predictions, r, inner, Predicted, FoldOf
  <2>6. ASSUME NEW d \in docs
        PROVE  \E k \in DOMAIN results : \A j \in DOMAIN results :
                 d \in results[j].test_document_ids <=> j = k
    <3> DEFINE k == Rank(docs, d) % n_outer
    <3>1. ASSUME NEW j \in DOMAIN outer
          PROVE  d \in Est!Documents(groups, outer[j].test) <=> j = k
      BY <2>2, <2>3, <3>1 DEF Est!Documents
    <3> QED BY <2>3, <2>4, <3>1
  <2>7. ASSUME NEW d \in docs
        PROVE  d \notin Est!Documents(groups, predictions[d].fitted_on)
    <3>1. Predicted(d) \in I /\ groups[Predicted(d)] = d
      <4> DEFINE mine == {i \in I : groups[i] = d}
      <4>1. mine # {} /\ IsFiniteSet(mine) /\ mine \subseteq Int
        BY <2>2, FS_Subset
      <4>2. PICK i \in mine : \A j \in mine : j <= i
        <5> HIDE DEF mine
        <5> QED BY <4>1, GreatestInteger
      <4>3. \E i1 \in I : groups[i1] = d /\ \A j \in I : groups[j] = d => j <= i1
        BY <4>2
      <4> QED BY <4>3 DEF Predicted
    <3> DEFINE i == Predicted(d)
               k == FoldOf(i)
    <3>2. k \in DOMAIN outer /\ i \in outer[k].test
      <4>1. \E j \in DOMAIN outer : i \in outer[j].test
        BY <2>3, <3>1
      <4> HIDE DEF i
      <4> QED BY <4>1 DEF FoldOf
    <3>3. d \in Est!Documents(groups, outer[k].test)
      BY <3>1, <3>2 DEF Est!Documents
    <3>4. ~ Est!Leaks(groups, outer)
      BY FoldsNeverLeak DEF outer
    <3>5. d \notin Est!Documents(groups, outer[k].train)
      BY <3>2, <3>3, <3>4 DEF Est!Leaks
    <3> QED BY <2>5, <3>5
  <2> QED BY <1>5, <2>1, <2>6, <2>7, Zenon DEF r, docs
<1> QED BY <1>4, <1>5

(* A sum may be taken over the images of an injection.                       *)
LEMMA SumOfImage ==
  ASSUME NEW S, IsFiniteSet(S), NEW image, \A x, y \in S : image[x] = image[y] => x = y,
         NEW F, NEW G, \A x \in S : F[x] \in Int /\ G[image[x]] = F[x]
  PROVE  SumOver(G, {image[x] : x \in S}) = SumOver(F, S)
<1> DEFINE n == Cardinality(S)
           Img(T) == {image[x] : x \in T}
           P == {k \in 0 .. n : \A T \in SUBSET S :
                   Cardinality(T) = k => SumOver(G, Img(T)) = SumOver(F, T)}
<1>1. n \in Nat
  BY FS_CardinalityType
<1>2. 0 \in P
  <2>1. ASSUME NEW T \in SUBSET S, Cardinality(T) = 0 PROVE SumOver(G, Img(T)) = SumOver(F, T)
    <3>1. T = {}
      BY <2>1, FS_EmptySet, FS_Subset
    <3>2. Img(T) = {}
      BY <3>1
    <3> QED BY <3>1, <3>2, SumOfNone
  <2> HIDE DEF n, Img
  <2> QED BY <1>1, <2>1
<1>3. ASSUME NEW k \in 1 .. n, k - 1 \in P PROVE k \in P
  <2>1. ASSUME NEW T \in SUBSET S, Cardinality(T) = k PROVE SumOver(G, Img(T)) = SumOver(F, T)
    <3>1. IsFiniteSet(T) /\ T # {}
      BY <1>1, <2>1, FS_Subset, FS_EmptySet
    <3>2. PICK e \in T : TRUE
      BY <3>1
    <3> DEFINE U == T \ {e}
               A == Img(T)
    <3>3. Cardinality(U) = k - 1 /\ U \in SUBSET S
      BY <2>1, <3>1, FS_RemoveElement
    <3>4. SumOver(G, Img(U)) = SumOver(F, U)
      <4> HIDE DEF U, Img, n
      <4> QED BY <1>3, <3>3
    <3>5. Img(U) = A \ {image[e]} /\ image[e] \in A
      OBVIOUS
    <3>6. IsFiniteSet(A)
      BY <3>1, FiniteImage
    <3>7. \A y \in A : G[y] \in Int
      OBVIOUS
    <3> HIDE DEF A, U, Img
    <3>8. SumOver(G, A) = G[image[e]] + SumOver(G, A \ {image[e]})
      BY <3>5, <3>6, <3>7, SumTakesOut
    <3>9. SumOver(F, T) = F[e] + SumOver(F, T \ {e})
      BY <3>1, SumTakesOut
    <3> QED BY <3>4, <3>5, <3>8, <3>9 DEF U, A
  <2> HIDE DEF n, Img
  <2> QED BY <1>1, <2>1
<1> HIDE DEF P
<1>4. n \in P
  BY <1>1, <1>2, <1>3, InductUpTo
<1>5. \A T \in SUBSET S : Cardinality(T) = n => SumOver(G, Img(T)) = SumOver(F, T)
  BY <1>4 DEF P
<1> HIDE DEF Img
<1>6. SumOver(G, Img(S)) = SumOver(F, S)
  BY <1>5
<1> QED BY <1>6 DEF Img

(* Summands of at most c.                                                    *)
LEMMA SumAtMost ==
  ASSUME NEW S, IsFiniteSet(S), NEW F, NEW c \in Int, \A x \in S : F[x] \in Int /\ F[x] <= c
  PROVE  SumOver(F, S) \in Int /\ SumOver(F, S) <= Cardinality(S) * c
<1> DEFINE n == Cardinality(S)
           P == {k \in 0 .. n : \A T \in SUBSET S : Cardinality(T) = k => SumOver(F, T) <= k * c}
<1>1. n \in Nat /\ SumOver(F, S) \in Int
  BY FS_CardinalityType, SumIsInt
<1>2. 0 \in P
  <2>1. ASSUME NEW T \in SUBSET S, Cardinality(T) = 0 PROVE SumOver(F, T) <= 0 * c
    <3>1. T = {}
      BY <2>1, FS_EmptySet, FS_Subset
    <3> QED BY <3>1, SumOfNone
  <2> HIDE DEF n
  <2> QED BY <1>1, <2>1
<1>3. ASSUME NEW k \in 1 .. n, k - 1 \in P PROVE k \in P
  <2>1. ASSUME NEW T \in SUBSET S, Cardinality(T) = k PROVE SumOver(F, T) <= k * c
    <3>1. IsFiniteSet(T) /\ T # {}
      BY <1>1, <2>1, FS_Subset, FS_EmptySet
    <3>2. PICK e \in T : TRUE
      BY <3>1
    <3> DEFINE U == T \ {e}
    <3>3. Cardinality(U) = k - 1 /\ U \in SUBSET S /\ IsFiniteSet(U)
      BY <2>1, <3>1, FS_RemoveElement
    <3> HIDE DEF U
    <3>4. SumOver(F, U) <= (k - 1) * c /\ SumOver(F, U) \in Int
      BY <1>3, <3>3, SumIsInt DEF P
    <3>5. SumOver(F, T) = F[e] + SumOver(F, U)
      BY <3>1, SumTakesOut DEF U
    <3>6. F[e] \in Int /\ F[e] <= c
      OBVIOUS
    <3>7. (k - 1) * c \in Int /\ k * c = (k - 1) * c + c
      BY <1>1
    <3> QED BY <3>4, <3>5, <3>6, <3>7
  <2> HIDE DEF n
  <2> QED BY <1>1, <2>1
<1> HIDE DEF P
<1>4. n \in P
  BY <1>1, <1>2, <1>3, InductUpTo
<1> QED BY <1>1, <1>4 DEF P

(* SumFunction, for provers.  *)
LEMMA SumFunctionIs == ASSUME NEW f PROVE Est!SumFunction(f) = SumOver(f, DOMAIN f)
BY DEF Est!SumFunction, Est!SumFunctionOnSet, Est!FoldFunctionOnSet, Est!MapThenFoldSet, SumOver, MapThenSumSet, MapThenFoldSet

(* Summands may be added one by one. *)
LEMMA SumOfSums ==
  ASSUME NEW S, IsFiniteSet(S), NEW F, NEW G, NEW H,
         \A x \in S : F[x] \in Int /\ G[x] \in Int /\ H[x] = F[x] + G[x]
  PROVE  SumOver(H, S) = SumOver(F, S) + SumOver(G, S)
<1>. DEFINE C == {T \in SUBSET S : SumOver(H, T) # SumOver(F, T) + SumOver(G, T)}
<1>1. ASSUME C # {} PROVE FALSE
  <2>1. \A U \in C : U \subseteq S
    OBVIOUS
  <2>2. PICK T \in C : \A U \in C : ~ (U \subseteq T /\ U # T)
    <3>. HIDE DEF C
    <3>. QED BY <1>1, <2>1, MinimalSubset
  <2>3. T \in SUBSET S /\ SumOver(H, T) # SumOver(F, T) + SumOver(G, T)
    OBVIOUS
  <2>4. IsFiniteSet(T)
    BY <2>3, FS_Subset
  <2>5. CASE T = {}
    BY <2>3, <2>5, SumOfNone
  <2>6. CASE T # {}
    <3>1. PICK e \in T : TRUE
      BY <2>6
    <3>. DEFINE U == T \ {e}
    <3>2. SumOver(H, U) = SumOver(F, U) + SumOver(G, U)
      BY <2>2, <2>3
    <3>. HIDE DEF C
    <3>3. \A x \in T : F[x] \in Int /\ G[x] \in Int /\ H[x] \in Int
      BY <2>3
    <3>4. /\ SumOver(H, T) = H[e] + SumOver(H, U)
          /\ SumOver(F, T) = F[e] + SumOver(F, U)
          /\ SumOver(G, T) = G[e] + SumOver(G, U)
      BY <2>4, <3>3, SumTakesOut
    <3>5. IsFiniteSet(U) /\ \A x \in U : F[x] \in Int /\ G[x] \in Int
      BY <2>4, <3>3, FS_Subset
    <3>6. SumOver(F, U) \in Int /\ SumOver(G, U) \in Int
      BY <3>5, SumIsInt
    <3>7. H[e] = F[e] + G[e] /\ F[e] \in Int /\ G[e] \in Int
      BY <2>3
    <3>. HIDE DEF U
    <3>. QED
      BY <2>3, <3>2, <3>4, <3>6, <3>7
  <2>. QED
    BY <2>5, <2>6
<1>. QED
  BY <1>1

(* The decomposition closes, as an identity between fractions.               *)
LEMMA ClosesAlgebra ==
  ASSUME NEW W \in Int, NEW R \in Int, NEW T \in Int, NEW D \in Int, NEW TD \in Int
  PROVE  Est!SameNumber(<<R + TD, W>>,
           Est!Plus(<<R, W>>, Est!Plus(Est!Times(<<T, W>>, <<D, W>>),
                                       Est!Minus(<<TD, W>>, Est!Times(<<T, W>>, <<D, W>>)))))
<1>. DEFINE v == Est!Times(<<T, W>>, <<D, W>>)
            m == Est!Minus(<<TD, W>>, v)
            s == Est!Plus(v, m)
            e == Est!Plus(<<R, W>>, s)
<1>1. v = <<T * D, W * W>>
  BY DEF Est!Times
<1>2. m = <<TD * (W * W) + (-(T * D)) * W, W * (W * W)>>
  BY <1>1 DEF Est!Minus, Est!Plus, Est!Negated
<1>3. s = <<(T * D) * (W * (W * W)) + (TD * (W * W) + (-(T * D)) * W) * (W * W), (W * W) * (W * (W * W))>>
  BY <1>1, <1>2 DEF Est!Plus
<1>. HIDE DEF s
<1>4. e = <<R * s[2] + s[1] * W, W * s[2]>>
  BY DEF Est!Plus
<1>5. s[1] * W = TD * s[2]
  <2>1. s[1] = (T * D) * (W * (W * W)) + (TD * (W * W) + (-(T * D)) * W) * (W * W)
    BY <1>3
  <2>2. s[2] = (W * W) * (W * (W * W))
    BY <1>3
  <2>. QED
    BY <2>1, <2>2
<1>6. s[2] \in Int /\ s[1] \in Int
  BY <1>3
<1>7. (R + TD) * (W * s[2]) = (R * s[2] + s[1] * W) * W
  BY <1>5, <1>6
<1>. HIDE DEF e
<1>8. Est!SameNumber(<<R + TD, W>>, e)
  BY <1>4, <1>7 DEF Est!SameNumber
<1>. QED
  BY <1>8 DEF e, s

(* The two other routes to the selection bias, as identities of fractions.   *)
LEMMA BiasAlgebra ==
  ASSUME NEW W0 \in Nat \ {0}, NEW W1 \in Nat \ {0}, NEW R0 \in Int, NEW R1 \in Int,
         NEW W, W = W0 + W1, NEW R, R = R0 + R1
  PROVE  LET bias == Est!Minus(<<R0, W0>>, <<R, W>>)
             cov == Est!Minus(<<R1, W>>, Est!Times(<<W1, W>>, <<R, W>>))
         IN  /\ Est!SameNumber(bias, Est!Over(Est!Negated(cov), Est!Minus(Est!Frac(1), <<W1, W>>)))
             /\ Est!SameNumber(bias, Est!Times(<<W1, W>>, Est!Minus(<<R0, W0>>, <<R1, W1>>)))
<1>. DEFINE bias == Est!Minus(<<R0, W0>>, <<R, W>>)
            prod == Est!Times(<<W1, W>>, <<R, W>>)
            cov == Est!Minus(<<R1, W>>, prod)
            rest == Est!Minus(Est!Frac(1), <<W1, W>>)
            x == Est!Over(Est!Negated(cov), rest)
            y == Est!Times(<<W1, W>>, Est!Minus(<<R0, W0>>, <<R1, W1>>))
            n == R0 * W1 - R1 * W0
<1>0. W \in Int /\ R \in Int /\ n \in Int
  OBVIOUS
<1>1. bias = <<R0 * W + (-R) * W0, W0 * W>>
  BY DEF Est!Minus, Est!Plus, Est!Negated
<1>2. prod = <<W1 * R, W * W>>
  BY DEF Est!Times
<1>3. cov = <<R1 * (W * W) + (-(W1 * R)) * W, W * (W * W)>>
  BY <1>2 DEF Est!Minus, Est!Plus, Est!Negated
<1>4. rest = <<1 * W + (-W1) * 1, 1 * W>>
  BY DEF Est!Minus, Est!Plus, Est!Negated, Est!Frac
<1>5. rest[1] = W0 /\ rest[2] = W /\ W0 > 0
  BY <1>4
<1>6. y = <<W1 * (R0 * W1 + (-R1) * W0), W * (W0 * W1)>>
  BY DEF Est!Minus, Est!Plus, Est!Negated, Est!Times
<1>7. R0 * W + (-R) * W0 = n
  OBVIOUS
<1>8. R1 * (W * W) + (-(W1 * R)) * W = -(n * W)
  OBVIOUS
<1>9. R0 * W1 + (-R1) * W0 = n
  OBVIOUS
<1>10. bias = <<n, W0 * W>> /\ y = <<W1 * n, W * (W0 * W1)>>
  BY <1>1, <1>6, <1>7, <1>9
<1>11. cov = <<-(n * W), W * (W * W)>>
  BY <1>3, <1>8
<1>. HIDE DEF n, rest
<1>12. Est!Negated(cov) = <<-(-(n * W)), W * (W * W)>>
  BY <1>11 DEF Est!Negated
<1>13. -(-(n * W)) = n * W
  BY <1>0
<1>14. Est!Negated(cov) = <<n * W, W * (W * W)>>
  BY <1>12, <1>13
<1>15. x = <<(n * W) * W, (W * (W * W)) * W0>>
  <2>1. x = <<Est!Negated(cov)[1] * rest[2], Est!Negated(cov)[2] * rest[1]>>
    BY <1>5 DEF Est!Over
  <2>2. Est!Negated(cov)[1] = n * W /\ Est!Negated(cov)[2] = W * (W * W)
    BY <1>14
  <2>. HIDE DEF x, cov
  <2>. QED
    BY <1>5, <2>1, <2>2
<1>. HIDE DEF bias, x, y
<1>16. n * ((W * (W * W)) * W0) = ((n * W) * W) * (W0 * W)
  BY <1>0
<1>17. n * (W * (W0 * W1)) = (W1 * n) * (W0 * W)
  BY <1>0
<1>18. Est!SameNumber(bias, x) /\ Est!SameNumber(bias, y)
  BY <1>10, <1>15, <1>16, <1>17 DEF Est!SameNumber
<1>. QED
  BY <1>18 DEF bias, x, y, cov, rest, prod

Products(w, v, J) == [i \in J |-> w[i] * v[i]]

(* A Hajek mean: the weighted sum over the sum of the weights.               *)
LEMMA HajekIs ==
  ASSUME NEW J, NEW v, NEW w, DOMAIN v = J, DOMAIN w = J
  PROVE  Est!hajek(v, w) = <<SumOver(Products(w, v, J), J), SumOver(w, J)>>
<1>. DEFINE f == [i \in J |-> w[i] * v[i]]
<1>1. Est!Weighted(v, w) = Est!SumFunction(f)
  BY DEF Est!Weighted
<1>2. Est!SumFunction(f) = SumOver(f, DOMAIN f) /\ Est!SumFunction(w) = SumOver(w, DOMAIN w)
  BY Zenon, SumFunctionIs
<1>3. DOMAIN f = J
  OBVIOUS
<1>. HIDE DEF f
<1>4. Est!hajek(v, w) = <<SumOver(f, J), SumOver(w, J)>>
  BY <1>1, <1>2, <1>3 DEF Est!hajek
<1>. QED
  BY <1>4 DEF f, Products

(* A sum over two parts of a set. *)
LEMMA SumOfParts ==
  ASSUME NEW S, IsFiniteSet(S), NEW A \in SUBSET S, NEW F, \A x \in S : F[x] \in Int
  PROVE  SumOver(F, S) = SumOver(F, A) + SumOver(F, S \ A)
<1>. DEFINE C == {T \in SUBSET A : SumOver(F, (S \ A) \cup T) # SumOver(F, T) + SumOver(F, S \ A)}
<1>0. IsFiniteSet(A) /\ IsFiniteSet(S \ A)
  BY FS_Subset
<1>9. SumOver(F, S \ A) \in Int
  BY <1>0, SumIsInt
<1>1. ASSUME C # {} PROVE FALSE
  <2>1. \A U \in C : U \subseteq A
    OBVIOUS
  <2>2. PICK T \in C : \A U \in C : ~ (U \subseteq T /\ U # T)
    <3>. HIDE DEF C
    <3>. QED BY <1>0, <1>1, <2>1, MinimalSubset
  <2>3. T \in SUBSET A /\ SumOver(F, (S \ A) \cup T) # SumOver(F, T) + SumOver(F, S \ A)
    OBVIOUS
  <2>4. IsFiniteSet(T)
    BY <1>0, <2>3, FS_Subset
  <2>5. CASE T = {}
    <3>1. (S \ A) \cup T = S \ A
      BY <2>5
    <3>2. SumOver(F, T) = 0
      BY <2>5, SumOfNone
    <3>. HIDE DEF C
    <3>3. SumOver(F, (S \ A) \cup T) = SumOver(F, S \ A)
      BY <3>1
    <3>. QED
      BY <1>9, <2>3, <3>2, <3>3
  <2>6. CASE T # {}
    <3>1. PICK e \in T : TRUE
      BY <2>6
    <3>. DEFINE U == T \ {e}
                V == (S \ A) \cup T
                Z == (S \ A) \cup U
    <3>0. U \notin C /\ U \in SUBSET A
      BY <2>2, <2>3
    <3>2. SumOver(F, Z) = SumOver(F, U) + SumOver(F, S \ A)
      BY <3>0
    <3>. HIDE DEF C
    <3>3. V \subseteq S /\ e \in V /\ V \ {e} = Z /\ U \subseteq S
      BY <2>3
    <3>4. IsFiniteSet(V) /\ IsFiniteSet(U) /\ IsFiniteSet(Z)
      BY <3>3, FS_Subset
    <3>5. (\A x \in V : F[x] \in Int) /\ (\A x \in T : F[x] \in Int) /\ (\A x \in U : F[x] \in Int)
      BY <2>3, <3>3
    <3>. HIDE DEF U, V, Z
    <3>6. SumOver(F, V) = F[e] + SumOver(F, V \ {e})
      BY <3>3, <3>4, <3>5, SumTakesOut
    <3>7. SumOver(F, T) = F[e] + SumOver(F, T \ {e})
      BY <2>4, <3>5, SumTakesOut
    <3>8. SumOver(F, U) \in Int
      BY <3>4, <3>5, SumIsInt
    <3>9. F[e] \in Int
      BY <3>5
    <3>10. SumOver(F, V) = F[e] + (SumOver(F, U) + SumOver(F, S \ A))
      BY <3>2, <3>3, <3>6
    <3>11. SumOver(F, T) = F[e] + SumOver(F, U)
      BY <3>7 DEF U
    <3>12. SumOver(F, V) = SumOver(F, T) + SumOver(F, S \ A)
      BY <1>9, <3>8, <3>9, <3>10, <3>11
    <3>. QED
      BY <2>3, <3>12 DEF V
  <2>. QED
    BY <2>5, <2>6
<1>2. A \notin C /\ (S \ A) \cup A = S
  BY <1>1
<1>. QED
  BY <1>2

(* A sum over a nonempty set of positive integers is positive.               *)
LEMMA SumIsPositive ==
  ASSUME NEW S, IsFiniteSet(S), S # {}, NEW F, \A x \in S : F[x] \in Nat \ {0}
  PROVE  SumOver(F, S) \in Nat \ {0}
<1>1. PICK e \in S : TRUE
  OBVIOUS
<1>2. SumOver(F, S) = F[e] + SumOver(F, S \ {e})
  BY SumTakesOut
<1>3. IsFiniteSet(S \ {e})
  BY FS_Subset
<1>4. SumOver(F, S \ {e}) \in Nat
  BY <1>3, SumIsNat
<1>. QED
  BY <1>2, <1>4

(* A sum of zeros is zero.                                                   *)
LEMMA SumOfZeros ==
  ASSUME NEW S, IsFiniteSet(S), NEW F, \A x \in S : F[x] = 0
  PROVE  SumOver(F, S) = 0
<1>1. SumOver(F, S) \in Nat
  BY SumIsNat
<1>2. SumOver(F, S) # 0 => \E x \in S : F[x] > 0
  BY SumHasSummand
<1>. QED
  BY <1>2

(* What a record of the sample holds.                                        *)
Measured(X) ==
  \A x \in X : x.t \in {0, 1} /\ x.w \in Nat \ {0} /\ x.q \in Nat \ {0}
              /\ x.rm \in Int /\ x.dp \in Int

(* The weights of a nonempty set of records have a positive sum.             *)
LEMMA WeightsArePositive ==
  ASSUME NEW X, Measured(X), NEW s \in Seq(X), NEW two \in BOOLEAN
  PROVE  /\ DOMAIN Est!design_weights(s, two) = DOMAIN s
         /\ \A i \in DOMAIN s : Est!design_weights(s, two)[i] \in Nat \ {0}
<1>1. \A i \in DOMAIN s : s[i].w \in Nat \ {0} /\ s[i].q \in Nat \ {0}
  BY DEF Measured
<1>2. \A a, b \in Nat \ {0} : a * b \in Nat \ {0}
  OBVIOUS
<1>3. \A i \in DOMAIN s : s[i].w * s[i].q \in Nat \ {0}
  BY <1>1, <1>2
<1>. QED
  BY <1>1, <1>3 DEF Est!design_weights

(* decompose (causal/estimands.py): endpoint fidelity is the volume term,    *)
(* the alignment term and the reconstruction without transmission, added;    *)
(* whatever the records, their positive weights and their outcomes, and      *)
(* whatever the treatment they were drawn under.                             *)
THEOREM DecompositionCloses ==
  ASSUME NEW X, Measured(X), NEW s \in Seq(X), s # << >>, NEW two \in BOOLEAN
  PROVE  LET d == Est!decompose(s, two)
         IN  /\ d.endpoint_fidelity[2] > 0
             /\ Est!SameNumber(d.endpoint_fidelity, Est!Plus(d.r_bar_zero, Est!Plus(d.volume, d.alignment)))
<1>. DEFINE I == DOMAIN s
            w == Est!design_weights(s, two)
            t == [i \in I |-> s[i].t]
            rm == [i \in I |-> s[i].rm]
            delta == [i \in I |-> s[i].dp - s[i].rm]
            y == [i \in I |-> IF t[i] = 1 THEN s[i].dp ELSE rm[i]]
            td == [i \in I |-> t[i] * delta[i]]
            wy == Products(w, y, I)
            wrm == Products(w, rm, I)
            wt == Products(w, t, I)
            wd == Products(w, delta, I)
            wtd == Products(w, td, I)
            W == SumOver(w, I)
            d == Est!decompose(s, two)
<1>1. I = 1 .. Len(s) /\ IsFiniteSet(I) /\ I # {}
  <2>1. Len(s) \in Nat /\ I = 1 .. Len(s) /\ Len(s) # 0
    BY LenProperties, EmptySeq
  <2>2. IsFiniteSet(1 .. Len(s))
    BY <2>1, FS_Interval
  <2>3. 1 \in 1 .. Len(s)
    BY <2>1
  <2>. HIDE DEF I
  <2>. QED
    BY <2>1, <2>2, <2>3
<1>2. DOMAIN w = I /\ \A i \in I : w[i] \in Nat \ {0}
  BY WeightsArePositive
<1>3. \A i \in I : /\ t[i] \in {0, 1} /\ rm[i] \in Int /\ delta[i] \in Int
                   /\ y[i] = rm[i] + td[i]
  BY DEF Measured
<1>4. /\ d.endpoint_fidelity = Est!hajek(y, w) /\ d.r_bar_zero = Est!hajek(rm, w)
      /\ d.volume = Est!Times(Est!hajek(t, w), Est!hajek(delta, w))
      /\ d.alignment = Est!weighted_covariance(t, delta, w)
  BY DEF Est!decompose
<1>5. Est!weighted_covariance(t, delta, w) =
        Est!Minus(Est!hajek(td, w), Est!Times(Est!hajek(t, w), Est!hajek(delta, w)))
  BY DEF Est!weighted_covariance
<1>6. /\ DOMAIN y = I /\ DOMAIN rm = I /\ DOMAIN t = I /\ DOMAIN delta = I /\ DOMAIN td = I
  OBVIOUS
<1>. HIDE DEF I, w, t, rm, delta, y, td, d
<1>7. /\ Est!hajek(y, w) = <<SumOver(wy, I), W>> /\ Est!hajek(rm, w) = <<SumOver(wrm, I), W>>
      /\ Est!hajek(t, w) = <<SumOver(wt, I), W>> /\ Est!hajek(delta, w) = <<SumOver(wd, I), W>>
      /\ Est!hajek(td, w) = <<SumOver(wtd, I), W>>
  <2>1. Est!hajek(y, w) = <<SumOver(wy, I), W>>
    BY <1>2, <1>6, HajekIs
  <2>2. Est!hajek(rm, w) = <<SumOver(wrm, I), W>>
    BY <1>2, <1>6, HajekIs
  <2>3. Est!hajek(t, w) = <<SumOver(wt, I), W>>
    BY <1>2, <1>6, HajekIs
  <2>4. Est!hajek(delta, w) = <<SumOver(wd, I), W>>
    BY <1>2, <1>6, HajekIs
  <2>5. Est!hajek(td, w) = <<SumOver(wtd, I), W>>
    BY <1>2, <1>6, HajekIs
  <2>. QED
    BY <2>1, <2>2, <2>3, <2>4, <2>5
<1>8. \A i \in I : /\ wrm[i] \in Int /\ wt[i] \in Int /\ wd[i] \in Int /\ wtd[i] \in Int
                   /\ wy[i] = wrm[i] + wtd[i]
  <2>1. \A i \in I : td[i] \in Int
    BY <1>3 DEF td
  <2>. SUFFICES ASSUME NEW i \in I
                PROVE  /\ wrm[i] \in Int /\ wt[i] \in Int /\ wd[i] \in Int /\ wtd[i] \in Int
                       /\ wy[i] = wrm[i] + wtd[i]
    OBVIOUS
  <2>2. w[i] \in Int /\ t[i] \in Int /\ rm[i] \in Int /\ delta[i] \in Int /\ td[i] \in Int /\ y[i] = rm[i] + td[i]
    BY <1>2, <1>3, <2>1
  <2>3. \A a, b, c \in Int : a * (b + c) = a * b + a * c
    OBVIOUS
  <2>. QED
    BY <2>2, <2>3 DEF Products
<1>. HIDE DEF wy, wrm, wt, wd, wtd
<1>9. SumOver(wy, I) = SumOver(wrm, I) + SumOver(wtd, I)
  BY <1>1, <1>8, SumOfSums
<1>10. /\ SumOver(wrm, I) \in Int /\ SumOver(wt, I) \in Int /\ SumOver(wd, I) \in Int /\ SumOver(wtd, I) \in Int
  BY <1>1, <1>8, SumIsInt
<1>11. W \in Nat \ {0}
  BY <1>1, <1>2, SumIsPositive
<1>. HIDE DEF W
<1>12. Est!SameNumber(<<SumOver(wrm, I) + SumOver(wtd, I), W>>,
         Est!Plus(<<SumOver(wrm, I), W>>,
           Est!Plus(Est!Times(<<SumOver(wt, I), W>>, <<SumOver(wd, I), W>>),
                    Est!Minus(<<SumOver(wtd, I), W>>, Est!Times(<<SumOver(wt, I), W>>, <<SumOver(wd, I), W>>)))))
  BY <1>10, <1>11, ClosesAlgebra
<1>13. d.endpoint_fidelity = <<SumOver(wrm, I) + SumOver(wtd, I), W>>
  BY <1>4, <1>7, <1>9
<1>14. d.endpoint_fidelity[2] > 0
  BY <1>11, <1>13
<1>15. Est!SameNumber(d.endpoint_fidelity, Est!Plus(d.r_bar_zero, Est!Plus(d.volume, d.alignment)))
  BY Zenon, <1>4, <1>5, <1>7, <1>12, <1>13
<1>. QED
  BY <1>14, <1>15 DEF d

(* The weighted mean over a part of the sample.                              *)
LEMMA AmongIs ==
  ASSUME NEW I, IsFiniteSet(I), NEW v, NEW w, NEW J \in SUBSET I, J # {}
  PROVE  Est!Among(v, w, J) = <<SumOver(Products(w, v, I), J), SumOver(w, J)>>
<1>. DEFINE vJ == [i \in J |-> v[i]]
            wJ == [i \in J |-> w[i]]
<1>1. Est!Among(v, w, J) = Est!hajek(vJ, wJ)
  BY DEF Est!Among
<1>2. DOMAIN vJ = J /\ DOMAIN wJ = J
  OBVIOUS
<1>3. /\ \A i \in J : Products(wJ, vJ, J)[i] = Products(w, v, I)[i]
      /\ \A i \in J : wJ[i] = w[i]
  BY DEF Products
<1>. HIDE DEF vJ, wJ
<1>4. Est!hajek(vJ, wJ) = <<SumOver(Products(wJ, vJ, J), J), SumOver(wJ, J)>>
  BY <1>2, HajekIs
<1>5. IsFiniteSet(J)
  BY FS_Subset
<1>6. SumOver(wJ, J) = SumOver(w, J)
  BY <1>3, <1>5, SumCongruence
<1>7. SumOver(Products(wJ, vJ, J), J) = SumOver(Products(w, v, I), J)
  BY <1>3, <1>5, SumCongruence
<1>. QED
  BY Zenon, <1>1, <1>4, <1>6, <1>7

(* With a dummy for membership, a sum is one over the members.               *)
LEMMA SumOverMembers ==
  ASSUME NEW I, IsFiniteSet(I), NEW M \in SUBSET I, NEW F, NEW G, \A i \in M : G[i] = F[i],
         \A i \in I \ M : G[i] = 0, \A i \in I : F[i] \in Int
  PROVE  SumOver(G, I) = SumOver(F, M)
<1>1. \A i \in I : G[i] \in Int
  OBVIOUS
<1>2. SumOver(G, I) = SumOver(G, M) + SumOver(G, I \ M)
  BY <1>1, SumOfParts
<1>3. IsFiniteSet(M) /\ IsFiniteSet(I \ M)
  BY FS_Subset
<1>4. SumOver(G, I \ M) = 0
  BY <1>3, SumOfZeros
<1>5. SumOver(G, M) = SumOver(F, M)
  BY <1>3, SumCongruence
<1>6. SumOver(F, M) \in Int
  BY <1>3, SumIsInt
<1>. QED
  BY <1>2, <1>4, <1>5, <1>6

(* decompose (causal/estimands.py): where there are records under both       *)
(* treatments, the three routes to the selection bias (observed minus        *)
(* causal, the identity and the conditional means) give one number; whatever *)
(* the records, weights and outcomes.                                        *)
THEOREM SelectionBiasRoutesAgree ==
  ASSUME NEW X, Measured(X), NEW s \in Seq(X), NEW two \in BOOLEAN
  PROVE  LET d == Est!decompose(s, two)
             contrast == {s[i].t : i \in DOMAIN s} = {0, 1}
         IN  /\ contrast => /\ d.selection_bias[2] > 0
                            /\ Est!SameNumber(d.selection_bias, d.selection_bias_identity)
                            /\ Est!SameNumber(d.selection_bias, d.selection_bias_conditional)
             /\ ~contrast => d.selection_bias = Est!None
<1>. DEFINE I == DOMAIN s
            w == Est!design_weights(s, two)
            t == [i \in I |-> s[i].t]
            rm == [i \in I |-> s[i].rm]
            O == {i \in I : t[i] = 0}
            T == I \ O
            trm == [i \in I |-> t[i] * rm[i]]
            wrm == Products(w, rm, I)
            wt == Products(w, t, I)
            wtrm == Products(w, trm, I)
            W == SumOver(w, I)
            W0 == SumOver(w, O)
            W1 == SumOver(w, T)
            R == SumOver(wrm, I)
            R0 == SumOver(wrm, O)
            R1 == SumOver(wrm, T)
            d == Est!decompose(s, two)
            contrast == O # {} /\ O # I
<1>1. I = 1 .. Len(s) /\ IsFiniteSet(I)
  <2>1. Len(s) \in Nat /\ I = 1 .. Len(s)
    BY LenProperties
  <2>2. IsFiniteSet(1 .. Len(s))
    BY <2>1, FS_Interval
  <2>. HIDE DEF I
  <2>. QED
    BY <2>1, <2>2
<1>2. DOMAIN w = I /\ \A i \in I : w[i] \in Nat \ {0}
  BY WeightsArePositive
<1>3. \A i \in I : t[i] \in {0, 1} /\ rm[i] \in Int /\ t[i] = s[i].t
  BY DEF Measured
<1>4. contrast <=> {s[i].t : i \in DOMAIN s} = {0, 1}
  <2>. HIDE DEF t
  <2>0. O # {} <=> \E i \in I : t[i] = 0
    OBVIOUS
  <2>a. O # I <=> \E i \in I : t[i] = 1
    <3>1. \A i \in I : t[i] = 1 <=> t[i] # 0
      BY <1>3
    <3>. QED
      BY <3>1
  <2>1. contrast <=> (\E i \in I : t[i] = 0) /\ (\E i \in I : t[i] = 1)
    BY <2>0, <2>a
  <2>2. DOMAIN s = I /\ \A i \in I : s[i].t = t[i] /\ t[i] \in {0, 1}
    BY <1>3
  <2>. HIDE DEF I, w, rm, O, T, trm, wrm, wt, wtrm, W, W0, W1, R, R0, R1, d, contrast
  <2>3. {s[i].t : i \in I} = {t[i] : i \in I}
    BY <2>2
  <2>4. {t[i] : i \in I} = {0, 1} <=> (\E i \in I : t[i] = 0) /\ (\E i \in I : t[i] = 1)
    BY <2>2
  <2>. QED
    BY <2>1, <2>2, <2>3, <2>4
<1>5. ~contrast => d.selection_bias = Est!None
  BY DEF Est!decompose
<1>6. contrast =>
        /\ d.selection_bias = Est!Minus(Est!Among(rm, w, O), Est!hajek(rm, w))
        /\ d.selection_bias_identity =
             Est!Over(Est!Negated(Est!weighted_covariance(t, rm, w)), Est!Minus(Est!Frac(1), Est!hajek(t, w)))
        /\ d.selection_bias_conditional =
             Est!Times(Est!hajek(t, w), Est!Minus(Est!Among(rm, w, O), Est!Among(rm, w, T)))
  BY DEF Est!decompose
<1>7. Est!weighted_covariance(t, rm, w) =
        Est!Minus(Est!hajek(trm, w), Est!Times(Est!hajek(t, w), Est!hajek(rm, w)))
  BY DEF Est!weighted_covariance
<1>8. DOMAIN rm = I /\ DOMAIN t = I /\ DOMAIN trm = I
  OBVIOUS
<1>9. O \in SUBSET I /\ T \in SUBSET I /\ T = I \ O /\ O = I \ T /\ (O # I => T # {})
  OBVIOUS
<1>10. /\ \A i \in I : wrm[i] \in Int /\ wt[i] \in Int /\ wtrm[i] \in Int
       /\ \A i \in T : wt[i] = w[i] /\ wtrm[i] = wrm[i]
       /\ \A i \in I \ T : wt[i] = 0 /\ wtrm[i] = 0
  <2>1. \A i \in I : trm[i] = t[i] * rm[i] /\ wrm[i] = w[i] * rm[i] /\ wt[i] = w[i] * t[i] /\ wtrm[i] = w[i] * trm[i]
    BY DEF Products
  <2>2. \A i \in T : t[i] = 1
    BY <1>3
  <2>3. \A i \in I \ T : t[i] = 0
    OBVIOUS
  <2>. HIDE DEF I, w, t, rm, trm, wrm, wt, wtrm, T
  <2>4. \A i \in I : w[i] \in Int /\ rm[i] \in Int /\ t[i] \in {0, 1}
    BY <1>2, <1>3
  <2>5. T \subseteq I
    BY <1>9
  <2>6. \A a, b \in Int : a * b \in Int /\ a * 1 = a /\ a * 0 = 0 /\ 1 * b = b /\ 0 * b = 0
    OBVIOUS
  <2>a. \A i \in I : trm[i] \in Int /\ wrm[i] \in Int /\ wt[i] \in Int
    <3>. SUFFICES ASSUME NEW i \in I PROVE trm[i] \in Int /\ wrm[i] \in Int /\ wt[i] \in Int
      OBVIOUS
    <3>1. w[i] \in Int /\ rm[i] \in Int /\ t[i] \in Int
      BY <2>4
    <3>2. t[i] * rm[i] \in Int /\ w[i] * rm[i] \in Int /\ w[i] * t[i] \in Int
      BY <2>6, <3>1
    <3>. QED
      BY <2>1, <3>2
  <2>7. \A i \in I : trm[i] \in Int /\ wrm[i] \in Int /\ wt[i] \in Int /\ wtrm[i] \in Int
    BY <2>1, <2>4, <2>6, <2>a
  <2>8. \A i \in T : wt[i] = w[i] /\ wtrm[i] = wrm[i]
    BY <2>1, <2>2, <2>4, <2>5, <2>6
  <2>9. \A i \in I \ T : wt[i] = 0 /\ wtrm[i] = 0
    BY <2>1, <2>3, <2>4, <2>6
  <2>. QED
    BY <2>7, <2>8, <2>9
<1>. HIDE DEF I, w, t, rm, O, T, trm, d
<1>11. /\ Est!hajek(rm, w) = <<R, W>> /\ Est!hajek(t, w) = <<SumOver(wt, I), W>>
       /\ Est!hajek(trm, w) = <<SumOver(wtrm, I), W>>
  <2>1. Est!hajek(rm, w) = <<R, W>>
    BY <1>2, <1>8, HajekIs
  <2>2. Est!hajek(t, w) = <<SumOver(wt, I), W>>
    BY <1>2, <1>8, HajekIs
  <2>3. Est!hajek(trm, w) = <<SumOver(wtrm, I), W>>
    BY <1>2, <1>8, HajekIs
  <2>. QED
    BY <2>1, <2>2, <2>3
<1>. HIDE DEF wrm, wt, wtrm
<1>12. SumOver(wt, I) = W1 /\ SumOver(wtrm, I) = R1
  <2>1. \A i \in I : w[i] \in Int
    BY <1>2
  <2>4. (\A i \in T : wt[i] = w[i]) /\ \A i \in I \ T : wt[i] = 0
    BY <1>10
  <2>2. SumOver(wt, I) = SumOver(w, T)
    BY <1>1, <1>9, <2>1, <2>4, SumOverMembers
  <2>3. SumOver(wtrm, I) = SumOver(wrm, T)
    BY <1>1, <1>9, <1>10, SumOverMembers
  <2>. QED
    BY <2>2, <2>3
<1>13. W = W0 + W1 /\ R = R0 + R1
  <2>1. \A i \in I : w[i] \in Int
    BY <1>2
  <2>2. SumOver(w, I) = SumOver(w, O) + SumOver(w, I \ O)
    BY <1>1, <1>9, <2>1, SumOfParts
  <2>3. SumOver(wrm, I) = SumOver(wrm, O) + SumOver(wrm, I \ O)
    BY <1>1, <1>9, <1>10, SumOfParts
  <2>. QED
    BY <1>9, <2>2, <2>3
<1>14. R0 \in Int /\ R1 \in Int
  <2>1. IsFiniteSet(O) /\ IsFiniteSet(T)
    BY <1>1, <1>9, FS_Subset
  <2>2. (\A i \in O : wrm[i] \in Int) /\ (\A i \in T : wrm[i] \in Int)
    BY <1>9, <1>10
  <2>. QED
    BY <2>1, <2>2, SumIsInt
<1>15. ASSUME contrast
       PROVE  /\ d.selection_bias[2] > 0
              /\ Est!SameNumber(d.selection_bias, d.selection_bias_identity)
              /\ Est!SameNumber(d.selection_bias, d.selection_bias_conditional)
  <2>1. W0 \in Nat \ {0} /\ W1 \in Nat \ {0}
    <3>1. IsFiniteSet(O) /\ IsFiniteSet(T) /\ O # {} /\ T # {}
      BY <1>1, <1>9, <1>15, FS_Subset
    <3>2. (\A i \in O : w[i] \in Nat \ {0}) /\ (\A i \in T : w[i] \in Nat \ {0})
      BY <1>2, <1>9
    <3>. QED
      BY <3>1, <3>2, SumIsPositive
  <2>0. O \in SUBSET I /\ O # {} /\ T \in SUBSET I /\ T # {}
    BY <1>9, <1>15
  <2>a. \A J \in SUBSET I : J # {} =>
          Est!Among(rm, w, J) = <<SumOver(Products(w, rm, I), J), SumOver(w, J)>>
    BY <1>1, AmongIs DEF I
  <2>2. Est!Among(rm, w, O) = <<R0, W0>>
    BY Zenon, <2>0, <2>a DEF wrm
  <2>3. Est!Among(rm, w, T) = <<R1, W1>>
    BY Zenon, <2>0, <2>a DEF wrm
  <2>. HIDE DEF W, W0, W1, R, R0, R1
  <2>4. LET bias == Est!Minus(<<R0, W0>>, <<R, W>>)
            cov == Est!Minus(<<R1, W>>, Est!Times(<<W1, W>>, <<R, W>>))
        IN  /\ Est!SameNumber(bias, Est!Over(Est!Negated(cov), Est!Minus(Est!Frac(1), <<W1, W>>)))
            /\ Est!SameNumber(bias, Est!Times(<<W1, W>>, Est!Minus(<<R0, W0>>, <<R1, W1>>)))
    BY <1>13, <1>14, <2>1, BiasAlgebra
  <2>5. d.selection_bias = Est!Minus(<<R0, W0>>, <<R, W>>)
    BY Zenon, <1>6, <1>11, <1>15, <2>2
  <2>6. d.selection_bias_identity =
          Est!Over(Est!Negated(Est!Minus(<<R1, W>>, Est!Times(<<W1, W>>, <<R, W>>))),
                   Est!Minus(Est!Frac(1), <<W1, W>>))
    BY Zenon, <1>6, <1>7, <1>11, <1>12, <1>15
  <2>7. d.selection_bias_conditional = Est!Times(<<W1, W>>, Est!Minus(<<R0, W0>>, <<R1, W1>>))
    BY Zenon, <1>6, <1>11, <1>12, <1>15, <2>2, <2>3
  <2>8. d.selection_bias[2] = W0 * W
    BY <2>5 DEF Est!Minus, Est!Plus, Est!Negated
  <2>9. W0 * W > 0
    <3>1. W \in Nat \ {0}
      BY <1>13, <2>1
    <3>. QED
      BY <2>1, <3>1
  <2>10. /\ Est!SameNumber(d.selection_bias, d.selection_bias_identity)
         /\ Est!SameNumber(d.selection_bias, d.selection_bias_conditional)
    BY Zenon, <2>4, <2>5, <2>6, <2>7
  <2>. QED
    BY <2>8, <2>9, <2>10
<1>. QED
  BY <1>4, <1>5, <1>15 DEF d, I

-----------------------------------------------------------------------------
(* The order statistics and percentiles of a sample.                         *)

Lower(f, v) == {i \in DOMAIN f : f[i] < v}
NoMore(f, v) == {i \in DOMAIN f : f[i] <= v}
Integers(f) == IsFiniteSet(DOMAIN f) /\ \A i \in DOMAIN f : f[i] \in Int
AtRank(f, k, v) == v \in Int /\ Cardinality(Lower(f, v)) < k /\ k <= Cardinality(NoMore(f, v))

LEMMA CountsOfRanks ==
  ASSUME NEW f, Integers(f), NEW v
  PROVE  /\ IsFiniteSet(Lower(f, v)) /\ IsFiniteSet(NoMore(f, v))
         /\ Cardinality(Lower(f, v)) \in Nat /\ Cardinality(NoMore(f, v)) \in Nat
         /\ Cardinality(DOMAIN f) \in Nat
<1>1. Lower(f, v) \in SUBSET (DOMAIN f) /\ NoMore(f, v) \in SUBSET (DOMAIN f) /\ IsFiniteSet(DOMAIN f)
  BY DEF Lower, NoMore, Integers
<1>2. IsFiniteSet(Lower(f, v)) /\ IsFiniteSet(NoMore(f, v))
  BY <1>1, FS_Subset
<1> QED BY <1>1, <1>2, FS_CardinalityType

(* A value of rank k of one function is no more than one of rank l of        *)
(* another, where the first is the lesser and k is at most l.                *)
LEMMA RanksAreMonotone ==
  ASSUME NEW f, NEW g, Integers(f), Integers(g), DOMAIN f = DOMAIN g, NEW c \in Int,
         \A i \in DOMAIN f : f[i] + c <= g[i],
         NEW k \in Int, NEW l \in Int, k <= l, NEW v, NEW w, AtRank(f, k, v), AtRank(g, l, w)
  PROVE  v + c <= w
<1>1. v \in Int /\ w \in Int
  BY DEF AtRank
<1> SUFFICES ASSUME w < v + c PROVE FALSE
  BY <1>1
<1>2. NoMore(g, w) \subseteq Lower(f, v)
  <2>1. ASSUME NEW i \in NoMore(g, w) PROVE i \in Lower(f, v)
    <3>1. i \in DOMAIN f /\ i \in DOMAIN g /\ g[i] <= w /\ f[i] + c <= g[i] /\ f[i] \in Int /\ g[i] \in Int
      BY DEF NoMore, Integers
    <3>2. f[i] < v
      BY <1>1, <3>1
    <3> QED BY <3>1, <3>2 DEF Lower
  <2> QED BY <2>1
<1>3. Cardinality(NoMore(g, w)) <= Cardinality(Lower(f, v))
  BY <1>2, CountsOfRanks, FS_Subset
<1>4. Cardinality(NoMore(g, w)) \in Nat /\ Cardinality(Lower(f, v)) \in Nat
  BY CountsOfRanks
<1> QED BY <1>3, <1>4 DEF AtRank

LEMMA RankExists ==
  ASSUME NEW f, Integers(f), NEW k \in 1 .. Cardinality(DOMAIN f)
  PROVE  \E i \in DOMAIN f : AtRank(f, k, f[i])
<1> DEFINE D == DOMAIN f
           V == {f[i] : i \in D}
           E == {v \in V : k <= Cardinality(NoMore(f, v))}
<1>0. IsFiniteSet(D) /\ (\A i \in D : f[i] \in Int) /\ Cardinality(D) \in Nat
  BY FS_CardinalityType DEF Integers
<1>1. IsFiniteSet(V) /\ V \subseteq Int
  BY <1>0, FiniteImage
<1>2. V # {}
  <2>1. D # {}
    <3> SUFFICES ASSUME D = {} PROVE FALSE
      OBVIOUS
    <3>1. Cardinality(D) = 0
      BY FS_EmptySet
    <3> QED BY <3>1
  <2> QED BY <2>1
<1>3. E # {}
  <2>1. PICK w \in V : \A y \in V : y <= w
    <3> HIDE DEF V
    <3> QED BY <1>1, <1>2, GreatestInteger
  <2>2. NoMore(f, w) = D
    BY <2>1 DEF NoMore
  <2> QED BY <2>1, <2>2
<1>4. E \in SUBSET V /\ \A v \in E : k <= Cardinality(NoMore(f, v))
  OBVIOUS
<1>5. \A v \in V : v \notin E => Cardinality(NoMore(f, v)) < k
  <2>1. ASSUME NEW v \in V, v \notin E PROVE Cardinality(NoMore(f, v)) < k
    <3>1. ~ (k <= Cardinality(NoMore(f, v)))
      BY <2>1
    <3>2. Cardinality(NoMore(f, v)) \in Nat
      BY CountsOfRanks
    <3> QED BY <1>0, <3>1, <3>2
  <2> QED BY <2>1
<1> HIDE DEF E
<1>6. PICK v \in E : \A w \in E : v <= w
  <2>1. IsFiniteSet(E) /\ E \subseteq Int
    BY <1>1, <1>4, FS_Subset
  <2> QED BY <1>3, <2>1, LeastInteger
<1>7. v \in V /\ v \in Int
  BY <1>1, <1>4, <1>6
<1>8. Cardinality(Lower(f, v)) < k
  <2>1. CASE Lower(f, v) = {}
    BY <1>0, <2>1, FS_EmptySet
  <2>2. CASE Lower(f, v) # {}
    <3> DEFINE B == {y \in V : y < v}
    <3>1. IsFiniteSet(B) /\ B \subseteq Int /\ B # {}
      <4>1. B \in SUBSET V /\ B # {}
        BY <2>2 DEF Lower
      <4> QED BY <1>1, <4>1, FS_Subset
    <3>2. \A y \in B : y \in V /\ y < v
      OBVIOUS
    <3>3. \A i \in Lower(f, v) : f[i] \in B
      BY DEF Lower
    <3> HIDE DEF B
    <3>4. PICK w \in B : \A y \in B : y <= w
      BY <3>1, GreatestInteger
    <3>5. w \in V /\ w < v /\ w \in Int
      BY <1>1, <3>2
    <3>6. Lower(f, v) \subseteq NoMore(f, w)
      <4>1. ASSUME NEW i \in Lower(f, v) PROVE i \in NoMore(f, w)
        <5>1. f[i] <= w /\ i \in DOMAIN f
          BY <3>3, <3>4 DEF Lower
        <5> QED BY <5>1 DEF NoMore
      <4> QED BY <4>1
    <3>7. w \notin E
      BY <1>6, <1>7, <3>5
    <3>8. Cardinality(NoMore(f, w)) < k
      BY <1>5, <3>5, <3>7
    <3>9. Cardinality(Lower(f, v)) <= Cardinality(NoMore(f, w))
      BY <3>6, CountsOfRanks, FS_Subset
    <3>10. Cardinality(Lower(f, v)) \in Nat /\ Cardinality(NoMore(f, w)) \in Nat
      BY CountsOfRanks
    <3> QED BY <1>0, <3>8, <3>9, <3>10
  <2> QED BY <2>1, <2>2
<1>9. PICK i \in D : v = f[i]
  BY <1>7
<1> QED BY <1>4, <1>6, <1>7, <1>8, <1>9 DEF AtRank

(* The order statistic of a sample: it has its rank.                         *)
LEMMA NthIs ==
  ASSUME NEW f, Integers(f), NEW k \in 1 .. Cardinality(DOMAIN f)
  PROVE  AtRank(f, k, Nth(f, k)) /\ \E i \in DOMAIN f : Nth(f, k) = f[i]
<1> DEFINE V == {f[i] : i \in DOMAIN f}
           P(v) == /\ Cardinality({i \in DOMAIN f : f[i] < v}) < k
                   /\ k <= Cardinality({i \in DOMAIN f : f[i] <= v})
<1>1. Nth(f, k) = CHOOSE v \in V : P(v)
  BY Zenon DEF Nth
<1>2. \E v \in V : P(v)
  <2>1. PICK i \in DOMAIN f : AtRank(f, k, f[i])
    BY RankExists
  <2> QED BY <2>1 DEF AtRank, Lower, NoMore
<1>3. V \subseteq Int
  BY DEF Integers
<1>4. (CHOOSE v \in V : P(v)) \in V /\ P(CHOOSE v \in V : P(v))
  BY <1>2, Zenon
<1> DEFINE v == CHOOSE x \in V : P(x)
<1>5. v \in V /\ P(v)
  BY <1>4
<1> HIDE DEF v, P
<1>6. v \in Int /\ \E i \in DOMAIN f : v = f[i]
  BY <1>3, <1>5
<1>7. AtRank(f, k, v)
  BY <1>5, <1>6 DEF P, AtRank, Lower, NoMore
<1>8. Nth(f, k) = v
  BY <1>1 DEF v
<1> QED BY <1>6, <1>7, <1>8

(* The order statistics of the negated values, counted from the other end.   *)
LEMMA RanksOfNegated ==
  ASSUME NEW f, NEW g, Integers(f), Integers(g), DOMAIN f = DOMAIN g, \A i \in DOMAIN f : g[i] = -f[i],
         NEW k \in 1 .. Cardinality(DOMAIN f), NEW v, AtRank(f, k, v)
  PROVE  AtRank(g, Cardinality(DOMAIN f) + 1 - k, -v)
<1> DEFINE D == DOMAIN f
           n == Cardinality(D)
<1>0. v \in Int /\ IsFiniteSet(D) /\ n \in Nat
  BY FS_CardinalityType DEF AtRank, Integers
<1>1. Lower(g, -v) = D \ NoMore(f, v) /\ NoMore(g, -v) = D \ Lower(f, v)
  <2>1. ASSUME NEW i \in D PROVE /\ g[i] < -v <=> ~ (f[i] <= v)
                                 /\ g[i] <= -v <=> ~ (f[i] < v)
    <3>1. f[i] \in Int /\ g[i] = -f[i]
      BY DEF Integers
    <3> QED BY <1>0, <3>1
  <2> QED BY <2>1 DEF Lower, NoMore
<1>2. /\ Cardinality(D \ NoMore(f, v)) = n - Cardinality(D \cap NoMore(f, v))
      /\ Cardinality(D \ Lower(f, v)) = n - Cardinality(D \cap Lower(f, v))
  BY <1>0, FS_Difference
<1>3. D \cap NoMore(f, v) = NoMore(f, v) /\ D \cap Lower(f, v) = Lower(f, v)
  BY DEF NoMore, Lower
<1>4. /\ Cardinality(Lower(g, -v)) = n - Cardinality(NoMore(f, v))
      /\ Cardinality(NoMore(g, -v)) = n - Cardinality(Lower(f, v))
  BY <1>1, <1>2, <1>3, Zenon
<1>5. Cardinality(NoMore(f, v)) \in Nat /\ Cardinality(Lower(f, v)) \in Nat
  BY CountsOfRanks
<1>6. Cardinality(Lower(f, v)) < k /\ k <= Cardinality(NoMore(f, v))
  BY DEF AtRank
<1>7. k \in Int /\ -v \in Int
  BY <1>0
<1>8. Cardinality(Lower(g, -v)) < n + 1 - k /\ n + 1 - k <= Cardinality(NoMore(g, -v))
  <2> HIDE DEF n, D
  <2> QED BY <1>0, <1>4, <1>5, <1>6, <1>7
<1> QED BY <1>7, <1>8 DEF AtRank

(* A sample is a function of n integers.                                     *)
IsSample(f, n) == Integers(f) /\ n \in Nat \ {0} /\ Cardinality(DOMAIN f) = n

LEMMA NthOfSample ==
  ASSUME NEW f, NEW n, IsSample(f, n), NEW k \in 1 .. n
  PROVE  Nth(f, k) \in Int /\ AtRank(f, k, Nth(f, k))
<1>1. k \in 1 .. Cardinality(DOMAIN f) /\ Integers(f)
  BY DEF IsSample
<1>2. AtRank(f, k, Nth(f, k))
  BY <1>1, NthIs
<1> QED BY <1>2 DEF AtRank

LEMMA NthGrows ==
  ASSUME NEW f, NEW g, NEW n, IsSample(f, n), IsSample(g, n), DOMAIN f = DOMAIN g, NEW c \in Int,
         \A i \in DOMAIN f : f[i] + c <= g[i],
         NEW k \in 1 .. n, NEW l \in 1 .. n, k <= l
  PROVE  Nth(f, k) + c <= Nth(g, l)
<1>1. AtRank(f, k, Nth(f, k)) /\ AtRank(g, l, Nth(g, l))
  BY NthOfSample
<1>2. k \in Int /\ l \in Int /\ Integers(f) /\ Integers(g)
  BY DEF IsSample
<1> QED BY <1>1, <1>2, RanksAreMonotone

LEMMA NthNegates ==
  ASSUME NEW f, NEW g, NEW n, IsSample(f, n), IsSample(g, n), DOMAIN f = DOMAIN g,
         \A i \in DOMAIN f : g[i] = -f[i], NEW k \in 1 .. n
  PROVE  Nth(g, n + 1 - k) = -Nth(f, k)
<1> DEFINE v == Nth(f, k)
           l == n + 1 - k
           w == Nth(g, l)
<1>1. n \in Nat /\ Integers(f) /\ Integers(g) /\ Cardinality(DOMAIN f) = n /\ l \in 1 .. n /\ l \in Int
  BY DEF IsSample
<1>2. AtRank(f, k, v) /\ v \in Int
  BY NthOfSample
<1>3. AtRank(g, l, -v)
  BY <1>1, <1>2, RanksOfNegated
<1>4. AtRank(g, l, w) /\ w \in Int
  BY <1>1, NthOfSample
<1>5. \A i \in DOMAIN g : g[i] + 0 <= g[i]
  BY <1>1 DEF Integers
<1> HIDE DEF v, l, w
<1>6. -v + 0 <= w /\ w + 0 <= -v
  BY <1>1, <1>3, <1>4, <1>5, RanksAreMonotone
<1>7. w = -v
  BY <1>2, <1>4, <1>6
<1> QED BY <1>7 DEF v, w, l

(* Where np.percentile reads: between the ranks lo and hi, f per mille on.   *)
Reads(n, p, lo, hi, f) ==
  /\ lo \in 1 .. n /\ hi \in 1 .. n /\ lo <= hi /\ f \in 0 .. 999
  /\ p * (n - 1) = 1000 * (lo - 1) + f
  /\ (f # 0 => hi = lo + 1)

PercentileAt(values, n, p, lo, hi, f) ==
  /\ Reads(n, p, lo, hi, f)
  /\ Percentile(values, n, p) = Nth(values, lo) * (1000 - f) + Nth(values, hi) * f

PercentileSpot(values, n, p) == \E lo, hi, f : PercentileAt(values, n, p, lo, hi, f)

LEMMA PercentileReads ==
  ASSUME NEW n \in Nat \ {0}, NEW p \in 0 .. 1000, NEW values
  PROVE  PercentileSpot(values, n, p)
<1> DEFINE h == p * (n - 1)
           k == h \div 1000
           f == h % 1000
           lo == k + 1
           hi == IF k + 2 <= n THEN k + 2 ELSE n
<1>1. Percentile(values, n, p) = Nth(values, lo) * (1000 - f) + Nth(values, hi) * f
  BY Zenon DEF Percentile
<1>2. h \in Nat /\ h <= 1000 * (n - 1)
  <2>1. n - 1 \in Nat /\ p \in Nat
    OBVIOUS
  <2>2. p * (n - 1) \in Nat /\ p * (n - 1) <= 1000 * (n - 1)
    BY <2>1
  <2> QED BY <2>2
<1> HIDE DEF h
<1>3. k \in Nat /\ f \in 0 .. 999 /\ h = 1000 * k + f
  BY <1>2
<1> HIDE DEF k, f
<1>4. k <= n - 1 /\ (f # 0 => k + 2 <= n)
  BY <1>2, <1>3
<1>5. lo \in 1 .. n /\ hi \in 1 .. n /\ lo <= hi /\ (f # 0 => hi = lo + 1)
  BY <1>3, <1>4
<1>6. h = 1000 * (lo - 1) + f
  BY <1>3
<1> HIDE DEF lo, hi
<1>7. Reads(n, p, lo, hi, f)
  BY <1>3, <1>5, <1>6 DEF Reads, h
<1>8. PercentileAt(values, n, p, lo, hi, f)
  BY <1>1, <1>7 DEF PercentileAt
<1> QED BY <1>8 DEF PercentileSpot

LEMMA Interpolates ==
  ASSUME NEW f \in 0 .. 999, NEW a \in Int, NEW b \in Int, a <= b
  PROVE  LET x == a * (1000 - f) + b * f
         IN  x \in Int /\ 1000 * a <= x /\ x <= 1000 * b
<1> DEFINE d == b - a
<1>1. d \in Nat /\ b = a + d
  OBVIOUS
<1> HIDE DEF d
<1>2. a * (1000 - f) + b * f = 1000 * a + d * f
  BY <1>1
<1>3. d * f \in Nat /\ d * f <= 1000 * d
  BY <1>1
<1> QED BY <1>1, <1>2, <1>3

(* Two samples of n values, the second at least c greater; and what their    *)
(* percentiles are then.                                                     *)
Greater(g, f, n, c) ==
  /\ IsSample(f, n) /\ IsSample(g, n) /\ DOMAIN f = DOMAIN g /\ c \in Int
  /\ \A i \in DOMAIN f : f[i] + c <= g[i]
InOrder(p, q) == p \in 0 .. 1000 /\ q \in 0 .. 1000 /\ p <= q
GreaterAt(g, f, n, c, p, q) ==
  /\ Percentile(f, n, p) \in Int /\ Percentile(g, n, q) \in Int
  /\ Percentile(f, n, p) + 1000 * c <= Percentile(g, n, q)

(* The bounds of an interval: the p-th percentile of the greater sample is   *)
(* the greater, by what its values are greater by.                           *)
LEMMA PercentileGrows ==
  ASSUME NEW f, NEW g, NEW n, NEW c, Greater(g, f, n, c), NEW p, NEW q, InOrder(p, q)
  PROVE  GreaterAt(g, f, n, c, p, q)
<1> SUFFICES /\ Percentile(f, n, p) \in Int /\ Percentile(g, n, q) \in Int
             /\ Percentile(f, n, p) + 1000 * c <= Percentile(g, n, q)
  BY DEF GreaterAt
<1>a. /\ IsSample(f, n) /\ IsSample(g, n) /\ DOMAIN f = DOMAIN g /\ c \in Int
      /\ \A i \in DOMAIN f : f[i] + c <= g[i]
  BY DEF Greater
<1>b. p \in 0 .. 1000 /\ q \in 0 .. 1000 /\ p <= q
  BY DEF InOrder
<1>0. n \in Nat \ {0}
  BY <1>a DEF IsSample
<1>c. PercentileSpot(f, n, p) /\ PercentileSpot(g, n, q)
  BY Zenon, <1>0, <1>b, PercentileReads
<1> USE <1>a, <1>b
<1>1. PICK lo, hi, u : PercentileAt(f, n, p, lo, hi, u)
  BY Zenon, <1>c DEF PercentileSpot
<1>2. PICK lo2, hi2, u2 : PercentileAt(g, n, q, lo2, hi2, u2)
  BY Zenon, <1>c DEF PercentileSpot
<1> DEFINE x == Nth(f, lo)
           y == Nth(f, hi)
           x2 == Nth(g, lo2)
           y2 == Nth(g, hi2)
<1>3. /\ lo \in 1 .. n /\ hi \in 1 .. n /\ lo <= hi /\ u \in 0 .. 999
      /\ lo2 \in 1 .. n /\ hi2 \in 1 .. n /\ lo2 <= hi2 /\ u2 \in 0 .. 999
      /\ p * (n - 1) = 1000 * (lo - 1) + u /\ q * (n - 1) = 1000 * (lo2 - 1) + u2
      /\ (u # 0 => hi = lo + 1) /\ (u2 # 0 => hi2 = lo2 + 1)
  BY <1>1, <1>2 DEF PercentileAt, Reads
<1>4. x \in Int /\ y \in Int /\ x2 \in Int /\ y2 \in Int
  BY <1>3, NthOfSample
<1>5. p * (n - 1) <= q * (n - 1)
  <2> DEFINE m == n - 1
             d == q - p
  <2>1. m \in Nat /\ d \in Nat /\ p \in Nat /\ q = p + d
    BY <1>0
  <2> HIDE DEF m, d
  <2>2. q * m = p * m + d * m /\ d * m \in Nat /\ p * m \in Nat
    BY <2>1
  <2> QED BY <2>2 DEF m
<1>6. lo < lo2 \/ (lo = lo2 /\ u <= u2)
  <2> DEFINE s == p * (n - 1)
             t == q * (n - 1)
  <2>1. s <= t /\ s = 1000 * (lo - 1) + u /\ t = 1000 * (lo2 - 1) + u2
    BY <1>3, <1>5
  <2> HIDE DEF s, t
  <2>2. lo \in Int /\ lo2 \in Int /\ u \in Int /\ u2 \in Int /\ u <= 999 /\ u2 <= 999 /\ u >= 0 /\ u2 >= 0
    BY <1>3
  <2> QED BY <2>1, <2>2
<1>7. x <= y /\ x2 <= y2
  <2>1. (\A i \in DOMAIN f : f[i] + 0 <= f[i]) /\ (\A i \in DOMAIN g : g[i] + 0 <= g[i])
    BY DEF IsSample, Integers
  <2>2. x + 0 <= y
    BY <1>3, <2>1, NthGrows
  <2>3. x2 + 0 <= y2
    BY <1>3, <2>1, NthGrows
  <2> HIDE DEF x, y, x2, y2
  <2> QED BY <1>4, <2>2, <2>3
<1>8. ASSUME NEW k \in 1 .. n, NEW l \in 1 .. n, k <= l PROVE Nth(f, k) + c <= Nth(g, l)
  BY <1>8, NthGrows
<1> DEFINE P == Percentile(f, n, p)
           Q == Percentile(g, n, q)
<1>9. P = x * (1000 - u) + y * u /\ Q = x2 * (1000 - u2) + y2 * u2
  BY <1>1, <1>2 DEF PercentileAt
<1>10. lo <= lo2 => x + c <= x2
  BY <1>3, <1>8
<1>11. hi <= lo2 => y + c <= x2
  BY <1>3, <1>8
<1>12. hi <= hi2 => y + c <= y2
  BY <1>3, <1>8
<1>13. u = 0 => P = 1000 * x
  BY <1>3, <1>4, <1>9
<1> HIDE DEF x, y, x2, y2, P, Q
<1>14. /\ P \in Int /\ 1000 * x <= P /\ P <= 1000 * y
       /\ Q \in Int /\ 1000 * x2 <= Q /\ Q <= 1000 * y2
  BY <1>3, <1>4, <1>7, <1>9, Interpolates
<1>15. CASE u = 0
  <2>1. x + c <= x2
    BY <1>3, <1>6, <1>10
  <2> QED BY <1>4, <1>13, <1>14, <1>15, <2>1 DEF P, Q
<1>16. CASE u # 0 /\ lo < lo2
  <2>1. hi = lo + 1 /\ hi <= lo2
    BY <1>3, <1>16
  <2>2. y + c <= x2
    BY <1>11, <2>1
  <2> QED BY <1>4, <1>14, <2>2 DEF P, Q
<1>17. CASE u # 0 /\ lo = lo2 /\ u <= u2
  <2>1. hi = lo + 1 /\ hi2 = hi
    BY <1>3, <1>17
  <2>2. x + c <= x2 /\ y + c <= y2
    BY <1>3, <1>10, <1>12, <1>17, <2>1
  <2> DEFINE d == y - x
             e == y2 - x2
  <2>3. d \in Nat /\ e \in Nat /\ y = x + d /\ y2 = x2 + e
    BY <1>4, <1>7
  <2> HIDE DEF d, e
  <2>4. P = 1000 * x + d * u /\ Q = 1000 * x2 + e * u2
    BY <1>3, <1>4, <1>9, <2>3
  <2>5. e * u <= e * u2
    BY <1>3, <1>17, <2>3
  <2>6. 1000 * x2 + e * u = x2 * (1000 - u) + y2 * u
    BY <1>3, <1>4, <2>3
  <2>7. 1000 * x + d * u = x * (1000 - u) + y * u
    BY <1>3, <1>4, <2>3
  <2>8. (x + c) * (1000 - u) <= x2 * (1000 - u) /\ (y + c) * u <= y2 * u
    BY <1>3, <1>4, <2>2
  <2>9. (x + c) * (1000 - u) + (y + c) * u = x * (1000 - u) + y * u + 1000 * c
    BY <1>3, <1>4
  <2>10. x * (1000 - u) \in Int /\ y * u \in Int /\ x2 * (1000 - u) \in Int /\ y2 * u \in Int
         /\ (x + c) * (1000 - u) \in Int /\ (y + c) * u \in Int /\ e * u \in Int /\ e * u2 \in Int
    BY <1>3, <1>4, <2>3
  <2>11. P + 1000 * c <= Q
    BY <1>4, <1>14, <2>4, <2>5, <2>6, <2>7, <2>8, <2>9, <2>10
  <2> QED BY <1>14, <2>11 DEF P, Q
<1> QED BY <1>3, <1>6, <1>15, <1>16, <1>17

(* The percentiles of the negated values are negated, from the other end.    *)
LEMMA PercentileNegates ==
  ASSUME NEW f, NEW g, NEW n, IsSample(f, n), IsSample(g, n), DOMAIN f = DOMAIN g,
         \A i \in DOMAIN f : g[i] = -f[i], NEW p \in 0 .. 1000
  PROVE  Percentile(g, n, 1000 - p) = -Percentile(f, n, p)
<1>0. n \in Nat \ {0}
  BY DEF IsSample
<1> DEFINE q == 1000 - p
<1>00. q \in 0 .. 1000
  OBVIOUS
<1> HIDE DEF q
<1>1. PICK lo, hi, u : PercentileAt(f, n, p, lo, hi, u)
  <2>1. PercentileSpot(f, n, p)
    BY <1>0, PercentileReads
  <2> QED BY <2>1 DEF PercentileSpot
<1>2. PICK lo2, hi2, u2 : PercentileAt(g, n, q, lo2, hi2, u2)
  <2>1. PercentileSpot(g, n, q)
    BY <1>0, <1>00, PercentileReads
  <2> QED BY <2>1 DEF PercentileSpot
<1>3. /\ lo \in 1 .. n /\ hi \in 1 .. n /\ lo <= hi /\ u \in 0 .. 999
      /\ lo2 \in 1 .. n /\ hi2 \in 1 .. n /\ lo2 <= hi2 /\ u2 \in 0 .. 999
      /\ p * (n - 1) = 1000 * (lo - 1) + u /\ (1000 - p) * (n - 1) = 1000 * (lo2 - 1) + u2
      /\ (u # 0 => hi = lo + 1) /\ (u2 # 0 => hi2 = lo2 + 1)
  BY <1>1, <1>2 DEF PercentileAt, q, Reads
<1>4. 1000 * (lo - 1) + u + 1000 * (lo2 - 1) + u2 = 1000 * (n - 1)
  <2>1. p * (n - 1) + (1000 - p) * (n - 1) = 1000 * (n - 1)
    BY <1>0
  <2>2. p * (n - 1) \in Int /\ (1000 - p) * (n - 1) \in Int
    BY <1>0
  <2> DEFINE s == p * (n - 1)
             t == (1000 - p) * (n - 1)
  <2>3. s + t = 1000 * (n - 1) /\ s = 1000 * (lo - 1) + u /\ t = 1000 * (lo2 - 1) + u2 /\ s \in Int /\ t \in Int
    BY <1>3, <2>1, <2>2
  <2> HIDE DEF s, t
  <2>4. lo \in Int /\ lo2 \in Int /\ u \in Int /\ u2 \in Int /\ n \in Int
    BY <1>0, <1>3
  <2> QED BY <2>3, <2>4
<1>5. \/ u = 0 /\ u2 = 0 /\ lo2 = n + 1 - lo
      \/ u # 0 /\ u2 = 1000 - u /\ lo2 = n + 1 - hi /\ hi2 = n + 1 - lo
  <2> DEFINE k == n + 1 - lo - lo2
  <2>1. k \in Int /\ 1000 * k = u + u2
    BY <1>0, <1>3, <1>4
  <2> HIDE DEF k
  <2>2. (k = 0 /\ u = 0 /\ u2 = 0) \/ (k = 1 /\ u # 0 /\ u2 = 1000 - u /\ u2 # 0)
    BY <1>3, <2>1
  <2> QED BY <1>0, <1>3, <2>2 DEF k
<1>6. \A k \in 1 .. n : Nth(g, n + 1 - k) = -Nth(f, k) /\ Nth(f, k) \in Int
  BY NthNegates, NthOfSample
<1> DEFINE x == Nth(f, lo)
           y == Nth(f, hi)
           z == Nth(g, hi2)
<1>7. x \in Int /\ y \in Int /\ z \in Int
  BY <1>3, <1>6, NthOfSample
<1>8. CASE u = 0 /\ u2 = 0 /\ lo2 = n + 1 - lo
  <2>1. Nth(g, lo2) = -x
    BY <1>3, <1>6, <1>8
  <2>2. Percentile(g, n, 1000 - p) = (-x) * (1000 - 0) + z * 0
    BY <1>2, <1>8, <2>1 DEF PercentileAt, q
  <2>3. Percentile(f, n, p) = x * (1000 - 0) + y * 0
    BY <1>1, <1>8 DEF PercentileAt, q
  <2> HIDE DEF x, y, z
  <2> QED BY <1>7, <2>2, <2>3
<1>9. CASE u # 0 /\ u2 = 1000 - u /\ lo2 = n + 1 - hi /\ hi2 = n + 1 - lo
  <2>1. Nth(g, lo2) = -y /\ Nth(g, hi2) = -x
    BY <1>3, <1>6, <1>9
  <2>2. Percentile(g, n, 1000 - p) = (-y) * (1000 - (1000 - u)) + (-x) * (1000 - u)
    BY <1>2, <1>9, <2>1 DEF PercentileAt, q
  <2>3. Percentile(f, n, p) = x * (1000 - u) + y * u
    BY <1>1 DEF PercentileAt, q
  <2> HIDE DEF x, y, z
  <2>4. (-y) * (1000 - (1000 - u)) + (-x) * (1000 - u) = -(x * (1000 - u) + y * u)
    BY <1>3, <1>7
  <2> QED BY <2>2, <2>3, <2>4
<1> QED BY <1>5, <1>8, <1>9

(* A sample of zeros has percentiles of zero.                                *)
LEMMA ZeroPercentile ==
  ASSUME NEW f, NEW n, IsSample(f, n), \A i \in DOMAIN f : f[i] = 0, NEW p \in 0 .. 1000
  PROVE  Percentile(f, n, p) = 0
<1>0. n \in Nat \ {0}
  BY DEF IsSample
<1>1. ASSUME NEW k \in 1 .. n PROVE Nth(f, k) = 0
  <2> DEFINE v == Nth(f, k)
  <2>1. v \in Int /\ AtRank(f, k, v)
    BY NthOfSample
  <2> HIDE DEF v
  <2>2. Cardinality(Lower(f, v)) < k /\ k <= Cardinality(NoMore(f, v)) /\ Cardinality(DOMAIN f) = n
    BY <2>1 DEF AtRank, IsSample
  <2>3. v < 0 => NoMore(f, v) = {}
    BY <2>1 DEF NoMore
  <2>4. v > 0 => Lower(f, v) = DOMAIN f
    BY <2>1 DEF Lower
  <2>5. ~ (v < 0)
    BY <2>2, <2>3, FS_EmptySet
  <2>6. ~ (v > 0)
    BY <1>0, <2>2, <2>4
  <2> QED BY <2>1, <2>5, <2>6 DEF v
<1>2. PICK lo, hi, u : PercentileAt(f, n, p, lo, hi, u)
  <2>1. PercentileSpot(f, n, p)
    BY <1>0, PercentileReads
  <2> QED BY <2>1 DEF PercentileSpot
<1>3. /\ lo \in 1 .. n /\ hi \in 1 .. n /\ u \in 0 .. 999
      /\ Percentile(f, n, p) = Nth(f, lo) * (1000 - u) + Nth(f, hi) * u
  BY <1>2 DEF PercentileAt, Reads
<1> DEFINE x == Nth(f, lo)
           y == Nth(f, hi)
<1>4. x = 0 /\ y = 0
  BY <1>1, <1>3
<1>5. Percentile(f, n, p) = x * (1000 - u) + y * u
  BY <1>3
<1> HIDE DEF x, y
<1>6. Percentile(f, n, p) = 0 * (1000 - u) + 0 * u
  BY <1>4, <1>5
<1> QED BY <1>3, <1>6

(* A common factor may be taken out of a sum.                                *)
LEMMA SumScales ==
  ASSUME NEW S, IsFiniteSet(S), NEW F, NEW H, NEW c \in Int, \A x \in S : F[x] \in Int /\ H[x] = F[x] * c
  PROVE  SumOver(H, S) = SumOver(F, S) * c
<1> DEFINE C == {T \in SUBSET S : SumOver(H, T) # SumOver(F, T) * c}
<1>1. ASSUME C # {} PROVE FALSE
  <2>1. \A U \in C : U \subseteq S
    OBVIOUS
  <2>2. PICK T \in C : \A U \in C : ~ (U \subseteq T /\ U # T)
    <3> HIDE DEF C
    <3> QED BY <1>1, <2>1, MinimalSubset
  <2>3. T \in SUBSET S /\ SumOver(H, T) # SumOver(F, T) * c /\ IsFiniteSet(T)
    BY FS_Subset
  <2>4. CASE T = {}
    BY <2>3, <2>4, SumOfNone
  <2>5. CASE T # {}
    <3>1. PICK e \in T : TRUE
      BY <2>5
    <3> DEFINE U == T \ {e}
    <3>2. SumOver(H, U) = SumOver(F, U) * c
      BY <2>2, <2>3
    <3>3. \A x \in T : F[x] \in Int /\ H[x] \in Int /\ H[x] = F[x] * c
      BY <2>3
    <3> HIDE DEF C
    <3>4. SumOver(H, T) = H[e] + SumOver(H, U) /\ SumOver(F, T) = F[e] + SumOver(F, U)
      BY <2>3, <3>3, SumTakesOut
    <3>5. IsFiniteSet(U) /\ \A x \in U : F[x] \in Int
      BY <2>3, <3>3, FS_Subset
    <3>6. SumOver(F, U) \in Int
      BY <3>5, SumIsInt
    <3> HIDE DEF U
    <3>7. F[e] \in Int /\ H[e] = F[e] * c
      BY <3>3
    <3>8. F[e] * c + SumOver(F, U) * c = (F[e] + SumOver(F, U)) * c
      BY <3>6, <3>7
    <3> QED BY <2>3, <3>2, <3>4, <3>7, <3>8
  <2> QED BY <2>4, <2>5
<1> QED BY <1>1

-----------------------------------------------------------------------------
(* Matches, atoms and the review.                                            *)

(* The module of inventories counts as the provers do.                       *)
LEMMA IvCardinality == \A S : Iv!Cardinality(S) = Cardinality(S)
BY Zenon DEF Iv!Cardinality, Cardinality

(* A listing by the number of members that come before each.                 *)
LEMMA InOrderLists ==
  ASSUME NEW S, IsFiniteSet(S), NEW R, Orders(R, S), NEW preceding,
         \A c \in S : preceding[c] = {d \in S : <<d, c>> \in R}
  PROVE  Lists(Iv!InOrder(S, preceding), S, R)
<1> DEFINE n == Cardinality(S)
<1>1. n \in Nat
  BY FS_CardinalityType
<1>2. PICK t : Lists(t, S, R)
  BY ListingExists
<1> HIDE DEF n
<1>3. /\ t \in [1 .. n -> S] /\ {t[k] : k \in 1 .. n} = S
      /\ \A j, k \in 1 .. n : j < k => <<t[j], t[k]>> \in R
      /\ \A j, k \in 1 .. n : t[j] = t[k] => j = k
  BY <1>2 DEF Lists, n
<1>4. ASSUME NEW k \in 1 .. n PROVE Cardinality(preceding[t[k]]) = k - 1
  <2> DEFINE before == 1 .. k - 1
             P == {t[j] : j \in before}
             f == [j \in before |-> t[j]]
  <2>1. t[k] \in S /\ preceding[t[k]] = {d \in S : <<d, t[k]>> \in R}
    BY <1>3
  <2>2. ASSUME NEW j \in 1 .. n PROVE <<t[j], t[k]>> \in R <=> j < k
    <3>1. t[j] \in S
      BY <1>3
    <3>2. <<t[k], t[k]>> \notin R /\ (<<t[k], t[j]>> \in R => <<t[j], t[k]>> \notin R)
      BY <2>1, <3>1 DEF Orders
    <3>3. (j < k => <<t[j], t[k]>> \in R) /\ (k < j => <<t[k], t[j]>> \in R)
      BY <1>3
    <3>4. j < k \/ j = k \/ k < j
      BY <1>1
    <3> QED BY <1>1, <3>2, <3>3, <3>4
  <2>3. preceding[t[k]] = P
    <3>1. \A d \in S : <<d, t[k]>> \in R <=> d \in P
      <4>1. ASSUME NEW d \in S PROVE <<d, t[k]>> \in R <=> d \in P
        <5>1. PICK j \in 1 .. n : d = t[j]
          BY <1>3
        <5>2. d \in P => \E i \in before : t[i] = t[j]
          BY <5>1
        <5>3. \A i \in before : i \in 1 .. n
          BY <1>1
        <5>4. j < k <=> j \in before
          BY <1>1
        <5> HIDE DEF before
        <5>5. d \in P <=> j \in before
          BY <1>3, <5>1, <5>2, <5>3
        <5> QED BY <2>2, <5>1, <5>4, <5>5
      <4> QED BY <4>1
    <3>2. P \subseteq S
      BY <1>1, <1>3
    <3> QED BY <2>1, <3>1, <3>2
  <2>4. f \in Surjection(before, P)
    BY DEF Surjection
  <2>5. f \in Injection(before, P)
    BY <1>1, <1>3, <2>4 DEF Injection, IsInjective, Surjection
  <2>6. IsFiniteSet(before) /\ Cardinality(before) = k - 1
    BY <1>1, FS_Interval
  <2> HIDE DEF before, P, f
  <2>7. Cardinality(P) = k - 1
    BY <2>4, <2>5, <2>6, FS_Surjection
  <2> QED BY <2>3, <2>7
<1> DEFINE s == Iv!InOrder(S, preceding)
<1>5. s = [i \in 1 .. n |-> CHOOSE c \in S : Cardinality(preceding[c]) = i - 1]
  BY Zenon DEF Iv!InOrder, Iv!Cardinality, Cardinality, n
<1> HIDE DEF s
<1>6. ASSUME NEW i \in 1 .. n PROVE s[i] = t[i]
  <2> DEFINE c == CHOOSE c \in S : Cardinality(preceding[c]) = i - 1
  <2>1. t[i] \in S /\ Cardinality(preceding[t[i]]) = i - 1
    BY <1>3, <1>4
  <2>2. c \in S /\ Cardinality(preceding[c]) = i - 1
    BY <2>1
  <2> HIDE DEF c
  <2>3. PICK j \in 1 .. n : c = t[j]
    BY <1>3, <2>2
  <2>4. i - 1 = j - 1
    BY <1>4, <2>2, <2>3
  <2> QED BY <1>1, <1>5, <2>3, <2>4 DEF c
<1>7. s = t
  BY <1>3, <1>5, <1>6
<1> QED BY <1>2, <1>7 DEF s

(* The ascending order of a set of integers.                                 *)
Ascending(I) == {p \in I \X I : p[1] < p[2]}
LEMMA AscendingOrders ==
  ASSUME NEW I, I \subseteq Int
  PROVE  Orders(Ascending(I), I) /\ \A i, j \in I : <<i, j>> \in Ascending(I) <=> i < j
<1>1. \A i, j \in I : <<i, j>> \in Ascending(I) <=> i < j
  BY DEF Ascending
<1> QED BY <1>1 DEF Orders

(* The rows at a set of places are those rows, once each and in order.       *)
LEMMA AtLists ==
  ASSUME NEW s, NEW I, IsFiniteSet(I), I \subseteq Int
  PROVE  /\ DOMAIN Iv!At(s, I) = 1 .. Cardinality(I)
         /\ {Iv!At(s, I)[k] : k \in 1 .. Cardinality(I)} = {s[i] : i \in I}
<1> DEFINE before == [i \in I |-> {j \in I : j < i}]
           p == Iv!InOrder(I, before)
           n == Cardinality(I)
<1>1. Orders(Ascending(I), I)
  BY AscendingOrders
<1>2. \A i \in I : before[i] = {j \in I : <<j, i>> \in Ascending(I)}
  BY AscendingOrders
<1> HIDE DEF before
<1>3. Lists(p, I, Ascending(I))
  BY <1>1, <1>2, InOrderLists
<1>4. Iv!At(s, I) = [k \in 1 .. n |-> s[p[k]]]
  BY Zenon DEF Iv!At, Iv!Cardinality, Cardinality, p, n, before
<1> HIDE DEF p, n
<1>5. {p[k] : k \in 1 .. n} = I
  BY <1>3 DEF Lists, n
<1>6. {s[p[k]] : k \in 1 .. n} = {s[i] : i \in I}
  BY <1>5
<1> DEFINE r == Iv!At(s, I)
<1> HIDE DEF r
<1>7. DOMAIN r = 1 .. n /\ \A k \in 1 .. n : r[k] = s[p[k]]
  BY <1>4 DEF r
<1>8. {r[k] : k \in 1 .. n} = {s[p[k]] : k \in 1 .. n}
  BY <1>7
<1>9. DOMAIN r = 1 .. n /\ {r[k] : k \in 1 .. n} = {s[i] : i \in I}
  BY <1>6, <1>7, <1>8
<1> QED BY <1>9 DEF r, n

(* KeepDisjoint as the table of its rounds.                                  *)
KeepEntry(kept, k, ranked) ==
  IF k = 0 THEN {}
  ELSE IF \E c \in kept[k - 1] : Iv!Overlap(ranked[k], c) THEN kept[k - 1]
  ELSE kept[k - 1] \cup {ranked[k]}
IsKeep(kept, ranked) == kept = [k \in 0 .. Len(ranked) |-> KeepEntry(kept, k, ranked)]

LEMMA KeepValue ==
  ASSUME NEW ranked, \E kept : IsKeep(kept, ranked)
  PROVE  \E kept : IsKeep(kept, ranked) /\ Iv!KeepDisjoint(ranked) = kept[Len(ranked)]
<1> DEFINE G == CHOOSE kept : IsKeep(kept, ranked)
<1>1. IsKeep(G, ranked)
  OBVIOUS
<1>2. G = CHOOSE kept : kept = [k \in 0 .. Len(ranked) |->
                          IF k = 0 THEN {}
                          ELSE LET S == kept[k - 1]
                               IN  IF \E c \in S : Iv!Overlap(ranked[k], c) THEN S ELSE S \cup {ranked[k]}]
  BY Zenon DEF IsKeep, KeepEntry
<1>3. Iv!KeepDisjoint(ranked) = G[Len(ranked)]
  BY <1>2 DEF Iv!KeepDisjoint
<1> HIDE DEF G
<1> QED BY <1>1, <1>3

(* What the first k rounds have kept: disjoint matches, each of them seen,    *)
(* and for every match seen and not kept an overlapping one seen before it.  *)
KeptUpTo(S, k, ranked) ==
  /\ S \subseteq {ranked[j] : j \in 1 .. k}
  /\ \A c, d \in S : c # d => ~ Iv!Overlap(c, d)
  /\ \A j \in 1 .. k : ranked[j] \in S \/ \E i \in 1 .. j - 1 : ranked[i] \in S /\ Iv!Overlap(ranked[j], ranked[i])

LEMMA KeepKeeps ==
  ASSUME NEW n \in Nat, NEW A, NEW ranked \in [1 .. n -> A]
  PROVE  KeptUpTo(Iv!KeepDisjoint(ranked), n, ranked)
<1> DEFINE V == SUBSET A
           Round(S, k) == IF \E c \in S : Iv!Overlap(ranked[k], c) THEN S ELSE S \cup {ranked[k]}
           h == [k \in 1 .. n |-> [S \in V |-> Round(S, k)]]
<1>1. Len(ranked) = n
  OBVIOUS
<1>2. {} \in V /\ h \in [1 .. n -> [V -> V]]
  OBVIOUS
<1> HIDE DEF V
<1>3. PICK f : IsChain(f, n, V, {}, h)
  <2> HIDE DEF h
  <2> QED BY <1>2, ChainExists
<1>4. /\ f \in [0 .. n -> V] /\ f[0] = {}
      /\ \A k \in 1 .. n : f[k] = Round(f[k - 1], k)
  <2>1. f \in [0 .. n -> V] /\ f[0] = {} /\ \A k \in 1 .. n : f[k] = h[k][f[k - 1]]
    BY <1>3 DEF IsChain
  <2>2. \A k \in 1 .. n : f[k - 1] \in V
    BY <2>1
  <2> QED BY <2>1, <2>2
<1> HIDE DEF h
<1>0. \A g : KeepEntry(g, 0, ranked) = {} /\ \A k \in 1 .. n : KeepEntry(g, k, ranked) = Round(g[k - 1], k)
  <2>1. \A g : KeepEntry(g, 0, ranked) = {}
    BY DEF KeepEntry
  <2>2. ASSUME NEW g, NEW k \in 1 .. n PROVE KeepEntry(g, k, ranked) = Round(g[k - 1], k)
    <3>1. k # 0
      OBVIOUS
    <3> QED BY <3>1, Zenon DEF KeepEntry
  <2> HIDE DEF Round
  <2> QED BY <2>1, <2>2
<1> HIDE DEF Round
<1>5. IsKeep(f, ranked)
  <2>1. ASSUME NEW k \in 0 .. n PROVE f[k] = KeepEntry(f, k, ranked)
    <3>1. k = 0 \/ k \in 1 .. n
      OBVIOUS
    <3> QED BY <1>0, <1>4, <3>1
  <2> QED BY <1>1, <1>4, <2>1 DEF IsKeep
<1>6. PICK kept : IsKeep(kept, ranked) /\ Iv!KeepDisjoint(ranked) = kept[n]
  BY <1>1, <1>5, KeepValue
<1>7. kept = [k \in 0 .. n |-> KeepEntry(kept, k, ranked)]
  BY <1>1, <1>6 DEF IsKeep
<1>8. kept[0] = {} /\ \A k \in 1 .. n : kept[k] = Round(kept[k - 1], k)
  <2>1. \A k \in 0 .. n : kept[k] = KeepEntry(kept, k, ranked)
    BY <1>7
  <2>2. 0 \in 0 .. n /\ \A k \in 1 .. n : k \in 0 .. n
    OBVIOUS
  <2> QED BY <1>0, <2>1, <2>2
<1> DEFINE P == {k \in 0 .. n : KeptUpTo(kept[k], k, ranked)}
<1>9. 0 \in P
  BY <1>8 DEF KeptUpTo
<1>10. ASSUME NEW k \in 1 .. n, k - 1 \in P PROVE k \in P
  <2> DEFINE S == kept[k - 1]
             T == kept[k]
  <2>1. KeptUpTo(S, k - 1, ranked) /\ T = Round(S, k)
    BY <1>8, <1>10
  <2> HIDE DEF S, T
  <2> USE DEF Round
  <2>2. S \subseteq T /\ T \subseteq S \cup {ranked[k]}
    BY <2>1
  <2>3. T \subseteq {ranked[j] : j \in 1 .. k}
    BY <2>1, <2>2 DEF KeptUpTo
  <2>4. \A c, d : Iv!Overlap(c, d) <=> Iv!Overlap(d, c)
    BY DEF Iv!Overlap
  <2>5. \A c, d \in T : c # d => ~ Iv!Overlap(c, d)
    BY <2>1, <2>4 DEF KeptUpTo
  <2>6. ASSUME NEW j \in 1 .. k
        PROVE  ranked[j] \in T \/ \E i \in 1 .. j - 1 : ranked[i] \in T /\ Iv!Overlap(ranked[j], ranked[i])
    <3>1. CASE j \in 1 .. k - 1
      BY <2>1, <2>2, <3>1 DEF KeptUpTo
    <3>2. CASE j = k
      <4>1. CASE \E c \in S : Iv!Overlap(ranked[k], c)
        BY <2>1, <2>2, <3>2, <4>1 DEF KeptUpTo
      <4>2. CASE ~ \E c \in S : Iv!Overlap(ranked[k], c)
        BY <2>1, <3>2, <4>2
      <4> QED BY <4>1, <4>2
    <3> QED BY <3>1, <3>2
  <2>7. KeptUpTo(T, k, ranked)
    BY <2>3, <2>5, <2>6 DEF KeptUpTo
  <2> QED BY <2>7 DEF T
<1> HIDE DEF P
<1>11. n \in P
  BY <1>9, <1>10, InductUpTo
<1> QED BY <1>6, <1>11 DEF P

Roles == {Iv!ROLE_ORDER[i] : i \in DOMAIN Iv!ROLE_ORDER}

(* Matches of known roles at places of a text, no two of which differ in     *)
(* their value alone.                                                        *)
AreMatches(cands) ==
  /\ IsFiniteSet(cands)
  /\ \A c \in cands : c.role \in Roles /\ c.start \in Int /\ c.stop \in Int
  /\ \A c, d \in cands : (c.role = d.role /\ c.start = d.start /\ c.stop = d.stop) => c = d

(* The rank of a role tells it from the others.                              *)
LEMMA RankOfRole ==
  \A r \in Roles : Iv!RoleRank(r) \in Int /\ Iv!ROLE_ORDER[Iv!RoleRank(r)] = r
<1>1. DOMAIN Iv!ROLE_ORDER \subseteq Int
  BY DEF Iv!ROLE_ORDER
<1>2. ASSUME NEW r \in Roles PROVE Iv!RoleRank(r) \in DOMAIN Iv!ROLE_ORDER /\ Iv!ROLE_ORDER[Iv!RoleRank(r)] = r
  <2>1. \E i \in DOMAIN Iv!ROLE_ORDER : Iv!ROLE_ORDER[i] = r
    BY DEF Roles
  <2> QED BY <2>1, Zenon DEF Iv!RoleRank
<1> QED BY <1>1, <1>2

Ranking(cands) == {p \in cands \X cands : Iv!RanksBefore(p[1], p[2])}

(* Span, role and start order the matches totally.                           *)
LEMMA RankingOrders ==
  ASSUME NEW cands, AreMatches(cands)
  PROVE  /\ Orders(Ranking(cands), cands)
         /\ \A c, d \in cands : <<c, d>> \in Ranking(cands) <=> Iv!RanksBefore(c, d)
<1> DEFINE rank(c) == Iv!RoleRank(c.role)
           span(c) == c.stop - c.start
           R == Ranking(cands)
<1>1. ASSUME NEW c \in cands
      PROVE  rank(c) \in Int /\ span(c) \in Int /\ c.start \in Int /\ c.stop \in Int
  <2>1. c.role \in Roles /\ c.start \in Int /\ c.stop \in Int
    BY DEF AreMatches
  <2> QED BY <2>1, RankOfRole
<1>2. ASSUME NEW c \in cands, NEW d \in cands, rank(c) = rank(d) PROVE c.role = d.role
  <2>1. c.role \in Roles /\ d.role \in Roles
    BY DEF AreMatches
  <2> QED BY <1>2, <2>1, RankOfRole
<1>3. \A c, d \in cands : Iv!RanksBefore(c, d) <=>
        \/ span(c) > span(d)
        \/ span(c) = span(d) /\ rank(c) < rank(d)
        \/ span(c) = span(d) /\ c.role = d.role /\ c.start < d.start
  BY Zenon DEF Iv!RanksBefore, Iv!Span
<1>4. \A c, d \in cands : <<c, d>> \in R <=> Iv!RanksBefore(c, d)
  BY DEF Ranking
<1>5. \A c, d \in cands : (c.role = d.role /\ c.start = d.start /\ c.stop = d.stop) => c = d
  BY DEF AreMatches
<1> HIDE DEF R
<1> DEFINE L(c, d) == \/ span(c) > span(d)
                      \/ span(c) = span(d) /\ rank(c) < rank(d)
                      \/ span(c) = span(d) /\ rank(c) = rank(d) /\ c.start < d.start
<1>6. \A c, d \in cands : c.role = d.role => rank(c) = rank(d)
  OBVIOUS
<1> HIDE DEF rank
<1>7. \A c, d \in cands : <<c, d>> \in R <=> L(c, d)
  <2> HIDE DEF span
  <2> QED BY <1>2, <1>3, <1>4, <1>6, Zenon
<1>8. \A c \in cands : ~ L(c, c)
  BY <1>1
<1>9. ASSUME NEW c \in cands, NEW d \in cands, c # d PROVE L(c, d) \/ L(d, c)
  <2>1. span(c) = span(d) /\ rank(c) = rank(d) => c.start # d.start
    <3> SUFFICES ASSUME span(c) = span(d), rank(c) = rank(d), c.start = d.start PROVE FALSE
      OBVIOUS
    <3>1. c.role = d.role /\ c.stop = d.stop
      BY <1>1, <1>2
    <3> QED BY <1>5, <1>9, <3>1
  <2>2. rank(c) \in Int /\ rank(d) \in Int /\ span(c) \in Int /\ span(d) \in Int /\ c.start \in Int /\ d.start \in Int
    BY <1>1
  <2> HIDE DEF span
  <2> QED BY <2>1, <2>2
<1>10. ASSUME NEW c \in cands, NEW d \in cands, NEW e \in cands, L(c, d), L(d, e) PROVE L(c, e)
  <2>1. \A x \in {c, d, e} : rank(x) \in Int /\ span(x) \in Int /\ x.start \in Int
    BY <1>1
  <2> HIDE DEF span
  <2> QED BY <1>10, <2>1
<1> HIDE DEF L
<1>11. Orders(R, cands)
  BY <1>7, <1>8, <1>9, <1>10 DEF Orders
<1> QED BY <1>4, <1>11 DEF R

Resolved(kept, cands) ==
  /\ kept \subseteq cands
  /\ \A c, d \in kept : c # d => ~ Iv!Overlap(c, d)
  /\ \A c \in cands \ kept : \E k \in kept : Iv!Overlap(c, k) /\ Iv!Span(c) <= Iv!Span(k)

(* resolve_overlaps (atomizer/rules.py): the matches kept are disjoint, and  *)
(* a match is dropped only for a kept one it overlaps that is as long; for   *)
(* any finite set of matches.                                                *)
THEOREM OverlapsResolved ==
  ASSUME NEW cands, AreMatches(cands)
  PROVE  Resolved(Iv!resolve_overlaps(cands), cands)
<1> DEFINE before == [c \in cands |-> {d \in cands : Iv!RanksBefore(d, c)}]
           ranked == Iv!InOrder(cands, before)
           n == Cardinality(cands)
           R == Ranking(cands)
           kept == Iv!KeepDisjoint(ranked)
<1>1. IsFiniteSet(cands) /\ n \in Nat
  BY FS_CardinalityType DEF AreMatches
<1>2. Orders(R, cands) /\ \A c, d \in cands : <<c, d>> \in R <=> Iv!RanksBefore(c, d)
  BY RankingOrders
<1>3. \A c \in cands : before[c] = {d \in cands : <<d, c>> \in R}
  BY <1>2
<1> HIDE DEF before, R
<1>4. Lists(ranked, cands, R)
  BY <1>1, <1>2, <1>3, InOrderLists
<1>5. Iv!resolve_overlaps(cands) = kept
  BY DEF Iv!resolve_overlaps, before
<1> HIDE DEF ranked, n
<1>6. /\ ranked \in [1 .. n -> cands] /\ {ranked[k] : k \in 1 .. n} = cands
      /\ \A j, k \in 1 .. n : j < k => <<ranked[j], ranked[k]>> \in R
  BY <1>4 DEF Lists, n
<1>7. KeptUpTo(kept, n, ranked)
  BY <1>1, <1>6, KeepKeeps
<1> HIDE DEF kept
<1>8. kept \subseteq cands /\ \A c, d \in kept : c # d => ~ Iv!Overlap(c, d)
  BY <1>6, <1>7 DEF KeptUpTo
<1>9. ASSUME NEW c \in cands \ kept
      PROVE  \E k \in kept : Iv!Overlap(c, k) /\ Iv!Span(c) <= Iv!Span(k)
  <2>1. PICK j \in 1 .. n : c = ranked[j]
    BY <1>6
  <2>2. PICK i \in 1 .. j - 1 : ranked[i] \in kept /\ Iv!Overlap(ranked[j], ranked[i])
    BY <1>7, <1>9, <2>1 DEF KeptUpTo
  <2>3. i \in 1 .. n /\ i < j
    BY <1>1, <2>2
  <2>4. <<ranked[i], ranked[j]>> \in R /\ ranked[i] \in cands
    BY <1>6, <2>3
  <2>5. Iv!RanksBefore(ranked[i], c)
    BY <1>2, <2>1, <2>4
  <2>6. c.start \in Int /\ c.stop \in Int /\ ranked[i].start \in Int /\ ranked[i].stop \in Int
    BY <2>4 DEF AreMatches
  <2>7. Iv!Span(c) <= Iv!Span(ranked[i])
    BY <2>5, <2>6 DEF Iv!RanksBefore, Iv!Span
  <2> QED BY <2>1, <2>2, <2>7
<1> QED BY <1>5, <1>8, <1>9 DEF Resolved

(* F counts the members of I by their class, f.                              *)
Counts(F, L, I, f) ==
  /\ \A i \in I : f[i] \in L
  /\ \A l \in L : F[l] = Cardinality({i \in I : f[i] = l})

(* Every member of I is counted in one class.                                *)
LEMMA CountByClass ==
  ASSUME NEW I, IsFiniteSet(I), NEW L, IsFiniteSet(L), NEW f, NEW F, Counts(F, L, I, f)
  PROVE  SumOver(F, L) = Cardinality(I)
<1>0. (\A i \in I : f[i] \in L) /\ (\A l \in L : F[l] = Cardinality({i \in I : f[i] = l}))
  BY DEF Counts
<1> DEFINE Of(T) == {i \in I : f[i] \in T}
           C == {T \in SUBSET L : SumOver(F, T) # Cardinality(Of(T))}
<1>1. \A l \in L : F[l] \in Int /\ IsFiniteSet({i \in I : f[i] = l})
  <2>1. ASSUME NEW l \in L PROVE F[l] \in Int /\ IsFiniteSet({i \in I : f[i] = l})
    <3> DEFINE G == {i \in I : f[i] = l}
    <3>1. G \in SUBSET I /\ F[l] = Cardinality(G)
      BY <1>0
    <3> HIDE DEF G
    <3>2. IsFiniteSet(G) /\ Cardinality(G) \in Nat
      BY <3>1, FS_Subset, FS_CardinalityType
    <3>3. F[l] \in Int
      BY <3>1, <3>2
    <3> QED BY <3>2, <3>3 DEF G
  <2> QED BY <2>1
<1>2. ASSUME C # {} PROVE FALSE
  <2>1. \A U \in C : U \subseteq L
    OBVIOUS
  <2>2. PICK T \in C : \A U \in C : ~ (U \subseteq T /\ U # T)
    <3> HIDE DEF C
    <3> QED BY <1>2, <2>1, MinimalSubset
  <2>3. T \in SUBSET L /\ SumOver(F, T) # Cardinality(Of(T)) /\ IsFiniteSet(T)
    BY FS_Subset
  <2>4. CASE T = {}
    <3>1. Of(T) = {}
      BY <2>4
    <3> QED BY <2>3, <2>4, <3>1, SumOfNone, FS_EmptySet
  <2>5. CASE T # {}
    <3>1. PICK e \in T : TRUE
      BY <2>5
    <3> DEFINE U == T \ {e}
               one == {i \in I : f[i] = e}
    <3>2. SumOver(F, U) = Cardinality(Of(U))
      BY <2>2, <2>3, <3>1
    <3>3. SumOver(F, T) = F[e] + SumOver(F, U)
      <4>1. \A x \in T : F[x] \in Int
        BY <1>1, <2>3
      <4> HIDE DEF C
      <4> QED BY <2>3, <3>1, <4>1, SumTakesOut
    <3>4. IsFiniteSet(Of(U)) /\ IsFiniteSet(one) /\ F[e] = Cardinality(one)
      <4>1. Of(U) \in SUBSET I
        OBVIOUS
      <4> QED BY <1>0, <1>1, <2>3, <3>1, <4>1, FS_Subset
    <3>5. Of(T) = one \cup Of(U) /\ one \cap Of(U) = {}
      BY <3>1
    <3> HIDE DEF C, Of, U, one
    <3>6. Cardinality(one \cup Of(U)) = Cardinality(one) + Cardinality(Of(U)) - Cardinality(one \cap Of(U))
      BY <3>4, FS_Union
    <3>7. Cardinality(one) \in Nat /\ Cardinality(Of(U)) \in Nat /\ Cardinality({}) = 0
      BY <3>4, FS_CardinalityType, FS_EmptySet
    <3>8. Cardinality(Of(T)) = Cardinality(one) + Cardinality(Of(U))
      <4>1. Cardinality(one \cap Of(U)) = 0 /\ Cardinality(Of(T)) = Cardinality(one \cup Of(U))
        BY <3>5, <3>7, Zenon
      <4> QED BY <3>6, <3>7, <4>1
    <3> QED BY <2>3, <3>2, <3>3, <3>4, <3>8
  <2> QED BY <2>4, <2>5
<1>3. SumOver(F, L) = Cardinality(Of(L))
  BY <1>2
<1>4. Of(L) = I
  BY <1>0
<1> QED BY <1>3, <1>4

Group(kept, c) == {d \in kept : d.role = c.role /\ d.value = c.value}

(* The atom of a group of occurrences: the first of them, with all spans.    *)
LEMMA MergedIs ==
  ASSUME NEW kept, IsFiniteSet(kept), \A c \in kept : c.start \in Int, NEW c \in kept
  PROVE  LET g == Group(kept, c)
             a == Iv!Merged(g)
         IN  /\ a.role = c.role /\ a.value = c.value /\ a.verification = "unverified"
             /\ \E d \in g : a.start = d.start /\ a.stop = d.stop
             /\ a.occurrence_count = Cardinality(g)
             /\ a.spans = {<<d.start, d.stop>> : d \in g}
<1> DEFINE g == Group(kept, c)
           least(x) == \A d \in g : x.start <= d.start
           first == CHOOSE x \in g : least(x)
           a == Iv!Merged(g)
           V == {d.start : d \in g}
           f == [d \in g |-> d.start]
<1>1. g \subseteq kept /\ c \in g /\ IsFiniteSet(g)
  <2>1. g \in SUBSET kept /\ c \in g
    BY DEF Group
  <2> QED BY <2>1, FS_Subset
<1>2. IsFiniteSet(V) /\ V \subseteq Int /\ V # {}
  <2>1. V \subseteq Int /\ V # {}
    BY <1>1
  <2>2. f \in Surjection(g, V)
    BY DEF Surjection
  <2> HIDE DEF f, V, g
  <2>3. IsFiniteSet(V)
    BY <1>1, <2>2, FS_Surjection
  <2> QED BY <2>1, <2>3
<1>3. PICK v \in V : \A w \in V : v <= w
  <2> HIDE DEF V
  <2> QED BY <1>2, LeastInteger
<1>4. first \in g
  <2>1. PICK x \in g : v = x.start
    OBVIOUS
  <2>2. least(x)
    BY <1>3, <2>1
  <2> HIDE DEF least, g
  <2> QED BY <2>2
<1>5. a = [id |-> Iv!atom_id(first.role, first.value), role |-> first.role, value |-> first.value,
           start |-> first.start, stop |-> first.stop, occurrence_count |-> Cardinality(g),
           spans |-> {<<d.start, d.stop>> : d \in g}, verification |-> "unverified"]
  BY Zenon DEF Iv!Merged, Iv!Cardinality, Cardinality
<1>6. first.role = c.role /\ first.value = c.value
  <2> HIDE DEF first
  <2> QED BY <1>4 DEF Group
<1> HIDE DEF first, g, a
<1>7. /\ a.role = first.role /\ a.value = first.value /\ a.verification = "unverified"
      /\ a.start = first.start /\ a.stop = first.stop /\ a.occurrence_count = Cardinality(g)
      /\ a.spans = {<<d.start, d.stop>> : d \in g}
  BY <1>5
<1>8. /\ a.role = c.role /\ a.value = c.value /\ a.verification = "unverified"
      /\ \E d \in g : a.start = d.start /\ a.stop = d.stop
      /\ a.occurrence_count = Cardinality(g)
      /\ a.spans = {<<d.start, d.stop>> : d \in g}
  BY <1>4, <1>6, <1>7
<1> QED BY <1>8 DEF a, g

Proper(kept) ==
  /\ IsFiniteSet(kept)
  /\ \A c \in kept : c.start \in Int /\ c.stop \in Int /\ c.start < c.stop
  /\ \A c, d \in kept : c # d => ~ Iv!Overlap(c, d)

(* atoms is a list of n atoms, place the position of the atom of a match.    *)
Atomized(atoms, n, kept, place) ==
  /\ n \in Nat /\ DOMAIN atoms = 1 .. n /\ place \in [kept -> 1 .. n]
  /\ \A i \in 1 .. n : \E c \in kept : place[c] = i
  /\ \A c \in kept : atoms[place[c]] = Iv!Merged(Group(kept, c))
  /\ \A c, d \in kept : place[c] = place[d] <=> c.role = d.role /\ c.value = d.value

(* Disjoint matches start at different places.                               *)
LEMMA StartsDiffer ==
  ASSUME NEW kept, Proper(kept)
  PROVE  \A c, d \in kept : c.start = d.start => c = d
<1> SUFFICES ASSUME NEW c \in kept, NEW d \in kept, c.start = d.start, c # d PROVE FALSE
  OBVIOUS
<1>1. c.start < d.stop /\ d.start < c.stop
  BY DEF Proper
<1> QED BY <1>1 DEF Proper, Iv!Overlap

LEMMA AtomsOfKept ==
  ASSUME NEW cands, Proper(Iv!resolve_overlaps(cands))
  PROVE  \E n, place : Atomized(Iv!atomize(cands), n, Iv!resolve_overlaps(cands), place)
<1> DEFINE kept == Iv!resolve_overlaps(cands)
<1> DEFINE g(c) == Group(kept, c)
           groups == {g(c) : c \in kept}
           m(c) == Iv!Merged(g(c))
           A == {Iv!Merged(x) : x \in groups}
           before == [a \in A |-> {b \in A : b.start < a.start}]
           s == Iv!InOrder(A, before)
           n == Cardinality(A)
           R == {p \in A \X A : p[1].start < p[2].start}
<1>1. Iv!atomize(cands) = s
  BY Zenon DEF Iv!atomize, Group
<1>0. Proper(kept)
  OBVIOUS
<1> HIDE DEF kept
<1>2. A = {m(c) : c \in kept}
  BY Zenon
<1>3. \A c \in kept : \E d \in g(c) : m(c).start = d.start
  <2>1. IsFiniteSet(kept) /\ \A c \in kept : c.start \in Int
    BY <1>0 DEF Proper
  <2> QED BY <2>1, MergedIs
<1>4. \A c \in kept : \A d \in g(c) : d \in kept /\ d.role = c.role /\ d.value = c.value
  BY DEF Group
<1>5. \A c, d \in kept : (c.role = d.role /\ c.value = d.value) => m(c) = m(d)
  <2>1. ASSUME NEW c \in kept, NEW d \in kept, c.role = d.role, c.value = d.value PROVE g(c) = g(d)
    BY <2>1, Zenon DEF Group
  <2> QED BY <2>1
<1> HIDE DEF g
<1>6. \A a \in A : a.start \in Int
  <2>1. ASSUME NEW c \in kept PROVE m(c).start \in Int
    <3>1. PICK d \in g(c) : m(c).start = d.start
      BY <1>3
    <3> QED BY <1>0, <1>4, <3>1 DEF Proper
  <2> HIDE DEF A, m
  <2> QED BY <1>2, <2>1
<1>7. \A c, d \in kept : m(c).start = m(d).start => c.role = d.role /\ c.value = d.value
  <2> SUFFICES ASSUME NEW c \in kept, NEW d \in kept, m(c).start = m(d).start
               PROVE  c.role = d.role /\ c.value = d.value
    BY Zenon
  <2>1. PICK x \in g(c) : m(c).start = x.start
    BY <1>3
  <2>2. PICK y \in g(d) : m(d).start = y.start
    BY <1>3
  <2> HIDE DEF m
  <2>3. x \in kept /\ y \in kept /\ x.start = y.start
    BY <1>4, <2>1, <2>2
  <2>4. x = y
    BY <1>0, <2>3, StartsDiffer
  <2> QED BY <1>4, <2>4
<1>8. IsFiniteSet(A)
  <2> DEFINE f == [c \in kept |-> m(c)]
  <2>1. f \in Surjection(kept, A)
    <3> HIDE DEF m, A
    <3> QED BY <1>2 DEF Surjection
  <2>2. IsFiniteSet(kept)
    BY <1>0 DEF Proper
  <2> HIDE DEF f, A
  <2> QED BY <2>1, <2>2, FS_Surjection
<1> HIDE DEF m
<1>9. \A a, b \in A : a.start = b.start => a = b
  <2> HIDE DEF A
  <2> QED BY <1>2, <1>5, <1>7
<1> HIDE DEF A
<1>10. \A a, b \in A : <<a, b>> \in R <=> a.start < b.start
  OBVIOUS
<1>11. \A a \in A : before[a] = {b \in A : <<b, a>> \in R}
  BY <1>10
<1> HIDE DEF R, before
<1>12. Orders(R, A)
  BY <1>6, <1>9, <1>10 DEF Orders
<1>13. Lists(s, A, R)
  BY <1>8, <1>11, <1>12, InOrderLists
<1>14. n \in Nat
  BY <1>8, FS_CardinalityType
<1> HIDE DEF s, n
<1>15. /\ s \in [1 .. n -> A] /\ {s[k] : k \in 1 .. n} = A
       /\ \A j, k \in 1 .. n : s[j] = s[k] => j = k
  BY <1>13 DEF Lists, n
<1> DEFINE place == [c \in kept |-> CHOOSE i \in 1 .. n : s[i] = m(c)]
<1>16. ASSUME NEW c \in kept PROVE place[c] \in 1 .. n /\ s[place[c]] = m(c)
  <2>1. \E i \in 1 .. n : s[i] = m(c)
    BY <1>2, <1>15
  <2> QED BY <2>1
<1> HIDE DEF place
<1>17. place \in [kept -> 1 .. n]
  BY <1>16 DEF place
<1>18. ASSUME NEW i \in 1 .. n PROVE \E c \in kept : place[c] = i
  <2>1. PICK c \in kept : s[i] = m(c)
    BY <1>2, <1>15
  <2> QED BY <1>15, <1>16, <2>1
<1>19. \A c, d \in kept : place[c] = place[d] <=> c.role = d.role /\ c.value = d.value
  <2>1. \A c, d \in kept : place[c] = place[d] <=> m(c) = m(d)
    BY <1>15, <1>16
  <2>2. \A c, d \in kept : m(c) = m(d) <=> c.role = d.role /\ c.value = d.value
    BY <1>5, <1>7
  <2> QED BY <2>1, <2>2
<1>20. \A c \in kept : s[place[c]] = Iv!Merged(Group(kept, c))
  BY <1>16 DEF m, g
<1>21. Atomized(s, n, kept, place)
  BY <1>14, <1>15, <1>17, <1>18, <1>19, <1>20 DEF Atomized
<1> QED BY <1>1, <1>21 DEF kept

(* What the list says of an atom, by a match of its group.                   *)
AtomOf(a, c, kept, place) ==
  /\ a.role = c.role /\ a.value = c.value /\ a.verification = "unverified"
  /\ a.occurrence_count = Cardinality({d \in kept : place[d] = place[c]})
  /\ \A d \in kept : <<d.start, d.stop>> \in a.spans <=> place[d] = place[c]

LEMMA AtomFields ==
  ASSUME NEW kept, Proper(kept), NEW atoms, NEW n, NEW place, Atomized(atoms, n, kept, place)
  PROVE  \A c \in kept : AtomOf(atoms[place[c]], c, kept, place)
<1> TAKE c \in kept
<1> DEFINE a == atoms[place[c]]
           G == Group(kept, c)
<1>1. a = Iv!Merged(G) /\ \A d \in kept : place[d] = place[c] <=> d.role = c.role /\ d.value = c.value
  BY DEF Atomized
<1>2. G = {d \in kept : place[d] = place[c]}
  BY <1>1 DEF Group
<1>3. IsFiniteSet(kept) /\ \A d \in kept : d.start \in Int
  BY DEF Proper
<1> HIDE DEF a
<1>4. /\ a.role = c.role /\ a.value = c.value /\ a.verification = "unverified"
      /\ a.occurrence_count = Cardinality(G)
      /\ a.spans = {<<d.start, d.stop>> : d \in G}
  BY <1>1, <1>3, MergedIs
<1> HIDE DEF G
<1>5. ASSUME NEW d \in kept PROVE <<d.start, d.stop>> \in a.spans <=> d \in G
  <2>1. ASSUME NEW e \in G, <<d.start, d.stop>> = <<e.start, e.stop>> PROVE d = e
    <3>1. e \in kept /\ d.start = e.start
      BY <1>2, <2>1
    <3> QED BY <3>1, StartsDiffer
  <2> QED BY <1>4, <2>1
<1> QED BY <1>2, <1>4, <1>5 DEF AtomOf, a

(* Every match kept lies in one atom, and the counts add up to the matches.   *)
CountedOnce(kept, atoms) ==
  /\ \A c \in kept : Cardinality({i \in DOMAIN atoms : <<c.start, c.stop>> \in atoms[i].spans}) = 1
  /\ SumOver([i \in DOMAIN atoms |-> atoms[i].occurrence_count], DOMAIN atoms) = Cardinality(kept)

LEMMA AtomsCount ==
  ASSUME NEW kept, Proper(kept), NEW atoms, NEW n, NEW place, Atomized(atoms, n, kept, place)
  PROVE  CountedOnce(kept, atoms)
<1>1. /\ n \in Nat /\ DOMAIN atoms = 1 .. n /\ place \in [kept -> 1 .. n]
      /\ \A i \in 1 .. n : \E c \in kept : place[c] = i
  BY DEF Atomized
<1>2. ASSUME NEW c \in kept PROVE Cardinality({i \in 1 .. n : <<c.start, c.stop>> \in atoms[i].spans}) = 1
  <2>1. ASSUME NEW i \in 1 .. n PROVE <<c.start, c.stop>> \in atoms[i].spans <=> i = place[c]
    <3>1. PICK e \in kept : place[e] = i
      BY <1>1
    <3>2. AtomOf(atoms[place[e]], e, kept, place)
      BY AtomFields
    <3> QED BY <3>1, <3>2 DEF AtomOf
  <2>2. place[c] \in 1 .. n
    BY <1>1
  <2>3. {i \in 1 .. n : <<c.start, c.stop>> \in atoms[i].spans} = {place[c]}
    BY <2>1, <2>2
  <2> QED BY <2>3, FS_Singleton
<1> DEFINE F == [i \in DOMAIN atoms |-> atoms[i].occurrence_count]
           L == 1 .. n
<1>3. ASSUME NEW i \in L PROVE F[i] = Cardinality({d \in kept : place[d] = i})
  <2>1. PICK c \in kept : place[c] = i
    BY <1>1
  <2>2. atoms[i].occurrence_count = Cardinality({d \in kept : place[d] = i})
    <3>1. AtomOf(atoms[place[c]], c, kept, place)
      BY AtomFields
    <3> QED BY <2>1, <3>1 DEF AtomOf
  <2>3. F[i] = atoms[i].occurrence_count
    BY <1>1
  <2> QED BY <2>2, <2>3
<1>4. IsFiniteSet(L) /\ IsFiniteSet(kept) /\ \A c \in kept : place[c] \in L
  BY <1>1, FS_Interval DEF Proper
<1> HIDE DEF F, L
<1>5. SumOver(F, L) = Cardinality(kept)
  <2>1. Counts(F, L, kept, place)
    BY <1>3, <1>4 DEF Counts
  <2> QED BY <1>4, <2>1, CountByClass
<1>6. SumOver(F, DOMAIN atoms) = Cardinality(kept)
  BY <1>1, <1>5 DEF L
<1> QED BY <1>1, <1>2, <1>6 DEF CountedOnce, F

Admitted(atoms, frame, required) ==
  {i \in DOMAIN atoms : Iv!Exclusion(atoms[i], Iv!conflict_ids(atoms), frame, required) = "none"}

LEMMA NotExcluded ==
  ASSUME NEW a, NEW conflicts, NEW frame, NEW required,
         Iv!Exclusion(a, conflicts, frame, required) = "none"
  PROVE  a.id \notin conflicts /\ (required => a.verification = "accepted")
<1> DEFINE x == a.id \in conflicts
           y == a.value = Iv!Degenerate
           z == Iv!entangled(a, frame)
<1>1. (CASE x -> "conflict_group"
         [] ~x /\ ~~y -> "degenerate_value"
         [] ~x /\ ~y /\ z -> "entangled_surface"
         [] OTHER -> IF a.verification = "rejected" THEN "human_rejected"
                     ELSE IF required /\ a.verification # "accepted" THEN "unverified"
                     ELSE "none") = "none"
  BY DEF Iv!Exclusion
<1> HIDE DEF x, y, z
<1>2. ~x /\ (required => a.verification = "accepted")
  BY <1>1
<1> QED BY <1>2 DEF x

FreeOfTwins(eligible) == \A a, b \in eligible : a.value = b.value => a = b
Members(s) == {s[i] : i \in DOMAIN s}

ReportOf(r, atoms, I) ==
  /\ Members(r.eligible) = {atoms[i] : i \in I}
  /\ Len(r.eligible) + Len(r.excluded) = Cardinality(DOMAIN atoms)

LEMMA ReportIs ==
  ASSUME NEW atoms, NEW n \in Nat, DOMAIN atoms = 1 .. n, NEW frame, NEW required
  PROVE  ReportOf(Iv!filter_eligible(atoms, frame, required), atoms, Admitted(atoms, frame, required))
<1> DEFINE I == Admitted(atoms, frame, required)
           J == DOMAIN atoms \ I
           e == Iv!At(atoms, I)
           x == Iv!At(atoms, J)
           r == Iv!filter_eligible(atoms, frame, required)
<1>1. r = [eligible |-> e, excluded |-> x]
  BY Zenon DEF Iv!filter_eligible, Admitted
<1>2. I \subseteq 1 .. n /\ J = (1 .. n) \ I /\ I \subseteq Int /\ J \subseteq Int
  BY DEF Admitted
<1> HIDE DEF I, J, r
<1>3. IsFiniteSet(1 .. n) /\ Cardinality(1 .. n) = n
  BY FS_Interval
<1>4. IsFiniteSet(I) /\ IsFiniteSet(J)
  BY <1>2, <1>3, FS_Subset
<1>5. Cardinality(I) + Cardinality(J) = n
  <2>1. Cardinality(J) = n - Cardinality((1 .. n) \cap I)
    BY <1>2, <1>3, FS_Difference
  <2>2. (1 .. n) \cap I = I
    BY <1>2
  <2>3. Cardinality(I) \in Nat /\ Cardinality((1 .. n) \cap I) = Cardinality(I)
    BY <1>4, <2>2, FS_CardinalityType, Zenon
  <2> QED BY <2>1, <2>3
<1>6. /\ DOMAIN e = 1 .. Cardinality(I) /\ {e[k] : k \in 1 .. Cardinality(I)} = {atoms[i] : i \in I}
      /\ DOMAIN x = 1 .. Cardinality(J)
  <2> HIDE DEF e, x
  <2> QED BY <1>2, <1>4, AtLists DEF e, x
<1>7. Cardinality(I) \in Nat /\ Cardinality(J) \in Nat
  BY <1>4, FS_CardinalityType
<1> HIDE DEF e, x
<1>8. Len(e) = Cardinality(I) /\ Len(x) = Cardinality(J)
  BY <1>6, <1>7
<1>9. r.eligible = e /\ r.excluded = x
  BY <1>1
<1>10. Members(r.eligible) = {atoms[i] : i \in I} /\ Len(r.eligible) + Len(r.excluded) = n
  BY <1>5, <1>6, <1>8, <1>9 DEF Members
<1> QED BY <1>3, <1>10 DEF r, I, ReportOf

LEMMA TwinsConflict ==
  ASSUME NEW kept, Proper(kept), NEW atoms, NEW n, NEW place, Atomized(atoms, n, kept, place),
         NEW frame, NEW required
  PROVE  FreeOfTwins(Members(Iv!filter_eligible(atoms, frame, required).eligible))
<1>1. /\ n \in Nat /\ DOMAIN atoms = 1 .. n
      /\ \A i \in 1 .. n : \E c \in kept : place[c] = i
  BY DEF Atomized
<1>2. ASSUME NEW i \in Admitted(atoms, frame, required), NEW j \in Admitted(atoms, frame, required),
             atoms[i].value = atoms[j].value
      PROVE  i = j
  <2>1. i \in 1 .. n /\ j \in 1 .. n /\ atoms[i].id \notin Iv!conflict_ids(atoms)
    BY <1>1, NotExcluded DEF Admitted
  <2>2. ~ (atoms[j].role # atoms[i].role)
    BY <1>1, <1>2, <2>1 DEF Iv!conflict_ids
  <2>3. PICK c \in kept : place[c] = i
    BY <1>1, <2>1
  <2>4. PICK d \in kept : place[d] = j
    BY <1>1, <2>1
  <2>5. c.role = d.role /\ c.value = d.value
    <3>1. AtomOf(atoms[place[c]], c, kept, place) /\ AtomOf(atoms[place[d]], d, kept, place)
      BY AtomFields
    <3> QED BY <1>2, <2>2, <2>3, <2>4, <3>1 DEF AtomOf
  <2> QED BY <2>3, <2>4, <2>5 DEF Atomized
<1>3. Members(Iv!filter_eligible(atoms, frame, required).eligible) = {atoms[i] : i \in Admitted(atoms, frame, required)}
  BY <1>1, ReportIs DEF ReportOf
<1> QED BY <1>2, <1>3 DEF FreeOfTwins

IsAtom(a) ==
  a = [x \in DOMAIN a |-> a[x]] /\ {"id", "value", "spans", "verification"} \subseteq DOMAIN a

SameBut(b, a) == b.id = a.id /\ b.value = a.value
Decides(b, a, d) == SameBut(b, a) /\ b.verification = d /\ IsAtom(b)
Forgets(c, a) == SameBut(c, a) /\ c.verification = a.verification

(* Writing one field of an atom leaves the others.                           *)
LEMMA AtomWrites ==
  ASSUME NEW a, IsAtom(a), NEW d
  PROVE  Decides([a EXCEPT !.verification = d], a, d) /\ Forgets([a EXCEPT !.spans = d], a)
<1> DEFINE b == [a EXCEPT !["verification"] = d]
           c == [a EXCEPT !["spans"] = d]
<1>1. b = [x \in DOMAIN a |-> IF x = "verification" THEN d ELSE a[x]]
  OBVIOUS
<1>2. c = [x \in DOMAIN a |-> IF x = "spans" THEN d ELSE a[x]]
  OBVIOUS
<1> HIDE DEF b, c
<1>3. DOMAIN a = DOMAIN b /\ \A x \in DOMAIN a : b[x] = IF x = "verification" THEN d ELSE a[x]
  BY <1>1
<1>4. \A x \in DOMAIN a : c[x] = IF x = "spans" THEN d ELSE a[x]
  BY <1>2
<1>5. b["id"] = a["id"] /\ b["value"] = a["value"] /\ b["verification"] = d
  BY <1>3 DEF IsAtom
<1>6. c["id"] = a["id"] /\ c["value"] = a["value"] /\ c["verification"] = a["verification"]
  BY <1>4 DEF IsAtom
<1>7. b = [x \in DOMAIN b |-> b[x]]
  BY <1>1, <1>3
<1>8. IsAtom(b)
  BY <1>3, <1>7 DEF IsAtom
<1>9. Decides(b, a, d) /\ Forgets(c, a)
  BY <1>5, <1>6, <1>8 DEF Decides, Forgets, SameBut
<1> QED BY <1>9 DEF b, c

AcceptedAtoms(atoms, decisions) == {i \in DOMAIN atoms : decisions[i] = "accepted"}
Rows0(atoms, decisions) == Iv!Filled(Iv!write_review_template(atoms), decisions)

Prevails(d, i, atoms, decisions) ==
  \E j \in DOMAIN atoms : atoms[j].id = atoms[i].id /\ d = decisions[j]

(* The decision that counts for an id is the last of its rows.               *)
LEMMA DecidedIs ==
  ASSUME NEW n \in Nat, NEW atoms, DOMAIN atoms = 1 .. n, NEW decisions, DOMAIN decisions = 1 .. n,
         NEW i \in 1 .. n
  PROVE  Prevails(Iv!Decided(Rows0(atoms, decisions), atoms[i].id), i, atoms, decisions)
<1> DEFINE rows == Rows0(atoms, decisions)
           mine == {j \in 1 .. n : atoms[j].id = atoms[i].id}
           d == Iv!Decided(rows, atoms[i].id)
           sheet == Iv!write_review_template(atoms)
           blank == ""
<1>1. DOMAIN sheet = 1 .. n /\ \A j \in 1 .. n : sheet[j] = [atom_id |-> atoms[j].id, decision |-> blank]
  BY DEF Iv!write_review_template
<1>2. rows = [j \in DOMAIN sheet |-> [atom_id |-> sheet[j].atom_id, decision |-> decisions[j]]]
  BY Zenon DEF Rows0, Iv!Filled
<1> HIDE DEF rows, sheet, mine, d, blank
<1>3. DOMAIN rows = 1 .. n /\ \A j \in 1 .. n : rows[j].atom_id = atoms[j].id /\ rows[j].decision = decisions[j]
  <2>1. ASSUME NEW j \in 1 .. n PROVE sheet[j].atom_id = atoms[j].id
    <3>1. sheet[j] = [atom_id |-> atoms[j].id, decision |-> blank]
      BY <1>1
    <3> QED BY <3>1
  <2>2. DOMAIN rows = 1 .. n /\ \A j \in 1 .. n : rows[j] = [atom_id |-> sheet[j].atom_id, decision |-> decisions[j]]
    BY <1>1, <1>2
  <2>3. ASSUME NEW j \in 1 .. n PROVE rows[j].atom_id = sheet[j].atom_id /\ rows[j].decision = decisions[j]
    <3>1. rows[j] = [atom_id |-> sheet[j].atom_id, decision |-> decisions[j]]
      BY <2>2
    <3> QED BY <3>1
  <2> QED BY <2>1, <2>2, <2>3
<1>4. {j \in DOMAIN rows : rows[j].atom_id = atoms[i].id} = mine
  BY <1>3 DEF mine
<1>5. d = IF {j \in DOMAIN rows : rows[j].atom_id = atoms[i].id} = {} THEN ""
          ELSE rows[Iv!Max({j \in DOMAIN rows : rows[j].atom_id = atoms[i].id})].decision
  BY Zenon DEF Iv!Decided, d
<1>6. mine \subseteq Int /\ mine # {} /\ IsFiniteSet(mine)
  <2>1. mine \subseteq 1 .. n /\ i \in mine /\ mine \subseteq Int
    BY DEF mine
  <2>2. IsFiniteSet(1 .. n)
    BY FS_Interval
  <2> QED BY <2>1, <2>2, FS_Subset
<1>7. d = rows[Iv!Max(mine)].decision
  BY <1>4, <1>5, <1>6, Zenon
<1>8. Iv!Max(mine) \in mine
  <2>1. \E x \in mine : \A y \in mine : x >= y
    <3>1. PICK x \in mine : \A y \in mine : y <= x
      BY <1>6, GreatestInteger
    <3>2. \A y \in mine : x >= y
      BY <1>6, <3>1
    <3> QED BY <3>2
  <2> QED BY <2>1, Zenon DEF Iv!Max
<1> DEFINE j == Iv!Max(mine)
<1> HIDE DEF j
<1>9. j \in 1 .. n /\ atoms[j].id = atoms[i].id /\ d = decisions[j]
  BY <1>3, <1>7, <1>8 DEF j, mine
<1>10. Prevails(d, i, atoms, decisions)
  BY <1>9 DEF Prevails
<1> QED BY <1>10 DEF d, rows

IdsOf(s) == {s[i].id : i \in DOMAIN s}
ReviewIsKept(atoms, decisions, read, report) ==
  /\ IdsOf(read) \subseteq {atoms[i].id : i \in AcceptedAtoms(atoms, decisions)}
  /\ IdsOf(report.eligible) \subseteq IdsOf(read)
  /\ Cardinality(IdsOf(atoms)) = Len(atoms) =>
       {r.value : r \in Members(read)} = {atoms[i].value : i \in AcceptedAtoms(atoms, decisions)}

(* apply_review, the inventory file and filter_eligible: what is read back   *)
(* shares its id with an accepted row, what the filter admits is in it, and   *)
(* where the ids differ it is exactly what was accepted; for any list of     *)
(* atoms and any decisions.                                                  *)
THEOREM ReviewedInventory ==
  ASSUME NEW n \in Nat, NEW atoms, DOMAIN atoms = 1 .. n,
         \A i \in 1 .. n : IsAtom(atoms[i]) /\ atoms[i].verification = "unverified",
         NEW decisions, DOMAIN decisions = 1 .. n, NEW frame
  PROVE  LET reviewed == Iv!apply_review(atoms, Rows0(atoms, decisions))
         IN  ReviewIsKept(atoms, decisions, Iv!read_inventory(Iv!write_inventory(reviewed), TRUE),
                          Iv!filter_eligible(reviewed, frame, TRUE))
<1> DEFINE rows == Rows0(atoms, decisions)
           d(i) == Iv!Decided(rows, atoms[i].id)
           set(i) == [atoms[i] EXCEPT !.verification = d(i)]
           reviewed == Iv!apply_review(atoms, rows)
           file == Iv!write_inventory(reviewed)
           accepted == AcceptedAtoms(atoms, decisions)
           yes == "accepted"
           I == {i \in 1 .. n : d(i) = yes}
           read == Iv!read_inventory(file, TRUE)
           report == Iv!filter_eligible(reviewed, frame, TRUE)
<1>1. reviewed = [i \in DOMAIN atoms |-> IF d(i) \in {yes, "rejected"} THEN set(i) ELSE atoms[i]]
  BY Zenon DEF Iv!apply_review
<1>2. ASSUME NEW i \in 1 .. n
      PROVE  /\ set(i).id = atoms[i].id /\ set(i).value = atoms[i].value
             /\ set(i).verification = d(i) /\ IsAtom(set(i))
  <2>1. IsAtom(atoms[i])
    OBVIOUS
  <2> DEFINE e == d(i)
  <2>2. set(i) = [atoms[i] EXCEPT !.verification = e]
    OBVIOUS
  <2> HIDE DEF e
  <2>3. Decides(set(i), atoms[i], e)
    BY <2>1, <2>2, AtomWrites
  <2> HIDE DEF set
  <2> QED BY <2>3 DEF Decides, SameBut, e
<1>3. \A i \in 1 .. n : \E j \in 1 .. n : atoms[j].id = atoms[i].id /\ d(i) = decisions[j]
  <2>1. ASSUME NEW i \in 1 .. n PROVE Prevails(Iv!Decided(Rows0(atoms, decisions), atoms[i].id), i, atoms, decisions)
    BY DecidedIs
  <2>2. \A i \in 1 .. n : Prevails(d(i), i, atoms, decisions)
    BY <2>1
  <2> HIDE DEF d
  <2> QED BY <2>2 DEF Prevails
<1>4. file = [i \in DOMAIN reviewed |-> [reviewed[i] EXCEPT !.spans = {}]]
  BY Zenon DEF Iv!write_inventory
<1>5. read = Iv!At(file, {i \in DOMAIN file : TRUE => file[i].verification = yes})
  BY Zenon DEF Iv!read_inventory
<1>6. yes # "unverified"
  OBVIOUS
<1> HIDE DEF rows, d, set, reviewed, file, read, report, yes
<1>7. ASSUME NEW i \in 1 .. n
      PROVE  /\ reviewed[i].id = atoms[i].id /\ reviewed[i].value = atoms[i].value
             /\ IsAtom(reviewed[i]) /\ (reviewed[i].verification = yes <=> i \in I)
  <2>1. reviewed[i] = IF d(i) \in {yes, "rejected"} THEN set(i) ELSE atoms[i]
    BY <1>1
  <2>2. CASE d(i) \in {yes, "rejected"}
    BY <1>2, <2>1, <2>2
  <2>3. CASE d(i) \notin {yes, "rejected"}
    <3>1. atoms[i].verification # yes
      BY <1>6
    <3> QED BY <2>1, <2>3, <3>1
  <2> QED BY <2>2, <2>3
<1>8. DOMAIN reviewed = 1 .. n /\ DOMAIN file = 1 .. n
  BY <1>1, <1>4
<1>9. ASSUME NEW i \in 1 .. n
      PROVE  /\ file[i].id = atoms[i].id /\ file[i].value = atoms[i].value
             /\ (file[i].verification = yes <=> i \in I)
  <2>1. file[i] = [reviewed[i] EXCEPT !.spans = {}]
    BY <1>4, <1>8
  <2>2. IsAtom(reviewed[i])
    BY <1>7
  <2> DEFINE none == {}
             w == [reviewed[i] EXCEPT !.spans = none]
  <2>3. file[i] = w
    BY <2>1
  <2> HIDE DEF none
  <2>4. w.id = reviewed[i].id /\ w.value = reviewed[i].value /\ w.verification = reviewed[i].verification
    <3>1. Forgets(w, reviewed[i])
      BY <2>2, AtomWrites
    <3> HIDE DEF w
    <3> QED BY <3>1 DEF Forgets, SameBut
  <2> HIDE DEF w
  <2> QED BY <1>7, <2>3, <2>4
<1>10. {i \in DOMAIN file : TRUE => file[i].verification = yes} = I
  BY <1>8, <1>9
<1>11. IsFiniteSet(I) /\ I \subseteq Int /\ I \subseteq 1 .. n
  <2>1. I \subseteq 1 .. n
    BY Zenon
  <2> HIDE DEF I
  <2>2. 1 \in Int /\ n \in Int /\ 1 .. n \subseteq Int
    OBVIOUS
  <2>3. IsFiniteSet(1 .. n)
    BY <2>2, FS_Interval, Zenon
  <2> QED BY <2>1, <2>2, <2>3, FS_Subset
<1> HIDE DEF I
<1>12. Members(read) = {file[i] : i \in I}
  <2>1. read = Iv!At(file, I)
    BY <1>5, <1>10, Zenon
  <2> DEFINE at == Iv!At(file, I)
  <2>2. DOMAIN at = 1 .. Cardinality(I) /\ {at[k] : k \in 1 .. Cardinality(I)} = {file[i] : i \in I}
    BY <1>11, AtLists
  <2> HIDE DEF at
  <2>3. read = at
    BY <2>1 DEF at
  <2> QED BY <2>2, <2>3 DEF Members
<1>13. IdsOf(read) = {atoms[i].id : i \in I}
  <2>1. IdsOf(read) = {x.id : x \in Members(read)}
    BY DEF IdsOf, Members
  <2>2. IdsOf(read) = {file[i].id : i \in I}
    BY <1>12, <2>1
  <2> QED BY <1>9, <1>11, <2>2
<1>14. {r.value : r \in Members(read)} = {atoms[i].value : i \in I}
  <2>1. {r.value : r \in Members(read)} = {file[i].value : i \in I}
    BY <1>12
  <2> QED BY <1>9, <1>11, <2>1
<1>15. \A i \in 1 .. n : i \in I <=> d(i) = yes
  BY DEF I
<1>16. \A j \in 1 .. n : j \in accepted <=> decisions[j] = yes
  BY DEF AcceptedAtoms, yes
<1>17. accepted \subseteq 1 .. n
  BY DEF AcceptedAtoms
<1> HIDE DEF accepted
<1>18. IdsOf(read) \subseteq {atoms[i].id : i \in accepted}
  <2>1. ASSUME NEW i \in I PROVE atoms[i].id \in {atoms[k].id : k \in accepted}
    <3>1. i \in 1 .. n
      BY <1>11
    <3>2. PICK j \in 1 .. n : atoms[j].id = atoms[i].id /\ d(i) = decisions[j]
      BY <1>3, <3>1, Zenon
    <3>3. j \in accepted
      BY <1>15, <1>16, <3>1, <3>2, Zenon
    <3> QED BY <3>2, <3>3, Zenon
  <2> QED BY <1>13, <2>1, Zenon
<1>19. IdsOf(report.eligible) \subseteq IdsOf(read)
  <2> DEFINE A == Admitted(reviewed, frame, TRUE)
  <2>1. Members(report.eligible) = {reviewed[i] : i \in A}
    BY <1>8, ReportIs DEF ReportOf, report
  <2>2. \A i \in A : i \in 1 .. n /\ reviewed[i].verification = yes
    BY <1>8, NotExcluded DEF Admitted, yes
  <2> HIDE DEF A
  <2>3. IdsOf(report.eligible) = {x.id : x \in Members(report.eligible)}
    BY DEF IdsOf, Members
  <2>4. IdsOf(report.eligible) = {reviewed[i].id : i \in A}
    BY <2>1, <2>3
  <2>5. \A i \in A : i \in I /\ reviewed[i].id = atoms[i].id
    BY <1>7, <2>2
  <2> QED BY <1>13, <2>4, <2>5
<1>20. ASSUME Cardinality(IdsOf(atoms)) = Len(atoms) PROVE I = accepted
  <2> DEFINE f == [i \in 1 .. n |-> atoms[i].id]
  <2>1. f \in Surjection(1 .. n, IdsOf(atoms))
    BY DEF IdsOf, Surjection
  <2>2. IsFiniteSet(1 .. n) /\ Cardinality(1 .. n) = n /\ Len(atoms) = n
    BY FS_Interval
  <2> HIDE DEF f
  <2>3. f \in Injection(1 .. n, IdsOf(atoms))
    BY <1>20, <2>1, <2>2, FS_Surjection
  <2>4. \A i, j \in 1 .. n : atoms[i].id = atoms[j].id => i = j
    BY <2>3 DEF f, Injection, IsInjective
  <2>5. \A i \in 1 .. n : d(i) = decisions[i]
    BY <1>3, <2>4
  <2> QED BY <1>11, <1>15, <1>16, <1>17, <2>5
<1>21. ReviewIsKept(atoms, decisions, read, report)
  BY <1>14, <1>18, <1>19, <1>20 DEF ReviewIsKept, accepted
<1> QED BY <1>21 DEF reviewed, file, read, report, rows

-----------------------------------------------------------------------------
(* The statistic of two arms whose items pair off.                           *)

(* Rounding down keeps a gap of whole numbers.                               *)
LEMMA QuotientsGrow ==
  ASSUME NEW n \in Nat \ {0}, NEW x \in Int, NEW y \in Int, NEW k \in Int, x >= y + n * k
  PROVE  x \div n \in Int /\ y \div n \in Int /\ x \div n >= y \div n + k
<1> DEFINE q == x \div n
           r == y \div n
<1>1. q \in Int /\ n * q <= x /\ x < n * q + n
  OBVIOUS
<1>2. r \in Int /\ n * r <= y /\ y < n * r + n
  OBVIOUS
<1> HIDE DEF q, r
<1>3. q >= r + k
  <2> SUFFICES ASSUME q < r + k PROVE FALSE
    BY <1>1, <1>2
  <2> DEFINE d == r + k - q
  <2>1. d \in Nat \ {0} /\ r + k = q + d
    BY <1>1, <1>2
  <2> HIDE DEF d
  <2>2. n * (r + k) = n * r + n * k /\ n * (q + d) = n * q + n * d
    BY <1>1, <1>2, <2>1
  <2>3. n * d >= n /\ n * d \in Int
    BY <2>1
  <2>4. n * r \in Int /\ n * k \in Int /\ n * q \in Int
    BY <1>1, <1>2
  <2>5. n * r + n * k = n * q + n * d
    BY <2>1, <2>2
  <2> QED BY <1>1, <1>2, <2>3, <2>4, <2>5
<1> QED BY <1>1, <1>2, <1>3 DEF q, r

LEMMA SumAtLeast ==
  ASSUME NEW S, IsFiniteSet(S), NEW F, NEW c \in Int, \A x \in S : F[x] \in Int /\ c <= F[x]
  PROVE  SumOver(F, S) \in Int /\ Cardinality(S) * c <= SumOver(F, S)
<1> DEFINE H == [x \in S |-> F[x] * (-1)]
<1>1. \A x \in S : F[x] \in Int /\ H[x] = F[x] * (-1)
  OBVIOUS
<1>2. \A x \in S : H[x] \in Int /\ H[x] <= -c
  BY <1>1
<1> HIDE DEF H
<1>3. SumOver(H, S) = SumOver(F, S) * (-1)
  BY <1>1, SumScales
<1>4. SumOver(H, S) \in Int /\ SumOver(H, S) <= Cardinality(S) * (-c)
  <2> DEFINE d == -c
  <2>1. d \in Int /\ \A x \in S : H[x] \in Int /\ H[x] <= d
    BY <1>2
  <2> HIDE DEF d
  <2>2. SumOver(H, S) \in Int /\ SumOver(H, S) <= Cardinality(S) * d
    BY <2>1, SumAtMost
  <2> QED BY <2>2 DEF d
<1>5. SumOver(F, S) \in Int
  BY <1>1, SumIsInt
<1>6. Cardinality(S) \in Nat /\ Cardinality(S) * (-c) = -(Cardinality(S) * c) /\ Cardinality(S) * c \in Int
  BY FS_CardinalityType
<1> QED BY <1>3, <1>4, <1>5, <1>6

(* The rows of a resample whose atom was transmitted.                        *)
On(items, rows) == {x \in rows : items[x[2]].t = 1}
Ys(items, rows) == [x \in On(items, rows) |-> items[x[2]].y]

LEMMA StatisticIs ==
  ASSUME NEW items, NEW rows
  PROVE  Rc!Statistic(items, rows) =
           IF On(items, rows) = {} THEN <<>>
           ELSE <<(12 * SumOver(Ys(items, rows), On(items, rows))) \div Cardinality(On(items, rows))>>
<1> DEFINE on == On(items, rows)
           ys == Ys(items, rows)
<1>1. Rc!SumFunction(ys) = SumOver(ys, on)
  <2>1. DOMAIN ys = on
    BY DEF Ys
  <2> HIDE DEF ys, on
  <2> QED BY <2>1, Zenon DEF Rc!SumFunction, Rc!SumFunctionOnSet, Rc!FoldFunctionOnSet, Rc!MapThenFoldSet,
                             SumOver, MapThenSumSet, MapThenFoldSet
<1>2. Rc!Cardinality(on) = Cardinality(on)
  BY Zenon DEF Rc!Cardinality, Cardinality
<1>3. Rc!Statistic(items, rows) = IF on = {} THEN <<>> ELSE <<(12 * Rc!SumFunction(ys)) \div Rc!Cardinality(on)>>
  BY Zenon DEF Rc!Statistic, Rc!Scale, On, Ys
<1> HIDE DEF on, ys
<1>4. Rc!Statistic(items, rows) = IF on = {} THEN <<>> ELSE <<(12 * SumOver(ys, on)) \div Cardinality(on)>>
  BY <1>1, <1>2, <1>3, Zenon
<1> QED BY <1>4 DEF on, ys

(* Items of one arm put beside those of the other, each at least c greater.   *)
Mirrors(a, b, pi, c) ==
  /\ pi \in [DOMAIN b -> DOMAIN a] /\ IsFiniteSet(DOMAIN b)
  /\ \A i, j \in DOMAIN b : pi[i] = pi[j] => i = j
  /\ \A j \in DOMAIN a : \E i \in DOMAIN b : pi[i] = j
  /\ \A i \in DOMAIN b : /\ a[pi[i]].doc = b[i].doc /\ a[pi[i]].t = b[i].t
                         /\ a[pi[i]].y \in Int /\ b[i].y \in Int /\ b[i].y + c <= a[pi[i]].y

RowsMatch(rowsA, rowsB, K, a, b, pi) ==
  /\ rowsA \subseteq K \X (DOMAIN a) /\ rowsB \subseteq K \X (DOMAIN b) /\ IsFiniteSet(rowsB)
  /\ \A k \in K : \A i \in DOMAIN b : <<k, pi[i]>> \in rowsA <=> <<k, i>> \in rowsB

(* One statistic is there when the other is, and at least d greater.         *)
Exceeds(x, y, d) ==
  \/ x = <<>> /\ y = <<>>
  \/ \E v, w \in Int : x = <<v>> /\ y = <<w>> /\ w + d <= v

LEMMA OnMatches ==
  ASSUME NEW a, NEW b, NEW pi, NEW c, Mirrors(a, b, pi, c), NEW K, NEW rowsA, NEW rowsB,
         RowsMatch(rowsA, rowsB, K, a, b, pi), NEW phi, phi = [x \in On(b, rowsB) |-> <<x[1], pi[x[2]]>>]
  PROVE  /\ IsFiniteSet(On(b, rowsB)) /\ phi \in Bijection(On(b, rowsB), On(a, rowsA))
         /\ \A x \in On(b, rowsB) : x[2] \in DOMAIN b /\ phi[x][2] = pi[x[2]]
<1> DEFINE B == On(b, rowsB)
           A == On(a, rowsA)
<1>1. B \in SUBSET rowsB /\ IsFiniteSet(rowsB)
  BY DEF On, RowsMatch
<1>2. IsFiniteSet(B)
  BY <1>1, FS_Subset
<1>3. ASSUME NEW x \in B
      PROVE  /\ x[1] \in K /\ x[2] \in DOMAIN b /\ x = <<x[1], x[2]>> /\ phi[x] = <<x[1], pi[x[2]]>>
             /\ phi[x] \in A
  <2>1. x \in rowsB /\ b[x[2]].t = 1
    BY DEF On
  <2>2. x[1] \in K /\ x[2] \in DOMAIN b /\ x = <<x[1], x[2]>>
    BY <2>1 DEF RowsMatch
  <2>3. <<x[1], pi[x[2]]>> \in rowsA
    BY <2>1, <2>2 DEF RowsMatch
  <2>4. a[pi[x[2]]].t = 1
    BY <2>1, <2>2 DEF Mirrors
  <2>5. <<x[1], pi[x[2]]>> \in A
    BY <2>3, <2>4 DEF On
  <2> QED BY <2>2, <2>5
<1>4. \A x, y \in B : phi[x] = phi[y] => x = y
  <2>1. ASSUME NEW x \in B, NEW y \in B, phi[x] = phi[y] PROVE x = y
    <3>1. x[1] = y[1] /\ pi[x[2]] = pi[y[2]]
      BY <1>3, <2>1
    <3>2. x[2] = y[2]
      BY <1>3, <3>1 DEF Mirrors
    <3>3. x = <<x[1], x[2]>> /\ y = <<y[1], y[2]>>
      BY <1>3
    <3> QED BY <3>1, <3>2, <3>3, Zenon
  <2> QED BY <2>1
<1>5. ASSUME NEW z \in A PROVE \E x \in B : phi[x] = z
  <2>1. z \in rowsA /\ a[z[2]].t = 1
    BY DEF On
  <2>2. z[1] \in K /\ z[2] \in DOMAIN a /\ z = <<z[1], z[2]>>
    BY <2>1 DEF RowsMatch
  <2>3. PICK i \in DOMAIN b : pi[i] = z[2]
    BY <2>2 DEF Mirrors
  <2> DEFINE x == <<z[1], i>>
  <2>4. x \in rowsB /\ x[2] = i /\ x[1] = z[1]
    BY <2>1, <2>2, <2>3 DEF RowsMatch
  <2>5. b[i].t = 1
    BY <2>1, <2>3 DEF Mirrors
  <2>6. x \in B
    BY <2>4, <2>5 DEF On
  <2>7. phi[x] = z
    BY <1>3, <2>2, <2>3, <2>4, <2>6
  <2> QED BY <2>6, <2>7
<1>6. phi \in [B -> A]
  BY <1>3
<1>7. phi \in Bijection(B, A)
  <2> HIDE DEF A, B
  <2>1. IsInjective(phi)
    <3>1. DOMAIN phi = B
      BY <1>6
    <3> QED BY <1>4, <3>1 DEF IsInjective
  <2>2. phi \in Injection(B, A)
    BY <1>6, <2>1 DEF Injection
  <2>3. phi \in Surjection(B, A)
    BY <1>5, <1>6, Zenon DEF Surjection
  <2> QED BY <2>2, <2>3 DEF Bijection
<1> QED BY <1>2, <1>3, <1>7

LEMMA StatisticMirrors ==
  ASSUME NEW a, NEW b, NEW pi, NEW c \in Int, Mirrors(a, b, pi, c), NEW K, NEW rowsA, NEW rowsB,
         RowsMatch(rowsA, rowsB, K, a, b, pi)
  PROVE  Exceeds(Rc!Statistic(a, rowsA), Rc!Statistic(b, rowsB), 12 * c)
<1> DEFINE B == On(b, rowsB)
           A == On(a, rowsA)
           phi == [x \in On(b, rowsB) |-> <<x[1], pi[x[2]]>>]
           FA == Ys(a, rowsA)
           FB == Ys(b, rowsB)
           G == [x \in B |-> FA[phi[x]]]
           H == [x \in B |-> G[x] - FB[x]]
           n == Cardinality(B)
<1>1. /\ IsFiniteSet(B) /\ phi \in Bijection(B, A)
      /\ \A x \in B : x[2] \in DOMAIN b /\ phi[x][2] = pi[x[2]]
  <2>1. phi = [x \in On(b, rowsB) |-> <<x[1], pi[x[2]]>>]
    OBVIOUS
  <2> HIDE DEF phi
  <2> QED BY <2>1, OnMatches
<1>2. /\ DOMAIN FB = B /\ \A x \in B : FB[x] = b[x[2]].y
      /\ DOMAIN FA = A /\ \A x \in A : FA[x] = a[x[2]].y
  BY DEF Ys
<1> HIDE DEF phi, A, B, FA, FB
<1>3. /\ phi \in [B -> A] /\ (\A x, y \in B : phi[x] = phi[y] => x = y)
      /\ {phi[x] : x \in B} = A
  <2>1. phi \in Injection(B, A) /\ phi \in Surjection(B, A)
    BY <1>1 DEF Bijection
  <2>2. phi \in [B -> A] /\ IsInjective(phi)
    BY <2>1 DEF Injection
  <2>3. \A x, y \in B : phi[x] = phi[y] => x = y
    <3>1. DOMAIN phi = B
      BY <2>2
    <3> QED BY <2>2, <3>1 DEF IsInjective
  <2>4. \A z \in A : \E x \in B : phi[x] = z
    BY <2>1 DEF Surjection
  <2> QED BY <2>2, <2>3, <2>4
<1>4. Cardinality(A) = n /\ n \in Nat
  <2>1. ExistsBijection(B, A)
    BY <1>1 DEF ExistsBijection
  <2> QED BY <1>1, <2>1, FS_Bijection, FS_CardinalityType
<1>5. ASSUME NEW x \in B PROVE FB[x] \in Int /\ G[x] \in Int /\ FB[x] + c <= G[x] /\ G[x] = FA[phi[x]]
  <2>1. x[2] \in DOMAIN b /\ phi[x] \in A /\ phi[x][2] = pi[x[2]]
    BY <1>1, <1>3
  <2>2. FB[x] = b[x[2]].y /\ G[x] = FA[phi[x]] /\ FA[phi[x]] = a[pi[x[2]]].y
    BY <1>2, <2>1
  <2> QED BY <2>1, <2>2 DEF Mirrors
<1>6. SumOver(FA, A) = SumOver(G, B)
  <2>1. \A x \in B : G[x] \in Int /\ FA[phi[x]] = G[x]
    BY <1>5
  <2> HIDE DEF G
  <2>2. SumOver(FA, {phi[x] : x \in B}) = SumOver(G, B)
    BY <1>1, <1>3, <2>1, SumOfImage
  <2> QED BY <1>3, <2>2
<1>7. \A x \in B : FB[x] \in Int /\ H[x] \in Int /\ c <= H[x] /\ G[x] = FB[x] + H[x]
  BY <1>5
<1> HIDE DEF G, H
<1>8. SumOver(G, B) = SumOver(FB, B) + SumOver(H, B)
  BY <1>1, <1>7, SumOfSums
<1>9. SumOver(H, B) \in Int /\ n * c <= SumOver(H, B)
  BY <1>1, <1>7, SumAtLeast
<1>10. SumOver(FB, B) \in Int
  BY <1>1, <1>7, SumIsInt
<1> DEFINE x == SumOver(FA, A)
           y == SumOver(FB, B)
<1>11. x \in Int /\ y \in Int /\ y + n * c <= x
  <2>1. n * c \in Int
    BY <1>4
  <2> QED BY <1>4, <1>6, <1>8, <1>9, <1>10, <2>1
<1>12. /\ Rc!Statistic(a, rowsA) = IF A = {} THEN <<>> ELSE <<(12 * x) \div Cardinality(A)>>
       /\ Rc!Statistic(b, rowsB) = IF B = {} THEN <<>> ELSE <<(12 * y) \div n>>
  BY StatisticIs, Zenon DEF A, B, FA, FB
<1> HIDE DEF x, y, n
<1>13. A = {} <=> B = {}
  BY <1>3
<1>14. ASSUME B # {} PROVE \E v, w \in Int : /\ Rc!Statistic(a, rowsA) = <<v>> /\ Rc!Statistic(b, rowsB) = <<w>>
                                             /\ w + 12 * c <= v
  <2>1. n # 0
    BY <1>1, <1>14, FS_EmptySet DEF n
  <2>2. 12 * x >= 12 * y + n * (12 * c)
    <3>1. n * (12 * c) = 12 * (n * c) /\ n * c \in Int
      BY <1>4
    <3> QED BY <1>11, <3>1
  <2>3. 12 * x \in Int /\ 12 * y \in Int /\ 12 * c \in Int /\ n \in Nat \ {0}
    BY <1>4, <1>11, <2>1
  <2> DEFINE v == (12 * x) \div n
             w == (12 * y) \div n
  <2>4. v \in Int /\ w \in Int /\ v >= w + 12 * c
    <3> DEFINE x2 == 12 * x
               y2 == 12 * y
               c2 == 12 * c
    <3>1. x2 \in Int /\ y2 \in Int /\ c2 \in Int /\ x2 >= y2 + n * c2 /\ n \in Nat \ {0}
      BY <2>2, <2>3
    <3> HIDE DEF x2, y2, c2, v, w
    <3>2. x2 \div n \in Int /\ y2 \div n \in Int /\ x2 \div n >= y2 \div n + c2
      BY <3>1, QuotientsGrow
    <3> QED BY <3>2 DEF x2, y2, c2, v, w
  <2>5. Rc!Statistic(a, rowsA) = <<v>> /\ Rc!Statistic(b, rowsB) = <<w>>
    BY <1>4, <1>12, <1>13, <1>14, Zenon
  <2> HIDE DEF v, w
  <2> QED BY <2>3, <2>4, <2>5
<1> QED BY <1>12, <1>13, <1>14, Zenon DEF Exceeds

(* Every item once, and the items of the documents drawn.                    *)
LEMMA MirroredRows ==
  ASSUME NEW a, NEW b, NEW pi, NEW c, Mirrors(a, b, pi, c)
  PROVE  /\ RowsMatch(Rc!Once(a), Rc!Once(b), {0}, a, b, pi)
         /\ \A docs, draw : IsFiniteSet(DOMAIN draw) =>
              RowsMatch(Rc!Resampled(a, docs, draw), Rc!Resampled(b, docs, draw), DOMAIN draw, a, b, pi)
         /\ Rc!Docs(a) = Rc!Docs(b)
<1>0. pi \in [DOMAIN b -> DOMAIN a] /\ IsFiniteSet(DOMAIN b)
  BY DEF Mirrors
<1>1. RowsMatch(Rc!Once(a), Rc!Once(b), {0}, a, b, pi)
  <2>1. IsFiniteSet({0} \X (DOMAIN b))
    BY <1>0, FS_Singleton, FS_Product
  <2> QED BY <1>0, <2>1 DEF RowsMatch, Rc!Once
<1>2. ASSUME NEW docs, NEW draw, IsFiniteSet(DOMAIN draw)
      PROVE  RowsMatch(Rc!Resampled(a, docs, draw), Rc!Resampled(b, docs, draw), DOMAIN draw, a, b, pi)
  <2> DEFINE K == DOMAIN draw
             RA == Rc!Resampled(a, docs, draw)
             RB == Rc!Resampled(b, docs, draw)
  <2>1. /\ RA = {x \in K \X (DOMAIN a) : a[x[2]].doc = docs[draw[x[1]]]}
        /\ RB = {x \in K \X (DOMAIN b) : b[x[2]].doc = docs[draw[x[1]]]}
    BY Zenon DEF Rc!Resampled
  <2> HIDE DEF RA, RB
  <2>2. IsFiniteSet(K \X (DOMAIN b))
    BY <1>0, <1>2, FS_Product
  <2>3. RB \in SUBSET (K \X (DOMAIN b)) /\ RA \in SUBSET (K \X (DOMAIN a))
    BY <2>1
  <2>4. IsFiniteSet(RB)
    BY <2>2, <2>3, FS_Subset
  <2>5. ASSUME NEW k \in K, NEW i \in DOMAIN b PROVE <<k, pi[i]>> \in RA <=> <<k, i>> \in RB
    <3>1. a[pi[i]].doc = b[i].doc /\ pi[i] \in DOMAIN a
      BY DEF Mirrors
    <3> QED BY <2>1, <3>1
  <2>6. RowsMatch(RA, RB, K, a, b, pi)
    BY <2>3, <2>4, <2>5 DEF RowsMatch
  <2> QED BY <2>6 DEF RA, RB
<1>3. Rc!Docs(a) = Rc!Docs(b)
  <2>1. \A i \in DOMAIN b : pi[i] \in DOMAIN a /\ a[pi[i]].doc = b[i].doc
    BY <1>0 DEF Mirrors
  <2>2. \A j \in DOMAIN a : \E i \in DOMAIN b : a[j].doc = b[i].doc
    BY <2>1 DEF Mirrors
  <2> QED BY <2>1, <2>2 DEF Rc!Docs
<1> QED BY <1>1, <1>2, <1>3

-----------------------------------------------------------------------------
(* Intervals from the replicates that are kept.                              *)

(* What a statistic or a difference gives: a number, or nothing.             *)
Outcome(x) == x = <<>> \/ \E v \in Int : x = <<v>>

(* Replicates of one statistic, each a number or nothing.                    *)
Replicated(f) == IsFiniteSet(DOMAIN f) /\ \A r \in DOMAIN f : Outcome(f[r])
KeptOf(f) == {r \in DOMAIN f : f[r] # <<>>}
NumbersOf(f) == [r \in KeptOf(f) |-> f[r][1]]

LEMMA NothingIsNoNumber == \A v : <<v>> # <<>>
<1>1. \A v : Len(<<v>>) = 1 /\ Len(<<>>) = 0
  OBVIOUS
<1> QED BY <1>1

LEMMA NumbersAreSample ==
  ASSUME NEW f, Replicated(f), KeptOf(f) # {}
  PROVE  /\ IsSample(NumbersOf(f), Cardinality(KeptOf(f)))
         /\ DOMAIN NumbersOf(f) = KeptOf(f)
         /\ \A r \in KeptOf(f) : NumbersOf(f)[r] = f[r][1] /\ f[r] = <<f[r][1]>>
<1> DEFINE K == KeptOf(f)
           g == NumbersOf(f)
<1>1. K \in SUBSET (DOMAIN f) /\ IsFiniteSet(DOMAIN f)
  BY DEF KeptOf, Replicated
<1>2. IsFiniteSet(K) /\ Cardinality(K) \in Nat
  BY <1>1, FS_Subset, FS_CardinalityType
<1>3. DOMAIN g = K /\ \A r \in K : g[r] = f[r][1]
  BY DEF NumbersOf
<1>4. ASSUME NEW r \in K PROVE f[r][1] \in Int /\ f[r] = <<f[r][1]>>
  <2>1. PICK v \in Int : f[r] = <<v>>
    BY DEF KeptOf, Replicated, Outcome
  <2> QED BY <2>1
<1>5. Cardinality(K) # 0
  BY <1>2, FS_EmptySet
<1> HIDE DEF K, g
<1>6. Integers(g)
  BY <1>2, <1>3, <1>4 DEF Integers
<1>7. IsSample(g, Cardinality(K))
  BY <1>2, <1>3, <1>5, <1>6 DEF IsSample, K
<1> QED BY <1>3, <1>4, <1>7 DEF K, g

(* The percentiles of the records are those of every other rule.             *)
LEMMA SameNth == \A v, k : Rc!Nth(v, k) = Nth(v, k)
BY Zenon DEF Rc!Nth, Nth, Rc!Cardinality, Cardinality

LEMMA SamePercentile == \A v, n, p : Rc!Percentile(v, n, p) = Percentile(v, n, p)
<1> SUFFICES ASSUME NEW v, NEW n, NEW p PROVE Rc!Percentile(v, n, p) = Percentile(v, n, p)
  OBVIOUS
<1> DEFINE lo == (p * (n - 1)) \div 1000 + 1
           u == (p * (n - 1)) % 1000
           hi == IF (p * (n - 1)) \div 1000 + 2 <= n THEN (p * (n - 1)) \div 1000 + 2 ELSE n
<1>1. Rc!Percentile(v, n, p) = Rc!Nth(v, lo) * (1000 - u) + Rc!Nth(v, hi) * u
  BY Zenon DEF Rc!Percentile
<1>2. Percentile(v, n, p) = Nth(v, lo) * (1000 - u) + Nth(v, hi) * u
  BY Zenon DEF Percentile
<1>3. Rc!Nth(v, lo) = Nth(v, lo) /\ Rc!Nth(v, hi) = Nth(v, hi)
  BY SameNth, Zenon
<1> HIDE DEF lo, u, hi
<1> QED BY <1>1, <1>2, <1>3

(* The bounds that a list of replicates gives.                               *)
Bounds(i, f) ==
  LET n == Cardinality(KeptOf(f))
  IN  /\ i.lower = Percentile(NumbersOf(f), n, 25) /\ i.upper = Percentile(NumbersOf(f), n, 975)
      /\ i.replicates = n

LEMMA IntervalIs ==
  ASSUME NEW point, NEW f
  PROVE  /\ Rc!IntervalOf(point, f).raised = "" => point # <<>> /\ KeptOf(f) # {}
         /\ (point # <<>> /\ KeptOf(f) # {}) =>
              Rc!IntervalOf(point, f).raised = "" /\ Bounds(Rc!IntervalOf(point, f), f)
<1> DEFINE i == Rc!IntervalOf(point, f)
           kept == KeptOf(f)
           values == NumbersOf(f)
           n == Cardinality(kept)
           lo == Rc!Percentile(values, n, 25)
           hi == Rc!Percentile(values, n, 975)
           p == point[1]
           none == ""
<1>3. i = IF point = <<>> THEN [raised |-> "statistic"]
          ELSE IF kept = {} THEN [raised |-> "RuntimeError"]
          ELSE [raised |-> none, point |-> p, lower |-> lo, upper |-> hi, replicates |-> n]
  BY Zenon DEF Rc!IntervalOf, KeptOf, NumbersOf, Rc!Cardinality, Cardinality
<1>4. none # "statistic" /\ none # "RuntimeError"
  OBVIOUS
<1>5. none = ""
  OBVIOUS
<1> HIDE DEF i, kept, values, n, lo, hi, p, none
<1>6. point = <<>> => i.raised # none
  <2> SUFFICES ASSUME point = <<>> PROVE i.raised # none
    OBVIOUS
  <2>1. i = [raised |-> "statistic"]
    BY <1>3, Zenon
  <2>2. i.raised = "statistic"
    BY <2>1
  <2> QED BY <1>4, <2>2
<1>7. (point # <<>> /\ kept = {}) => i.raised # none
  <2> SUFFICES ASSUME point # <<>>, kept = {} PROVE i.raised # none
    OBVIOUS
  <2>1. i = [raised |-> "RuntimeError"]
    BY <1>3, Zenon
  <2>2. i.raised = "RuntimeError"
    BY <2>1
  <2> QED BY <1>4, <2>2
<1>8. (point # <<>> /\ kept # {}) => i.raised = none /\ i.lower = lo /\ i.upper = hi /\ i.replicates = n
  <2> SUFFICES ASSUME point # <<>>, kept # {}
               PROVE  i.raised = none /\ i.lower = lo /\ i.upper = hi /\ i.replicates = n
    OBVIOUS
  <2>1. i = [raised |-> none, point |-> p, lower |-> lo, upper |-> hi, replicates |-> n]
    BY <1>3, Zenon
  <2> QED BY <2>1
<1>9. (point # <<>> /\ kept # {}) => Bounds(i, f)
  BY <1>8, SamePercentile, Zenon DEF Bounds, lo, hi, n, values, kept
<1>10. i.raised = none => point # <<>> /\ kept # {}
  BY <1>6, <1>7
<1> QED BY <1>5, <1>8, <1>9, <1>10, Zenon DEF i, kept

(* Replicates that are each at least d greater, where they are there.        *)
Surpasses(f, g, d) ==
  /\ Replicated(f) /\ Replicated(g) /\ DOMAIN f = DOMAIN g /\ KeptOf(f) = KeptOf(g)
  /\ \A r \in KeptOf(g) : g[r][1] + d <= f[r][1]

LEMMA BoundsSurpass ==
  ASSUME NEW f, NEW g, NEW d \in Int, Surpasses(f, g, d), KeptOf(g) # {},
         NEW i, NEW j, Bounds(i, f), Bounds(j, g)
  PROVE  /\ i.lower \in Int /\ i.upper \in Int /\ j.lower \in Int /\ j.upper \in Int
         /\ j.lower + 1000 * d <= i.lower /\ j.upper + 1000 * d <= i.upper
         /\ j.lower + 1000 * d <= i.upper /\ i.replicates = j.replicates
<1> DEFINE n == Cardinality(KeptOf(g))
           a == NumbersOf(g)
           b == NumbersOf(f)
<1>2. KeptOf(f) = KeptOf(g) /\ Replicated(f) /\ Replicated(g)
  BY DEF Surpasses
<1>4. Greater(b, a, n, d)
  <2>1. IsSample(a, n) /\ DOMAIN a = KeptOf(g) /\ \A r \in KeptOf(g) : a[r] = g[r][1]
    BY <1>2, NumbersAreSample
  <2>2. IsSample(b, n) /\ DOMAIN b = KeptOf(g) /\ \A r \in KeptOf(g) : b[r] = f[r][1]
    BY <1>2, NumbersAreSample
  <2>3. \A r \in KeptOf(g) : g[r][1] + d <= f[r][1]
    BY DEF Surpasses
  <2> HIDE DEF n, a, b
  <2>4. \A r \in DOMAIN a : a[r] + d <= b[r]
    BY <2>1, <2>2, <2>3
  <2> QED BY <2>1, <2>2, <2>4 DEF Greater
<1>3. /\ i.lower = Percentile(b, n, 25) /\ i.upper = Percentile(b, n, 975) /\ i.replicates = n
      /\ j.lower = Percentile(a, n, 25) /\ j.upper = Percentile(a, n, 975) /\ j.replicates = n
  BY <1>2 DEF Bounds
<1> HIDE DEF n, a, b
<1> DEFINE p == 25
           q == 975
<1>8. InOrder(p, p)
  BY DEF InOrder
<1>9. InOrder(q, q)
  BY DEF InOrder
<1>10. InOrder(p, q)
  BY DEF InOrder
<1> HIDE DEF p, q
<1>5. GreaterAt(b, a, n, d, p, p)
  BY <1>4, <1>8, PercentileGrows
<1>6. GreaterAt(b, a, n, d, q, q)
  BY <1>4, <1>9, PercentileGrows
<1>7. GreaterAt(b, a, n, d, p, q)
  BY <1>4, <1>10, PercentileGrows
<1> QED BY <1>3, <1>5, <1>6, <1>7 DEF GreaterAt, p, q

Negates(g, f) ==
  /\ Replicated(f) /\ Replicated(g) /\ DOMAIN f = DOMAIN g /\ KeptOf(f) = KeptOf(g)
  /\ \A r \in KeptOf(f) : g[r][1] = -f[r][1]

LEMMA BoundsNegate ==
  ASSUME NEW f, NEW g, Negates(g, f), KeptOf(f) # {}, NEW i, NEW j, Bounds(i, f), Bounds(j, g)
  PROVE  j.lower = -i.upper /\ j.upper = -i.lower
<1> DEFINE n == Cardinality(KeptOf(f))
           a == NumbersOf(f)
           b == NumbersOf(g)
<1>2. KeptOf(f) = KeptOf(g) /\ Replicated(f) /\ Replicated(g)
  BY DEF Negates
<1>1. /\ IsSample(a, n) /\ IsSample(b, n) /\ DOMAIN a = DOMAIN b
      /\ \A r \in DOMAIN a : b[r] = -a[r]
  BY <1>2, NumbersAreSample DEF Negates
<1>3. /\ i.lower = Percentile(a, n, 25) /\ i.upper = Percentile(a, n, 975)
      /\ j.lower = Percentile(b, n, 25) /\ j.upper = Percentile(b, n, 975)
  BY <1>2 DEF Bounds
<1> HIDE DEF n, a, b
<1>4. 25 \in 0 .. 1000 /\ 975 \in 0 .. 1000 /\ 1000 - 25 = 975 /\ 1000 - 975 = 25
  OBVIOUS
<1>5. Percentile(b, n, 1000 - 25) = -Percentile(a, n, 25)
  BY <1>1, <1>4, PercentileNegates
<1>6. Percentile(b, n, 1000 - 975) = -Percentile(a, n, 975)
  BY <1>1, <1>4, PercentileNegates
<1> QED BY <1>3, <1>4, <1>5, <1>6

(* The difference of two statistics, both ways and of one with itself.       *)
LEMMA DifferencesOf ==
  ASSUME NEW x, NEW y, NEW d \in Int, Exceeds(x, y, d)
  PROVE  \/ /\ x = <<>> /\ y = <<>>
            /\ Rc!Difference(x, y) = <<>> /\ Rc!Difference(y, x) = <<>> /\ Rc!Difference(y, y) = <<>>
         \/ \E v, w \in Int :
              /\ x = <<v>> /\ y = <<w>> /\ d <= v - w
              /\ Rc!Difference(x, y) = <<v - w>> /\ Rc!Difference(y, x) = <<w - v>>
              /\ Rc!Difference(y, y) = <<0>>
<1>1. CASE x = <<>> /\ y = <<>>
  BY <1>1 DEF Rc!Difference
<1>2. CASE \E v, w \in Int : x = <<v>> /\ y = <<w>> /\ w + d <= v
  <2>1. PICK v \in Int, w \in Int : x = <<v>> /\ y = <<w>> /\ w + d <= v
    BY <1>2
  <2>2. x # <<>> /\ y # <<>> /\ x[1] = v /\ y[1] = w
    BY <2>1, NothingIsNoNumber
  <2>3. /\ Rc!Difference(x, y) = <<v - w>> /\ Rc!Difference(y, x) = <<w - v>>
        /\ Rc!Difference(y, y) = <<w - w>>
    BY <2>2 DEF Rc!Difference
  <2>4. d <= v - w /\ w - w = 0
    BY <2>1
  <2> QED BY <2>1, <2>3, <2>4
<1> QED BY <1>1, <1>2 DEF Exceeds

ArmGaps(X, Y, D) == [r \in D |-> Rc!Difference(X[r], Y[r])]

(* Replicate by replicate: which are kept, and how they compare.             *)
LEMMA PairedReplicates ==
  ASSUME NEW D, IsFiniteSet(D), NEW X, NEW Y, DOMAIN X = D, DOMAIN Y = D, NEW d \in Int,
         \A r \in D : Exceeds(X[r], Y[r], d)
  PROVE  LET G == ArmGaps(X, Y, D)
             L == ArmGaps(Y, X, D)
             S == ArmGaps(Y, Y, D)
         IN  /\ Surpasses(G, S, d) /\ Surpasses(G, G, 0) /\ Negates(L, G) /\ Surpasses(Y, Y, 0)
             /\ KeptOf(Y) = KeptOf(G) /\ KeptOf(L) = KeptOf(G) /\ KeptOf(S) = KeptOf(G)
             /\ Replicated(S) /\ \A r \in KeptOf(S) : S[r][1] = 0
<1> DEFINE G == ArmGaps(X, Y, D)
           L == ArmGaps(Y, X, D)
           S == ArmGaps(Y, Y, D)
<1>1. /\ DOMAIN G = D /\ DOMAIN L = D /\ DOMAIN S = D
      /\ \A r \in D : /\ G[r] = Rc!Difference(X[r], Y[r]) /\ L[r] = Rc!Difference(Y[r], X[r])
                      /\ S[r] = Rc!Difference(Y[r], Y[r])
  BY DEF ArmGaps
<1> HIDE DEF G, L, S
<1>2. ASSUME NEW r \in D
      PROVE  \/ G[r] = <<>> /\ L[r] = <<>> /\ S[r] = <<>> /\ Y[r] = <<>>
             \/ /\ G[r] # <<>> /\ L[r] # <<>> /\ S[r] # <<>> /\ Y[r] # <<>>
                /\ Outcome(G[r]) /\ Outcome(L[r]) /\ Outcome(S[r]) /\ Outcome(Y[r])
                /\ G[r][1] \in Int /\ L[r][1] = -G[r][1] /\ S[r][1] = 0 /\ d <= G[r][1] /\ Y[r][1] \in Int
  <2>1. \/ /\ X[r] = <<>> /\ Y[r] = <<>>
           /\ G[r] = <<>> /\ L[r] = <<>> /\ S[r] = <<>>
        \/ \E v, w \in Int :
              /\ X[r] = <<v>> /\ Y[r] = <<w>> /\ d <= v - w
              /\ G[r] = <<v - w>> /\ L[r] = <<w - v>> /\ S[r] = <<0>>
    <3>1. Exceeds(X[r], Y[r], d)
      OBVIOUS
    <3> DEFINE x == X[r]
               y == Y[r]
    <3>2. G[r] = Rc!Difference(x, y) /\ L[r] = Rc!Difference(y, x) /\ S[r] = Rc!Difference(y, y)
      BY <1>1
    <3> HIDE DEF x, y
    <3>3. \/ /\ x = <<>> /\ y = <<>>
             /\ Rc!Difference(x, y) = <<>> /\ Rc!Difference(y, x) = <<>> /\ Rc!Difference(y, y) = <<>>
          \/ \E v, w \in Int :
              /\ x = <<v>> /\ y = <<w>> /\ d <= v - w
              /\ Rc!Difference(x, y) = <<v - w>> /\ Rc!Difference(y, x) = <<w - v>>
              /\ Rc!Difference(y, y) = <<0>>
      BY <3>1, DifferencesOf DEF x, y
    <3> QED BY <3>2, <3>3, Zenon DEF x, y
  <2>2. CASE \E v, w \in Int :
              /\ X[r] = <<v>> /\ Y[r] = <<w>> /\ d <= v - w
              /\ G[r] = <<v - w>> /\ L[r] = <<w - v>> /\ S[r] = <<0>>
    <3>1. PICK v \in Int, w \in Int :
              /\ X[r] = <<v>> /\ Y[r] = <<w>> /\ d <= v - w
              /\ G[r] = <<v - w>> /\ L[r] = <<w - v>> /\ S[r] = <<0>>
      BY <2>2
    <3>2. G[r] # <<>> /\ L[r] # <<>> /\ S[r] # <<>> /\ Y[r] # <<>>
      BY <3>1, NothingIsNoNumber
    <3>3. G[r][1] = v - w /\ L[r][1] = w - v /\ S[r][1] = 0 /\ Y[r][1] = w
      BY <3>1
    <3>4. v - w \in Int /\ w - v \in Int /\ 0 \in Int /\ w - v = -(v - w)
      OBVIOUS
    <3>5. Outcome(G[r]) /\ Outcome(L[r]) /\ Outcome(S[r]) /\ Outcome(Y[r])
      BY <3>1, <3>4 DEF Outcome
    <3> QED BY <3>1, <3>2, <3>3, <3>4, <3>5
  <2> QED BY <2>1, <2>2
<1>3. /\ Replicated(G) /\ Replicated(L) /\ Replicated(S) /\ Replicated(Y)
  BY <1>1, <1>2 DEF Replicated, Outcome
<1>4. /\ KeptOf(Y) = {r \in D : Y[r] # <<>>} /\ KeptOf(G) = {r \in D : G[r] # <<>>}
      /\ KeptOf(L) = {r \in D : L[r] # <<>>} /\ KeptOf(S) = {r \in D : S[r] # <<>>}
  BY <1>1 DEF KeptOf
<1>5. KeptOf(Y) = KeptOf(G) /\ KeptOf(L) = KeptOf(G) /\ KeptOf(S) = KeptOf(G)
  BY <1>2, <1>4
<1>6. \A r \in KeptOf(G) : /\ r \in D /\ G[r][1] \in Int /\ L[r][1] = -G[r][1] /\ S[r][1] = 0
                           /\ d <= G[r][1] /\ Y[r][1] \in Int
  BY <1>2, <1>4
<1>7. Surpasses(G, S, d)
  <2>1. \A r \in KeptOf(S) : S[r][1] + d <= G[r][1]
    BY <1>5, <1>6
  <2> QED BY <1>1, <1>3, <1>5, <2>1 DEF Surpasses
<1>8. Surpasses(G, G, 0)
  <2>1. \A r \in KeptOf(G) : G[r][1] + 0 <= G[r][1]
    BY <1>6
  <2> QED BY <1>3, <2>1 DEF Surpasses
<1>9. Surpasses(Y, Y, 0)
  <2>1. \A r \in KeptOf(Y) : Y[r][1] + 0 <= Y[r][1]
    BY <1>5, <1>6
  <2> QED BY <1>3, <2>1 DEF Surpasses
<1>10. Negates(L, G)
  BY <1>1, <1>3, <1>5, <1>6 DEF Negates
<1> QED BY <1>3, <1>5, <1>6, <1>7, <1>8, <1>9, <1>10 DEF G, L, S

(* The replicates of one arm and of the other, over the same draws.          *)
LEMMA ReplicatesExceed ==
  ASSUME NEW a, NEW b, NEW pi, NEW c \in Int, Mirrors(a, b, pi, c), NEW draws,
         \A r \in DOMAIN draws : IsFiniteSet(DOMAIN draws[r])
  PROVE  /\ DOMAIN Rc!Replicates(a, draws) = DOMAIN draws /\ DOMAIN Rc!Replicates(b, draws) = DOMAIN draws
         /\ \A r \in DOMAIN draws :
              Exceeds(Rc!Replicates(a, draws)[r], Rc!Replicates(b, draws)[r], 12 * c)
         /\ Exceeds(Rc!Statistic(a, Rc!Once(a)), Rc!Statistic(b, Rc!Once(b)), 12 * c)
<1> DEFINE docs == Rc!Sorted(Rc!Docs(b))
<1>1. /\ RowsMatch(Rc!Once(a), Rc!Once(b), {0}, a, b, pi)
      /\ \A ds, draw : IsFiniteSet(DOMAIN draw) =>
           RowsMatch(Rc!Resampled(a, ds, draw), Rc!Resampled(b, ds, draw), DOMAIN draw, a, b, pi)
      /\ Rc!Docs(a) = Rc!Docs(b)
  BY MirroredRows
<1>2. /\ Rc!Replicates(a, draws) = [r \in DOMAIN draws |-> Rc!Statistic(a, Rc!Resampled(a, docs, draws[r]))]
      /\ Rc!Replicates(b, draws) = [r \in DOMAIN draws |-> Rc!Statistic(b, Rc!Resampled(b, docs, draws[r]))]
  BY <1>1, Zenon DEF Rc!Replicates
<1> HIDE DEF docs
<1>3. ASSUME NEW K, NEW ra, NEW rb, RowsMatch(ra, rb, K, a, b, pi)
      PROVE  Exceeds(Rc!Statistic(a, ra), Rc!Statistic(b, rb), 12 * c)
  BY <1>3, StatisticMirrors
<1>4. ASSUME NEW r \in DOMAIN draws
      PROVE  Exceeds(Rc!Statistic(a, Rc!Resampled(a, docs, draws[r])),
                     Rc!Statistic(b, Rc!Resampled(b, docs, draws[r])), 12 * c)
  BY <1>1, <1>3
<1>5. Exceeds(Rc!Statistic(a, Rc!Once(a)), Rc!Statistic(b, Rc!Once(b)), 12 * c)
  BY <1>1, <1>3
<1> QED BY <1>2, <1>4, <1>5

(* A call that gave an interval.                                             *)
Gave(i) == i.raised = ""

LEMMA PairedIs ==
  ASSUME NEW a, NEW b, Rc!Docs(a) = Rc!Docs(b), NEW draws,
         DOMAIN Rc!Replicates(a, draws) = DOMAIN draws, DOMAIN Rc!Replicates(b, draws) = DOMAIN draws
  PROVE  LET r == Rc!paired_cluster_bootstrap(a, b, draws)
         IN  /\ Gave(r) => a # <<>>
             /\ a # <<>> => r = Rc!IntervalOf(Rc!Difference(Rc!Statistic(a, Rc!Once(a)), Rc!Statistic(b, Rc!Once(b))),
                                              ArmGaps(Rc!Replicates(a, draws), Rc!Replicates(b, draws), DOMAIN draws))
<1> DEFINE r == Rc!paired_cluster_bootstrap(a, b, draws)
           i == Rc!IntervalOf(Rc!Difference(Rc!Statistic(a, Rc!Once(a)), Rc!Statistic(b, Rc!Once(b))),
                              ArmGaps(Rc!Replicates(a, draws), Rc!Replicates(b, draws), DOMAIN draws))
<1>1. r = IF a = <<>> \/ Rc!Docs(a) # Rc!Docs(b) THEN [raised |-> "ValueError"] ELSE i
  BY Zenon DEF Rc!paired_cluster_bootstrap, ArmGaps
<1> HIDE DEF r, i
<1>2. ASSUME a = <<>> PROVE ~Gave(r)
  <2>1. r = [raised |-> "ValueError"]
    BY <1>1, <1>2, Zenon
  <2> QED BY <2>1 DEF Gave
<1>3. a # <<>> => r = i
  BY <1>1, Zenon
<1> QED BY <1>2, <1>3 DEF r, i

LEMMA OneIs ==
  ASSUME NEW b, NEW draws, b # <<>>
  PROVE  Rc!cluster_bootstrap(b, draws) = Rc!IntervalOf(Rc!Statistic(b, Rc!Once(b)), Rc!Replicates(b, draws))
BY Zenon DEF Rc!cluster_bootstrap

LEMMA NoItemsNoStatistic ==
  ASSUME NEW b, Rc!Statistic(b, Rc!Once(b)) # <<>> PROVE b # <<>>
<1> SUFFICES ASSUME b = <<>> PROVE FALSE
  OBVIOUS
<1> DEFINE rows == Rc!Once(b)
<1>1. rows = {}
  <2>1. DOMAIN b = {}
    OBVIOUS
  <2> QED BY <2>1 DEF Rc!Once
<1> HIDE DEF rows
<1>2. On(b, rows) = {}
  BY <1>1 DEF On
<1>3. Rc!Statistic(b, rows) = <<>>
  BY <1>2, StatisticIs
<1> QED BY <1>3 DEF rows

(* What the intervals over one list of draws promise of two arms, where      *)
(* gain compares the better arm with the other, loss the other way round,    *)
(* self the other with itself, and one is the other's own.                   *)
ComparedArms(gain, loss, self, one, c) ==
  /\ self.lower = 0 /\ self.upper = 0
  /\ loss.lower = -gain.upper /\ loss.upper = -gain.lower
  /\ gain.lower \in Int /\ gain.upper \in Int
  /\ 12000 * c <= gain.lower /\ gain.lower <= gain.upper
  /\ one.lower <= one.upper /\ one.replicates = gain.replicates

(* paired_cluster_bootstrap and cluster_bootstrap (inference/): of two arms  *)
(* whose items pair off, each at least c better, in whatever order the rows  *)
(* come and whatever documents are drawn, the interval of the gain starts at *)
(* c or more (a twelve-thousandth is its unit), is not upside down, is the   *)
(* mirror image of the loss's, and keeps the replicates the arm's own keeps; *)
(* of an arm with itself it is zero.                                         *)
THEOREM PairedInterval ==
  ASSUME NEW a, NEW b, NEW pi, NEW c \in Int, Mirrors(a, b, pi, c),
         NEW draws, IsFiniteSet(DOMAIN draws), \A r \in DOMAIN draws : IsFiniteSet(DOMAIN draws[r]),
         Gave(Rc!paired_cluster_bootstrap(a, b, draws))
  PROVE  ComparedArms(Rc!paired_cluster_bootstrap(a, b, draws), Rc!paired_cluster_bootstrap(b, a, draws),
                Rc!paired_cluster_bootstrap(b, b, draws), Rc!cluster_bootstrap(b, draws), c)
<1> DEFINE gain == Rc!paired_cluster_bootstrap(a, b, draws)
           loss == Rc!paired_cluster_bootstrap(b, a, draws)
           self == Rc!paired_cluster_bootstrap(b, b, draws)
           one == Rc!cluster_bootstrap(b, draws)
           D == DOMAIN draws
           X == Rc!Replicates(a, draws)
           Y == Rc!Replicates(b, draws)
           x == Rc!Statistic(a, Rc!Once(a))
           y == Rc!Statistic(b, Rc!Once(b))
           d == 12 * c
           G == ArmGaps(X, Y, D)
           L == ArmGaps(Y, X, D)
           S == ArmGaps(Y, Y, D)
<1>1. /\ DOMAIN X = D /\ DOMAIN Y = D /\ \A r \in D : Exceeds(X[r], Y[r], d)
      /\ Exceeds(x, y, d)
  BY ReplicatesExceed
<1>2. Rc!Docs(a) = Rc!Docs(b)
  BY MirroredRows
<1>3. /\ Gave(gain) => a # <<>>
      /\ a # <<>> => gain = Rc!IntervalOf(Rc!Difference(x, y), G)
  BY <1>1, <1>2, PairedIs
<1>4. b # <<>> => loss = Rc!IntervalOf(Rc!Difference(y, x), L)
  BY <1>1, <1>2, PairedIs
<1>5. b # <<>> => self = Rc!IntervalOf(Rc!Difference(y, y), S)
  BY <1>1, <1>2, PairedIs
<1>6. b # <<>> => one = Rc!IntervalOf(y, Y)
  BY OneIs
<1>7. y # <<>> => b # <<>>
  BY NoItemsNoStatistic
<1>8. Gave(gain) /\ IsFiniteSet(D)
  OBVIOUS
<1>9. d \in Int /\ 1000 * d = 12000 * c
  OBVIOUS
<1> HIDE DEF gain, loss, self, one, D, X, Y, x, y, d
<1>10. /\ Surpasses(G, S, d) /\ Surpasses(G, G, 0) /\ Negates(L, G) /\ Surpasses(Y, Y, 0)
       /\ KeptOf(Y) = KeptOf(G) /\ KeptOf(L) = KeptOf(G) /\ KeptOf(S) = KeptOf(G)
       /\ Replicated(S) /\ \A r \in KeptOf(S) : S[r][1] = 0
  BY <1>1, <1>8, <1>9, PairedReplicates
<1> HIDE DEF G, L, S
<1>11. gain = Rc!IntervalOf(Rc!Difference(x, y), G)
  BY <1>3, <1>8
<1>12. Rc!Difference(x, y) # <<>> /\ KeptOf(G) # {} /\ Bounds(gain, G)
  BY <1>8, <1>11, IntervalIs, Zenon DEF Gave
<1>13. y # <<>> /\ Rc!Difference(y, x) # <<>> /\ Rc!Difference(y, y) # <<>>
  <2>1. \A v : <<v>> # <<>>
    BY NothingIsNoNumber
  <2>2. \/ /\ x = <<>> /\ y = <<>>
           /\ Rc!Difference(x, y) = <<>> /\ Rc!Difference(y, x) = <<>> /\ Rc!Difference(y, y) = <<>>
        \/ \E v, w \in Int :
              /\ x = <<v>> /\ y = <<w>> /\ d <= v - w
              /\ Rc!Difference(x, y) = <<v - w>> /\ Rc!Difference(y, x) = <<w - v>>
              /\ Rc!Difference(y, y) = <<0>>
    BY <1>1, <1>9, DifferencesOf
  <2> QED BY <1>12, <2>1, <2>2, Zenon
<1>14. Bounds(loss, L)
  BY <1>4, <1>7, <1>10, <1>12, <1>13, IntervalIs, Zenon
<1>15. Bounds(self, S)
  BY <1>5, <1>7, <1>10, <1>12, <1>13, IntervalIs, Zenon
<1>16. Bounds(one, Y)
  BY <1>6, <1>7, <1>10, <1>12, <1>13, IntervalIs, Zenon
<1>17. self.lower = 0 /\ self.upper = 0
  <2> DEFINE n == Cardinality(KeptOf(S))
             f == NumbersOf(S)
             p == 25
             q == 975
  <2>1. IsSample(f, n) /\ DOMAIN f = KeptOf(S) /\ \A r \in KeptOf(S) : f[r] = S[r][1]
    BY <1>10, <1>12, NumbersAreSample
  <2>2. self.lower = Percentile(f, n, p) /\ self.upper = Percentile(f, n, q)
    BY <1>15 DEF Bounds
  <2>3. p \in 0 .. 1000 /\ q \in 0 .. 1000
    OBVIOUS
  <2> HIDE DEF n, f, p, q
  <2>4. \A r \in DOMAIN f : f[r] = 0
    BY <1>10, <2>1
  <2>5. Percentile(f, n, p) = 0 /\ Percentile(f, n, q) = 0
    BY <2>1, <2>3, <2>4, ZeroPercentile
  <2> QED BY <2>2, <2>5
<1>18. self.lower + 1000 * d <= gain.lower /\ gain.lower \in Int /\ gain.upper \in Int
  BY <1>9, <1>10, <1>12, <1>15, BoundsSurpass
<1>19. gain.lower + 1000 * 0 <= gain.upper
  <2>1. 0 \in Int
    OBVIOUS
  <2> QED BY <1>10, <1>12, <2>1, BoundsSurpass
<1>20. loss.lower = -gain.upper /\ loss.upper = -gain.lower
  BY <1>10, <1>12, <1>14, BoundsNegate
<1>21. one.lower + 1000 * 0 <= one.upper /\ one.lower \in Int /\ one.upper \in Int
  <2>1. 0 \in Int
    OBVIOUS
  <2> QED BY <1>10, <1>12, <1>16, <2>1, BoundsSurpass
<1>22. one.replicates = gain.replicates
  BY <1>10, <1>12, <1>16 DEF Bounds
<1>23. 12000 * c <= gain.lower /\ gain.lower <= gain.upper /\ one.lower <= one.upper
  BY <1>9, <1>17, <1>18, <1>19, <1>21
<1> QED BY <1>17, <1>18, <1>20, <1>22, <1>23 DEF ComparedArms, gain, loss, self, one

=============================================================================
