---------------------------- MODULE FoldTheorems ----------------------------
(***************************************************************************)
(* Inductions, folds and sorting in the form the provers can use: what is  *)
(* shown by induction is a set of numbers or of finite sets, and what is   *)
(* folded is a function, so that no theorem has an operator as a           *)
(* parameter.  The inductions rest on the fact that < is well-founded on   *)
(* the naturals.                                                           *)
(***************************************************************************)
EXTENDS Integers, FiniteSets, Functions, FiniteSetTheorems, WellFoundedInduction, TLAPS

(***************************************************************************)
(* it[T] folds the subset T of S with the operation o, starting from base; *)
(* of a set that is not empty it takes the element c[T] last.              *)
(***************************************************************************)
IsFold(it, S, base, c, o) ==
    it = [T \in SUBSET S |-> IF T = {} THEN base ELSE o[<<c[T], it[T \ {c[T]}]>>]]

Selections(S) == {c \in [SUBSET S -> S] : \A T \in SUBSET S : T # {} => c[T] \in T}

\* it[T] is the sum of v[x] over the x in T, for the subsets T of S.
IsSum(it, S, c, v) ==
    /\ IsFiniteSet(S)
    /\ c \in Selections(S)
    /\ v \in [S -> Int]
    /\ it = [T \in SUBSET S |-> IF T = {} THEN 0 ELSE v[c[T]] + it[T \ {c[T]}]]

-----------------------------------------------------------------------------
LEMMA LeastElement ==
    ASSUME NEW S \in SUBSET Nat, S # {}
    PROVE  \E m \in S : \A n \in S : m <= n
<1> DEFINE R == OpToRel(<, Nat)
<1>1. \E m \in S : \A n \in S : ~(<<n, m>> \in R)
  <2> HIDE DEF R
  <2>1. IsWellFoundedOn(R, Nat)
    BY NatLessThanWellFounded DEF R
  <2> QED BY <2>1, WFMin
<1>2. \A m, n \in Nat : n < m => <<n, m>> \in R
  BY DEF OpToRel
<1>3. PICK m \in S : \A n \in S : ~(<<n, m>> \in R)
  BY <1>1
<1>4. \A n \in S : ~(n < m)
  BY <1>2, <1>3
<1>5. \A n \in S : m <= n
  BY <1>4
<1> QED BY <1>5

\* Induction: the numbers a property holds of are all the numbers.
LEMMA Induction ==
    ASSUME NEW N \in SUBSET Nat, 0 \in N, \A n \in N : n + 1 \in N
    PROVE  N = Nat
<1> SUFFICES ASSUME Nat \ N # {} PROVE FALSE
  OBVIOUS
<1>1. PICK m \in Nat \ N : \A n \in Nat \ N : m <= n
  BY LeastElement
<1>2. m # 0 /\ m - 1 \in N
  BY <1>1
<1>3. (m - 1) + 1 = m
  BY <1>1
<1> QED BY <1>1, <1>2, <1>3

\* Induction over the subsets of a finite set: a property that the empty set
\* has, and each set from which any one element may be taken, all have.
LEMMA SubsetInduction ==
    ASSUME NEW S, IsFiniteSet(S), NEW F \in SUBSET SUBSET S, {} \in F,
           \A T \in SUBSET S : T # {} /\ (\A x \in T : T \ {x} \in F) => T \in F
    PROVE  F = SUBSET S
<1> DEFINE N == {n \in Nat : \A T \in SUBSET S : Cardinality(T) = n => T \in F}
<1>1. \A T \in SUBSET S : IsFiniteSet(T) /\ Cardinality(T) \in Nat
  BY FS_Subset, FS_CardinalityType
<1>2. 0 \in N
  BY <1>1, FS_EmptySet
<1>3. ASSUME NEW n \in N PROVE n + 1 \in N
  <2> SUFFICES ASSUME NEW T \in SUBSET S, Cardinality(T) = n + 1 PROVE T \in F
    OBVIOUS
  <2>1. T # {}
    BY FS_EmptySet
  <2>2. ASSUME NEW x \in T PROVE T \ {x} \in SUBSET S /\ Cardinality(T \ {x}) = n
    <3>1. IsFiniteSet(T)
      BY <1>1
    <3>2. Cardinality(T \ {x}) = Cardinality(T) - 1
      BY <3>1, FS_RemoveElement
    <3> QED BY <3>2
  <2> QED BY <2>1, <2>2
<1>4. N = Nat
  <2>1. N \in SUBSET Nat
    OBVIOUS
  <2> HIDE DEF N
  <2> QED BY <1>2, <1>3, <2>1, Induction
<1>5. ASSUME NEW T \in SUBSET S PROVE T \in F
  <2>1. Cardinality(T) \in N
    BY <1>1, <1>4
  <2> QED BY <2>1
<1> QED BY <1>5

-----------------------------------------------------------------------------
(* Folds.                                                                  *)

\* A fold of a finite set exists: the function that MapThenFoldSet chooses.
THEOREM FoldExists ==
    ASSUME NEW S, IsFiniteSet(S), NEW V, NEW base \in V,
           NEW c \in Selections(S), NEW o \in [S \X V -> V]
    PROVE  \E it \in [SUBSET S -> V] : IsFold(it, S, base, c, o)
<1> DEFINE Small(n) == {T \in SUBSET S : Cardinality(T) <= n}
           Folds(it, n) == \A T \in Small(n) :
               it[T] = IF T = {} THEN base ELSE o[<<c[T], it[T \ {c[T]}]>>]
           N == {n \in Nat : \E it \in [Small(n) -> V] : Folds(it, n)}
<1>1. \A T \in SUBSET S : IsFiniteSet(T) /\ Cardinality(T) \in Nat /\ Cardinality(T) <= Cardinality(S)
  BY FS_Subset, FS_CardinalityType
<1>2. \A T \in SUBSET S : T # {} => /\ c[T] \in T /\ c[T] \in S /\ T \ {c[T]} \in SUBSET S
                                    /\ Cardinality(T \ {c[T]}) = Cardinality(T) - 1
  BY <1>1, FS_RemoveElement DEF Selections
<1>3. 0 \in N
  <2>1. \A T \in Small(0) : T = {}
    BY <1>1, FS_EmptySet
  <2>2. [T \in Small(0) |-> base] \in [Small(0) -> V] /\ Folds([T \in Small(0) |-> base], 0)
    BY <2>1
  <2> QED BY <2>2
<1>4. ASSUME NEW n \in N PROVE n + 1 \in N
  <2>1. PICK it \in [Small(n) -> V] : Folds(it, n)
    OBVIOUS
  <2> DEFINE jt == [T \in Small(n + 1) |->
                       IF T = {} THEN base ELSE o[<<c[T], it[T \ {c[T]}]>>]]
  <2>2. \A T \in Small(n + 1) : T # {} => T \ {c[T]} \in Small(n)
    BY <1>1, <1>2
  <2>3. \A T \in Small(n) : T \in Small(n + 1) /\ jt[T] = it[T]
    BY <1>1, <2>1
  <2>4. jt \in [Small(n + 1) -> V]
    BY <1>2, <2>2
  <2>5. Folds(jt, n + 1)
    BY <2>2, <2>3
  <2>6. \E kt \in [Small(n + 1) -> V] : Folds(kt, n + 1)
    <3> HIDE DEF jt, Folds, Small
    <3> QED BY <2>4, <2>5
  <2>7. n + 1 \in Nat
    OBVIOUS
  <2> HIDE DEF jt, Folds, Small
  <2> QED BY <2>6, <2>7
<1>5. N = Nat
  <2>1. N \in SUBSET Nat
    OBVIOUS
  <2> HIDE DEF N
  <2> QED BY <1>3, <1>4, <2>1, Induction
<1>6. Cardinality(S) \in N
  BY <1>1, <1>5
<1>7. Small(Cardinality(S)) = SUBSET S
  BY <1>1
<1>8. PICK it \in [SUBSET S -> V] : Folds(it, Cardinality(S))
  BY <1>6, <1>7
<1>9. it = [T \in SUBSET S |-> IF T = {} THEN base ELSE o[<<c[T], it[T \ {c[T]}]>>]]
  BY <1>7, <1>8
<1> QED BY <1>9 DEF IsFold

\* What any such fold yields is of the type of what is folded.
LEMMA FoldType ==
    ASSUME NEW S, IsFiniteSet(S), NEW V, NEW base \in V,
           NEW c \in Selections(S), NEW o \in [S \X V -> V], NEW it, IsFold(it, S, base, c, o)
    PROVE  \A T \in SUBSET S : it[T] \in V
<1> DEFINE F == {T \in SUBSET S : it[T] \in V}
<1>1. \A T \in SUBSET S : it[T] = IF T = {} THEN base ELSE o[<<c[T], it[T \ {c[T]}]>>]
  BY DEF IsFold
<1>2. ASSUME NEW T \in SUBSET S, T # {}, \A x \in T : T \ {x} \in F
      PROVE  T \in F
  BY <1>1, <1>2 DEF Selections
<1>3. {} \in F /\ F \in SUBSET SUBSET S
  BY <1>1
<1>4. F = SUBSET S
  <2> HIDE DEF F
  <2> QED BY <1>2, <1>3, SubsetInduction
<1> QED BY <1>4

-----------------------------------------------------------------------------
(* Sums.                                                                   *)

LEMMA SumExists ==
    ASSUME NEW S, IsFiniteSet(S), NEW c \in Selections(S), NEW v \in [S -> Int]
    PROVE  \E it : IsSum(it, S, c, v)
<1> DEFINE o == [p \in S \X Int |-> v[p[1]] + p[2]]
<1>1. o \in [S \X Int -> Int]
  OBVIOUS
<1>2. PICK it \in [SUBSET S -> Int] : IsFold(it, S, 0, c, o)
  <2>1. 0 \in Int
    OBVIOUS
  <2> HIDE DEF o
  <2> QED BY <1>1, <2>1, FoldExists, Zenon
<1>3. ASSUME NEW T \in SUBSET S, T # {}
      PROVE  o[<<c[T], it[T \ {c[T]}]>>] = v[c[T]] + it[T \ {c[T]}]
  BY <1>3 DEF Selections
<1>4. it = [T \in SUBSET S |-> IF T = {} THEN 0 ELSE v[c[T]] + it[T \ {c[T]}]]
  <2>1. it = [T \in SUBSET S |-> IF T = {} THEN 0 ELSE o[<<c[T], it[T \ {c[T]}]>>]]
    BY <1>2 DEF IsFold
  <2> HIDE DEF o
  <2> QED BY <1>3, <2>1
<1> QED BY <1>4 DEF IsSum

LEMMA SumType ==
    ASSUME NEW S, NEW c, NEW v, NEW it, IsSum(it, S, c, v)
    PROVE  it \in [SUBSET S -> Int]
<1> DEFINE F == {T \in SUBSET S : it[T] \in Int}
<1>0. IsFiniteSet(S) /\ c \in Selections(S) /\ v \in [S -> Int]
  BY DEF IsSum
<1>1. it[{}] = 0 /\ \A T \in SUBSET S : T # {} => it[T] = v[c[T]] + it[T \ {c[T]}]
  BY DEF IsSum
<1>2. ASSUME NEW T \in SUBSET S, T # {}, \A x \in T : T \ {x} \in F
      PROVE  T \in F
  <2>1. c[T] \in T /\ c[T] \in S
    BY <1>0, <1>2 DEF Selections
  <2>2. it[T \ {c[T]}] \in Int /\ v[c[T]] \in Int
    BY <1>0, <1>2, <2>1
  <2>3. it[T] = v[c[T]] + it[T \ {c[T]}]
    BY <1>1, <1>2
  <2> QED BY <2>2, <2>3
<1>3. {} \in F /\ F \in SUBSET SUBSET S
  BY <1>1
<1>4. F = SUBSET S
  <2> HIDE DEF F
  <2> QED BY <1>0, <1>2, <1>3, SubsetInduction
<1>5. \A T \in SUBSET S : it[T] \in Int
  BY <1>4
<1>6. it = [T \in SUBSET S |-> it[T]]
  BY DEF IsSum
<1> QED BY <1>5, <1>6

\* A sum does not depend on the element that is taken last.
LEMMA SumOfAny ==
    ASSUME NEW S, NEW c, NEW v, NEW it, IsSum(it, S, c, v)
    PROVE  \A T \in SUBSET S : \A x \in T : it[T] = v[x] + it[T \ {x}]
<1> DEFINE F == {U \in SUBSET S : \A y \in U : it[U] = v[y] + it[U \ {y}]}
<1>0. IsFiniteSet(S) /\ c \in Selections(S) /\ v \in [S -> Int]
  BY DEF IsSum
<1>1. it \in [SUBSET S -> Int]
  BY SumType
<1>2. \A U \in SUBSET S : U # {} => it[U] = v[c[U]] + it[U \ {c[U]}] /\ c[U] \in U
  BY DEF IsSum, Selections
<1>3. ASSUME NEW U \in SUBSET S, U # {}, \A y \in U : U \ {y} \in F
      PROVE  U \in F
  <2> SUFFICES ASSUME NEW y \in U, y # c[U] PROVE it[U] = v[y] + it[U \ {y}]
    BY <1>2, <1>3
  <2>1. it[U \ {c[U]}] = v[y] + it[(U \ {c[U]}) \ {y}]
    BY <1>2, <1>3
  <2>2. it[U \ {y}] = v[c[U]] + it[(U \ {y}) \ {c[U]}]
    BY <1>2, <1>3
  <2>3. (U \ {c[U]}) \ {y} = (U \ {y}) \ {c[U]} /\ (U \ {y}) \ {c[U]} \in SUBSET S
    OBVIOUS
  <2>4. v[y] \in Int /\ v[c[U]] \in Int /\ it[(U \ {y}) \ {c[U]}] \in Int
    BY <1>0, <1>1, <1>2, <1>3, <2>3
  <2>5. it[U] = v[c[U]] + it[U \ {c[U]}]
    BY <1>2, <1>3
  <2>6. PICK rest \in Int : /\ it[U \ {c[U]}] = v[y] + rest
                           /\ it[U \ {y}] = v[c[U]] + rest
    BY <2>1, <2>2, <2>3, <2>4
  <2>7. it[U] = v[c[U]] + (v[y] + rest)
    BY <2>5, <2>6
  <2> QED BY <2>4, <2>6, <2>7
<1>4. {} \in F /\ F \in SUBSET SUBSET S
  OBVIOUS
<1>5. F = SUBSET S
  <2> HIDE DEF F
  <2> QED BY <1>0, <1>3, <1>4, SubsetInduction
<1> QED BY <1>5

\* Nor on the names of the elements.
THEOREM SumOfBijection ==
    ASSUME NEW S, NEW c, NEW v, NEW it, IsSum(it, S, c, v),
           NEW R, NEW d, NEW w, NEW jt, IsSum(jt, R, d, w),
           NEW b \in Bijection(S, R), \A x \in S : v[x] = w[b[x]]
    PROVE  it[S] = jt[R]
<1> DEFINE Im(U) == {b[x] : x \in U}
           F == {U \in SUBSET S : it[U] = jt[Im(U)]}
<1>1. /\ b \in [S -> R]
      /\ \A x, y \in S : b[x] = b[y] => x = y
      /\ \A y \in R : \E x \in S : b[x] = y
  BY DEF Bijection, Injection, Surjection, IsInjective
<1>2. {} \in F /\ F \in SUBSET SUBSET S
  <2>1. it[{}] = 0 /\ jt[{}] = 0
    BY DEF IsSum
  <2>2. Im({}) = {}
    OBVIOUS
  <2> QED BY <2>1, <2>2
<1>3. ASSUME NEW U \in SUBSET S, U # {}, \A x \in U : U \ {x} \in F
      PROVE  U \in F
  <2>1. PICK x \in U : TRUE
    BY <1>3
  <2>2. Im(U) \in SUBSET R /\ b[x] \in Im(U)
    BY <1>1, <2>1
  <2>3. Im(U \ {x}) = Im(U) \ {b[x]}
    BY <1>1, <2>1
  <2>4. it[U] = v[x] + it[U \ {x}]
    BY <2>1, SumOfAny
  <2>5. jt[Im(U)] = w[b[x]] + jt[Im(U) \ {b[x]}]
    <3> HIDE DEF Im
    <3> QED BY <2>2, SumOfAny
  <2>6. it[U \ {x}] = jt[Im(U \ {x})]
    BY <1>3, <2>1
  <2> HIDE DEF Im
  <2> QED BY <2>1, <2>3, <2>4, <2>5, <2>6 DEF F
<1>4. F = SUBSET S
  <2> HIDE DEF F
  <2>1. IsFiniteSet(S)
    BY DEF IsSum
  <2> QED BY <1>2, <1>3, <2>1, SubsetInduction
<1>5. Im(S) = R
  BY <1>1
<1> QED BY <1>4, <1>5

-----------------------------------------------------------------------------
(* Sorting.                                                                *)

\* The elements of a finite set can be listed in a strict total order: each at
\* the place that the number of those before it gives.
THEOREM SortedListExists ==
    ASSUME NEW S, IsFiniteSet(S), NEW R \in SUBSET (S \X S),
           \A x \in S : <<x, x>> \notin R,
           \A x, y, z \in S : <<x, y>> \in R /\ <<y, z>> \in R => <<x, z>> \in R,
           \A x, y \in S : x = y \/ <<x, y>> \in R \/ <<y, x>> \in R
    PROVE  \E list \in [1..Cardinality(S) -> S] :
               \A i, j \in DOMAIN list : i < j => <<list[i], list[j]>> \in R
<1> DEFINE n == Cardinality(S)
           upTo(x) == {y \in S : y = x \/ <<y, x>> \in R}
           place == [x \in S |-> Cardinality(upTo(x))]
<1>1. n \in Nat /\ IsFiniteSet(1..n) /\ Cardinality(1..n) = n
  BY FS_CardinalityType, FS_Interval
<1>2. ASSUME NEW x \in S
      PROVE  IsFiniteSet(upTo(x)) /\ Cardinality(upTo(x)) \in 1..n
  <2>1. upTo(x) \in SUBSET S /\ upTo(x) # {}
    OBVIOUS
  <2> HIDE DEF upTo
  <2>2. IsFiniteSet(upTo(x)) /\ Cardinality(upTo(x)) <= n
    BY <2>1, FS_Subset
  <2>3. Cardinality(upTo(x)) \in Nat /\ Cardinality(upTo(x)) # 0
    BY <2>1, <2>2, FS_CardinalityType, FS_EmptySet
  <2> QED BY <1>1, <2>2, <2>3
<1>3. place \in [S -> 1..n]
  <2> HIDE DEF upTo, n
  <2> QED BY <1>2
<1>4. ASSUME NEW x \in S, NEW y \in S, <<x, y>> \in R PROVE place[x] < place[y]
  <2>1. upTo(x) \in SUBSET upTo(y) /\ y \notin upTo(x) /\ y \in upTo(y)
    BY <1>4
  <2>2. place[x] = Cardinality(upTo(x)) /\ place[y] = Cardinality(upTo(y))
    OBVIOUS
  <2> HIDE DEF upTo, place
  <2>3. Cardinality(upTo(x)) <= Cardinality(upTo(y)) /\ Cardinality(upTo(x)) # Cardinality(upTo(y))
    BY <1>2, <2>1, FS_Subset
  <2>4. place[x] \in Int /\ place[y] \in Int
    BY <1>1, <1>3
  <2> QED BY <2>2, <2>3, <2>4
<1> HIDE DEF place
<1>5. place \in Injection(S, 1..n)
  <2>1. \A x, y \in S : place[x] \in Int /\ place[y] \in Int
    BY <1>3
  <2>2. ASSUME NEW x \in S, NEW y \in S, place[x] = place[y] PROVE x = y
    <3>1. ~(place[x] < place[y]) /\ ~(place[y] < place[x])
      BY <2>1, <2>2
    <3> QED BY <1>4, <3>1
  <2> QED BY <1>3, <2>2 DEF Injection, IsInjective
<1>6. place \in Surjection(S, 1..n)
  BY <1>1, <1>5, FS_Injection
<1>7. \A i \in 1..n : \E x \in S : place[x] = i
  BY <1>6 DEF Surjection
<1> DEFINE list == [i \in 1..n |-> CHOOSE x \in S : place[x] = i]
<1>8. \A i \in 1..n : list[i] \in S /\ place[list[i]] = i
  BY <1>7
<1>9. ASSUME NEW i \in 1..n, NEW j \in 1..n, i < j PROVE <<list[i], list[j]>> \in R
  <2> HIDE DEF list
  <2>1. list[i] \in S /\ list[j] \in S /\ place[list[i]] = i /\ place[list[j]] = j
    BY <1>8
  <2>2. list[i] # list[j] /\ ~(place[list[j]] < place[list[i]])
    BY <1>1, <1>9, <2>1
  <2>3. <<list[j], list[i]>> \notin R
    BY <1>4, <2>1, <2>2
  <2> QED BY <2>1, <2>2, <2>3
<1>10. list \in [1..n -> S] /\ DOMAIN list = 1..n
  BY <1>8
<1> HIDE DEF list
<1> QED BY <1>9, <1>10

=============================================================================
