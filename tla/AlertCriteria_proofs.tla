------------------------ MODULE AlertCriteria_proofs ------------------------
(***************************************************************************)
(* The two indexes that the loop over the sorted samples ends with mark    *)
(* off the samples of the window, for lists of every length, and of what   *)
(* they mark off the average is the sum, divided and rounded.              *)
(***************************************************************************)
EXTENDS AlertCriteria, FoldTheorems, SequenceTheorems

\* A list of records that have a time and a value, among other fields.
AreSamples(samples) ==
    \E S : samples \in Seq(S) /\ \A s \in S : s.time \in Int /\ s.value \in Int

LEMMA SamplesAreNumbers ==
    ASSUME NEW samples, AreSamples(samples)
    PROVE  /\ Len(samples) \in Nat /\ DOMAIN samples = 1..Len(samples)
           /\ \A i \in 1..Len(samples) : samples[i].time \in Int /\ samples[i].value \in Int
<1>1. PICK S : samples \in Seq(S) /\ \A s \in S : s.time \in Int /\ s.value \in Int
  BY DEF AreSamples
<1>2. Len(samples) \in Nat /\ DOMAIN samples = 1..Len(samples)
  BY <1>1
<1>3. \A i \in 1..Len(samples) : samples[i] \in S
  BY <1>1, ElementOfSeq
<1> QED BY <1>1, <1>2, <1>3

\* There is a first sample that is not before t, or all of them are.
LEMMA FirstIndex ==
    ASSUME NEW samples, AreSamples(samples), NEW t \in Int
    PROVE  LET i == IndexAtOrAfter(samples, t)
           IN  /\ i \in 1..(Len(samples) + 1)
               /\ i <= Len(samples) => t <= samples[i].time
               /\ \A j \in 1..(i - 1) : samples[j].time < t
<1> DEFINE P(i) == /\ i <= Len(samples) => t <= samples[i].time
                   /\ \A j \in 1..(i - 1) : samples[j].time < t
           N == {i \in 1..(Len(samples) + 1) : i <= Len(samples) => t <= samples[i].time}
<1>1. Len(samples) \in Nat /\ \A i \in 1..Len(samples) : samples[i].time \in Int
  BY SamplesAreNumbers
<1>2. N \subseteq Nat /\ N # {}
  <2>1. Len(samples) + 1 \in N
    BY <1>1
  <2> QED BY <2>1, <1>1
<1>3. PICK i \in N : \A j \in N : i <= j
  BY <1>2, LeastElement
<1>4. i \in 1..(Len(samples) + 1) /\ P(i)
  <2>1. ASSUME NEW j \in 1..(i - 1)
        PROVE  samples[j].time < t
    <3>1. j \notin N /\ j \in 1..Len(samples)
      BY <1>1, <1>3
    <3> QED BY <3>1, <1>1
  <2> QED BY <2>1, <1>3
<1>5. \E m \in 1..(Len(samples) + 1) : P(m)
  BY <1>4
<1> QED BY <1>5 DEF IndexAtOrAfter

\* The window holds the samples from its start up to its end, and of those at
\* its very end the first: getStartAndEndIndexesOfTimestamps.
THEOREM WindowIsCutOut ==
    ASSUME NEW samples, AreSamples(samples), Sorted(samples),
           NEW from \in Int, NEW to \in Int, from <= to,
           NEW i \in 1..Len(samples)
    PROVE  i \in WindowIndexes(samples, from, to) <=>
               /\ from <= samples[i].time
               /\ \/ samples[i].time < to
                  \/ /\ samples[i].time = to
                     /\ \A j \in 1..(i - 1) : samples[j].time < to
<1> DEFINE s == IndexAtOrAfter(samples, from)
           e == IndexAtOrAfter(samples, to)
<1>1. Len(samples) \in Nat /\ \A j \in 1..Len(samples) : samples[j].time \in Int
  BY SamplesAreNumbers
<1>2. \A j, k \in 1..Len(samples) : j <= k => samples[j].time <= samples[k].time
  <2>1. DOMAIN samples = 1..Len(samples)
    BY SamplesAreNumbers
  <2> QED BY <2>1, <1>1 DEF Sorted
<1>3. /\ s \in 1..(Len(samples) + 1)
      /\ s <= Len(samples) => from <= samples[s].time
      /\ \A j \in 1..(s - 1) : samples[j].time < from
  BY FirstIndex
<1>4. /\ e \in 1..(Len(samples) + 1)
      /\ e <= Len(samples) => to <= samples[e].time
      /\ \A j \in 1..(e - 1) : samples[j].time < to
  BY FirstIndex
<1> HIDE DEF s, e
<1>5. s <= i <=> from <= samples[i].time
  <2>1. CASE s <= i
    BY <2>1, <1>1, <1>2, <1>3
  <2>2. CASE i < s
    BY <2>2, <1>1, <1>3
  <2> QED BY <2>1, <2>2, <1>3
<1>6. i <= EndIndex(samples, to) <=>
        \/ samples[i].time < to
        \/ samples[i].time = to /\ \A j \in 1..(i - 1) : samples[j].time < to
  <2>1. EndIndex(samples, to) = IF e <= Len(samples) /\ samples[e].time = to THEN e ELSE e - 1
    BY DEF EndIndex, e
  <2>2. CASE i < e
    BY <2>1, <2>2, <1>1, <1>4
  <2>3. CASE i = e
    BY <2>1, <2>3, <1>1, <1>4
  <2>4. CASE e < i
    <3>1. e \in 1..(i - 1) /\ e <= Len(samples) /\ to <= samples[e].time
      BY <2>4, <1>1, <1>4
    <3>2. to <= samples[i].time /\ ~(samples[e].time < to)
      BY <3>1, <2>4, <1>1, <1>2
    <3> QED BY <3>1, <3>2, <2>1, <2>4, <1>1, <1>4
  <2> QED BY <2>2, <2>3, <2>4, <1>4
<1>7. EndIndex(samples, to) \in Int
  BY <1>4 DEF EndIndex, e
<1> QED BY <1>3, <1>5, <1>6, <1>7 DEF WindowIndexes, s

\* What the window is cut out of stays in its order.
LEMMA WindowElements ==
    ASSUME NEW samples, AreSamples(samples), NEW from \in Int, NEW to \in Int
    PROVE  LET window == WindowOf(samples, from, to)
               first == IndexAtOrAfter(samples, from)
               last == EndIndex(samples, to)
           IN  /\ AreSamples(window)
               /\ first \in 1..(Len(samples) + 1) /\ last \in 0..Len(samples)
               /\ Len(window) = IF first <= last THEN last - first + 1 ELSE 0
               /\ \A i \in 1..Len(window) : window[i] = samples[first + i - 1]
<1> DEFINE window == WindowOf(samples, from, to)
           first == IndexAtOrAfter(samples, from)
           last == EndIndex(samples, to)
<1>1. Len(samples) \in Nat
  BY SamplesAreNumbers
<1>2. first \in 1..(Len(samples) + 1)
  BY FirstIndex
<1>3. last \in 0..Len(samples)
  <2>1. IndexAtOrAfter(samples, to) \in 1..(Len(samples) + 1)
    BY FirstIndex
  <2> QED BY <1>1, <2>1 DEF EndIndex
<1>4. PICK S : samples \in Seq(S) /\ \A s \in S : s.time \in Int /\ s.value \in Int
  BY DEF AreSamples
<1> HIDE DEF first, last
<1>5. \A i \in first..last : samples[i] \in S
  BY <1>1, <1>2, <1>3, <1>4, ElementOfSeq
<1>6. window = SubSeq(samples, first, last)
  BY DEF WindowOf, first, last
<1>7. /\ SubSeq(samples, first, last) \in Seq(S)
      /\ Len(SubSeq(samples, first, last)) = IF first <= last THEN last - first + 1 ELSE 0
      /\ \A i \in 1..(last - first + 1) : SubSeq(samples, first, last)[i] = samples[first + i - 1]
  <2>1. first \in Int /\ last \in Int
    BY <1>1, <1>2, <1>3
  <2> QED BY <1>5, <2>1, SubSeqProperties
<1> HIDE DEF window
<1>8. AreSamples(window)
  BY <1>4, <1>6, <1>7 DEF AreSamples
<1>9. Len(window) = IF first <= last THEN last - first + 1 ELSE 0
  BY <1>6, <1>7
<1>10. \A i \in 1..Len(window) : window[i] = samples[first + i - 1]
  <2>1. \A i \in 1..Len(window) : i \in 1..(last - first + 1)
    BY <1>1, <1>2, <1>3, <1>9
  <2> QED BY <1>6, <1>7, <2>1
<1> QED BY <1>2, <1>3, <1>8, <1>9, <1>10 DEF window, first, last

-----------------------------------------------------------------------------
(* The average.                                                            *)

LEMMA TimesIsMonotonic ==
    ASSUME NEW n \in Nat, NEW x \in Int, NEW y \in Int, x <= y
    PROVE  n * x <= n * y
<1>1. n * (y - x) >= 0
  OBVIOUS
<1>2. n * (y - x) = n * y - n * x
  OBVIOUS
<1>3. n * x \in Int /\ n * y \in Int
  OBVIOUS
<1> QED BY <1>1, <1>2, <1>3

LEMMA QuotientAtLeast ==
    ASSUME NEW a \in Int, NEW b \in Nat \ {0}, NEW t \in Int
    PROVE  a \div b \in Int /\ (a \div b >= t <=> a >= b * t)
<1> DEFINE q == a \div b
<1>1. q \in Int /\ b * q <= a /\ a < b * q + b
  OBVIOUS
<1> HIDE DEF q
<1>2. CASE q >= t
  <2>1. b * t <= b * q
    BY <1>1, <1>2, TimesIsMonotonic
  <2>2. b * t \in Int /\ b * q \in Int
    BY <1>1
  <2> QED BY <1>1, <1>2, <2>1, <2>2 DEF q
<1>3. CASE q < t
  <2>1. b * (q + 1) <= b * t
    BY <1>1, <1>3, TimesIsMonotonic
  <2>2. b * (q + 1) = b * q + b
    BY <1>1
  <2>3. b * t \in Int /\ b * q \in Int
    BY <1>1
  <2> QED BY <1>1, <1>3, <2>1, <2>2, <2>3 DEF q
<1> QED BY <1>1, <1>2, <1>3

\* A quotient rounds to t or more if it is more than half a unit below t, or if
\* it is just that and positive.
THEOREM RoundedAtLeast ==
    ASSUME NEW sum \in Int, NEW n \in Nat \ {0}, NEW t \in Int
    PROVE  /\ RoundedQuotient(sum, n) \in Int
           /\ RoundedQuotient(sum, n) >= t <=>
                  \/ 2 * sum > n * (2 * t - 1)
                  \/ 2 * sum = n * (2 * t - 1) /\ 2 * sum > 0
<1> DEFINE half == n * (2 * t - 1)
<1>1. 2 * n \in Nat \ {0} /\ n * t \in Int /\ half \in Int /\ half = 2 * (n * t) - n
  OBVIOUS
<1>2. half # 0
  OBVIOUS
<1>3. CASE sum >= 0
  <2>1. 2 * sum + n \in Int
    OBVIOUS
  <2>2. RoundedQuotient(sum, n) = (2 * sum + n) \div (2 * n)
    BY <1>3 DEF RoundedQuotient
  <2>3. /\ RoundedQuotient(sum, n) \in Int
        /\ RoundedQuotient(sum, n) >= t <=> 2 * sum + n >= (2 * n) * t
    BY <1>1, <2>1, <2>2, QuotientAtLeast
  <2>4. (2 * n) * t = 2 * (n * t)
    OBVIOUS
  <2> HIDE DEF half
  <2>5. RoundedQuotient(sum, n) >= t <=> 2 * sum >= half
    BY <1>1, <2>3, <2>4
  <2>6. 2 * sum >= half <=> 2 * sum > half \/ (2 * sum = half /\ 2 * sum > 0)
    BY <1>1, <1>2, <1>3
  <2> QED BY <2>3, <2>5, <2>6 DEF half
<1>4. CASE sum < 0
  <2>1. n - 2 * sum \in Int /\ 1 - t \in Int
    OBVIOUS
  <2>2. RoundedQuotient(sum, n) = -((n - 2 * sum) \div (2 * n))
    BY <1>4 DEF RoundedQuotient
  <2>3. /\ (n - 2 * sum) \div (2 * n) \in Int
        /\ (n - 2 * sum) \div (2 * n) >= 1 - t <=> n - 2 * sum >= (2 * n) * (1 - t)
    BY <1>1, <2>1, QuotientAtLeast
  <2>4. (2 * n) * (1 - t) = 2 * n - 2 * (n * t)
    OBVIOUS
  <2>5. RoundedQuotient(sum, n) \in Int
    BY <2>2, <2>3
  <2> HIDE DEF half
  <2>6. RoundedQuotient(sum, n) >= t <=> ~(n - 2 * sum >= (2 * n) * (1 - t))
    BY <2>2, <2>3
  <2>7. RoundedQuotient(sum, n) >= t <=> 2 * sum > half
    BY <1>1, <2>4, <2>6
  <2>8. ~(2 * sum > 0)
    BY <1>4
  <2> QED BY <2>5, <2>7, <2>8 DEF half
<1> QED BY <1>3, <1>4

\* The sums of FiniteSetsExt take the element last that CHOOSE yields.
Picked(T) == CHOOSE x \in T : TRUE

IsPickedSum(it, S, v) ==
    it = [T \in SUBSET S |-> IF T = {} THEN 0 ELSE v[Picked(T)] + it[T \ {Picked(T)}]]

LEMMA PickedSum ==
    ASSUME NEW S, IsFiniteSet(S), S # {}, NEW v \in [S -> Int]
    PROVE  \E c : /\ \E it : IsSum(it, S, c, v)
                  /\ \A it : IsSum(it, S, c, v) <=> IsPickedSum(it, S, v)
<1> DEFINE c == [T \in SUBSET S |-> IF T = {} THEN Picked(S) ELSE Picked(T)]
<1>1. c \in Selections(S)
  BY DEF Selections, Picked
<1>2. \A it : IsSum(it, S, c, v) <=> IsPickedSum(it, S, v)
  <2> SUFFICES ASSUME NEW it
               PROVE  [T \in SUBSET S |-> IF T = {} THEN 0 ELSE v[Picked(T)] + it[T \ {Picked(T)}]]
                        = [T \in SUBSET S |-> IF T = {} THEN 0 ELSE v[c[T]] + it[T \ {c[T]}]]
    BY <1>1 DEF IsSum, IsPickedSum
  <2>1. \A T \in SUBSET S : T # {} => c[T] = Picked(T)
    OBVIOUS
  <2> HIDE DEF c
  <2> QED BY <2>1
<1> HIDE DEF c
<1>3. \E it : IsSum(it, S, c, v)
  BY <1>1, SumExists
<1> QED BY <1>2, <1>3

LEMMA SumOfSet ==
    ASSUME NEW S, IsFiniteSet(S), S # {}, \A s \in S : s.value \in Int
    PROVE  \E it, c : /\ IsSum(it, S, c, [s \in S |-> s.value])
                      /\ MapThenSumSet(LAMBDA s : s.value, S) = it[S]
<1> DEFINE v == [s \in S |-> s.value]
           Eq(it) == it = [T \in SUBSET S |->
                              IF T = {} THEN 0 ELSE Picked(T).value + it[T \ {Picked(T)}]]
<1>1. v \in [S -> Int]
  OBVIOUS
<1>2. \A it : IsPickedSum(it, S, v) <=> Eq(it)
  <2> SUFFICES ASSUME NEW it
               PROVE  [T \in SUBSET S |-> IF T = {} THEN 0 ELSE v[Picked(T)] + it[T \ {Picked(T)}]]
                        = [T \in SUBSET S |-> IF T = {} THEN 0 ELSE Picked(T).value + it[T \ {Picked(T)}]]
    <3> HIDE DEF v
    <3> QED BY DEF IsPickedSum
  <2>1. \A T \in SUBSET S : T # {} => v[Picked(T)] = Picked(T).value
    BY DEF Picked
  <2> HIDE DEF v
  <2> QED BY <2>1
<1> HIDE DEF v, Eq
<1>3. PICK c : /\ \E it : IsSum(it, S, c, v)
               /\ \A it : IsSum(it, S, c, v) <=> IsPickedSum(it, S, v)
  BY <1>1, PickedSum
<1>4. PICK jt : IsSum(jt, S, c, v) /\ jt = CHOOSE it : Eq(it)
  BY <1>2, <1>3
<1>5. MapThenSumSet(LAMBDA s : s.value, S) = jt[S]
  BY <1>4 DEF MapThenSumSet, MapThenFoldSet, Eq, Picked
<1> WITNESS jt, c
<1> QED BY <1>4, <1>5 DEF v

LEMMA SumOfList ==
    ASSUME NEW samples, AreSamples(samples), Len(samples) # 0
    PROVE  \E it, c :
              /\ IsSum(it, DOMAIN samples, c, [i \in DOMAIN samples |-> samples[i].value])
              /\ Average(samples) = RoundedQuotient(it[DOMAIN samples], Len(samples))
<1> DEFINE D == DOMAIN samples
           v == [i \in D |-> samples[i].value]
           Eq(it) == it = [T \in SUBSET D |->
                              IF T = {} THEN 0 ELSE samples[Picked(T)].value + it[T \ {Picked(T)}]]
<1>1. v \in [D -> Int] /\ IsFiniteSet(D) /\ D # {}
  <2>1. Len(samples) \in Nat /\ D = 1..Len(samples) /\ \A i \in D : samples[i].value \in Int
    BY SamplesAreNumbers
  <2>2. IsFiniteSet(1..Len(samples))
    BY <2>1, FS_Interval
  <2> QED BY <2>1, <2>2
<1> HIDE DEF D
<1>2. \A it : IsPickedSum(it, D, v) <=> Eq(it)
  <2> SUFFICES ASSUME NEW it
               PROVE  [T \in SUBSET D |-> IF T = {} THEN 0 ELSE v[Picked(T)] + it[T \ {Picked(T)}]]
                        = [T \in SUBSET D |->
                              IF T = {} THEN 0 ELSE samples[Picked(T)].value + it[T \ {Picked(T)}]]
    <3> HIDE DEF v
    <3> QED BY DEF IsPickedSum
  <2>1. \A T \in SUBSET D : T # {} => v[Picked(T)] = samples[Picked(T)].value
    BY DEF Picked
  <2> HIDE DEF v
  <2> QED BY <2>1
<1> HIDE DEF v, Eq
<1>3. PICK c : /\ \E it : IsSum(it, D, c, v)
               /\ \A it : IsSum(it, D, c, v) <=> IsPickedSum(it, D, v)
  BY <1>1, PickedSum
<1>4. PICK jt : IsSum(jt, D, c, v) /\ jt = CHOOSE it : Eq(it)
  BY <1>2, <1>3
<1>5. MapThenSumSet(LAMBDA i : samples[i].value, D) = jt[D]
  BY <1>4 DEF MapThenSumSet, MapThenFoldSet, Eq, Picked
<1>6. Average(samples) = RoundedQuotient(jt[D], Len(samples))
  BY <1>5 DEF Average, D
<1> WITNESS jt, c
<1> QED BY <1>4, <1>6 DEF D, v

\* The average of a list is that of the set of its samples.
THEOREM AverageOfSamples ==
    ASSUME NEW samples, AreSamples(samples), Len(samples) # 0,
           NEW S, samples \in Bijection(DOMAIN samples, S)
    PROVE  LET sum == MapThenSumSet(LAMBDA s : s.value, S)
           IN  sum \in Int /\ Average(samples) = RoundedQuotient(sum, Len(samples))
<1> DEFINE D == DOMAIN samples
           v == [i \in D |-> samples[i].value]
           w == [s \in S |-> s.value]
<1>1. Len(samples) \in Nat /\ D = 1..Len(samples) /\ \A i \in D : samples[i].value \in Int
  BY SamplesAreNumbers
<1>2. /\ samples \in [D -> S]
      /\ \A s \in S : \E i \in D : samples[i] = s
  BY DEF Bijection, Injection, Surjection
<1>3. IsFiniteSet(D) /\ IsFiniteSet(S)
  <2>1. IsFiniteSet(D)
    BY <1>1, FS_Interval
  <2> QED BY <2>1, FS_Surjection DEF Bijection
<1>4. S # {} /\ \A s \in S : s.value \in Int
  BY <1>1, <1>2
<1>5. PICK it, c : /\ IsSum(it, D, c, v)
                   /\ Average(samples) = RoundedQuotient(it[D], Len(samples))
  BY SumOfList
<1>6. PICK jt, d : /\ IsSum(jt, S, d, w)
                   /\ MapThenSumSet(LAMBDA s : s.value, S) = jt[S]
  BY <1>3, <1>4, SumOfSet
<1>7. \A i \in D : v[i] = w[samples[i]]
  BY <1>2
<1> HIDE DEF v, w, D
<1>8. it[D] = jt[S]
  BY <1>5, <1>6, <1>7, SumOfBijection DEF D
<1>9. jt[S] \in Int
  <2>1. jt \in [SUBSET S -> Int]
    BY <1>6, SumType
  <2> QED BY <2>1
<1> QED BY <1>5, <1>6, <1>8, <1>9

=============================================================================
