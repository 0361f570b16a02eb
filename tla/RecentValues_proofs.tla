------------------------- MODULE RecentValues_proofs -------------------------
(***************************************************************************)
(* For every number of keys and alerts and all criteria: the cleanup never *)
(* removes a value that an alert may still be judged by; a run judges each *)
(* level by every value that was owed to it when it got the lock; and what *)
(* a level is judged by means what its criterion says, for every operator  *)
(* and combination.                                                        *)
(***************************************************************************)
EXTENDS RecentValues, AlertCriteria_proofs

\* What an alert is owed belongs to a key that has a list, that the alert needs
\* and that a cleanup under way has seen, or is still to see, it need.
OwedIsNeeded ==
    \A a \in Alerts, k \in Keys : owed[a][k] # {} => CountsOn(a, k) /\ k \in listed

CleanupStarted == cleanup.pc = "locked" => cleanup.start <= now

RetainedInv == TypeOK /\ OwedIsNeeded /\ CleanupStarted /\ ValuesRetained

-----------------------------------------------------------------------------
USE DEF Levels

LEMMA WindowIsNumber ==
    ASSUME NEW a \in Alerts, NEW l \in Levels
    PROVE  Criteria[a][l].window \in Nat
BY CriteriaAssumption DEF Criterion

LEMMA LongestIsLongest ==
    ASSUME NEW a \in Alerts
    PROVE  /\ LongestWindowDuration(a) \in Nat
           /\ \A l \in Levels : Criteria[a][l].window <= LongestWindowDuration(a)
<1>1. Criteria[a]["caution"].window \in Nat /\ Criteria[a]["danger"].window \in Nat
  BY WindowIsNumber
<1> QED BY <1>1 DEF LongestWindowDuration

LEMMA TypeInit == Init => TypeOK
BY DEF Init, TypeOK, Run, Cleanup, NoAlerts

LEMMA TypeStep == TypeOK /\ [Next]_vars => TypeOK'
<1> SUFFICES ASSUME TypeOK, [Next]_vars PROVE TypeOK'
  OBVIOUS
<1> USE DEF TypeOK
<1>1. CASE UNCHANGED vars
  BY <1>1 DEF vars, settings
<1>2. CASE Tick
  BY <1>2, BoundsAssumption DEF Tick, settings
<1>3. ASSUME NEW k \in Keys, NEW d \in 0..Skew, NEW v \in Values, Put(k, now - d, v)
      PROVE  TypeOK'
  <2> DEFINE sample == [time |-> now - d, value |-> v, n |-> arrivals]
  <2>1. now - d \in Int
    BY ValuesAssumption
  <2>2. sample \in Sample
    BY <2>1 DEF Sample
  <2>3. values' \in [Keys -> SUBSET Sample] /\ arrivals' \in Nat
    BY <1>3, <2>2 DEF Put
  <2>4. owed' \in [Alerts -> [Keys -> SUBSET Sample]]
    <3>1. \A a \in Alerts : [owed[a] EXCEPT ![k] = @ \cup {sample}] \in [Keys -> SUBSET Sample]
      BY <2>2
    <3>2. owed' = [a \in Alerts |-> IF CountsOn(a, k)
                                    THEN [owed[a] EXCEPT ![k] = @ \cup {sample}]
                                    ELSE owed[a]]
      BY <1>3 DEF Put
    <3> HIDE DEF sample
    <3> QED BY <3>1, <3>2
  <2> QED BY <1>3, <2>3, <2>4 DEF Put, settings
<1>4. ASSUME Edit, enabled' \in SUBSET Alerts, associated' \in SUBSET Keys,
             suspended' \in SUBSET Keys
      PROVE  TypeOK'
  BY <1>4 DEF Edit
<1>5. ASSUME NEW a \in Alerts, SetEnabled(a)
      PROVE  TypeOK'
  BY <1>4, <1>5 DEF SetEnabled
<1>6. ASSUME NEW k \in Keys, SetSuspended(k)
      PROVE  TypeOK'
  BY <1>4, <1>6 DEF SetSuspended
<1>7. ASSUME NEW k \in Keys, SetAssociated(k)
      PROVE  TypeOK'
  BY <1>4, <1>7 DEF SetAssociated
<1>8. CASE RunBegin
  BY <1>8 DEF RunBegin, Run, settings
<1>9. CASE RunLock
  BY <1>9 DEF RunLock, Run, settings
<1>10. ASSUME NEW a \in Alerts, NEW k \in Keys, Evaluate(a, k)
       PROVE  TypeOK'
  <2> DEFINE judged == [l \in Levels |->
                IF Needs(a, k) /\ Result(a, l, k) # {} THEN active[a][l] \cup {k} ELSE active[a][l]]
  <2>1. judged \in [Levels -> SUBSET Keys]
    OBVIOUS
  <2>2. active' = [active EXCEPT ![a] = judged]
    BY <1>10 DEF Evaluate
  <2>3. active' \in [Alerts -> [Levels -> SUBSET Keys]]
    <3> HIDE DEF judged
    <3> QED BY <2>1, <2>2
  <2>4. run' \in Run
    BY <1>10 DEF Evaluate, Run
  <2> QED BY <1>10, <2>3, <2>4 DEF Evaluate, settings
<1>11. CASE RunEnd
  BY <1>11 DEF RunEnd, Run, settings
<1>12. CASE CleanupBegin
  BY <1>12 DEF CleanupBegin, Cleanup, NoAlerts, settings
<1>13. ASSUME NEW k \in Keys, Trim(k)
       PROVE  TypeOK'
  <2>1. values' \in [Keys -> SUBSET Sample]
    BY <1>13 DEF Trim
  <2>2. cleanup' \in Cleanup
    BY <1>13 DEF Trim, Cleanup
  <2> QED BY <1>13, <2>1, <2>2 DEF Trim, settings
<1>14. CASE CleanupEnd
  BY <1>14 DEF CleanupEnd, Cleanup, NoAlerts, settings
<1>15. ASSUME NEW a \in Alerts, LookUp(a)
       PROVE  TypeOK'
  <2>1. cleanup' \in Cleanup
    BY <1>15 DEF LookUp, Cleanup
  <2> QED BY <1>15, <2>1 DEF LookUp, settings
<1> QED
  BY <1>15, <1>1, <1>2, <1>3, <1>5, <1>6, <1>7, <1>8, <1>9, <1>10, <1>11, <1>12, <1>13, <1>14
  DEF Next, AlertRoutine, CleanupRoutine

\* Types are kept by every operation.
THEOREM ValuesTypeCorrect == Spec => []TypeOK
BY TypeInit, TypeStep, PTL DEF Spec

-----------------------------------------------------------------------------
LEMMA RetainedInit == Init => RetainedInv
<1> SUFFICES ASSUME Init PROVE RetainedInv
  OBVIOUS
<1>1. \A a \in Alerts, k \in Keys : owed[a][k] = {}
  BY DEF Init
<1> QED BY <1>1, TypeInit DEF RetainedInv, OwedIsNeeded, CleanupStarted, ValuesRetained, Init

\* An edit takes away what is owed for keys that are needed no longer.
LEMMA EditKeeps ==
    ASSUME RetainedInv, Edit, TypeOK'
    PROVE  RetainedInv'
<1> USE DEF RetainedInv, TypeOK
<1>1. \A a \in Alerts, k \in Keys : /\ owed'[a][k] \subseteq owed[a][k]
                                    /\ owed'[a][k] # {} => Needs(a, k)'
  BY DEF Edit
<1>2. OwedIsNeeded'
  BY <1>1 DEF OwedIsNeeded, CountsOn, Edit
<1>3. ValuesRetained'
  BY <1>1 DEF ValuesRetained, Edit
<1> QED BY <1>2, <1>3 DEF CleanupStarted, Edit

LEMMA RetainedStep == RetainedInv /\ [Next]_vars => RetainedInv'
<1> SUFFICES ASSUME RetainedInv, [Next]_vars PROVE RetainedInv'
  OBVIOUS
<1> USE DEF RetainedInv
<1>0. TypeOK'
  BY TypeStep
<1>1. CASE UNCHANGED vars
  BY <1>0, <1>1 DEF vars, settings, OwedIsNeeded, CountsOn, Needs, CleanupStarted, ValuesRetained
<1>2. CASE Tick
  <2>1. UNCHANGED <<settings, listed, values, cleanup, owed>> /\ now' = now + 1 /\ now \in Nat
    BY <1>2 DEF Tick, TypeOK
  <2>2. OwedIsNeeded'
    BY <2>1 DEF settings, OwedIsNeeded, CountsOn, Needs
  <2>3. CleanupStarted'
    BY <2>1 DEF CleanupStarted, TypeOK, Cleanup
  <2>4. ValuesRetained'
    <3> SUFFICES ASSUME NEW a \in Alerts, NEW k \in Keys, NEW s \in owed[a][k], s \notin values[k],
                        NEW l \in Levels
                 PROVE  now' - s.time > Criteria[a][l].window
      BY <2>1 DEF ValuesRetained
    <3>1. s.time \in Int /\ Criteria[a][l].window \in Nat
      BY WindowIsNumber DEF TypeOK, Sample
    <3>2. now - s.time > Criteria[a][l].window
      BY DEF ValuesRetained
    <3> QED BY <2>1, <3>1, <3>2
  <2> QED BY <1>0, <2>2, <2>3, <2>4
<1>3. ASSUME NEW key \in Keys, NEW time \in Int, NEW v \in Values, Put(key, time, v)
      PROVE  RetainedInv'
  <2> DEFINE sample == [time |-> time, value |-> v, n |-> arrivals]
  <2>1. UNCHANGED <<now, settings, run, active, cleanup, edits>>
    BY <1>3 DEF Put
  <2>2. \A k \in Keys : values[k] \subseteq values'[k]
    BY <1>3 DEF Put, TypeOK
  <2>8. listed' = listed \cup {key}
    BY <1>3 DEF Put
  <2>3. sample \in values'[key]
    BY <1>3 DEF Put, TypeOK
  <2>4. \A a \in Alerts, k \in Keys :
            owed'[a][k] = IF k = key /\ CountsOn(a, k) THEN owed[a][k] \cup {sample}
                          ELSE owed[a][k]
    BY <1>3 DEF Put, TypeOK
  <2> HIDE DEF sample
  <2>5. OwedIsNeeded'
    BY <2>1, <2>4, <2>8 DEF OwedIsNeeded, CountsOn, Needs, settings
  <2>6. ValuesRetained'
    <3> SUFFICES ASSUME NEW a \in Alerts, NEW k \in Keys, NEW s \in owed'[a][k], s \notin values'[k],
                        NEW l \in Levels
                 PROVE  now - s.time > Criteria[a][l].window
      BY <2>1 DEF ValuesRetained
    <3>1. CASE s \in owed[a][k]
      BY <2>2, <3>1 DEF ValuesRetained
    <3>2. CASE s \notin owed[a][k]
      BY <2>3, <2>4, <3>2
    <3> QED BY <3>1, <3>2
  <2>7. CleanupStarted'
    BY <2>1 DEF CleanupStarted
  <2> QED BY <1>0, <2>5, <2>6, <2>7
<1>4. ASSUME NEW a \in Alerts, SetEnabled(a)
      PROVE  RetainedInv'
  BY <1>0, <1>4, EditKeeps DEF SetEnabled
<1>5. ASSUME NEW k \in Keys, SetSuspended(k) \/ SetAssociated(k)
      PROVE  RetainedInv'
  BY <1>0, <1>5, EditKeeps DEF SetSuspended, SetAssociated
<1>6. ASSUME UNCHANGED <<now, settings, listed, values, cleanup, owed>>
      PROVE  RetainedInv'
  BY <1>0, <1>6 DEF settings, OwedIsNeeded, CountsOn, Needs, CleanupStarted, ValuesRetained
<1>7. CASE AlertRoutine
  BY <1>6, <1>7 DEF AlertRoutine, RunBegin, RunLock, Evaluate, RunEnd
<1>8. CASE CleanupBegin
  <2>1. /\ UNCHANGED <<now, settings, listed, values, owed>>
        /\ cleanup'.start = now /\ cleanup'.unread = enabled
    BY <1>8 DEF CleanupBegin
  <2>2. OwedIsNeeded'
    BY <2>1 DEF OwedIsNeeded, CountsOn, Needs, settings
  <2>3. ValuesRetained' /\ CleanupStarted'
    BY <2>1 DEF ValuesRetained, CleanupStarted, TypeOK
  <2> QED BY <1>0, <2>2, <2>3
<1>12. ASSUME NEW alert \in Alerts, LookUp(alert)
       PROVE  RetainedInv'
  <2>1. /\ UNCHANGED <<now, settings, listed, values, owed>>
        /\ cleanup.pc = "locked"
        /\ cleanup'.pc = cleanup.pc /\ cleanup'.start = cleanup.start
        /\ cleanup'.unread = cleanup.unread \ {alert}
    BY <1>12 DEF LookUp, TypeOK, Cleanup
  <2>2. \A k \in Keys : /\ cleanup.needing[k] \subseteq cleanup'.needing[k]
                        /\ Needs(alert, k) /\ k \in listed => alert \in cleanup'.needing[k]
    BY <1>12 DEF LookUp, TypeOK, Cleanup
  <2>3. \A a \in Alerts, k \in Keys : Needs(a, k)' <=> Needs(a, k)
    BY <2>1 DEF Needs, settings
  <2>4. OwedIsNeeded'
    <3> SUFFICES ASSUME NEW a \in Alerts, NEW k \in Keys, owed[a][k] # {}
                 PROVE  /\ Needs(a, k) /\ k \in listed
                        /\ a \in cleanup'.unread \/ a \in cleanup'.needing[k]
      BY <2>1, <2>3 DEF OwedIsNeeded, CountsOn
    <3>1. /\ Needs(a, k) /\ k \in listed
          /\ a \in cleanup.unread \/ a \in cleanup.needing[k]
      BY <2>1 DEF OwedIsNeeded, CountsOn
    <3> QED BY <2>1, <2>2, <3>1
  <2>5. ValuesRetained' /\ CleanupStarted'
    BY <2>1 DEF ValuesRetained, CleanupStarted
  <2> QED BY <1>0, <2>4, <2>5
<1>9. ASSUME NEW key \in Keys, Trim(key)
      PROVE  RetainedInv'
  <2>1. /\ UNCHANGED <<now, settings, listed, owed>>
        /\ cleanup.pc = "locked" /\ cleanup.unread = {}
        /\ cleanup'.pc = cleanup.pc /\ cleanup'.start = cleanup.start
        /\ cleanup'.unread = cleanup.unread /\ cleanup'.needing = cleanup.needing
    BY <1>9 DEF Trim, TypeOK, Cleanup
  <2>2. \A k \in Keys : \A s \in values[k] : s \in values'[k] \/ IsOld(s, k)
    BY <1>9 DEF Trim, TypeOK
  <2>3. OwedIsNeeded' /\ CleanupStarted'
    BY <2>1 DEF OwedIsNeeded, CountsOn, Needs, settings, CleanupStarted
  <2>4. ValuesRetained'
    <3> SUFFICES ASSUME NEW a \in Alerts, NEW k \in Keys, NEW s \in owed[a][k],
                        s \notin values'[k], NEW l \in Levels
                 PROVE  now - s.time > Criteria[a][l].window
      BY <2>1 DEF ValuesRetained
    <3>1. CASE s \notin values[k]
      BY <3>1 DEF ValuesRetained
    <3>2. CASE s \in values[k]
      <4>1. a \in cleanup.needing[k]
        BY <2>1 DEF OwedIsNeeded, CountsOn
      <4>2. cleanup.start - s.time > LongestWindowDuration(a)
        BY <2>2, <3>2, <4>1 DEF IsOld
      <4>3. cleanup.start <= now
        BY <2>1 DEF CleanupStarted
      <4>4. now \in Nat /\ cleanup.start \in Nat /\ s.time \in Int
        BY DEF TypeOK, Cleanup, Sample
      <4>5. /\ Criteria[a][l].window \in Nat /\ LongestWindowDuration(a) \in Nat
            /\ Criteria[a][l].window <= LongestWindowDuration(a)
        BY LongestIsLongest, WindowIsNumber
      <4> QED BY <4>2, <4>3, <4>4, <4>5
    <3> QED BY <3>1, <3>2
  <2> QED BY <1>0, <2>3, <2>4
<1>10. CASE CleanupEnd
  <2>1. UNCHANGED <<now, settings, listed, values, owed>> /\ cleanup'.pc = "idle"
    BY <1>10 DEF CleanupEnd, TypeOK, Cleanup
  <2> QED BY <1>0, <2>1 DEF settings, OwedIsNeeded, CountsOn, Needs, CleanupStarted, ValuesRetained
<1>11. ASSUME NEW k \in Keys, NEW d \in 0..Skew, NEW v \in Values, Put(k, now - d, v)
       PROVE  RetainedInv'
  <2>1. now - d \in Int
    BY ValuesAssumption DEF TypeOK
  <2> QED BY <1>3, <1>11, <2>1
<1> QED
  BY <1>1, <1>2, <1>4, <1>5, <1>7, <1>8, <1>9, <1>10, <1>11, <1>12 DEF Next, CleanupRoutine

\* No value that an alert has counted on all along is removed within its
\* windows, for any number of keys, alerts, arrivals and edits.
THEOREM ValuesAreRetained == Spec => []ValuesRetained
<1>1. Spec => []RetainedInv
  BY RetainedInit, RetainedStep, PTL DEF Spec
<1> QED BY <1>1, PTL DEF RetainedInv

-----------------------------------------------------------------------------
(* What the criteria mean, whatever samples there are.                     *)

\* Samples that could be in the list of a key.
AreDistinct(S) ==
    /\ IsFiniteSet(S)
    /\ S \in SUBSET Sample
    /\ \A s, t \in S : s.n = t.n => s = t

\* The samples of S in the order of the copy.
Lists(list, S) ==
    /\ AreSamples(list)
    /\ Sorted(list)
    /\ list \in Bijection(DOMAIN list, S)

LEMMA CopyIsSorted ==
    ASSUME NEW k \in Keys, AreDistinct(values[k])
    PROVE  Lists(Copy(k), values[k])
<1> DEFINE S == values[k]
           R == {p \in S \X S : Before(p[1], p[2])}
           n == Cardinality(S)
           list == Copy(k)
<1>1. \A s \in S : s.time \in Int /\ s.value \in Int /\ s.n \in Nat
  BY ValuesAssumption DEF AreDistinct, Sample
<1>2. \A s, t \in S : <<s, t>> \in R <=> Before(s, t)
  OBVIOUS
<1>3. /\ \A s \in S : ~Before(s, s)
      /\ \A s, t, u \in S : Before(s, t) /\ Before(t, u) => Before(s, u)
  BY <1>1 DEF Before
<1>4. \A s, t \in S : s = t \/ Before(s, t) \/ Before(t, s)
  BY <1>1 DEF Before, AreDistinct
<1>5. IsFiniteSet(S) /\ n \in Nat /\ R \in SUBSET (S \X S)
  BY FS_CardinalityType DEF AreDistinct
<1>6. \E l \in [1..n -> S] : \A i, j \in DOMAIN l : i < j => Before(l[i], l[j])
  <2>1. /\ \A s \in S : <<s, s>> \notin R
        /\ \A s, t, u \in S : <<s, t>> \in R /\ <<t, u>> \in R => <<s, u>> \in R
        /\ \A s, t \in S : s = t \/ <<s, t>> \in R \/ <<t, s>> \in R
    BY <1>2, <1>3, <1>4
  <2> HIDE DEF R, S
  <2>2. PICK l \in [1..n -> S] : \A i, j \in DOMAIN l : i < j => <<l[i], l[j]>> \in R
    BY <1>5, <2>1, SortedListExists
  <2>3. \A i, j \in DOMAIN l : i < j => Before(l[i], l[j])
    BY <1>2, <2>2
  <2> QED BY <2>2, <2>3
<1>7. list \in [1..n -> S] /\ \A i, j \in 1..n : i < j => Before(list[i], list[j])
  BY <1>6 DEF Copy
<1> HIDE DEF S, list
<1>8. list \in Seq(S) /\ DOMAIN list = 1..n
  BY <1>5, <1>7, SeqDef
<1>9. AreSamples(list)
  BY <1>1, <1>8 DEF AreSamples
<1>10. Sorted(list)
  <2>1. \A i, j \in 1..n : i < j => list[i].time <= list[j].time
    BY <1>1, <1>7 DEF Before
  <2> QED BY <1>8, <2>1 DEF Sorted
<1>11. list \in Injection(1..n, S)
  <2>1. ASSUME NEW i \in 1..n, NEW j \in 1..n, i < j PROVE list[i] # list[j]
    BY <1>3, <1>7, <2>1
  <2>2. \A i, j \in 1..n : list[i] = list[j] => i = j
    <3> SUFFICES ASSUME NEW i \in 1..n, NEW j \in 1..n, i # j PROVE list[i] # list[j]
      OBVIOUS
    <3>1. i < j \/ j < i
      BY <1>5
    <3> QED BY <2>1, <3>1
  <2> QED BY <1>7, <1>8, <2>2 DEF Injection, IsInjective
<1>12. list \in Surjection(1..n, S)
  <2>1. IsFiniteSet(1..n) /\ Cardinality(1..n) = n
    BY <1>5, FS_Interval
  <2> QED BY <1>5, <1>11, <2>1, FS_Injection
<1> QED BY <1>8, <1>9, <1>10, <1>11, <1>12 DEF Lists, Bijection, S, list

LEMMA ListsAll ==
    ASSUME NEW list, NEW S, Lists(list, S)
    PROVE  /\ Len(list) \in Nat /\ DOMAIN list = 1..Len(list)
           /\ \A i \in 1..Len(list) : list[i] \in S /\ list[i].time \in Int
           /\ \A i, j \in 1..Len(list) : list[i] = list[j] => i = j
           /\ \A s \in S : \E i \in 1..Len(list) : list[i] = s
<1>1. Len(list) \in Nat /\ DOMAIN list = 1..Len(list)
      /\ \A i \in 1..Len(list) : list[i].time \in Int
  BY SamplesAreNumbers DEF Lists
<1>2. /\ list \in [DOMAIN list -> S]
      /\ \A i, j \in DOMAIN list : list[i] = list[j] => i = j
      /\ \A s \in S : \E i \in DOMAIN list : list[i] = s
  BY DEF Lists, Bijection, Injection, Surjection, IsInjective
<1> QED BY <1>1, <1>2

\* The place in the list of each place in the window.
LEMMA WindowPlaces ==
    ASSUME NEW list, NEW S, Lists(list, S), NEW from \in Int, NEW to \in Int, from <= to
    PROVE  LET window == WindowOf(list, from, to)
           IN  /\ AreSamples(window) /\ Len(window) \in Nat /\ DOMAIN window = 1..Len(window)
               /\ \A i \in 1..Len(window) :
                     LET j == IndexAtOrAfter(list, from) + i - 1
                     IN  /\ j \in 1..Len(list) /\ j \in WindowIndexes(list, from, to)
                         /\ window[i] = list[j]
               /\ \A j \in WindowIndexes(list, from, to) :
                     LET i == j - IndexAtOrAfter(list, from) + 1
                     IN  i \in 1..Len(window) /\ window[i] = list[j]
<1> DEFINE window == WindowOf(list, from, to)
           first == IndexAtOrAfter(list, from)
           last == EndIndex(list, to)
<1>1. Len(list) \in Nat
  BY ListsAll
<1>2. /\ AreSamples(window)
      /\ first \in 1..(Len(list) + 1) /\ last \in 0..Len(list)
      /\ Len(window) = IF first <= last THEN last - first + 1 ELSE 0
      /\ \A i \in 1..Len(window) : window[i] = list[first + i - 1]
  BY WindowElements DEF Lists
<1>3. Len(window) \in Nat /\ DOMAIN window = 1..Len(window)
  BY <1>2, SamplesAreNumbers
<1>4. WindowIndexes(list, from, to) = first..last
  BY DEF WindowIndexes
<1> HIDE DEF window, first, last
<1>5. ASSUME NEW i \in 1..Len(window)
      PROVE  LET j == first + i - 1
             IN  j \in 1..Len(list) /\ j \in first..last /\ window[i] = list[j]
  BY <1>1, <1>2, <1>3
<1>6. ASSUME NEW j \in first..last
      PROVE  LET i == j - first + 1
             IN  i \in 1..Len(window) /\ window[i] = list[j]
  <2>1. j - first + 1 \in 1..Len(window) /\ first + (j - first + 1) - 1 = j
    BY <1>1, <1>2
  <2> QED BY <1>2, <2>1
<1> QED BY <1>2, <1>3, <1>4, <1>5, <1>6 DEF window, first, last

\* The window holds samples of its time only, and all that are before its end.
LEMMA WindowHolds ==
    ASSUME NEW list, NEW S, Lists(list, S), NEW from \in Int, NEW to \in Int, from <= to
    PROVE  LET window == WindowOf(list, from, to)
           IN  /\ \A i \in DOMAIN window :
                     window[i] \in S /\ from <= window[i].time /\ window[i].time <= to
               /\ \A s \in S : from <= s.time /\ s.time < to => \E i \in DOMAIN window : window[i] = s
<1> DEFINE window == WindowOf(list, from, to)
<1>1. /\ Len(list) \in Nat
      /\ \A i \in 1..Len(list) : list[i] \in S /\ list[i].time \in Int
      /\ \A s \in S : \E i \in 1..Len(list) : list[i] = s
  BY ListsAll
<1>2. /\ DOMAIN window = 1..Len(window)
      /\ \A i \in 1..Len(window) : \E j \in 1..Len(list) :
            j \in WindowIndexes(list, from, to) /\ window[i] = list[j]
      /\ \A j \in WindowIndexes(list, from, to) : \E i \in 1..Len(window) : window[i] = list[j]
  BY WindowPlaces
<1>3. AreSamples(list) /\ Sorted(list)
  BY DEF Lists
<1> HIDE DEF window
<1>4. ASSUME NEW i \in DOMAIN window
      PROVE  window[i] \in S /\ from <= window[i].time /\ window[i].time <= to
  <2>1. PICK j \in 1..Len(list) : j \in WindowIndexes(list, from, to) /\ window[i] = list[j]
    BY <1>2, <1>4
  <2>2. from <= list[j].time /\ list[j].time <= to
    BY <1>1, <1>3, <2>1, WindowIsCutOut
  <2> QED BY <1>1, <2>1, <2>2
<1>5. ASSUME NEW s \in S, from <= s.time, s.time < to
      PROVE  \E i \in DOMAIN window : window[i] = s
  <2>1. PICK j \in 1..Len(list) : list[j] = s
    BY <1>1
  <2>2. j \in WindowIndexes(list, from, to)
    BY <1>3, <1>5, <2>1, WindowIsCutOut
  <2> QED BY <1>2, <2>1, <2>2
<1> QED BY <1>4, <1>5 DEF window

\* If at most one sample is at its very end, the window lists all in its time.
LEMMA WindowLists ==
    ASSUME NEW list, NEW S, Lists(list, S), NEW from \in Int, NEW to \in Int, from <= to,
           \A s, t \in S : s.time = to /\ t.time = to => s = t
    PROVE  LET window == WindowOf(list, from, to)
           IN  /\ AreSamples(window)
               /\ window \in Bijection(DOMAIN window, {s \in S : from <= s.time /\ s.time <= to})
<1> DEFINE window == WindowOf(list, from, to)
           inWindow == {s \in S : from <= s.time /\ s.time <= to}
           first == IndexAtOrAfter(list, from)
<1>1. /\ Len(list) \in Nat
      /\ \A i \in 1..Len(list) : list[i] \in S /\ list[i].time \in Int
      /\ \A i, j \in 1..Len(list) : list[i] = list[j] => i = j
      /\ \A s \in S : \E i \in 1..Len(list) : list[i] = s
      /\ DOMAIN list = 1..Len(list)
  BY ListsAll
<1>2. /\ AreSamples(window) /\ DOMAIN window = 1..Len(window) /\ Len(window) \in Nat
      /\ \A i \in 1..Len(window) :
            first + i - 1 \in 1..Len(list) /\ window[i] = list[first + i - 1]
      /\ \A j \in WindowIndexes(list, from, to) :
            \E i \in 1..Len(window) : window[i] = list[j]
  BY WindowPlaces
<1>3. /\ \A i \in DOMAIN window :
            window[i] \in S /\ from <= window[i].time /\ window[i].time <= to
      /\ \A s \in S : from <= s.time /\ s.time < to => \E i \in DOMAIN window : window[i] = s
  BY WindowHolds
<1>4. AreSamples(list) /\ Sorted(list)
  BY DEF Lists
<1>5. first \in Int
  <2>1. first \in 1..(Len(list) + 1)
    BY <1>4, FirstIndex
  <2> QED BY <1>1, <2>1
<1>6. window = [i \in DOMAIN window |-> window[i]]
  <2>1. PICK T : window \in Seq(T)
    BY <1>2 DEF AreSamples
  <2> HIDE DEF window
  <2> QED BY <2>1
<1> HIDE DEF window, first
<1>7. window \in [DOMAIN window -> inWindow]
  BY <1>3, <1>6
<1>8. ASSUME NEW i \in DOMAIN window, NEW j \in DOMAIN window, window[i] = window[j]
      PROVE  i = j
  <2>1. first + i - 1 = first + j - 1
    BY <1>1, <1>2, <1>8
  <2> QED BY <1>2, <1>5, <2>1
<1>9. ASSUME NEW s \in inWindow PROVE \E i \in DOMAIN window : window[i] = s
  <2>1. PICK j \in 1..Len(list) : list[j] = s
    BY <1>1
  <2>2. CASE s.time = to
    <3>1. ASSUME NEW m \in 1..(j - 1) PROVE list[m].time < to
      <4>1. m \in 1..Len(list) /\ m < j
        BY <1>1
      <4>2. list[m].time <= list[j].time
        BY <1>1, <1>4, <4>1 DEF Sorted
      <4>3. list[m] # list[j]
        BY <1>1, <4>1
      <4> QED BY <1>1, <2>1, <2>2, <4>1, <4>2, <4>3
    <3>2. j \in WindowIndexes(list, from, to)
      BY <1>4, <2>1, <2>2, <3>1, WindowIsCutOut
    <3> QED BY <1>2, <2>1, <3>2
  <2>3. CASE s.time # to
    <3>1. s.time \in Int
      BY <1>1, <2>1
    <3> QED BY <1>3, <2>3, <3>1
  <2> QED BY <2>2, <2>3
<1>10. window \in Bijection(DOMAIN window, inWindow)
  BY <1>7, <1>8, <1>9 DEF Bijection, Injection, Surjection, IsInjective
<1> QED BY <1>2, <1>10 DEF window

LEMMA MeetingCounts ==
    ASSUME NEW window, NEW S, AreSamples(window), window \in Bijection(DOMAIN window, S), NEW c
    PROVE  LET meeting == {s \in S : Meets(s.value, c.operator, c.threshold)}
               indexes == MeetingIndexes(window, c)
           IN  /\ IsFiniteSet(S) /\ Cardinality(S) = Len(window)
               /\ Cardinality(indexes) = Cardinality(meeting) /\ Cardinality(meeting) \in Nat
               /\ indexes # {} <=> meeting # {}
               /\ indexes = DOMAIN window <=> meeting = S
<1> DEFINE meeting == {s \in S : Meets(s.value, c.operator, c.threshold)}
           indexes == MeetingIndexes(window, c)
           f == [i \in indexes |-> window[i]]
<1>1. Len(window) \in Nat /\ DOMAIN window = 1..Len(window)
  BY SamplesAreNumbers
<1>2. /\ window \in [DOMAIN window -> S]
      /\ \A i, j \in DOMAIN window : window[i] = window[j] => i = j
      /\ \A s \in S : \E i \in DOMAIN window : window[i] = s
  BY DEF Bijection, Injection, Surjection, IsInjective
<1>3. IsFiniteSet(DOMAIN window) /\ Cardinality(DOMAIN window) = Len(window)
  <2>1. 1 \in Int /\ Len(window) \in Int
    BY <1>1
  <2>2. /\ IsFiniteSet(1..Len(window))
        /\ Cardinality(1..Len(window)) = IF 1 > Len(window) THEN 0 ELSE Len(window) - 1 + 1
    BY <2>1, FS_Interval
  <2> QED BY <1>1, <2>2
<1>4. IsFiniteSet(S) /\ Cardinality(S) = Len(window)
  BY <1>3, FS_Bijection DEF ExistsBijection
<1>5. /\ indexes \in SUBSET DOMAIN window
      /\ \A i \in DOMAIN window : i \in indexes <=> window[i] \in meeting
  BY <1>2 DEF MeetingIndexes
<1> HIDE DEF indexes, meeting
<1>6. meeting \in SUBSET S
  BY DEF meeting
<1>7. f \in Bijection(indexes, meeting)
  <2>1. f \in [indexes -> meeting]
    BY <1>5
  <2>2. \A i, j \in indexes : f[i] = f[j] => i = j
    BY <1>2, <1>5
  <2>3. \A s \in meeting : \E i \in indexes : f[i] = s
    BY <1>2, <1>5, <1>6
  <2> HIDE DEF f
  <2> QED BY <2>1, <2>2, <2>3 DEF Bijection, Injection, Surjection, IsInjective
<1>8. IsFiniteSet(indexes) /\ IsFiniteSet(meeting) /\ Cardinality(meeting) = Cardinality(indexes)
  <2>1. IsFiniteSet(indexes) /\ IsFiniteSet(meeting)
    BY <1>3, <1>4, <1>5, <1>6, FS_Subset
  <2> QED BY <1>7, <2>1, FS_Bijection DEF ExistsBijection
<1>9. Cardinality(meeting) \in Nat
  BY <1>8, FS_CardinalityType
<1>10. indexes # {} <=> meeting # {}
  BY <1>2, <1>5, <1>6
<1>11. indexes = DOMAIN window <=> meeting = S
  BY <1>2, <1>5, <1>6
<1> QED BY <1>4, <1>8, <1>9, <1>10, <1>11 DEF indexes, meeting

\* Twice the sum of n values says that their average rounds to t or more.
RoundsTo(twice, n, t) == twice > n * (2 * t - 1) \/ (twice = n * (2 * t - 1) /\ twice > 0)

AverageAsDescribed(twice, n, operator, t) ==
    CASE operator = ">"  -> RoundsTo(twice, n, t + 1)
      [] operator = ">=" -> RoundsTo(twice, n, t)
      [] operator = "<"  -> ~RoundsTo(twice, n, t)
      [] operator = "<=" -> ~RoundsTo(twice, n, t + 1)
      [] operator = "="  -> RoundsTo(twice, n, t) /\ ~RoundsTo(twice, n, t + 1)

LEMMA AverageMeets ==
    ASSUME NEW window, AreSamples(window), Len(window) # 0, NEW S,
           window \in Bijection(DOMAIN window, S), NEW t \in Int, NEW operator \in Operators
    PROVE  Meets(Average(window), operator, t) <=>
               AverageAsDescribed(2 * SumOfValues(S), Len(window), operator, t)
<1> DEFINE average == Average(window)
           Above(u) == RoundsTo(2 * SumOfValues(S), Len(window), u)
<1>1. Len(window) \in Nat \ {0}
  BY SamplesAreNumbers
<1>2. SumOfValues(S) \in Int /\ average = RoundedQuotient(SumOfValues(S), Len(window))
  BY AverageOfSamples DEF SumOfValues
<1> HIDE DEF average
<1>3. ASSUME NEW u \in Int PROVE average \in Int /\ (average >= u <=> Above(u))
  BY <1>1, <1>2, RoundedAtLeast DEF RoundsTo
<1>4. average \in Int /\ (average >= t <=> Above(t)) /\ (average >= t + 1 <=> Above(t + 1))
  BY <1>3
<1> QED BY <1>4 DEF Meets, Operators, AverageAsDescribed, average

\* A criterion is met by the list of a key's samples if and only if it is as its
\* description says of the set of them, for every window, operator, combination,
\* count and threshold: isAlertActive_Threshold and what it calls.
THEOREM ResultIsDescribed ==
    ASSUME NEW list, NEW S, Lists(list, S), NEW c \in Criterion, NEW start \in Int,
           \A s, t \in S : s.time = start /\ t.time = start => s = t
    PROVE  ResultAt(start, list, c) # {} <=> Described(c, S, start)
<1> DEFINE window == WindowOf(list, start - c.window, start)
           inWindow == {s \in S : start - c.window <= s.time /\ s.time <= start}
           meeting == {s \in inWindow : Meets(s.value, c.operator, c.threshold)}
           indexes == MeetingIndexes(window, c)
           n == Cardinality(inWindow)
<1>1. /\ c.window \in Nat /\ c.operator \in Operators /\ c.combination \in Combinations
      /\ c.count \in Nat /\ c.threshold \in Int /\ c.minimum \in Nat
  BY DEF Criterion
<1>2. start - c.window \in Int /\ start - c.window <= start
  BY <1>1
<1>3. AreSamples(window) /\ window \in Bijection(DOMAIN window, inWindow)
  BY <1>2, WindowLists
<1> HIDE DEF inWindow, window
<1>4. /\ n = Len(window) /\ n \in Nat
      /\ Cardinality(indexes) = Cardinality(meeting) /\ Cardinality(meeting) \in Nat
      /\ indexes # {} <=> meeting # {}
      /\ indexes = DOMAIN window <=> meeting = inWindow
  BY <1>3, MeetingCounts, SamplesAreNumbers
<1>5. window = <<>> <=> n = 0
  <2>1. PICK T : window \in Seq(T)
    BY <1>3 DEF AreSamples
  <2> QED BY <1>4, <2>1, EmptySeq
<1>6. ResultAt(start, list, c) # {} <=>
         n # 0 /\ n >= c.minimum /\ ThresholdResult(window, c) # {}
  <2>1. ResultAt(start, list, c) =
           IF window = <<>> \/ Len(window) < c.minimum THEN {} ELSE ThresholdResult(window, c)
    BY DEF ResultAt, window
  <2> QED BY <1>1, <1>4, <1>5, <2>1
<1> DEFINE Combined == CASE c.combination = "any" -> meeting # {}
                         [] c.combination = "all" -> meeting = inWindow
                         [] c.combination = "at least" -> Cardinality(meeting) >= c.count
                         [] c.combination = "at most" -> Cardinality(meeting) <= c.count
                         [] c.combination = "average" ->
                               AverageAsDescribed(2 * SumOfValues(inWindow), n, c.operator, c.threshold)
<1>7. Described(c, S, start) <=> n # 0 /\ n >= c.minimum /\ Combined
  BY DEF Described, AverageAsDescribed, RoundsTo, inWindow
<1>8. ASSUME n # 0
      PROVE  Meets(Average(window), c.operator, c.threshold) <=>
                 AverageAsDescribed(2 * SumOfValues(inWindow), n, c.operator, c.threshold)
  BY <1>1, <1>3, <1>4, <1>8, AverageMeets
<1>9. ASSUME n # 0 PROVE ThresholdResult(window, c) # {} <=> Combined
  <2>1. CASE c.combination = "any"
    BY <1>4, <2>1 DEF ThresholdResult
  <2>2. CASE c.combination = "all"
    BY <1>4, <2>2 DEF ThresholdResult
  <2>3. CASE c.combination = "at least"
    BY <1>4, <2>3 DEF ThresholdResult
  <2>4. CASE c.combination = "at most"
    BY <1>4, <2>4 DEF ThresholdResult
  <2>5. CASE c.combination = "average"
    <3>1. ThresholdResult(window, c) # {} <=> Meets(Average(window), c.operator, c.threshold)
      BY <2>5 DEF ThresholdResult
    <3> QED BY <1>8, <1>9, <2>5, <3>1
  <2> QED BY <1>1, <2>1, <2>2, <2>3, <2>4, <2>5 DEF Combinations
<1> QED BY <1>6, <1>7, <1>9

-----------------------------------------------------------------------------
(* What a run judges by.                                                   *)

\* No two samples of a key have the same number.
SamplesDistinct ==
    \A k \in Keys : AreDistinct(values[k]) /\ \A s \in values[k] : s.n < arrivals

\* A run that has the lock keeps the cleanup out, and began before it got it.
RunAlone ==
    /\ run.pc = "started" => run.start <= now
    /\ run.pc = "locked" => /\ cleanup.pc = "idle"
                            /\ run.start <= run.locked /\ run.locked <= now
    /\ run.pc # "locked" => run.todo = {}

\* What was owed within the windows when the run got the lock is still there.
RetainedInRun ==
    run.pc = "locked" =>
        \A a \in Alerts, k \in Keys : \A s \in owed[a][k] :
            s \in values[k] \/ \A l \in Levels : run.locked - s.time > Criteria[a][l].window

JudgedInv == RetainedInv /\ SamplesDistinct /\ RunAlone /\ RetainedInRun

LEMMA JudgedInit == Init => JudgedInv
<1> SUFFICES ASSUME Init PROVE JudgedInv
  OBVIOUS
<1>1. SamplesDistinct
  BY FS_EmptySet DEF Init, SamplesDistinct, AreDistinct
<1> QED BY <1>1, RetainedInit DEF Init, JudgedInv, RunAlone, RetainedInRun

LEMMA JudgedStep == JudgedInv /\ [Next]_vars => JudgedInv'
<1> SUFFICES ASSUME JudgedInv, [Next]_vars PROVE JudgedInv'
  OBVIOUS
<1>0. RetainedInv' /\ TypeOK' /\ TypeOK /\ SamplesDistinct /\ RunAlone /\ RetainedInRun
  BY RetainedStep DEF JudgedInv, RetainedInv
<1>1. ASSUME UNCHANGED <<values, run, arrivals, cleanup>>, now' \in {now, now + 1},
             \A a \in Alerts, k \in Keys : owed'[a][k] \subseteq owed[a][k]
      PROVE  JudgedInv'
  <2>1. SamplesDistinct' /\ RetainedInRun'
    BY <1>0, <1>1 DEF SamplesDistinct, AreDistinct, RetainedInRun
  <2>2. RunAlone'
    BY <1>0, <1>1 DEF RunAlone, TypeOK, Run
  <2> QED BY <1>0, <2>1, <2>2 DEF JudgedInv
<1>2. CASE UNCHANGED vars
  BY <1>1, <1>2 DEF vars
<1>3. CASE Tick
  BY <1>1, <1>3 DEF Tick
<1>4. ASSUME NEW key \in Keys, NEW time \in Int, NEW v \in Values, Put(key, time, v)
      PROVE  JudgedInv'
  <2> DEFINE sample == [time |-> time, value |-> v, n |-> arrivals]
  <2>1. /\ UNCHANGED <<now, run, cleanup>> /\ arrivals' = arrivals + 1 /\ arrivals \in Nat
        /\ values' = [values EXCEPT ![key] = @ \cup {sample}]
        /\ sample \in Sample /\ sample.n = arrivals
    BY <1>0, <1>4 DEF Put, TypeOK, Sample
  <2>2. \A a \in Alerts, k \in Keys :
            owed'[a][k] = owed[a][k] \/ (k = key /\ owed'[a][k] = owed[a][k] \cup {sample})
    BY <1>0, <1>4 DEF Put, TypeOK
  <2> HIDE DEF sample
  <2>3. \A k \in Keys : values'[k] = IF k = key THEN values[k] \cup {sample} ELSE values[k]
    BY <1>0, <2>1 DEF TypeOK
  <2>4. SamplesDistinct'
    <3> SUFFICES ASSUME NEW k \in Keys
                 PROVE  AreDistinct(values'[k]) /\ \A s \in values'[k] : s.n < arrivals'
      BY DEF SamplesDistinct, AreDistinct
    <3>1. AreDistinct(values[k]) /\ \A s \in values[k] : s.n < arrivals
      BY <1>0 DEF SamplesDistinct
    <3>2. \A s \in values[k] : s.n \in Nat
      BY <3>1 DEF AreDistinct, Sample
    <3>3. CASE k # key
      <4>1. values'[k] = values[k]
        BY <2>3, <3>3
      <4>2. \A s \in values[k] : s.n < arrivals'
        BY <2>1, <3>1, <3>2
      <4> QED BY <3>1, <4>1, <4>2
    <3>4. CASE k = key
      <4>1. values'[k] = values[k] \cup {sample}
        BY <2>3, <3>4
      <4>2. IsFiniteSet(values'[k])
        BY <3>1, <4>1, FS_AddElement DEF AreDistinct
      <4>3. values'[k] \in SUBSET Sample
        BY <2>1, <3>1, <4>1 DEF AreDistinct
      <4>4. \A s \in values'[k] : s.n < arrivals'
        BY <2>1, <3>1, <3>2, <4>1
      <4>5. \A s, t \in values'[k] : s.n = t.n => s = t
        BY <2>1, <3>1, <3>2, <4>1 DEF AreDistinct
      <4> QED BY <4>2, <4>3, <4>4, <4>5 DEF AreDistinct
    <3> QED BY <3>3, <3>4
  <2>5. RetainedInRun'
    <3> SUFFICES ASSUME run.pc = "locked", NEW a \in Alerts, NEW k \in Keys, NEW s \in owed'[a][k],
                        s \notin values'[k], NEW l \in Levels
                 PROVE  run.locked - s.time > Criteria[a][l].window
      BY <2>1 DEF RetainedInRun
    <3>1. s \in owed[a][k] /\ s \notin values[k]
      BY <2>2, <2>3
    <3> QED BY <1>0, <3>1 DEF RetainedInRun
  <2>6. RunAlone'
    BY <1>0, <2>1 DEF RunAlone
  <2> QED BY <1>0, <2>4, <2>5, <2>6 DEF JudgedInv
<1>5. ASSUME Edit PROVE JudgedInv'
  <2>1. \A a \in Alerts, k \in Keys : owed'[a][k] \subseteq owed[a][k]
    BY <1>5 DEF Edit
  <2> QED BY <1>1, <1>5, <2>1 DEF Edit
<1>6. ASSUME UNCHANGED <<now, values, cleanup, arrivals, owed>>, RunAlone', RetainedInRun'
      PROVE  JudgedInv'
  BY <1>0, <1>6 DEF JudgedInv, SamplesDistinct, AreDistinct
<1>7. CASE RunBegin
  BY <1>0, <1>6, <1>7 DEF RunBegin, RunAlone, RetainedInRun, TypeOK, Run
<1>8. CASE RunLock
  <2>1. /\ run.pc = "started" /\ cleanup.pc = "idle" /\ UNCHANGED <<now, values, cleanup, arrivals, owed>>
        /\ run'.pc = "locked" /\ run'.start = run.start /\ run'.locked = now
    BY <1>0, <1>8 DEF RunLock, LockFree, TypeOK, Run
  <2>2. RunAlone'
    BY <1>0, <2>1 DEF RunAlone, TypeOK
  <2>3. RetainedInRun'
    BY <1>0, <2>1 DEF RetainedInRun, RetainedInv, ValuesRetained
  <2> QED BY <1>6, <2>1, <2>2, <2>3
<1>9. ASSUME NEW a \in Alerts, NEW k \in Keys, Evaluate(a, k)
      PROVE  JudgedInv'
  <2>1. /\ UNCHANGED <<now, values, cleanup, arrivals, owed>> /\ run.pc = "locked"
        /\ run'.pc = run.pc /\ run'.start = run.start /\ run'.locked = run.locked
    BY <1>0, <1>9 DEF Evaluate, TypeOK, Run
  <2> QED BY <1>0, <1>6, <2>1 DEF RunAlone, RetainedInRun
<1>10. CASE RunEnd
  <2>1. /\ UNCHANGED <<now, values, cleanup, arrivals, owed>>
        /\ run'.pc = "idle" /\ run'.todo = {}
    BY <1>0, <1>10 DEF RunEnd, TypeOK, Run
  <2> QED BY <1>6, <2>1 DEF RunAlone, RetainedInRun
<1>11. CASE CleanupBegin
  <2>1. run.pc # "locked" /\ UNCHANGED <<now, values, run, arrivals, owed>>
    BY <1>11 DEF CleanupBegin, LockFree
  <2> QED BY <1>0, <2>1 DEF JudgedInv, SamplesDistinct, AreDistinct, RunAlone, RetainedInRun
<1>12. ASSUME NEW key \in Keys, Trim(key)
       PROVE  JudgedInv'
  <2>1. /\ cleanup.pc = "locked" /\ UNCHANGED <<now, run, arrivals, owed>>
        /\ \A k \in Keys : values'[k] \in SUBSET values[k]
    BY <1>0, <1>12 DEF Trim, TypeOK
  <2>2. run.pc # "locked"
    BY <1>0, <2>1 DEF RunAlone
  <2>3. SamplesDistinct'
    <3>1. \A k \in Keys : IsFiniteSet(values'[k])
      BY <1>0, <2>1, FS_Subset DEF SamplesDistinct, AreDistinct
    <3> QED BY <1>0, <2>1, <3>1 DEF SamplesDistinct, AreDistinct
  <2> QED BY <1>0, <2>1, <2>2, <2>3 DEF JudgedInv, RunAlone, RetainedInRun
<1>13. CASE CleanupEnd
  <2>1. cleanup'.pc = "idle" /\ UNCHANGED <<now, values, run, arrivals, owed>>
    BY <1>0, <1>13 DEF CleanupEnd, TypeOK, Cleanup
  <2> QED BY <1>0, <2>1 DEF JudgedInv, SamplesDistinct, AreDistinct, RunAlone, RetainedInRun
<1>14. ASSUME NEW k \in Keys, NEW d \in 0..Skew, NEW v \in Values, Put(k, now - d, v)
       PROVE  JudgedInv'
  <2>1. now - d \in Int
    BY <1>0, ValuesAssumption DEF TypeOK
  <2> QED BY <1>4, <1>14, <2>1
<1>15. ASSUME NEW a \in Alerts, SetEnabled(a)
       PROVE  JudgedInv'
  BY <1>5, <1>15 DEF SetEnabled
<1>16. ASSUME NEW k \in Keys, SetSuspended(k) \/ SetAssociated(k)
       PROVE  JudgedInv'
  BY <1>5, <1>16 DEF SetSuspended, SetAssociated
<1>17. ASSUME NEW a \in Alerts, LookUp(a)
       PROVE  JudgedInv'
  <2>1. /\ cleanup.pc = "locked" /\ cleanup'.pc = cleanup.pc
        /\ UNCHANGED <<now, values, run, arrivals, owed>>
    BY <1>0, <1>17 DEF LookUp, TypeOK, Cleanup
  <2> QED BY <1>0, <2>1 DEF JudgedInv, SamplesDistinct, AreDistinct, RunAlone, RetainedInRun
<1> QED
  BY <1>2, <1>3, <1>7, <1>8, <1>9, <1>10, <1>11, <1>12, <1>13, <1>14, <1>15, <1>16, <1>17
  DEF Next, AlertRoutine, CleanupRoutine

LEMMA JudgedInvariant == Spec => []JudgedInv
BY JudgedInit, JudgedStep, PTL DEF Spec

LEMMA TodoIsLocked ==
    ASSUME JudgedInv, NEW p \in run.todo
    PROVE  /\ run.pc = "locked" /\ p[1] \in Alerts /\ p[2] \in Keys
           /\ run.start \in Nat /\ run.locked \in Nat /\ run.start <= run.locked
           /\ Lists(Copy(p[2]), values[p[2]])
<1>1. TypeOK /\ RunAlone /\ SamplesDistinct
  BY DEF JudgedInv, RetainedInv
<1>2. run.pc = "locked" /\ p[1] \in Alerts /\ p[2] \in Keys
  BY <1>1 DEF RunAlone, TypeOK, Run
<1>3. run.start \in Nat /\ run.locked \in Nat /\ run.start <= run.locked
  BY <1>1, <1>2 DEF RunAlone, TypeOK, Run
<1>4. AreDistinct(values[p[2]])
  BY <1>1, <1>2 DEF SamplesDistinct
<1> QED BY <1>2, <1>3, <1>4, CopyIsSorted

LEMMA JudgedImpliesWhole == JudgedInv => JudgesWholeWindow
<1> SUFFICES ASSUME JudgedInv, NEW p \in run.todo, NEW l \in Levels
             PROVE  LET a == p[1]
                        k == p[2]
                        w == Criteria[a][l].window
                    IN  /\ \A s \in owed[a][k] :
                              run.locked - w <= s.time /\ s.time < run.start => s \in JudgedSamples(a, l, k)
                        /\ \A s \in JudgedSamples(a, l, k) :
                              run.start - w <= s.time /\ s.time <= run.start
  BY DEF JudgesWholeWindow
<1> DEFINE a == p[1]
           k == p[2]
           w == Criteria[a][l].window
           window == WindowOf(Copy(k), run.start - w, run.start)
<1>1. /\ run.pc = "locked" /\ a \in Alerts /\ k \in Keys
      /\ run.start \in Nat /\ run.locked \in Nat /\ run.start <= run.locked
      /\ Lists(Copy(k), values[k])
  BY TodoIsLocked
<1>2. w \in Nat
  BY <1>1, WindowIsNumber
<1>3. JudgedSamples(a, l, k) = {window[i] : i \in DOMAIN window}
  BY DEF JudgedSamples
<1> HIDE DEF a, k, w
<1>4. /\ \A i \in DOMAIN window : window[i] \in values[k] /\ run.start - w <= window[i].time
                                                        /\ window[i].time <= run.start
      /\ \A s \in values[k] : run.start - w <= s.time /\ s.time < run.start =>
                                  \E i \in DOMAIN window : window[i] = s
  <2> DEFINE from == run.start - w
  <2>1. from \in Int /\ run.start \in Int /\ from <= run.start
    BY <1>1, <1>2
  <2> HIDE DEF from
  <2>2. LET held == WindowOf(Copy(k), from, run.start)
        IN  /\ \A i \in DOMAIN held : held[i] \in values[k] /\ from <= held[i].time
                                                         /\ held[i].time <= run.start
            /\ \A s \in values[k] : from <= s.time /\ s.time < run.start =>
                                        \E i \in DOMAIN held : held[i] = s
    BY <1>1, <2>1, WindowHolds
  <2> QED BY <2>2 DEF from
<1> HIDE DEF window
<1>5. ASSUME NEW s \in owed[a][k], run.locked - w <= s.time, s.time < run.start
      PROVE  s \in JudgedSamples(a, l, k)
  <2>1. s.time \in Int
    BY <1>1 DEF JudgedInv, RetainedInv, TypeOK, Sample
  <2>2. s \in values[k] \/ run.locked - s.time > w
    BY <1>1 DEF JudgedInv, RetainedInRun, w
  <2>3. s \in values[k]
    BY <1>1, <1>2, <1>5, <2>1, <2>2
  <2>4. run.start - w <= s.time
    BY <1>1, <1>2, <1>5, <2>1
  <2> QED BY <1>3, <1>4, <1>5, <2>3, <2>4
<1>6. \A s \in JudgedSamples(a, l, k) : run.start - w <= s.time /\ s.time <= run.start
  BY <1>3, <1>4
<1> QED BY <1>5, <1>6 DEF a, k, w

\* Each level is judged by every sample that it was owed when the run got the
\* lock, and by none of another time, however the cleanup falls between the
\* start of a run and its lock.
THEOREM WholeWindowIsJudged == Spec => []JudgesWholeWindow
BY JudgedInvariant, JudgedImpliesWhole, PTL

LEMMA JudgedImpliesDescribed == JudgedInv => CriteriaAsDescribed
<1> SUFFICES ASSUME JudgedInv, NEW p \in run.todo, NEW l \in Levels,
                    NEW o \in Operators, NEW cb \in Combinations,
                    Cardinality({s \in values[p[2]] : s.time = run.start}) <= 1
             PROVE  LET c == [Criteria[p[1]][l] EXCEPT !.operator = o, !.combination = cb]
                    IN  ResultAt(run.start, Copy(p[2]), c) # {} <=>
                            Described(c, values[p[2]], run.start)
  BY DEF CriteriaAsDescribed
<1> DEFINE k == p[2]
           c == [Criteria[p[1]][l] EXCEPT !.operator = o, !.combination = cb]
           atEnd == {s \in values[k] : s.time = run.start}
<1>1. p[1] \in Alerts /\ k \in Keys /\ run.start \in Int /\ Lists(Copy(k), values[k])
  BY TodoIsLocked
<1>2. c \in Criterion
  <2>1. Criteria[p[1]][l] \in Criterion
    BY <1>1, CriteriaAssumption
  <2> QED BY <2>1 DEF Criterion
<1>3. IsFiniteSet(values[k])
  BY <1>1 DEF JudgedInv, SamplesDistinct, AreDistinct
<1>4. ASSUME NEW s \in values[k], NEW t \in values[k], s.time = run.start, t.time = run.start
      PROVE  s = t
  <2>1. IsFiniteSet(atEnd) /\ Cardinality(atEnd) \in Nat /\ Cardinality(atEnd) <= 1
    BY <1>3, FS_Subset, FS_CardinalityType
  <2>2. s \in atEnd /\ t \in atEnd
    BY <1>4
  <2> HIDE DEF atEnd
  <2>3. Cardinality(atEnd) # 0
    BY <2>1, <2>2, FS_EmptySet
  <2>4. Cardinality(atEnd) = 1
    BY <2>1, <2>3
  <2>5. PICK x : atEnd = {x}
    BY <2>1, <2>4, FS_Singleton
  <2> QED BY <2>2, <2>5
<1> HIDE DEF c, k
<1>5. ResultAt(run.start, Copy(k), c) # {} <=> Described(c, values[k], run.start)
  BY <1>1, <1>2, <1>4, ResultIsDescribed
<1> QED BY <1>5 DEF c, k

\* In every run, whatever has arrived and been trimmed, every operator and
\* combination means what the description of the criterion says.
THEOREM CriteriaAreAsDescribed == Spec => []CriteriaAsDescribed
BY JudgedInvariant, JudgedImpliesDescribed, PTL

=============================================================================
