---------------------------- MODULE AlertCriteria ----------------------------
(***************************************************************************)
(* When is a threshold alert active for a metric key?  AlertThread copies  *)
(* the key's recent values, sorts them by their timestamps, cuts out the   *)
(* alert's window and combines the values that are left.                   *)
(*                                                                         *)
(* A result is a set: it holds the value that is shown with the alert, or  *)
(* nothing (null) if the criterion is not met.  A value is counted in      *)
(* units of the last digit the average is rounded to (ALERT_SCALE).        *)
(***************************************************************************)
EXTENDS Integers, Sequences, FiniteSets, FiniteSetsExt

Operators == {">", ">=", "<", "<=", "="}
Combinations == {"any", "all", "average", "at least", "at most"}

\* A criterion that isValid_... accepts.
Criterion == [window : Nat \ {0}, operator : Operators, combination : Combinations,
              count : Nat, threshold : Int, minimum : Nat \ {0}]

\* Samples are sorted by their time.
Sorted(samples) == \A i, j \in DOMAIN samples : i < j => samples[i].time <= samples[j].time

-----------------------------------------------------------------------------
\* The first sample that is not before t; the length plus one if all are.
IndexAtOrAfter(samples, t) ==
    CHOOSE i \in 1..(Len(samples) + 1) :
        /\ i <= Len(samples) => t <= samples[i].time
        /\ \A j \in 1..(i - 1) : samples[j].time < t

\* Mutant: the first sample that is not before the end, whatever its time.
EndIndexAfter(samples, t) ==
    LET i == IndexAtOrAfter(samples, t) IN IF i <= Len(samples) THEN i ELSE i - 1

\* The loop ends at the first sample that is not before the end of the window:
\* the sample itself if it is at the end, otherwise the one before it.
EndIndex(samples, t) ==
    LET i == IndexAtOrAfter(samples, t)
    IN  IF i <= Len(samples) /\ samples[i].time = t THEN i ELSE i - 1

\* The indexes from getStartAndEndIndexesOfTimestamps; none for null.
WindowIndexes(samples, from, to) == IndexAtOrAfter(samples, from)..EndIndex(samples, to)

WindowOf(samples, from, to) ==
    SubSeq(samples, IndexAtOrAfter(samples, from), EndIndex(samples, to))

-----------------------------------------------------------------------------
Meets(value, operator, threshold) ==
    CASE operator = ">"  -> value > threshold
      [] operator = ">=" -> value >= threshold
      [] operator = "<"  -> value < threshold
      [] operator = "<=" -> value <= threshold
      [] operator = "="  -> value = threshold

MeetingIndexes(samples, c) ==
    {i \in DOMAIN samples : Meets(samples[i].value, c.operator, c.threshold)}

\* Mutant: the rest is cut off.
TruncatedQuotient(sum, n) == IF sum >= 0 THEN sum \div n ELSE -((-sum) \div n)

\* Half a unit is rounded away from zero.
RoundedQuotient(sum, n) ==
    IF sum >= 0 THEN (2 * sum + n) \div (2 * n) ELSE -((n - 2 * sum) \div (2 * n))

Average(samples) ==
    RoundedQuotient(MapThenSumSet(LAMBDA i : samples[i].value, DOMAIN samples), Len(samples))

\* doesMeetThresholdCriteria_All, _Any, _Average, _AtLeastCount, _AtMostCount
ThresholdResult(samples, c) ==
    LET meeting == MeetingIndexes(samples, c)
        n == Cardinality(meeting)
    IN  CASE c.combination = "all" ->
               IF meeting = DOMAIN samples THEN {samples[Len(samples)].value} ELSE {}
          [] c.combination = "any" ->
               IF meeting # {} THEN {samples[Max(meeting)].value} ELSE {}
          [] c.combination = "average" ->
               {a \in {Average(samples)} : Meets(a, c.operator, c.threshold)}
          [] c.combination = "at least" -> {m \in {n} : m >= c.count}
          [] c.combination = "at most" -> {m \in {n} : m <= c.count}

\* isAlertActive_Threshold
ResultAt(start, samples, c) ==
    LET window == WindowOf(samples, start - c.window, start)
    IN  IF window = <<>> \/ Len(window) < c.minimum THEN {} ELSE ThresholdResult(window, c)

=============================================================================
