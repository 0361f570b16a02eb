---------------------------- MODULE RecentValues ----------------------------
(***************************************************************************)
(* The recent values that threshold alerts are judged by.  Metric threads  *)
(* append to a key's list, the alert routine reads a copy of it, and the   *)
(* cleanup routine removes what is older than the longest window of the    *)
(* alerts that need the key.  The alert and the cleanup routine exclude    *)
(* each other (alertRoutineLock); an alert run takes its start timestamp,  *)
(* where its windows end, before it has the lock.                          *)
(*                                                                         *)
(* A list is the set of its samples: n, the order of arrival, orders those *)
(* with the same timestamp, as the stable sort of the copy leaves them.    *)
(* Keys that are forgotten or expire are the subject of MetricAssociation. *)
(***************************************************************************)
EXTENDS AlertCriteria

CONSTANTS
    Keys,        \* metric keys
    Alerts,      \* ids of threshold alerts, of one metric group
    Criteria,    \* the criterion of each alert and level
    Values,      \* metric values
    Skew,        \* how long before its arrival a metric's timestamp may be
    MaxTime,     \* bound on the clock
    MaxArrivals, \* bound on the number of metrics
    MaxEdits     \* bound on the number of edits, suspensions and associations

Levels == {"caution", "danger"}

ASSUME CriteriaAssumption == Criteria \in [Alerts -> [Levels -> Criterion]]
ASSUME ValuesAssumption == Values \subseteq Int /\ Skew \in Nat
ASSUME BoundsAssumption == MaxTime \in Nat /\ MaxArrivals \in Nat /\ MaxEdits \in Nat

VARIABLES
    now,       \* System.currentTimeMillis()
    enabled,   \* ids of the alerts that are enabled
    associated,\* matchingMetricKeysAssociatedWithMetricGroup of the group
    suspended, \* suspendedMetricKeys
    listed,    \* the keys of recentMetricTimestampsAndValuesByMetricKey
    values,    \* their lists; a key that has none has no values
    run,       \* the locals of the alert thread
    active,    \* active(Caution|Danger)AlertMetricKeysByAlertId of the last run
    cleanup,   \* the locals of the cleanup thread
    arrivals, edits,
    owed       \* history: what arrived while an alert has counted on its key all along

settings == <<enabled, associated, suspended>>
vars == <<now, settings, listed, values, run, active, cleanup, arrivals, edits, owed>>

-----------------------------------------------------------------------------
Sample == [time : Int, value : Values, n : Nat]

Run == [pc : {"idle", "started", "locked"}, start : Nat, locked : Nat,
        todo : SUBSET (Alerts \X Keys)]

Cleanup == [pc : {"idle", "locked"}, start : Nat, unread : SUBSET Alerts,
            needing : [Keys -> SUBSET Alerts], todo : SUBSET Keys]

NoAlerts == [k \in Keys |-> {}]

\* A key seen before the restart has a list from the start, an empty one.
Init ==
    /\ now = 0
    /\ enabled = Alerts
    /\ associated = {}
    /\ suspended = {}
    /\ listed \in SUBSET Keys
    /\ values = [k \in Keys |-> {}]
    /\ run = [pc |-> "idle", start |-> 0, locked |-> 0, todo |-> {}]
    /\ active = [a \in Alerts |-> [l \in Levels |-> {}]]
    /\ cleanup = [pc |-> "idle", start |-> 0, unread |-> {}, needing |-> NoAlerts, todo |-> {}]
    /\ arrivals = 0
    /\ edits = 0
    /\ owed = [a \in Alerts |-> [k \in Keys |-> {}]]

LockFree == run.pc # "locked" /\ cleanup.pc = "idle"

\* getMetricKeysAssociatedWithAlert, for an alert that is enabled
Needs(a, k) == a \in enabled /\ k \in associated /\ k \notin suspended

\* An alert that comes to need a key only when the cleanup under way has looked
\* up its keys may lose what arrives until the cleanup ends; and so may one that
\* has needed the key all along, when the key had no list at that time.
CountsOn(a, k) ==
    /\ Needs(a, k)
    /\ cleanup.pc = "locked" => a \in cleanup.unread \/ a \in cleanup.needing[k]

Tick ==
    /\ now < MaxTime
    /\ now' = now + 1
    /\ UNCHANGED <<settings, listed, values, run, active, cleanup, arrivals, edits, owed>>

\* updateAlertMetricRecentValues
Put(k, time, value) ==
    LET sample == [time |-> time, value |-> value, n |-> arrivals]
    IN  /\ arrivals < MaxArrivals
        /\ values' = [values EXCEPT ![k] = @ \cup {sample}]
        /\ listed' = listed \cup {k}
        /\ owed' = [a \in Alerts |-> IF CountsOn(a, k)
                                     THEN [owed[a] EXCEPT ![k] = @ \cup {sample}]
                                     ELSE owed[a]]
        /\ arrivals' = arrivals + 1
        /\ UNCHANGED <<now, settings, run, active, cleanup, edits>>

-----------------------------------------------------------------------------
(* Requests and the other routines.                                        *)

Edit ==
    /\ edits < MaxEdits
    /\ edits' = edits + 1
    /\ owed' = [a \in Alerts |-> [k \in Keys |-> IF Needs(a, k)' THEN owed[a][k] ELSE {}]]
    /\ UNCHANGED <<now, listed, values, run, active, cleanup, arrivals>>

\* A request enables or disables an alert.
SetEnabled(a) ==
    /\ LockFree
    /\ enabled' = IF a \in enabled THEN enabled \ {a} ELSE enabled \cup {a}
    /\ UNCHANGED <<associated, suspended>>
    /\ Edit

\* The suspension routine begins or ends the suspension of a metric key.
SetSuspended(k) ==
    /\ LockFree
    /\ suspended' = IF k \in suspended THEN suspended \ {k} ELSE suspended \cup {k}
    /\ UNCHANGED <<enabled, associated>>
    /\ Edit

\* The association routine, at any time, finds that a key is or is no longer of
\* the group: a key is seen, and so associated, before its first value is put.
SetAssociated(k) ==
    /\ associated' = IF k \in associated THEN associated \ {k} ELSE associated \cup {k}
    /\ UNCHANGED <<enabled, suspended>>
    /\ Edit

-----------------------------------------------------------------------------
(* One run of the alert routine.                                           *)

RunBegin ==
    /\ run.pc = "idle"
    /\ run' = [run EXCEPT !.pc = "started", !.start = now]
    /\ UNCHANGED <<now, settings, listed, values, active, cleanup, arrivals, edits, owed>>

RunLock ==
    /\ run.pc = "started"
    /\ LockFree
    /\ run' = [run EXCEPT !.pc = "locked", !.locked = now, !.todo = enabled \X Keys]
    /\ active' = [a \in Alerts |-> [l \in Levels |-> {}]]
    /\ UNCHANGED <<now, settings, listed, values, cleanup, arrivals, edits, owed>>

Before(s1, s2) == s1.time < s2.time \/ (s1.time = s2.time /\ s1.n < s2.n)

\* The copy of a key's list, sorted.
Copy(k) ==
    CHOOSE list \in [1..Cardinality(values[k]) -> values[k]] :
        \A i, j \in DOMAIN list : i < j => Before(list[i], list[j])

\* Mutant: the danger level is judged by the caution level's criterion.
ResultOfCaution(a, l, k) == ResultAt(run.start, Copy(k), Criteria[a]["caution"])

Result(a, l, k) == ResultAt(run.start, Copy(k), Criteria[a][l])

\* Mutant: the alert's id is added to the keys.
EvaluateWithId(a, k) ==
    /\ run.pc = "locked"
    /\ <<a, k>> \in run.todo
    /\ active' = [active EXCEPT ![a] = [l \in Levels |->
                     IF Needs(a, k) /\ Result(a, l, k) # {} THEN @[l] \cup {a} ELSE @[l]]]
    /\ run' = [run EXCEPT !.todo = @ \ {<<a, k>>}]
    /\ UNCHANGED <<now, settings, listed, values, cleanup, arrivals, edits, owed>>

Evaluate(a, k) ==
    /\ run.pc = "locked"
    /\ <<a, k>> \in run.todo
    /\ active' = [active EXCEPT ![a] = [l \in Levels |->
                     IF Needs(a, k) /\ Result(a, l, k) # {} THEN @[l] \cup {k} ELSE @[l]]]
    /\ run' = [run EXCEPT !.todo = @ \ {<<a, k>>}]
    /\ UNCHANGED <<now, settings, listed, values, cleanup, arrivals, edits, owed>>

RunEnd ==
    /\ run.pc = "locked"
    /\ run.todo = {}
    /\ run' = [run EXCEPT !.pc = "idle", !.start = 0, !.locked = 0]
    /\ UNCHANGED <<now, settings, listed, values, active, cleanup, arrivals, edits, owed>>

-----------------------------------------------------------------------------
(* The cleanup routine: cleanupRecentMetricTimestampsAndValues.            *)

CleanupBegin ==
    /\ LockFree
    /\ cleanup' = [pc |-> "locked", start |-> now, unread |-> enabled, needing |-> NoAlerts,
                   todo |-> Keys]
    /\ UNCHANGED <<now, settings, listed, values, run, active, arrivals, edits, owed>>

\* The next alert's window counts for the keys that it needs and that have a
\* list by now.
LookUp(a) ==
    /\ cleanup.pc = "locked"
    /\ a \in cleanup.unread
    /\ cleanup' = [cleanup EXCEPT
           !.unread = @ \ {a},
           !.needing = [k \in Keys |-> IF Needs(a, k) /\ k \in listed THEN @[k] \cup {a} ELSE @[k]]]
    /\ UNCHANGED <<now, settings, listed, values, run, active, arrivals, edits, owed>>

\* Mutant: the window of the danger level only.
DangerWindowDuration(a) == Criteria[a]["danger"].window

\* getLongestWindowDuration: whether the levels are enabled or not
LongestWindowDuration(a) ==
    IF Criteria[a]["caution"].window > Criteria[a]["danger"].window
    THEN Criteria[a]["caution"].window ELSE Criteria[a]["danger"].window

\* Mutant: a key that no alert needs keeps its values.
IsOldIfNeeded(s, k) ==
    /\ cleanup.needing[k] # {}
    /\ \A a \in cleanup.needing[k] : cleanup.start - s.time > LongestWindowDuration(a)

\* Older than the longest window found; a key that no alert needs loses all.
IsOld(s, k) == \A a \in cleanup.needing[k] : cleanup.start - s.time > LongestWindowDuration(a)

\* The walk meets the list of a key, or passes where a list may yet be put.
Trim(k) ==
    /\ cleanup.pc = "locked" /\ cleanup.unread = {}
    /\ k \in cleanup.todo
    /\ values' = [values EXCEPT ![k] = {s \in @ : ~IsOld(s, k)}]
    /\ cleanup' = [cleanup EXCEPT !.todo = @ \ {k}]
    /\ UNCHANGED <<now, settings, listed, run, active, arrivals, edits, owed>>

CleanupEnd ==
    /\ cleanup.pc = "locked" /\ cleanup.unread = {}
    /\ cleanup.todo = {}
    /\ cleanup' = [cleanup EXCEPT !.pc = "idle", !.start = 0, !.needing = NoAlerts]
    /\ UNCHANGED <<now, settings, listed, values, run, active, arrivals, edits, owed>>

-----------------------------------------------------------------------------
AlertRoutine ==
    \/ RunBegin
    \/ RunLock
    \/ \E a \in Alerts, k \in Keys : Evaluate(a, k)
    \/ RunEnd

CleanupRoutine ==
    \/ \E a \in Alerts : LookUp(a)
    \/ \E k \in Keys : Trim(k)
    \/ CleanupEnd

Next ==
    \/ Tick
    \/ \E k \in Keys, d \in 0..Skew, v \in Values : Put(k, now - d, v)
    \/ \E a \in Alerts : SetEnabled(a)
    \/ \E k \in Keys : SetSuspended(k) \/ SetAssociated(k)
    \/ AlertRoutine
    \/ CleanupBegin
    \/ CleanupRoutine

Spec == Init /\ [][Next]_vars

\* The clock runs; the invokers start both routines again and again, each of
\* which sleeps between its runs while the other gets the lock.
Fairness ==
    /\ WF_vars(Tick)
    /\ WF_vars(RunBegin) /\ SF_vars(RunLock)
    /\ WF_vars(\E a \in Alerts, k \in Keys : Evaluate(a, k)) /\ WF_vars(RunEnd)
    /\ SF_vars(CleanupBegin) /\ WF_vars(CleanupRoutine)

FairSpec == Spec /\ Fairness

-----------------------------------------------------------------------------
(* Properties                                                              *)

TypeOK ==
    /\ now \in Nat
    /\ enabled \in SUBSET Alerts
    /\ associated \in SUBSET Keys
    /\ suspended \in SUBSET Keys
    /\ listed \in SUBSET Keys
    /\ values \in [Keys -> SUBSET Sample]
    /\ run \in Run
    /\ active \in [Alerts -> [Levels -> SUBSET Keys]]
    /\ cleanup \in Cleanup
    /\ arrivals \in Nat /\ edits \in Nat
    /\ owed \in [Alerts -> [Keys -> SUBSET Sample]]

\* What arrives for a key is there as long as it is within the longer of the
\* two windows of any alert that has needed the key since, whatever the
\* cleanups, the other alerts and the edits of other alerts do meanwhile; but
\* for what arrives in a cleanup that looked the alert's keys up too early to
\* find this one in need of it or with a list (CountsOn).
ValuesRetained ==
    \A a \in Alerts, k \in Keys : \A s \in owed[a][k] :
        s \in values[k] \/ \A l \in Levels : now - s.time > Criteria[a][l].window

JudgedSamples(a, l, k) ==
    LET window == WindowOf(Copy(k), run.start - Criteria[a][l].window, run.start)
    IN  {window[i] : i \in DOMAIN window}

\* A level is judged by every sample that was owed to it: those from the window
\* before the lock was taken up to the start of the run, none of another time.
\* A cleanup between the start and the lock cannot take more than that.
JudgesWholeWindow ==
    \A p \in run.todo, l \in Levels :
        LET a == p[1]
            k == p[2]
            w == Criteria[a][l].window
        IN  /\ \A s \in owed[a][k] :
                  run.locked - w <= s.time /\ s.time < run.start => s \in JudgedSamples(a, l, k)
            /\ \A s \in JudgedSamples(a, l, k) :
                  run.start - w <= s.time /\ s.time <= run.start

SumOfValues(samples) == MapThenSumSet(LAMBDA s : s.value, samples)

\* What getHumanReadable_AlertCriteria_ThresholdCriteria says of the samples
\* "during the last" window, in whatever order they are; an average is rounded.
Described(c, samples, start) ==
    LET inWindow == {s \in samples : start - c.window <= s.time /\ s.time <= start}
        meeting == {s \in inWindow : Meets(s.value, c.operator, c.threshold)}
        n == Cardinality(inWindow)
        twice == 2 * SumOfValues(inWindow)
        \* The average rounds to t or more; half a unit below zero rounds down.
        Above(t) == twice > n * (2 * t - 1) \/ (twice = n * (2 * t - 1) /\ twice > 0)
    IN  /\ n # 0 /\ n >= c.minimum
        /\ CASE c.combination = "any" -> meeting # {}
             [] c.combination = "all" -> meeting = inWindow
             [] c.combination = "at least" -> Cardinality(meeting) >= c.count
             [] c.combination = "at most" -> Cardinality(meeting) <= c.count
             [] c.combination = "average" ->
                   CASE c.operator = ">"  -> Above(c.threshold + 1)
                     [] c.operator = ">=" -> Above(c.threshold)
                     [] c.operator = "<"  -> ~Above(c.threshold)
                     [] c.operator = "<=" -> ~Above(c.threshold + 1)
                     [] c.operator = "="  -> Above(c.threshold) /\ ~Above(c.threshold + 1)

\* Every combination of samples is judged as the criterion is described, for
\* each operator and combination; but of samples with the very timestamp the
\* window ends at only the first counts, so there is to be at most one.
CriteriaAsDescribed ==
    \A p \in run.todo, l \in Levels, o \in Operators, cb \in Combinations :
        LET c == [Criteria[p[1]][l] EXCEPT !.operator = o, !.combination = cb]
        IN  Cardinality({s \in values[p[2]] : s.time = run.start}) <= 1 =>
                (ResultAt(run.start, Copy(p[2]), c) # {} <=>
                     Described(c, values[p[2]], run.start))

\* No list grows for ever: when everything has come to rest, a key has only
\* values that some alert may still need.
ValuesTrimmed ==
    \A k \in Keys :
        <>[](\A s \in values[k] :
                \E a \in Alerts : Needs(a, k) /\ now - s.time <= LongestWindowDuration(a))

\* When everything has come to rest, each level is active for exactly the keys
\* that the alert needs and that meet the level's own criterion.
ActiveAsMet ==
    \A a \in Alerts, l \in Levels, k \in Keys :
        <>[](run.pc # "locked" =>
                (k \in active[a][l] <=>
                     Needs(a, k) /\ ResultAt(now, Copy(k), Criteria[a][l]) # {}))

=============================================================================
