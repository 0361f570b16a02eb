------------------------- MODULE AvailabilityAlerts -------------------------
(***************************************************************************)
(* An availability alert fires for a metric key that has not been received *)
(* for longer than the alert's window.  Five kinds of thread have a hand   *)
(* in it: the metric threads write when a key was last seen, the alert     *)
(* routine judges the keys, keeps the set of those it found absent and     *)
(* persists their last-seen times, the cleanup routine forgets keys that   *)
(* have not been seen for a day unless they are tracked, requests change   *)
(* the alert, and a restart reloads what was persisted.                    *)
(*                                                                         *)
(* The alert and the cleanup routine exclude each other by                 *)
(* GlobalVariables.alertRoutineLock; metric threads run at any time.       *)
(* How a level's verdict becomes the alert's status is module AlertStatus; *)
(* how keys come to be associated with the alert is MetricAssociation.     *)
(***************************************************************************)
EXTENDS Integers, FiniteSets

CONSTANTS
    Keys,          \* metric keys
    Resent,        \* the keys whose StatsD value is sent again when none arrives
    Window,        \* a level's window duration
    StopAfter,     \* a level's 'stop tracking after'; NoTime: never
    Day,           \* NUM_MILLISECONDS_IN_ONE_DAY
    Edits,         \* kinds of change requests make to the alert
    EarlyCleanup,  \* can the cleanup routine run before the first alert run?
    MaxTime,       \* bound on the clock
    MaxEdits,      \* bound on the number of requests and suspensions
    MaxCrashes     \* bound on the number of crashes

Levels == {"caution", "danger"}
EditKinds == {"delete", "disable", "enable", "group", "level"}
NoTime == -1       \* null, and the timestamp of a key that is not in a map

ASSUME KeysAssumption == IsFiniteSet(Keys) /\ Resent \subseteq Keys
ASSUME CriteriaAssumption ==
    /\ Window \in [Levels -> Nat] /\ StopAfter \in [Levels -> Nat \cup {NoTime}]
    /\ Day \in Nat /\ Edits \subseteq EditKinds /\ EarlyCleanup \in BOOLEAN
ASSUME BoundsAssumption == MaxTime \in Nat /\ MaxEdits \in Nat /\ MaxCrashes \in Nat

VARIABLES
    now,         \* System.currentTimeMillis()
    alert,       \* the alert's row: its status, its enabled levels, its group's keys
    suspended,   \* GlobalVariables.suspendedMetricKeys
    rows,        \* the METRIC_LAST_SEEN table
    up,          \* is the process running?
    queue,       \* keys of the metrics that are received and not yet flushed
    mostRecent,  \* keys of statsdMetricsAggregatedMostRecentValue
    lastSeen,    \* metricKeysLastSeenTimestamp
    known,       \* keys of recentMetricTimestampsAndValuesByMetricKey
    associated,  \* matchingMetricKeysAssociatedWithMetricGroup of the alert's group
    active,      \* activeCautionAvailabilityAlerts, activeDangerAvailabilityAlerts
    published,   \* activeAvailabilityAlerts
    firstRunDone,\* alertRoutineExecutionCounter_ # 0
    run,         \* the locals of the alert thread
    removing,    \* the key the cleanup routine has decided to remove, if any
    edits, crashes,
    received,    \* history: when a key was last received, as far as a restart can know
    absent       \* history: (level, key) pairs found absent, and nothing has ended it

rowVars == <<alert, suspended, rows>>
flushVars == <<queue, mostRecent, lastSeen, known>>
trackVars == <<associated, active, published, firstRunDone>>
ghostVars == <<received, absent>>
vars == <<now, rowVars, up, flushVars, trackVars, run, removing, edits, crashes, ghostVars>>

-----------------------------------------------------------------------------
Time == Nat \cup {NoTime}

\* MetricKeyLastSeen: when the key was received, and when it was received or resent.
LastSeen == [current : Time, resent : Time]

Unseen == [current |-> NoTime, resent |-> NoTime]   \* no entry in the map

IsSeen(k) == lastSeen[k].resent # NoTime

Alert == [status : {"enabled", "disabled", "deleted"}, on : SUBSET Levels,
          group : SUBSET Keys]

Run == [pc : {"idle", "associated", "evaluate", "delete", "upsert", "publish"},
        start : Nat, todo : SUBSET (Levels \X Keys)]

Idle == [pc |-> "idle", start |-> 0, todo |-> {}]

AlertLocked == run.pc \notin {"idle", "associated"}
LockFree == ~AlertLocked /\ removing = {}

NoTimes == [k \in Keys |-> NoTime]
NothingActive == [l \in Levels |-> {}]

Init ==
    /\ now = 0
    /\ alert = [status |-> "enabled", on |-> Levels, group |-> Keys]
    /\ suspended = {}
    /\ rows = NoTimes
    /\ up = TRUE
    /\ queue = {}
    /\ mostRecent = {}
    /\ lastSeen = [k \in Keys |-> Unseen]
    /\ known = {}
    /\ associated = {}
    /\ active = NothingActive
    /\ published = {}
    /\ firstRunDone = FALSE
    /\ run = Idle
    /\ removing = {}
    /\ edits = 0
    /\ crashes = 0
    /\ received = NoTimes
    /\ absent = {}

\* The time since ts is longer than the window: getAvailabilityAlert_TimeSinceLastSeen.
Overdue(l, ts, t) == ts # NoTime /\ ts < t - Window[l]

\* isAvailabilityAlert_And_HitStopTrackingLimit
HitStopTrackingLimit(l, ts, t) ==
    ts # NoTime /\ StopAfter[l] # NoTime /\ StopAfter[l] <= t - ts

Absent(l, ts, t) == Overdue(l, ts, t) /\ ~HitStopTrackingLimit(l, ts, t)

\* A unit of the clock is longer than it takes to flush a metric: windows are
\* minutes, flushes seconds.
Tick ==
    /\ now < MaxTime
    /\ queue = {}
    /\ now' = now + 1
    /\ absent' = {p \in absent : ~HitStopTrackingLimit(p[1], received[p[2]], now')}
    /\ UNCHANGED <<rowVars, up, flushVars, trackVars, run, removing, edits, crashes, received>>

-----------------------------------------------------------------------------
(* Metric threads.                                                         *)

Receive(k) ==
    /\ up
    /\ queue' = queue \cup {k}
    /\ received' = [received EXCEPT ![k] = now]
    /\ absent' = {p \in absent : p[2] # k}
    /\ UNCHANGED <<now, rowVars, up, mostRecent, lastSeen, known, trackVars, run, removing,
                   edits, crashes>>

\* The entry both updateMetricLastSeenTimestamps put for k, when a thread has
\* drained metrics of the keys 'drained'.
LastSeenOf(k, drained) ==
    IF k \in drained THEN [current |-> now, resent |-> now]
    ELSE IF k \in mostRecent THEN [current |-> NoTime, resent |-> now]
    ELSE lastSeen[k]

\* A metric thread puts the last-seen times and the recent values of what it
\* has drained; a StatsD thread runs when it drained nothing, too, and resends.
\* What is received after the drain stays in the queue.
Flush(drained) ==
    /\ up
    /\ drained # {} \/ mostRecent # {}
    /\ lastSeen' = [k \in Keys |-> LastSeenOf(k, drained)]
    /\ known' = known \cup drained \cup mostRecent
    /\ mostRecent' = mostRecent \cup (drained \cap Resent)
    /\ queue' = queue \ drained
    /\ UNCHANGED <<now, rowVars, up, trackVars, run, removing, edits, crashes, ghostVars>>

-----------------------------------------------------------------------------
(* One run of the alert routine.                                           *)

\* The start timestamp is taken when the thread is made, before the metric
\* association and the lock.
RunAssociate ==
    /\ up
    /\ run.pc = "idle"
    /\ associated' = known \cap alert.group
    /\ run' = [run EXCEPT !.pc = "associated", !.start = now]
    /\ UNCHANGED <<now, rowVars, up, flushVars, active, published, firstRunDone, removing,
                   edits, crashes, ghostVars>>

\* Mutant: the keys of a disabled alert stay.
RetainedDeleted(row) == IF row.status = "deleted" THEN NothingActive ELSE active

\* removeDisabledActiveAvailabilityAlerts, removeDeletedActiveAvailabilityAlerts
Retained(row) == IF row.status = "enabled" THEN active ELSE NothingActive

\* Take the lock, read the alerts, collect the keys that are to be judged.
RunLoad ==
    /\ run.pc = "associated"
    /\ LockFree
    /\ active' = Retained(alert)
    /\ run' = [run EXCEPT !.pc = "evaluate",
                  !.todo = IF alert.status # "enabled" THEN {}
                           ELSE alert.on \X (associated \ suspended)]
    /\ absent' = {p \in absent : p[2] \in active[p[1]] \/ p[2] \notin suspended}
    /\ UNCHANGED <<now, rowVars, up, flushVars, associated, published, firstRunDone, removing,
                   edits, crashes, received>>

\* Mutant: a key that has been seen again is not released.
JudgeNeverReleases(l, k, ts) ==
    IF Absent(l, ts, run.start) THEN active[l] \cup {k} ELSE active[l]

\* The four cases of determineAlertStatus_Caution and _Danger: the limit has
\* been reached, no time is known, the key is recent, the key is absent.
Judge(l, k, ts) ==
    IF Absent(l, ts, run.start) THEN active[l] \cup {k} ELSE active[l] \ {k}

Evaluate(l, k) ==
    /\ run.pc = "evaluate"
    /\ <<l, k>> \in run.todo
    /\ active' = [active EXCEPT ![l] = Judge(l, k, lastSeen[k].current)]
    /\ run' = [run EXCEPT !.todo = @ \ {<<l, k>>}]
    /\ UNCHANGED <<now, rowVars, up, flushVars, associated, published, firstRunDone, removing,
                   edits, crashes, ghostVars>>

RunEvaluated ==
    /\ run.pc = "evaluate"
    /\ run.todo = {}
    /\ run' = [run EXCEPT !.pc = "delete"]
    /\ firstRunDone' = TRUE
    /\ UNCHANGED <<now, rowVars, up, flushVars, associated, active, published, removing,
                   edits, crashes, ghostVars>>

Tracked == active["caution"] \cup active["danger"]

\* updateMetricLastSeen, first commit: the rows of keys that are not tracked go.
DeleteRows ==
    /\ run.pc = "delete"
    /\ rows' = [k \in Keys |-> IF k \in Tracked THEN rows[k] ELSE NoTime]
    /\ run' = [run EXCEPT !.pc = "upsert"]
    /\ UNCHANGED <<now, alert, suspended, up, flushVars, trackVars, removing, edits, crashes,
                   ghostVars>>

\* Mutant: a key's age is written instead of its last-seen time.
UpsertRowsWithAges ==
    /\ run.pc = "upsert"
    /\ rows' = [k \in Keys |-> IF k \in Tracked THEN lastSeen[k].current - now ELSE rows[k]]
    /\ run' = [run EXCEPT !.pc = "publish"]
    /\ UNCHANGED <<now, alert, suspended, up, flushVars, trackVars, removing, edits, crashes,
                   ghostVars>>

\* Second commit: the tracked keys are written with their last-seen times.
UpsertRows ==
    /\ run.pc = "upsert"
    /\ rows' = [k \in Keys |->
                   IF k \in Tracked /\ lastSeen[k].current # NoTime THEN lastSeen[k].current
                   ELSE rows[k]]
    /\ run' = [run EXCEPT !.pc = "publish"]
    /\ UNCHANGED <<now, alert, suspended, up, flushVars, trackVars, removing, edits, crashes,
                   ghostVars>>

IsOnFor(l, k) == alert.status = "enabled" /\ l \in alert.on /\ k \in alert.group

\* updateAlertGlobalVariables; the run ends.
Publish ==
    /\ run.pc = "publish"
    /\ published' = Tracked
    /\ run' = Idle
    /\ absent' = absent \cup {p \in Levels \X Keys :
                                /\ p[2] \in active[p[1]] /\ IsOnFor(p[1], p[2])
                                /\ Absent(p[1], received[p[2]], run.start)
                                /\ Absent(p[1], received[p[2]], now)}
    /\ UNCHANGED <<now, rowVars, up, flushVars, associated, active, firstRunDone, removing,
                   edits, crashes, received>>

-----------------------------------------------------------------------------
(* The cleanup routine.                                                    *)

\* Mutant: a tracked key is removed too.
IsDueIfOld(k) == IsSeen(k) /\ now - lastSeen[k].resent > Day

IsDue(k) == IsSeen(k) /\ k \notin published /\ now - lastSeen[k].resent > Day

\* cleanupMetricsAssociations_MetricsNotRecentlySeen looks at one key ...
CleanupCheck(k) ==
    /\ up
    /\ EarlyCleanup \/ firstRunDone
    /\ LockFree
    /\ IsDue(k)
    /\ removing' = {k}
    /\ UNCHANGED <<now, rowVars, up, flushVars, trackVars, run, edits, crashes, ghostVars>>

\* ... and removes it, whatever a metric thread has put in the meantime.
CleanupRemove(k) ==
    /\ k \in removing
    /\ removing' = {}
    /\ lastSeen' = [lastSeen EXCEPT ![k] = Unseen]
    /\ known' = known \ {k}
    /\ mostRecent' = mostRecent \ {k}
    /\ associated' = associated \ {k}
    /\ active' = [l \in Levels |-> active[l] \ {k}]
    /\ published' = published \ {k}
    /\ UNCHANGED <<now, rowVars, up, queue, firstRunDone, run, edits, crashes, ghostVars>>

-----------------------------------------------------------------------------
(* Requests, suspensions, crash and restart.                               *)

Edited(kind) ==
    CASE kind = "delete"  -> {[alert EXCEPT !.status = "deleted"]}
      [] kind = "disable" -> {[alert EXCEPT !.status = "disabled"]}
      [] kind = "enable"  -> {[alert EXCEPT !.status = "enabled"]}
      [] kind = "group"   -> {[alert EXCEPT !.group = g] : g \in SUBSET Keys}
      [] kind = "level"   -> {[alert EXCEPT !.on = on] : on \in SUBSET Levels}

\* A request writes the alert's row under the lock.
EditAlert(kind) ==
    /\ up
    /\ LockFree
    /\ edits < MaxEdits
    /\ alert.status # "deleted"
    /\ alert' \in Edited(kind) \ {alert}
    /\ edits' = edits + 1
    /\ absent' = {p \in absent : /\ alert'.status = "enabled"
                                 /\ p[1] \in alert'.on /\ p[2] \in alert'.group}
    /\ UNCHANGED <<now, suspended, rows, up, flushVars, trackVars, run, removing, crashes,
                   received>>

\* The suspension routine, outside a run's evaluation: metric suspensions begin or end.
Suspend(keys) ==
    /\ up
    /\ LockFree
    /\ edits < MaxEdits
    /\ keys # suspended
    /\ suspended' = keys
    /\ edits' = edits + 1
    /\ UNCHANGED <<now, alert, rows, up, flushVars, trackVars, run, removing, crashes, ghostVars>>

\* What was received and not persisted is gone.
Crash ==
    /\ up
    /\ crashes < MaxCrashes
    /\ up' = FALSE
    /\ crashes' = crashes + 1
    /\ queue' = {}
    /\ mostRecent' = {}
    /\ lastSeen' = [k \in Keys |-> Unseen]
    /\ known' = {}
    /\ associated' = {}
    /\ active' = NothingActive
    /\ published' = {}
    /\ firstRunDone' = FALSE
    /\ run' = Idle
    /\ removing' = {}
    /\ received' = rows
    /\ UNCHANGED <<now, rowVars, edits, absent>>

\* Mutant: the persisted times are not read.
BootWithoutRows ==
    /\ ~up
    /\ up' = TRUE
    /\ UNCHANGED <<now, rowVars, flushVars, trackVars, run, removing, edits, crashes, ghostVars>>

\* readMetricLastSeenFromDatabaseAndAddToGlobalVariables
Boot ==
    /\ ~up
    /\ up' = TRUE
    /\ lastSeen' = [k \in Keys |-> [current |-> rows[k], resent |-> rows[k]]]
    /\ known' = {k \in Keys : rows[k] # NoTime}
    /\ UNCHANGED <<now, rowVars, queue, mostRecent, trackVars, run, removing, edits,
                   crashes, ghostVars>>

-----------------------------------------------------------------------------
AlertRoutine ==
    \/ RunAssociate
    \/ RunLoad
    \/ \E l \in Levels, k \in Keys : Evaluate(l, k)
    \/ RunEvaluated
    \/ DeleteRows
    \/ UpsertRows
    \/ Publish

Cleanup == \E k \in Keys : CleanupCheck(k) \/ CleanupRemove(k)

Next ==
    \/ Tick
    \/ \E k \in Keys : Receive(k)
    \/ \E drained \in SUBSET queue : Flush(drained)
    \/ AlertRoutine
    \/ Cleanup
    \/ \E kind \in Edits : EditAlert(kind)
    \/ \E keys \in SUBSET Keys : Suspend(keys)
    \/ Crash
    \/ Boot

Spec == Init /\ [][Next]_vars

\* The clock runs, a dead process is started again, the invokers start the
\* metric threads, the alert routine and the cleanup routine again and again,
\* and a thread that has started gets on.  Metrics and requests come as they like.
Fairness ==
    /\ WF_vars(Tick)
    /\ WF_vars(Boot)
    /\ WF_vars(AlertRoutine)
    /\ \A k \in Keys : SF_vars(CleanupCheck(k)) /\ WF_vars(CleanupRemove(k))
    /\ WF_vars(Flush(queue))

FairSpec == Spec /\ Fairness

-----------------------------------------------------------------------------
(* Properties                                                              *)

TypeOK ==
    /\ now \in Nat
    /\ alert \in Alert
    /\ suspended \in SUBSET Keys
    /\ rows \in [Keys -> Time]
    /\ up \in BOOLEAN
    /\ queue \in SUBSET Keys
    /\ mostRecent \in SUBSET Keys
    /\ lastSeen \in [Keys -> LastSeen]
    /\ known \in SUBSET Keys
    /\ associated \in SUBSET Keys
    /\ active \in [Levels -> SUBSET Keys]
    /\ published \in SUBSET Keys
    /\ firstRunDone \in BOOLEAN
    /\ run \in Run
    /\ removing \in SUBSET Keys
    /\ edits \in Nat /\ crashes \in Nat
    /\ received \in [Keys -> Time]
    /\ absent \in SUBSET (Levels \X Keys)

\* Once a run has found a key absent, the key stays tracked, with the time it
\* was last received in the database, through later runs, cleanups, crashes and
\* restarts, until it is received again, 'stop tracking' is reached or a
\* request takes it from the alert (a key suspended over a restart is lost).
AbsenceRemembered ==
    up /\ firstRunDone /\ ~AlertLocked =>
        \A p \in absent : /\ p[2] \in active[p[1]]
                          /\ p[2] \in published
                          /\ rows[p[2]] = received[p[2]]

\* When metrics, requests and the clock have come to rest, the alert is active
\* for exactly the keys that were last received before the window, however the
\* start timestamps, the flushes, the cleanups and a restart fell.
VerdictSettles ==
    \A l \in Levels, k \in Keys :
        <>[](k \notin suspended =>
                (k \in active[l] <=> IsSeen(k) /\ IsOnFor(l, k) /\ Absent(l, received[k], now)))

\* A key that has fallen silent is forgotten in the end, its row as well,
\* unless an alert that is enabled for it still waits for it.
KeysReleased ==
    \A k \in Keys :
        <>[](/\ rows[k] # NoTime => IsSeen(k)
             /\ IsSeen(k) => \/ now - lastSeen[k].resent <= Day
                             \/ k \in suspended
                             \/ \E l \in Levels : IsOnFor(l, k) /\ Absent(l, received[k], now))

=============================================================================
