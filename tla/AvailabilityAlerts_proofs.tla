---------------------- MODULE AvailabilityAlerts_proofs ----------------------
(***************************************************************************)
(* Proofs about AvailabilityAlerts: type correctness, and, if no StatsD    *)
(* value is sent again and the cleanup waits for the first alert run, that *)
(* a key found absent stays remembered through runs, cleanups, requests,   *)
(* crashes and restarts.                                                   *)
(***************************************************************************)
EXTENDS AvailabilityAlerts, TLAPS

LEMMA TimesAreIntegers ==
    /\ NoTime \in Time /\ Nat \subseteq Time /\ Time \subseteq Int
    /\ \A t \in Time : t # NoTime => t \in Nat
    /\ NoTime \notin Nat
BY DEF Time, NoTime

-----------------------------------------------------------------------------
(* Type correctness.                                                       *)

LEMMA TypeInit == Init => TypeOK
<1> SUFFICES ASSUME Init PROVE TypeOK
  OBVIOUS
<1>1. alert \in Alert /\ run \in Run
  BY DEF Init, Alert, Run, Idle
<1>2. rows \in [Keys -> Time] /\ received \in [Keys -> Time] /\ lastSeen \in [Keys -> LastSeen]
  BY TimesAreIntegers DEF Init, NoTimes, Unseen, LastSeen
<1>3. active \in [Levels -> SUBSET Keys]
  BY DEF Init, NothingActive
<1> QED BY <1>1, <1>2, <1>3 DEF Init, TypeOK

LEMMA LastSeenType ==
    ASSUME TypeOK, NEW k \in Keys, NEW drained \in SUBSET Keys
    PROVE  LastSeenOf(k, drained) \in LastSeen
BY TimesAreIntegers DEF TypeOK, LastSeenOf, LastSeen

LEMMA MetricThreadsType ==
    ASSUME TypeOK,
           \/ Tick
           \/ \E k \in Keys : Receive(k)
           \/ \E drained \in SUBSET queue : Flush(drained)
    PROVE  TypeOK'
<1> USE DEF TypeOK, rowVars, trackVars, flushVars, ghostVars
<1>1. CASE Tick
  BY <1>1 DEF Tick
<1>2. ASSUME NEW k \in Keys, Receive(k)
      PROVE  TypeOK'
  BY <1>2, TimesAreIntegers DEF Receive
<1>3. ASSUME NEW drained \in SUBSET queue, Flush(drained)
      PROVE  TypeOK'
  <2>1. lastSeen' \in [Keys -> LastSeen]
    BY <1>3, LastSeenType DEF Flush
  <2> QED BY <1>3, <2>1 DEF Flush
<1> QED BY <1>1, <1>2, <1>3

LEMMA AlertRoutineType ==
    ASSUME TypeOK, AlertRoutine
    PROVE  TypeOK'
<1> USE DEF TypeOK, Run, rowVars, trackVars, flushVars, ghostVars
<1>1. CASE RunAssociate
  BY <1>1 DEF RunAssociate, Alert
<1>2. CASE RunLoad
  <2>1. active' \in [Levels -> SUBSET Keys]
    BY <1>2 DEF RunLoad, Retained, NothingActive
  <2>2. run' \in Run
    BY <1>2 DEF RunLoad, Alert
  <2> QED BY <1>2, <2>1, <2>2 DEF RunLoad
<1>3. ASSUME NEW l \in Levels, NEW k \in Keys, Evaluate(l, k)
      PROVE  TypeOK'
  <2>1. Judge(l, k, lastSeen[k].current) \in SUBSET Keys
    BY DEF Judge
  <2> QED BY <1>3, <2>1 DEF Evaluate
<1>4. CASE RunEvaluated
  BY <1>4 DEF RunEvaluated
<1>5. CASE DeleteRows
  BY <1>5, TimesAreIntegers DEF DeleteRows
<1>6. CASE UpsertRows
  <2>1. rows' \in [Keys -> Time]
    BY <1>6 DEF UpsertRows, LastSeen
  <2> QED BY <1>6, <2>1 DEF UpsertRows
<1>7. CASE Publish
  BY <1>7 DEF Publish, Tracked, Idle, Levels
<1> QED BY <1>1, <1>2, <1>3, <1>4, <1>5, <1>6, <1>7 DEF AlertRoutine

LEMMA CleanupTypes ==
    ASSUME TypeOK, Cleanup
    PROVE  TypeOK'
<1> USE DEF TypeOK, rowVars, trackVars, flushVars, ghostVars
<1>1. ASSUME NEW k \in Keys, CleanupCheck(k)
      PROVE  TypeOK'
  BY <1>1 DEF CleanupCheck
<1>2. ASSUME NEW k \in Keys, CleanupRemove(k)
      PROVE  TypeOK'
  <2>1. Unseen \in LastSeen
    BY TimesAreIntegers DEF Unseen, LastSeen
  <2>2. /\ lastSeen' \in [Keys -> LastSeen]
        /\ active' \in [Levels -> SUBSET Keys]
    BY <1>2, <2>1 DEF CleanupRemove
  <2> QED BY <1>2, <2>2 DEF CleanupRemove
<1> QED BY <1>1, <1>2 DEF Cleanup

LEMMA OperatorsType ==
    ASSUME TypeOK,
           \/ \E kind \in Edits : EditAlert(kind)
           \/ \E keys \in SUBSET Keys : Suspend(keys)
    PROVE  TypeOK'
<1> USE DEF TypeOK, rowVars, trackVars, flushVars, ghostVars
<1>1. ASSUME NEW kind \in Edits, EditAlert(kind)
      PROVE  TypeOK'
  <2>1. kind \in EditKinds
    BY CriteriaAssumption
  <2>2. Edited(kind) \subseteq Alert
    BY <2>1 DEF Edited, EditKinds, Alert
  <2> QED BY <1>1, <2>2 DEF EditAlert
<1>2. ASSUME NEW keys \in SUBSET Keys, Suspend(keys)
      PROVE  TypeOK'
  BY <1>2 DEF Suspend
<1> QED BY <1>1, <1>2

LEMMA ProcessType ==
    ASSUME TypeOK, Crash \/ Boot
    PROVE  TypeOK'
<1> USE DEF TypeOK, rowVars, trackVars, flushVars, ghostVars
<1>1. CASE Crash
  <2>1. run' \in Run
    BY <1>1 DEF Crash, Idle, Run
  <2>2. lastSeen' \in [Keys -> LastSeen]
    BY <1>1, TimesAreIntegers DEF Crash, Unseen, LastSeen
  <2>3. active' \in [Levels -> SUBSET Keys]
    BY <1>1 DEF Crash, NothingActive
  <2>4. /\ UNCHANGED <<now, rowVars, edits, absent>>
        /\ queue' = {} /\ mostRecent' = {} /\ known' = {} /\ associated' = {} /\ published' = {}
        /\ removing' = {} /\ up' = FALSE /\ firstRunDone' = FALSE
        /\ crashes' = crashes + 1 /\ received' = rows
    BY <1>1 DEF Crash
  <2>5. crashes' \in Nat
    BY <2>4
  <2>10. up' \in BOOLEAN /\ firstRunDone' \in BOOLEAN
    BY <2>4, Zenon
  <2>6. now' \in Nat /\ alert' \in Alert /\ suspended' \in SUBSET Keys /\ rows' \in [Keys -> Time]
    BY <2>4
  <2>7. received' \in [Keys -> Time] /\ absent' \in SUBSET (Levels \X Keys) /\ edits' \in Nat
    BY <2>4
  <2>8. queue' \in SUBSET Keys /\ mostRecent' \in SUBSET Keys /\ known' \in SUBSET Keys
    BY <2>4
  <2>9. associated' \in SUBSET Keys /\ published' \in SUBSET Keys /\ removing' \in SUBSET Keys
    BY <2>4
  <2> QED BY <2>1, <2>2, <2>3, <2>5, <2>6, <2>7, <2>8, <2>9, <2>10
<1>2. CASE Boot
  BY <1>2 DEF Boot, LastSeen
<1> QED BY <1>1, <1>2

LEMMA TypeStep == TypeOK /\ [Next]_vars => TypeOK'
<1> SUFFICES ASSUME TypeOK, [Next]_vars PROVE TypeOK'
  OBVIOUS
<1>1. CASE UNCHANGED vars
  BY <1>1 DEF vars, rowVars, trackVars, flushVars, ghostVars, TypeOK
<1> QED BY <1>1, MetricThreadsType, AlertRoutineType, CleanupTypes, OperatorsType, ProcessType
       DEF Next

\* The tables, the maps and the locals of each routine have the values the code
\* gives them, for any keys, windows and bounds.
THEOREM TrackingTypeCorrect == Spec => []TypeOK
BY TypeInit, TypeStep, PTL DEF Spec

-----------------------------------------------------------------------------
(* The inductive invariant, when nothing is sent again.                     *)

\* What a dead process leaves, and who keeps out of whose way.
Process ==
    /\ run.start <= now
    /\ ~up => run.pc = "idle" /\ removing = {} /\ queue = {} /\ received = rows
    /\ removing # {} => firstRunDone /\ ~AlertLocked /\ removing \cap published = {}

\* The last-seen time of a key is when it was received, unless it has just
\* arrived or has been forgotten; a tracked key has one.
TimesKept ==
    /\ mostRecent = {}
    /\ \A k \in queue : received[k] = now
    /\ \A k \in Keys : /\ lastSeen[k].current = lastSeen[k].resent
                       /\ k \in queue \/ lastSeen[k].current \in {received[k], NoTime}
                       /\ IsSeen(k) => k \in known
    /\ \A l \in Levels : \A k \in active[l] : IsSeen(k)

\* A run that is about to publish has written the times of what it found absent.
Written ==
    run.pc = "publish" =>
        \A l \in Levels : \A k \in active[l] :
            Absent(l, received[k], run.start) => rows[k] = received[k]

\* A pair that was found absent still is, for the run under way as well.
StillAbsent(l, k) ==
    /\ IsOnFor(l, k)
    /\ Absent(l, received[k], now)
    /\ run.pc # "idle" => Overdue(l, received[k], run.start)
    /\ rows[k] = received[k]
    /\ up => lastSeen[k].current = received[k]

\* The run under way, if any, keeps it.
StillTracked(l, k) ==
    /\ ~AlertLocked /\ firstRunDone => k \in active[l] /\ k \in published
    /\ run.pc = "associated" => k \in associated
    /\ run.pc = "evaluate" => k \in active[l] \/ <<l, k>> \in run.todo
    /\ run.pc \in {"delete", "upsert", "publish"} => k \in active[l]

Remembered ==
    \A l \in Levels, k \in Keys : <<l, k>> \in absent => StillAbsent(l, k) /\ StillTracked(l, k)

IInv == TypeOK /\ Process /\ TimesKept /\ Written /\ Remembered

USE TimesAreIntegers

LEMMA IInvInit ==
    ASSUME Init
    PROVE  IInv
<1>1. TypeOK
  BY TypeInit
<1> QED BY <1>1 DEF Init, IInv, Process, TimesKept, Written, Remembered, NoTimes, NothingActive,
      Unseen, IsSeen, Idle

\* A pair that is overdue for an earlier run, and has not reached the limit now,
\* is absent at every time between.
LEMMA AbsentBetween ==
    ASSUME NEW l \in Levels, NEW ts \in Time, NEW s \in Nat, NEW t \in Nat, s <= t,
           Overdue(l, ts, s), ~HitStopTrackingLimit(l, ts, t)
    PROVE  Absent(l, ts, s) /\ Absent(l, ts, t)
<1>1. Window[l] \in Nat /\ StopAfter[l] \in Time /\ ts \in Nat
  BY CriteriaAssumption DEF Overdue, Time
<1> QED BY <1>1 DEF Overdue, HitStopTrackingLimit, Absent

LEMMA OverdueLater ==
    ASSUME NEW l \in Levels, NEW ts \in Time, NEW s \in Nat, NEW t \in Nat, s <= t,
           Overdue(l, ts, s)
    PROVE  Overdue(l, ts, t)
<1>1. Window[l] \in Nat /\ ts \in Nat
  BY CriteriaAssumption DEF Overdue, Time
<1> QED BY <1>1 DEF Overdue

LEMMA TickKeeps ==
    ASSUME IInv, TypeOK', Tick
    PROVE  IInv'
<1> USE DEF IInv, TypeOK, Run
<1>1. /\ now' = now + 1 /\ queue = {}
      /\ UNCHANGED <<alert, suspended, rows, up, queue, mostRecent, lastSeen, known, associated,
                     active, published, firstRunDone, run, removing, received>>
      /\ absent' = {p \in absent : ~HitStopTrackingLimit(p[1], received[p[2]], now')}
  BY DEF Tick, rowVars, flushVars, trackVars
<1>2. Process'
  BY <1>1 DEF Process, AlertLocked
<1>3. TimesKept' /\ Written'
  BY <1>1 DEF TimesKept, Written, IsSeen, Absent, Overdue, HitStopTrackingLimit
<1>4. Remembered'
  <2> SUFFICES ASSUME NEW l \in Levels, NEW k \in Keys, <<l, k>> \in absent'
               PROVE  StillAbsent(l, k)' /\ StillTracked(l, k)'
    BY DEF Remembered
  <2>1. /\ StillAbsent(l, k) /\ StillTracked(l, k)
        /\ ~HitStopTrackingLimit(l, received[k], now')
    BY <1>1 DEF Remembered
  <2>2. received[k] \in Time /\ now \in Nat /\ now' \in Nat /\ now <= now'
    BY <1>1
  <2>3. Absent(l, received[k], now')
    <3>1. Overdue(l, received[k], now)
      BY <2>1 DEF StillAbsent, Absent
    <3>2. Overdue(l, received[k], now')
      BY <2>2, <3>1, OverdueLater
    <3> QED BY <2>1, <3>2 DEF Absent
  <2> QED BY <1>1, <2>1, <2>3 DEF StillAbsent, StillTracked, IsOnFor, AlertLocked, Absent,
        Overdue, HitStopTrackingLimit
<1> QED BY <1>2, <1>3, <1>4

LEMMA ReceiveKeeps ==
    ASSUME IInv, TypeOK', NEW key \in Keys, Receive(key)
    PROVE  IInv'
<1> USE DEF IInv, TypeOK, Run
<1>1. /\ up /\ queue' = queue \cup {key} /\ received' = [received EXCEPT ![key] = now]
      /\ absent' = {p \in absent : p[2] # key}
      /\ UNCHANGED <<now, alert, suspended, rows, up, mostRecent, lastSeen, known, associated,
                     active, published, firstRunDone, run, removing>>
  BY DEF Receive, rowVars, trackVars
<1>2. received'[key] = now /\ \A k \in Keys \ {key} : received'[k] = received[k]
  BY <1>1
<1>3. Process'
  BY <1>1 DEF Process, AlertLocked
<1>4. TimesKept'
  BY <1>1, <1>2 DEF TimesKept, IsSeen
<1>5. Written'
  <2>1. \A l \in Levels : ~Absent(l, now, run.start)
    BY CriteriaAssumption DEF Process, Absent, Overdue
  <2> QED BY <1>1, <1>2, <2>1 DEF Written, Absent, Overdue, HitStopTrackingLimit
<1>6. Remembered'
  <2> SUFFICES ASSUME NEW l \in Levels, NEW k \in Keys, <<l, k>> \in absent'
               PROVE  StillAbsent(l, k)' /\ StillTracked(l, k)'
    BY DEF Remembered
  <2>1. k # key /\ StillAbsent(l, k) /\ StillTracked(l, k)
    BY <1>1 DEF Remembered
  <2> QED BY <1>1, <1>2, <2>1 DEF StillAbsent, StillTracked, IsOnFor, AlertLocked, Absent,
        Overdue, HitStopTrackingLimit
<1> QED BY <1>3, <1>4, <1>5, <1>6

LEMMA FlushKeeps ==
    ASSUME IInv, TypeOK', Resent = {}, NEW drained \in SUBSET queue, Flush(drained)
    PROVE  IInv'
<1> USE DEF IInv, TypeOK, Run
<1>1. /\ queue' = queue \ drained /\ mostRecent' = {} /\ known' = known \cup drained
      /\ UNCHANGED <<now, alert, suspended, rows, up, associated, active, published, firstRunDone,
                     run, removing, received, absent>>
  BY DEF Flush, rowVars, trackVars, ghostVars, TimesKept
<1>2. \A k \in Keys : lastSeen'[k] = IF k \in drained THEN [current |-> now, resent |-> now]
                                    ELSE lastSeen[k]
  BY DEF Flush, LastSeenOf, TimesKept
<1>3. Process'
  BY <1>1 DEF Process, AlertLocked
<1>4. TimesKept'
  BY <1>1, <1>2 DEF TimesKept, IsSeen
<1>5. Written'
  BY <1>1 DEF Written, Absent, Overdue, HitStopTrackingLimit
<1>6. Remembered'
  <2> SUFFICES ASSUME NEW l \in Levels, NEW k \in Keys, <<l, k>> \in absent
               PROVE  StillAbsent(l, k)' /\ StillTracked(l, k)'
    BY <1>1 DEF Remembered
  <2>1. StillAbsent(l, k) /\ StillTracked(l, k)
    BY DEF Remembered
  <2>2. k \in drained => lastSeen'[k].current = received[k]
    BY <1>2 DEF TimesKept
  <2> QED BY <1>1, <1>2, <2>1, <2>2 DEF StillAbsent, StillTracked, IsOnFor, AlertLocked, Absent,
        Overdue, HitStopTrackingLimit
<1> QED BY <1>3, <1>4, <1>5, <1>6

-----------------------------------------------------------------------------
(* The alert routine leaves the metrics, the times and the alert alone.     *)

LEMMA RoutineLeaves ==
    ASSUME AlertRoutine
    PROVE  UNCHANGED <<now, alert, suspended, up, queue, mostRecent, lastSeen, known, removing,
                       received>>
BY DEF AlertRoutine, RunAssociate, RunLoad, Evaluate, RunEvaluated, DeleteRows, UpsertRows, Publish,
       rowVars, flushVars, ghostVars

\* The times stay kept if what is tracked has one.
LEMMA TimesStayKept ==
    ASSUME TypeOK, TypeOK', TimesKept,
           UNCHANGED <<now, queue, mostRecent, lastSeen, known, received>>,
           \A l \in Levels : \A k \in active'[l] : k \in active[l] \/ IsSeen(k)
    PROVE  TimesKept'
BY DEF TimesKept, IsSeen, TypeOK

\* What is absent stays so if neither its times nor the alert change.
LEMMA StaysAbsent ==
    ASSUME TypeOK, NEW l \in Levels, NEW k \in Keys, StillAbsent(l, k),
           UNCHANGED <<now, alert, up, lastSeen, received>>,
           rows'[k] = received[k],
           run'.pc # "idle" => Overdue(l, received[k], run'.start)
    PROVE  StillAbsent(l, k)'
BY DEF StillAbsent, IsOnFor, Absent, Overdue, HitStopTrackingLimit

LEMMA RunAssociateKeeps ==
    ASSUME IInv, TypeOK', RunAssociate
    PROVE  IInv'
<1> USE DEF IInv, TypeOK, Run
<1>1. /\ up /\ run.pc = "idle" /\ associated' = known \cap alert.group
      /\ run'.pc = "associated" /\ run'.start = now
      /\ UNCHANGED <<now, alert, rows, up, queue, mostRecent, lastSeen, known, active, published,
                     firstRunDone, removing, received, absent>>
  BY DEF RunAssociate, rowVars, flushVars, ghostVars
<1>2. Process' /\ Written'
  BY <1>1 DEF Process, Written, AlertLocked
<1>3. TimesKept'
  BY <1>1, TimesStayKept
<1>4. Remembered'
  <2> SUFFICES ASSUME NEW l \in Levels, NEW k \in Keys, <<l, k>> \in absent
               PROVE  StillAbsent(l, k)' /\ StillTracked(l, k)'
    BY <1>1 DEF Remembered
  <2>1. StillAbsent(l, k) /\ StillTracked(l, k)
    BY DEF Remembered
  <2>2. Overdue(l, received[k], now) /\ received[k] # NoTime
    BY <2>1 DEF StillAbsent, Absent, Overdue
  <2>3. StillAbsent(l, k)'
    BY <1>1, <2>1, <2>2, StaysAbsent DEF StillAbsent
  <2>4. k \in known /\ k \in alert.group
    BY <1>1, <2>1, <2>2 DEF StillAbsent, TimesKept, IsSeen, IsOnFor
  <2> QED BY <1>1, <2>1, <2>3, <2>4 DEF StillTracked, AlertLocked
<1> QED BY <1>2, <1>3, <1>4

LEMMA RunLoadKeeps ==
    ASSUME IInv, TypeOK', RunLoad
    PROVE  IInv'
<1> USE DEF IInv, TypeOK, Run
<1>1. /\ run.pc = "associated" /\ removing = {} /\ ~AlertLocked
      /\ active' = Retained(alert)
      /\ run'.pc = "evaluate" /\ run'.start = run.start
      /\ alert.status = "enabled" => run'.todo = alert.on \X (associated \ suspended)
      /\ absent' = {p \in absent : p[2] \in active[p[1]] \/ p[2] \notin suspended}
      /\ UNCHANGED <<now, alert, rows, up, queue, mostRecent, lastSeen, known, associated, published,
                     firstRunDone, removing, received>>
  BY DEF RunLoad, LockFree, rowVars, flushVars
<1>2. Process' /\ Written'
  BY <1>1 DEF Process, Written, AlertLocked
<1>3. TimesKept'
  <2>1. \A l \in Levels : active'[l] \subseteq active[l]
    BY <1>1 DEF Retained, NothingActive
  <2> QED BY <1>1, <2>1, TimesStayKept
<1>4. Remembered'
  <2> SUFFICES ASSUME NEW l \in Levels, NEW k \in Keys, <<l, k>> \in absent'
               PROVE  StillAbsent(l, k)' /\ StillTracked(l, k)'
    BY DEF Remembered
  <2>1. StillAbsent(l, k) /\ StillTracked(l, k) /\ (k \in active[l] \/ k \notin suspended)
    BY <1>1 DEF Remembered
  <2>2. alert.status = "enabled" /\ l \in alert.on /\ k \in associated
    BY <1>1, <2>1 DEF StillAbsent, StillTracked, IsOnFor
  <2>3. k \in active'[l] \/ <<l, k>> \in run'.todo
    BY <1>1, <2>1, <2>2 DEF Retained
  <2>4. StillAbsent(l, k)'
    BY <1>1, <2>1, StaysAbsent DEF StillAbsent
  <2> QED BY <1>1, <2>3, <2>4 DEF StillTracked, AlertLocked
<1> QED BY <1>2, <1>3, <1>4

LEMMA EvaluateKeeps ==
    ASSUME IInv, TypeOK', NEW level \in Levels, NEW key \in Keys, Evaluate(level, key)
    PROVE  IInv'
<1> USE DEF IInv, TypeOK, Run
<1>1. /\ run.pc = "evaluate"
      /\ run'.pc = "evaluate" /\ run'.start = run.start /\ run'.todo = run.todo \ {<<level, key>>}
      /\ UNCHANGED <<now, alert, rows, up, queue, mostRecent, lastSeen, known, associated, published,
                     firstRunDone, removing, received, absent>>
  BY DEF Evaluate, rowVars, flushVars, ghostVars
<1>2. /\ active'[level] = Judge(level, key, lastSeen[key].current)
      /\ \A l \in Levels \ {level} : active'[l] = active[l]
  BY DEF Evaluate
<1>3. Process' /\ Written'
  BY <1>1 DEF Process, Written, AlertLocked
<1>4. TimesKept'
  <2>1. \A k \in active'[level] : k \in active[level] \/ IsSeen(k)
    BY <1>2 DEF Judge, Absent, Overdue, TimesKept, IsSeen
  <2> QED BY <1>1, <1>2, <2>1, TimesStayKept
<1>5. Remembered'
  <2> SUFFICES ASSUME NEW l \in Levels, NEW k \in Keys, <<l, k>> \in absent
               PROVE  StillAbsent(l, k)' /\ StillTracked(l, k)'
    BY <1>1 DEF Remembered
  <2>1. StillAbsent(l, k) /\ StillTracked(l, k)
    BY DEF Remembered
  <2>2. StillAbsent(l, k)'
    BY <1>1, <2>1, StaysAbsent DEF StillAbsent
  <2>3. k \in active'[l] \/ <<l, k>> \in run'.todo
    <3>1. CASE l = level /\ k = key
      <4>1. received[k] \in Time /\ run.start \in Nat /\ now \in Nat /\ run.start <= now
        BY DEF Process
      <4>2. Absent(l, received[k], run.start)
        BY <1>1, <2>1, <4>1, AbsentBetween DEF StillAbsent, Absent
      <4>3. lastSeen[k].current = received[k]
        BY <1>1, <2>1 DEF StillAbsent, Process
      <4> QED BY <1>2, <3>1, <4>2, <4>3 DEF Judge
    <3>2. CASE l = level /\ k # key
      BY <1>1, <1>2, <2>1, <3>2 DEF Judge, StillTracked
    <3>3. CASE l # level
      BY <1>1, <1>2, <2>1, <3>3 DEF StillTracked
    <3> QED BY <3>1, <3>2, <3>3
  <2> QED BY <1>1, <2>2, <2>3 DEF StillTracked, AlertLocked
<1> QED BY <1>3, <1>4, <1>5

LEMMA RunEvaluatedKeeps ==
    ASSUME IInv, TypeOK', RunEvaluated
    PROVE  IInv'
<1> USE DEF IInv, TypeOK, Run
<1>1. /\ run.pc = "evaluate" /\ run.todo = {}
      /\ run'.pc = "delete" /\ run'.start = run.start
      /\ UNCHANGED <<now, alert, rows, up, queue, mostRecent, lastSeen, known, active, removing,
                     received, absent>>
  BY DEF RunEvaluated, rowVars, flushVars, ghostVars
<1>2. Process' /\ Written'
  BY <1>1 DEF Process, Written, AlertLocked
<1>3. TimesKept'
  BY <1>1, TimesStayKept
<1>4. Remembered'
  <2> SUFFICES ASSUME NEW l \in Levels, NEW k \in Keys, <<l, k>> \in absent
               PROVE  StillAbsent(l, k)' /\ StillTracked(l, k)'
    BY <1>1 DEF Remembered
  <2>1. StillAbsent(l, k) /\ StillTracked(l, k)
    BY DEF Remembered
  <2>2. StillAbsent(l, k)'
    BY <1>1, <2>1, StaysAbsent DEF StillAbsent
  <2> QED BY <1>1, <2>1, <2>2 DEF StillTracked, AlertLocked
<1> QED BY <1>2, <1>3, <1>4

\* The two commits that write the rows keep those of tracked keys.
LEMMA DeleteRowsKeeps ==
    ASSUME IInv, TypeOK', DeleteRows
    PROVE  IInv'
<1> USE DEF IInv, TypeOK, Run
<1>1. /\ run.pc = "delete" /\ run'.pc = "upsert" /\ run'.start = run.start
      /\ rows' = [k \in Keys |-> IF k \in Tracked THEN rows[k] ELSE NoTime]
      /\ UNCHANGED <<now, alert, up, queue, mostRecent, lastSeen, known, associated, active, published,
                     firstRunDone, removing, received, absent>>
  BY DEF DeleteRows, flushVars, trackVars, ghostVars
<1>2. Process' /\ Written'
  BY <1>1 DEF Process, Written, AlertLocked
<1>3. TimesKept'
  BY <1>1, TimesStayKept
<1>4. Remembered'
  <2> SUFFICES ASSUME NEW l \in Levels, NEW k \in Keys, <<l, k>> \in absent
               PROVE  StillAbsent(l, k)' /\ StillTracked(l, k)'
    BY <1>1 DEF Remembered
  <2>1. StillAbsent(l, k) /\ StillTracked(l, k)
    BY DEF Remembered
  <2>2. k \in Tracked
    BY <1>1, <2>1 DEF StillTracked, Tracked, Levels
  <2>3. StillAbsent(l, k)'
    BY <1>1, <2>1, <2>2, StaysAbsent DEF StillAbsent
  <2> QED BY <1>1, <2>1, <2>3 DEF StillTracked, AlertLocked
<1> QED BY <1>2, <1>3, <1>4

LEMMA UpsertRowsKeeps ==
    ASSUME IInv, TypeOK', UpsertRows
    PROVE  IInv'
<1> USE DEF IInv, TypeOK, Run
<1>1. /\ run.pc = "upsert" /\ run'.pc = "publish" /\ run'.start = run.start /\ up
      /\ rows' = [k \in Keys |->
            IF k \in Tracked /\ lastSeen[k].current # NoTime THEN lastSeen[k].current ELSE rows[k]]
      /\ UNCHANGED <<now, alert, up, queue, mostRecent, lastSeen, known, associated, active, published,
                     firstRunDone, removing, received, absent>>
  BY DEF UpsertRows, flushVars, trackVars, ghostVars, Process
<1>2. Process'
  BY <1>1 DEF Process, AlertLocked
<1>3. TimesKept'
  BY <1>1, TimesStayKept
<1>4. Written'
  <2> SUFFICES ASSUME NEW l \in Levels, NEW k \in active[l], Absent(l, received[k], run.start)
               PROVE  rows'[k] = received[k]
    BY <1>1 DEF Written, Absent, Overdue, HitStopTrackingLimit
  <2>1. k \in Keys /\ k \in Tracked
    BY DEF Tracked, Levels
  <2>2. received[k] # now
    BY <2>1, CriteriaAssumption DEF Absent, Overdue, Process
  <2>3. lastSeen[k].current = received[k] /\ lastSeen[k].current # NoTime
    BY <2>1, <2>2 DEF TimesKept, IsSeen
  <2> QED BY <1>1, <2>1, <2>3
<1>5. Remembered'
  <2> SUFFICES ASSUME NEW l \in Levels, NEW k \in Keys, <<l, k>> \in absent
               PROVE  StillAbsent(l, k)' /\ StillTracked(l, k)'
    BY <1>1 DEF Remembered
  <2>1. StillAbsent(l, k) /\ StillTracked(l, k)
    BY DEF Remembered
  <2>2. rows'[k] = received[k]
    BY <1>1, <2>1 DEF StillAbsent
  <2>3. StillAbsent(l, k)'
    BY <1>1, <2>1, <2>2, StaysAbsent DEF StillAbsent
  <2> QED BY <1>1, <2>1, <2>3 DEF StillTracked, AlertLocked
<1> QED BY <1>2, <1>3, <1>4, <1>5

LEMMA PublishKeeps ==
    ASSUME IInv, TypeOK', Publish
    PROVE  IInv'
<1> USE DEF IInv, TypeOK, Run
<1>1. /\ run.pc = "publish" /\ run'.pc = "idle" /\ run'.start = 0 /\ up /\ removing = {}
      /\ published' = Tracked
      /\ UNCHANGED <<now, alert, rows, up, queue, mostRecent, lastSeen, known, associated, active,
                     firstRunDone, removing, received>>
  BY DEF Publish, rowVars, flushVars, ghostVars, Process, Idle, AlertLocked
<1>2. absent' = absent \cup {p \in Levels \X Keys :
                                /\ p[2] \in active[p[1]] /\ IsOnFor(p[1], p[2])
                                /\ Absent(p[1], received[p[2]], run.start)
                                /\ Absent(p[1], received[p[2]], now)}
  BY DEF Publish
<1>3. Process' /\ Written'
  BY <1>1 DEF Process, Written, AlertLocked
<1>4. TimesKept'
  BY <1>1, TimesStayKept
<1>5. Remembered'
  <2> SUFFICES ASSUME NEW l \in Levels, NEW k \in Keys, <<l, k>> \in absent'
               PROVE  StillAbsent(l, k)' /\ StillTracked(l, k)'
    BY DEF Remembered
  <2>1. /\ k \in active[l] /\ IsOnFor(l, k) /\ Absent(l, received[k], now)
        /\ rows[k] = received[k] /\ lastSeen[k].current = received[k]
    <3>1. CASE <<l, k>> \in absent
      BY <1>1, <3>1 DEF Remembered, StillAbsent, StillTracked
    <3>2. CASE <<l, k>> \notin absent
      <4>1. /\ k \in active[l] /\ IsOnFor(l, k)
            /\ Absent(l, received[k], run.start) /\ Absent(l, received[k], now)
        BY <1>2, <3>2
      <4>2. received[k] # now
        BY <4>1, CriteriaAssumption DEF Absent, Overdue
      <4>3. lastSeen[k].current = received[k]
        BY <4>1, <4>2 DEF TimesKept, IsSeen
      <4> QED BY <1>1, <4>1, <4>3 DEF Written
    <3> QED BY <3>1, <3>2
  <2>2. k \in Tracked
    BY <2>1 DEF Tracked, Levels
  <2>3. StillAbsent(l, k)'
    BY <1>1, <2>1 DEF StillAbsent, IsOnFor, Absent, Overdue, HitStopTrackingLimit
  <2> QED BY <1>1, <2>1, <2>2, <2>3 DEF StillTracked, AlertLocked
<1> QED BY <1>3, <1>4, <1>5

LEMMA AlertRoutineKeeps ==
    ASSUME IInv, TypeOK', AlertRoutine
    PROVE  IInv'
BY RunAssociateKeeps, RunLoadKeeps, EvaluateKeeps, RunEvaluatedKeeps, DeleteRowsKeeps,
   UpsertRowsKeeps, PublishKeeps DEF AlertRoutine

-----------------------------------------------------------------------------
(* The cleanup, the operators, and the process.                             *)

LEMMA CleanupCheckKeeps ==
    ASSUME IInv, TypeOK', ~EarlyCleanup, NEW key \in Keys, CleanupCheck(key)
    PROVE  IInv'
<1> USE DEF IInv, TypeOK, Run
<1>1. /\ up /\ firstRunDone /\ ~AlertLocked /\ key \notin published /\ removing' = {key}
      /\ UNCHANGED <<now, alert, rows, up, queue, mostRecent, lastSeen, known, associated, active,
                     published, firstRunDone, run, received, absent>>
  BY DEF CleanupCheck, LockFree, IsDue, rowVars, flushVars, trackVars, ghostVars
<1>2. Process' /\ Written'
  BY <1>1 DEF Process, Written, AlertLocked, Absent, Overdue, HitStopTrackingLimit
<1>3. TimesKept'
  BY <1>1, TimesStayKept
<1>4. Remembered'
  BY <1>1 DEF Remembered, StillAbsent, StillTracked, IsOnFor, AlertLocked, Absent, Overdue,
        HitStopTrackingLimit
<1> QED BY <1>2, <1>3, <1>4

LEMMA CleanupRemoveKeeps ==
    ASSUME IInv, TypeOK', NEW key \in Keys, CleanupRemove(key)
    PROVE  IInv'
<1> USE DEF IInv, TypeOK, Run
<1>1. /\ key \in removing /\ firstRunDone /\ ~AlertLocked /\ key \notin published
      /\ removing' = {} /\ up
      /\ lastSeen' = [lastSeen EXCEPT ![key] = Unseen] /\ known' = known \ {key}
      /\ mostRecent' = mostRecent \ {key} /\ associated' = associated \ {key}
      /\ active' = [l \in Levels |-> active[l] \ {key}] /\ published' = published \ {key}
      /\ UNCHANGED <<now, alert, rows, up, queue, firstRunDone, run, received, absent>>
  BY DEF CleanupRemove, Process, rowVars, ghostVars
<1>2. /\ lastSeen'[key].current = NoTime /\ lastSeen'[key].resent = NoTime
      /\ \A k \in Keys \ {key} : lastSeen'[k] = lastSeen[k]
  BY <1>1 DEF Unseen
<1>3. Process'
  BY <1>1 DEF Process, AlertLocked
<1>4. Written'
  BY <1>1 DEF Written, AlertLocked
<1>5. TimesKept'
  BY <1>1, <1>2 DEF TimesKept, IsSeen
<1>6. Remembered'
  <2> SUFFICES ASSUME NEW l \in Levels, NEW k \in Keys, <<l, k>> \in absent
               PROVE  StillAbsent(l, k)' /\ StillTracked(l, k)'
    BY <1>1 DEF Remembered
  <2>1. StillAbsent(l, k) /\ StillTracked(l, k)
    BY DEF Remembered
  <2>2. k # key
    BY <1>1, <2>1 DEF StillTracked
  <2> QED BY <1>1, <1>2, <2>1, <2>2 DEF StillAbsent, StillTracked, IsOnFor, AlertLocked, Absent,
        Overdue, HitStopTrackingLimit
<1> QED BY <1>3, <1>4, <1>5, <1>6

LEMMA EditAlertKeeps ==
    ASSUME IInv, TypeOK', NEW kind \in Edits, EditAlert(kind)
    PROVE  IInv'
<1> USE DEF IInv, TypeOK, Run
<1>1. /\ absent' = {p \in absent : /\ alert'.status = "enabled"
                                   /\ p[1] \in alert'.on /\ p[2] \in alert'.group}
      /\ UNCHANGED <<now, rows, up, queue, mostRecent, lastSeen, known, associated, active,
                     published, firstRunDone, run, removing, received>>
  BY DEF EditAlert, flushVars, trackVars
<1>2. Process' /\ Written'
  BY <1>1 DEF Process, Written, AlertLocked, Absent, Overdue, HitStopTrackingLimit
<1>3. TimesKept'
  BY <1>1, TimesStayKept
<1>4. Remembered'
  <2> SUFFICES ASSUME NEW l \in Levels, NEW k \in Keys, <<l, k>> \in absent'
               PROVE  StillAbsent(l, k)' /\ StillTracked(l, k)'
    BY DEF Remembered
  <2>1. StillAbsent(l, k) /\ StillTracked(l, k) /\ IsOnFor(l, k)'
    BY <1>1 DEF Remembered, IsOnFor
  <2>2. StillAbsent(l, k)'
    BY <1>1, <2>1 DEF StillAbsent, Absent, Overdue, HitStopTrackingLimit
  <2> QED BY <1>1, <2>1, <2>2 DEF StillTracked, AlertLocked
<1> QED BY <1>2, <1>3, <1>4

LEMMA SuspendKeeps ==
    ASSUME IInv, TypeOK', NEW keys \in SUBSET Keys, Suspend(keys)
    PROVE  IInv'
<1> USE DEF IInv, TypeOK, Run
<1>1. UNCHANGED <<now, alert, rows, up, queue, mostRecent, lastSeen, known, associated, active,
                  published, firstRunDone, run, removing, received, absent>>
  BY DEF Suspend, flushVars, trackVars, ghostVars
<1>2. Process' /\ Written'
  BY <1>1 DEF Process, Written, AlertLocked, Absent, Overdue, HitStopTrackingLimit
<1>3. TimesKept'
  BY <1>1, TimesStayKept
<1>4. Remembered'
  BY <1>1 DEF Remembered, StillAbsent, StillTracked, IsOnFor, AlertLocked, Absent, Overdue,
        HitStopTrackingLimit
<1> QED BY <1>2, <1>3, <1>4

LEMMA CrashKeeps ==
    ASSUME IInv, TypeOK', Crash
    PROVE  IInv'
<1> USE DEF IInv, TypeOK, Run
<1>1. /\ up' = FALSE /\ queue' = {} /\ mostRecent' = {} /\ known' = {}
      /\ active' = NothingActive /\ firstRunDone' = FALSE /\ removing' = {}
      /\ run'.pc = "idle" /\ run'.start = 0 /\ received' = rows
      /\ UNCHANGED <<now, alert, rows, absent>>
  BY DEF Crash, Idle, rowVars
<1>2. \A k \in Keys : lastSeen'[k].current = NoTime /\ lastSeen'[k].resent = NoTime
  BY DEF Crash, Unseen
<1>3. Process'
  BY <1>1 DEF Process
<1>4. Written' /\ TimesKept'
  BY <1>1, <1>2 DEF Written, TimesKept, IsSeen, NothingActive
<1>5. Remembered'
  BY <1>1 DEF Remembered, StillAbsent, StillTracked, IsOnFor, AlertLocked, Absent, Overdue,
        HitStopTrackingLimit
<1> QED BY <1>3, <1>4, <1>5

LEMMA BootKeeps ==
    ASSUME IInv, TypeOK', Boot
    PROVE  IInv'
<1> USE DEF IInv, TypeOK, Run
<1>1. /\ ~up /\ run.pc = "idle" /\ removing = {} /\ queue = {} /\ received = rows /\ up' = TRUE
      /\ lastSeen' = [k \in Keys |-> [current |-> rows[k], resent |-> rows[k]]]
      /\ known' = {k \in Keys : rows[k] # NoTime}
      /\ UNCHANGED <<now, alert, rows, queue, mostRecent, associated, active, published,
                     firstRunDone, run, removing, received, absent>>
  BY DEF Boot, Process, rowVars, trackVars, ghostVars
<1>2. \A k \in Keys : lastSeen'[k].current = received[k] /\ lastSeen'[k].resent = received[k]
  BY <1>1
<1>3. Process' /\ Written'
  BY <1>1 DEF Process, Written, AlertLocked
<1>4. TimesKept'
  BY <1>1, <1>2 DEF TimesKept, IsSeen
<1>5. Remembered'
  BY <1>1, <1>2 DEF Remembered, StillAbsent, StillTracked, IsOnFor, AlertLocked, Absent, Overdue,
        HitStopTrackingLimit
<1> QED BY <1>3, <1>4, <1>5

LEMMA IInvStep == Resent = {} /\ ~EarlyCleanup /\ IInv /\ [Next]_vars => IInv'
<1> SUFFICES ASSUME Resent = {}, ~EarlyCleanup, IInv, [Next]_vars PROVE IInv'
  OBVIOUS
<1>1. TypeOK'
  BY TypeStep DEF IInv
<1>2. CASE UNCHANGED vars
  BY <1>1, <1>2 DEF vars, rowVars, trackVars, flushVars, ghostVars, IInv, Process, TimesKept, IsSeen,
        Written, Remembered, StillAbsent, StillTracked, IsOnFor, AlertLocked, Absent, Overdue,
        HitStopTrackingLimit
<1>3. CASE Cleanup
  BY <1>1, <1>3, CleanupCheckKeeps, CleanupRemoveKeeps DEF Cleanup
<1> QED BY <1>1, <1>2, <1>3, TickKeeps, ReceiveKeeps, FlushKeeps, AlertRoutineKeeps,
       EditAlertKeeps, SuspendKeeps, CrashKeeps, BootKeeps DEF Next

LEMMA IInvSaysRemembered == IInv => AbsenceRemembered
<1> SUFFICES ASSUME IInv, firstRunDone, ~AlertLocked, NEW p \in absent
             PROVE  p[2] \in active[p[1]] /\ p[2] \in published /\ rows[p[2]] = received[p[2]]
  BY DEF AbsenceRemembered
<1>1. p[1] \in Levels /\ p[2] \in Keys /\ <<p[1], p[2]>> = p
  BY DEF IInv, TypeOK
<1> QED BY <1>1 DEF IInv, Remembered, StillAbsent, StillTracked

\* A key found absent stays tracked, with the time it was last received in the
\* database, for any keys, windows, limits, edits and suspensions, through any
\* number of runs, cleanups and crashes: provided that no value is sent again
\* without a metric and that no cleanup comes before the first run of the
\* alert routine (AlertThread.updateMetricLastSeen, CleanupThread).
THEOREM AbsenceAlwaysRemembered ==
    ASSUME Resent = {}, ~EarlyCleanup
    PROVE  Spec => []AbsenceRemembered
<1>1. Init => IInv
  BY IInvInit
<1>2. IInv /\ [Next]_vars => IInv'
  BY IInvStep
<1> QED BY <1>1, <1>2, IInvSaysRemembered, PTL DEF Spec
=============================================================================
