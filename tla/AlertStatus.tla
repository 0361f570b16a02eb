---------------------------- MODULE AlertStatus ----------------------------
(***************************************************************************)
(* The life of one alert of StatsAgg: its row in the database, the run of  *)
(* the alert routine that evaluates it, notifies and writes the row back,  *)
(* the recovery routine that holds it back after a restart, and the web    *)
(* and template requests that change the same row at the same time.        *)
(*                                                                         *)
(* The alert routine holds GlobalVariables.alertRoutineLock from its read  *)
(* of the alerts to the end of the run; requests take it to write, but     *)
(* some read the row before they take it.  A run is split where another    *)
(* thread, a crash or the clock can be seen in between.                    *)
(*                                                                         *)
(* Left out: the text of notifications, the set of metric keys shown with  *)
(* an alert (CAUTION/DANGER_ACTIVE_ALERTS_SET) and the renaming of alerts. *)
(***************************************************************************)
EXTENDS Integers, FiniteSets

CONSTANTS
    Configs,         \* criteria an operator may give the alert
    Sessions,        \* threads that serve web requests or run the templates
    Ops,             \* kinds of request the sessions make
    AllowResend,     \* the alert's 'resend' option
    AlertOnPositive, \* the alert's 'send a positive notification' option
    ResendEvery,     \* the alert's resend interval
    RecoveryTimeout, \* alert_wait_time_after_restart
    SlowStartup,     \* can a run be evaluated before the start time is set?
    Epoch,           \* clock value at the start; 0 is 1970
    MaxTime,         \* bound on the clock
    MaxId,           \* bound on the row ids the database hands out
    MaxCrashes       \* bound on the number of crashes

Levels == {"caution", "danger"}
AlertTypes == {"availability", "threshold"}
OpKinds == {"ack", "delete", "form", "template", "toggle"}
Suspensions == {"none", "notification", "entire"}
NoTime == -1
NewId == -1          \* Alert(): the id of an alert object not read from the database
NoRowId == 0
Acks == {"null", "no", "yes"}

Criteria == [on : BOOLEAN, window : Nat]

ASSUME ConfigsAssumption ==
    /\ Configs # {}
    /\ Configs \subseteq [type : AlertTypes, crit : [Levels -> Criteria]]

\* The web interface refuses to change, enable, disable or remove an alert that
\* a template made, and a template writes to no other (areAlertTemplateIdsInConflict).
ASSUME OptionsAssumption ==
    /\ Ops \subseteq OpKinds
    /\ "template" \in Ops => Ops \subseteq {"ack", "template"}
    /\ AllowResend \in BOOLEAN /\ AlertOnPositive \in BOOLEAN
    /\ SlowStartup \in BOOLEAN
    /\ ResendEvery \in Nat /\ RecoveryTimeout \in Nat

\* The clock starts long after 1970: a start timestamp that is still 0 looks
\* like a process that has been up for longer than any window.
ASSUME BoundsAssumption ==
    /\ Epoch \in Nat \ {0} /\ MaxTime \in Nat /\ MaxId \in Nat
    /\ MaxCrashes \in Nat
    /\ Epoch >= RecoveryTimeout
    /\ \A c \in Configs : \A l \in Levels : Epoch >= c.crit[l].window

VARIABLES
    now,          \* System.currentTimeMillis()
    db,           \* the alert's row in the ALERTS table
    nextId,       \* the id the database gives the next inserted row
    up,           \* is the process running?
    startTs,      \* GlobalVariables.statsaggStartTimestamp
    firstRunDone, \* alertRoutineExecutionCounter_ # 0
    pending,      \* levels in pendingCaution/DangerAlertsByAlertId_
    pendingOf,    \* id and criteria of the alert object in those maps
    run,          \* the locals of the alert thread
    ui,           \* what each session has read and is about to write
    crashes,      \* number of crashes so far
    bootTime,     \* history: when the process was started
    seen          \* history: levels whose criteria this process has seen met

dbVars == <<db, nextId>>
procVars == <<up, startTs, firstRunDone, pending, pendingOf>>
ghostVars == <<crashes, bootTime, seen>>
vars == <<now, dbVars, procVars, run, ui, ghostVars>>

-----------------------------------------------------------------------------
Time == Nat \cup {NoTime}

Status == [active : BOOLEAN, firstActiveAt : Time, ack : Acks, lastSent : Time]

Row == [id : Int, enabled : BOOLEAN, cfg : Configs, st : [Levels -> Status]]

Cleared == [active |-> FALSE, firstActiveAt |-> NoTime, ack |-> "null",
            lastSent |-> NoTime]

AllCleared == [l \in Levels |-> Cleared]

AnyConfig == CHOOSE c \in Configs : TRUE

\* The ALERTS table without the alert.
NoRow == [id |-> NoRowId, enabled |-> FALSE, cfg |-> AnyConfig, st |-> AllCleared]

Exists(row) == row.id # NoRowId

Run == [pc : {"idle", "evaluate", "act", "persist", "finish"}, level : Levels,
        row : Row, susp : Suspensions, keys : [Levels -> {"absent", "empty", "some"}],
        sent : [Levels -> {"none", "open", "positive", "resend"}], dirty : BOOLEAN]

Request == [op : {"none", "ack", "template", "toggle"}, row : Row,
            levels : SUBSET Levels, ack : Acks]

Idle == [pc |-> "idle", level |-> "caution", row |-> NoRow, susp |-> "none",
         keys |-> [l \in Levels |-> "absent"], sent |-> [l \in Levels |-> "none"],
         dirty |-> FALSE]

NoRequest == [op |-> "none", row |-> NoRow, levels |-> {}, ack |-> "null"]

LockFree == run.pc = "idle"   \* nobody holds alertRoutineLock across a step

-----------------------------------------------------------------------------
Init ==
    /\ now = Epoch
    /\ db \in {NoRow} \cup {[id |-> 1, enabled |-> TRUE, cfg |-> c, st |-> AllCleared] :
                               c \in Configs}
    /\ nextId = IF Exists(db) THEN 2 ELSE 1
    /\ up = TRUE
    /\ startTs = 0
    /\ firstRunDone = FALSE
    /\ pending = {}
    /\ pendingOf = [id |-> NoRowId, cfg |-> AnyConfig]
    /\ run = Idle
    /\ ui = [s \in Sessions |-> NoRequest]
    /\ crashes = 0
    /\ bootTime = Epoch
    /\ seen = {}

\* The clock bound leaves room for the recovery of every process: otherwise a
\* process started at MaxTime would never be up for RecoveryTimeout.
RoomToRecover == now + RecoveryTimeout < MaxTime

Tick ==
    /\ now < MaxTime
    /\ (up /\ startTs # 0) \/ RoomToRecover
    /\ now' = now + 1
    /\ UNCHANGED <<dbVars, procVars, run, ui, ghostVars>>

\* The process dies.
Crash ==
    /\ up
    /\ crashes < MaxCrashes
    /\ RoomToRecover
    /\ up' = FALSE
    /\ run' = Idle
    /\ ui' = [s \in Sessions |-> NoRequest]
    /\ crashes' = crashes + 1
    /\ UNCHANGED <<now, dbVars, startTs, firstRunDone, pending, pendingOf, bootTime, seen>>

\* A new process: AlertThread.reset() and the initial values of the statics.
Boot ==
    /\ ~up
    /\ up' = TRUE
    /\ startTs' = 0
    /\ firstRunDone' = FALSE
    /\ pending' = {}
    /\ pendingOf' = [id |-> NoRowId, cfg |-> AnyConfig]
    /\ bootTime' = now
    /\ seen' = {}
    /\ UNCHANGED <<now, dbVars, run, ui, crashes>>

\* The last statement of the start-up, after the invoker threads are running.
SetStartTimestamp ==
    /\ up
    /\ startTs = 0
    /\ startTs' = now
    /\ UNCHANGED <<now, dbVars, up, firstRunDone, pending, pendingOf, run, ui, ghostVars>>

-----------------------------------------------------------------------------
(* One run of the alert routine.                                           *)

\* Take the lock, read the alerts, determine the suspensions; on the first
\* run of the process, put the alerts that are already active in 'pending'.
RunLoad ==
    /\ up
    /\ run.pc = "idle"
    /\ \E susp \in Suspensions :
          run' = [Idle EXCEPT !.pc = "evaluate", !.row = db, !.susp = susp]
    /\ LET determine == ~firstRunDone /\ Exists(db) /\ db.enabled
       IN  /\ pending' = IF determine THEN {l \in Levels : db.st[l].active} ELSE pending
           /\ pendingOf' = IF determine THEN [id |-> db.id, cfg |-> db.cfg] ELSE pendingOf
    /\ UNCHANGED <<now, dbVars, up, startTs, firstRunDone, ui, ghostVars>>

\* The levels whose criteria can be met: enabled alert, enabled level.
Evaluable(row) ==
    {l \in Levels : Exists(row) /\ row.enabled /\ row.cfg.crit[l].on}

\* Mutant: a level without an entry gets a null list instead of none.
ActiveKeysNull(row, met) ==
    [l \in Levels |-> IF l \in met THEN "some"
                      ELSE IF row.st[l].active THEN "empty" ELSE "null"]

\* Mutant: no empty list for the alerts that are already active.
ActiveKeysNoPrefill(row, met) ==
    [l \in Levels |-> IF l \in met THEN "some" ELSE "absent"]

\* activeXAlertMetricKeysByAlertId_: a list that is empty for an enabled,
\* active alert, or the metric keys that meet the criteria, or no entry.
ActiveKeys(row, met) ==
    [l \in Levels |-> IF l \in met THEN "some"
                      ELSE IF Exists(row) /\ row.enabled /\ row.st[l].active THEN "empty"
                      ELSE "absent"]

TimeSinceStartup == now - startTs

\* Mutant: an empty list of keys counts as an alert that is active again.
HasAnEntry(l, keys) == keys[l] # "absent" /\ pendingOf.id = run.row.id

\* Stage 2b: availability alerts are excluded for caution, not for danger.
HasReachedPreviousState(l, keys) ==
    /\ keys[l] = "some"
    /\ pendingOf.id = run.row.id
    /\ l = "caution" => pendingOf.cfg.type = "threshold"

\* Mutant: neither the timeout nor the window ends the wait.
PendingUntilPreviousState(keys) == {l \in pending : ~HasReachedPreviousState(l, keys)}

\* Stages 2a, 2b and 2c: the levels that stay pending.
StillPending(keys) ==
    {l \in pending : /\ TimeSinceStartup < RecoveryTimeout
                     /\ ~HasReachedPreviousState(l, keys)
                     /\ TimeSinceStartup < pendingOf.cfg.crit[l].window}

\* Evaluate the criteria against the metrics, then run the recovery routine.
RunEvaluate ==
    /\ run.pc = "evaluate"
    /\ SlowStartup \/ startTs # 0
    /\ \E met \in SUBSET Evaluable(run.row) :
          LET keys == ActiveKeys(run.row, met)
          IN  /\ run' = [run EXCEPT !.pc = "act", !.level = "caution", !.keys = keys]
              /\ pending' = StillPending(keys)
              /\ seen' = seen \cup met
    /\ UNCHANGED <<now, dbVars, up, startTs, firstRunDone, pendingOf, ui, crashes, bootTime>>

IsPending(l) == l \in pending /\ pendingOf.id = run.row.id

IsAlertActive(l) == run.keys[l] = "some"

Notifies == run.susp = "none"

\* The outcome of takeActionOn...Alert for the level l: the new status, the
\* notification handed to the pool and whether the row is to be written.
Act(l, status, note, dirty) ==
    /\ run' = [run EXCEPT !.pc = "persist", !.row.st[l] = status,
                          !.sent[l] = note, !.dirty = dirty]
    /\ UNCHANGED <<now, dbVars, procVars, ui, ghostVars>>

\* No entry for the alert, or the recovery routine holds the level back.
SkipLevel(l) ==
    /\ run.keys[l] = "absent" \/ IsPending(l)
    /\ Act(l, run.row.st[l], "none", FALSE)

\* Mutant: the last sent timestamp survives the suspension.
SuspendEntireAlertKeepsLastSent(l) ==
    /\ run.susp = "entire"
    /\ Act(l, [run.row.st[l] EXCEPT !.active = FALSE, !.firstActiveAt = NoTime], "none", TRUE)

SuspendEntireAlert(l) ==
    /\ run.susp = "entire"
    /\ Act(l, [run.row.st[l] EXCEPT !.active = FALSE, !.firstActiveAt = NoTime,
                                    !.lastSent = NoTime], "none", TRUE)

\* Mutant: no notification when the other level has already sent one.
NotActiveToActiveOncePerAlert(l) ==
    /\ run.susp # "entire"
    /\ ~run.row.st[l].active /\ IsAlertActive(l)
    /\ Act(l, [active |-> TRUE, firstActiveAt |-> now, ack |-> "no", lastSent |-> now],
           IF Notifies /\ \A k \in Levels : ~run.row.st[k].active THEN "open" ELSE "none", TRUE)

NotActiveToActive(l) ==
    /\ run.susp # "entire"
    /\ ~run.row.st[l].active /\ IsAlertActive(l)
    /\ Act(l, [active |-> TRUE, firstActiveAt |-> now, ack |-> "no", lastSent |-> now],
           IF Notifies THEN "open" ELSE "none", TRUE)

ActiveToNotActive(l) ==
    /\ run.susp # "entire"
    /\ run.row.st[l].active /\ ~IsAlertActive(l)
    /\ Act(l, Cleared, IF AlertOnPositive /\ Notifies THEN "positive" ELSE "none", TRUE)

\* Mutant: an acknowledged alert is sent again.
IsResendDueAcknowledged(st) ==
    AllowResend /\ st.lastSent # NoTime /\ now - st.lastSent >= ResendEvery

IsResendDue(st) ==
    /\ AllowResend
    /\ st.lastSent # NoTime
    /\ st.ack # "yes"
    /\ now - st.lastSent >= ResendEvery

ActiveToActive(l) ==
    LET st == run.row.st[l]
    IN  /\ run.susp # "entire"
        /\ st.active /\ IsAlertActive(l)
        /\ IF IsResendDue(st)
           THEN Act(l, [st EXCEPT !.lastSent = now],
                    IF Notifies THEN "resend" ELSE "none", TRUE)
           ELSE Act(l, st, "none", FALSE)

TakeAction(l) ==
    /\ run.pc = "act"
    /\ run.level = l
    /\ \/ SkipLevel(l)
       \/ /\ run.keys[l] # "absent" /\ ~IsPending(l)
          /\ \/ SuspendEntireAlert(l)
             \/ NotActiveToActive(l)
             \/ ActiveToNotActive(l)
             \/ ActiveToActive(l)

\* The rest of takeActionOn...Alert: the whole alert object is written if the
\* row is still there; a failed write is logged and ignored.
Persist(l) ==
    /\ run.pc = "persist"
    /\ run.level = l
    /\ \/ run.dirty /\ Exists(db) /\ db' = run.row
       \/ UNCHANGED db
    /\ run' = [run EXCEPT !.pc = IF l = "caution" THEN "act" ELSE "finish",
                          !.level = "danger", !.dirty = FALSE]
    /\ UNCHANGED <<now, nextId, procVars, ui, ghostVars>>

\* Count the run, publish the local maps and release the lock.
RunFinish ==
    /\ run.pc = "finish"
    /\ run' = Idle
    /\ firstRunDone' = TRUE
    /\ UNCHANGED <<now, dbVars, up, startTs, pending, pendingOf, ui, ghostVars>>

-----------------------------------------------------------------------------
(* Requests of the web interface and of the template routine.              *)

SameCriteria(a, b, l) ==
    /\ a.enabled = b.enabled
    /\ a.cfg.type = b.cfg.type
    /\ a.cfg.crit[l] = b.cfg.crit[l]

\* Mutant: a change of either level's criteria resets both levels.
WholeConfigEqual(a, b, l) == a.id = b.id /\ a.enabled = b.enabled /\ a.cfg = b.cfg

\* isCautionCriteriaEqual, isDangerCriteriaEqual
CriteriaEqual(a, b, l) == a.id = b.id /\ SameCriteria(a, b, l)

\* Mutant: the first active time is not copied.
CopyStatusMetadataPartly(new, isAck) ==
    [l \in Levels |->
        IF Exists(db) /\ CriteriaEqual(new, db, l)
        THEN [db.st[l] EXCEPT !.firstActiveAt = new.st[l].firstActiveAt,
                              !.ack = IF isAck THEN new.st[l].ack ELSE @]
        ELSE new.st[l]]

\* copyStatusMetadataFields: the status the written row will have.
CopyStatusMetadata(new, isAck) ==
    [l \in Levels |->
        IF Exists(db) /\ CriteriaEqual(new, db, l)
        THEN [db.st[l] EXCEPT !.ack = IF isAck THEN new.st[l].ack ELSE @]
        ELSE new.st[l]]

\* Mutant: written without the lock.
AlterRecordUnlocked(new, isAck) ==
    /\ Exists(db) \/ nextId <= MaxId
    /\ db' = [new EXCEPT !.id = IF Exists(db) THEN db.id ELSE nextId,
                         !.st = CopyStatusMetadata(new, isAck)]
    /\ nextId' = IF Exists(db) THEN nextId ELSE nextId + 1

\* alterRecordInDatabase, under the lock: update the row of that name, or
\* insert one if there is none.
AlterRecord(new, isAck) ==
    /\ LockFree
    /\ Exists(db) \/ nextId <= MaxId
    /\ db' = [new EXCEPT !.id = IF Exists(db) THEN db.id ELSE nextId,
                         !.st = CopyStatusMetadata(new, isAck)]
    /\ nextId' = IF Exists(db) THEN nextId ELSE nextId + 1

FormAlert(enabled, c) ==
    [id |-> NewId, enabled |-> enabled, cfg |-> c, st |-> AllCleared]

\* The 'create alert' form, for a new alert and for a changed one.
SubmitForm(enabled, c) ==
    /\ up
    /\ "form" \in Ops
    /\ AlterRecord(FormAlert(enabled, c), FALSE)
    /\ UNCHANGED <<now, procVars, run, ui, ghostVars>>

DeleteAlert ==
    /\ up
    /\ "delete" \in Ops
    /\ LockFree
    /\ Exists(db)
    /\ db' = NoRow
    /\ UNCHANGED <<now, nextId, procVars, run, ui, ghostVars>>

\* A session reads the row, without the lock, and prepares the row it will write.
BeginRequest(s, request) ==
    /\ up
    /\ ui[s].op = "none"
    /\ ui' = [ui EXCEPT ![s] = request]
    /\ UNCHANGED <<now, dbVars, procVars, run, ghostVars>>

BeginToggle(s, enabled) ==
    /\ "toggle" \in Ops
    /\ Exists(db)
    /\ BeginRequest(s, [NoRequest EXCEPT !.op = "toggle",
          !.row = [db EXCEPT !.enabled = enabled,
                             !.st = IF enabled THEN @ ELSE AllCleared]])

\* One template thread at a time.  Only the id of the row is kept; everything
\* else comes from the template.
BeginTemplate(s, enabled, c) ==
    /\ "template" \in Ops
    /\ \A t \in Sessions : ui[t].op # "template"
    /\ BeginRequest(s, [NoRequest EXCEPT !.op = "template",
          !.row = [FormAlert(enabled, c) EXCEPT !.id = IF Exists(db) THEN db.id ELSE NewId]])

\* changeAlertCautionAcknowledge, changeAlertDangerAcknowledge (one level)
\* and changeAlertAcknowledge (both): only levels that are active change.
BeginAck(s, levels, ack) ==
    LET active == {l \in levels : db.st[l].active}
    IN  /\ "ack" \in Ops
        /\ active # {}
        /\ BeginRequest(s, [op |-> "ack", levels |-> active, ack |-> ack,
              row |-> [db EXCEPT !.st = [l \in Levels |->
                          IF l \in active THEN [db.st[l] EXCEPT !.ack = ack]
                          ELSE db.st[l]]]])

CommitRequest(s) ==
    /\ up
    /\ ui[s].op # "none"
    /\ AlterRecord(ui[s].row, ui[s].op = "ack")
    /\ ui' = [ui EXCEPT ![s] = NoRequest]
    /\ UNCHANGED <<now, procVars, run, ghostVars>>

-----------------------------------------------------------------------------
AlertRoutine ==
    \/ RunLoad
    \/ RunEvaluate
    \/ \E l \in Levels : TakeAction(l) \/ Persist(l)
    \/ RunFinish

Requests ==
    \/ \E enabled \in BOOLEAN, c \in Configs : SubmitForm(enabled, c)
    \/ DeleteAlert
    \/ \E s \in Sessions :
          \/ \E enabled \in BOOLEAN :
                \/ BeginToggle(s, enabled)
                \/ \E c \in Configs : BeginTemplate(s, enabled, c)
          \/ \E levels \in {{"caution"}, {"danger"}, Levels}, ack \in {"no", "yes"} :
                BeginAck(s, levels, ack)
          \/ CommitRequest(s)

Next ==
    \/ Tick
    \/ Crash
    \/ Boot
    \/ SetStartTimestamp
    \/ AlertRoutine
    \/ Requests

Spec == Init /\ [][Next]_vars

\* The clock runs, a dead process is started again, the start-up completes and
\* the alert thread is invoked again and again; requests come as they like.
Fairness ==
    /\ WF_vars(Tick)
    /\ WF_vars(Boot)
    /\ WF_vars(SetStartTimestamp)
    /\ WF_vars(AlertRoutine)

FairSpec == Spec /\ Fairness

-----------------------------------------------------------------------------
(* Properties                                                              *)

TypeOK ==
    /\ now \in Nat
    /\ db \in Row
    /\ nextId \in Nat \ {0}
    /\ up \in BOOLEAN
    /\ startTs \in Nat
    /\ firstRunDone \in BOOLEAN
    /\ pending \in SUBSET Levels
    /\ pendingOf \in [id : Int, cfg : Configs]
    /\ run \in Run
    /\ ui \in [Sessions -> Request]
    /\ crashes \in Nat
    /\ bootTime \in Nat
    /\ seen \in SUBSET Levels

CoherentStatus(st, t) ==
    /\ st.active <=> st.firstActiveAt # NoTime
    /\ st.active <=> st.lastSent # NoTime
    /\ st.firstActiveAt <= st.lastSent
    /\ st.lastSent <= t

Coherent(row, t) == \A l \in Levels : CoherentStatus(row.st[l], t)

\* Whatever the alert thread and the requests write over each other, stale
\* copies of the row included, a level is active exactly when it has a first
\* active time and a last sent time, in that order and not in the future
\* (takeActionOn...Alert, copy...MetadataFields, disableAndNullify...).
StatusCoherent == Coherent(db, now)

\* The levels on which the run has already taken action.
ActedOn ==
    IF run.pc \in {"idle", "evaluate"} THEN {}
    ELSE IF run.pc = "finish" THEN Levels
    ELSE {l \in Levels : l = "caution" /\ run.level = "danger"}
         \cup (IF run.pc = "persist" THEN {run.level} ELSE {})

\* alertRoutineLock does its work: during a run nobody changes the row, so the
\* whole-object write of the alert thread never undoes another's update.
SnapshotCurrent ==
    run.pc # "idle" =>
        /\ run.row.id = db.id
        /\ run.row.enabled = db.enabled
        /\ run.row.cfg = db.cfg
        /\ \A l \in Levels \ ActedOn : run.row.st[l] = db.st[l]

Queues(l, note) == run.sent[l] = "none" /\ run'.sent[l] = note

\* A notification agrees with the row in the database at the moment it is
\* handed to the pool: 'open' for a level that is not active, 'positive' for
\* one that is, a resend only for an unacknowledged incident that has lasted
\* at least the resend interval (ChangeLog: an acknowledgement prevents
\* additional notifications).
NotificationMatchesRow ==
    [][\A l \in Levels :
          /\ Queues(l, "open") => ~db.st[l].active
          /\ Queues(l, "positive") => db.st[l].active
          /\ Queues(l, "resend") => /\ db.st[l].active
                                    /\ db.st[l].ack # "yes"
                                    /\ now - db.st[l].firstActiveAt >= ResendEvery]_vars

\* No silent incident: the alert thread never writes that a level has become
\* active unless its notification was handed over before, or notifications of
\* the alert are suspended.  Holds through crashes and failed writes, the
\* write of the other level that carries this one along included.
AnnouncedBeforeOpen ==
    [][\A l \in Levels :
          run.pc = "persist" /\ ~db.st[l].active /\ db'.st[l].active
             => run.sent[l] = "open" \/ run.susp = "notification"]_vars

MinOf(a, b) == IF a <= b THEN a ELSE b

\* After a restart an alert that was active does not send a 'positive'
\* notification until the process has been up for the recovery timeout or the
\* alert's window, or has seen the criteria met (the recovery routine).
RecoveryHeld ==
    [][\A l \in Levels :
          Queues(l, "positive") =>
             \/ l \in seen
             \/ now - bootTime >= MinOf(RecoveryTimeout, db.cfg.crit[l].window)]_vars

\* A write that leaves an alert's criteria for a level as they were leaves
\* the level's triggered status as it was (copyStatusMetadataFields).
UnchangedCriteriaKeepStatus ==
    [][\A l \in Levels :
          LockFree /\ db'.id = db.id /\ SameCriteria(db, db', l)
             => [db'.st[l] EXCEPT !.ack = db.st[l].ack] = db.st[l]]_vars

Unacknowledges(s, l) ==
    ui[s].op = "ack" /\ l \in ui[s].levels /\ ui[s].ack = "no" /\ ui'[s].op = "none"

\* An acknowledged incident stays acknowledged for as long as it lasts, unless
\* somebody unacknowledges that level (ChangeLog: 'unless unacknowledged').
AcknowledgementSticks ==
    [][\A l \in Levels :
          (/\ db.st[l].ack = "yes" /\ db.st[l].active
           /\ db'.id = db.id /\ SameCriteria(db, db', l)
           /\ db'.st[l].firstActiveAt = db.st[l].firstActiveAt)
             => db'.st[l].ack = "yes" \/ \E s \in Sessions : Unacknowledges(s, l)]_vars

\* The recovery routine lets every alert go in the end.
RecoveryEnds == pending # {} ~> pending = {}

WritesSucceed == <>[][run.pc = "persist" /\ run.dirty => db' = run.row]_vars

EventuallyAlways(l, keys) ==
    /\ <>[](run.pc \in {"act", "persist", "finish"} =>
              run.keys[l] \in keys /\ run.susp # "entire")
    /\ WritesSucceed

\* If from some time on every run finds the criteria of a level met, the row
\* says active for ever; if every run finds them not met, it says not active.
StatusFollowsCriteria ==
    \A l \in Levels :
        /\ EventuallyAlways(l, {"some"}) => <>[](db.st[l].active)
        /\ EventuallyAlways(l, {"empty", "absent"}) => <>[](~db.st[l].active)

-----------------------------------------------------------------------------
(* Each level implements the abstract incident of module Incident.         *)

DraftOf(l) == IF l \in ActedOn THEN {run.row.st[l]} ELSE {}

NoteOf(l) == IF l \in ActedOn THEN run.sent[l] ELSE "none"

CopiesOf(l) == [s \in Sessions |-> IF ui[s].op # "none" THEN {ui[s].row.st[l]} ELSE {}]

Caution == INSTANCE Incident WITH record <- db.st["caution"],
    draft <- DraftOf("caution"), note <- NoteOf("caution"), copies <- CopiesOf("caution")

Danger == INSTANCE Incident WITH record <- db.st["danger"],
    draft <- DraftOf("danger"), note <- NoteOf("danger"), copies <- CopiesOf("danger")

\* Each level on its own is an incident: every notification goes with one
\* decision on the status on record, nothing else comes between the decision
\* and its write, and the other level, whose action writes the whole alert
\* object, the stale copies of the requests and a crash add no other change.
RefinesIncident == Caution!Spec /\ Danger!Spec

=============================================================================
