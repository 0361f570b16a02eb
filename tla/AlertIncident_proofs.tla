------------------------- MODULE AlertIncident_proofs -------------------------
(***************************************************************************)
(* Each level of an alert implements the abstract incident: the initial    *)
(* states map to initial states and every step maps to a step of module    *)
(* Incident or leaves its variables alone.  The lemmas are about any level *)
(* l; the last section joins the two.  What makes the mapping work is      *)
(* SnapshotCurrent: a decision made on the run's copy of the row is a      *)
(* decision made on the row itself.                                        *)
(***************************************************************************)
EXTENDS AlertStatus_proofs

IncidentOf(l) == INSTANCE Incident WITH
    record <- db.st[l], draft <- DraftOf(l), note <- NoteOf(l), copies <- CopiesOf(l)

LEMMA IncidentInit ==
    ASSUME Init, NEW l \in Levels
    PROVE  IncidentOf(l)!Init
<1>1. now \in Nat /\ run = Idle /\ ui = [s \in Sessions |-> NoRequest]
    BY BoundsAssumption DEF Init
<1>2. db.st[l] = Cleared
  <2>1. CASE db = NoRow
    BY <2>1 DEF NoRow, AllCleared
  <2>2. CASE db # NoRow
    <3>1. PICK c \in Configs : db = [id |-> 1, enabled |-> TRUE, cfg |-> c, st |-> AllCleared]
      BY <2>2, Zenon DEF Init
    <3> QED
      BY <3>1 DEF AllCleared
  <2> QED
    BY <2>1, <2>2
<1>3. DraftOf(l) = {} /\ NoteOf(l) = "none"
    BY <1>1 DEF DraftOf, NoteOf, ActedOn, Idle
<1>4. CopiesOf(l) = [s \in Sessions |-> {}]
    BY <1>1 DEF CopiesOf, NoRequest
<1> QED
    BY <1>1, <1>2, <1>3, <1>4 DEF IncidentOf!Init, IncidentOf!Closed, IncidentOf!NoTime,
                                  Cleared, NoTime

-----------------------------------------------------------------------------
(* The clock, the life of the process.                                      *)

LEMMA TickIncident ==
    ASSUME Tick, NEW l \in Levels
    PROVE  IncidentOf(l)!Tick
BY DEF Tick, dbVars, IncidentOf!Tick, DraftOf, NoteOf, CopiesOf, ActedOn

LEMMA ProcessIncident ==
    ASSUME Crash \/ Boot \/ SetStartTimestamp \/ UNCHANGED vars, NEW l \in Levels
    PROVE  IncidentOf(l)!Crash \/ UNCHANGED IncidentOf(l)!vars
<1>1. CASE Crash
  <2>1. now' = now /\ db' = db /\ run' = Idle /\ ui' = [s \in Sessions |-> NoRequest]
    BY <1>1 DEF Crash, dbVars
  <2>2. DraftOf(l)' = {} /\ NoteOf(l)' = "none"
    BY <2>1 DEF DraftOf, NoteOf, ActedOn, Idle
  <2>3. CopiesOf(l)' = [s \in Sessions |-> {}]
    BY <2>1 DEF CopiesOf, NoRequest
  <2> QED
    BY <2>1, <2>2, <2>3 DEF IncidentOf!Crash
<1>2. CASE Boot \/ SetStartTimestamp \/ UNCHANGED vars
    BY <1>2 DEF Boot, SetStartTimestamp, vars, dbVars, IncidentOf!vars, DraftOf, NoteOf,
                CopiesOf, ActedOn
<1> QED
    BY <1>1, <1>2

-----------------------------------------------------------------------------
(* The run of the alert routine.                                            *)

\* What taking action on l does to the abstract variables of l.
LEMMA ActIncident ==
    ASSUME TypeOK, SnapshotCurrent, NEW l \in Levels, NEW status, NEW note, NEW dirty,
           TakeAction(l), Act(l, status, note, dirty)
    PROVE  /\ db.st[l] = run.row.st[l] /\ db.st[l] \in Status
           /\ DraftOf(l) = {} /\ DraftOf(l)' = {status}
           /\ NoteOf(l)' = note
           /\ now' = now /\ db' = db /\ CopiesOf(l)' = CopiesOf(l)
<1>1. run.pc = "act" /\ run.level = l
    BY DEF TakeAction
<1>2. /\ run'.pc = "persist" /\ run'.level = l
      /\ run'.row.st[l] = status /\ run'.sent[l] = note
    BY <1>1 DEF Act, TypeOK, Run, Row
<1>3. l \notin ActedOn
    BY <1>1 DEF ActedOn
<1>4. l \in ActedOn'
    BY <1>2 DEF ActedOn
<1>5. db.st[l] = run.row.st[l]
    BY <1>1, <1>3 DEF SnapshotCurrent
<1>6. db.st[l] \in Status
    BY DEF TypeOK, Row
<1>7. now' = now /\ db' = db /\ ui' = ui
    BY DEF Act, dbVars
<1> QED
    BY <1>2, <1>3, <1>4, <1>5, <1>6, <1>7 DEF DraftOf, NoteOf, CopiesOf

\* A decision of the run is the decision of the abstract incident.
LEMMA DecideIncident ==
    ASSUME TypeOK, SnapshotCurrent, NEW l \in Levels, NEW status, NEW note, NEW dirty,
           TakeAction(l), Act(l, status, note, dirty), NEW notes, note \in notes \cup {"none"}
    PROVE  IncidentOf(l)!Decide(status, notes)
<1>1. /\ DraftOf(l) = {} /\ DraftOf(l)' = {status} /\ NoteOf(l)' = note
      /\ now' = now /\ db' = db /\ CopiesOf(l)' = CopiesOf(l)
    BY ActIncident
<1> QED
    BY <1>1 DEF IncidentOf!Decide

\* The copy of the level is the record when the run decides on it.
LEMMA DecidesOnRecord ==
    ASSUME TypeOK, SnapshotCurrent, NEW l \in Levels, TakeAction(l)
    PROVE  db.st[l] = run.row.st[l]
BY DEF TakeAction, SnapshotCurrent, ActedOn

AbstractDecision(l) ==
    \/ IncidentOf(l)!Open \/ IncidentOf(l)!Repeat \/ IncidentOf(l)!Resolve
    \/ IncidentOf(l)!Suspend \/ IncidentOf(l)!Keep

LEMMA TakeActionIncident ==
    ASSUME TypeOK, SnapshotCurrent, NEW l \in Levels, TakeAction(l)
    PROVE  AbstractDecision(l)
<1> DEFINE st == run.row.st[l]
<1>0. db.st[l] = st
    BY DecidesOnRecord
<1>1. CASE SkipLevel(l)
  <2>1. IncidentOf(l)!Decide(st, {})
    BY <1>1, DecideIncident DEF SkipLevel
  <2> QED
    BY <1>0, <2>1 DEF AbstractDecision, IncidentOf!Keep
<1>2. CASE SuspendEntireAlert(l)
  <2> DEFINE new == [st EXCEPT !.active = FALSE, !.firstActiveAt = NoTime, !.lastSent = NoTime]
  <2>1. Act(l, new, "none", TRUE)
    BY <1>2 DEF SuspendEntireAlert
  <2>2. IncidentOf(l)!Decide(new, {})
    <3> HIDE DEF new
    <3> QED
      BY <2>1, DecideIncident
  <2> QED
    BY <1>0, <2>2 DEF AbstractDecision, IncidentOf!Suspend, IncidentOf!NoTime, NoTime
<1>3. CASE NotActiveToActive(l)
  <2> DEFINE new == [active |-> TRUE, firstActiveAt |-> now, ack |-> "no", lastSent |-> now]
             note == IF Notifies THEN "open" ELSE "none"
  <2>1. ~st.active /\ Act(l, new, note, TRUE)
    BY <1>3 DEF NotActiveToActive
  <2>2. note \in {"open"} \cup {"none"}
    OBVIOUS
  <2>3. IncidentOf(l)!Decide(new, {"open"})
    <3> HIDE DEF new, note
    <3> QED
      BY <2>1, <2>2, DecideIncident
  <2> QED
    BY <1>0, <2>1, <2>3 DEF AbstractDecision, IncidentOf!Open
<1>4. CASE ActiveToNotActive(l)
  <2> DEFINE note == IF AlertOnPositive /\ Notifies THEN "positive" ELSE "none"
             notes == IF AlertOnPositive THEN {"positive"} ELSE {}
  <2>1. st.active /\ Act(l, Cleared, note, TRUE)
    BY <1>4 DEF ActiveToNotActive
  <2>2. note \in notes \cup {"none"}
    OBVIOUS
  <2>3. IncidentOf(l)!Decide(Cleared, notes)
    <3> HIDE DEF note, notes
    <3> QED
      BY <2>1, <2>2, DecideIncident
  <2> QED
    BY <1>0, <2>1, <2>3 DEF AbstractDecision, IncidentOf!Resolve, IncidentOf!Closed,
                            IncidentOf!NoTime, Cleared, NoTime
<1>5. CASE ActiveToActive(l) /\ IsResendDue(st)
  <2> DEFINE new == [st EXCEPT !.lastSent = now]
             note == IF Notifies THEN "resend" ELSE "none"
  <2>1. st.active /\ Act(l, new, note, TRUE)
    BY <1>5 DEF ActiveToActive
  <2>2. note \in {"resend"} \cup {"none"}
    OBVIOUS
  <2>3. IncidentOf(l)!Decide(new, {"resend"})
    <3> HIDE DEF new, note
    <3> QED
      BY <2>1, <2>2, DecideIncident
  <2>4. IncidentOf(l)!ResendDue
    BY <1>0, <1>5 DEF IsResendDue, IncidentOf!ResendDue, IncidentOf!NoTime, NoTime
  <2> QED
    BY <1>0, <2>1, <2>3, <2>4 DEF AbstractDecision, IncidentOf!Repeat
<1>6. CASE ActiveToActive(l) /\ ~IsResendDue(st)
  <2>1. Act(l, st, "none", FALSE)
    BY <1>6 DEF ActiveToActive
  <2>2. IncidentOf(l)!Decide(st, {})
    BY <2>1, DecideIncident
  <2> QED
    BY <1>0, <2>2 DEF AbstractDecision, IncidentOf!Keep
<1> QED
    BY <1>1, <1>2, <1>3, <1>4, <1>5, <1>6 DEF TakeAction

\* Taking action on the other level is not seen.
LEMMA OtherActionIncident ==
    ASSUME TypeOK, NEW l \in Levels, NEW k \in Levels, k # l, TakeAction(k)
    PROVE  UNCHANGED IncidentOf(l)!vars
<1>1. /\ run.pc = "act" /\ run.level = k
      /\ run'.pc = "persist" /\ run'.level = k
      /\ run'.row.st[l] = run.row.st[l]
      /\ run'.sent[l] = run.sent[l]
      /\ db' = db
    BY TakeActionEffect
<1>2. now' = now /\ ui' = ui
    BY DEF TakeAction, SkipLevel, SuspendEntireAlert, NotActiveToActive, ActiveToNotActive,
           ActiveToActive, Act
<1>3. l \in ActedOn' <=> l \in ActedOn
    BY <1>1 DEF ActedOn
<1> QED
    BY <1>1, <1>2, <1>3 DEF IncidentOf!vars, DraftOf, NoteOf, CopiesOf

\* A write of the alert object carries the decision on l, or nothing new on l.
LEMMA PersistIncident ==
    ASSUME TypeOK, SnapshotCurrent, NEW l \in Levels, NEW k \in Levels, Persist(k)
    PROVE  IncidentOf(l)!Record \/ UNCHANGED IncidentOf(l)!vars
<1>1. /\ run.pc = "persist" /\ run.level = k
      /\ run'.pc = IF k = "caution" THEN "act" ELSE "finish"
      /\ run'.level = "danger"
      /\ run'.row = run.row /\ run'.sent = run.sent
      /\ db' = db \/ db' = run.row
      /\ now' = now /\ ui' = ui
    BY DEF Persist, TypeOK, Run
<1>2. l \in ActedOn' <=> l \in ActedOn
    BY <1>1 DEF ActedOn, Levels
<1>3. DraftOf(l)' = DraftOf(l) /\ NoteOf(l)' = NoteOf(l) /\ CopiesOf(l)' = CopiesOf(l)
    BY <1>1, <1>2 DEF DraftOf, NoteOf, CopiesOf
<1>4. CASE l \in ActedOn /\ db' = run.row
  <2>1. DraftOf(l) = {run.row.st[l]}
    BY <1>4 DEF DraftOf
  <2> QED
    BY <1>1, <1>3, <1>4, <2>1 DEF IncidentOf!Record
<1>5. CASE l \notin ActedOn \/ db' = db
  <2>1. db'.st[l] = db.st[l]
    BY <1>1, <1>5 DEF SnapshotCurrent
  <2> QED
    BY <1>1, <1>3, <2>1 DEF IncidentOf!vars
<1> QED
    BY <1>1, <1>4, <1>5

LEMMA RunIncident ==
    ASSUME TypeOK, SnapshotCurrent, NEW l \in Levels, AlertRoutine
    PROVE  IncidentOf(l)!Next \/ UNCHANGED IncidentOf(l)!vars
<1>1. CASE RunLoad \/ RunEvaluate
  <2>1. /\ now' = now /\ db' = db /\ ui' = ui
        /\ run.pc \in {"idle", "evaluate"}
        /\ run'.pc = "evaluate" \/ (run'.pc = "act" /\ run'.level = "caution")
    BY <1>1 DEF RunLoad, RunEvaluate, dbVars, TypeOK, Run, Idle
  <2>2. ActedOn = {} /\ ActedOn' = {}
    BY <2>1 DEF ActedOn
  <2> QED
    BY <2>1, <2>2 DEF IncidentOf!vars, DraftOf, NoteOf, CopiesOf
<1>2. ASSUME NEW k \in Levels, TakeAction(k)
      PROVE  IncidentOf(l)!Next \/ UNCHANGED IncidentOf(l)!vars
  <2>1. CASE k = l
    BY <1>2, <2>1, TakeActionIncident DEF AbstractDecision, IncidentOf!Next
  <2>2. CASE k # l
    BY <1>2, <2>2, OtherActionIncident
  <2> QED
    BY <2>1, <2>2
<1>3. ASSUME NEW k \in Levels, Persist(k)
      PROVE  IncidentOf(l)!Next \/ UNCHANGED IncidentOf(l)!vars
    BY <1>3, PersistIncident DEF IncidentOf!Next
<1>4. CASE RunFinish
  <2>1. now' = now /\ db' = db /\ ui' = ui /\ run' = Idle
    BY <1>4 DEF RunFinish, dbVars
  <2>2. DraftOf(l)' = {} /\ NoteOf(l)' = "none" /\ CopiesOf(l)' = CopiesOf(l)
    BY <2>1 DEF DraftOf, NoteOf, CopiesOf, ActedOn, Idle
  <2>3. IncidentOf(l)!Done
    BY <2>1, <2>2 DEF IncidentOf!Done
  <2> QED
    BY <2>3 DEF IncidentOf!Next
<1> QED
    BY <1>1, <1>2, <1>3, <1>4 DEF AlertRoutine

-----------------------------------------------------------------------------
(* Requests.                                                                *)

\* A request that writes the row finds no run under way: no decision is open.
LEMMA NoDecision ==
    ASSUME NEW l \in Levels, LockFree
    PROVE  DraftOf(l) = {} /\ NoteOf(l) = "none"
BY DEF LockFree, DraftOf, NoteOf, ActedOn

\* The status a written row has for a level.
LEMMA AlteredStatus ==
    ASSUME TypeOK, NEW l \in Levels, NEW new \in Row, NEW isAck \in BOOLEAN,
           AlterRecord(new, isAck)
    PROVE  \/ db'.st[l] = new.st[l]
           \/ db'.st[l] = db.st[l]
           \/ isAck /\ db'.st[l] = [db.st[l] EXCEPT !.ack = new.st[l].ack]
<1>1. db'.st = CopyStatusMetadata(new, isAck)
    BY DEF AlterRecord, Row
<1>2. db.st[l] \in Status
    BY DEF TypeOK, Row
<1>3. [db.st[l] EXCEPT !.ack = db.st[l].ack] = db.st[l]
    BY <1>2 DEF Status
<1> QED
    BY <1>1, <1>3 DEF CopyStatusMetadata

LEMMA CommitIncident ==
    ASSUME TypeOK, NEW l \in Levels, NEW s \in Sessions, CommitRequest(s)
    PROVE  IncidentOf(l)!Write(s)
<1> DEFINE copy == ui[s].row.st[l]
<1>1. ui[s].row \in Row /\ (ui[s].op = "ack") \in BOOLEAN
    BY DEF TypeOK, Request
<1>2. /\ db'.st[l] \in {copy, [db.st[l] EXCEPT !.ack = copy.ack], db.st[l]}
    BY <1>1, AlteredStatus DEF CommitRequest
<1>3. CopiesOf(l)[s] = {copy}
    BY DEF CommitRequest, CopiesOf
<1>4. LockFree /\ now' = now /\ run' = run /\ ui' = [ui EXCEPT ![s] = NoRequest]
    BY DEF CommitRequest, AlterRecord
<1>5. CopiesOf(l)' = [CopiesOf(l) EXCEPT ![s] = {}]
    BY <1>4 DEF CopiesOf, NoRequest, TypeOK
<1>6. DraftOf(l) = {} /\ DraftOf(l)' = DraftOf(l) /\ NoteOf(l)' = NoteOf(l)
    BY <1>4, NoDecision DEF DraftOf, NoteOf, ActedOn
<1> HIDE DEF copy
<1> QED
    BY <1>2, <1>3, <1>4, <1>5, <1>6 DEF IncidentOf!Write

\* A session's copy of a level is the record, cleared or acknowledged.
LEMMA BeginIncident ==
    ASSUME TypeOK, NEW l \in Levels, NEW s \in Sessions, NEW request \in Request,
           BeginRequest(s, request), request.op # "none",
           \/ request.row.st[l] \in {db.st[l], Cleared}
           \/ db.st[l].active /\ \E ack \in {"no", "yes"} :
                                    request.row.st[l] = [db.st[l] EXCEPT !.ack = ack]
    PROVE  IncidentOf(l)!Read(s)
<1> DEFINE copy == request.row.st[l]
<1>1. /\ now' = now /\ db' = db /\ run' = run /\ ui[s].op = "none"
      /\ ui' = [ui EXCEPT ![s] = request]
    BY DEF BeginRequest, dbVars
<1>2. CopiesOf(l)[s] = {}
    BY <1>1 DEF CopiesOf
<1>3. CopiesOf(l)' = [CopiesOf(l) EXCEPT ![s] = {copy}]
    BY <1>1 DEF CopiesOf, TypeOK
<1>4. DraftOf(l)' = DraftOf(l) /\ NoteOf(l)' = NoteOf(l)
    BY <1>1 DEF DraftOf, NoteOf, ActedOn
<1>5. IncidentOf(l)!Closed = Cleared
    BY DEF IncidentOf!Closed, IncidentOf!NoTime, Cleared, NoTime
<1>6. \/ copy \in {db.st[l], Cleared}
      \/ db.st[l].active /\ \E ack \in {"no", "yes"} : copy = [db.st[l] EXCEPT !.ack = ack]
    OBVIOUS
<1> HIDE DEF copy
<1>7. CASE copy = db.st[l]
    BY <1>1, <1>2, <1>3, <1>4, <1>7 DEF IncidentOf!Read
<1>8. CASE copy = Cleared
    BY <1>1, <1>2, <1>3, <1>4, <1>5, <1>8 DEF IncidentOf!Read
<1>9. CASE db.st[l].active /\ \E ack \in {"no", "yes"} : copy = [db.st[l] EXCEPT !.ack = ack]
  <2>1. PICK ack \in {"no", "yes"} : copy = [db.st[l] EXCEPT !.ack = ack]
    BY <1>9
  <2>2. CopiesOf(l)' = [CopiesOf(l) EXCEPT ![s] = {[db.st[l] EXCEPT !.ack = ack]}]
    BY <1>3, <2>1
  <2> QED
    BY <1>1, <1>2, <1>4, <1>9, <2>2 DEF IncidentOf!Read
<1> QED
    BY <1>6, <1>7, <1>8, <1>9

LEMMA RequestIncident ==
    ASSUME TypeOK, NEW l \in Levels, Requests
    PROVE  IncidentOf(l)!Next \/ UNCHANGED IncidentOf(l)!vars
<1> DEFINE Goal == IncidentOf(l)!Next \/ UNCHANGED IncidentOf(l)!vars
<1>0. IncidentOf(l)!Closed = Cleared
    BY DEF IncidentOf!Closed, IncidentOf!NoTime, Cleared, NoTime
<1>1. ASSUME LockFree, now' = now, run' = run, ui' = ui,
             db'.st[l] \in {db.st[l], Cleared}
      PROVE  Goal
  <2>1. /\ DraftOf(l) = {} /\ DraftOf(l)' = DraftOf(l)
        /\ NoteOf(l)' = NoteOf(l) /\ CopiesOf(l)' = CopiesOf(l)
    BY <1>1, NoDecision DEF DraftOf, NoteOf, CopiesOf, ActedOn
  <2>2. CASE db'.st[l] = Cleared
    <3>1. IncidentOf(l)!Clear
      BY <1>0, <1>1, <2>1, <2>2 DEF IncidentOf!Clear
    <3> QED
      BY <3>1 DEF IncidentOf!Next
  <2>3. CASE db'.st[l] = db.st[l]
    BY <1>1, <2>1, <2>3 DEF IncidentOf!vars
  <2> QED
    BY <1>1, <2>2, <2>3
<1>2. ASSUME NEW enabled \in BOOLEAN, NEW c \in Configs, SubmitForm(enabled, c) PROVE Goal
  <2>1. AlterRecord(FormAlert(enabled, c), FALSE) /\ FormAlert(enabled, c) \in Row
    BY <1>2, FormAlertType DEF SubmitForm
  <2>2. FormAlert(enabled, c).st[l] = Cleared
    BY DEF FormAlert, AllCleared
  <2>3. db'.st[l] \in {db.st[l], Cleared}
    BY <2>1, <2>2, AlteredStatus
  <2>4. LockFree /\ now' = now /\ run' = run /\ ui' = ui
    BY <1>2 DEF SubmitForm, AlterRecord
  <2> QED
    BY <1>1, <2>3, <2>4
<1>3. ASSUME DeleteAlert PROVE Goal
  <2>1. LockFree /\ now' = now /\ run' = run /\ ui' = ui /\ db'.st[l] = Cleared
    BY <1>3 DEF DeleteAlert, NoRow, AllCleared
  <2> QED
    BY <1>1, <2>1
<1>4. ASSUME NEW s \in Sessions, NEW enabled \in BOOLEAN, BeginToggle(s, enabled) PROVE Goal
  <2> DEFINE row == [db EXCEPT !.enabled = enabled, !.st = IF enabled THEN @ ELSE AllCleared]
  <2>1. row \in Row /\ row.st[l] \in {db.st[l], Cleared}
    BY ClearedType DEF TypeOK, Row, AllCleared
  <2> HIDE DEF row
  <2> DEFINE request == [NoRequest EXCEPT !.op = "toggle", !.row = row]
  <2>2. request \in Request /\ request.op # "none" /\ request.row = row
    BY <2>1 DEF NoRequest, Request, Levels, Acks
  <2>3. BeginRequest(s, request)
    BY <1>4 DEF BeginToggle, row
  <2> HIDE DEF request
  <2>4. IncidentOf(l)!Read(s)
    BY <2>1, <2>2, <2>3, BeginIncident
  <2> QED
    BY <2>4 DEF IncidentOf!Next
<1>5. ASSUME NEW s \in Sessions, NEW enabled \in BOOLEAN, NEW c \in Configs,
             BeginTemplate(s, enabled, c)
      PROVE  Goal
  <2> DEFINE row == [FormAlert(enabled, c) EXCEPT !.id = IF Exists(db) THEN db.id ELSE NewId]
  <2>1. row \in Row /\ row.st[l] = Cleared
    BY ClearedType DEF FormAlert, TypeOK, Row, AllCleared, NewId
  <2> HIDE DEF row
  <2> DEFINE request == [NoRequest EXCEPT !.op = "template", !.row = row]
  <2>2. request \in Request /\ request.op # "none" /\ request.row = row
    BY <2>1 DEF NoRequest, Request, Levels, Acks
  <2>3. BeginRequest(s, request)
    BY <1>5 DEF BeginTemplate, row
  <2> HIDE DEF request
  <2>4. IncidentOf(l)!Read(s)
    BY <2>1, <2>2, <2>3, BeginIncident
  <2> QED
    BY <2>4 DEF IncidentOf!Next
<1>6. ASSUME NEW s \in Sessions, NEW levels \in SUBSET Levels, NEW ack \in {"no", "yes"},
             BeginAck(s, levels, ack)
      PROVE  Goal
  <2> DEFINE active == {k \in levels : db.st[k].active}
             st == [k \in Levels |-> IF k \in active THEN [db.st[k] EXCEPT !.ack = ack]
                                     ELSE db.st[k]]
             row == [db EXCEPT !.st = st]
             request == [op |-> "ack", levels |-> active, ack |-> ack, row |-> row]
  <2>1. st \in [Levels -> Status]
    BY DEF TypeOK, Row, Status, Acks
  <2>2. row \in Row /\ row.st = st
    BY <2>1 DEF TypeOK, Row
  <2>3. BeginRequest(s, request)
    BY <1>6, Zenon DEF BeginAck
  <2>4. request.row = row /\ request.op # "none"
    OBVIOUS
  <2>5. request \in Request
    <3> HIDE DEF row, st
    <3> QED
      BY <2>2 DEF Request, Acks
  <2>6. \/ row.st[l] = db.st[l]
        \/ db.st[l].active /\ row.st[l] = [db.st[l] EXCEPT !.ack = ack]
    BY <2>2
  <2> HIDE DEF request, row, st, active
  <2>7. IncidentOf(l)!Read(s)
    BY <2>3, <2>4, <2>5, <2>6, BeginIncident
  <2> QED
    BY <2>7 DEF IncidentOf!Next
<1>7. ASSUME NEW s \in Sessions, CommitRequest(s) PROVE Goal
    BY <1>7, CommitIncident DEF IncidentOf!Next
<1> HIDE DEF Goal
<1>8. ASSUME NEW levels \in {{"caution"}, {"danger"}, Levels}
      PROVE  levels \in SUBSET Levels
    BY DEF Levels
<1>9. Goal
    BY <1>2, <1>3, <1>4, <1>5, <1>6, <1>7, <1>8, ZenonT(60) DEF Requests
<1> QED
    BY <1>9 DEF Goal

-----------------------------------------------------------------------------
LEMMA IncidentStep ==
    ASSUME TypeOK, SnapshotCurrent, [Next]_vars, NEW l \in Levels
    PROVE  IncidentOf(l)!Next \/ UNCHANGED IncidentOf(l)!vars
<1>1. CASE Tick
    BY <1>1, TickIncident DEF IncidentOf!Next
<1>2. CASE Crash \/ Boot \/ SetStartTimestamp \/ UNCHANGED vars
    BY <1>2, ProcessIncident DEF IncidentOf!Next
<1>3. CASE AlertRoutine
    BY <1>3, RunIncident
<1>4. CASE Requests
    BY <1>4, RequestIncident
<1> QED
    BY <1>1, <1>2, <1>3, <1>4 DEF Next

\* The two levels are the incidents of the run and the row.
LEMMA CautionIsIncident ==
    /\ IncidentOf("caution")!Init <=> Caution!Init
    /\ IncidentOf("caution")!Next <=> Caution!Next
    /\ IncidentOf("caution")!vars = Caution!vars
    /\ IncidentOf("caution")!vars' = Caution!vars'
BY DEF IncidentOf!Init, IncidentOf!Closed, IncidentOf!NoTime, IncidentOf!Next, IncidentOf!vars,
       IncidentOf!Tick, IncidentOf!Open, IncidentOf!Repeat, IncidentOf!Resolve,
       IncidentOf!Suspend, IncidentOf!Keep, IncidentOf!Record, IncidentOf!Done,
       IncidentOf!Crash, IncidentOf!Clear, IncidentOf!Read, IncidentOf!Write,
       IncidentOf!Decide, IncidentOf!ResendDue,
       Caution!Init, Caution!Closed, Caution!NoTime, Caution!Next, Caution!vars,
       Caution!Tick, Caution!Open, Caution!Repeat, Caution!Resolve, Caution!Suspend,
       Caution!Keep, Caution!Record, Caution!Done, Caution!Crash, Caution!Clear,
       Caution!Read, Caution!Write, Caution!Decide, Caution!ResendDue

LEMMA DangerIsIncident ==
    /\ IncidentOf("danger")!Init <=> Danger!Init
    /\ IncidentOf("danger")!Next <=> Danger!Next
    /\ IncidentOf("danger")!vars = Danger!vars
    /\ IncidentOf("danger")!vars' = Danger!vars'
BY DEF IncidentOf!Init, IncidentOf!Closed, IncidentOf!NoTime, IncidentOf!Next, IncidentOf!vars,
       IncidentOf!Tick, IncidentOf!Open, IncidentOf!Repeat, IncidentOf!Resolve,
       IncidentOf!Suspend, IncidentOf!Keep, IncidentOf!Record, IncidentOf!Done,
       IncidentOf!Crash, IncidentOf!Clear, IncidentOf!Read, IncidentOf!Write,
       IncidentOf!Decide, IncidentOf!ResendDue,
       Danger!Init, Danger!Closed, Danger!NoTime, Danger!Next, Danger!vars,
       Danger!Tick, Danger!Open, Danger!Repeat, Danger!Resolve, Danger!Suspend,
       Danger!Keep, Danger!Record, Danger!Done, Danger!Crash, Danger!Clear,
       Danger!Read, Danger!Write, Danger!Decide, Danger!ResendDue

\* Each level of an alert is an incident of module Incident, for all criteria,
\* sessions, kinds of request and bounds: the alert thread, its write of the
\* whole row, the requests with their stale copies and the crashes do nothing
\* to a level that an incident on its own would not do.
THEOREM AlertImplementsIncidents == Spec => RefinesIncident
<1>1. Init => Caution!Init /\ Danger!Init
    BY IncidentInit, CautionIsIncident, DangerIsIncident DEF Levels
<1>2. TypeOK /\ SnapshotCurrent /\ [Next]_vars
        => [Caution!Next]_Caution!vars /\ [Danger!Next]_Danger!vars
    BY IncidentStep, CautionIsIncident, DangerIsIncident DEF Levels
<1> QED
    BY <1>1, <1>2, TypeCorrect, SnapshotAlwaysCurrent, PTL
       DEF Spec, RefinesIncident, Caution!Spec, Danger!Spec

=============================================================================
