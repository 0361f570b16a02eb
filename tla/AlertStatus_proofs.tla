------------------------ MODULE AlertStatus_proofs -------------------------
(***************************************************************************)
(* Proofs about AlertStatus, for every set of criteria and sessions, every *)
(* option, timeout and bound.  The last two theorems, on writes that leave *)
(* the criteria and on the recovery routine, restrict the requests.        *)
(***************************************************************************)
EXTENDS AlertStatus, TLAPS

USE DEF Levels, AlertTypes, Suspensions, Acks, NoTime, Time

-----------------------------------------------------------------------------
(* The values the initial state and the resets are made of are well typed. *)

LEMMA AnyConfigType == AnyConfig \in Configs
BY ConfigsAssumption DEF AnyConfig

LEMMA ConfigType ==
    ASSUME NEW c \in Configs, NEW l \in Levels
    PROVE  /\ c.type \in AlertTypes
           /\ c.crit[l].on \in BOOLEAN
           /\ c.crit[l].window \in Nat
BY ConfigsAssumption DEF Criteria

LEMMA ClearedType == Cleared \in Status /\ AllCleared \in [Levels -> Status]
BY DEF Cleared, AllCleared, Status

LEMMA NoRowType == NoRow \in Row
BY AnyConfigType, ClearedType DEF NoRow, Row, NoRowId

LEMMA IdleType == Idle \in Run
BY NoRowType DEF Idle, Run

LEMMA NoRequestType == NoRequest \in Request
BY NoRowType DEF NoRequest, Request

LEMMA InitType == Init => TypeOK
<1> SUFFICES ASSUME Init PROVE TypeOK
    OBVIOUS
<1>1. db \in Row
  <2>1. CASE db = NoRow
    BY <2>1, NoRowType
  <2>2. CASE db # NoRow
    <3>1. PICK c \in Configs : db = [id |-> 1, enabled |-> TRUE, cfg |-> c, st |-> AllCleared]
      BY <2>2, Zenon DEF Init
    <3> QED
      BY <3>1, ClearedType DEF Row
  <2> QED
    BY <2>1, <2>2
<1>2. now \in Nat /\ bootTime \in Nat
    BY BoundsAssumption DEF Init
<1>3. pendingOf \in [id : Int, cfg : Configs]
    BY AnyConfigType DEF Init, NoRowId
<1>4. run \in Run /\ ui \in [Sessions -> Request]
    BY IdleType, NoRequestType DEF Init
<1>5. nextId \in Nat \ {0} /\ crashes \in Nat /\ startTs \in Nat
    BY DEF Init
<1>6. up \in BOOLEAN /\ firstRunDone \in BOOLEAN
    BY DEF Init
<1>7. pending \in SUBSET Levels /\ seen \in SUBSET Levels
    BY DEF Init
<1> QED
    BY <1>1, <1>2, <1>3, <1>4, <1>5, <1>6, <1>7, Zenon DEF TypeOK

-----------------------------------------------------------------------------
(* The values the actions write are well typed. *)

LEMMA StatusType ==
    ASSUME NEW active \in BOOLEAN, NEW first \in Time, NEW ack \in Acks, NEW last \in Time
    PROVE  [active |-> active, firstActiveAt |-> first, ack |-> ack, lastSent |-> last]
               \in Status
BY DEF Status

\* A row with one field replaced is a row.
LEMMA RowUpdateType ==
    ASSUME NEW row \in Row, NEW id \in Int, NEW enabled \in BOOLEAN,
           NEW st \in [Levels -> Status]
    PROVE  /\ [row EXCEPT !.id = id, !.st = st] \in Row
           /\ [row EXCEPT !.enabled = enabled, !.st = st] \in Row
           /\ [row EXCEPT !.st = st] \in Row
BY DEF Row

\* The run after action was taken on a level.
LEMMA ActType ==
    ASSUME run \in Run, NEW l \in Levels, NEW status \in Status,
           NEW note \in {"none", "open", "positive", "resend"}, NEW dirty \in BOOLEAN
    PROVE  [run EXCEPT !.pc = "persist", !.row.st[l] = status,
                       !.sent[l] = note, !.dirty = dirty] \in Run
<1> DEFINE row == [run.row EXCEPT !.st[l] = status]
           sent == [run.sent EXCEPT ![l] = note]
<1>1. row \in Row
    BY DEF Row, Run
<1>2. sent \in [Levels -> {"none", "open", "positive", "resend"}]
    BY DEF Run
<1>3. [run EXCEPT !.pc = "persist", !.row = row, !.sent = sent, !.dirty = dirty] \in Run
  <2> HIDE DEF row, sent
  <2> QED
    BY <1>1, <1>2 DEF Run
<1> QED
    BY <1>3 DEF Run, Row

LEMMA CopyStatusMetadataType ==
    ASSUME TypeOK, NEW new \in Row, NEW isAck \in BOOLEAN
    PROVE  CopyStatusMetadata(new, isAck) \in [Levels -> Status]
BY DEF TypeOK, CopyStatusMetadata, Row, Status

-----------------------------------------------------------------------------
(* Type correctness. *)

\* Taking action on a level leaves everything but the run alone.
LEMMA ActKeepsType ==
    ASSUME TypeOK, NEW l \in Levels, NEW status \in Status,
           NEW note \in {"none", "open", "positive", "resend"}, NEW dirty \in BOOLEAN,
           Act(l, status, note, dirty)
    PROVE  TypeOK'
<1>1. run' \in Run
    BY ActType DEF Act, TypeOK
<1> QED
    BY <1>1 DEF Act, TypeOK, dbVars, procVars, ghostVars

LEMMA TakeActionType ==
    ASSUME TypeOK, NEW l \in Levels, TakeAction(l)
    PROVE  TypeOK'
<1> DEFINE st == run.row.st[l]
<1>1. st \in Status /\ now \in Time
    BY DEF TypeOK, Run, Row
<1>2. CASE SkipLevel(l)
    BY <1>1, <1>2, ActKeepsType DEF SkipLevel
<1>3. CASE SuspendEntireAlert(l)
  <2>1. [st EXCEPT !.active = FALSE, !.firstActiveAt = NoTime, !.lastSent = NoTime] \in Status
    BY <1>1 DEF Status
  <2> QED
    BY <1>3, <2>1, ActKeepsType DEF SuspendEntireAlert
<1>4. CASE NotActiveToActive(l)
  <2>1. [active |-> TRUE, firstActiveAt |-> now, ack |-> "no", lastSent |-> now] \in Status
    BY <1>1 DEF Status
  <2> QED
    BY <1>4, <2>1, ActKeepsType DEF NotActiveToActive
<1>5. CASE ActiveToNotActive(l)
    BY <1>5, ClearedType, ActKeepsType DEF ActiveToNotActive
<1>6. CASE ActiveToActive(l)
  <2>1. [st EXCEPT !.lastSent = now] \in Status
    BY <1>1 DEF Status
  <2>2. \/ Act(l, [st EXCEPT !.lastSent = now], "resend", TRUE)
        \/ Act(l, [st EXCEPT !.lastSent = now], "none", TRUE)
        \/ Act(l, st, "none", FALSE)
    BY <1>6 DEF ActiveToActive
  <2> QED
    BY <1>1, <2>1, <2>2, ActKeepsType
<1> QED
    BY <1>2, <1>3, <1>4, <1>5, <1>6 DEF TakeAction

LEMMA AlterRecordType ==
    ASSUME TypeOK, NEW new \in Row, NEW isAck \in BOOLEAN, AlterRecord(new, isAck)
    PROVE  db' \in Row /\ nextId' \in Nat \ {0}
<1>1. db.id \in Int /\ nextId \in Nat \ {0}
    BY DEF TypeOK, Row
<1>2. (IF Exists(db) THEN db.id ELSE nextId) \in Int
    BY <1>1
<1>3. db' \in Row
    BY <1>2, CopyStatusMetadataType, RowUpdateType DEF AlterRecord
<1> QED
    BY <1>1, <1>3 DEF AlterRecord

LEMMA RequestType ==
    ASSUME TypeOK, NEW s \in Sessions, NEW request \in Request, BeginRequest(s, request)
    PROVE  TypeOK'
<1>1. ui' \in [Sessions -> Request]
    BY DEF BeginRequest, TypeOK
<1> QED
    BY <1>1 DEF BeginRequest, TypeOK, dbVars, procVars, ghostVars

LEMMA FormAlertType ==
    ASSUME NEW enabled \in BOOLEAN, NEW c \in Configs
    PROVE  FormAlert(enabled, c) \in Row
BY ClearedType DEF FormAlert, Row, NewId

LEMMA RunStepType ==
    ASSUME TypeOK, AlertRoutine
    PROVE  TypeOK'
<1>1. CASE RunLoad
  <2>1. PICK susp \in Suspensions :
            run' = [Idle EXCEPT !.pc = "evaluate", !.row = db, !.susp = susp]
    BY <1>1 DEF RunLoad
  <2>2. run' \in Run
    BY <2>1, IdleType DEF TypeOK, Run
  <2>3. pending' \in SUBSET Levels
    BY <1>1 DEF RunLoad, TypeOK
  <2>4. pendingOf' \in [id : Int, cfg : Configs]
    BY <1>1 DEF RunLoad, TypeOK, Row
  <2> QED
    BY <1>1, <2>2, <2>3, <2>4 DEF RunLoad, TypeOK, dbVars, ghostVars
<1>2. CASE RunEvaluate
  <2>1. PICK met \in SUBSET Evaluable(run.row) :
          LET keys == ActiveKeys(run.row, met)
          IN  /\ run' = [run EXCEPT !.pc = "act", !.level = "caution", !.keys = keys]
              /\ pending' = StillPending(keys)
              /\ seen' = seen \cup met
    BY <1>2 DEF RunEvaluate
  <2>2. met \in SUBSET Levels
    BY DEF Evaluable
  <2>3. ActiveKeys(run.row, met) \in [Levels -> {"absent", "empty", "some"}]
    BY DEF ActiveKeys
  <2>4. run' \in Run
    BY <2>1, <2>3 DEF TypeOK, Run
  <2>5. pending' \in SUBSET Levels /\ seen' \in SUBSET Levels
    BY <2>1, <2>2 DEF StillPending, TypeOK
  <2> QED
    BY <1>2, <2>4, <2>5 DEF RunEvaluate, TypeOK, dbVars
<1>3. ASSUME NEW l \in Levels, TakeAction(l) PROVE TypeOK'
    BY <1>3, TakeActionType
<1>4. ASSUME NEW l \in Levels, Persist(l) PROVE TypeOK'
  <2>1. db' \in Row
    BY <1>4 DEF Persist, TypeOK, Run
  <2>2. run' \in Run
    BY <1>4 DEF Persist, TypeOK, Run
  <2> QED
    BY <1>4, <2>1, <2>2 DEF Persist, TypeOK, procVars, ghostVars
<1>5. CASE RunFinish
  <2>1. run' \in Run /\ firstRunDone' \in BOOLEAN
    BY <1>5, IdleType DEF RunFinish
  <2> QED
    BY <1>5, <2>1 DEF RunFinish, TypeOK, dbVars, ghostVars
<1> QED
    BY <1>1, <1>2, <1>3, <1>4, <1>5 DEF AlertRoutine

LEMMA RequestStepType ==
    ASSUME TypeOK, Requests
    PROVE  TypeOK'
<1>1. ASSUME NEW enabled \in BOOLEAN, NEW c \in Configs, SubmitForm(enabled, c) PROVE TypeOK'
  <2>1. db' \in Row /\ nextId' \in Nat \ {0}
    BY <1>1, FormAlertType, AlterRecordType DEF SubmitForm
  <2> QED
    BY <1>1, <2>1 DEF SubmitForm, TypeOK, procVars, ghostVars
<1>2. CASE DeleteAlert
    BY <1>2, NoRowType DEF DeleteAlert, TypeOK, procVars, ghostVars
<1>3. ASSUME NEW s \in Sessions, NEW enabled \in BOOLEAN, BeginToggle(s, enabled) PROVE TypeOK'
  <2> DEFINE row == [db EXCEPT !.enabled = enabled, !.st = IF enabled THEN @ ELSE AllCleared]
  <2>1. row \in Row
    BY ClearedType DEF TypeOK, Row
  <2> HIDE DEF row
  <2>2. [NoRequest EXCEPT !.op = "toggle", !.row = row] \in Request
    BY <2>1, NoRequestType DEF Request
  <2> QED
    BY <1>3, <2>2, RequestType DEF BeginToggle, row
<1>4. ASSUME NEW s \in Sessions, NEW enabled \in BOOLEAN, NEW c \in Configs,
             BeginTemplate(s, enabled, c)
      PROVE  TypeOK'
  <2> DEFINE row == [FormAlert(enabled, c) EXCEPT !.id = IF Exists(db) THEN db.id ELSE NewId]
  <2>1. row \in Row
    BY FormAlertType DEF TypeOK, Row, NewId
  <2> HIDE DEF row
  <2>2. [NoRequest EXCEPT !.op = "template", !.row = row] \in Request
    BY <2>1, NoRequestType DEF Request
  <2> QED
    BY <1>4, <2>2, RequestType DEF BeginTemplate, row
<1>5. ASSUME NEW s \in Sessions, NEW levels \in SUBSET Levels, NEW ack \in {"no", "yes"},
             BeginAck(s, levels, ack)
      PROVE  TypeOK'
  <2> DEFINE active == {l \in levels : db.st[l].active}
             st == [l \in Levels |-> IF l \in active THEN [db.st[l] EXCEPT !.ack = ack]
                                     ELSE db.st[l]]
             row == [db EXCEPT !.st = st]
  <2>1. st \in [Levels -> Status]
    BY DEF TypeOK, Row, Status
  <2>2. row \in Row
    BY <2>1, RowUpdateType DEF TypeOK
  <2>3. active \in SUBSET Levels
    OBVIOUS
  <2>4. BeginRequest(s, [op |-> "ack", levels |-> active, ack |-> ack, row |-> row])
    BY <1>5, Zenon DEF BeginAck
  <2> HIDE DEF active, st, row
  <2>5. [op |-> "ack", levels |-> active, ack |-> ack, row |-> row] \in Request
    BY <2>2, <2>3 DEF Request
  <2> QED
    BY <2>4, <2>5, RequestType
<1>6. ASSUME NEW s \in Sessions, CommitRequest(s) PROVE TypeOK'
  <2>1. ui[s].row \in Row /\ (ui[s].op = "ack") \in BOOLEAN
    BY DEF TypeOK, Request
  <2>2. db' \in Row /\ nextId' \in Nat \ {0}
    BY <1>6, <2>1, AlterRecordType DEF CommitRequest
  <2>3. ui' \in [Sessions -> Request]
    BY <1>6, NoRequestType DEF CommitRequest, TypeOK
  <2> QED
    BY <1>6, <2>2, <2>3 DEF CommitRequest, TypeOK, procVars, ghostVars
<1> QED
    BY <1>1, <1>2, <1>3, <1>4, <1>5, <1>6, Zenon DEF Requests

LEMMA TypeStep == TypeOK /\ [Next]_vars => TypeOK'
<1> SUFFICES ASSUME TypeOK, [Next]_vars PROVE TypeOK'
    OBVIOUS
<1>1. CASE Tick
    BY <1>1 DEF Tick, TypeOK, dbVars, procVars, ghostVars
<1>2. CASE Crash
  <2>1. run' \in Run /\ ui' \in [Sessions -> Request]
    BY <1>2, IdleType, NoRequestType DEF Crash
  <2>2. up' \in BOOLEAN
    BY <1>2 DEF Crash
  <2>3. crashes' \in Nat
    BY <1>2 DEF Crash, TypeOK
  <2>4. UNCHANGED <<now, dbVars, startTs, firstRunDone, pending, pendingOf, bootTime, seen>>
    BY <1>2 DEF Crash
  <2> QED
    BY <2>1, <2>2, <2>3, <2>4 DEF TypeOK, dbVars
<1>3. CASE Boot
  <2>1. pendingOf' \in [id : Int, cfg : Configs]
    BY <1>3, AnyConfigType DEF Boot, NoRowId
  <2> QED
    BY <1>3, <2>1 DEF Boot, TypeOK, dbVars
<1>4. CASE SetStartTimestamp
    BY <1>4 DEF SetStartTimestamp, TypeOK, dbVars, ghostVars
<1>5. CASE AlertRoutine
    BY <1>5, RunStepType
<1>6. CASE Requests
    BY <1>6, RequestStepType
<1>7. CASE UNCHANGED vars
    BY <1>7 DEF vars, TypeOK, dbVars, procVars, ghostVars
<1> QED
    BY <1>1, <1>2, <1>3, <1>4, <1>5, <1>6, <1>7 DEF Next

\* Every variable keeps its type, whatever the options, timeouts and bounds.
THEOREM TypeCorrect == Spec => []TypeOK
BY InitType, TypeStep, PTL DEF Spec

-----------------------------------------------------------------------------
(* The status of the row is coherent.  The row alone is not inductive: the  *)
(* alert thread and the requests write copies they hold, so every copy has  *)
(* to be coherent too.                                                      *)

CopiesCoherent ==
    /\ Coherent(db, now)
    /\ Coherent(run.row, now)
    /\ \A s \in Sessions : Coherent(ui[s].row, now)

LEMMA ClearedCoherent ==
    ASSUME NEW t \in Nat
    PROVE  CoherentStatus(Cleared, t)
BY DEF CoherentStatus, Cleared

LEMMA NoRowCoherent ==
    ASSUME NEW t \in Nat
    PROVE  Coherent(NoRow, t) /\ Coherent(Idle.row, t) /\ Coherent(NoRequest.row, t)
BY ClearedCoherent DEF Coherent, NoRow, Idle, NoRequest, AllCleared

LEMMA FormAlertCoherent ==
    ASSUME NEW t \in Nat, NEW enabled, NEW c
    PROVE  Coherent(FormAlert(enabled, c), t)
BY ClearedCoherent DEF Coherent, FormAlert, AllCleared

\* Acknowledging does not matter.
LEMMA AckCoherent ==
    ASSUME NEW st \in Status, NEW t \in Nat, NEW ack, CoherentStatus(st, t)
    PROVE  CoherentStatus([st EXCEPT !.ack = ack], t)
BY DEF CoherentStatus, Status

\* A status that is coherent stays so as time passes.
LEMMA CoherentLater ==
    ASSUME NEW row \in Row, NEW t \in Nat, NEW u \in Nat, t <= u, Coherent(row, t)
    PROVE  Coherent(row, u)
<1> SUFFICES ASSUME NEW l \in Levels PROVE CoherentStatus(row.st[l], u)
    BY DEF Coherent
<1>1. row.st[l].lastSent \in Int
    BY DEF Row, Status
<1>2. CoherentStatus(row.st[l], t)
    BY DEF Coherent
<1> QED
    BY <1>1, <1>2 DEF CoherentStatus

\* The row after action was taken on a level.
LEMMA ActCoherent ==
    ASSUME TypeOK, CopiesCoherent, NEW l \in Levels, NEW status \in Status,
           CoherentStatus(status, now), NEW note, NEW dirty, Act(l, status, note, dirty)
    PROVE  CopiesCoherent'
<1>1. run'.row = [run.row EXCEPT !.st[l] = status]
    BY DEF Act, TypeOK, Run
<1>2. \A k \in Levels : CoherentStatus(run'.row.st[k], now)
    BY <1>1 DEF TypeOK, Run, Row, CopiesCoherent, Coherent
<1>3. now' = now /\ db' = db /\ ui' = ui
    BY DEF Act, dbVars
<1> QED
    BY <1>2, <1>3 DEF CopiesCoherent, Coherent

LEMMA TakeActionCoherent ==
    ASSUME TypeOK, CopiesCoherent, NEW l \in Levels, TakeAction(l)
    PROVE  CopiesCoherent'
<1> DEFINE st == run.row.st[l]
<1>1. st \in Status /\ now \in Nat
    BY DEF TypeOK, Run, Row
<1>2. CoherentStatus(st, now)
    BY DEF CopiesCoherent, Coherent
<1>3. CASE SkipLevel(l)
    BY <1>1, <1>2, <1>3, ActCoherent DEF SkipLevel
<1>4. CASE SuspendEntireAlert(l)
  <2> DEFINE new == [st EXCEPT !.active = FALSE, !.firstActiveAt = NoTime, !.lastSent = NoTime]
  <2>1. new \in Status
    BY <1>1 DEF Status
  <2>2. new.active = FALSE /\ new.firstActiveAt = NoTime /\ new.lastSent = NoTime
    BY <1>1 DEF Status
  <2>3. CoherentStatus(new, now)
    <3> HIDE DEF new
    <3> QED
      BY <1>1, <2>2 DEF CoherentStatus
  <2> QED
    BY <1>4, <2>1, <2>3, ActCoherent DEF SuspendEntireAlert
<1>5. CASE NotActiveToActive(l)
  <2> DEFINE new == [active |-> TRUE, firstActiveAt |-> now, ack |-> "no", lastSent |-> now]
  <2>1. new \in Status /\ CoherentStatus(new, now)
    BY <1>1 DEF Status, CoherentStatus
  <2> QED
    BY <1>5, <2>1, ActCoherent DEF NotActiveToActive
<1>6. CASE ActiveToNotActive(l)
    BY <1>1, <1>6, ClearedType, ClearedCoherent, ActCoherent DEF ActiveToNotActive
<1>7. CASE ActiveToActive(l)
  <2> DEFINE new == [st EXCEPT !.lastSent = now]
  <2>1. st.active
    BY <1>7 DEF ActiveToActive
  <2>2. new \in Status /\ CoherentStatus(new, now)
    BY <1>1, <1>2, <2>1 DEF Status, CoherentStatus
  <2>3. \/ Act(l, new, "resend", TRUE)
        \/ Act(l, new, "none", TRUE)
        \/ Act(l, st, "none", FALSE)
    BY <1>7 DEF ActiveToActive
  <2> QED
    BY <1>1, <1>2, <2>2, <2>3, ActCoherent
<1> QED
    BY <1>3, <1>4, <1>5, <1>6, <1>7 DEF TakeAction

LEMMA AlterRecordCoherent ==
    ASSUME TypeOK, CopiesCoherent, NEW new \in Row, NEW isAck \in BOOLEAN,
           Coherent(new, now), AlterRecord(new, isAck)
    PROVE  Coherent(db', now)
<1> SUFFICES ASSUME NEW l \in Levels PROVE CoherentStatus(db'.st[l], now)
    BY DEF Coherent
<1>1. db'.st = CopyStatusMetadata(new, isAck)
    BY DEF AlterRecord, Row
<1>2. CoherentStatus(new.st[l], now) /\ CoherentStatus(db.st[l], now)
    BY DEF Coherent, CopiesCoherent
<1>3. db.st[l] \in Status /\ now \in Nat
    BY DEF TypeOK, Row
<1>4. \/ CopyStatusMetadata(new, isAck)[l] = new.st[l]
      \/ \E ack : CopyStatusMetadata(new, isAck)[l] = [db.st[l] EXCEPT !.ack = ack]
    BY DEF CopyStatusMetadata
<1> QED
    BY <1>1, <1>2, <1>3, <1>4, AckCoherent

\* A session that prepares a coherent row.
LEMMA RequestCoherent ==
    ASSUME TypeOK, CopiesCoherent, NEW s \in Sessions, NEW request,
           Coherent(request.row, now), BeginRequest(s, request)
    PROVE  CopiesCoherent'
<1>1. now' = now /\ db' = db /\ run' = run /\ ui' = [ui EXCEPT ![s] = request]
    BY DEF BeginRequest, dbVars
<1>2. \A t \in Sessions : Coherent(ui'[t].row, now)
    BY <1>1 DEF TypeOK, CopiesCoherent
<1> QED
    BY <1>1, <1>2 DEF CopiesCoherent, Coherent

LEMMA RunStepCoherent ==
    ASSUME TypeOK, CopiesCoherent, AlertRoutine
    PROVE  CopiesCoherent'
<1>1. CASE RunLoad
  <2>1. now' = now /\ db' = db /\ ui' = ui /\ run'.row = db
    BY <1>1 DEF RunLoad, dbVars, Idle
  <2> QED
    BY <2>1 DEF CopiesCoherent, Coherent
<1>2. CASE RunEvaluate
  <2>1. now' = now /\ db' = db /\ ui' = ui /\ run'.row = run.row
    BY <1>2 DEF RunEvaluate, dbVars, TypeOK, Run
  <2> QED
    BY <2>1 DEF CopiesCoherent, Coherent
<1>3. ASSUME NEW l \in Levels, TakeAction(l) PROVE CopiesCoherent'
    BY <1>3, TakeActionCoherent
<1>4. ASSUME NEW l \in Levels, Persist(l) PROVE CopiesCoherent'
  <2>1. now' = now /\ ui' = ui /\ run'.row = run.row /\ (db' = db \/ db' = run.row)
    BY <1>4 DEF Persist, TypeOK, Run
  <2> QED
    BY <2>1 DEF CopiesCoherent, Coherent
<1>5. CASE RunFinish
  <2>1. now' = now /\ db' = db /\ ui' = ui /\ run' = Idle /\ now \in Nat
    BY <1>5 DEF RunFinish, dbVars, TypeOK
  <2> QED
    BY <2>1, NoRowCoherent DEF CopiesCoherent, Coherent
<1> QED
    BY <1>1, <1>2, <1>3, <1>4, <1>5 DEF AlertRoutine

LEMMA RequestStepCoherent ==
    ASSUME TypeOK, CopiesCoherent, Requests
    PROVE  CopiesCoherent'
<1>0. now \in Nat
    BY DEF TypeOK
<1>1. ASSUME NEW enabled \in BOOLEAN, NEW c \in Configs, SubmitForm(enabled, c)
      PROVE  CopiesCoherent'
  <2>1. Coherent(db', now)
    BY <1>0, <1>1, FormAlertType, FormAlertCoherent, AlterRecordCoherent DEF SubmitForm
  <2>2. now' = now /\ run' = run /\ ui' = ui
    BY <1>1 DEF SubmitForm
  <2> QED
    BY <2>1, <2>2 DEF CopiesCoherent, Coherent
<1>2. CASE DeleteAlert
  <2>1. now' = now /\ run' = run /\ ui' = ui /\ db' = NoRow
    BY <1>2 DEF DeleteAlert
  <2> QED
    BY <1>0, <2>1, NoRowCoherent DEF CopiesCoherent, Coherent
<1>3. ASSUME NEW s \in Sessions, NEW enabled \in BOOLEAN, BeginToggle(s, enabled)
      PROVE  CopiesCoherent'
  <2> DEFINE row == [db EXCEPT !.enabled = enabled, !.st = IF enabled THEN @ ELSE AllCleared]
  <2>1. row.st = IF enabled THEN db.st ELSE AllCleared
    BY DEF TypeOK, Row
  <2>2. Coherent(row, now)
    BY <1>0, <2>1, ClearedCoherent DEF CopiesCoherent, Coherent, AllCleared
  <2> HIDE DEF row
  <2>3. [NoRequest EXCEPT !.op = "toggle", !.row = row].row = row
    BY DEF NoRequest
  <2> QED
    BY <1>3, <2>2, <2>3, RequestCoherent DEF BeginToggle, row
<1>4. ASSUME NEW s \in Sessions, NEW enabled \in BOOLEAN, NEW c \in Configs,
             BeginTemplate(s, enabled, c)
      PROVE  CopiesCoherent'
  <2> DEFINE row == [FormAlert(enabled, c) EXCEPT !.id = IF Exists(db) THEN db.id ELSE NewId]
  <2>1. row.st = FormAlert(enabled, c).st
    BY DEF FormAlert
  <2>2. Coherent(row, now)
    BY <1>0, <2>1, FormAlertCoherent DEF Coherent
  <2> HIDE DEF row
  <2>3. [NoRequest EXCEPT !.op = "template", !.row = row].row = row
    BY DEF NoRequest
  <2> QED
    BY <1>4, <2>2, <2>3, RequestCoherent DEF BeginTemplate, row
<1>5. ASSUME NEW s \in Sessions, NEW levels \in SUBSET Levels, NEW ack \in {"no", "yes"},
             BeginAck(s, levels, ack)
      PROVE  CopiesCoherent'
  <2> DEFINE active == {l \in levels : db.st[l].active}
             st == [l \in Levels |-> IF l \in active THEN [db.st[l] EXCEPT !.ack = ack]
                                     ELSE db.st[l]]
             row == [db EXCEPT !.st = st]
  <2>1. \A l \in Levels : CoherentStatus(st[l], now)
    BY <1>0, AckCoherent DEF TypeOK, Row, CopiesCoherent, Coherent
  <2>2. row.st = st
    BY DEF TypeOK, Row
  <2>3. Coherent(row, now)
    BY <2>1, <2>2 DEF Coherent
  <2>4. BeginRequest(s, [op |-> "ack", levels |-> active, ack |-> ack, row |-> row])
    BY <1>5, Zenon DEF BeginAck
  <2> HIDE DEF active, st, row
  <2> QED
    BY <2>3, <2>4, RequestCoherent
<1>6. ASSUME NEW s \in Sessions, CommitRequest(s) PROVE CopiesCoherent'
  <2>1. ui[s].row \in Row /\ (ui[s].op = "ack") \in BOOLEAN
    BY DEF TypeOK, Request
  <2>2. Coherent(db', now)
    BY <1>6, <2>1, AlterRecordCoherent DEF CommitRequest, CopiesCoherent
  <2>3. now' = now /\ run' = run /\ ui' = [ui EXCEPT ![s] = NoRequest]
    BY <1>6 DEF CommitRequest
  <2>4. \A t \in Sessions : Coherent(ui'[t].row, now)
    BY <1>0, <2>3, NoRowCoherent DEF TypeOK, CopiesCoherent
  <2> QED
    BY <2>2, <2>3, <2>4 DEF CopiesCoherent, Coherent
<1> QED
    BY <1>1, <1>2, <1>3, <1>4, <1>5, <1>6, Zenon DEF Requests

LEMMA CoherentStep == TypeOK /\ CopiesCoherent /\ [Next]_vars => CopiesCoherent'
<1> SUFFICES ASSUME TypeOK, CopiesCoherent, [Next]_vars PROVE CopiesCoherent'
    OBVIOUS
<1>1. now \in Nat /\ db \in Row /\ run.row \in Row /\ \A s \in Sessions : ui[s].row \in Row
    BY DEF TypeOK, Run, Request
<1>2. CASE Tick
  <2>1. now' = now + 1 /\ db' = db /\ run' = run /\ ui' = ui
    BY <1>2 DEF Tick, dbVars
  <2>2. /\ Coherent(db, now')
        /\ Coherent(run.row, now')
        /\ \A s \in Sessions : Coherent(ui[s].row, now')
    BY <1>1, <2>1, CoherentLater DEF CopiesCoherent
  <2> QED
    BY <2>1, <2>2 DEF CopiesCoherent, Coherent
<1>3. CASE Crash
  <2>1. now' = now /\ db' = db /\ run' = Idle /\ ui' = [s \in Sessions |-> NoRequest]
    BY <1>3 DEF Crash, dbVars
  <2> QED
    BY <1>1, <2>1, NoRowCoherent DEF CopiesCoherent, Coherent
<1>4. CASE Boot \/ SetStartTimestamp \/ UNCHANGED vars
  <2>1. now' = now /\ db' = db /\ run' = run /\ ui' = ui
    BY <1>4 DEF Boot, SetStartTimestamp, vars, dbVars
  <2> QED
    BY <2>1 DEF CopiesCoherent, Coherent
<1>5. CASE AlertRoutine
    BY <1>5, RunStepCoherent
<1>6. CASE Requests
    BY <1>6, RequestStepCoherent
<1> QED
    BY <1>2, <1>3, <1>4, <1>5, <1>6 DEF Next

LEMMA CoherentInit == Init => CopiesCoherent
<1> SUFFICES ASSUME Init PROVE CopiesCoherent
    OBVIOUS
<1>1. now \in Nat /\ run = Idle /\ ui = [s \in Sessions |-> NoRequest]
    BY BoundsAssumption DEF Init
<1>2. db.st = AllCleared
  <2>1. CASE db = NoRow
    BY <2>1 DEF NoRow
  <2>2. CASE db # NoRow
    <3>1. PICK c \in Configs : db = [id |-> 1, enabled |-> TRUE, cfg |-> c, st |-> AllCleared]
      BY <2>2, Zenon DEF Init
    <3> QED
      BY <3>1
  <2> QED
    BY <2>1, <2>2
<1>3. Coherent(db, now)
    BY <1>1, <1>2, ClearedCoherent DEF Coherent, AllCleared
<1> QED
    BY <1>1, <1>3, NoRowCoherent DEF CopiesCoherent

\* Whatever stale copies are written over each other, a level of the row is
\* active exactly when it has a first active and a last sent time, in order.
THEOREM StatusAlwaysCoherent == Spec => []StatusCoherent
<1>1. CopiesCoherent => StatusCoherent
    BY DEF CopiesCoherent, StatusCoherent
<1> QED
    BY <1>1, CoherentInit, CoherentStep, TypeCorrect, PTL DEF Spec

-----------------------------------------------------------------------------
(* alertRoutineLock: the copy the alert thread holds is current, and what   *)
(* it announces and writes agrees with the row.                             *)

\* While a run is under way only Persist writes the row.
LEMMA LockHeld ==
    ASSUME TypeOK, run.pc # "idle", [Next]_vars
    PROVE  db' = db \/ \E l \in Levels : Persist(l)
<1>1. CASE Tick \/ Crash \/ Boot \/ SetStartTimestamp \/ UNCHANGED vars
    BY <1>1 DEF Tick, Crash, Boot, SetStartTimestamp, vars, dbVars
<1>2. CASE AlertRoutine
    BY <1>2 DEF AlertRoutine, RunLoad, RunEvaluate, RunFinish, TakeAction, SkipLevel, SuspendEntireAlert,
                NotActiveToActive, ActiveToNotActive, ActiveToActive, Act, dbVars
<1>3. CASE Requests
    BY <1>3 DEF Requests, SubmitForm, DeleteAlert, BeginToggle, BeginTemplate, BeginAck,
                BeginRequest, CommitRequest, AlterRecord, LockFree, dbVars
<1> QED
    BY <1>1, <1>2, <1>3 DEF Next

\* A step that is not the alert thread's, during a run, leaves the run alone
\* or ends the process.
LEMMA OtherStep ==
    ASSUME TypeOK, [Next]_vars, ~AlertRoutine
    PROVE  run' = run \/ run' = Idle
BY DEF Next, Tick, Crash, Boot, SetStartTimestamp, vars, Requests, SubmitForm, DeleteAlert,
       BeginToggle, BeginTemplate, BeginAck, BeginRequest, CommitRequest

\* Taking action on a level changes only the part of the run that is its own.
LEMMA TakeActionEffect ==
    ASSUME TypeOK, NEW l \in Levels, TakeAction(l)
    PROVE  /\ run.pc = "act" /\ run.level = l
           /\ run'.pc = "persist" /\ run'.level = l
           /\ run'.susp = run.susp
           /\ run'.row.id = run.row.id
           /\ run'.row.enabled = run.row.enabled
           /\ run'.row.cfg = run.row.cfg
           /\ \A k \in Levels \ {l} : /\ run'.row.st[k] = run.row.st[k]
                                      /\ run'.sent[k] = run.sent[k]
           /\ db' = db
<1>1. run.pc = "act" /\ run.level = l
    BY DEF TakeAction
<1>2. \E status, note, dirty : Act(l, status, note, dirty)
    BY DEF TakeAction, SkipLevel, SuspendEntireAlert, NotActiveToActive, ActiveToNotActive,
           ActiveToActive
<1>3. PICK status, note, dirty : Act(l, status, note, dirty)
    BY <1>2
<1>4. /\ run' = [run EXCEPT !.pc = "persist", !.row.st[l] = status,
                            !.sent[l] = note, !.dirty = dirty]
      /\ db' = db
    BY <1>3 DEF Act, dbVars
<1> QED
    BY <1>1, <1>4 DEF TypeOK, Run, Row

LEMMA SnapshotStep == TypeOK /\ SnapshotCurrent /\ [Next]_vars => SnapshotCurrent'
<1> SUFFICES ASSUME TypeOK, SnapshotCurrent, [Next]_vars PROVE SnapshotCurrent'
    OBVIOUS
<1>1. CASE RunLoad
  <2>1. run'.row = db /\ run'.pc = "evaluate" /\ db' = db
    BY <1>1 DEF RunLoad, dbVars, Idle
  <2> QED
    BY <2>1 DEF SnapshotCurrent, ActedOn
<1>2. CASE RunEvaluate
  <2>1. /\ run'.row = run.row /\ run'.pc = "act" /\ run'.level = "caution" /\ db' = db
        /\ run.pc = "evaluate"
    BY <1>2 DEF RunEvaluate, dbVars, TypeOK, Run
  <2> QED
    BY <2>1 DEF SnapshotCurrent, ActedOn
<1>3. ASSUME NEW l \in Levels, TakeAction(l) PROVE SnapshotCurrent'
    BY <1>3, TakeActionEffect DEF SnapshotCurrent, ActedOn
<1>4. ASSUME NEW l \in Levels, Persist(l) PROVE SnapshotCurrent'
  <2>1. /\ run.pc = "persist" /\ run.level = l
        /\ run'.pc = IF l = "caution" THEN "act" ELSE "finish"
        /\ run'.level = "danger" /\ run'.row = run.row
        /\ db' = db \/ db' = run.row
    BY <1>4 DEF Persist, TypeOK, Run
  <2> QED
    BY <2>1 DEF SnapshotCurrent, ActedOn
<1>5. CASE RunFinish
    BY <1>5 DEF RunFinish, Idle, SnapshotCurrent
<1>6. CASE ~AlertRoutine
  <2>1. CASE run.pc = "idle" \/ run' = Idle
    <3>1. run'.pc = "idle"
      BY <1>6, <2>1, OtherStep DEF Idle
    <3> QED
      BY <3>1 DEF SnapshotCurrent
  <2>2. CASE run.pc # "idle" /\ run' = run
    <3>1. db' = db
      BY <1>6, <2>2, LockHeld DEF AlertRoutine
    <3> QED
      BY <2>2, <3>1 DEF SnapshotCurrent, ActedOn
  <2> QED
    BY <1>6, <2>1, <2>2, OtherStep
<1> QED
    BY <1>1, <1>2, <1>3, <1>4, <1>5, <1>6 DEF AlertRoutine

\* The lock keeps the alert thread's copy of the row current, so that its
\* whole-object write never undoes another's update.
THEOREM SnapshotAlwaysCurrent == Spec => []SnapshotCurrent
<1>1. Init => SnapshotCurrent
    BY DEF Init, Idle, SnapshotCurrent
<1> QED
    BY <1>1, SnapshotStep, TypeCorrect, PTL DEF Spec

LEMMA SentStep ==
    ASSUME TypeOK, [Next]_vars, NEW l \in Levels, run'.sent[l] # "none", run.sent[l] = "none"
    PROVE  TakeAction(l)
<1>1. CASE ~AlertRoutine
    BY <1>1, OtherStep DEF Idle
<1>2. CASE RunLoad \/ RunFinish
  <2>1. run'.sent = Idle.sent
    BY <1>2 DEF RunLoad, RunFinish, Idle
  <2> QED
    BY <2>1 DEF Idle
<1>3. CASE RunEvaluate \/ \E k \in Levels : Persist(k)
  <2>1. run'.sent = run.sent
    BY <1>3 DEF RunEvaluate, Persist, TypeOK, Run
  <2> QED
    BY <2>1
<1>4. ASSUME NEW k \in Levels, TakeAction(k) PROVE TakeAction(l)
    BY <1>4, TakeActionEffect
<1> QED
    BY <1>1, <1>2, <1>3, <1>4 DEF AlertRoutine

LEMMA NotificationStep ==
    ASSUME TypeOK, CopiesCoherent, SnapshotCurrent, [Next]_vars, NEW l \in Levels
    PROVE  /\ Queues(l, "open") => ~db.st[l].active
           /\ Queues(l, "positive") => db.st[l].active
           /\ Queues(l, "resend") => /\ db.st[l].active
                                     /\ db.st[l].ack # "yes"
                                     /\ now - db.st[l].firstActiveAt >= ResendEvery
<1> SUFFICES ASSUME run.sent[l] = "none", run'.sent[l] # "none"
             PROVE  /\ run'.sent[l] = "open" => ~db.st[l].active
                    /\ run'.sent[l] = "positive" => db.st[l].active
                    /\ run'.sent[l] = "resend" =>
                          /\ db.st[l].active
                          /\ db.st[l].ack # "yes"
                          /\ now - db.st[l].firstActiveAt >= ResendEvery
    BY DEF Queues
<1>1. TakeAction(l)
    BY SentStep
<1>2. db.st[l] = run.row.st[l]
    BY <1>1 DEF TakeAction, SnapshotCurrent, ActedOn
<1>3. ASSUME NEW status, NEW note, NEW dirty, Act(l, status, note, dirty)
      PROVE  run'.sent[l] = note
    BY <1>3 DEF Act, TypeOK, Run
<1>4. CASE SkipLevel(l) \/ SuspendEntireAlert(l)
    BY <1>3, <1>4 DEF SkipLevel, SuspendEntireAlert
<1>5. CASE NotActiveToActive(l)
  <2>1. run'.sent[l] \in {"open", "none"} /\ ~run.row.st[l].active
    BY <1>3, <1>5 DEF NotActiveToActive
  <2> QED
    BY <1>2, <2>1
<1>6. CASE ActiveToNotActive(l)
  <2>1. run'.sent[l] \in {"positive", "none"} /\ run.row.st[l].active
    BY <1>3, <1>6 DEF ActiveToNotActive
  <2> QED
    BY <1>2, <2>1
<1>7. CASE ActiveToActive(l)
  <2>1. IsResendDue(run.row.st[l]) /\ run.row.st[l].active /\ run'.sent[l] \in {"resend", "none"}
    BY <1>3, <1>7 DEF ActiveToActive
  <2>2. /\ run.row.st[l].ack # "yes"
        /\ now - run.row.st[l].lastSent >= ResendEvery
    BY <2>1 DEF IsResendDue
  <2>3. CoherentStatus(run.row.st[l], now) /\ run.row.st[l] \in Status
    BY DEF CopiesCoherent, Coherent, TypeOK, Run, Row
  <2>4. now - run.row.st[l].firstActiveAt >= ResendEvery
    BY <2>2, <2>3, OptionsAssumption DEF CoherentStatus, Status, TypeOK
  <2> QED
    BY <1>2, <2>1, <2>2, <2>4
<1> QED
    BY <1>1, <1>4, <1>5, <1>6, <1>7 DEF TakeAction

\* Every notification agrees with the row in the database when it is handed
\* over; a resend is for an unacknowledged incident older than the interval.
THEOREM NotificationsMatchRow == Spec => NotificationMatchesRow
<1>1. TypeOK /\ CopiesCoherent /\ SnapshotCurrent /\ [Next]_vars =>
        [\A l \in Levels :
          /\ Queues(l, "open") => ~db.st[l].active
          /\ Queues(l, "positive") => db.st[l].active
          /\ Queues(l, "resend") => /\ db.st[l].active
                                    /\ db.st[l].ack # "yes"
                                    /\ now - db.st[l].firstActiveAt >= ResendEvery]_vars
    BY NotificationStep
<1>2. Spec => []CopiesCoherent
    BY CoherentInit, CoherentStep, TypeCorrect, PTL DEF Spec
<1> QED
    BY <1>1, <1>2, TypeCorrect, SnapshotAlwaysCurrent, PTL DEF Spec, NotificationMatchesRow

-----------------------------------------------------------------------------
(* No silent incident.  Between the decision and the write the run holds a   *)
(* level that is active in its copy only: such a level has been announced.   *)

UnwrittenAnnounced ==
    run.pc # "idle" =>
        \A l \in Levels : run.row.st[l].active /\ ~db.st[l].active
                              => run.sent[l] = "open" \/ run.susp = "notification"

LEMMA AnnouncedAct ==
    ASSUME TypeOK, SnapshotCurrent, NEW l \in Levels, TakeAction(l),
           run'.row.st[l].active, ~db.st[l].active
    PROVE  run'.sent[l] = "open" \/ run.susp = "notification"
<1>1. db.st[l] = run.row.st[l]
    BY DEF TakeAction, SnapshotCurrent, ActedOn
<1>2. ASSUME NEW status, NEW note, NEW dirty, Act(l, status, note, dirty)
      PROVE  run'.row.st[l] = status /\ run'.sent[l] = note
    BY <1>2 DEF Act, TypeOK, Run, Row
<1>3. CASE SkipLevel(l) \/ ActiveToActive(l)
  <2>1. CASE SkipLevel(l)
    <3>1. run'.row.st[l] = run.row.st[l]
      BY <1>2, <2>1 DEF SkipLevel
    <3> QED
      BY <1>1, <3>1
  <2>2. CASE ActiveToActive(l)
      BY <1>1, <2>2 DEF ActiveToActive
  <2> QED
    BY <1>3, <2>1, <2>2
<1>4. CASE SuspendEntireAlert(l)
  <2>1. run'.row.st[l] = [run.row.st[l] EXCEPT !.active = FALSE, !.firstActiveAt = NoTime,
                                               !.lastSent = NoTime]
    BY <1>2, <1>4 DEF SuspendEntireAlert
  <2>2. run.row.st[l] \in Status
    BY DEF TypeOK, Run, Row
  <2> QED
    BY <2>1, <2>2 DEF Status
<1>5. CASE NotActiveToActive(l)
  <2>1. run'.sent[l] = IF Notifies THEN "open" ELSE "none"
    BY <1>2, <1>5 DEF NotActiveToActive
  <2>2. run.susp \in Suspensions /\ run.susp # "entire"
    BY <1>5 DEF NotActiveToActive, TypeOK, Run
  <2> QED
    BY <2>1, <2>2 DEF Notifies
<1>6. CASE ActiveToNotActive(l)
  <2>1. run'.row.st[l] = Cleared
    BY <1>2, <1>6 DEF ActiveToNotActive
  <2> QED
    BY <2>1 DEF Cleared
<1> QED
    BY <1>3, <1>4, <1>5, <1>6 DEF TakeAction

LEMMA AnnouncedStep ==
    TypeOK /\ SnapshotCurrent /\ UnwrittenAnnounced /\ [Next]_vars => UnwrittenAnnounced'
<1> SUFFICES ASSUME TypeOK, SnapshotCurrent, UnwrittenAnnounced, [Next]_vars
             PROVE  UnwrittenAnnounced'
    OBVIOUS
<1>1. CASE RunLoad
  <2>1. run'.row = db /\ db' = db
    BY <1>1 DEF RunLoad, dbVars, Idle
  <2> QED
    BY <2>1 DEF UnwrittenAnnounced
<1>2. CASE RunEvaluate \/ \E l \in Levels : Persist(l)
  <2>1. /\ run.pc # "idle" /\ run'.row = run.row /\ run'.sent = run.sent
        /\ run'.susp = run.susp /\ (db' = db \/ db' = run.row)
    BY <1>2 DEF RunEvaluate, Persist, dbVars, TypeOK, Run
  <2> QED
    BY <2>1 DEF UnwrittenAnnounced
<1>3. ASSUME NEW l \in Levels, TakeAction(l) PROVE UnwrittenAnnounced'
  <2> SUFFICES ASSUME NEW k \in Levels, run'.row.st[k].active, ~db'.st[k].active
               PROVE  run'.sent[k] = "open" \/ run'.susp = "notification"
    BY DEF UnwrittenAnnounced
  <2>1. CASE k = l
    BY <1>3, <2>1, AnnouncedAct, TakeActionEffect
  <2>2. CASE k # l
    BY <1>3, <2>2, TakeActionEffect DEF UnwrittenAnnounced
  <2> QED
    BY <2>1, <2>2
<1>4. CASE RunFinish
    BY <1>4 DEF RunFinish, Idle, UnwrittenAnnounced
<1>5. CASE ~AlertRoutine
  <2>1. CASE run.pc = "idle" \/ run' = Idle
    <3>1. run'.pc = "idle"
      BY <1>5, <2>1, OtherStep DEF Idle
    <3> QED
      BY <3>1 DEF UnwrittenAnnounced
  <2>2. CASE run.pc # "idle" /\ run' = run
    <3>1. db' = db
      BY <1>5, <2>2, LockHeld DEF AlertRoutine
    <3> QED
      BY <2>2, <3>1 DEF UnwrittenAnnounced
  <2> QED
    BY <1>5, <2>1, <2>2, OtherStep
<1> QED
    BY <1>1, <1>2, <1>3, <1>4, <1>5 DEF AlertRoutine

\* No silent incident: what a run writes as active it has announced before,
\* unless the alert's notifications are suspended.
THEOREM IncidentsAnnounced == Spec => AnnouncedBeforeOpen
<1>1. ASSUME TypeOK, UnwrittenAnnounced, [Next]_vars, NEW l \in Levels,
             run.pc = "persist", ~db.st[l].active, db'.st[l].active
      PROVE  run.sent[l] = "open" \/ run.susp = "notification"
  <2>1. db' = db \/ db' = run.row
    BY <1>1, LockHeld DEF Persist
  <2> QED
    BY <1>1, <2>1 DEF UnwrittenAnnounced
<1>2. TypeOK /\ UnwrittenAnnounced /\ [Next]_vars =>
        [\A l \in Levels :
          run.pc = "persist" /\ ~db.st[l].active /\ db'.st[l].active
             => run.sent[l] = "open" \/ run.susp = "notification"]_vars
    BY <1>1
<1>3. Init => UnwrittenAnnounced
    BY DEF Init, Idle, UnwrittenAnnounced
<1>4. Spec => []UnwrittenAnnounced
    BY <1>3, AnnouncedStep, TypeCorrect, SnapshotAlwaysCurrent, PTL DEF Spec
<1> QED
    BY <1>2, <1>4, TypeCorrect, PTL DEF Spec, AnnouncedBeforeOpen

-----------------------------------------------------------------------------
(* Unchanged criteria.                                                     *)

\* A request under way was made for the row that is there.  A template may
\* have been started when there was none; it is the one that will insert it.
MadeForRow ==
    /\ ~Exists(db) => \A l \in Levels : ~db.st[l].active
    /\ \A s \in Sessions : ui[s].op # "none" =>
          IF Exists(db) THEN ui[s].row.id = db.id ELSE ui[s].op = "template"
    /\ \A s, t \in Sessions : ui[s].op = "template" /\ ui[t].op = "template" => s = t

LEMMA NothingActive ==
    /\ \A l \in Levels : ~AllCleared[l].active
    /\ \A l \in Levels : ~NoRow.st[l].active
    /\ NoRow.id = 0 /\ ~Exists(NoRow) /\ ~NoRow.enabled
    /\ NoRequest.op = "none" /\ Idle.pc = "idle"
    /\ \A l \in Levels : Idle.keys[l] = "absent"
BY DEF AllCleared, Cleared, NoRow, NoRowId, Exists, NoRequest, Idle

\* What a request under way becomes.
LEMMA RequestsAfter ==
    ASSUME TypeOK, NEW s \in Sessions, NEW request, ui' = [ui EXCEPT ![s] = request]
    PROVE  ui'[s] = request /\ \A t \in Sessions \ {s} : ui'[t] = ui[t]
BY DEF TypeOK

\* The row that a request leaves.
LEMMA AlterRecordEffect ==
    ASSUME TypeOK, NEW new \in Row, NEW isAck \in BOOLEAN, AlterRecord(new, isAck)
    PROVE  /\ LockFree
           /\ db' \in Row
           /\ db'.id = IF Exists(db) THEN db.id ELSE nextId
           /\ Exists(db)'
           /\ db'.enabled = new.enabled /\ db'.cfg = new.cfg
           /\ db'.st = CopyStatusMetadata(new, isAck)
<1>1. db.id \in Int /\ nextId \in Nat \ {0}
  BY DEF TypeOK, Row
<1>2. db' = [new EXCEPT !.id = IF Exists(db) THEN db.id ELSE nextId,
                        !.st = CopyStatusMetadata(new, isAck)]
  BY DEF AlterRecord
<1>3. db' \in Row
  BY AlterRecordType
<1>4. /\ db'.id = IF Exists(db) THEN db.id ELSE nextId
      /\ db'.enabled = new.enabled /\ db'.cfg = new.cfg
      /\ db'.st = CopyStatusMetadata(new, isAck)
  BY <1>2 DEF Row
<1> QED BY <1>1, <1>3, <1>4 DEF AlterRecord, Exists, NoRowId

LEMMA MadeForRowInit == Init => MadeForRow
<1> SUFFICES ASSUME Init PROVE MadeForRow
  OBVIOUS
<1>1. ASSUME ~Exists(db)
      PROVE  db = NoRow
  <2>1. ASSUME NEW c \in Configs, db = [id |-> 1, enabled |-> TRUE, cfg |-> c, st |-> AllCleared]
        PROVE  FALSE
    <3>1. db.id = 1
      BY <2>1
    <3> QED BY <1>1, <3>1 DEF Exists, NoRowId
  <2> QED BY <2>1, Zenon DEF Init
<1>2. \A s \in Sessions : ui[s].op = "none"
  BY NothingActive DEF Init
<1> QED BY <1>1, <1>2, NothingActive DEF MadeForRow

\* Without a change of the row, a new request has to be for the row.
LEMMA MadeForRowBegin ==
    ASSUME TypeOK, MadeForRow, NEW s \in Sessions, NEW request, BeginRequest(s, request),
           IF Exists(db) THEN request.row.id = db.id ELSE request.op = "template",
           request.op = "template" => \A t \in Sessions : ui[t].op # "template"
    PROVE  MadeForRow'
<1>1. db' = db /\ ui'[s] = request /\ \A t \in Sessions \ {s} : ui'[t] = ui[t]
  BY RequestsAfter DEF BeginRequest, dbVars
<1> QED BY <1>1 DEF MadeForRow, Exists

LEMMA MadeForRowRequests ==
    ASSUME "form" \notin Ops, "delete" \notin Ops, TypeOK, MadeForRow, Requests
    PROVE  MadeForRow'
<1>1. ASSUME NEW s \in Sessions, NEW enabled \in BOOLEAN, BeginToggle(s, enabled)
      PROVE  MadeForRow'
  <2> DEFINE row == [db EXCEPT !.enabled = enabled, !.st = IF enabled THEN @ ELSE AllCleared]
  <2>1. row.id = db.id /\ Exists(db)
    BY <1>1 DEF TypeOK, Row, BeginToggle
  <2> HIDE DEF row
  <2>2. BeginRequest(s, [NoRequest EXCEPT !.op = "toggle", !.row = row])
    BY <1>1 DEF BeginToggle, row
  <2>3. /\ [NoRequest EXCEPT !.op = "toggle", !.row = row].row = row
        /\ [NoRequest EXCEPT !.op = "toggle", !.row = row].op = "toggle"
    BY DEF NoRequest
  <2> QED BY <2>1, <2>2, <2>3, MadeForRowBegin
<1>2. ASSUME NEW s \in Sessions, NEW enabled \in BOOLEAN, NEW c \in Configs,
             BeginTemplate(s, enabled, c)
      PROVE  MadeForRow'
  <2> DEFINE row == [FormAlert(enabled, c) EXCEPT !.id = IF Exists(db) THEN db.id ELSE NewId]
  <2>1. Exists(db) => row.id = db.id
    BY DEF FormAlert
  <2> HIDE DEF row
  <2>2. BeginRequest(s, [NoRequest EXCEPT !.op = "template", !.row = row])
    BY <1>2 DEF BeginTemplate, row
  <2>3. /\ [NoRequest EXCEPT !.op = "template", !.row = row].row = row
        /\ [NoRequest EXCEPT !.op = "template", !.row = row].op = "template"
    BY DEF NoRequest
  <2>4. \A t \in Sessions : ui[t].op # "template"
    BY <1>2 DEF BeginTemplate
  <2> QED BY <2>1, <2>2, <2>3, <2>4, MadeForRowBegin
<1>3. ASSUME NEW s \in Sessions, NEW levels \in SUBSET Levels, NEW ack \in {"no", "yes"},
             BeginAck(s, levels, ack)
      PROVE  MadeForRow'
  <2> DEFINE active == {l \in levels : db.st[l].active}
             st == [l \in Levels |-> IF l \in active THEN [db.st[l] EXCEPT !.ack = ack]
                                     ELSE db.st[l]]
             row == [db EXCEPT !.st = st]
  <2>1. row.id = db.id
    BY DEF TypeOK, Row
  <2>2. Exists(db)
    BY <1>3 DEF BeginAck, MadeForRow
  <2>3. BeginRequest(s, [op |-> "ack", levels |-> active, ack |-> ack, row |-> row])
    BY <1>3, Zenon DEF BeginAck
  <2> HIDE DEF active, st, row
  <2> QED BY <2>1, <2>2, <2>3, MadeForRowBegin
<1>4. ASSUME NEW s \in Sessions, CommitRequest(s)
      PROVE  MadeForRow'
  <2>1. ui[s].row \in Row /\ (ui[s].op = "ack") \in BOOLEAN
    BY DEF TypeOK, Request
  <2>2. Exists(db)' /\ db'.id = IF Exists(db) THEN db.id ELSE nextId
    BY <1>4, <2>1, AlterRecordEffect DEF CommitRequest
  <2>3. ui[s].op # "none" /\ ui'[s].op = "none" /\ \A t \in Sessions \ {s} : ui'[t] = ui[t]
    BY <1>4, RequestsAfter, NothingActive DEF CommitRequest
  <2>4. ASSUME NEW t \in Sessions, ui'[t].op # "none"
        PROVE  ui'[t].row.id = db'.id
    <3>1. t # s /\ ui'[t] = ui[t]
      BY <2>3, <2>4
    <3>2. Exists(db)
      BY <2>3, <2>4, <3>1 DEF MadeForRow
    <3> QED BY <2>2, <2>4, <3>1, <3>2 DEF MadeForRow
  <2> QED BY <2>2, <2>3, <2>4 DEF MadeForRow
<1> QED
  BY <1>1, <1>2, <1>3, <1>4, Zenon DEF Requests, SubmitForm, DeleteAlert

LEMMA MadeForRowStep ==
    ASSUME "form" \notin Ops, "delete" \notin Ops,
           TypeOK, SnapshotCurrent, MadeForRow, [Next]_vars
    PROVE  MadeForRow'
<1>1. CASE Requests
  BY <1>1, MadeForRowRequests
<1>2. ASSUME NEW l \in Levels, Persist(l)
      PROVE  MadeForRow'
  <2>1. ui' = ui /\ (db' = db \/ (Exists(db) /\ db' = run.row)) /\ run.pc = "persist"
    BY <1>2 DEF Persist
  <2>2. db'.id = db.id
    BY <2>1 DEF SnapshotCurrent
  <2>3. Exists(db)' <=> Exists(db)
    BY <2>2 DEF Exists
  <2> QED BY <2>1, <2>2, <2>3 DEF MadeForRow
<1>3. CASE Crash
  BY <1>3, NothingActive DEF Crash, dbVars, MadeForRow, Exists
<1>4. CASE ~Requests /\ ~Crash /\ ~\E l \in Levels : Persist(l)
  <2>1. db' = db /\ ui' = ui
    BY <1>4 DEF Next, Tick, Boot, SetStartTimestamp, AlertRoutine, RunLoad, RunEvaluate, RunFinish,
                TakeAction, SkipLevel, SuspendEntireAlert, NotActiveToActive, ActiveToNotActive,
                ActiveToActive, Act, vars, dbVars
  <2> QED BY <2>1 DEF MadeForRow, Exists
<1> QED BY <1>1, <1>2, <1>3, <1>4

\* A request that changes the row's status is a commit.
LEMMA FreeStepCommits ==
    ASSUME "form" \notin Ops, "delete" \notin Ops, LockFree, [Next]_vars
    PROVE  db' = db \/ \E s \in Sessions : CommitRequest(s)
BY DEF LockFree, Next, Tick, Crash, Boot, SetStartTimestamp, AlertRoutine, RunLoad, RunEvaluate, RunFinish,
       TakeAction, Persist, vars, dbVars, Requests, SubmitForm, DeleteAlert, BeginToggle, BeginTemplate,
       BeginAck, BeginRequest

LEMMA UnchangedCriteriaStep ==
    ASSUME "form" \notin Ops, "delete" \notin Ops, TypeOK, MadeForRow, [Next]_vars,
           NEW l \in Levels, LockFree, db'.id = db.id, SameCriteria(db, db', l)
    PROVE  [db'.st[l] EXCEPT !.ack = db.st[l].ack] = db.st[l]
<1>1. db.st[l] \in Status
  BY DEF TypeOK, Row
<1>2. CASE db' = db
  BY <1>1, <1>2 DEF Status
<1>3. ASSUME NEW s \in Sessions, CommitRequest(s)
      PROVE  [db'.st[l] EXCEPT !.ack = db.st[l].ack] = db.st[l]
  <2> DEFINE new == ui[s].row
             isAck == ui[s].op = "ack"
  <2>1. new \in Row /\ isAck \in BOOLEAN
    BY DEF TypeOK, Request
  <2>2. AlterRecord(new, isAck) /\ ui[s].op # "none"
    BY <1>3 DEF CommitRequest
  <2> HIDE DEF new, isAck
  <2>3. /\ db'.id = IF Exists(db) THEN db.id ELSE nextId
        /\ Exists(db)' /\ db'.enabled = new.enabled /\ db'.cfg = new.cfg
        /\ db'.st = CopyStatusMetadata(new, isAck)
    BY <2>1, <2>2, AlterRecordEffect
  <2>4. Exists(db)
    BY <2>3 DEF Exists
  <2>5. new.id = db.id
    BY <2>2, <2>4 DEF MadeForRow, new
  <2>6. CriteriaEqual(new, db, l)
    BY <2>3, <2>5 DEF CriteriaEqual, SameCriteria
  <2>7. db'.st[l] = [db.st[l] EXCEPT !.ack = IF isAck THEN new.st[l].ack ELSE @]
    BY <2>3, <2>4, <2>6 DEF CopyStatusMetadata
  <2> QED BY <1>1, <2>7 DEF Status
<1> QED BY <1>2, <1>3, FreeStepCommits

\* Acknowledging, enabling, disabling and the templates leave the triggered
\* status of a level whose criteria they do not change as it was
\* (AlertsLogic.copyStatusMetadataFields), whatever sessions work at the same
\* time, provided that the alert is neither edited in the form nor deleted: the
\* form does not know the id of the row.
THEOREM UnchangedCriteriaKept ==
    ASSUME "form" \notin Ops, "delete" \notin Ops
    PROVE  Spec => UnchangedCriteriaKeepStatus
<1>1. TypeOK /\ MadeForRow /\ [Next]_vars =>
        [\A l \in Levels :
          LockFree /\ db'.id = db.id /\ SameCriteria(db, db', l)
             => [db'.st[l] EXCEPT !.ack = db.st[l].ack] = db.st[l]]_vars
  BY UnchangedCriteriaStep
<1>2. Spec => []MadeForRow
  BY MadeForRowInit, MadeForRowStep, TypeCorrect, SnapshotAlwaysCurrent, PTL DEF Spec
<1> QED BY <1>1, <1>2, TypeCorrect, PTL DEF Spec, UnchangedCriteriaKeepStatus

-----------------------------------------------------------------------------
(* The recovery routine.                                                   *)

\* Nothing is active in an alert that is not enabled.
Quiet(row) == ~row.enabled => \A l \in Levels : ~row.st[l].active

\* A level that was active before the restart is held back, unless its criteria
\* have been met since or the process has been up for long enough.
Held(l) ==
    \/ l \in seen
    \/ now - bootTime >= MinOf(RecoveryTimeout, db.cfg.crit[l].window)
    \/ /\ l \in pending
       /\ pendingOf.id = db.id
       /\ pendingOf.cfg.crit[l].window = db.cfg.crit[l].window

\* A request that acknowledges has the row's criteria; any other is about to
\* write no active level.
Tame(row) ==
    IF "ack" \in Ops
    THEN /\ Exists(db) /\ row.id = db.id
         /\ row.enabled = db.enabled /\ row.cfg = db.cfg
    ELSE \A l \in Levels : ~row.st[l].active

Started ==
    /\ bootTime <= now
    /\ startTs # 0 => bootTime <= startTs
    /\ ~up => run.pc = "idle"
    /\ run.pc = "idle" => \A l \in Levels : run.keys[l] # "some"

Enabled ==
    /\ ~Exists(db) => ~db.enabled
    /\ Quiet(db)
    /\ run.pc # "idle" => Quiet(run.row)
    /\ \A l \in Levels : run.keys[l] = "some" => l \in seen /\ run.row.enabled
    /\ \A s \in Sessions : ui[s].op # "none" => Tame(ui[s].row)

HeldBack ==
    /\ up /\ firstRunDone => \A l \in Levels : db.st[l].active => Held(l)
    /\ run.pc # "idle" => \A l \in Levels : db.st[l].active \/ run.row.st[l].active => Held(l)

\* What the hypotheses of the theorem say of the process and its requests.
Sheltered ==
    /\ ~SlowStartup
    /\ "toggle" \notin Ops
    /\ "ack" \in Ops => Ops = {"ack"}

LEMMA StartedInit == Init => Started
BY NothingActive, BoundsAssumption DEF Init, Started

LEMMA StartedStep == TypeOK /\ Started /\ [Next]_vars => Started'
<1> SUFFICES ASSUME TypeOK, Started, [Next]_vars PROVE Started'
  OBVIOUS
<1>1. now \in Nat /\ bootTime \in Nat /\ startTs \in Nat
  BY DEF TypeOK
<1>2. CASE Tick \/ Boot \/ SetStartTimestamp
  BY <1>1, <1>2 DEF Tick, Boot, SetStartTimestamp, procVars, ghostVars, Started
<1>3. CASE Crash
  BY <1>3, NothingActive DEF Crash, Started
<1>4. CASE AlertRoutine
  <2>1. /\ now' = now /\ bootTime' = bootTime /\ startTs' = startTs /\ up' = up
    BY <1>4 DEF AlertRoutine, RunLoad, RunEvaluate, RunFinish, TakeAction, Persist, SkipLevel,
                SuspendEntireAlert, NotActiveToActive, ActiveToNotActive, ActiveToActive, Act,
                procVars, ghostVars
  <2>2. CASE RunFinish
    <3>1. run'.pc = "idle" /\ \A l \in Levels : run'.keys[l] # "some"
      BY <2>2, NothingActive DEF RunFinish
    <3> QED BY <2>1, <3>1 DEF Started
  <2>3. CASE RunLoad
    <3>1. run'.pc = "evaluate" /\ up
      BY <2>3 DEF RunLoad, Idle
    <3> QED BY <2>1, <3>1 DEF Started
  <2>4. CASE RunEvaluate \/ \E l \in Levels : Persist(l) \/ TakeAction(l)
    <3>1. run.pc # "idle" /\ run'.pc # "idle"
      BY <2>4, TakeActionEffect DEF RunEvaluate, Persist, TypeOK, Run
    <3> QED BY <2>1, <3>1 DEF Started
  <2> QED BY <1>4, <2>2, <2>3, <2>4 DEF AlertRoutine
<1>5. CASE Requests \/ UNCHANGED vars
  <2>1. UNCHANGED <<now, bootTime, startTs, up, run>>
    BY <1>5 DEF Requests, SubmitForm, DeleteAlert, BeginToggle, BeginTemplate, BeginAck,
                BeginRequest, CommitRequest, procVars, ghostVars, vars
  <2> QED BY <2>1 DEF Started
<1> QED BY <1>2, <1>3, <1>4, <1>5 DEF Next

LEMMA EnabledInit == Init => Enabled
<1> SUFFICES ASSUME Init PROVE Enabled
  OBVIOUS
<1>1. CASE db = NoRow
  BY <1>1, NothingActive DEF Init, Enabled, Quiet
<1>2. ASSUME NEW c \in Configs, db = [id |-> 1, enabled |-> TRUE, cfg |-> c, st |-> AllCleared]
      PROVE  Enabled
  <2>1. db.id = 1 /\ db.enabled
    BY <1>2
  <2> QED BY <2>1, NothingActive DEF Init, Enabled, Quiet, Exists, NoRowId
<1> QED BY <1>1, <1>2, Zenon DEF Init

\* A level becomes active in a run only when its criteria are met.
LEMMA TakeActionActive ==
    ASSUME TypeOK, NEW l \in Levels, TakeAction(l)
    PROVE  /\ run'.keys = run.keys
           /\ run'.row.st[l].active => run.row.st[l].active \/ run.keys[l] = "some"
<1>1. ASSUME NEW status, NEW note, NEW dirty, Act(l, status, note, dirty)
      PROVE  run'.keys = run.keys /\ run'.row.st[l] = status
  BY <1>1 DEF Act, TypeOK, Run, Row
<1>2. run.row.st[l] \in Status
  BY DEF TypeOK, Run, Row
<1>3. CASE SkipLevel(l)
  BY <1>1, <1>3 DEF SkipLevel
<1>4. CASE SuspendEntireAlert(l)
  <2> DEFINE status == [run.row.st[l] EXCEPT !.active = FALSE, !.firstActiveAt = NoTime,
                                             !.lastSent = NoTime]
  <2>1. ~status.active
    BY <1>2 DEF Status
  <2>2. Act(l, status, "none", TRUE)
    BY <1>4 DEF SuspendEntireAlert
  <2> HIDE DEF status
  <2> QED BY <1>1, <2>1, <2>2
<1>5. CASE NotActiveToActive(l)
  <2>1. run.keys[l] = "some"
    BY <1>5 DEF NotActiveToActive, IsAlertActive
  <2> QED BY <1>1, <1>5, <2>1 DEF NotActiveToActive
<1>6. CASE ActiveToNotActive(l)
  BY <1>1, <1>6 DEF ActiveToNotActive, Cleared
<1>7. CASE ActiveToActive(l)
  <2>1. run.row.st[l].active
    BY <1>7 DEF ActiveToActive
  <2> QED BY <1>1, <1>7, <2>1 DEF ActiveToActive
<1> QED BY <1>3, <1>4, <1>5, <1>6, <1>7 DEF TakeAction

\* What a request leaves active was active before, with the same criteria.
LEMMA AlteredRow ==
    ASSUME TypeOK, Enabled, NEW new \in Row, NEW isAck \in BOOLEAN,
           AlterRecord(new, isAck), Tame(new)
    PROVE  /\ Quiet(db') /\ Exists(db)'
           /\ \A l \in Levels : db'.st[l].active =>
                 /\ db.st[l].active /\ db'.id = db.id
                 /\ db'.cfg.crit[l].window = db.cfg.crit[l].window
           /\ "ack" \in Ops => db'.id = db.id /\ db'.enabled = db.enabled /\ db'.cfg = db.cfg
<1>1. /\ db'.id = IF Exists(db) THEN db.id ELSE nextId
      /\ Exists(db)' /\ db'.enabled = new.enabled /\ db'.cfg = new.cfg
      /\ db'.st = CopyStatusMetadata(new, isAck)
  BY AlterRecordEffect
<1>2. ASSUME NEW l \in Levels, db'.st[l].active
      PROVE  db.st[l].active /\ Exists(db) /\ CriteriaEqual(new, db, l)
  <2>1. db'.st[l] = IF Exists(db) /\ CriteriaEqual(new, db, l)
                    THEN [db.st[l] EXCEPT !.ack = IF isAck THEN new.st[l].ack ELSE @]
                    ELSE new.st[l]
    BY <1>1 DEF CopyStatusMetadata
  <2>2. CASE Exists(db) /\ CriteriaEqual(new, db, l)
    <3>1. db.st[l] \in Status
      BY DEF TypeOK, Row
    <3>2. db'.st[l].active = db.st[l].active
      BY <2>1, <2>2, <3>1 DEF Status
    <3> QED BY <1>2, <2>2, <3>2
  <2>3. CASE ~(Exists(db) /\ CriteriaEqual(new, db, l))
    <3>1. new.st[l].active
      BY <1>2, <2>1, <2>3
    <3>2. Exists(db) /\ new.id = db.id /\ new.enabled = db.enabled /\ new.cfg = db.cfg
      BY <3>1 DEF Tame
    <3> QED BY <2>3, <3>2 DEF CriteriaEqual, SameCriteria
  <2> QED BY <2>2, <2>3
<1>3. ASSUME NEW l \in Levels, db'.st[l].active
      PROVE  /\ db.st[l].active /\ db'.id = db.id /\ db'.enabled = db.enabled
             /\ db'.cfg.crit[l].window = db.cfg.crit[l].window
  BY <1>1, <1>2, <1>3 DEF CriteriaEqual, SameCriteria
<1>4. Quiet(db')
  BY <1>3 DEF Enabled, Quiet
<1> QED BY <1>1, <1>3, <1>4 DEF Tame

\* A new request, when nothing else changes.
LEMMA EnabledBegin ==
    ASSUME TypeOK, Enabled, NEW s \in Sessions, NEW request, BeginRequest(s, request),
           Tame(request.row)
    PROVE  Enabled'
<1>1. /\ db' = db /\ run' = run /\ seen' = seen
      /\ ui'[s] = request /\ \A t \in Sessions \ {s} : ui'[t] = ui[t]
  BY RequestsAfter DEF BeginRequest, dbVars, ghostVars
<1> QED BY <1>1 DEF Enabled, Tame, Exists

LEMMA EnabledRequests ==
    ASSUME Sheltered, TypeOK, Enabled, Requests
    PROVE  Enabled'
<1>1. ASSUME NEW enabled \in BOOLEAN, NEW c \in Configs, SubmitForm(enabled, c)
      PROVE  Enabled'
  <2>1. AlterRecord(FormAlert(enabled, c), FALSE) /\ run' = run /\ seen' = seen /\ ui' = ui
    BY <1>1 DEF SubmitForm, ghostVars
  <2>2. "ack" \notin Ops
    BY <1>1 DEF SubmitForm, Sheltered
  <2>3. Tame(FormAlert(enabled, c))
    BY <2>2, NothingActive DEF Tame, FormAlert
  <2>4. Quiet(db') /\ Exists(db)'
    BY <2>1, <2>3, FormAlertType, AlteredRow
  <2> QED BY <2>1, <2>2, <2>4 DEF Enabled, Tame
<1>2. CASE DeleteAlert
  <2>1. /\ db' = NoRow /\ run' = run /\ seen' = seen /\ ui' = ui /\ "ack" \notin Ops
    BY <1>2 DEF DeleteAlert, Sheltered, ghostVars
  <2> QED BY <2>1, NothingActive DEF Enabled, Quiet, Tame
<1>3. ASSUME NEW s \in Sessions, NEW enabled \in BOOLEAN, BeginToggle(s, enabled)
      PROVE  Enabled'
  BY <1>3 DEF BeginToggle, Sheltered
<1>4. ASSUME NEW s \in Sessions, NEW enabled \in BOOLEAN, NEW c \in Configs,
             BeginTemplate(s, enabled, c)
      PROVE  Enabled'
  <2> DEFINE row == [FormAlert(enabled, c) EXCEPT !.id = IF Exists(db) THEN db.id ELSE NewId]
  <2>1. row.st = AllCleared
    BY DEF FormAlert
  <2> HIDE DEF row
  <2>2. "ack" \notin Ops
    BY <1>4 DEF BeginTemplate, Sheltered
  <2>3. BeginRequest(s, [NoRequest EXCEPT !.op = "template", !.row = row])
    BY <1>4 DEF BeginTemplate, row
  <2>4. [NoRequest EXCEPT !.op = "template", !.row = row].row = row
    BY DEF NoRequest
  <2>5. Tame(row)
    BY <2>1, <2>2, NothingActive DEF Tame
  <2> QED BY <2>3, <2>4, <2>5, EnabledBegin
<1>5. ASSUME NEW s \in Sessions, NEW levels \in SUBSET Levels, NEW ack \in {"no", "yes"},
             BeginAck(s, levels, ack)
      PROVE  Enabled'
  <2> DEFINE active == {l \in levels : db.st[l].active}
             st == [l \in Levels |-> IF l \in active THEN [db.st[l] EXCEPT !.ack = ack]
                                     ELSE db.st[l]]
             row == [db EXCEPT !.st = st]
  <2>1. row.id = db.id /\ row.enabled = db.enabled /\ row.cfg = db.cfg
    BY DEF TypeOK, Row
  <2>2. Exists(db) /\ "ack" \in Ops
    BY <1>5 DEF BeginAck, Enabled, Quiet
  <2>3. BeginRequest(s, [op |-> "ack", levels |-> active, ack |-> ack, row |-> row])
    BY <1>5, Zenon DEF BeginAck
  <2> HIDE DEF active, st, row
  <2>4. Tame(row)
    BY <2>1, <2>2 DEF Tame
  <2> QED BY <2>3, <2>4, EnabledBegin
<1>6. ASSUME NEW s \in Sessions, CommitRequest(s)
      PROVE  Enabled'
  <2>1. /\ ui[s].row \in Row /\ (ui[s].op = "ack") \in BOOLEAN
        /\ ui[s].op # "none" /\ AlterRecord(ui[s].row, ui[s].op = "ack")
        /\ run' = run /\ seen' = seen
        /\ ui'[s].op = "none" /\ \A t \in Sessions \ {s} : ui'[t] = ui[t]
    BY <1>6, RequestsAfter, NothingActive DEF CommitRequest, ghostVars, TypeOK, Request
  <2>2. Tame(ui[s].row)
    BY <2>1 DEF Enabled
  <2>3. /\ Quiet(db') /\ Exists(db)'
        /\ "ack" \in Ops => db'.id = db.id /\ db'.enabled = db.enabled /\ db'.cfg = db.cfg
    BY <2>1, <2>2, AlteredRow
  <2>4. ASSUME NEW t \in Sessions, ui'[t].op # "none"
        PROVE  Tame(ui[t].row)'
    <3>1. ui'[t] = ui[t] /\ Tame(ui[t].row)
      BY <2>1, <2>4 DEF Enabled
    <3> QED BY <2>3, <3>1 DEF Tame
  <2> QED BY <2>1, <2>3, <2>4 DEF Enabled
<1> QED
  BY <1>1, <1>2, <1>3, <1>4, <1>5, <1>6 DEF Requests

LEMMA EnabledStep ==
    ASSUME Sheltered, TypeOK, SnapshotCurrent, Started, Enabled, [Next]_vars
    PROVE  Enabled'
<1>1. CASE Requests
  BY <1>1, EnabledRequests
<1>2. ASSUME run' = Idle, db' = db,
             \A s \in Sessions : ui'[s].op # "none" => ui'[s] = ui[s]
      PROVE  Enabled'
  <2>1. run'.pc = "idle" /\ \A l \in Levels : run'.keys[l] # "some"
    BY <1>2, NothingActive
  <2>2. ASSUME NEW s \in Sessions, ui'[s].op # "none"
        PROVE  Tame(ui[s].row)'
    <3>1. ui'[s] = ui[s] /\ Tame(ui[s].row)
      BY <1>2, <2>2 DEF Enabled
    <3> QED BY <1>2, <3>1 DEF Tame, Exists
  <2> QED BY <1>2, <2>1, <2>2 DEF Enabled, Exists
<1>3. CASE Crash \/ RunFinish
  <2>1. db' = db /\ run' = Idle /\ \A s \in Sessions : ui'[s].op # "none" => ui'[s] = ui[s]
    BY <1>3, NothingActive DEF Crash, RunFinish, dbVars
  <2> QED BY <1>2, <2>1
<1>4. CASE Tick \/ SetStartTimestamp \/ UNCHANGED vars
  <2>1. db' = db /\ run' = run /\ ui' = ui /\ seen' = seen
    BY <1>4 DEF Tick, SetStartTimestamp, vars, dbVars, ghostVars
  <2> QED BY <2>1 DEF Enabled, Tame, Exists
<1>5. CASE RunLoad
  <2>1. /\ db' = db /\ ui' = ui /\ run'.row = db
        /\ \A l \in Levels : run'.keys[l] # "some"
    BY <1>5, NothingActive DEF RunLoad, dbVars, Idle
  <2> QED BY <2>1 DEF Enabled, Tame, Exists
<1>6. CASE RunEvaluate
  <2>1. PICK met \in SUBSET Evaluable(run.row) :
             /\ run' = [run EXCEPT !.pc = "act", !.level = "caution",
                                   !.keys = ActiveKeys(run.row, met)]
             /\ seen' = seen \cup met
    BY <1>6 DEF RunEvaluate
  <2>2. db' = db /\ ui' = ui /\ run.pc # "idle"
    BY <1>6 DEF RunEvaluate, dbVars
  <2>3. run'.row = run.row /\ run'.keys = ActiveKeys(run.row, met)
    BY <2>1 DEF TypeOK, Run
  <2>4. ASSUME NEW l \in Levels, run'.keys[l] = "some"
        PROVE  l \in met /\ run.row.enabled
    BY <2>3, <2>4 DEF ActiveKeys, Evaluable
  <2> QED BY <2>1, <2>2, <2>3, <2>4 DEF Enabled, Tame, Exists
<1>7. ASSUME NEW l \in Levels, TakeAction(l)
      PROVE  Enabled'
  <2>1. /\ run.pc # "idle" /\ db' = db /\ run'.row.enabled = run.row.enabled
        /\ \A k \in Levels \ {l} : run'.row.st[k] = run.row.st[k]
        /\ run'.keys = run.keys
        /\ run'.row.st[l].active => run.row.st[l].active \/ run.keys[l] = "some"
    BY <1>7, TakeActionEffect, TakeActionActive
  <2>2. ui' = ui /\ seen' = seen
    BY <1>7 DEF TakeAction, SkipLevel, SuspendEntireAlert, NotActiveToActive, ActiveToNotActive,
                ActiveToActive, Act, ghostVars
  <2>3. Quiet(run'.row)
    BY <2>1 DEF Enabled, Quiet
  <2> QED BY <2>1, <2>2, <2>3 DEF Enabled, Tame, Exists
<1>8. ASSUME NEW l \in Levels, Persist(l)
      PROVE  Enabled'
  <2>1. /\ run.pc = "persist" /\ (db' = db \/ (Exists(db) /\ db' = run.row))
        /\ run'.row = run.row /\ run'.keys = run.keys /\ ui' = ui /\ seen' = seen
    BY <1>8 DEF Persist, TypeOK, Run, ghostVars
  <2>2. db'.id = db.id /\ db'.enabled = db.enabled /\ db'.cfg = db.cfg
    BY <2>1 DEF SnapshotCurrent
  <2>3. Quiet(db')
    BY <2>1 DEF Enabled
  <2> QED BY <2>1, <2>2, <2>3 DEF Enabled, Tame, Exists
<1>9. CASE Boot
  <2>1. run.pc = "idle" /\ \A l \in Levels : run.keys[l] # "some"
    BY <1>9 DEF Boot, Started
  <2>2. db' = db /\ run' = run /\ ui' = ui
    BY <1>9 DEF Boot, dbVars
  <2> QED BY <2>1, <2>2 DEF Enabled, Tame, Exists
<1> QED
  BY <1>1, <1>3, <1>4, <1>5, <1>6, <1>7, <1>8, <1>9 DEF Next, AlertRoutine

\* What is held back stays so while the process lives.
LEMMA HeldLater ==
    ASSUME TypeOK, TypeOK', NEW l \in Levels, Held(l),
           bootTime' = bootTime, now <= now', seen \subseteq seen',
           db'.id = db.id, db'.cfg.crit[l].window = db.cfg.crit[l].window,
           pendingOf' = pendingOf,
           l \in pending => \/ l \in pending' \/ l \in seen'
                            \/ now - bootTime >= RecoveryTimeout
                            \/ now - bootTime >= pendingOf.cfg.crit[l].window
    PROVE  Held(l)'
<1>1. now \in Nat /\ now' \in Nat /\ bootTime \in Nat /\ RecoveryTimeout \in Nat
  BY OptionsAssumption DEF TypeOK
<1>2. db.cfg.crit[l].window \in Nat
  BY ConfigType DEF TypeOK, Row
<1>3. CASE l \in pending' \/ l \in seen'
  BY <1>1, <1>2, <1>3 DEF Held, MinOf
<1>4. CASE ~(l \in pending' \/ l \in seen')
  BY <1>1, <1>2, <1>4 DEF Held, MinOf
<1> QED BY <1>3, <1>4

LEMMA HeldBackInit == Init => HeldBack
BY NothingActive DEF Init, HeldBack

\* A level that stops being pending has had its criteria met or its time.
LEMMA EvaluateLetsGo ==
    ASSUME Sheltered, TypeOK, Started, RunEvaluate, NEW l \in Levels, l \in pending
    PROVE  \/ l \in pending' \/ l \in seen'
           \/ now - bootTime >= RecoveryTimeout
           \/ now - bootTime >= pendingOf.cfg.crit[l].window
<1>1. PICK met \in SUBSET Evaluable(run.row) :
         pending' = StillPending(ActiveKeys(run.row, met)) /\ seen' = seen \cup met
  BY DEF RunEvaluate
<1>2. startTs # 0 /\ bootTime <= startTs
  BY DEF RunEvaluate, Sheltered, Started
<1>3. now \in Nat /\ bootTime \in Nat /\ startTs \in Nat /\ RecoveryTimeout \in Nat
  BY OptionsAssumption DEF TypeOK
<1>4. pendingOf.cfg.crit[l].window \in Nat
  BY ConfigType DEF TypeOK
<1>5. CASE HasReachedPreviousState(l, ActiveKeys(run.row, met))
  <2>1. ActiveKeys(run.row, met)[l] = "some"
    BY <1>5 DEF HasReachedPreviousState
  <2>2. l \in met
    BY <2>1 DEF ActiveKeys
  <2> QED BY <1>1, <2>2
<1>6. CASE ~(TimeSinceStartup < RecoveryTimeout)
  BY <1>2, <1>3, <1>6 DEF TimeSinceStartup
<1>7. CASE ~(TimeSinceStartup < pendingOf.cfg.crit[l].window)
  BY <1>2, <1>3, <1>4, <1>7 DEF TimeSinceStartup
<1> QED BY <1>1, <1>5, <1>6, <1>7 DEF StillPending

LEMMA HeldBackStep ==
    ASSUME Sheltered, TypeOK, TypeOK', SnapshotCurrent, Started, Enabled, HeldBack, [Next]_vars
    PROVE  HeldBack'
<1>1. now \in Nat
  BY DEF TypeOK
<1>2. CASE UNCHANGED <<db, up, run, firstRunDone, pending, pendingOf, bootTime, seen>> /\ now <= now'
  <2>1. ASSUME NEW l \in Levels, Held(l)
        PROVE  Held(l)'
    BY <1>2, <2>1, HeldLater
  <2> QED BY <1>2, <2>1 DEF HeldBack
<1>3. CASE Tick \/ SetStartTimestamp \/ UNCHANGED vars
  <2>1. UNCHANGED <<db, up, run, firstRunDone, pending, pendingOf, bootTime, seen>> /\ now <= now'
    BY <1>1, <1>3 DEF Tick, SetStartTimestamp, vars, dbVars, procVars, ghostVars
  <2> QED BY <1>2, <2>1
<1>4. CASE Crash \/ Boot
  <2>1. run'.pc = "idle" /\ ~(up' /\ firstRunDone')
    BY <1>4, NothingActive DEF Crash, Boot, Started
  <2> QED BY <2>1 DEF HeldBack
<1>5. CASE RunLoad
  <2>1. /\ db' = db /\ run'.row = db /\ up /\ up' = up /\ firstRunDone' = firstRunDone
        /\ bootTime' = bootTime /\ seen' = seen /\ now' = now
    BY <1>5 DEF RunLoad, dbVars, ghostVars, Idle
  <2>2. ASSUME NEW l \in Levels, db.st[l].active
        PROVE  Held(l)'
    <3>1. Exists(db) /\ db.enabled
      BY <2>2 DEF Enabled, Quiet
    <3>2. CASE firstRunDone
      <4>1. Held(l) /\ pending' = pending /\ pendingOf' = pendingOf
        BY <1>5, <2>1, <2>2, <3>2 DEF HeldBack, RunLoad
      <4> QED BY <2>1, <4>1 DEF Held
    <3>3. CASE ~firstRunDone
      <4>1. l \in pending' /\ pendingOf' = [id |-> db.id, cfg |-> db.cfg]
        BY <1>5, <2>2, <3>1, <3>3 DEF RunLoad
      <4> QED BY <2>1, <4>1 DEF Held
    <3> QED BY <3>2, <3>3
  <2> QED BY <2>1, <2>2 DEF HeldBack
<1>6. CASE RunEvaluate
  <2>1. /\ db' = db /\ run'.row = run.row /\ run.pc # "idle" /\ pendingOf' = pendingOf
        /\ up' = up /\ firstRunDone' = firstRunDone
        /\ bootTime' = bootTime /\ seen \subseteq seen' /\ now <= now'
    BY <1>1, <1>6 DEF RunEvaluate, dbVars, TypeOK, Run
  <2>2. ASSUME NEW l \in Levels, Held(l)
        PROVE  Held(l)'
    BY <1>6, <2>1, <2>2, HeldLater, EvaluateLetsGo
  <2> QED BY <2>1, <2>2 DEF HeldBack
<1>7. ASSUME NEW k \in Levels, TakeAction(k)
      PROVE  HeldBack'
  <2>1. UNCHANGED <<now, db, up, firstRunDone, pending, pendingOf, bootTime, seen>>
    BY <1>7 DEF TakeAction, SkipLevel, SuspendEntireAlert, NotActiveToActive, ActiveToNotActive,
                ActiveToActive, Act, dbVars, procVars, ghostVars
  <2>2. /\ run.pc # "idle"
        /\ \A l \in Levels \ {k} : run'.row.st[l] = run.row.st[l]
        /\ run'.row.st[k].active => run.row.st[k].active \/ run.keys[k] = "some"
    BY <1>7, TakeActionEffect, TakeActionActive
  <2>3. ASSUME NEW l \in Levels, db.st[l].active \/ run'.row.st[l].active
        PROVE  Held(l)
    <3>1. CASE db.st[l].active \/ run.row.st[l].active
      BY <2>2, <3>1 DEF HeldBack
    <3>2. CASE run.keys[l] = "some"
      BY <3>2 DEF Enabled, Held
    <3> QED BY <2>2, <2>3, <3>1, <3>2
  <2>4. \A l \in Levels : Held(l) => Held(l)'
    BY <2>1 DEF Held
  <2> QED BY <2>1, <2>3, <2>4 DEF HeldBack
<1>8. ASSUME NEW k \in Levels, Persist(k)
      PROVE  HeldBack'
  <2>1. /\ run.pc = "persist" /\ (db' = db \/ db' = run.row) /\ run'.row = run.row
        /\ UNCHANGED <<now, up, firstRunDone, pending, pendingOf, bootTime, seen>>
    BY <1>8 DEF Persist, TypeOK, Run, procVars, ghostVars
  <2>2. db'.id = db.id /\ db'.cfg = db.cfg
    BY <2>1 DEF SnapshotCurrent
  <2>3. \A l \in Levels : Held(l) => Held(l)'
    BY <2>1, <2>2 DEF Held
  <2>4. \A l \in Levels : db'.st[l].active \/ run'.row.st[l].active => Held(l)
    BY <2>1 DEF HeldBack
  <2> QED BY <2>3, <2>4 DEF HeldBack
<1>9. CASE RunFinish
  <2>1. /\ run.pc # "idle" /\ run'.pc = "idle" /\ db' = db
        /\ UNCHANGED <<now, pending, pendingOf, bootTime, seen>>
    BY <1>9, NothingActive DEF RunFinish, dbVars, ghostVars
  <2>2. \A l \in Levels : Held(l) => Held(l)'
    BY <2>1 DEF Held
  <2> QED BY <2>1, <2>2 DEF HeldBack
<1>10. ASSUME NEW new \in Row, NEW isAck \in BOOLEAN, AlterRecord(new, isAck), Tame(new),
              UNCHANGED <<now, up, run, firstRunDone, pending, pendingOf, bootTime, seen>>
       PROVE  HeldBack'
  <2>1. run.pc = "idle"
    BY <1>10 DEF AlterRecord, LockFree
  <2>2. ASSUME NEW l \in Levels, db'.st[l].active, up /\ firstRunDone
        PROVE  Held(l)'
    <3>1. /\ db.st[l].active /\ db'.id = db.id
          /\ db'.cfg.crit[l].window = db.cfg.crit[l].window
      BY <1>10, <2>2, AlteredRow
    <3>2. Held(l)
      BY <2>2, <3>1 DEF HeldBack
    <3> QED BY <1>10, <3>1, <3>2 DEF Held
  <2> QED BY <1>10, <2>1, <2>2 DEF HeldBack
<1>11. ASSUME NEW enabled \in BOOLEAN, NEW c \in Configs, SubmitForm(enabled, c)
       PROVE  HeldBack'
  <2>1. /\ AlterRecord(FormAlert(enabled, c), FALSE)
        /\ UNCHANGED <<now, up, run, firstRunDone, pending, pendingOf, bootTime, seen>>
    BY <1>11 DEF SubmitForm, procVars, ghostVars
  <2>2. "ack" \notin Ops
    BY <1>11 DEF SubmitForm, Sheltered
  <2>3. Tame(FormAlert(enabled, c))
    BY <2>2, NothingActive DEF Tame, FormAlert
  <2> QED BY <1>10, <2>1, <2>3, FormAlertType
<1>12. CASE DeleteAlert
  <2>1. run'.pc = "idle" /\ db' = NoRow
    BY <1>12 DEF DeleteAlert, LockFree
  <2> QED BY <2>1, NothingActive DEF HeldBack
<1>13. ASSUME NEW s \in Sessions, CommitRequest(s)
       PROVE  HeldBack'
  <2>1. /\ ui[s].row \in Row /\ (ui[s].op = "ack") \in BOOLEAN
        /\ ui[s].op # "none" /\ AlterRecord(ui[s].row, ui[s].op = "ack")
        /\ UNCHANGED <<now, up, run, firstRunDone, pending, pendingOf, bootTime, seen>>
    BY <1>13 DEF CommitRequest, procVars, ghostVars, TypeOK, Request
  <2>2. Tame(ui[s].row)
    BY <2>1 DEF Enabled
  <2> QED BY <1>10, <2>1, <2>2
<1>14. ASSUME NEW s \in Sessions, NEW request, BeginRequest(s, request)
       PROVE  HeldBack'
  <2>1. UNCHANGED <<db, up, run, firstRunDone, pending, pendingOf, bootTime, seen>> /\ now <= now'
    BY <1>1, <1>14 DEF BeginRequest, dbVars, procVars, ghostVars
  <2> QED BY <1>2, <2>1
<1>15. CASE Requests
  BY <1>11, <1>12, <1>13, <1>14, <1>15, Zenon
     DEF Requests, BeginToggle, BeginTemplate, BeginAck
<1> QED
  BY <1>3, <1>4, <1>5, <1>6, <1>7, <1>8, <1>9, <1>15 DEF Next, AlertRoutine

LEMMA RecoveryStep ==
    ASSUME TypeOK, SnapshotCurrent, HeldBack, [Next]_vars, NEW l \in Levels, Queues(l, "positive")
    PROVE  \/ l \in seen
           \/ now - bootTime >= MinOf(RecoveryTimeout, db.cfg.crit[l].window)
<1>1. run'.sent[l] = "positive" /\ run.sent[l] = "none" /\ TakeAction(l)
  BY SentStep DEF Queues
<1>2. ASSUME NEW status, NEW note, NEW dirty, Act(l, status, note, dirty)
      PROVE  run'.sent[l] = note
  BY <1>2 DEF Act, TypeOK, Run
<1>3. ~IsPending(l) /\ run.row.st[l].active /\ run.pc # "idle"
  BY <1>1, <1>2 DEF TakeAction, SkipLevel, SuspendEntireAlert, NotActiveToActive,
                    ActiveToNotActive, ActiveToActive
<1>4. Held(l) /\ run.row.id = db.id
  BY <1>3 DEF HeldBack, SnapshotCurrent
<1> QED BY <1>3, <1>4 DEF Held, IsPending

\* A level that was active when the process died sends no 'positive'
\* notification after the restart before the process has been up for the
\* recovery timeout or the window, or has seen the criteria met
\* (AlertThread.pendingAlertRecoveryRoutine), for every timeout, window and
\* number of crashes.  The start time has to be set before the first run is
\* evaluated; and a request that writes back what it read before another
\* changed the alert can leave a level active that the routine never held.
THEOREM RecoveryIsHeld ==
    ASSUME ~SlowStartup, "toggle" \notin Ops, "ack" \in Ops => Ops = {"ack"}
    PROVE  Spec => RecoveryHeld
<1>1. Sheltered
  BY DEF Sheltered
<1>2. Started /\ Enabled /\ HeldBack /\ TypeOK /\ TypeOK' /\ SnapshotCurrent /\ [Next]_vars
        => (Started /\ Enabled /\ HeldBack)'
  BY <1>1, StartedStep, EnabledStep, HeldBackStep
<1>3. Spec => [](Started /\ Enabled /\ HeldBack)
  BY <1>2, StartedInit, EnabledInit, HeldBackInit, TypeCorrect, SnapshotAlwaysCurrent, PTL DEF Spec
<1>4. HeldBack /\ TypeOK /\ SnapshotCurrent /\ [Next]_vars =>
        [\A l \in Levels :
          Queues(l, "positive") =>
             \/ l \in seen
             \/ now - bootTime >= MinOf(RecoveryTimeout, db.cfg.crit[l].window)]_vars
  BY RecoveryStep
<1> QED BY <1>3, <1>4, TypeCorrect, SnapshotAlwaysCurrent, PTL DEF Spec, RecoveryHeld


=============================================================================
