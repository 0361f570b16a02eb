------------------------------ MODULE Incident ------------------------------
(***************************************************************************)
(* What the alert routine and the requests together promise about ONE      *)
(* level (caution or danger) of an alert, without the lock, the pending    *)
(* maps, the start-up or the other level: an incident is opened, repeated, *)
(* resolved or suspended by a decision made on the status ON RECORD, with  *)
(* the notification that goes with it, and the record is then replaced by  *)
(* that decision, or is not, as the write succeeds or fails.  Requests     *)
(* clear the record or write back a copy they took earlier.                *)
(***************************************************************************)
EXTENDS Integers

CONSTANTS Sessions, AllowResend, AlertOnPositive, ResendEvery

VARIABLES
    now,      \* the clock
    record,   \* the status of the level in the database
    draft,    \* the status a run has decided on and not yet given up: {} or {status}
    note,     \* the notification handed over with that decision
    copies    \* what each session has read and may write back: {} or {status}

vars == <<now, record, draft, note, copies>>

NoTime == -1

Closed == [active |-> FALSE, firstActiveAt |-> NoTime, ack |-> "null", lastSent |-> NoTime]

Init ==
    /\ now \in Nat
    /\ record = Closed
    /\ draft = {}
    /\ note = "none"
    /\ copies = [s \in Sessions |-> {}]

Tick ==
    /\ now' = now + 1
    /\ UNCHANGED <<record, draft, note, copies>>

\* A decision is made once per run, on the status on record, and nobody
\* replaces the record before the decision has been recorded or given up.
Decide(status, notes) ==
    /\ draft = {}
    /\ draft' = {status}
    /\ note' \in notes \cup {"none"}
    /\ UNCHANGED <<now, record, copies>>

Open ==
    /\ ~record.active
    /\ Decide([active |-> TRUE, firstActiveAt |-> now, ack |-> "no", lastSent |-> now], {"open"})

ResendDue ==
    /\ AllowResend
    /\ record.ack # "yes"
    /\ record.lastSent # NoTime
    /\ now - record.lastSent >= ResendEvery

Repeat ==
    /\ record.active
    /\ ResendDue
    /\ Decide([record EXCEPT !.lastSent = now], {"resend"})

Resolve ==
    /\ record.active
    /\ Decide(Closed, IF AlertOnPositive THEN {"positive"} ELSE {})

\* A suspension of the entire alert ends the incident without a word.
Suspend ==
    Decide([record EXCEPT !.active = FALSE, !.firstActiveAt = NoTime, !.lastSent = NoTime], {})

Keep == Decide(record, {})

\* The decision reaches the database: at once, later with another level's, twice or never.
Record ==
    /\ draft # {}
    /\ record' \in draft
    /\ UNCHANGED <<now, draft, note, copies>>

Done ==
    /\ draft' = {}
    /\ note' = "none"
    /\ UNCHANGED <<now, record, copies>>

Crash ==
    /\ draft' = {}
    /\ note' = "none"
    /\ copies' = [s \in Sessions |-> {}]
    /\ UNCHANGED <<now, record>>

\* A request that makes the level anew, or deletes it: never during a decision.
Clear ==
    /\ draft = {}
    /\ record' = Closed
    /\ UNCHANGED <<now, draft, note, copies>>

\* A request takes a copy at any time: as it is, cleared, or acknowledged.
Read(s) ==
    /\ copies[s] = {}
    /\ \/ copies' = [copies EXCEPT ![s] = {record}]
       \/ copies' = [copies EXCEPT ![s] = {Closed}]
       \/ /\ record.active
          /\ \E ack \in {"no", "yes"} :
                copies' = [copies EXCEPT ![s] = {[record EXCEPT !.ack = ack]}]
    /\ UNCHANGED <<now, record, draft, note>>

\* The copy, or its acknowledgement alone, or nothing of it reaches the record.
Write(s) ==
    /\ draft = {}
    /\ \E copy \in copies[s] :
          record' \in {copy, [record EXCEPT !.ack = copy.ack], record}
    /\ copies' = [copies EXCEPT ![s] = {}]
    /\ UNCHANGED <<now, draft, note>>

Next ==
    \/ Tick
    \/ Open \/ Repeat \/ Resolve \/ Suspend \/ Keep
    \/ Record \/ Done \/ Crash
    \/ Clear
    \/ \E s \in Sessions : Read(s) \/ Write(s)

Spec == Init /\ [][Next]_vars

=============================================================================
