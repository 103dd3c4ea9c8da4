----------------------------- MODULE AlarmLifecycle -----------------------------
(***************************************************************************)
(* The alarms of one (rule, asset): the ingest consumer raises them        *)
(* (consumer.py, alarm_engine.py), operators act on them through the API   *)
(* (modules/telemetry).  Transactions run at READ COMMITTED and lock no    *)
(* row: a request decides on the row it read and writes the columns it     *)
(* changed when it commits.                                                *)
(*                                                                         *)
(* Alarms of different rules or assets never meet.  A comment is handled   *)
(* as an assignment: neither touches the columns kept here.                *)
(***************************************************************************)
EXTENDS Integers, Sequences, FiniteSets

CONSTANTS
    AlarmWorkers,     \* API workers handling a request at the same time
    MaxRequests,  \* bound: requests in all
    MaxFailures   \* bound: inserts the database refuses

ASSUME AlarmAssumption == MaxRequests \in Nat /\ MaxFailures \in Nat

VARIABLES
    value,     \* the metric against the rule: "normal" or "violating"
    consumer,  \* where the consumer is with a message: "idle", "dedupe", "raise"
    alarms,    \* the table's rows, oldest first
    handling,   \* per worker: what it was asked and the row as it read it
    asked, failed  \* bounds

alarmVars == <<value, consumer, alarms, handling, asked, failed>>

Actions == {"ack", "assign", "shelve"}   \* what the routes pass to perform_action

Row  == [status : {"active", "acknowledged", "shelved"}, acknowledged_at : BOOLEAN,
         shelved_until : BOOLEAN]
NoHandling == [action |-> "none", alarm |-> 0,
         seen |-> [status |-> "active", acknowledged_at |-> FALSE, shelved_until |-> FALSE]]

AlarmTypeOK ==
    /\ value \in {"normal", "violating"}
    /\ consumer \in {"idle", "dedupe", "raise"}
    /\ alarms \in Seq(Row)
    /\ handling \in [AlarmWorkers -> [action : Actions \cup {"none"}, alarm : 0..Len(alarms), seen : Row]]
    /\ asked \in 0..MaxRequests
    /\ failed \in 0..MaxFailures

AlarmInit ==
    /\ value = "normal" /\ consumer = "idle" /\ alarms = <<>>
    /\ handling = [r \in AlarmWorkers |-> NoHandling]
    /\ asked = 0 /\ failed = 0

Open == {i \in DOMAIN alarms : alarms[i].status \in {"active", "acknowledged"}}

-----------------------------------------------------------------------------
(* The machine. *)
ValueChanges ==
    /\ value' = IF value = "normal" THEN "violating" ELSE "normal"
    /\ UNCHANGED <<consumer, alarms, handling, asked, failed>>

-----------------------------------------------------------------------------
(* The consumer. *)

\* A message with a value outside the rule's limits yields alarm data.
Evaluate ==
    /\ consumer = "idle" /\ value = "violating"
    /\ consumer' = "dedupe"
    /\ UNCHANGED <<value, alarms, handling, asked, failed>>

\* Mutant: the query looks for a status alarms do not have.
DedupeMissed ==
    /\ consumer = "dedupe"
    /\ consumer' = IF \E i \in DOMAIN alarms : alarms[i].status = "open" THEN "idle" ELSE "raise"
    /\ UNCHANGED <<value, alarms, handling, asked, failed>>

\* active_for_rule_and_asset
Dedupe ==
    /\ consumer = "dedupe"
    /\ consumer' = IF Open # {} THEN "idle" ELSE "raise"
    /\ UNCHANGED <<value, alarms, handling, asked, failed>>

NewAlarm == [status |-> "active", acknowledged_at |-> FALSE, shelved_until |-> FALSE]

\* Mutant: _on_message does not catch what the insert raises, and the thread ends.
RaiseAlarmDies ==
    /\ consumer = "raise"
    /\ \/ alarms' = Append(alarms, NewAlarm) /\ consumer' = "idle" /\ UNCHANGED failed
       \/ failed < MaxFailures /\ failed' = failed + 1 /\ consumer' = "ended" /\ UNCHANGED alarms
    /\ UNCHANGED <<value, handling, asked>>

\* The insert commits, or raises out of the message's handler.
RaiseAlarm ==
    /\ consumer = "raise"
    /\ consumer' = "idle"
    /\ \/ alarms' = Append(alarms, NewAlarm) /\ UNCHANGED failed
       \/ failed < MaxFailures /\ failed' = failed + 1 /\ UNCHANGED alarms
    /\ UNCHANGED <<value, handling, asked>>

-----------------------------------------------------------------------------
(* The API. *)

\* "Can only acknowledge active alarms"
Accepted(action, row) == action = "ack" => row.status = "active"

\* perform_action reads the row and decides on it; what it refuses ends here.
ReadAlarm(r) ==
    /\ handling[r] = NoHandling /\ asked < MaxRequests
    /\ asked' = asked + 1
    /\ \E i \in DOMAIN alarms, a \in Actions :
         /\ Accepted(a, alarms[i])
         /\ handling' = [handling EXCEPT ![r] = [action |-> a, alarm |-> i, seen |-> alarms[i]]]
    /\ UNCHANGED <<value, consumer, alarms, failed>>

RowAfter(row, q, status) ==
    [status          |-> status,
     acknowledged_at |-> row.acknowledged_at \/ q.action = "ack",
     shelved_until   |-> row.shelved_until \/ q.action = "shelve"]

StatusAfter(q) ==
    CASE q.action = "ack"    -> "acknowledged"
      [] q.action = "assign" -> q.seen.status
      [] q.action = "shelve" -> "shelved"

\* Mutant: the action's name is stored as the status.
WrittenAction(row, q) == RowAfter(row, q, q.action)

\* Mutant: the whole row is written, not the columns that changed.
WrittenWhole(row, q) == RowAfter(row, q, StatusAfter(q))

\* The row after the commit: the session writes the columns whose value
\* differs from the one it read.
Written(row, q) ==
    RowAfter(row, q, IF StatusAfter(q) = q.seen.status THEN row.status ELSE StatusAfter(q))

CommitAction(r) ==
    /\ handling[r] # NoHandling
    /\ alarms' = [alarms EXCEPT ![handling[r].alarm] = Written(@, handling[r])]
    /\ handling' = [handling EXCEPT ![r] = NoHandling]
    /\ UNCHANGED <<value, consumer, asked, failed>>

\* Mutant: the bulk statement has no condition on the status.
BulkAckAll ==
    /\ asked < MaxRequests /\ asked' = asked + 1
    /\ \E ids \in SUBSET DOMAIN alarms :
         alarms' = [i \in DOMAIN alarms |->
             IF i \in ids
             THEN [alarms[i] EXCEPT !.status = "acknowledged", !.acknowledged_at = TRUE]
             ELSE alarms[i]]
    /\ UNCHANGED <<value, consumer, handling, failed>>

\* bulk_ack is one UPDATE, conditional on the row it updates.
BulkAck ==
    /\ asked < MaxRequests /\ asked' = asked + 1
    /\ \E ids \in SUBSET DOMAIN alarms :
         alarms' = [i \in DOMAIN alarms |->
             IF i \in ids /\ alarms[i].status = "active"
             THEN [alarms[i] EXCEPT !.status = "acknowledged", !.acknowledged_at = TRUE]
             ELSE alarms[i]]
    /\ UNCHANGED <<value, consumer, handling, failed>>

-----------------------------------------------------------------------------
Consumer == Evaluate \/ Dedupe \/ RaiseAlarm

AlarmNext ==
    \/ ValueChanges
    \/ Consumer
    \/ \E r \in AlarmWorkers : ReadAlarm(r) \/ CommitAction(r)
    \/ BulkAck

AlarmSpec == AlarmInit /\ [][AlarmNext]_alarmVars

\* The machine reports every second and the consumer handles what it gets.
AlarmFairSpec == AlarmSpec /\ WF_alarmVars(Consumer) /\ \A r \in AlarmWorkers : WF_alarmVars(CommitAction(r))

-----------------------------------------------------------------------------
(* Properties. *)

\* "Dedupe: one active alarm per (rule, asset)" (_raise_alarm), although the
\* consumer's check and insert are two statements and every request writes on
\* the strength of a row it read earlier.
OneActiveAlarm == Cardinality({i \in DOMAIN alarms : alarms[i].status = "active"}) <= 1

\* An alarm comes to stand for a violation that persists, whatever inserts
\* fail on the way: shown to the operators, or put on the shelf by one of them.
\* Whether a shelved issue is raised once more is ShelvingSuppresses's matter.
ViolationAlarmed ==
    <>[](value = "violating")
      => <>[](\E i \in DOMAIN alarms : alarms[i].status \in {"active", "acknowledged", "shelved"})

\* Alarms are answered for good: whatever requests overlap an acknowledgement
\* (an assignment that read the alarm before it, say), the alarm is not
\* presented as active again.
AnsweredForGood ==
    [][\A i \in DOMAIN alarms : alarms[i].acknowledged_at => alarms'[i].status # "active"]_alarmVars

\* A shelved alarm comes back to the operators only through an acknowledgement
\* that read it before it was shelved: acknowledging in bulk, or an assignment
\* that overlaps the shelving, leaves it on the shelf.
ShelvedStays ==
    [][\A i \in DOMAIN alarms :
          alarms[i].status = "shelved" /\ alarms'[i].status # "shelved"
          => \E r \in AlarmWorkers :
                handling[r].alarm = i /\ handling[r].action = "ack" /\ handling'[r] = NoHandling]_alarmVars

\* "alarm-shelving to suppress known issues" (PRD FR-MM-04).
ShelvingSuppresses ==
    [][Len(alarms') > Len(alarms) => \A i \in DOMAIN alarms : alarms[i].status # "shelved"]_alarmVars
=============================================================================
