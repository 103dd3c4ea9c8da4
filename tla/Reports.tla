-------------------------------- MODULE Reports --------------------------------
(***************************************************************************)
(* Reports (apps/api/app/modules/reports/service.py) and their schedule    *)
(* (workers/tasks/report.py): a request commits a queued row and then      *)
(* sends the job that fills it in; a sweep of the schedules, begun every   *)
(* minute, raises the requests that are due and marks the schedule.  Jobs  *)
(* are acknowledged late, so those of a worker that dies are delivered     *)
(* again, unless only the process that ran it was killed; a job that ends  *)
(* in an exception is acknowledged like any other.                         *)
(***************************************************************************)
EXTENDS Integers

CONSTANTS
    ReportWorkers,   \* worker processes (-c 2), and the API, for the requests
    MaxReports,      \* bound: reports requested
    MaxMinute,       \* bound: minutes of the clock
    Cron,            \* the minutes the schedule's expression matches
    CatchUp,         \* CATCHUP_WINDOW, in minutes
    MaxKills         \* bound: workers killed

ASSUME ReportAssumption == MaxReports \in Nat /\ MaxMinute \in Nat \ {0} /\ MaxKills \in Nat

VARIABLES
    minute,   \* the clock
    lastRun,  \* last_run_at of the schedule; 0 is null
    reports,  \* each report: its row, the deliveries of its job, how it came
    clerk,    \* what each process is doing
    ticks,    \* sweeps begun; beat sends one a minute
    kills     \* bound

reportVars == <<minute, lastRun, reports, clerk, ticks, kills>>

ReportIds == 1..MaxReports
NoReport  == [status |-> "none", sent |-> 0, at |-> 0, lost |-> FALSE]
AtRest    == [pc |-> "idle", report |-> 0, at |-> 0]
Finished  == {"done", "failed"}

ReportTypeOK ==
    /\ minute \in 1..MaxMinute /\ lastRun \in 0..MaxMinute /\ kills \in 0..MaxKills /\ ticks \in 0..minute
    /\ reports \in [ReportIds -> [status : {"none", "queued", "running"} \cup Finished,
                                  sent : 0..(1 + MaxKills), at : 0..MaxMinute, lost : BOOLEAN]]
    /\ clerk \in [ReportWorkers -> [pc : {"idle", "due", "send", "mark", "generate", "running", "ack"},
                                    report : 0..MaxReports, at : 0..MaxMinute]]

ReportInit ==
    /\ minute = 1 /\ lastRun = 0 /\ ticks = 0 /\ kills = 0
    /\ reports = [r \in ReportIds |-> NoReport]
    /\ clerk = [w \in ReportWorkers |-> AtRest]

Unrequested == {r \in ReportIds : reports[r].status = "none"}
NextReport  == CHOOSE r \in Unrequested : \A q \in Unrequested : r <= q

MinutePasses == minute < MaxMinute /\ minute' = minute + 1 /\ UNCHANGED <<lastRun, reports, clerk, ticks, kills>>

-----------------------------------------------------------------------------
(* ReportService.request.  `at' is the minute of the sweep it is for, 0 if *)
(* it was asked for by a user or raised by an event.                       *)
QueuedRow(w, at) ==
    /\ Unrequested # {}
    /\ reports' = [reports EXCEPT ![NextReport] = [NoReport EXCEPT !.status = "queued", !.at = at]]
    /\ clerk' = [clerk EXCEPT ![w] = [pc |-> "send", report |-> NextReport, at |-> at]]

RequestReport(w) ==
    /\ clerk[w].pc = "idle" /\ QueuedRow(w, 0)
    /\ UNCHANGED <<minute, lastRun, ticks, kills>>

\* _enqueue: with no broker the row stays queued, which a log line says.
SendReport(w) ==
    /\ clerk[w].pc = "send"
    /\ \E sent \in {0, 1} :
         reports' = [reports EXCEPT ![clerk[w].report] = [@ EXCEPT !.sent = sent, !.lost = sent = 0]]
    /\ clerk' = [clerk EXCEPT ![w] =
         IF clerk[w].at = 0 THEN AtRest ELSE [pc |-> "mark", report |-> 0, at |-> @.at]]
    /\ UNCHANGED <<minute, lastRun, ticks, kills>>

-----------------------------------------------------------------------------
(* run_report_schedules, for one schedule *)
IsDue == minute \in Cron /\ (lastRun = 0 \/ minute - lastRun >= CatchUp)

Sweep(w) ==
    /\ clerk[w].pc = "idle" /\ ticks < minute /\ ticks' = ticks + 1
    /\ IF IsDue THEN clerk' = [clerk EXCEPT ![w] = [pc |-> "due", report |-> 0, at |-> minute]]
       ELSE UNCHANGED clerk
    /\ UNCHANGED <<minute, lastRun, reports, kills>>

\* Mutant: the schedule is marked as soon as it is found to be due.
RequestDueMarked(w) ==
    /\ clerk[w].pc = "due"
    /\ lastRun' = clerk[w].at
    /\ \/ QueuedRow(w, clerk[w].at)
       \/ clerk' = [clerk EXCEPT ![w] = AtRest] /\ UNCHANGED reports
    /\ UNCHANGED <<minute, ticks, kills>>

\* A request that raises, its scope being gone, ends the sweep.
RequestDue(w) ==
    /\ clerk[w].pc = "due"
    /\ \/ QueuedRow(w, clerk[w].at)
       \/ clerk' = [clerk EXCEPT ![w] = AtRest] /\ UNCHANGED reports
    /\ UNCHANGED <<minute, lastRun, ticks, kills>>

MarkRun(w) ==
    /\ clerk[w].pc = "mark"
    /\ lastRun' = clerk[w].at
    /\ clerk' = [clerk EXCEPT ![w] = AtRest]
    /\ UNCHANGED <<minute, reports, ticks, kills>>

-----------------------------------------------------------------------------
(* ReportService.generate *)
TakeReport(w) ==
    /\ clerk[w].pc = "idle"
    /\ \E r \in ReportIds :
         /\ reports[r].sent > 0
         /\ reports' = [reports EXCEPT ![r].sent = @ - 1]
         /\ clerk' = [clerk EXCEPT ![w] = [pc |-> "generate", report |-> r, at |-> 0]]
    /\ UNCHANGED <<minute, lastRun, ticks, kills>>

\* Mutant: a report that is running is left to whoever runs it.
BeginReportOnce(w) ==
    /\ clerk[w].pc = "generate"
    /\ LET again == reports[clerk[w].report].status \in {"done", "running"} IN
         /\ clerk' = [clerk EXCEPT ![w].pc = IF again THEN "ack" ELSE "running"]
         /\ reports' = IF again THEN reports ELSE [reports EXCEPT ![clerk[w].report].status = "running"]
    /\ UNCHANGED <<minute, lastRun, ticks, kills>>

BeginReport(w) ==
    /\ clerk[w].pc = "generate"
    /\ LET again == reports[clerk[w].report].status = "done" IN
         /\ clerk' = [clerk EXCEPT ![w].pc = IF again THEN "ack" ELSE "running"]
         /\ reports' = IF again THEN reports ELSE [reports EXCEPT ![clerk[w].report].status = "running"]
    /\ UNCHANGED <<minute, lastRun, ticks, kills>>

\* Whatever else fails in assembling, composing, rendering or archiving it
\* lands on the row.
FinishReport(w) ==
    /\ clerk[w].pc = "running"
    /\ \E status \in Finished : reports' = [reports EXCEPT ![clerk[w].report].status = status]
    /\ clerk' = [clerk EXCEPT ![w].pc = "ack"]
    /\ UNCHANGED <<minute, lastRun, ticks, kills>>

\* What the database raises in reading the row, in marking it running or, the
\* session not being rolled back, in marking it failed after an error of its
\* own ends the task: the row stays as it is.
GenerateRaises(w) ==
    /\ clerk[w].pc \in {"generate", "running"}
    /\ reports' = [reports EXCEPT ![clerk[w].report].lost = TRUE]
    /\ clerk' = [clerk EXCEPT ![w].pc = "ack"]
    /\ UNCHANGED <<minute, lastRun, ticks, kills>>

AcknowledgeReport(w) ==
    /\ clerk[w].pc = "ack"
    /\ clerk' = [clerk EXCEPT ![w] = AtRest]
    /\ UNCHANGED <<minute, lastRun, reports, ticks, kills>>

-----------------------------------------------------------------------------
\* A process dies.  With the whole worker gone its job is delivered again; a
\* pool process killed alone has its job acknowledged for it, and a request
\* that dies before it has sent the job never sends it.
Killed(w) ==
    /\ kills < MaxKills /\ kills' = kills + 1
    /\ clerk[w].pc # "idle" /\ clerk' = [clerk EXCEPT ![w] = AtRest]
    /\ LET r == clerk[w].report IN
         \/ /\ clerk[w].pc \in {"generate", "running", "ack"}
            /\ reports' = [reports EXCEPT ![r].sent = @ + 1]
         \/ reports' = IF r = 0 THEN reports ELSE [reports EXCEPT ![r].lost = TRUE]
    /\ UNCHANGED <<minute, lastRun, ticks>>

ReportSteps(w) ==
    SendReport(w) \/ TakeReport(w) \/ BeginReport(w) \/ FinishReport(w) \/ AcknowledgeReport(w)
SweepSteps(w) == RequestDue(w) \/ MarkRun(w)

ReportNext ==
    \/ MinutePasses
    \/ \E w \in ReportWorkers :
         RequestReport(w) \/ Sweep(w) \/ SweepSteps(w) \/ ReportSteps(w)
         \/ GenerateRaises(w) \/ Killed(w)

-----------------------------------------------------------------------------
(* Properties. *)

\* A schedule is marked as run only for a minute in which its report was
\* requested: a sweep that dies may ask for the report twice, but leaves no
\* schedule that claims to have run and did not.
MarkedWasRequested == lastRun # 0 => \E r \in ReportIds : reports[r].status # "none" /\ reports[r].at = lastRun

\* A report whose job was sent does not stay queued or running: the death of
\* its worker half-way has it made again, whatever the row said.  It may stay
\* so where nobody is left to write the row (lost): the job was not sent, its
\* process was killed alone, or the task ended in a database error.
ReportSettles ==
    \A r \in ReportIds :
        reports[r].status = "running" \/ reports[r].sent > 0 ~> reports[r].status \in Finished \/ reports[r].lost
=============================================================================
