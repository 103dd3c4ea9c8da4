----------------------------- MODULE BackgroundWork -----------------------------
(***************************************************************************)
(* The components whose work is done behind the requests, by the consumer, *)
(* the queue and the scheduler, and must come to an end: alarms, benchmark *)
(* and insight jobs, scoring, explanations and reports.  They share no     *)
(* state with one another and stand side by side: in every behaviour one   *)
(* of them runs and the others rest in their initial state.                *)
(***************************************************************************)
EXTENDS AlarmLifecycle, ModelJobs, Inference, Explanations, Reports

VARIABLE part   \* the component that runs

backgroundVars == <<part, alarmVars, jobVars, inferVars, explainVars, reportVars>>

-----------------------------------------------------------------------------
BackgroundInit ==
    /\ part \in {"alarms", "jobs", "infer", "explain", "reports"}
    /\ AlarmInit /\ JobInit /\ InferInit /\ ExplainInit /\ ReportInit

Rest(p, vars) == part # p => UNCHANGED vars

\* A step of the component p, with the others at rest.
Only(p) ==
    /\ part = p /\ UNCHANGED part
    /\ Rest("alarms", alarmVars) /\ Rest("jobs", jobVars) /\ Rest("infer", inferVars)
    /\ Rest("explain", explainVars) /\ Rest("reports", reportVars)

BackgroundNext ==
    \/ Only("alarms")  /\ AlarmNext
    \/ Only("jobs")    /\ JobNext
    \/ Only("infer")   /\ InferNext
    \/ Only("explain") /\ ExplainNext
    \/ Only("reports") /\ ReportNext

-----------------------------------------------------------------------------
(* Fairness: the consumer runs, requests end, processes and tasks that have *)
(* work go on with it, the clock of the scoring goes on.                    *)
AlarmsRun ==
    /\ WF_alarmVars(part = "alarms" /\ Consumer)
    /\ \A r \in AlarmWorkers : WF_alarmVars(part = "alarms" /\ CommitAction(r))

JobsRun == WF_jobVars(part = "jobs" /\ BenchmarkSteps)

InferenceRuns ==
    /\ WF_inferVars(part = "infer" /\ ClockTicks)
    /\ \A w \in Scorers : WF_inferVars(part = "infer" /\ (StartScoring(w) \/ StorePrediction(w) \/ PublishPrediction(w)))

ExplainersRun == \A e \in Explainers : WF_explainVars(part = "explain" /\ ExplainerSteps(e))

ReportsRun ==
    \A w \in ReportWorkers :
      /\ WF_reportVars(part = "reports" /\ TakeReport(w))
      /\ WF_reportVars(part = "reports" /\ (SendReport(w) \/ BeginReport(w) \/ FinishReport(w)
                                             \/ AcknowledgeReport(w) \/ SweepSteps(w)))

BackgroundSpec ==
    BackgroundInit /\ [][BackgroundNext]_backgroundVars
      /\ AlarmsRun /\ JobsRun /\ InferenceRuns /\ ExplainersRun /\ ReportsRun

-----------------------------------------------------------------------------
(* Properties. *)

\* The state of every component is well formed.
BackgroundTypeOK == AlarmTypeOK /\ JobTypeOK /\ InferTypeOK /\ ExplainTypeOK /\ ReportTypeOK

\* What the pages show is one thing for everybody: an explanation in the same
\* words, and insights that are never missing again once there were some.
PagesSound == ExplanationsAgree /\ InsightsThere

\* Work handed to the queue comes to an end that its row tells of: benchmarks,
\* explanations (whose job waits from the start) and reports.
JobsSettle == BenchmarkSettles /\ (part = "explain" => JobExplained) /\ ReportSettles
=============================================================================
