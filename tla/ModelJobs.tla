------------------------------- MODULE ModelJobs -------------------------------
(***************************************************************************)
(* The worker's jobs about models: a benchmark run (apps/api/app/modules/  *)
(* pdm/service.py, workers/tasks/benchmark.py), whose row and whose queued *)
(* job are written one after the other, and the insights of one model      *)
(* (workers/tasks/insights.py), which the hourly job, the end of a         *)
(* training and the quality page may compute at the same time.             *)
(***************************************************************************)
EXTENDS Integers, FiniteSets

CONSTANTS
    InsightWorkers,   \* workers that may compute the insights
    MaxInsights       \* bound: computations begun

ASSUME JobAssumption == MaxInsights \in Nat

VARIABLES
    bench,    \* a benchmark: its row, the request, the queue, the worker
    metrics,  \* committed sets of the model's quality metrics, by computation
    insight,  \* each worker's computation
    computed, \* bound, and the next computation's number
    published \* history: a computation was committed

jobVars == <<bench, metrics, insight, computed, published>>

NoInsight == [pc |-> "idle", id |-> 0, doomed |-> {}]

JobTypeOK ==
    /\ bench \in [status : {"none", "running", "done", "failed"}, request : {"idle", "enqueue", "raised", "gone"},
                  queued : BOOLEAN, worker : {"idle", "running", "lost", "raised"}]
    /\ published \in BOOLEAN /\ metrics \subseteq 1..computed /\ computed \in 0..MaxInsights
    /\ \A w \in InsightWorkers :
         /\ insight[w].pc \in {"idle", "computing", "deleting", "deleted"}
         /\ insight[w].id \in 0..computed /\ insight[w].doomed \subseteq 1..computed

JobInit ==
    /\ bench = [status |-> "none", request |-> "idle", queued |-> FALSE, worker |-> "idle"]
    /\ metrics = {} /\ computed = 0 /\ published = FALSE
    /\ insight = [w \in InsightWorkers |-> NoInsight]

-----------------------------------------------------------------------------
(* A benchmark: the row is committed before the job is sent. *)
StartBenchmark ==
    /\ bench.status = "none"
    /\ bench' = [bench EXCEPT !.status = "running", !.request = "enqueue"]
    /\ UNCHANGED <<metrics, insight, computed, published>>

\* A send that raises may have been received.
Enqueue ==
    /\ bench.request = "enqueue"
    /\ \/ bench' = [bench EXCEPT !.request = "idle", !.queued = TRUE]
       \/ \E sent \in BOOLEAN : bench' = [bench EXCEPT !.request = "raised", !.queued = sent]
    /\ UNCHANGED <<metrics, insight, computed, published>>

\* Mutant: the failure to send is reported, the row is left as it was.
EnqueueFailedOnly ==
    /\ bench.request = "raised"
    /\ bench' = [bench EXCEPT !.request = "idle"]
    /\ UNCHANGED <<metrics, insight, computed, published>>

\* The row is marked failed, or the commit that would mark it fails as well.
EnqueueFailed ==
    /\ bench.request = "raised"
    /\ \/ bench' = [bench EXCEPT !.request = "idle", !.status = "failed"]
       \/ bench' = [bench EXCEPT !.request = "gone"]
    /\ UNCHANGED <<metrics, insight, computed, published>>

\* The API dies after the commit of the row, before delay() has sent the job
\* or before its failure is on the row.
RequestDies ==
    /\ bench.request \in {"enqueue", "raised"}
    /\ bench' = [bench EXCEPT !.request = "gone"]
    /\ UNCHANGED <<metrics, insight, computed, published>>

\* Not acks_late: a job taken is not delivered again.
TakeBenchmark ==
    /\ bench.queued
    /\ bench' = [bench EXCEPT !.queued = FALSE, !.worker = "running"]
    /\ UNCHANGED <<metrics, insight, computed, published>>

\* _finish, after the work or its exception.  The session that reads the row
\* first and the one of _finish are outside the try: what the database raises
\* there ends the task, which nothing delivers again.
FinishBenchmark ==
    /\ bench.worker = "running"
    /\ \/ \E status \in {"done", "failed"} : bench' = [bench EXCEPT !.worker = "idle", !.status = status]
       \/ bench' = [bench EXCEPT !.worker = "raised"]
    /\ UNCHANGED <<metrics, insight, computed, published>>

WorkerLost ==
    /\ bench.worker = "running"
    /\ bench' = [bench EXCEPT !.worker = "lost"]
    /\ UNCHANGED <<metrics, insight, computed, published>>

BenchmarkSteps == Enqueue \/ EnqueueFailed \/ TakeBenchmark \/ FinishBenchmark

-----------------------------------------------------------------------------
(* Insights.  The importance computed again from the same bundle is equal  *)
(* to the stored one, so the session writes no new hyperparams and nothing *)
(* locks the model's row.                                                  *)
ComputeInsights(w) ==
    /\ insight[w].pc = "idle" /\ computed < MaxInsights
    /\ computed' = computed + 1
    /\ insight' = [insight EXCEPT ![w] = [pc |-> "computing", id |-> computed', doomed |-> {}]]
    /\ UNCHANGED <<bench, metrics, published>>

\* The DELETE starts with the rows committed by then,
FindOldMetrics(w) ==
    /\ insight[w].pc = "computing"
    /\ insight' = [insight EXCEPT ![w].pc = "deleting", ![w].doomed = metrics]
    /\ UNCHANGED <<bench, metrics, computed, published>>

\* Mutant: the deletion is committed on its own.
DeleteOldMetricsNow(w) ==
    /\ insight[w].pc = "deleting"
    /\ metrics' = metrics \ insight[w].doomed
    /\ insight' = [insight EXCEPT ![w].pc = "deleted"]
    /\ UNCHANGED <<bench, computed, published>>

\* and waits for whoever is deleting them.
DeleteOldMetrics(w) ==
    /\ insight[w].pc = "deleting"
    /\ \A v \in InsightWorkers \ {w} :
         insight[v].pc = "deleted" => insight[v].doomed \cap insight[w].doomed = {}
    /\ insight' = [insight EXCEPT ![w].pc = "deleted"]
    /\ UNCHANGED <<bench, metrics, computed, published>>

CommitInsights(w) ==
    /\ insight[w].pc = "deleted"
    /\ metrics' = (metrics \ insight[w].doomed) \cup {insight[w].id}
    /\ insight' = [insight EXCEPT ![w] = NoInsight]
    /\ published' = TRUE
    /\ UNCHANGED <<bench, computed>>

\* refresh_production_insights goes on with the next model.
InsightsFail(w) ==
    /\ insight[w].pc # "idle"
    /\ insight' = [insight EXCEPT ![w] = NoInsight]
    /\ UNCHANGED <<bench, metrics, computed, published>>

JobNext ==
    \/ StartBenchmark \/ BenchmarkSteps \/ RequestDies \/ WorkerLost
    \/ \E w \in InsightWorkers :
         ComputeInsights(w) \/ FindOldMetrics(w) \/ DeleteOldMetrics(w) \/ CommitInsights(w) \/ InsightsFail(w)

-----------------------------------------------------------------------------
(* Properties. *)

\* Nobody is left to write the row: its worker is lost or the task ended in a
\* database error, or the request is gone and the job with it, never sent.
BenchmarkAbandoned ==
    \/ bench.worker \in {"lost", "raised"}
    \/ bench.request = "gone" /\ ~bench.queued /\ bench.worker = "idle"

\* "a broker outage must not leave it like that forever": the row of a
\* benchmark stops saying running, except where the code abandons it.
BenchmarkSettles == bench.status = "running" ~> bench.status # "running" \/ BenchmarkAbandoned

\* Once a model has insights its page has some for ever: a computation that
\* fails, or overlaps another, does not empty the page.
InsightsThere == published => metrics # {}
=============================================================================
