------------------------------- MODULE Inference -------------------------------
(***************************************************************************)
(* Predictions of one machine: the beat task that scores it every 30 s     *)
(* (apps/api/app/workers/tasks/infer.py) unless the edge has scored it     *)
(* lately, and the consumer that stores and shows the edge's predictions  *)
(* (ingest/consumer.py, edge_predictions.py).                               *)
(***************************************************************************)
EXTENDS Integers, FiniteSets

CONSTANTS
    FreshFor,     \* EDGE_FRESH_S, in steps of the clock
    Scorers       \* workers that may run the inference task

ASSUME InferAssumption == FreshFor \in Nat

VARIABLES
    edgeAge,   \* age of the newest edge prediction, up to Old, or Never
    reporting, \* the window holds enough telemetry, a production model exists
    storedBy,  \* source of the last prediction stored
    shown,     \* source of the prediction the twin store shows
    ingest,  \* the ingest consumer: "idle", or "publish" after it stored
    scorer     \* where each scoring run is

inferVars == <<edgeAge, reporting, storedBy, shown, ingest, scorer>>

Old   == FreshFor + 1
Never == FreshFor + 2

InferTypeOK ==
    /\ edgeAge \in 0..Never /\ reporting \in BOOLEAN
    /\ {storedBy, shown} \subseteq {"none", "edge", "server"}
    /\ ingest \in {"idle", "publish"}
    /\ scorer \in [Scorers -> {"idle", "checked", "publish"}]

InferInit ==
    /\ edgeAge = Never /\ reporting = FALSE
    /\ storedBy = "none" /\ shown = "none" /\ ingest = "idle"
    /\ scorer = [w \in Scorers |-> "idle"]

-----------------------------------------------------------------------------
ClockTicks ==
    /\ edgeAge < Old
    /\ edgeAge' = edgeAge + 1
    /\ UNCHANGED <<reporting, storedBy, shown, ingest, scorer>>

\* The machine starts and stops reporting, models come and go.
ReportingChanges ==
    /\ reporting' = ~reporting
    /\ UNCHANGED <<edgeAge, storedBy, shown, ingest, scorer>>

(* The consumer: store_edge_prediction, then the twin store.  A prediction *)
(* may be old, replayed by the edge after an outage.                       *)
EdgeStored(age) ==
    /\ ingest = "idle"
    /\ edgeAge' = IF edgeAge = Never \/ age < edgeAge THEN age ELSE edgeAge
    /\ storedBy' = "edge" /\ ingest' = "publish"
    /\ UNCHANGED <<reporting, shown, scorer>>

\* The patch is best effort.
EdgeShown(reached) ==
    /\ ingest = "publish"
    /\ shown' = IF reached THEN "edge" ELSE shown
    /\ ingest' = "idle"
    /\ UNCHANGED <<edgeAge, reporting, storedBy, scorer>>

-----------------------------------------------------------------------------
(* infer_asset *)

\* Mutant: an edge prediction of any age counts.
EdgeIsFreshEver == edgeAge # Never

\* _edge_is_fresh
EdgeIsFresh == edgeAge <= FreshFor

StartScoring(w) ==
    /\ scorer[w] = "idle" /\ ~EdgeIsFresh /\ reporting
    /\ scorer' = [scorer EXCEPT ![w] = "checked"]
    /\ UNCHANGED <<edgeAge, reporting, storedBy, shown, ingest>>

\* The row is committed; its explanation job is in Explanations.
StorePrediction(w) ==
    /\ scorer[w] = "checked"
    /\ storedBy' = "server"
    /\ scorer' = [scorer EXCEPT ![w] = "publish"]
    /\ UNCHANGED <<edgeAge, reporting, shown, ingest>>

PublishPrediction(w) ==
    /\ scorer[w] = "publish"
    /\ shown' \in {shown, "server"}
    /\ scorer' = [scorer EXCEPT ![w] = "idle"]
    /\ UNCHANGED <<edgeAge, reporting, storedBy, ingest>>

-----------------------------------------------------------------------------
InferNext ==
    \/ ClockTicks \/ ReportingChanges
    \/ \E age \in 0..Old : EdgeStored(age)
    \/ \E reached \in BOOLEAN : EdgeShown(reached)
    \/ \E w \in Scorers : StartScoring(w) \/ StorePrediction(w) \/ PublishPrediction(w)

-----------------------------------------------------------------------------
(* Properties. *)

\* "if the edge goes quiet the server takes the asset over on the next tick",
\* provided the machine reports and a model is in production.
TakenOver == edgeAge > FreshFor /\ reporting ~> storedBy = "server" \/ edgeAge <= FreshFor \/ ~reporting
=============================================================================
