------------------------------ MODULE Explanations ------------------------------
(***************************************************************************)
(* The explanation of one of the server's predictions: its job (apps/api/  *)
(* app/workers/tasks/explain.py), delivered at least once because Celery   *)
(* acknowledges late, and the narration of the explanation that requests   *)
(* compose and cache (modules/xai/service.py).  Explanations of different  *)
(* predictions share nothing.                                              *)
(***************************************************************************)
EXTENDS Integers, FiniteSets

CONSTANTS
    Explainers,   \* workers that may run the explanation task
    Narrators,    \* requests for the same narration
    LLMTexts,     \* what the language model may answer; the audit passes some
    Faithful,     \* the answers that pass the audit
    MaxCrashes    \* bound: workers killed, jobs delivered again

VARIABLES
    jobs,      \* deliveries of the explanation job that wait
    explainer, \* where each explanation run is
    explained, \* committed explanations of the prediction
    lost,      \* the computation failed or its process was killed: nothing retries it
    crashes,   \* bound
    narration, \* committed final text, or NoText
    narrator   \* each narration request: where it is, its text, what it answered

explainVars == <<jobs, explainer, explained, lost, crashes, narration, narrator>>

NoText   == "no text"

\* What is audited is an answer, and none is no answer.
ASSUME ExplainAssumption == MaxCrashes \in Nat /\ NoText \notin LLMTexts /\ Faithful \subseteq LLMTexts

Template == "template"   \* _template_text, the same whenever it is composed
Texts    == {Template} \cup LLMTexts
NoRequest == [pc |-> "idle", text |-> NoText]

ExplainTypeOK ==
    /\ jobs \in 0..(MaxCrashes + 1) /\ explained \in 0..2 /\ crashes \in 0..MaxCrashes
    /\ lost \in BOOLEAN /\ narration \in Texts \cup {NoText}
    /\ explainer \in [Explainers -> {"idle", "looked", "computing", "flushed", "ack"}]
    /\ narrator \in [Narrators -> [pc : {"idle", "composing", "flushed", "done"}, text : Texts \cup {NoText}]]

\* The prediction is stored and its job sent.
ExplainInit ==
    /\ jobs = 1 /\ explained = 0 /\ lost = FALSE /\ crashes = 0
    /\ explainer = [e \in Explainers |-> "idle"]
    /\ narration = NoText /\ narrator = [n \in Narrators |-> NoRequest]

-----------------------------------------------------------------------------
(* explain_prediction *)
Run(e, from, to) == explainer[e] = from /\ explainer' = [explainer EXCEPT ![e] = to]

TakeJob(e) ==
    /\ jobs > 0 /\ jobs' = jobs - 1
    /\ Run(e, "idle", "looked")
    /\ UNCHANGED <<narration, narrator, explained, lost, crashes>>

LookUp(e) ==
    /\ Run(e, "looked", IF explained > 0 THEN "ack" ELSE "computing")
    /\ UNCHANGED <<narration, narrator, jobs, explained, lost, crashes>>

\* Mutant: nothing but the look-up keeps a second explanation out.
FlushExplanationUnchecked(e) ==
    /\ Run(e, "computing", "flushed")
    /\ UNCHANGED <<narration, narrator, jobs, explained, lost, crashes>>

\* explanations_prediction_id_uq: the insert waits for another one not yet
\* committed, and is refused once it is; the task then fails.
FlushExplanation(e) ==
    /\ \A f \in Explainers : explainer[f] # "flushed"
    /\ Run(e, "computing", IF explained > 0 THEN "ack" ELSE "flushed")
    /\ UNCHANGED <<narration, narrator, jobs, explained, lost, crashes>>

CommitExplanation(e) ==
    /\ Run(e, "flushed", "ack")
    /\ explained' = explained + 1
    /\ UNCHANGED <<narration, narrator, jobs, lost, crashes>>

\* No retry is asked for: a task that raises, or finds no bundle, no window
\* and nothing to attribute, is acknowledged like one that succeeds.
ExplanationFails(e) ==
    /\ \E at \in {"looked", "computing", "flushed"} : Run(e, at, "ack")
    /\ lost' = TRUE
    /\ UNCHANGED <<narration, narrator, jobs, explained, crashes>>

Acknowledge(e) ==
    /\ Run(e, "ack", "idle")
    /\ UNCHANGED <<narration, narrator, jobs, explained, lost, crashes>>

\* Mutant: a job is acknowledged when it is taken.
ExplainerCrashesAcked(e) ==
    /\ crashes < MaxCrashes /\ crashes' = crashes + 1
    /\ explainer[e] # "idle" /\ explainer' = [explainer EXCEPT ![e] = "idle"]
    /\ UNCHANGED <<narration, narrator, jobs, explained, lost>>

\* An unacknowledged job is delivered again: its worker is gone (when only the
\* pool process is killed Celery acknowledges the job, as nothing sets
\* task_reject_on_worker_lost),
ExplainerCrashes(e) ==
    /\ crashes < MaxCrashes /\ crashes' = crashes + 1
    /\ explainer[e] # "idle" /\ explainer' = [explainer EXCEPT ![e] = "idle"]
    /\ \/ jobs' = jobs + 1 /\ UNCHANGED lost
       \/ lost' = TRUE /\ UNCHANGED jobs
    /\ UNCHANGED <<narration, narrator, explained>>

\* or has held it for longer than the visibility timeout.
DeliveredAgain(e) ==
    /\ crashes < MaxCrashes /\ crashes' = crashes + 1
    /\ explainer[e] # "idle" /\ UNCHANGED explainer
    /\ jobs' = jobs + 1
    /\ UNCHANGED <<narration, narrator, explained, lost>>

-----------------------------------------------------------------------------
(* ExplanationService.narration *)
UnchangedJob == UNCHANGED <<jobs, explainer, explained, lost, crashes>>

\* The cached narration, or a new one of the explanation.
AskNarration(n) ==
    /\ narrator[n].pc = "idle" /\ explained > 0
    /\ narrator' = [narrator EXCEPT ![n] =
         IF narration # NoText THEN [pc |-> "done", text |-> narration] ELSE [@ EXCEPT !.pc = "composing"]]
    /\ UnchangedJob /\ UNCHANGED narration

\* Mutant: what the model answers is shown as it is.
FinalTextUnaudited(text) == text

\* The paraphrase if there is one and the audit passes it.
FinalText(text) == IF text \in Faithful THEN text ELSE Template

\* paraphrase: an answer of the language model, or none in time.
Paraphrase == LLMTexts \cup {NoText}

\* Mutant: the narrations have no unique index.
ComposeNarrationUnchecked(n) ==
    /\ narrator[n].pc = "composing"
    /\ \E text \in Paraphrase :
         narrator' = [narrator EXCEPT ![n] = [pc |-> "flushed", text |-> FinalText(text)]]
    /\ UnchangedJob /\ UNCHANGED narration

\* The row is flushed once no other request has one uncommitted, and refused
\* by narrations_explanation_kind_lang_uq (409) if there is one.
ComposeNarration(n) ==
    /\ narrator[n].pc = "composing"
    /\ \A o \in Narrators : narrator[o].pc # "flushed"
    /\ IF narration # NoText
       THEN narrator' = [narrator EXCEPT ![n] = [pc |-> "done", text |-> NoText]]
       ELSE \E text \in Paraphrase :
              narrator' = [narrator EXCEPT ![n] = [pc |-> "flushed", text |-> FinalText(text)]]
    /\ UnchangedJob /\ UNCHANGED narration

CommitNarration(n) ==
    /\ narrator[n].pc = "flushed"
    /\ narration' = narrator[n].text
    /\ narrator' = [narrator EXCEPT ![n].pc = "done"]
    /\ UnchangedJob

NarrationAgain(n) ==
    /\ narrator[n].pc = "done"
    /\ narrator' = [narrator EXCEPT ![n] = NoRequest]
    /\ UnchangedJob /\ UNCHANGED narration

-----------------------------------------------------------------------------
ExplainerSteps(e) ==
    TakeJob(e) \/ LookUp(e) \/ FlushExplanation(e) \/ CommitExplanation(e) \/ Acknowledge(e)

ExplainNext ==
    \/ \E e \in Explainers :
         ExplainerSteps(e) \/ ExplanationFails(e) \/ ExplainerCrashes(e) \/ DeliveredAgain(e)
    \/ \E n \in Narrators :
         AskNarration(n) \/ ComposeNarration(n) \/ CommitNarration(n) \/ NarrationAgain(n)

-----------------------------------------------------------------------------
(* Properties. *)

\* A prediction is explained once, though its job is delivered at least once
\* and two deliveries may both find no explanation.
ExplainedOnce == explained <= 1

\* A job that was sent ends in an explanation unless the computation itself
\* fails or its process is killed alone: the death of the whole worker, at any
\* point, loses nothing.
JobExplained == jobs > 0 ~> explained > 0 \/ lost

\* Whoever asks for a narration is told one text, the same for all and for
\* ever, and never one the audit refused: two requests that compose at the
\* same time, from different answers of the model, agree or one is refused.
OneNarration ==
    /\ narration \in {NoText, Template} \cup Faithful
    /\ \A n \in Narrators : narrator[n].pc = "done" => narrator[n].text \in {NoText, narration}

\* Everyone reads the same explanation of a prediction, in the same words.
ExplanationsAgree == ExplainedOnce /\ OneNarration
=============================================================================
