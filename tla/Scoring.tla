-------------------------------- MODULE Scoring --------------------------------
(***************************************************************************)
(* What the models are fed and what is made of their answers, on the edge  *)
(* (apps/edge/edge/features.py, onnx_infer.py) and on the platform         *)
(* (apps/api/app/modules/pdm/scoring.py), from the same machine's messages *)
(* over time.  The machine sends a message a second (sim/live.py) with the *)
(* sensors that have a good reading; the edge, which makes each a row of   *)
(* its window, may miss it, and the ingest consumer may store it late.     *)
(* The platform's window has a row for each bucket of SAMPLE_PERIOD_S.     *)
(*                                                                         *)
(* A reading is represented by the second it was taken in, the mean of a   *)
(* bucket by the readings it is of, and a feature by the rows of its       *)
(* sensor over the window.                                                 *)
(***************************************************************************)
EXTENDS Integers, Sequences, FiniteSets, FiniteSetsExt

CONSTANTS
    Sensors,      \* sensor_cols
    BucketSeconds,   \* SAMPLE_PERIOD_S
    WindowSize,
    Stride,       \* at most WindowSize
    RulCap,
    HalfWidths,   \* conformal_q of the bundles
    MaxTime,      \* bound: seconds
    MaxMissed     \* bound: messages the edge misses, messages stored late

ASSUME ScoringAssumption ==
    /\ BucketSeconds \in Nat \ {0} /\ WindowSize \in Nat \ {0} /\ Stride \in 1..WindowSize
    /\ RulCap \in Nat /\ HalfWidths \subseteq Nat /\ MaxTime \in Nat /\ MaxMissed \in Nat

VARIABLES
    sent,     \* the sensors read in each second so far
    missed,   \* the seconds whose message the edge has missed
    held,     \* those whose readings wait in the ingest consumer
    edge,     \* RollingWindow: rows, last readings, adds since it emitted, all its adds, those that emitted
    scored    \* the server's last prediction

scoringVars == <<sent, missed, held, edge, scored>>

NoReading == 0
Median    == {-1}   \* the training median of a feature
NoScore   == [end |-> 0, vector |-> <<>>, imputed |-> {}, partial |-> FALSE, confidence |-> "none", late |-> FALSE]
Labels    == {"high", "medium", "low"}
EdgeRow      == [Sensors -> 0..MaxTime]

ScoringTypeOK ==
    /\ sent \in Seq(SUBSET Sensors) /\ Len(sent) <= MaxTime
    /\ missed \cup held \subseteq 1..Len(sent)
    /\ edge.rows \in Seq(EdgeRow) /\ Len(edge.rows) <= WindowSize /\ edge.last \in EdgeRow
    /\ edge.adds \in 0..Len(sent) /\ edge.since \in 0..edge.adds /\ edge.emitted \subseteq 1..edge.adds
    /\ scored.confidence \in Labels \cup {"none"} /\ scored.end \in 0..Len(sent) /\ scored.imputed \subseteq Sensors

ScoringInit ==
    /\ sent = <<>> /\ missed = {} /\ held = {}
    /\ edge = [rows |-> <<>>, last |-> [s \in Sensors |-> NoReading], since |-> 0, adds |-> 0, emitted |-> {}]
    /\ scored = NoScore

-----------------------------------------------------------------------------
(* The edge. *)

\* Mutant: a sensor absent from the message is read as zero.
CarriedZero(last, present, now) == [s \in Sensors |-> IF s \in present THEN now ELSE NoReading]

\* "each sample carries every sensor forward from its last good value"; one
\* never seen is read as zero.
Carried(last, present, now) == [s \in Sensors |-> IF s \in present THEN now ELSE last[s]]

\* RollingWindow.add; handle_sample scores when a window is due.
Add(present, now) ==
    LET last  == Carried(edge.last, present, now)
        rows  == IF Len(edge.rows) < WindowSize THEN Append(edge.rows, last) ELSE Append(Tail(edge.rows), last)
        adds  == edge.adds + 1
        due   == Len(rows) = WindowSize /\ edge.since + 1 >= Stride IN
    IF \A s \in Sensors : last[s] = NoReading THEN UNCHANGED edge
    ELSE edge' = [rows |-> rows, last |-> last, adds |-> adds,
                  since |-> IF due THEN 0 ELSE edge.since + 1,
                  emitted |-> IF due THEN edge.emitted \cup {adds} ELSE edge.emitted]

-----------------------------------------------------------------------------
(* The platform: telemetry_window and feature_vector. *)
\* time_bucket and avg: the readings of a bucket.
Of(b)      == (BucketSeconds * (b - 1) + 1)..(BucketSeconds * b)
Mean(s, b) == {t \in Of(b) : t \in (1..Len(sent)) \ held /\ s \in sent[t]}
Has(s, b)  == Mean(s, b) # {}

Window(e)  == (e - WindowSize + 1)..e
Filled(e)  == Cardinality({k \in Window(e) : \E s \in Sensors : Has(s, k)})
Silent(e)  == {s \in Sensors : \A k \in Window(e) : ~Has(s, k)}

\* ffill, then bfill for the leading gap
Reading(s, k, e) ==
    LET before == {j \in Window(e) : j <= k /\ Has(s, j)}
        after  == {j \in Window(e) : j > k /\ Has(s, j)} IN
    Mean(s, IF before # {} THEN Max(before) ELSE Min(after))

Vector(e) ==
    [s \in Sensors |-> [k \in 1..WindowSize |-> IF s \in Silent(e) THEN Median ELSE Reading(s, e - WindowSize + k, e)]]

\* Mutant: the bucket in progress is in the window.
WindowEndNow(now) == now \div BucketSeconds + 1

\* _window_end: the last bucket that is over.
WindowEnd(now) == now \div BucketSeconds

-----------------------------------------------------------------------------
(* What is made of the estimator's answer, in whole units. *)
Clip(v) == IF v < 0 THEN 0 ELSE IF v > RulCap THEN RulCap ELSE v

\* A conformal_q of zero counts as none.
HalfWidth(q, point) == IF q = 0 THEN point \div 5 ELSE q

IntervalConfidence(width) ==
    IF 100 * width < 15 * RulCap THEN "high"
    ELSE IF 100 * width < 35 * RulCap THEN "medium" ELSE "low"

Rul(raw, q) ==
    LET point == Clip(raw)
        half  == HalfWidth(q, point) IN
    [low |-> Clip(point - half), point |-> point, high |-> Clip(point + half)]

\* score, on the platform; a bundle may have no forest
Score(task, raw, q, anomaly) ==
    [confidence |-> IF task = "rul" THEN IntervalConfidence(2 * HalfWidth(q, Clip(raw))) ELSE "medium",
     health |-> IF anomaly # "none" THEN anomaly ELSE IF task = "rul" THEN "share of the cap" ELSE "none"]

\* predict, on the edge
Predict(task, raw, q, anomaly) ==
    [confidence |-> IF task = "rul" THEN IntervalConfidence(2 * HalfWidth(q, Clip(raw))) ELSE "none",
     health |-> anomaly]

Lower(label) == IF label = "high" THEN "medium" ELSE "low"

\* Mutant: imputed features are named and change nothing.
QualifyReasonsOnly(label, imputed) == label

\* qualify: IMPUTED_SHARE_DOWNGRADE is a quarter.
Qualify(label, imputed) == IF 4 * Cardinality(imputed) > Cardinality(Sensors) THEN Lower(label) ELSE label

-----------------------------------------------------------------------------
\* run_live: a second's message reaches the edge or not, and is stored at once or
\* later.
MessageSent(present, lost, tardy) ==
    LET now == Len(sent) + 1 IN
    /\ now <= MaxTime
    /\ sent' = Append(sent, present)
    /\ (lost => Cardinality(missed) < MaxMissed) /\ missed' = IF lost THEN missed \cup {now} ELSE missed
    /\ (tardy => Cardinality(held) < MaxMissed)   /\ held' = IF tardy THEN held \cup {now} ELSE held
    /\ IF lost THEN UNCHANGED edge ELSE Add(present, now)
    /\ UNCHANGED scored

\* infer_asset, of a bundle with one of the half widths; MIN_WINDOW_FILL is a
\* half, and less than nine tenths of the window is partial.
ServerScores(q) ==
    LET e == WindowEnd(Len(sent)) IN
    /\ 2 * Filled(e) >= WindowSize
    /\ scored' = [end |-> e, vector |-> Vector(e), imputed |-> Silent(e), late |-> FALSE,
                  partial |-> 10 * Filled(e) < 9 * WindowSize,
                  confidence |-> Qualify(Score("rul", RulCap, q, "none").confidence, Silent(e))]
    /\ UNCHANGED <<sent, missed, held, edge>>

\* The consumer flushes what it held.
FlushHeld ==
    /\ held # {} /\ held' = {}
    /\ scored' = [scored EXCEPT !.late = @ \/ \E b \in Window(scored.end) : held \cap Of(b) # {}]
    /\ UNCHANGED <<sent, missed, edge>>

ScoringNext ==
    \/ \E present \in SUBSET Sensors, lost, tardy \in BOOLEAN : MessageSent(present, lost, tardy)
    \/ \E q \in HalfWidths : ServerScores(q)
    \/ FlushHeld

ScoringSpec == ScoringInit /\ [][ScoringNext]_scoringVars

-----------------------------------------------------------------------------
(* Properties. *)

\* "A reading carries forward until the next one, as on the edge": where a row
\* of the edge's window is of the last second of a bucket, both sides have there
\* the same newest reading of a sensor, one as the row and the other in the mean,
\* once it has been read in the platform's window, if since that began the edge
\* has missed nothing and nothing is late.  The windows are not the same: the
\* edge's rows are WindowSize seconds, the platform's as many buckets.
CarriedAlike ==
    LET now  == Len(sent)
        e    == WindowEnd(now)
        seen == (BucketSeconds * (e - WindowSize) + 1)..now IN
    (missed \cup held) \cap seen = {} =>
      \A s \in Sensors, k \in 1..Len(edge.rows), b \in Window(e) :
         /\ BucketSeconds * b = now - (Len(edge.rows) - k)
         /\ \E j \in Window(e) : j <= b /\ Has(s, j)
         => edge.rows[k][s] = Max(Vector(e)[s][WindowSize - (e - b)])

\* The edge scores the windows training would cut from the same rows: the first
\* full one and every Stride-th after it (rolling_windows).
SameWindows ==
    edge.emitted = {n \in 1..edge.adds : n >= WindowSize /\ (n - WindowSize) % Stride = 0}

\* "so the explainer can rebuild exactly this window later": whenever the
\* explanation is computed its vector is the one that was scored, unless the
\* consumer has stored a reading of the window in the meantime.
ExplainedAsScored == scored # NoScore /\ ~scored.late => Vector(scored.end) = scored.vector

\* A prediction from a window with more silent sensors, or more of a gap, than
\* is tolerated does not pass for one from a full window: what is invented does
\* not read as highly confident, and what an edge and a server make of one
\* answer is the same, where the edge tells it at all.
HonestConfidence ==
    /\ 4 * Cardinality(scored.imputed) > Cardinality(Sensors) => scored.confidence # "high"
    /\ scored # NoScore /\ ~scored.late /\ 10 * Filled(scored.end) < 9 * WindowSize => scored.partial
    /\ \A raw \in {0, RulCap \div 2, RulCap + 1}, q \in HalfWidths \cup {0} :
         LET rul == Rul(raw, q) IN
         /\ 0 <= rul.low /\ rul.low <= rul.point /\ rul.point <= rul.high /\ rul.high <= RulCap
         /\ Score("rul", raw, q, "score").health = Predict("rul", raw, q, "score").health
         /\ Score("rul", raw, q, "score").confidence = Predict("rul", raw, q, "score").confidence

\* Edge and platform carry readings forward alike, each scores the windows it
\* means to, and an answer is told with what it rests on.
ScoringSound == CarriedAlike /\ SameWindows /\ ExplainedAsScored /\ HonestConfidence
=============================================================================
