----------------------------- MODULE ProductionKpis -----------------------------
(***************************************************************************)
(* The KPIs of one asset over the day in progress (apps/api/app/modules/   *)
(* analytics: oee.py, repository.py, KpiService; workers/tasks/rollup.py)  *)
(* from its state events and its energy readings, which are stored late,   *)
(* in any order or never, and their rollup by workers that may overlap.    *)
(* The day is computed to its end, though it has not come yet.             *)
(***************************************************************************)
EXTENDS Integers, FiniteSets, FiniteSetsExt

CONSTANTS
    LastTime,        \* instants 0..LastTime; the day is DayStart to LastTime
    DayStart,
    Buckets,         \* TREND_BUCKETS
    RollupWorkers

ASSUME KpiAssumption == LastTime \in Nat /\ DayStart \in 0..(LastTime - 1) /\ Buckets \in Nat \ {0}

VARIABLES
    elapsed,    \* the present: instants before it are over
    events,     \* asset_state_events: the state reported at each instant, or NoEvent
    metered,    \* energy_readings: the instants one is stored of
    kpi,        \* kpi_values: the rows of the day, each with its value
    rollup      \* each rollup under way: the value it computed, or Resting

kpiVars == <<elapsed, events, metered, kpi, rollup>>

\* Of the states the table allows, UNKNOWN is reported by no machine.
States   == {"RUNNING", "IDLE", "DOWN", "MAINTENANCE"}
NoEvent  == "none"
Resting  == -1
Instants == 0..(LastTime - 1)

KpiTypeOK ==
    /\ elapsed \in 0..LastTime /\ metered \subseteq Instants
    /\ events \in [Instants -> States \cup {NoEvent}]
    /\ kpi \subseteq [start : Instants, run : 0..LastTime]
    /\ rollup \in [RollupWorkers -> {Resting} \cup 0..LastTime]

-----------------------------------------------------------------------------
(* AnalyticsQueryRepository and oee.py.  A duration is the event it begins *)
(* with and its length.                                                    *)
Reported == {t \in Instants : events[t] # NoEvent}

\* Mutant: only the events inside the period.
StateEventsInside(from, to) == {t \in Reported : from <= t /\ t < to}

\* state_events: and the one in force at its start
StateEvents(from, to) ==
    LET before == {t \in Reported : t < from} IN
    {t \in Reported : from <= t /\ t < to} \cup (IF before = {} THEN {} ELSE {Max(before)})

Later(s, t) == {u \in s : u > t}

\* Mutant: an event that began before the period is not clipped.
DurationsUnclipped(from, to) ==
    LET s == StateEvents(from, to) IN
    {[at |-> t, seconds |-> (IF Later(s, t) = {} THEN to ELSE Min(Later(s, t))) - t] : t \in s}

\* durations_from_events
Durations(from, to) ==
    LET s == StateEvents(from, to)
        From(t) == IF t > from THEN t ELSE from
        End(t)  == IF Later(s, t) = {} THEN to ELSE Min(Later(s, t) \cup {to}) IN
    {d \in {[at |-> t, seconds |-> End(t) - From(t)] : t \in s} : d.seconds > 0}

SecondsIn(states, from, to) ==
    MapThenSumSet(LAMBDA d : d.seconds, {d \in Durations(from, to) : events[d.at] \in states})

\* availability
RunTime(from, to)     == SecondsIn({"RUNNING"}, from, to)
PlannedTime(from, to) == SecondsIn(States \ {"MAINTENANCE"}, from, to)

\* downtime_pareto, before it is cut to the first causes
Downtime(from, to) == SecondsIn({"DOWN", "IDLE"}, from, to)

\* The subquery of idle_energy: the state in force at an instant.
InForce(t) ==
    LET until == {u \in Reported : u <= t} IN IF until = {} THEN NoEvent ELSE events[Max(until)]

\* The sum over the readings there are, a unit each.
IdleEnergy(from, to) == Cardinality({t \in metered : from <= t /\ t < to /\ InForce(t) \in {"IDLE", "DOWN"}})

\* _oee_trend
TrendBucket(from, to, b) ==
    LET step == (to - from) \div Buckets IN RunTime(from + step * b, from + step * (b + 1))

-----------------------------------------------------------------------------
KpiInit ==
    /\ elapsed = 0 /\ events = [t \in Instants |-> NoEvent] /\ metered = {}
    /\ kpi = {} /\ rollup = [w \in RollupWorkers |-> Resting]

\* The consumer stores a state change, of now or of a while ago.
EventStored(t, state) ==
    /\ t <= elapsed /\ events[t] = NoEvent
    /\ events' = [events EXCEPT ![t] = state]
    /\ UNCHANGED <<elapsed, metered, kpi, rollup>>

\* It stores what was drawn in an instant that is over, late or never.
ReadingStored(t) ==
    /\ t < elapsed /\ t \notin metered
    /\ metered' = metered \cup {t}
    /\ UNCHANGED <<elapsed, events, kpi, rollup>>

TimePasses ==
    /\ elapsed < LastTime /\ elapsed' = elapsed + 1
    /\ UNCHANGED <<events, metered, kpi, rollup>>

\* KpiService.rollup: _compute_production over the day in progress, to its end,
ComputeProduction(w) ==
    /\ rollup[w] = Resting /\ DayStart <= elapsed /\ elapsed < LastTime
    /\ rollup' = [rollup EXCEPT ![w] = RunTime(DayStart, LastTime)]
    /\ UNCHANGED <<elapsed, events, metered, kpi>>

NewValue(w) == [start |-> DayStart, run |-> rollup[w]]

\* then upsert_many by time, period, scope and code.
Upsert(w) ==
    /\ rollup[w] # Resting
    /\ kpi' = {r \in kpi : r.start # DayStart} \cup {NewValue(w)}
    /\ rollup' = [rollup EXCEPT ![w] = Resting]
    /\ UNCHANGED <<elapsed, events, metered>>

RollupFails(w) ==
    /\ rollup[w] # Resting
    /\ rollup' = [rollup EXCEPT ![w] = Resting]
    /\ UNCHANGED <<elapsed, events, metered, kpi>>

KpiNext ==
    \/ \E t \in Instants : ReadingStored(t) \/ \E state \in States : EventStored(t, state)
    \/ TimePasses
    \/ \E w \in RollupWorkers : ComputeProduction(w) \/ Upsert(w) \/ RollupFails(w)

KpiSpec == KpiInit /\ [][KpiNext]_kpiVars

-----------------------------------------------------------------------------
(* Properties. *)

\* The two computations of downtime, the spans computed from the events,
\* clipped to the period and completed with the one in force at its start, and
\* the database's state at every single reading, agree over every window all of
\* whose readings are stored, and no later event makes them differ.  Over any
\* other, such as the day in progress, the spans are never the less: the last
\* state lasts to the window's end, be it past the present.
DowntimeAgrees ==
    \A from \in Instants : \A to \in (from + 1)..LastTime :
       /\ IdleEnergy(from, to) <= Downtime(from, to)
       /\ from..(to - 1) \subseteq metered => IdleEnergy(from, to) = Downtime(from, to)
       /\ PlannedTime(from, to) = RunTime(from, to) + Downtime(from, to)

\* The buckets of the trend, each computed on its own, account for the run
\* time of the whole window and no more, though a state lasts through several.
TrendAddsUp ==
    \A from \in Instants : \A to \in (from + 1)..LastTime :
       (to - from) % Buckets = 0 =>
         RunTime(from, to) = MapThenSumSet(LAMBDA b : TrendBucket(from, to, b), 0..(Buckets - 1))

\* "re-running it for an open period refines the numbers instead of duplicating
\* them": overlapping rollups leave one row of the day.
OneRow == Cardinality(kpi) <= 1

\* What the screens show of a day that has been read is the same, whichever way
\* it is summed.
KpisAgree == DowntimeAgrees /\ TrendAddsUp /\ OneRow
=============================================================================
