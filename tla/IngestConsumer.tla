----------------------------- MODULE IngestConsumer -----------------------------
(***************************************************************************)
(* The ingest consumer (apps/api/app/ingest/consumer.py): three threads of *)
(* one process and the database.  The MQTT thread turns each reading into  *)
(* a state event, a production delta and telemetry rows; the flush thread  *)
(* moves what the MQTT thread buffered into the database; the refresh      *)
(* thread reloads the caches.                                              *)
(*                                                                         *)
(* One asset is modelled: the per-asset dictionaries do not interact, the  *)
(* buffers are shared lists in any case.  A message stands for a DDATA     *)
(* payload: it carries the machine's state and its good_count, and yields  *)
(* one telemetry row named by the message's number.  The energy buffer is  *)
(* handled exactly as the production buffer and is not repeated.           *)
(***************************************************************************)
EXTENDS Integers, Sequences, FiniteSets, FiniteSetsExt, SequencesExt

CONSTANTS
    States,      \* the machine's states (VALID_STATES)
    BatchSize,   \* rows that make the MQTT thread flush (500)
    MaxMsgs,     \* bound: messages published
    MaxGood,     \* bound: parts the machine makes
    MaxRestarts  \* bound: consumer and simulator restarts

ASSUME IngestAssumption ==
    /\ BatchSize \in Nat \ {0}
    /\ MaxMsgs \in Nat /\ MaxGood \in Nat /\ MaxRestarts \in Nat

None == "none"      \* no state cached
NoCount == -1       \* no reading of the counter yet
ASSUME NoneIsNoState == None \notin States

VARIABLES
    machine,   \* the simulator: its state, its counter, the parts really made
    sent,      \* messages published so far
    mqtt,      \* where the MQTT thread is
    msg,       \* the reading it handles
    lock,      \* holder of _buffer_lock
    buffer,    \* _buffer: telemetry rows
    deltas,    \* _production_buffer, appended to and cleared without an owner
    last,      \* _last_state[asset], or None
    lastGood,  \* _last_counters[asset]["good_count"], or NoCount
    mapped,    \* the asset and metric maps have been loaded
    flusher,   \* where the flush thread is
    copy,      \* its local copies of the buffers
    refresh,   \* where the refresh thread is
    snap,      \* the last states it has read
    telemetry, production, events,  \* the tables, in insertion order
    dropped,   \* history: rows given up with a log line, or with the process
    restarts   \* bound

process == <<mqtt, msg, lock, buffer, deltas, last, lastGood, mapped, flusher, copy, refresh, snap>>
tables  == <<telemetry, production, events>>
vars == <<machine, sent, process, tables, dropped, restarts>>

Reading(id) == [id |-> id, state |-> machine.state, good |-> machine.good]
NoMsg   == [id |-> 0, state |-> None, good |-> NoCount]
NoCopy  == [rows |-> {}, deltas |-> {}]
Delta   == [id : 1..MaxMsgs, n : 1..MaxGood]

TypeOK ==
    /\ machine \in [state : States, good : 0..MaxGood, made : 0..MaxGood]
    /\ sent \in 0..MaxMsgs
    /\ mqtt \in {"idle", "rules", "state", "commit", "counters", "buffer", "extended", "flush"}
    /\ msg \in [id : 0..MaxMsgs, state : States \cup {None}, good : NoCount..MaxGood]
    /\ lock \in {"free", "mqtt", "flusher"}
    /\ buffer \subseteq 1..MaxMsgs
    /\ deltas \subseteq Delta
    /\ last \in States \cup {None}
    /\ lastGood \in NoCount..MaxGood
    /\ mapped \in BOOLEAN
    /\ flusher \in {"idle", "locked", "copied", "telemetry", "production"}
    /\ copy \in [rows : SUBSET (1..MaxMsgs), deltas : SUBSET Delta]
    /\ refresh \in {"idle", "maps", "loaded"}
    /\ snap \in States \cup {None}
    /\ telemetry \in Seq(1..MaxMsgs)
    /\ production \in Seq(Delta)
    /\ events \in Seq(States)
    /\ dropped \subseteq 1..MaxMsgs
    /\ restarts \in 0..MaxRestarts

\* start(): the caches are loaded before the client connects; an empty
\* database has no last state.
Init ==
    /\ machine \in [state : States, good : {0}, made : {0}]
    /\ sent = 0
    /\ mqtt = "idle" /\ msg = NoMsg /\ lock = "free"
    /\ buffer = {} /\ deltas = {} /\ last = None /\ lastGood = NoCount
    /\ mapped = TRUE
    /\ flusher = "idle" /\ copy = NoCopy /\ refresh = "idle" /\ snap = None
    /\ telemetry = <<>> /\ production = <<>> /\ events = <<>>
    /\ dropped = {} /\ restarts = 0

-----------------------------------------------------------------------------
(* The simulated machine. *)

Produce ==
    /\ machine.made < MaxGood
    /\ machine' = [machine EXCEPT !.good = @ + 1, !.made = @ + 1]
    /\ UNCHANGED <<sent, process, tables, dropped, restarts>>

ChangeState ==
    /\ \E s \in States \ {machine.state} : machine' = [machine EXCEPT !.state = s]
    /\ UNCHANGED <<sent, process, tables, dropped, restarts>>

\* A new engine starts its counters from zero.
RestartSimulator ==
    /\ restarts < MaxRestarts
    /\ machine' = [machine EXCEPT !.good = 0]
    /\ restarts' = restarts + 1
    /\ UNCHANGED <<sent, process, tables, dropped>>

-----------------------------------------------------------------------------
(* The MQTT thread: _process_message. *)

\* A DDATA arrives; without the caches nothing in it can be resolved.
Receive ==
    /\ mqtt = "idle" /\ sent < MaxMsgs
    /\ sent' = sent + 1
    /\ \/ mapped /\ msg' = Reading(sent + 1) /\ mqtt' = "rules" /\ UNCHANGED dropped
       \/ ~mapped /\ dropped' = dropped \cup {sent + 1} /\ UNCHANGED <<msg, mqtt>>
    /\ UNCHANGED <<machine, lock, buffer, deltas, last, lastGood, mapped, flusher, copy,
                   refresh, snap, tables, restarts>>

\* The thread gives the rest of the message up: on_message logs the exception.
Abandon ==
    /\ dropped' = dropped \cup {msg.id}
    /\ mqtt' = "idle" /\ msg' = NoMsg

\* The alarm rules run first; an alarm the database refuses raises out of
\* the handler.
EvaluateRules ==
    /\ mqtt = "rules"
    /\ \/ mqtt' = "state" /\ UNCHANGED <<msg, dropped>>
       \/ Abandon
    /\ UNCHANGED <<machine, sent, lock, buffer, deltas, last, lastGood, mapped, flusher,
                   copy, refresh, snap, tables, restarts>>

\* _handle_state_change: the cached state moves first ...
HandleStateChange ==
    /\ mqtt = "state"
    /\ IF last = msg.state
       THEN mqtt' = "counters" /\ UNCHANGED last
       ELSE mqtt' = "commit" /\ last' = msg.state
    /\ UNCHANGED <<machine, sent, msg, lock, buffer, deltas, lastGood, mapped, flusher,
                   copy, refresh, snap, tables, dropped, restarts>>

\* ... and the event is committed after it, or not.
CommitEvent ==
    /\ mqtt = "commit"
    /\ \/ /\ events' = Append(events, msg.state)
          /\ mqtt' = "counters"
          /\ UNCHANGED <<msg, dropped>>
       \/ Abandon /\ UNCHANGED events
    /\ UNCHANGED <<machine, sent, lock, buffer, deltas, last, lastGood, mapped, flusher,
                   copy, refresh, snap, telemetry, production, restarts>>

\* Mutant: a counter reset is not noticed.
CounterUnguarded(previous, current) == current - previous

\* Mutant: the value of a counter seen for the first time is counted.
CounterFromZero(previous, current) ==
    IF current < previous THEN 0 ELSE current - (IF previous = NoCount THEN 0 ELSE previous)

\* _counter_delta: the first reading and a counter that went back count 0.
CounterDelta(previous, current) ==
    IF previous = NoCount \/ current < previous THEN 0 ELSE current - previous

\* _handle_asset_metrics: the delta joins the production buffer, without the
\* buffer lock.
HandleCounters ==
    LET n == CounterDelta(lastGood, msg.good)
    IN  /\ mqtt = "counters"
        /\ lastGood' = msg.good
        /\ deltas' = IF n = 0 THEN deltas ELSE deltas \cup {[id |-> msg.id, n |-> n]}
        /\ mqtt' = "buffer"
        /\ UNCHANGED <<machine, sent, msg, lock, buffer, last, mapped, flusher, copy,
                       refresh, snap, tables, dropped, restarts>>

\* Mutant: the rows are added without the lock.
BufferRowsUnlocked ==
    /\ mqtt = "buffer"
    /\ buffer' = buffer \cup {msg.id}
    /\ mqtt' = "idle" /\ msg' = NoMsg
    /\ UNCHANGED <<machine, sent, lock, deltas, last, lastGood, mapped, flusher, copy,
                   refresh, snap, tables, dropped, restarts>>

\* with self._buffer_lock: self._buffer.extend(telemetry_rows)
BufferRows ==
    /\ mqtt = "buffer" /\ lock = "free"
    /\ lock' = "mqtt"
    /\ buffer' = buffer \cup {msg.id}
    /\ mqtt' = "extended"
    /\ UNCHANGED <<machine, sent, msg, deltas, last, lastGood, mapped, flusher, copy,
                   refresh, snap, tables, dropped, restarts>>

\* A full buffer is flushed under the lock: _flush_buffer starts by taking
\* the lock, a plain threading.Lock, which this thread holds already.
FinishMessage ==
    /\ mqtt = "extended"
    /\ \/ /\ Cardinality(buffer) < BatchSize
          /\ lock' = "free" /\ mqtt' = "idle" /\ msg' = NoMsg
       \/ /\ Cardinality(buffer) >= BatchSize
          /\ mqtt' = "flush"
          /\ UNCHANGED <<lock, msg>>
    /\ UNCHANGED <<machine, sent, buffer, deltas, last, lastGood, mapped, flusher, copy,
                   refresh, snap, tables, dropped, restarts>>

-----------------------------------------------------------------------------
(* The flush thread: _flush_loop, _flush_buffer, _insert. *)

FlushLock ==
    /\ flusher = "idle" /\ lock = "free"
    /\ lock' = "flusher" /\ flusher' = "locked"
    /\ UNCHANGED <<machine, sent, mqtt, msg, buffer, deltas, last, lastGood, mapped, copy,
                   refresh, snap, tables, dropped, restarts>>

FlushCopy ==
    /\ flusher = "locked"
    /\ copy' = [rows |-> buffer, deltas |-> deltas]
    /\ flusher' = "copied"
    /\ UNCHANGED <<machine, sent, mqtt, msg, lock, buffer, deltas, last, lastGood, mapped,
                   refresh, snap, tables, dropped, restarts>>

\* Mutant: the telemetry buffer is not cleared with the others.
FlushClearPart ==
    /\ flusher = "copied"
    /\ deltas' = {}
    /\ lock' = "free"
    /\ flusher' = IF copy = NoCopy THEN "idle" ELSE "telemetry"
    /\ UNCHANGED <<machine, sent, mqtt, msg, buffer, last, lastGood, mapped, copy, refresh,
                   snap, tables, dropped, restarts>>

FlushClear ==
    /\ flusher = "copied"
    /\ buffer' = {} /\ deltas' = {}
    /\ lock' = "free"
    /\ flusher' = IF copy = NoCopy THEN "idle" ELSE "telemetry"
    /\ UNCHANGED <<machine, sent, mqtt, msg, last, lastGood, mapped, copy, refresh, snap,
                   tables, dropped, restarts>>

\* Each table is its own transaction; a failed one is logged and given up.
InsertTelemetry ==
    /\ flusher = "telemetry"
    /\ \/ telemetry' = telemetry \o SetToSeq(copy.rows) /\ UNCHANGED dropped
       \/ copy.rows # {} /\ dropped' = dropped \cup copy.rows /\ UNCHANGED telemetry
    /\ copy' = [copy EXCEPT !.rows = {}]
    /\ flusher' = "production"
    /\ UNCHANGED <<machine, sent, mqtt, msg, lock, buffer, deltas, last, lastGood, mapped,
                   refresh, snap, production, events, restarts>>

InsertProduction ==
    /\ flusher = "production"
    /\ \/ production' = production \o SetToSeq(copy.deltas)
       \/ copy.deltas # {} /\ UNCHANGED production
    /\ copy' = NoCopy
    /\ flusher' = "idle"
    /\ UNCHANGED <<machine, sent, mqtt, msg, lock, buffer, deltas, last, lastGood, mapped,
                   refresh, snap, telemetry, events, dropped, restarts>>

-----------------------------------------------------------------------------
(* The refresh thread: _refresh_caches every 60 s. *)

LastEvent == IF events = <<>> THEN None ELSE Last(events)

\* The maps are assigned one by one; the last states are read only when none
\* is cached.
RefreshMaps ==
    /\ refresh = "idle"
    /\ mapped' = TRUE
    /\ refresh' = "maps"
    /\ UNCHANGED <<machine, sent, mqtt, msg, lock, buffer, deltas, last, lastGood, flusher,
                   copy, snap, tables, dropped, restarts>>

RefreshRead ==
    /\ refresh = "maps"
    /\ IF last = None
       THEN snap' = LastEvent /\ refresh' = "loaded"
       ELSE UNCHANGED snap /\ refresh' = "idle"
    /\ UNCHANGED <<machine, sent, mqtt, msg, lock, buffer, deltas, last, lastGood, mapped,
                   flusher, copy, tables, dropped, restarts>>

RefreshAssign ==
    /\ refresh = "loaded"
    /\ last' = snap
    /\ refresh' = "idle"
    /\ snap' = None
    /\ UNCHANGED <<machine, sent, mqtt, msg, lock, buffer, deltas, lastGood, mapped, flusher,
                   copy, tables, dropped, restarts>>

-----------------------------------------------------------------------------
(* The process. *)

\* What only the process holds.
InMemory == buffer \cup copy.rows \cup {m \in {msg.id} : m # 0}

\* A fresh process: start() loads the caches, or logs that it could not.
Fresh ==
    /\ mqtt' = "idle" /\ msg' = NoMsg /\ lock' = "free"
    /\ buffer' = {} /\ deltas' = {} /\ lastGood' = NoCount
    /\ flusher' = "idle" /\ copy' = NoCopy /\ refresh' = "idle" /\ snap' = None
    /\ \/ mapped' = TRUE /\ last' = LastEvent
       \/ mapped' = FALSE /\ last' = None

\* Killed (SIGTERM, OOM) and started again.
Kill ==
    /\ restarts < MaxRestarts
    /\ restarts' = restarts + 1
    /\ dropped' = dropped \cup (InMemory \ ToSet(telemetry))
    /\ Fresh
    /\ UNCHANGED <<machine, sent, tables>>

\* Ctrl-C: the exception leaves the message unfinished and releases the lock;
\* start() then flushes the buffers on its way out (or logs that it could not),
\* and what the flush thread has copied goes with the thread.
Interrupt ==
    /\ restarts < MaxRestarts
    /\ lock # "flusher"
    /\ restarts' = restarts + 1
    /\ \E saved \in {{}, buffer} :
         /\ telemetry' = telemetry \o SetToSeq(saved)
         /\ dropped' = dropped \cup (InMemory \ (saved \cup ToSet(telemetry)))
    /\ \E saved \in {{}, deltas} : production' = production \o SetToSeq(saved)
    /\ Fresh
    /\ UNCHANGED <<machine, sent, events>>

-----------------------------------------------------------------------------
Machine       == Produce \/ ChangeState \/ RestartSimulator
MqttThread    == Receive \/ EvaluateRules \/ HandleStateChange \/ CommitEvent
                 \/ HandleCounters \/ BufferRows \/ FinishMessage
FlushThread   == FlushLock \/ FlushCopy \/ FlushClear \/ InsertTelemetry \/ InsertProduction
RefreshThread == RefreshMaps \/ RefreshRead \/ RefreshAssign

Next == Machine \/ MqttThread \/ FlushThread \/ RefreshThread \/ Kill \/ Interrupt

Spec == Init /\ [][Next]_vars

\* The threads of a live process run.  The flush thread sleeps 250 ms between
\* two flushes, so the MQTT thread gets the lock in between.
Fairness ==
    /\ WF_vars(EvaluateRules \/ HandleStateChange \/ CommitEvent \/ HandleCounters \/ FinishMessage)
    /\ SF_vars(BufferRows)
    /\ WF_vars(FlushLock \/ FlushCopy \/ FlushClear \/ InsertTelemetry \/ InsertProduction)

FairSpec == Spec /\ Fairness

-----------------------------------------------------------------------------
(* Properties. *)

\* A message's telemetry row is in the message being handled, a buffer, the
\* flush thread's copy or the table, unless it was given up with a log line or
\* with the process: buffering under the lock loses no row.
TelemetryAccounted ==
    1..sent \subseteq InMemory \cup ToSet(telemetry) \cup dropped

\* No reading is inserted twice, whatever the flush thread, a kill or an
\* interrupt do between the copy of the buffers and the inserts.
InsertedOnce ==
    /\ \A i, j \in DOMAIN telemetry : i # j => telemetry[i] # telemetry[j]
    /\ \A i, j \in DOMAIN production : i # j => production[i].id # production[j].id

Counted(rows) == MapThenSumSet(LAMBDA r : r.n, rows)

\* Production is never over-counted: the deltas in the table and on their way
\* to it add up to no more than the parts made, across counter resets,
\* restarts and first readings.
NeverOvercounts ==
    Counted(ToSet(production) \cup deltas \cup copy.deltas) <= machine.made

\* "batches inserts (500 rows or 250 ms)" (ARCHITECTURE.md:1004): what is
\* buffered is handed to the flush.
RowsFlushed ==
    \A m \in 1..MaxMsgs : m \in buffer ~> m \notin buffer

\* "Write an event only when the state actually changes - the table stores
\* transitions" (_handle_state_change).
OnlyTransitions ==
    \A i \in 1..(Len(events) - 1) : events[i] # events[i + 1]
=============================================================================
