# TwinVoice in TLA+

This directory specifies TwinVoice, the digital twin of a machining plant kept in this
repository: the simulated machines and what they publish, what reaches the database from them and
from the edge, what operators, voice and background tasks do with it, and what is computed from it. The
modules are translated from the source; paths below are relative to the repository's root.

* [Reading the modules](#reading-the-modules)
* [Inventory](#inventory)
* [Modules and the code they model](#modules-and-the-code-they-model)
* [Runs, bounds, fairness](#runs-bounds-fairness)
* [What the runs found](#what-the-runs-found)
* [Proofs](#proofs)
* [Plan](#plan)
* [Not modelled, and deviations without a run](#not-modelled-and-deviations-without-a-run)

## Reading the modules

```
tlc -workers 2 -config Services.cfg Services.tla     # a run: one module, one .cfg
tlapm RegistryProofs.tla                             # the proofs of one module
```

| component | modules | checked in | proofs |
|---|---|---|---|
| edge store-and-forward | `EdgeOutbox`, `PredictionDelivery` (its promise) | `edge_outbox` | `EdgeOutboxProofs` |
| ingest consumer | `IngestConsumer` | `ingest` | `IngestConsumerProofs` |
| alarms | `AlarmLifecycle` | `background` | `BackgroundProofs` |
| twin commands and work orders | `TwinCommand`, `WorkOrders` (composes it) | `work_orders` | `WorkOrdersProofs` |
| read-back protocol of VoiceNav | `VoiceAction` | `services` | `ServicesProofs` |
| dialogue and utterance routing | `VoiceDialogue` | `services` | `ServicesProofs` |
| a simulated machine, its engine and runtime | `PlantSimulation`, `MachineSignals`, `ScenarioCatalog` | `services` | `SimulatorProofs` |
| Sparkplug edge node | `SparkplugNode` | `services` | `SimulatorProofs` |
| control of the simulator | `ScenarioRuns` | `services` | `SimulatorProofs` |
| model registry | `ModelRegistry` | `services` | `RegistryProofs` |
| jobs on models | `ModelJobs` | `background` | `BackgroundProofs` |
| training and bundles | `Training` | `services` | `ServicesProofs` |
| feature windows and scoring | `Scoring` | `services` | `ServicesProofs` |
| edge-first inference | `Inference` | `background` | `BackgroundProofs` |
| explanations and narrations | `Explanations` | `background` | `BackgroundProofs` |
| reports and schedules | `Reports` | `background` | `BackgroundProofs` |
| assets and the twin store | `AssetRegistry` | `services` | `RegistryProofs` |
| maintenance plans | `MaintenancePlans` | `services` | `RegistryProofs` |
| shifts, tariffs, periods | `ShiftCalendar` | `services` | `RegistryProofs` |
| KPIs and their rollup | `ProductionKpis` | `services` | `RegistryProofs` |
| what-if | `WhatIf` | `services` | `SimulatorProofs` |
| live updates to the browser | `LiveUpdates` | `services` | `RegistryProofs` |

`Services` and `BackgroundWork` put components side by side that share no state in the models:
a variable `part` says which one runs, the others rest in their initial state (`Only`). So the
state space is the sum of theirs, not the product, and one run asks one question of many: in
`BackgroundWork`, whether work that was begun comes to an end (its components come with fairness); in `Services`, whether
what is shown and stored is right. A proof module holds the components that are reasoned about in the same way;
`ServicesProofs` and `BackgroundProofs` end with the composition. `DataLemmas` is what they all cite about
numbers, sums and quotients.

Conventions. A model keeps one instance of what does not interact with other
instances (one rule, one session, one prediction) and says so in its
header. A request handler is cut where other threads can see or disturb it: at
each read it decides on and at each commit. A worker's record (`request`, `job`, `edit`, `promotion`) holds what
it has *read*; a commit writes on the strength of that. A history variable is
marked *history*, a bound *bound*. A definition headed "Mutant:" is a plausible bug of the
definition it stands before; nothing uses it. It is what a property is tried
against: with the mutant in place of the original, TLC must find the property
violated.

## Inventory

State that survives is in PostgreSQL unless said otherwise. "Hard" names what makes the
component hard to test; the hazards are listed at their lines in `PROJECT.json`.

### Data path

**Edge store-and-forward** (`apps/edge/edge/runner.py`, `buffer.py`). State: a SQLite
table of queued predictions, a `connected` flag, a drain lock, and the MQTT client's memory.
Operations: `handle_sample` (score a window, publish), `publish` (send now, else queue), `drain` (replay
oldest first, delete each row once sent), connection callbacks. Hard: the network thread and drain threads race
over the table; connections come and go between any two steps; power cuts. Correct
when predictions reach the broker in order, the platform keeps none twice, none disappears between the two except by a power cut, and what is queued leaves on reconnect.

**Ingest consumer** (`apps/api/app/ingest/consumer.py`). State: row buffers under a lock,
production and energy buffers without one, caches of the last state and counters per asset, and
the tables. Operations: a message (alarm rules, state event, counter deltas, buffering), a flush
(every 250 ms, or at 500 rows), a refresh of the caches (60 s), start, stop. Hard: three
threads, per-table transactions that fail alone, crashes. Correct when no row is lost
unaccounted or inserted twice, production is not over-counted, the event table holds
transitions, and buffered rows get flushed.

**Alarms** (`ingest/alarm_engine.py`, `consumer.py`, `modules/telemetry`). State: alarm rows. Operations: raise
with dedupe (consumer); ack, assign, comment, shelve, bulk-ack (API, voice). Hard: check-then-insert,
read-decide-write requests at READ COMMITTED. Correct when one alarm at most is active
per rule and asset, a lasting violation has an open alarm, an answered alarm stays answered, shelving suppresses.

**Sparkplug edge node of the simulator** (`apps/simulator/sim/publisher.py`).
State: sequence number and bdSeq (mod 256), the devices born, the last values, the will. Operations: publish a device, rebirth on
connect, on NCMD or when a scenario starts, disconnect (new bdSeq, new will). Hard: three threads; `connected` is read and the values
are stored before the lock is taken. Correct when numbers have no gap, data follow births, and the will is of the births of its connection.

**Plant simulation** (`sim/machines`, `engine.py`, `live.py`, `sensors.py`, `noise.py`, `production.py`, `catalog.py`,
`api.py`, `commands.py`). State: machines with their wear, sensors with their faults, counters, scenarios, the clock,
under one lock. Hard: sequences of faults, resets and changes of shift that lead back to work with a failed
component; faults that expire; parts cut into steps. Correct when a machine that is down is so for a failed component, none runs failed, a
lying sensor is reported, parts are counted once, and what the catalog accepts the engine applies, but for a duration or an empty name.

**Control of the simulator** (`modules/simulation`). State: `scenario_runs`, one row open at a time, and audit rows, beside
the simulator's own memory. Operations: start and stop a scenario, export, faults, speed. Hard: the call goes out before the
commit; overlapping starts; the simulator restarts and forgets. Correct when the record is of what was done.

**Simulator side outputs** (export, replay, Modbus, OPC UA). No state that outlives a call. *Not modelled.*

### Operators

**VoiceNav** (`modules/voice`, `packages/nlu`). State: voice actions (pending, confirmed, executed, ...), each with a 10 s
window; the context of a session, which lapses after two minutes. Operations: a turn (expire what is stale,
route, fill in from the context, answer, ask, or read back; handle control words), confirm and cancel over
REST. T2 tools commit database rows; T3 tools post to the simulator and need a PIN.
Hard: several tabs and spoken words act on one row with no lock; overlapping turns write the whole context; the clock is read at
several points; a tool commits on its own. Correct when an action is done once, never after
its window, never without the confirmation, its outcome is final, and it is about what was meant.

**Twin write-back** (`modules/twin/commands.py`, `service.py`, `sim/commands.py`). State: `_pending` (ids
waited for, with an event and an ack), commands and acks on the wire. Operations: `execute`
(register, publish, wait with timeout), `_on_message`, the machine's `handle_command`. Hard: acks late, lost, duplicated, of someone else's command. Correct when an answer reported is the machine's answer to that command.

**Work orders and plans** (`modules/maintenance`, `workers/tasks/maintenance.py`). State: orders
(open, scheduled, in_progress, closed, cancelled), the active schedule and its items. Operations: create, raise from a
prediction (task), edit, optimise (CP-SAT, seconds), close (with a `maintenance_reset` sent between update
and commit), drag an item of the plan. Hard: stale reads, partial unique indexes as only arbiters, a
remote call inside a transaction, the sweep for conflicts. Correct when one automatic order per asset and mode is open, a closure
follows the machine's answer, a closed order stays closed, the row lock is let go, one plan is active and its conflicts are known.

**Assets and the twin store** (`modules/assets`, `core/ditto.py`, `modules/twin/service.py`). State: asset rows and Ditto things.
Operations: create, clone, import, update, retire, add a component: flush, call Ditto, commit. Hard: the remote call is inside the
transaction; updates overlap. Correct when the store has every asset, a retired thing is closed, and the two agree.

**Live updates** (`core/ws_hub.py`, `apps/web/src/lib/ws.ts`). State: sockets and topics on the server;
topic counts, generation, timer in the browser. Hard: an awaited token against stop and start, handlers that come while none is open. Correct when
the server knows what the pages want and there is one socket.

**Simulation of what-ifs** (`modules/twin/whatif*.py`). No state of its own; the machine goes on meanwhile. Correct when both arms are
of one machine at one time and the numbers of an answer agree.

### Models and background tasks

**Model registry and its jobs** (`modules/pdm`, `workers/tasks/{benchmark,insights}.py`). State: versions with a
stage, metrics, benchmark rows. Hard: overlapping promotions under one partial unique index; a row committed before its job is sent;
delete-and-insert of metrics. **Training** (`tasks/train.py`, `packages/pdm/.../bundle.py`, `edge/export_models.py`). State: bundles
of files, rows, the copy on a device. Hard: a training killed half-way or in the middle of a file, two in one second, a copy interrupted.
**Inference and scoring** (`tasks/infer.py`, `pdm/scoring.py`, `edge/features.py`, `onnx_infer.py`). State: the edge's window, readings
that arrive late. Hard: two implementations of one window; the edge goes quiet while a run is under way. Correct when both sides
carry a reading forward alike, an answer says what it rests on, and the server takes over.
**Explanations** (`modules/xai`, `tasks/explain.py`): one per prediction under redelivery, one narration for all.
**Reports** (`modules/reports`, `tasks/report.py`): queued, running, done; schedules with `last_run_at`. Hard: a crash between the commit, the
enqueue and the mark.
**Production and energy analytics** (`modules/analytics`, `tasks/rollup.py`, `sim/shifts.py`): state durations computed in two ways, late
events, shifts through midnight, upserts that overlap.

**Authentication, audit and common CRUD**, **web application**, **deployment**: one transaction per change with its audit row,
screens, configuration. *Not modelled*; their effects appear as choices of the modules above.

### How they interact

```
 simulator ──DDATA──▶ ingest consumer ──rows──▶ PostgreSQL ◀──requests── API ◀── browser, voice
     │                    ▲   └─ alarms            ▲                      │  │
     └─ samples ─▶ edge ──┘ predictions            └── tasks (Celery)     │  └──▶ Ditto (things)
     ▲──────────────── commands / acks (MQTT), control (HTTP) ────────────┘
```

The broker, the database, Ditto, Celery's queue and the solver are environments: the
modules keep of them what the code relies on. QoS 1 resends and QoS 0 does not; READ COMMITTED with row locks, where a
statement works on the rows committed when it began and looks again at those it had to wait for; unique indexes; `acks_late`
(a job is delivered again when its worker dies, and not when only the process that ran it does); `expire_on_commit=False` (an
object keeps what it loaded); an answer may be lost after the deed; a plan satisfies the solver's constraints.

## Modules and the code they model

`PROJECT.json` maps every definition to its lines; this is the correspondence in words.

**EdgeOutbox.** `net` is where paho's network thread is inside `publish`, `drain`/`rows`/`row` where
the drain thread holding `_drain_lock` is, `waiting` the threads behind it. `CheckPending`,
`SendNow` and `Enqueue` are the three steps of `publish`; `DrainFetch`, `DrainSend`, `DrainDelete` those of
`StoreAndForward.drain`. `connected` (the flag) and `sock` (the truth) differ between a break and its
callback. `flight` is the client's memory of QoS 1 messages: taken means *there*, not *delivered*.
`Deliver` is the broker and the ingest side: what arrives is acknowledged whatever the consumer then does, which is to keep it
(`Keep`; `store_edge_prediction` ignores an id it holds) or not (`Drop`: unknown model or asset, invalid payload, database error, consumer down).
`reached` is what the broker was given, `stored` the platform's rows, `refused` what was dropped. `PredictionDelivery`
is the promise without any of it: make, save, release oldest first, arrive in order, lose only
what is neither saved nor arrived; of what arrived the platform keeps what it likes, once.

**IngestConsumer.** One action per step of each thread, named after its function. The buffers are sets
of message numbers, `lock` is `_buffer_lock`; production deltas are appended *without* it, as the code
does. `FinishMessage` leads to `"flush"`, where the thread waits for the lock it holds: no action
leaves that state but `Kill` and `Interrupt`. `HandleStateChange` and `CommitEvent` are apart because the
cache moves before the commit. `Kill` drops the memory; `Interrupt` (Ctrl-C) also runs the
final flush of `start()`, at any point where the flush thread does not hold the lock. The Ditto and Valkey calls are best effort
and left out; the energy buffer is the production buffer again.

**AlarmLifecycle.** The consumer's `Evaluate`, `Dedupe`, `RaiseAlarm` are three steps: the check and
the insert are separate statements. `ReadAlarm` and `CommitAction` are a request's two ends; `Written`
is SQLAlchemy's rule that only columns that differ from the row as read are written, so an assignment
leaves the status alone although it "sets" it. `BulkAck` is one conditional UPDATE.

**VoiceAction.** `StartTurn` reads (stale rows, the newest pending action), the turn's other actions
write; `stale` are the rows `expire_stale` will expire with the turn's commit. `OpenConfirm`/`ConfirmSpoken` read
the row, then the clock; `ToolRecords` is a T2 tool's own commit, which carries the status `confirmed`
with it; `ToolPosts` a T3 tool's call, before any commit, its row locked until `Finish`. A spoken
confirmation carries no PIN. `Lapse` closes a window, `Crash` rolls a request back.

**VoiceDialogue.** One session. A turn holds the context it read at its start and writes all of it at its end, so two tabs
overwrite each other. What was said is tagged with the *era*, a count of the silences of two minutes, so that a value that outlives its silence
is seen. The control words are the code's list; what a template understands, which of several readings and machines is taken,
spoken times and periods are operators over what the stages may find.

**TwinCommand, WorkOrders.** `TwinCommand` holds the variables and actions of the gateway, the wire and the
machine; `WorkOrders` extends it and calls `Execute` and `Return` from the closure. A command refused for want of a connection may
still go out later (paho keeps QoS 1 messages). `Locked` are rows a closure has updated and not
committed; writers wait for them. `Write` is a commit through the partial unique index
`work_orders_open_mode_uq`: refused, it changes nothing. `OptimiseRead`/`OptimiseCommit` are
`optimise` around its solver; `RaiseCheck`/`RaiseOrder` the predictive task.

**PlantSimulation, MachineSignals, ScenarioCatalog.** Damage is a level, so wear, sudden faults, resets, repair and the change of
shifts are steps between levels; every operation holds the runtime's lock and is one action. A snapshot's `age` says how long ago it was
computed. A sensor's reading is the true value under the faults in force (bias, drift, stuck, dropout), the spikes and noise one unit of
disturbance. `ScenarioCatalog` validates a scenario's events with the code of the catalog and applies them with the engine's:
`refused` collects what the engine raised on.

**SparkplugNode.** Three threads: paho's callbacks, a request's rebirth, the live loop. The check for a connection and the store of the
last values are steps outside the lock. `RebirthRaises` is Python's RuntimeError for a dictionary that grew while it was iterated: it
ends the client's thread. `session` is what a host has seen of the present connection, at QoS 0.

**ScenarioRuns.** A request calls the simulator, then writes; a start closes the open rows in one UPDATE that does not see a row another start has yet
to commit. Answers are lost and commits fail; the simulator restarts. `done` and `trail` count what was done and what is audited.

**ModelRegistry, ModelJobs.** The versions are of one name and two keys, the plant-wide one and one asset's. A promotion is read, one UPDATE that archives (its victims found first, then taken row by row), a flush that waits for
the rows of its key, and a commit. A benchmark's row, its job and its end are apart: the request may die between its commit and the job, or in marking
the failure, and the task may raise before its `try` or at its commit, which leaves the row as it was; two computations of insights find, delete and insert.

**Training.** A training writes its files one after the other, `bundle.json` when the code does, then registers; it may be killed at every file, and between
opening `bundle.json`, which empties it (`Torn`), and writing it. The version is the
second it began in. An export copies files in the code's order and may leave the one it is at torn; `LatestBundle` is the runner's choice, which looks at no content.
`MaxMishaps` bounds the trainings killed, the exports interrupted and the trainings begun in a second that is taken.

**Scoring, Inference.** A reading stands for the second it was taken in and the mean of a bucket for the readings it is of; so a feature is the list of
what its window has. The edge's window has a row per message, one a second, the platform's one per bucket of `SAMPLE_PERIOD_S`; `CarriedAlike` compares the rows
that are of one moment. `Inference` has the clock, the age of the edge's last prediction as the task sees it, and the two writers.

**Explanations, Reports.** Jobs with redelivery: `jobs` counts the copies on the queue; a crash of the worker puts one back, a killed process
(`lost`) does not. A report's row, its send, its worker's two commits and the sweep's mark are separate steps; marking a failure may itself fail, since the
session was not rolled back.

**AssetRegistry.** A worker's `held` is the object it loaded and edits; `Committed` writes the changed columns only, `Synced` sends the fields it
holds. `Locks` are the rows a flush has written. A refusal of the store, or a lost answer after the store took it, rolls back.

**MaintenancePlans.** `Solutions` are all plans that satisfy the solver's constraints, in slots; an item's row has times, and a drag takes it to any
start and end. Two optimisers deactivate and activate. `Conflicts` is what the code's
sweep over the sorted items finds, which rounds times down to slots (`SlotOf`) and stops early: an item meets those that come later in the order and start before
it ends. `ConflictsFound` says that it reports only pairs that collide, and all that collide for a slot's length or more.

**ShiftCalendar, ProductionKpis.** A small week of hours, with the code's weekday and midnight rules for the simulator and for the rollup. Events arrive in any
order; `elapsed` is the present, `metered` the energy readings stored so far, late or never; `Durations` is `durations_from_events`, which runs the last state to the end
of the window, `InForce` the database's lateral join over the readings there are.
`Instances` are the shifts' beginnings and ends on the day of the instant and the day before, which is as far as the code looks.

**LiveUpdates.** `gen` is the browser's generation, `asking` the token requests under way in each; a socket's `inbox` are the messages the hub has not read.

**WhatIf.** A machine is a few parts that wear; the clone is read once, then both arms are drawn part by part while the machine wears on.
A draw is the mean life times the shock of its trial; the distribution is the list of where the trials ended, and a percentile interpolates
between two of it, as numpy does. Lives are counted in quarters and rounded down; `2 * l <= 4 * shock` in `WhatIfAssumption` is the *granularity* that
keeps rounding from ending a part that lives.

## Runs, bounds, fairness

The comment on each property, in its module, quotes the behaviour it is about.

| run | bounds | states | shows |
|---|---|---|---|
| `edge_outbox` | 3 predictions, batch 2, 2 waiting drains, 2 kept | 352 k | order at the broker and in the rows, no duplicate; at most the oldest row resent; everything accounted for; replay on reconnect; refinement of `PredictionDelivery` |
| `ingest` | 2 states, batch 2, 3 messages, 1 part, 1 restart | 1.08 M | every row accounted for, none inserted twice, production never over-counted |
| `work_orders` | 2 orders, 2 workers, 4 jobs, 2 commands, each run once | 652 k | closures follow the machine's answer; answers true; row locks let go |
| `background` | 2 workers of each kind; 4 alarm requests, 2 computations of insights, 3 answers of the language model, 2 crashes, 2 reports over 3 minutes, 1 kill | 123 k | alarms are raised, answered and shelved for good; pages are never emptied and tell one text; jobs settle unless abandoned; the server takes over from a quiet edge |
| `services` | see `Services.cfg` | 734 k | the sixteen components named in the table above |

Runs that end in a counterexample, each to one property the repository states:
`edge_stranded`, `edge_power_cut`, `ingest_deadlock`, `alarm_shelving`, `voice_twice`, `voice_slower`,
`work_order_reopened`, described in the next section. They use the smallest bounds that show it.

*What `services` asks of each component.* `PendingNotDone`, `WalkedAway`, `SettledForGood` of voice actions; `DialogueSound` of dialogues
(nothing revived after a silence, no actuation without its PIN, the machine meant, spoken times ahead); `SimulatorSound` of the simulator's machines, sensors,
scenarios and their record; `DeathMatchesBirth` and `NodeStream` of the Sparkplug node; `RegistrySound` and `TrainingSound` of models; `ForecastSound` of the readings a model is
fed and of what-ifs; `TwinsSound` and `RetiredIsReadOnly` of assets; `LiveSound` of the browser's socket; `PlansSound` of plans; `TimeAgrees` of
shifts and KPIs. A property that joins several is a conjunction of named ones, each with its own comment in its module and at least one mutant.

*Why these bounds reach the interesting cases.* Three predictions over batches of two make a drain read twice and let a
direct send meet rows read and not yet sent; two waiting drains let one queue behind another. A
batch of two and three messages fill the buffer and leave one over; one restart splits any two steps
once. Two workers are enough for every lost update, since each is two transactions meeting;
four requests let a bulk acknowledgement follow an overlap. Two voice actions give a newer
one to take the older's place as "the pending one", two effects let an action run twice. Two orders
are what an index on open automatic orders needs to refuse; two commands let the answer to one come in
while the other is waited for; jobs are four so that a create, a raise, an edit and a closure can meet.
In `services`: two components of a machine let one be reset while the other is what failed; a modulus of 4 makes
numbers wrap within a session; three sockets let one open while one closes and one is still known to the hub; three edits are two that
overlap and one after; four promotions over three versions of two keys let two wait for each other; three orders
on two lines with two technicians make a sweep stop early past a pair that collides; slots of two units let items overlap within one; three days of three hours have a night at the end of the week;
a window of two buckets of two seconds in four seconds has a full window on both sides, a stride and a late reading (five seconds, checked apart, show nothing else); two trials have a median between two lives, as the even number the code draws has, a horizon of 8 quarters lies
between two draws. The bounds of numbers in operators (scores, spoken hours, `rul` values) are chosen at and around the code's thresholds.

*Deadlock* is checked except in `work_orders`, `background` and `services`, where requests, commands
and messages are bounded and run out, which says nothing of the code.

*Fairness.* Nothing forces the environment: no link breaks, no
prediction is made, no power fails, no operator acts and no worker dies by necessity.
* `EdgeOutbox`: the network thread finishes `publish`, the drain threads run, paho reconnects (`loop_forever`
  with `reconnect_delay_set`), an up link carries messages.
* `IngestConsumer`: the threads of a live process run; the MQTT thread gets the
  lock infinitely often free (strong fairness) since the flush thread sleeps 250 ms between flushes.
* `AlarmLifecycle` (`AlarmsRun`): the machine reports every second, so a consumer step that stays
  possible is taken, and requests under way commit. Inserts may fail `MaxFailures` times.
* `WorkOrders`: a wait with a timeout returns and the request goes on to its commit. Nothing is
  assumed of the machine or the wire.
* `JobsRun`, `ExplainersRun`, `ReportsRun`: a worker takes what is queued and goes on with what it has begun; Celery delivers the jobs of a
  dead worker again. `InferenceRuns`: the clock goes on and the beat starts a scoring run while it may.
* `Services` states safety only.

## What the runs found

Each is a disagreement between what the repository says and what the code does.

1. `edge_stranded`: `publish` queues whenever anything is queued, and only a new connection starts a drain. A
   prediction queued after the drain's last SELECT, or after one refused send, stays queued while
   the broker is reachable, and so does every later one.
2. `edge_power_cut`: a row is deleted when paho has the message in memory; a power cut before the broker has it loses a
   *queued* prediction, which buffer.py's docstring excludes. (Order and no-duplicate hold all the same.)
3. `ingest_deadlock`: at 500 rows the MQTT thread flushes while it holds `_buffer_lock`, a plain
   `threading.Lock` the flush takes again. It waits for itself and the flush thread for it, for good.
4. `alarm_shelving`: the dedupe query ignores shelved alarms, so the next violating message raises
   a new one for the shelved issue.
5. `voice_twice`: two confirmations that have both read the pending row both run the tool.
6. `voice_slower`: "slower" is a control word, and every control word but "repeat" and "cancel" confirms: said to a
   read-back, it executes it.
7. `work_order_reopened`: an edit or a plan decided on rows read before a closure
   writes its status after it: the closed order is open, its reset sent.

## Proofs

`tlapm` proves every invariant the passing runs check, and every action property, for all values of the constants that the
modules' named assumptions allow. Most assumptions say only that bounds are naturals and that a batch, window, modulus or rate is not 0; or
that a value that stands for "none" is none of the others (`NoModel`, `NoSocket`, `NoText`). TLC evaluates
them in every run that extends the module. Those that say more:

* `CalendarAssumption`: a week has two days or more. The code searches the day before and a week for the next change; in a week of one day that
  would end with today and miss tomorrow's shift. The code has seven.
* `ScoringAssumption`: a bucket has a second or more; `Stride \in 1..WindowSize`, as every `FeatureSpec` the code makes has it (the default is 10 of 60; nothing checks it).
* `KpiAssumption`: the day begins before the last instant; `PlanAssumption`: an order takes at least one slot (`max(1, ...)` in
  optimiser.py) and a slot takes time; `SignalAssumption`: a sensor's range is not empty and the mark for a missing reading is not in it.
* `WhatIfAssumption`: `Trials` and `Horizon` are positive (the request's `gt=0`; the code's default is 500 trials, so nothing is
  said of an odd number), and the granularity named above.
* `CatalogAssumption`: a failure mode is not also a kind of sensor fault; `RunAssumption`: workers are finitely many, since they are counted.

None of the properties below is inductive alone. The parts of each invariant are named definitions, each with the comment that says
what it is for; what follows is the argument.

**EdgeOutboxProofs.** `TypeCorrect`, `InOrder`, `AtMostOneResend`, `NoneDropped` and `Implements`
(the runner refines `PredictionDelivery`).
The argument in one line: the direct send happens only over an empty table, so handing over is always in
order. Its parts: `SendsOverEmpty` (only the network thread inserts, so the table it saw empty
stays empty until it sends), `BatchIsOldest` and `DeletedIsSent` (the drain hands over the
oldest, and deletes what it handed over), `QueueIsNewest` (the queue is no older than
anything handed over), `FlightSorted`, `FlightAfterReached` and `WireHasReached` (a resend has either reached the broker
already or is newer than all that has), `OnlyMade`, `GoneIsGone`; together they give `ReachedInOrder`. `AllHeld`: every prediction made is in the table, the client, at the broker or gone.
`KeptOrDropped` is the platform's side: its rows and what it dropped are what reached it, and a row out of order is of a prediction that was dropped when it first
arrived. `Implements` maps `saved` to the table and shows that each step is
a step of the promise or a stutter.

**IngestConsumerProofs.** `IngestTypeCorrect`, `RowsAccounted`, `NoneTwice`, `NoneOvercounted`.
`LockHeld` says which steps are the critical sections. `CopyHeld` is the heart: between the flush thread's copy and its clear the buffer *is* the
copy, because rows are appended under the lock, while deltas may only have grown, because they are not. `RowsApart` and `DeltasApart` keep the message at hand, the
buffers, the copy and the tables apart, so an insert adds only what is not there; `MsgHeld` says the message at hand is new until it is
buffered. That parts are never over-counted is about a sum: `PartsCovered` adds to the deltas inserted or on their way (`Counted`) what no
delta covers yet (`Uncounted`: from the mirror to the counter, or from the message at hand to it) and says that this is at
most what was made. A restart forgets the mirror; the next message then starts from its own reading, so what is lost is lost from the sum. A counter that
has been reset is less than its mirror and counts for nothing, which is where a bound from above is all there is.

**BackgroundProofs.** `OneActive`, `Answered`, `Shelved` of alarms: only the single consumer makes an
alarm active, and it is past its check only while none is (`RaisesAlone`, `ActiveUnique`):
no request writes "active" because a request writes the status only if it differs from the one read, and the only
status an assignment can write is the one it read. `AckReadActive` is why an acknowledgement always writes; hence
`AnsweredNotActive`. `PagesStaySound`: at most one worker of each kind has flushed, and what it flushed is the first (`FlushedFirst`,
`NarratedFirst`; the unique index is what enforces it), so redelivery (`JobsCounted`) adds no second explanation; a computation of insights
deletes only what was committed when it looked, and commits its own with the deletion (`InsightsTyped`, `InsightsThere`). `MarkedStaysRequested`: a sweep
is past its enqueue only with the row committed for the minute it marks (`ClerksHold`). `BackgroundTypeCorrect` joins the five.

**SimulatorProofs.** *Machines*: `PlantInv` says that the state and the damage agree at every step (`MachineSound`) and a step spans whole ticks.
*Sensors*: `SignalInv` needs no more than that clamping moves a reading no further from its true value than it was. *Scenarios*:
what waits was written in a scenario that was accepted (`AcceptedOnly`), and an accepted event is refused for its duration, or for the empty name of a component to reset, and nothing else (`RefusedForDuration`). *Runs*: `CallsCounted` counts requests, calls and rows
against each other, over lost answers and failed commits; `StartsEnd` and `AloneHolds` say that a start with no other beside
it ends all rows that are open, so `SettledHolds`: the one open row is of the scenario that runs. *Sparkplug node*: `DeathsMatch`, `StreamsUnbroken`. `LoopHoldsLock`: the live loop has the lock exactly between its number and
its publish. `NodeInStep`: while a connection has had its birth certificate, a host has read the node's last number, but for the one that is taken, and the births the
node remembers. `WillIsSet` ties the will to bdSeq, and a connection to the will that was set when it began.
*What-if*: `WhatIfStaysSound`. The distribution is sorted, so it is enough to count: how many trials are at or below a value fixes which rank is (`RankedIs`,
`RanksInOrder`), a percentile lies between two ranks (`Blend`, `PercentileIs`) and percentiles are in order; the risk counts trials within the
horizon, which gives `NumbersAgree` for any number of them: when more than half end inside it so does the median, and when the median does at least
half do. `FirstsSum`: each trial has one part that ended it, so the counts of the parts sum to the trials. `ForecastGood` is what one arm's numbers satisfy, and the invariant says
both arms satisfy it of the *same* clone.

**RegistryProofs.** *Models*: `PromotionsSound`. `WritersApart`: a row is written by one transaction at a time; `ArchivedHeld`: what one has
archived stays in production for the others until its commit; `FlushedAlone`: past the index a promotion is alone in its key and archives what
is in production there. *Assets*: `TwinsAgree`, `RetiredStays`. The order in the code carries it: flush, then the store, then the commit.
`OneWriter` (a flush locks the row) and `EditsOfRows` (what is edited exists, and what is being created does not, up to its
commit) keep transactions on one asset apart from the flush on. `SentIsThere`: what is to be committed is in the store already, so a commit adds nothing the store lacks.
`RetiredIsClosed`: the read-only policy came with the retirement. `UpdatesApart` and `AssetsInStep` hold as long as no request failed and no updates overlapped.
*Plans*: `PlansStaySound`. `FlushedLast`: a transaction past the partial unique index has deactivated every other; `AsSolved`: until somebody drags an
item the plan is one the solver's constraints allow; `SweepFinds`: stopping early loses no pair of a slot or more, since whatever starts after an item's end, rounded or not, and all that
follows it in the order, does not overlap it by that much. *Live updates*: `LiveStaysSound`. `Told` reads a queue of messages from its end: the last message about a topic is what
the hub will hold of it, and that is what the browser wants (`HubTold`); `OneAtATime` holds until a token arrives for a generation that is over.
*Calendar*: `CalendarStaysSound`. An instant is a day and an hour; a shift's beginnings and ends are those of yesterday, today or a day after
(`InstancesAre`), so the code's window sees every shift that holds now (`OnIs`, `ActiveIs`), as the wall does (`OnWall`) and also a week later (`WeekOn`). Nothing
changes before the next change (`NextIs`), which carries `onShift` from one waking to the next; `RollupIs` is why the rollup follows, where the two rules do not differ. *KPIs*: `KpisStayAgreed`. Both computations of a state's seconds
are the number of instants of the window at which the state is in force (`SecondsAre`), of those that have a reading for the second; the trend's buckets are a partition of it
(`TrendIsSum`). The code's fold over events is characterised without induction: the least place at which it could differ from that number is
none.

**ServicesProofs.** *Voice actions*: `NotDone`, `NotAfterWalkingAway`, `SettledIsFinal`. `NotDone` needs
`NotDoneYet`: actions not read back have no effect either, since a read-back makes them pending.
The two action properties follow from the type invariant and a case for each of the
request's steps: whoever starts to work on an action has read it pending, and confirming also read the clock.
*Dialogue*: `DialogueStaysSound`; what a row or a turn carries was said in this era or is emptied when it is read (`NewTurn`), and the pure parts
(which machine, which instant) hold of every list of readings and every hour. *Training*: `TrainingStaysSound`. `Directories` follows the five writes and the opening of the
last: which files are of the training at hand, and whether its `bundle.json` is torn. `FilesOnDisk`: no write to a version that has a bundle disturbs what the device's copy is held against. `BundlesKnown` and `DeviceWhole` say more than the property, of every bundle and not only the newest, since which one is the newest changes. *Scoring*: `ScoringStaysSound`. `EdgeCounts` gives the window's length and the next emission from the number of rows alone, hence the strides
of training; `EdgeFollows` says of each row of the edge's window which reading of each sensor it holds, provided nothing was missed since; the newest reading of the
mean the platform carries to the same moment is that one (`CarriesAlike`), whatever the length of a bucket. `ScoredStands`: nothing but a late flush changes a window that was scored.
*Side by side*: `EachSpec`, a step of the composition is a step of one component or none, so the composition has every component's own specification, and
each theorem above is one about `Services` too: `ServicesTypeCorrect`, `SimulatorStaysSound`, `TimesStayAgreed`, `ForecastsStaySound`.

**WorkOrdersProofs.** `TypeCorrect`, `AcceptedIsTrue`, `ClosedOnTheAnswer`, over any number
of lost, repeated or late messages. `PendingIsWaiting` ties `_pending` to the calls under way;
`AcceptedTrue` follows an acceptance from the machine through the wire and the gateway's entry to the caller;
`ClosureWaits` gives each closure a command of its own, so nobody else's return changes its outcome;
`ClosedOnGood` carries it past the commit.

**DataLemmas.** Sums over finite sets as the community modules' folds compute them (`SumIs`, `SumStep`, `SumUnion`, `SumGrows`, `PartsSum`),
greatest and least elements, quotients and remainders. The library's induction theorems take an operator as a parameter, which no installed prover can
instantiate; `LeastOf`, a nonempty set of naturals has a least element, does in its place: of the numbers
that refute a claim there would be a first, and it is shown to have one before it. So folds and recursive functions whose value has a closed form
(a sum, a count, a rank) are within reach.

*Only model-checked*: liveness (`ReplayedOnReconnect`, `ViolationAlarmed`, `RowReleased`, `JobsSettle`, `TakenOver`),
since the prover does not reason about fairness and ENABLED.

*What these do not say.* `PendingNotDone` and `NotDone` speak of recording (T2) tools: a
T3 fault posted before a crash leaves its action pending, done, and open to a second
confirmation within its window. `AccountedFor` excuses what a power cut catches in memory, which is
`edge_power_cut`'s subject, and counts what the platform dropped as accounted for: nobody is told of it. `JobsSettle` excuses rows the code abandons
(`BenchmarkAbandoned`, `lost`). `ViolationAlarmed` takes a shelved alarm for an alarm; that the issue is raised again beside it is `alarm_shelving`'s subject. `ClosedForGood` is about closures that
sent a reset: an order closed by an edit may be opened by one. `NeverOvercounts` is a bound from above: the unlocked append loses deltas. `ClosedOnAnswer` accepts a timeout: the code
closes an order nobody answered for, and says so. `ran` counts a command's runs and
nothing forbids two (QoS 1 may deliver twice). `TwinInStep`, `OneSocket`, `ScenarioRecorded`, `BundlesWhole`, `DeviceRuns`, `ConflictsFound`, `RollupFollowsEngine`, `DowntimeAgrees` and `ExplainedAsScored` each name
the case in which the code does not give them; those cases are in the last section. `StreamsUnbroken` is about a session after its birth:
what the live loop publishes between the connection and the birth is not promised anything.

## Plan

Done: the core path, operators, models, tasks and analytics as in the table above, and proofs of every invariant and action property that the runs check. Left, in this order:

1. **Abstract specifications** for the queues: a job that is done at least once and shown once, implemented by `Explanations` and `Reports`, with the
   refinement proved step by step as `Implements` is.
2. **WorkOrders**, extended by `send_command` (T3) with its audit row, and an abstract order life cycle that it implements while no writer is stale.
3. **SparkplugNode with IngestConsumer**: a host that discards what comes out of order and asks for a rebirth.
4. **VoiceDialogue with VoiceAction**: one session whose confirmations overlap as they do in `VoiceAction`.
5. **Larger bounds** for `MaintenancePlans` (three technicians) and `ShiftCalendar` (two shifts), as a run of their own; their theorems hold for any.

Theorems still worth proving: that `ModelRegistry` implements a registry in which a promotion is one step; that an ingest without
deaths and failed inserts counts every part (the unlocked append apart).

## Not modelled, and deviations without a run

Left out: the physics behind a rate of wear, fitting, attribution and calibration (numerical); encodings (libraries); wording and rendering (pure functions of text);
screens; configuration; exports and field protocols of the simulator. A change elsewhere in the API is one transaction with its audit row and
carries no row version, so of two overlapping edits of one row the last commit stands.

Seen while modelling, and not subject of a run. Each is what the code does, and the models that touch it do the same.

*Edge and ingest*
* The production and energy buffers are appended to without the lock they are copied and cleared under: deltas
  appended between the copy and the clear vanish.
* `_last_state` moves before the commit, and the refresh thread overwrites it with what it read earlier: the event table may repeat a state
  (`OnlyTransitions` states otherwise, and no run checks it).
* `consumer.py:284-285`: the branch that would refresh the caches on a DBIRTH tests for a type it has just excluded.
* The edge scores with the newest bundle on its disk, registered or not, reads 0.0 for a sensor never seen, and sends no confidence with a failure task.
* All that the consumer, the edge's client and the gateway hold in memory is lost in a restart, and none keeps an MQTT
  session: what is published meanwhile is not resent. The models have it as `dropped`, `refused`, `gone` and `Lose`.
* The broker acknowledges a prediction that the consumer then drops: `store_edge_prediction` returns nothing for a model it does not know (`edge_predictions.py:63-66`), and
  `consumer.py:227-255` logs an invalid payload, an unknown asset or a database error and goes on. The edge has deleted its row.

*Alarms*
* `shelved_until` is written and never read; `check_return_to_normal` and the unshelve and clear branches of
  `perform_action` have no caller. An acknowledgement that read an alarm before it was shelved leaves two open alarms once
  the consumer has raised the next.

*Voice*
* A T3 tool posts its fault before anything is committed: a crash leaves the action pending.
* `expire_stale` runs only when somebody speaks: without a turn, a lapsed action stays pending in the
  table (harmless, since `confirm` reads the clock).
* "Repeat" always finds its own turn, which was just added, and so answers that it was not understood. A read-back says "the asset" when the machine
  comes from the context. `last_explanation_id` outlives a change of machine. Overlapping turns overwrite the context as a whole.
* "This shift" is 00:00 to 08:00, whatever shifts there are. "Today" at an hour that has gone is taken, though the docstring says a time is never in the past.
* The exact stage can return a reading with half a name. Voice refuses 0 percent, which the route accepts.

*Work orders, plans, commands*
* `close_order` sends the reset with `component_id`; the simulator reads `component_code` and, finding
  none, resets every component of the machine.
* The edit route accepts `status: closed` and then no reset is sent; two overlapping closures each
  send one.
* `send_command` audits after `execute` returns: a command that was "not sent" and goes out with the next
  connection runs without the audit the docstring promises "whatever the outcome".
* The conflicts of a dragged item are looked for in 15-minute slots, rounded down (`_slot_of`): two items that overlap within one slot are not reported, and leave that begins within a
  slot is noticed at the next. The drag rewrites `planned_start` of closed orders too. A technician with only a row of leave counts as never available.
  `score_closed_orders` looks back 24 hours only.

*Simulator and its control*
* `catalog.validate_event` does not look at `duration_s`; the engine refuses one that is not positive when the scenario reaches it. It looks a
  `component_code` up only if it is truthy (`catalog.py:411`) where the engine asks whether there is one (`engine.py:233`): a reset of `""` is accepted and then refused.
* `_last` grows while a rebirth iterates over it (`RebirthRaises`).
* Two overlapping starts leave two open runs; a start whose answer is lost is not recorded, and a start that outlives its request's timeout is modelled as performed at
  once.

*Models*
* `ModelRepository.promote` archives by name whatever the asset: promoting one asset's model takes the
  others', and the plant-wide one, out of production: their keys are left without, and `production_model` of them finds none. `RegistrySound` says
  what holds: at most one per key, and always one of the name.
* `save_bundle` writes `bundle.json` last, with `write_text`, which empties the file first: a training killed there leaves an empty one that `latest_bundle_dir` and the export, which ask
  only whether it exists, take for the newest bundle; `load_bundle` then fails on it.
* The two windows differ in length: `features.py:4-5` says the edge "cannot compute a feature differently", and its window is the last 60 messages, one a second, while the platform's is
  60 means of ten seconds (`scoring.py:36`): one model sees a minute on the edge and ten minutes on the platform.
* Two trainings begun in one second share a version's directory, and the second is refused only after it has written. The export copies `bundle.json` first.
  A split of a single asset by time leaves windows that overlap it, though train.py says the held-out rows are unseen units.
* A benchmark's row stays "running" when its worker dies, when the request dies between the commit and `delay` or its second commit fails (`pdm/service.py:212-222`), when the task's first read
  raises (`benchmark.py:32-37`, outside the `try`) and when its last commit does; when the enqueue fails after the broker took the job, the row goes from failed to done.
* Two overlapping computations of insights leave two current values. `quality_flag` "suspect" is written and never read. A `conformal_q` of 0 counts as missing.
* The explanation method "none" violates the table's CHECK; the task sets `max_retries` and nothing retries. Telemetry stored late changes the window an
  explanation is rebuilt from.

*What-ifs*
* `maintenance_in_h` is only looked at for being there: the part is serviced now. The baseline takes the request's ambient temperature too, so a what-if about it compares it with itself. The arms are
  drawn with seeds of their own, so an unchanged condition can show a difference. A machine that stops lives a thousand mean lives, "longer than any horizon": of a part
  nearly worn that may be less.

*Reports and analytics*
* A report schedule whose minute passes while its worker is down is not caught up, though report.py says so; two sweeps queued together may both fire it;
  a schedule whose scope has gone ends the sweep for all. A failed enqueue leaves the row queued. A report that ends in a database error stays running: `reports/service.py:191-196` marks
  it failed in the session that failed, without a rollback.
* The shift rollup at a boundary rolls up the shift that has just started, not "the shift that just ended"; the day's last rollup is at 23:05; after midnight the weekday of the
  new day decides about a shift that began the day before. A shift that ends when it starts lasts a day for the engine and no time for the rollup.
* The day in progress is computed to the midnight ahead (`rollup.py:118-119`): `durations_from_events` runs the last state to it, so a machine that is down now counts as down for
  the rest of the day, while idle energy sums only the readings there are.
* `state_events` mixes the assets of a line or plant; the Pareto's total is of its top ten; idle energy leaves out MAINTENANCE and UNKNOWN. `rate_at` compares UTC with local windows.

*Assets and live updates*
* Overlapping updates of one asset leave the store with stale fields, and a retirement whose commit fails leaves an active asset with a read-only thing; nothing repairs either, though the docs
  say things are kept "in step with the asset registry".
* `ws.ts:82`: a token request that fails after a stop and a start schedules a second connection.
