---------------------------- MODULE ScenarioCatalog ----------------------------
(***************************************************************************)
(* The simulator's catalog of scenarios (apps/simulator/sim/catalog.py),   *)
(* validated when it is loaded, and the control operations of the engine   *)
(* (engine.py) that the events of a scenario, the HTTP API (api.py) and    *)
(* the MQTT commands (commands.py) apply to a machine.                     *)
(*                                                                         *)
(* The fleet is one machine, of a type with the modes, metrics and         *)
(* components below, and anything else is Unknown.                         *)
(***************************************************************************)
EXTENDS Integers, Sequences, FiniteSets

CONSTANTS
    Modes,        \* failure modes of the machine's type
    Metrics,      \* metrics of the machine, components' and its own
    MachineParts, \* its components
    MaxEvents     \* bound: events of a scenario

VARIABLES
    loaded,    \* the scenario: its events and whether the catalog accepted it
    pending,   \* events still to come
    refused,   \* the events the engine refused while the scenario ran
    device,    \* what the operations change: setpoints, faults, resets
    answer     \* the last command's status

catalogVars == <<loaded, pending, refused, device, answer>>

Unknown == "unknown"
None    == "none"
Empty   == "empty"     \* the empty name, which is neither a component's nor missing
SensorFaultKinds == {"sensor_stuck", "sensor_offset"}
\* No failure mode of the fleet has the name of a fault of a sensor.
ASSUME CatalogAssumption == MaxEvents \in Nat /\ Modes \cap SensorFaultKinds = {}

Numbers == {"low", "ok", "high"}       \* of a setpoint: below, within or above its limits

NewEvent(action, asset, mode, metric, duration, component) ==
    [action |-> action, asset |-> asset, mode |-> mode, metric |-> metric,
     duration |-> duration, component |-> component]

\* ScenarioEvent: what each action requires is there, setpoints are within
\* their limits; a duration may be any number.
ScenarioFaults(actions, modes, metrics) ==
    {NewEvent(x, a, m, k, d, None) : x \in actions, a \in {"asset", Unknown}, m \in modes, k \in metrics,
                                  d \in {None, "positive", "negative"}}
ScenarioEvents ==
    ScenarioFaults({"inject_fault"}, Modes \cup SensorFaultKinds \cup {Unknown}, {None, Unknown} \cup Metrics)
    \cup ScenarioFaults({"sensor_fault"}, Modes \cup SensorFaultKinds \cup {Unknown}, {Unknown} \cup Metrics)
    \cup {NewEvent(x, a, None, None, None, c) :
            x \in {"set_load", "set_speed", "reset"}, a \in {"asset", Unknown}, c \in MachineParts \cup {None, Empty, Unknown}}

Untouched == [load |-> "plan", speed |-> "rated", fault |-> None, sensor |-> None, reset |-> {}]

CatalogTypeOK ==
    /\ loaded.status \in {"none", "valid", "refused"} /\ Len(loaded.events) <= MaxEvents
    /\ Len(pending) <= MaxEvents /\ refused \subseteq ScenarioEvents
    /\ device.load \in {"plan", "set"} /\ device.speed \in {"rated", "set"}
    /\ device.fault \in Modes \cup {None} /\ device.sensor \in Metrics \cup {None}
    /\ device.reset \subseteq MachineParts
    /\ answer \in {"none", "accepted", "rejected"}

CatalogInit ==
    /\ loaded = [status |-> "none", events |-> <<>>] /\ pending = <<>> /\ refused = {}
    /\ device = Untouched /\ answer = "none"

-----------------------------------------------------------------------------
(* Catalog._validate *)

\* Mutant: the metric of a sensor fault is not looked up.
ValidEventAnyMetric(e) ==
    /\ e.asset = "asset"
    /\ e.action = "inject_fault" => e.mode \in Modes
    /\ e.action = "sensor_fault" => e.mode \in SensorFaultKinds
    /\ e.component \in MachineParts \cup {None, Empty}

\* validate_event. The component is looked up if it is truthy: an empty name
\* passes as if there was none.
ValidEvent(e) ==
    /\ e.asset = "asset"
    /\ e.action = "inject_fault" => e.mode \in Modes
    /\ e.action = "sensor_fault" => e.mode \in SensorFaultKinds /\ e.metric \in Metrics
    /\ e.component \in MachineParts \cup {None, Empty}

\* _validate: every event of the scenario
Valid(es) == \A i \in DOMAIN es : ValidEvent(es[i])

LoadScenario(es) ==
    /\ loaded.status = "none"
    /\ loaded' = [status |-> IF Valid(es) THEN "valid" ELSE "refused",
                  events |-> es]
    /\ UNCHANGED <<pending, refused, device, answer>>

-----------------------------------------------------------------------------
(* Engine *)
InjectableFault(e) ==
    /\ e.duration # "negative"
    /\ IF e.mode \in SensorFaultKinds THEN e.metric \in Metrics ELSE e.mode \in Modes

\* inject_fault; a sensor fault asked for as a fault is one
FaultInjected(e) ==
    IF e.mode \in SensorFaultKinds THEN [device EXCEPT !.sensor = e.metric] ELSE [device EXCEPT !.fault = e.mode]

\* reset asks whether there is a name at all: the empty one is no component's.
ResetAllowed(component) == component \in MachineParts \cup {None}

MachineReset(component) ==
    LET parts == IF component = None THEN MachineParts ELSE {component} IN
    [device EXCEPT !.reset = parts, !.fault = None, !.sensor = IF component = None THEN None ELSE @]

\* apply_event: what it makes of the machine, if the engine lets it
Applies(e) ==
    /\ e.asset = "asset"
    /\ e.action \in {"inject_fault", "sensor_fault"} => InjectableFault(e)
    /\ e.action = "reset" => ResetAllowed(e.component)

Applied(e) ==
    CASE e.action \in {"inject_fault", "sensor_fault"} -> FaultInjected(e)
      [] e.action = "set_load"  -> [device EXCEPT !.load = "set"]
      [] e.action = "set_speed" -> [device EXCEPT !.speed = "set"]
      [] e.action = "reset"     -> MachineReset(e.component)

\* Only what the catalog holds can be started.
StartScenarioEvents ==
    /\ loaded.status = "valid"
    /\ pending' = loaded.events /\ refused' = {} /\ device' = Untouched
    /\ UNCHANGED <<loaded, answer>>

\* _scenario_event: a refusal goes to the log.
ScenarioEvent ==
    /\ pending # <<>> /\ pending' = Tail(pending)
    /\ IF Applies(Head(pending)) THEN device' = Applied(Head(pending)) /\ UNCHANGED refused
       ELSE refused' = refused \cup {Head(pending)} /\ UNCHANGED device
    /\ UNCHANGED <<loaded, answer>>

\* POST /faults and POST /reset/{asset}: 404 or 422 if the engine refuses.
PostFault ==
    /\ device' \in {Applied(e) : e \in {f \in ScenarioEvents : f.action = "inject_fault" /\ Applies(f)}}
    /\ UNCHANGED <<loaded, pending, refused, answer>>

PostReset(component) ==
    /\ ResetAllowed(component)
    /\ device' = MachineReset(component)
    /\ UNCHANGED <<loaded, pending, refused, answer>>

-----------------------------------------------------------------------------
(* handle_command: the request is checked in this order, before anything is *)
(* changed; what cannot be parsed and lacks an id is as good as unknown.   *)
Commands == [command : {"set_load", "set_speed", "maintenance_reset", Unknown}, asset : {"asset", Unknown},
             number : Numbers \cup {None}, component : MachineParts \cup {None, Empty, Unknown}]

Accepts(c) ==
    /\ c.asset = "asset" /\ c.command # Unknown
    /\ c.command \in {"set_load", "set_speed"} => c.number = "ok"
    /\ c.command = "maintenance_reset" => ResetAllowed(c.component)

Commanded(c) ==
    CASE c.command = "set_load"  -> [device EXCEPT !.load = "set"]
      [] c.command = "set_speed" -> [device EXCEPT !.speed = "set"]
      [] OTHER -> MachineReset(c.component)

Handled(c) == [answer |-> IF Accepts(c) THEN "accepted" ELSE "rejected",
               device |-> IF Accepts(c) THEN Commanded(c) ELSE device]

HandleCommand ==
    /\ \E after \in {Handled(c) : c \in Commands} : answer' = after.answer /\ device' = after.device
    /\ UNCHANGED <<loaded, pending, refused>>

CatalogNext ==
    \/ \E n \in 1..MaxEvents : \E es \in [1..n -> ScenarioEvents] : LoadScenario(es)
    \/ StartScenarioEvents \/ ScenarioEvent
    \/ PostFault
    \/ \E c \in MachineParts \cup {None} : PostReset(c)
    \/ HandleCommand

-----------------------------------------------------------------------------
(* Properties. *)

\* A scenario the catalog has accepted runs as written, but for two things
\* that the engine looks at and validation does not: a duration that is not
\* positive, and the empty name of a component to reset. Every other event
\* that the engine would refuse is refused by validation, which is other code.
ValidatedRuns ==
    \A e \in refused : e.duration = "negative" \/ (e.action = "reset" /\ e.component = Empty)
=============================================================================
