---------------------------- MODULE PlantSimulation ----------------------------
(***************************************************************************)
(* One simulated machine (apps/simulator/sim/machines/base.py), the engine *)
(* that steps it (engine.py) and the live runtime that advances the engine *)
(* once per real second (live.py).  The HTTP API, the MQTT commands and    *)
(* the loop each hold the runtime's lock for the whole of an operation, so *)
(* an operation is one action.                                             *)
(*                                                                         *)
(* Damage is a level, Worn being damage 1.0; times are relative to the     *)
(* engine's clock.  Sensor faults, gradual faults (a faster rate of wear)  *)
(* and the speed setpoint decide no transition and are left out.           *)
(***************************************************************************)
EXTENDS Integers, FiniteSets

CONSTANTS
    NumComponents,   \* components with a degradation process, in catalog order
    Worn,            \* the damage level at which a component has failed
    Process,         \* the wear model of each: "gamma", "paris", "taylor" or "wiener"
    Scales,          \* time scales: simulated seconds per real second
    MaintenanceS,    \* maintenance_duration_s
    MaxResets        \* bound: maintenance resets

Component   == 1..NumComponents
NoComponent == 0

\* A time scale is positive, and 1 until it is set.
ASSUME PlantAssumption ==
    /\ NumComponents \in Nat /\ Worn \in Nat \ {0} /\ MaintenanceS \in Nat /\ MaxResets \in Nat
    /\ Scales \subseteq Nat \ {0} /\ 1 \in Scales

VARIABLES
    machine,   \* operating state, damage, failed component, maintenance left, load setpoint
    shift,     \* a shift is active
    scale,     \* the runtime's time scale and the engine's tick
    ticker,    \* the machine's process: time to its timeout, time since its last step
    snapshot,  \* what the last tick handed to the outputs
    resets     \* bound

plantVars == <<machine, shift, scale, ticker, snapshot, resets>>

PlantTypeOK ==
    /\ machine \in [state : {"RUNNING", "IDLE", "DOWN", "MAINTENANCE"},
                    damage : [Component -> 0..Worn], failed : Component \cup {NoComponent},
                    left : 0..MaintenanceS, setpoint : {"plan", "zero", "load"}]
    /\ shift \in BOOLEAN /\ scale \in Scales
    /\ ticker.interrupted \in BOOLEAN /\ ticker.due \in Nat /\ ticker.since \in Nat
    /\ snapshot.age \in Nat
    /\ resets \in 0..MaxResets

-----------------------------------------------------------------------------
(* Machine. *)

Failed(m) == {c \in Component : m.damage[c] = Worn}

\* _update_state, with the context's plan and the operator's setpoint.
UpdateState(m, dt) ==
    CASE m.state = "DOWN" -> m
      [] m.state = "MAINTENANCE" /\ m.left > dt -> [m EXCEPT !.left = @ - dt]
      [] OTHER -> [m EXCEPT !.left = 0,
                            !.state = IF shift /\ m.setpoint # "zero" THEN "RUNNING" ELSE "IDLE"]

\* What each model of wear may add in a step: the damage, the crack and the
\* flank wear only grow, a Wiener process may go back.
GammaWear   == 0..1
CrackGrowth == 0..1
FlankWear   == 0..1
WienerDrift == -1..1

WearOf(model) ==
    CASE model = "gamma"  -> GammaWear   [] model = "paris"  -> CrackGrowth
      [] model = "taylor" -> FlankWear   [] model = "wiener" -> WienerDrift

\* build_process gives each component the process of its catalog entry.
Possible(wear) == \A c \in Component : wear[c] \in WearOf(Process[c])
Wears == {wear \in [Component -> -1..1] : Possible(wear)}

\* A failed component stays failed.
Advance(d, wear) ==
    IF d = Worn THEN d
    ELSE IF d + wear < 0 THEN 0 ELSE IF d + wear > Worn THEN Worn ELSE d + wear

Degrade(m, wear) ==
    IF m.state # "RUNNING" THEN m
    ELSE [m EXCEPT !.damage = [c \in Component |-> Advance(m.damage[c], wear[c])]]

\* _check_failures and _fail: the first failed component takes it down.
CheckFailures(m) ==
    IF m.state = "DOWN" \/ Failed(m) = {} THEN m
    ELSE [m EXCEPT !.state = "DOWN",
                   !.failed = CHOOSE c \in Failed(m) : \A d \in Failed(m) : c <= d]

MachineStep(m, dt, wear) == CheckFailures(Degrade(UpdateState(m, dt), wear))

Fresh == [state |-> "IDLE", damage |-> [c \in Component |-> 0], failed |-> NoComponent,
          left |-> 0, setpoint |-> "plan"]

\* A new engine: every machine new, and a first timeout of one tick.
NewEngine(s, working) ==
    /\ scale' = s
    /\ shift' = working
    /\ machine' = [Fresh EXCEPT !.state = IF working THEN "RUNNING" ELSE "IDLE"]
    /\ ticker' = [due |-> s, since |-> 0, interrupted |-> FALSE]

PlantInit ==
    /\ scale = 1 /\ shift = FALSE
    /\ machine = Fresh
    /\ ticker = [due |-> 1, since |-> 0, interrupted |-> FALSE]
    /\ snapshot = [state |-> "none", age |-> 0]
    /\ resets = 0

-----------------------------------------------------------------------------
(* Engine and runtime. *)

\* _run_machine over `scale' seconds, a timeout due at their end included: an
\* interrupted process waits a whole new tick.
RunMachine ==
    LET due == IF ticker.interrupted THEN scale ELSE ticker.due IN
    IF due <= scale
    THEN /\ \E wear \in Wears : machine' = MachineStep(machine, ticker.since + due, wear)
         /\ ticker' = [due |-> due, since |-> scale - due, interrupted |-> FALSE]
    ELSE /\ UNCHANGED machine
         /\ ticker' = [due |-> due - scale, since |-> ticker.since + scale, interrupted |-> FALSE]

\* LiveRuntime.tick advances the engine and hands the outputs a snapshot.
PlantTick ==
    /\ RunMachine
    /\ snapshot' = [state |-> machine'.state, age |-> ticker'.since]
    /\ UNCHANGED <<shift, scale, resets>>

ShiftChanges == shift' = ~shift /\ UNCHANGED <<machine, scale, ticker, snapshot, resets>>

\* Mutant: pending timeouts are not rescheduled.
SetTimeScaleOnly(f) ==
    /\ scale' = f
    /\ UNCHANGED <<machine, shift, ticker, snapshot, resets>>

\* set_time_scale and set_tick
SetTimeScale(f) ==
    /\ scale' = f
    /\ ticker' = [ticker EXCEPT !.interrupted = TRUE]
    /\ UNCHANGED <<machine, shift, snapshot, resets>>

\* A scenario starts at the beginning of a shift.
StartScenario(s) == NewEngine(s, TRUE) /\ UNCHANGED <<snapshot, resets>>

SetLoad(setpoint) ==
    /\ machine' = [machine EXCEPT !.setpoint = setpoint]
    /\ UNCHANGED <<shift, scale, ticker, snapshot, resets>>

Jump(m, c, severity) ==
    [m EXCEPT !.damage[c] = IF @ + severity > Worn THEN Worn ELSE @ + severity]

\* Mutant: the failure waits for the next step.
InjectSuddenLate(c, severity) ==
    /\ machine' = Jump(machine, c, severity)
    /\ UNCHANGED <<shift, scale, ticker, snapshot, resets>>

\* inject, mode "sudden"
InjectSudden(c, severity) ==
    /\ machine' = CheckFailures(Jump(machine, c, severity))
    /\ UNCHANGED <<shift, scale, ticker, snapshot, resets>>

Repaired(m, codes) ==
    [m EXCEPT !.damage = [c \in Component |-> IF c \in codes THEN 0 ELSE @[c]],
              !.failed = IF @ \in codes THEN NoComponent ELSE @,
              !.left = MaintenanceS]

\* Mutant: only a machine whose failed component is among them is taken out
\* of service.
MaintenanceResetFailedOnly(codes) ==
    /\ resets < MaxResets /\ resets' = resets + 1
    /\ machine' = [Repaired(machine, codes) EXCEPT
                     !.state = IF machine.failed \in codes THEN @ ELSE "MAINTENANCE"]
    /\ UNCHANGED <<shift, scale, ticker, snapshot>>

\* reset: the machine is under maintenance for the whole duration, whatever
\* was reset and whatever else has failed.
MaintenanceReset(codes) ==
    /\ resets < MaxResets /\ resets' = resets + 1
    /\ machine' = [Repaired(machine, codes) EXCEPT !.state = "MAINTENANCE"]
    /\ UNCHANGED <<shift, scale, ticker, snapshot>>

PlantNext ==
    \/ PlantTick
    \/ ShiftChanges
    \/ \E f \in Scales : SetTimeScale(f) \/ StartScenario(f)
    \/ \E p \in {"zero", "load"} : SetLoad(p)
    \/ \E c \in Component, severity \in 1..Worn : InjectSudden(c, severity)
    \/ \E codes \in {{c} : c \in Component} \cup {Component} : MaintenanceReset(codes)

-----------------------------------------------------------------------------
(* Properties. *)

\* The ground truth of a machine that is down (RUL 0, the failed component's
\* mode) is about a component that has failed, whatever components were reset
\* while it was down.
DownForAReason ==
    machine.state = "DOWN" => machine.failed # NoComponent /\ machine.damage[machine.failed] = Worn

\* No part is produced and no running hour is counted on a failed component:
\* a sudden fault, and the reset of another component of a machine that is
\* down, leave no way back to work but through the repair.
NeverRunsFailed == machine.state \in {"RUNNING", "IDLE"} => Failed(machine) = {}

\* "Change the tick period; pending ticks are rescheduled so the change
\* applies at once": what a tick hands to the outputs was computed at that
\* tick's instant, whatever time scales and scenarios were set in between.
SnapshotCurrent == snapshot.age = 0

\* What a machine is and what is shown of it: a machine that is down has a
\* failed component, one that works has none, and a snapshot is of its tick.
MachineSound == DownForAReason /\ NeverRunsFailed /\ SnapshotCurrent

=============================================================================
