----------------------------- MODULE MachineSignals -----------------------------
(***************************************************************************)
(* What a simulated machine reports of itself: one of its sensors, with    *)
(* the faults injected into it (apps/simulator/sim/sensors.py, noise.py;   *)
(* sensors share nothing), and its part counters (production.py).  A       *)
(* sample is taken every unit of time; noise, spikes and slow drift are    *)
(* one disturbance of at most a unit.                                      *)
(***************************************************************************)
EXTENDS Integers

CONSTANTS
    Low, High,      \* the valid range of a reading
    MaxFaultS,      \* the longest fault with an end
    Nominal,        \* work units of one part
    MaxWork         \* bound: work done

VARIABLES
    fault,     \* MeasurementModel.faults
    reading,   \* the last sample; Missing: None
    lastValue, \* MeasurementModel.last: the last value that was not missing
    clean,     \* the true values of the last sample
    sampled,   \* the last step was a sample
    counter,   \* ProductionCounter: good, reject and the part begun
    worked     \* all the work done so far

signalVars == <<fault, reading, lastValue, clean, sampled, counter, worked>>

Missing == -100
Forever == -1
Kinds   == {"stuck", "offset", "dropout", "drift"}
NoFault == [kind |-> "none", left |-> 0, stuck |-> Missing]
Values  == Low..High

\* What is missing is no reading, nor near one.
ASSUME SignalAssumption ==
    /\ Low \in Int /\ High \in Int /\ Low <= High /\ Missing \notin (Low - 1)..(High + 1)
    /\ MaxFaultS \in Nat /\ Nominal \in Nat \ {0} /\ MaxWork \in Nat

SignalTypeOK ==
    /\ fault \in [kind : Kinds \cup {"none"}, left : {Forever} \cup 0..MaxFaultS,
                  stuck : {Missing} \cup (Low - 1)..(High + 1)]
    /\ {reading, lastValue} \subseteq Values \cup {Missing} /\ clean \in Values /\ sampled \in BOOLEAN
    /\ {counter.good, counter.reject} \subseteq Nat /\ counter.partial \in 0..(Nominal - 1)
    /\ worked \in 0..MaxWork

Clamp(v) == IF v = Missing THEN Missing ELSE IF v < Low THEN Low ELSE IF v > High THEN High ELSE v

\* A machine samples its sensors when it is made; the sample may be missing.
SignalInit ==
    /\ fault = NoFault /\ clean = Low /\ sampled = TRUE
    /\ reading = Missing /\ lastValue = Missing
    /\ counter = [good |-> 0, reject |-> 0, partial |-> 0] /\ worked = 0

-----------------------------------------------------------------------------
(* MeasurementModel *)

\* Mutant: the end of a fault is a sample late.
InForceLate(f, dt) == f.kind # "none" /\ (f.left = Forever \/ f.left >= dt)

\* A fault whose end has come at the time of the sample is deleted.
FaultInForce(f, dt) == f.kind # "none" /\ (f.left = Forever \/ f.left > dt)

\* _apply_fault, the value a stuck sensor keeps
Held(f, raw, true) ==
    IF f.kind # "stuck" \/ f.stuck # Missing THEN f
    ELSE [f EXCEPT !.stuck = IF raw = Missing THEN true ELSE raw]

\* _apply_fault; `slip' is the offset, or the drift so far
Faulty(f, raw, true, slip) ==
    CASE f.kind = "dropout" -> Missing
      [] f.kind = "stuck"   -> IF f.stuck # Missing THEN f.stuck ELSE IF raw = Missing THEN true ELSE raw
      [] f.kind \in {"offset", "drift"} -> IF raw = Missing THEN Missing ELSE raw + slip
      [] OTHER -> raw

Elapsed(f, dt) == IF f.left = Forever THEN f ELSE [f EXCEPT !.left = @ - dt]

\* sample
Sample(true, raw, slip) ==
    LET inForce == FaultInForce(fault, 1)
        value   == Clamp(IF inForce THEN Faulty(fault, raw, true, slip) ELSE raw) IN
    /\ fault' = IF inForce THEN Elapsed(Held(fault, raw, true), 1) ELSE NoFault
    /\ reading' = value
    /\ lastValue' = IF value = Missing THEN lastValue ELSE value
    /\ clean' = true /\ sampled' = TRUE
    /\ UNCHANGED <<counter, worked>>

\* inject; the fault there was is replaced
InjectFault(kind, left) ==
    /\ fault' = [kind |-> kind, left |-> left, stuck |-> lastValue]
    /\ sampled' = FALSE
    /\ UNCHANGED <<reading, lastValue, clean, counter, worked>>

\* SensorArray.clear, by Machine.reset of its component or of all
ClearFault ==
    /\ fault' = NoFault /\ sampled' = FALSE
    /\ UNCHANGED <<reading, lastValue, clean, counter, worked>>

\* SensorArray.faults, what the status shows
FaultReported == fault.kind # "none" /\ (fault.left = Forever \/ fault.left > 0)

-----------------------------------------------------------------------------
(* ProductionCounter.step *)

\* Mutant: the part begun is dropped at the end of a step.
CountedWhole(c, work, rejects) ==
    [good |-> c.good + (c.partial + work) \div Nominal - rejects, reject |-> c.reject + rejects, partial |-> 0]

Counted(c, work, rejects) ==
    [good    |-> c.good + (c.partial + work) \div Nominal - rejects,
     reject  |-> c.reject + rejects,
     partial |-> (c.partial + work) % Nominal]

Produce(work) ==
    /\ worked + work <= MaxWork /\ worked' = worked + work
    /\ \E rejects \in 0..((counter.partial + work) \div Nominal) : counter' = Counted(counter, work, rejects)
    /\ UNCHANGED <<fault, reading, lastValue, clean, sampled>>

SignalNext ==
    \/ \E true \in Values, disturbance \in -1..1, missing \in BOOLEAN, slip \in 0..1 :
         Sample(true, IF missing THEN Missing ELSE true + disturbance, slip)
    \/ \E kind \in Kinds, left \in {Forever} \cup 1..MaxFaultS : InjectFault(kind, left)
    \/ ClearFault
    \/ \E work \in 1..(Nominal + 1) : Produce(work)

-----------------------------------------------------------------------------
(* Properties. *)

\* Whoever reads the status knows which sensors lie: a sample that is not the
\* true value, give or take the noise, is of a sensor reported as faulty, and
\* so never of one whose fault has expired or been cleared.
LiarsReported ==
    sampled /\ reading # Missing /\ reading - clean \notin -1..1 => FaultReported

\* Every part begun is finished and counted once, good or rejected, however
\* the work is cut into steps.
PartsAccounted == Nominal * (counter.good + counter.reject) + counter.partial = worked

\* What a machine tells of itself can be relied on.
SignalsSound == LiarsReported /\ PartsAccounted
=============================================================================
