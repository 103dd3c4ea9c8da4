---------------------------- MODULE SimulatorProofs ----------------------------
(***************************************************************************)
(* The simulator, for any machines, components, scenarios, workers and     *)
(* bounds: the state of a machine agrees with its damage at every tick,    *)
(* its signals and counters tell the truth but for what is declared        *)
(* faulty, what validation accepts the engine runs but for two declared    *)
(* exceptions, the record of the runs can be believed, the Sparkplug       *)
(* node's sessions have no gap, and what is asked of the twin is answered  *)
(* about one machine at one time.                                          *)
(***************************************************************************)
EXTENDS PlantSimulation, MachineSignals, ScenarioCatalog, ScenarioRuns, SparkplugNode, WhatIf,
        DataLemmas, FiniteSetTheorems, SequenceTheorems, TLAPS

-----------------------------------------------------------------------------
(* A machine and its ticks. *)

PlantMachines == [state : {"RUNNING", "IDLE", "DOWN", "MAINTENANCE"},
                  damage : [Component -> 0..Worn], failed : Component \cup {NoComponent},
                  left : 0..MaintenanceS, setpoint : {"plan", "zero", "load"}]

\* DownForAReason and NeverRunsFailed of any machine.
HasReason(m) == m.state = "DOWN" => m.failed # NoComponent /\ m.damage[m.failed] = Worn
MayBeRunning(m)    == m.state \in {"RUNNING", "IDLE"} => Failed(m) = {}

\* The timeout that waits is due at the end of a tick, unless it is about to be
\* set anew, and no time of the process is left over.
TicksWhole ==
    /\ ticker \in [due : Nat, since : Nat, interrupted : BOOLEAN]
    /\ ticker.since = 0 /\ (ticker.interrupted \/ ticker.due = scale)

PlantInv == PlantTypeOK /\ MachineSound /\ TicksWhole

\* A machine is taken down by a component that has failed, and only then.
LEMMA ChecksFailures ==
    ASSUME NEW m \in PlantMachines, HasReason(m)
    PROVE  /\ CheckFailures(m) \in PlantMachines
           /\ HasReason(CheckFailures(m)) /\ MayBeRunning(CheckFailures(m))
  <1>1. CASE m.state = "DOWN" \/ Failed(m) = {}
    BY <1>1 DEF CheckFailures, MayBeRunning
  <1>2. CASE m.state # "DOWN" /\ Failed(m) # {}
    <2> DEFINE first == CHOOSE c \in Failed(m) : \A d \in Failed(m) : c <= d
    <2>1. Failed(m) \subseteq Nat
      BY PlantAssumption DEF Failed, Component
    <2>2. \E c \in Failed(m) : \A d \in Failed(m) : c <= d
      BY <1>2, <2>1, LeastOf
    <2>3. first \in Failed(m)
      BY <2>2
    <2>4. first \in Component /\ m.damage[first] = Worn /\ first # NoComponent
      <3> HIDE DEF first
      <3>1. first \in Component /\ m.damage[first] = Worn
        BY <2>3 DEF Failed
      <3>2. QED
        BY <3>1, PlantAssumption DEF Component, NoComponent
    <2>5. CheckFailures(m) = [m EXCEPT !.state = "DOWN", !.failed = first]
      BY <1>2 DEF CheckFailures
    <2> HIDE DEF first
    <2>6. QED
      BY <2>4, <2>5 DEF PlantMachines, HasReason, MayBeRunning
  <1>3. QED
    BY <1>1, <1>2

LEMMA StateUpdated ==
    ASSUME NEW m \in PlantMachines, HasReason(m), NEW dt \in Nat
    PROVE  UpdateState(m, dt) \in PlantMachines /\ HasReason(UpdateState(m, dt))
  <1>1. CASE m.state = "DOWN"
    BY <1>1 DEF UpdateState
  <1>2. CASE m.state # "DOWN" /\ m.state = "MAINTENANCE" /\ m.left > dt
    <2>1. m.left - dt \in 0..MaintenanceS
      BY <1>2, PlantAssumption DEF PlantMachines
    <2>2. UpdateState(m, dt) = [m EXCEPT !.left = m.left - dt]
      BY <1>2 DEF UpdateState
    <2>3. QED
      BY <1>2, <2>1, <2>2 DEF PlantMachines, HasReason
  <1>3. CASE m.state # "DOWN" /\ ~(m.state = "MAINTENANCE" /\ m.left > dt)
    <2> DEFINE to == IF shift /\ m.setpoint # "zero" THEN "RUNNING" ELSE "IDLE"
    <2>1. UpdateState(m, dt) = [m EXCEPT !.left = 0, !.state = to]
      BY <1>3 DEF UpdateState
    <2>2. 0 \in 0..MaintenanceS /\ to \in {"RUNNING", "IDLE"}
      BY PlantAssumption
    <2> HIDE DEF to
    <2>3. QED
      BY <2>1, <2>2 DEF PlantMachines, HasReason
  <1>4. QED
    BY <1>1, <1>2, <1>3

\* Damage stays between none and worn.
LEMMA AdvanceBounds ==
    ASSUME NEW d \in 0..Worn, NEW wear \in -1..1
    PROVE  Advance(d, wear) \in 0..Worn
  BY PlantAssumption DEF Advance

LEMMA Degrades ==
    ASSUME NEW m \in PlantMachines, HasReason(m), NEW wear \in Wears
    PROVE  Degrade(m, wear) \in PlantMachines /\ HasReason(Degrade(m, wear))
  <1>1. CASE m.state # "RUNNING"
    BY <1>1 DEF Degrade
  <1>2. CASE m.state = "RUNNING"
    <2> DEFINE damage == [c \in Component |-> Advance(m.damage[c], wear[c])]
    <2>1. \A c \in Component : m.damage[c] \in 0..Worn /\ wear[c] \in -1..1
      BY DEF PlantMachines, Wears
    <2>2. damage \in [Component -> 0..Worn]
      BY <2>1, AdvanceBounds
    <2>3. Degrade(m, wear) = [m EXCEPT !.damage = damage]
      BY <1>2 DEF Degrade
    <2> HIDE DEF damage
    <2>4. QED
      BY <1>2, <2>2, <2>3 DEF PlantMachines, HasReason
  <1>3. QED
    BY <1>1, <1>2

LEMMA MachineSteps ==
    ASSUME NEW m \in PlantMachines, HasReason(m), NEW dt \in Nat, NEW wear \in Wears
    PROVE  /\ MachineStep(m, dt, wear) \in PlantMachines
           /\ HasReason(MachineStep(m, dt, wear)) /\ MayBeRunning(MachineStep(m, dt, wear))
  BY StateUpdated, Degrades, ChecksFailures DEF MachineStep

LEMMA PlantInvHolds == PlantInit => PlantInv
  <1> SUFFICES ASSUME PlantInit PROVE PlantInv
    OBVIOUS
  <1>1. machine \in PlantMachines /\ Failed(machine) = {}
    BY PlantAssumption DEF PlantInit, Fresh, PlantMachines, Failed, NoComponent
  <1>2. /\ machine.state = "IDLE" /\ snapshot.age = 0 /\ scale \in Scales /\ shift \in BOOLEAN
        /\ resets \in 0..MaxResets
    <2>1. 0 \in 0..MaxResets
      BY PlantAssumption
    <2>2. QED
      BY <2>1, PlantAssumption DEF PlantInit, Fresh
  <1>3. TicksWhole
    BY DEF PlantInit, TicksWhole
  <1>4. QED
    BY <1>1, <1>2, <1>3 DEF PlantInv, PlantTypeOK, PlantMachines, MachineSound, DownForAReason, NeverRunsFailed,
       SnapshotCurrent, TicksWhole

\* A step that changes the machine and nothing of its clock.
LEMMA MachineChanges ==
    ASSUME PlantInv, machine' \in PlantMachines, HasReason(machine'), MayBeRunning(machine'),
           shift' \in BOOLEAN, scale' \in Scales, TicksWhole', snapshot'.age = 0, resets' \in 0..MaxResets
    PROVE  PlantInv'
  BY DEF PlantInv, PlantTypeOK, PlantMachines, MachineSound, DownForAReason, NeverRunsFailed, HasReason, MayBeRunning,
     Failed, SnapshotCurrent, TicksWhole

LEMMA PlantInvKept == PlantInv /\ [PlantNext]_plantVars => PlantInv'
  <1> SUFFICES ASSUME PlantInv, [PlantNext]_plantVars PROVE PlantInv'
    OBVIOUS
  <1>0. /\ machine \in PlantMachines /\ HasReason(machine) /\ MayBeRunning(machine) /\ TicksWhole
        /\ shift \in BOOLEAN /\ scale \in Scales /\ scale \in Nat /\ resets \in 0..MaxResets
        /\ snapshot.age = 0
    BY PlantAssumption DEF PlantInv, PlantTypeOK, PlantMachines, MachineSound, DownForAReason, NeverRunsFailed,
       HasReason, MayBeRunning, SnapshotCurrent
  <1>1. CASE UNCHANGED plantVars
    BY <1>0, <1>1, MachineChanges DEF plantVars, TicksWhole
  <1>2. CASE PlantTick
    <2> DEFINE due == IF ticker.interrupted THEN scale ELSE ticker.due
    <2>1. due = scale /\ ticker.since = 0 /\ ticker.since + due \in Nat /\ due <= scale
      BY <1>0 DEF TicksWhole
    <2>2. PICK wear \in Wears : machine' = MachineStep(machine, ticker.since + due, wear)
      BY <1>2, <2>1 DEF PlantTick, RunMachine
    <2>3. ticker' = [due |-> due, since |-> scale - due, interrupted |-> FALSE]
      BY <1>2, <2>1 DEF PlantTick, RunMachine
    <2> HIDE DEF due
    <2>4. TicksWhole' /\ ticker'.since = 0
      BY <1>0, <1>2, <2>1, <2>3 DEF PlantTick, TicksWhole
    <2>5. machine' \in PlantMachines /\ HasReason(machine') /\ MayBeRunning(machine')
      BY <1>0, <2>1, <2>2, MachineSteps
    <2>6. snapshot'.age = 0
      BY <1>2, <2>4 DEF PlantTick
    <2>7. QED
      BY <1>0, <1>2, <2>4, <2>5, <2>6, MachineChanges DEF PlantTick
  <1>3. CASE ShiftChanges
    BY <1>0, <1>3, MachineChanges DEF ShiftChanges, TicksWhole
  <1>4. ASSUME NEW f \in Scales, SetTimeScale(f) PROVE PlantInv'
    BY <1>0, <1>4, MachineChanges DEF SetTimeScale, TicksWhole
  <1>5. ASSUME NEW f \in Scales, StartScenario(f) PROVE PlantInv'
    <2>1. machine' \in PlantMachines /\ Failed(machine') = {} /\ machine'.state \in {"RUNNING", "IDLE"}
      BY <1>5, PlantAssumption DEF StartScenario, NewEngine, Fresh, PlantMachines, Failed, NoComponent
    <2>2. TicksWhole'
      BY <1>5, PlantAssumption DEF StartScenario, NewEngine, TicksWhole
    <2>3. QED
      BY <1>0, <1>5, <2>1, <2>2, MachineChanges DEF StartScenario, NewEngine, HasReason, MayBeRunning
  <1>6. ASSUME NEW p \in {"zero", "load"}, SetLoad(p) PROVE PlantInv'
    <2>1. /\ machine' \in PlantMachines /\ machine'.state = machine.state /\ machine'.failed = machine.failed
          /\ machine'.damage = machine.damage
      BY <1>0, <1>6 DEF SetLoad, PlantMachines
    <2>2. HasReason(machine') /\ MayBeRunning(machine')
      BY <1>0, <2>1 DEF HasReason, MayBeRunning, Failed
    <2>3. QED
      BY <1>0, <1>6, <2>1, <2>2, MachineChanges DEF SetLoad, TicksWhole
  <1>7. ASSUME NEW c \in Component, NEW severity \in 1..Worn, InjectSudden(c, severity) PROVE PlantInv'
    <2> DEFINE level == IF machine.damage[c] + severity > Worn THEN Worn ELSE machine.damage[c] + severity
               jumped == Jump(machine, c, severity)
    <2>1. machine.damage \in [Component -> 0..Worn] /\ machine.damage[c] \in 0..Worn
      BY <1>0 DEF PlantMachines
    <2>2. level \in 0..Worn /\ (machine.damage[c] = Worn => level = Worn)
      BY <2>1, PlantAssumption
    <2>3. jumped = [machine EXCEPT !.damage = [machine.damage EXCEPT ![c] = level]]
      BY <1>0 DEF Jump, PlantMachines
    <2> HIDE DEF level, jumped
    <2>4. /\ jumped \in PlantMachines /\ jumped.state = machine.state /\ jumped.failed = machine.failed
          /\ jumped.damage = [machine.damage EXCEPT ![c] = level]
      BY <1>0, <2>1, <2>2, <2>3 DEF PlantMachines
    <2>5. HasReason(jumped)
      BY <1>0, <2>1, <2>2, <2>4 DEF HasReason, PlantMachines
    <2>6. machine' = CheckFailures(jumped)
      BY <1>7 DEF InjectSudden, jumped
    <2>7. QED
      BY <1>0, <1>7, <2>4, <2>5, <2>6, ChecksFailures, MachineChanges DEF InjectSudden, TicksWhole
  <1>8. ASSUME NEW codes, MaintenanceReset(codes) PROVE PlantInv'
    <2>1. [c \in Component |-> IF c \in codes THEN 0 ELSE machine.damage[c]] \in [Component -> 0..Worn]
      BY <1>0, PlantAssumption DEF PlantMachines
    <2>2. (IF machine.failed \in codes THEN NoComponent ELSE machine.failed) \in Component \cup {NoComponent}
      BY <1>0 DEF PlantMachines
    <2>3. MaintenanceS \in 0..MaintenanceS
      BY PlantAssumption
    <2>4. machine' \in PlantMachines /\ machine'.state = "MAINTENANCE"
      BY <1>0, <1>8, <2>1, <2>2, <2>3 DEF MaintenanceReset, Repaired, PlantMachines
    <2>5. resets' \in 0..MaxResets
      BY <1>0, <1>8, PlantAssumption DEF MaintenanceReset
    <2>6. QED
      BY <1>0, <1>8, <2>4, <2>5, MachineChanges DEF MaintenanceReset, TicksWhole, HasReason, MayBeRunning
  <1>9. QED
    BY <1>1, <1>2, <1>3, <1>4, <1>5, <1>6, <1>7, <1>8 DEF PlantNext

-----------------------------------------------------------------------------
(* What a machine tells of itself. *)
Faults   == [kind : Kinds \cup {"none"}, left : {Forever} \cup 0..MaxFaultS,
             stuck : {Missing} \cup (Low - 1)..(High + 1)]
Counters == [good : Nat, reject : Nat, partial : 0..(Nominal - 1)]

SignalInv == SignalTypeOK /\ SignalsSound /\ counter \in Counters

LEMMA NoFaultTyped == NoFault \in Faults
  <1>1. 0 \in 0..MaxFaultS
    BY SignalAssumption
  <1>2. QED
    BY <1>1 DEF NoFault, Faults

\* A clamped value is a reading, and no further from a true value than it was.
LEMMA ClampNear ==
    ASSUME NEW v \in Int, NEW true \in Values
    PROVE  /\ v # Missing => Clamp(v) \in Values
           /\ v - true \in -1..1 => v # Missing /\ Clamp(v) - true \in -1..1
  BY SignalAssumption DEF Clamp, Values, Missing

LEMMA ClampedReading ==
    ASSUME NEW v \in Int
    PROVE  Clamp(v) \in Values \cup {Missing}
  BY SignalAssumption DEF Clamp, Values, Missing

LEMMA SignalInvHolds == SignalInit => SignalInv
  <1> SUFFICES ASSUME SignalInit PROVE SignalInv
    OBVIOUS
  <1>1. fault \in Faults /\ reading = Missing /\ lastValue = Missing /\ sampled = TRUE /\ clean \in Values
    BY NoFaultTyped, SignalAssumption DEF SignalInit, Values
  <1>2. /\ counter.good = 0 /\ counter.reject = 0 /\ counter.partial = 0 /\ worked = 0
        /\ 0 \in 0..(Nominal - 1) /\ 0 \in 0..MaxWork
    BY SignalAssumption DEF SignalInit
  <1>3. counter \in Counters
    BY <1>2 DEF SignalInit, Counters
  <1>4. SignalTypeOK
    BY <1>1, <1>2 DEF SignalTypeOK, Faults
  <1>5. Nominal * (0 + 0) + 0 = 0
    BY SignalAssumption
  <1>6. PartsAccounted
    BY <1>2, <1>5 DEF PartsAccounted
  <1>7. QED
    BY <1>1, <1>3, <1>4, <1>6 DEF SignalInv, SignalsSound, LiarsReported

\* A sample: either its value is near the true one or the fault it comes of is
\* still there after it.
LEMMA SampleSound ==
    ASSUME SignalInv, NEW true \in Values, NEW disturbance \in -1..1, NEW missing \in BOOLEAN, NEW slip \in 0..1,
           Sample(true, IF missing THEN Missing ELSE true + disturbance, slip)
    PROVE  SignalInv'
  <1> DEFINE raw == IF missing THEN Missing ELSE true + disturbance
             inForce == FaultInForce(fault, 1)
             told == IF inForce THEN Faulty(fault, raw, true, slip) ELSE raw
  <1>0. /\ fault \in Faults /\ lastValue \in Values \cup {Missing} /\ counter \in Counters /\ worked \in 0..MaxWork
        /\ true \in Int /\ Missing \in Int /\ disturbance \in Int /\ slip \in Int
    BY SignalAssumption DEF SignalInv, SignalTypeOK, Faults, Values, Missing
  <1>1. raw \in {Missing} \cup (Low - 1)..(High + 1) /\ raw \in Int /\ (raw = Missing \/ raw - true \in -1..1)
    <2>1. CASE missing
      BY <1>0, <2>1
    <2>2. CASE ~missing
      <3>1. raw = true + disturbance /\ true \in Low..High /\ Low \in Int /\ High \in Int
        BY <2>2, SignalAssumption DEF Values
      <3> HIDE DEF raw
      <3>2. raw \in (Low - 1)..(High + 1) /\ raw - true \in -1..1 /\ raw \in Int
        BY <1>0, <3>1
      <3>3. QED
        BY <3>2
    <2>3. QED
      BY <2>1, <2>2
  <1>2. reading' = Clamp(told) /\ clean' = true /\ sampled' = TRUE /\ UNCHANGED <<counter, worked>>
        /\ lastValue' = (IF Clamp(told) = Missing THEN lastValue ELSE Clamp(told))
        /\ fault' = IF inForce THEN Elapsed(Held(fault, raw, true), 1) ELSE NoFault
    BY DEF Sample
  <1> HIDE DEF raw
  <1>3. told \in Int
    BY <1>0, <1>1, SignalAssumption DEF Faulty, Faults
  <1>4. fault' \in Faults /\ (inForce => FaultReported')
    <2>1. CASE ~inForce
      BY <1>2, <2>1, NoFaultTyped
    <2>2. CASE inForce
      <3> DEFINE held == Held(fault, raw, true)
      <3>1. held \in Faults /\ held.kind = fault.kind /\ held.left = fault.left
        <4>1. (IF raw = Missing THEN true ELSE raw) \in {Missing} \cup (Low - 1)..(High + 1)
          BY <1>0, <1>1, SignalAssumption DEF Values
        <4>2. QED
          BY <1>0, <4>1 DEF Held, Faults
      <3>2. fault' = Elapsed(held, 1)
        BY <1>2, <2>2
      <3> HIDE DEF held
      <3>3. CASE held.left = Forever
        BY <2>2, <3>1, <3>2, <3>3 DEF Elapsed, FaultReported, FaultInForce
      <3>4. CASE held.left # Forever
        <4>1. held.left - 1 \in 0..MaxFaultS /\ held.left - 1 > 0
          BY <2>2, <3>1, <3>4, SignalAssumption DEF FaultInForce, Faults
        <4>2. fault' = [held EXCEPT !.left = held.left - 1]
          BY <3>2, <3>4 DEF Elapsed
        <4>3. fault'.left = held.left - 1 /\ fault'.kind = held.kind /\ fault' \in Faults
          BY <3>1, <4>1, <4>2 DEF Faults
        <4>4. QED
          BY <2>2, <3>1, <4>1, <4>3 DEF FaultReported, FaultInForce
      <3>5. QED
        BY <3>3, <3>4
    <2>3. QED
      BY <2>1, <2>2
  <1>5. ~inForce => reading' = Missing \/ reading' - clean' \in -1..1
    <2> SUFFICES ASSUME ~inForce PROVE reading' = Missing \/ reading' - clean' \in -1..1
      OBVIOUS
    <2>1. reading' = Clamp(raw)
      BY <1>2
    <2>2. CASE raw = Missing
      BY <2>1, <2>2 DEF Clamp
    <2>3. CASE raw - true \in -1..1
      BY <1>1, <1>2, <2>1, <2>3, ClampNear
    <2>4. QED
      BY <1>1, <2>2, <2>3
  <1>6. reading' \in Values \cup {Missing} /\ lastValue' \in Values \cup {Missing}
    BY <1>0, <1>2, <1>3, ClampedReading
  <1> HIDE DEF inForce, told
  <1>7. SignalTypeOK'
    BY <1>0, <1>2, <1>4, <1>6 DEF SignalTypeOK, Faults, Counters
  <1>8. LiarsReported'
    BY <1>4, <1>5 DEF LiarsReported
  <1>9. PartsAccounted' /\ counter' \in Counters
    BY <1>0, <1>2 DEF SignalInv, SignalsSound, PartsAccounted
  <1>10. QED
    BY <1>7, <1>8, <1>9 DEF SignalInv, SignalsSound

LEMMA Distributed == \A n, g, w, j, r, p \in Int : n * (g + w - r + (j + r)) + p = n * (g + j) + (n * w + p)
  OBVIOUS

LEMMA ProduceSound ==
    ASSUME SignalInv, NEW work \in 1..(Nominal + 1), Produce(work)
    PROVE  SignalInv'
  <1> DEFINE n == Nominal
             begun == counter.partial + work
  <1>0. /\ counter \in Counters /\ worked \in 0..MaxWork /\ n \in Nat \ {0} /\ MaxWork \in Nat /\ work \in Nat
        /\ n * (counter.good + counter.reject) + counter.partial = worked
        /\ counter.good \in Nat /\ counter.reject \in Nat /\ counter.partial \in Nat
    BY SignalAssumption DEF SignalInv, SignalTypeOK, SignalsSound, PartsAccounted, Counters
  <1>1. PICK rejects \in 0..(begun \div n) : counter' = Counted(counter, work, rejects)
    BY DEF Produce
  <1>2. /\ begun \in Nat /\ begun = n * (begun \div n) + (begun % n) /\ begun % n \in 0..(n - 1)
        /\ begun \div n \in Nat
    <2>1. begun \in Nat /\ begun \in Int /\ n \in Nat \ {0}
      BY <1>0
    <2> HIDE DEF begun, n
    <2>2. /\ begun = n * (begun \div n) + (begun % n) /\ begun % n \in 0..(n - 1)
          /\ begun \in Nat => begun \div n \in Nat
      BY <2>1, Divided
    <2>3. QED
      BY <2>1, <2>2
  <1>3. /\ counter'.good = counter.good + begun \div n - rejects /\ counter'.reject = counter.reject + rejects
        /\ counter'.partial = begun % n
    BY <1>1 DEF Counted
  <1> DEFINE whole == begun \div n
             rest == begun % n
  <1>4. n * (counter'.good + counter'.reject) + counter'.partial
          = n * (counter.good + counter.reject) + (n * whole + rest)
    <2>1. rejects \in Int /\ rest \in Int /\ whole \in Int /\ n \in Int
      BY <1>0, <1>2
    <2> HIDE DEF whole, rest, n
    <2>2. n * (counter.good + whole - rejects + (counter.reject + rejects)) + rest
            = n * (counter.good + counter.reject) + (n * whole + rest)
      BY <1>0, <2>1, Distributed
    <2>3. QED
      BY <1>3, <2>2 DEF whole, rest, n
  <1>5. worked' = worked + work /\ worked' \in 0..MaxWork
    BY <1>0 DEF Produce
  <1>6. PartsAccounted'
    <2> DEFINE all == n * (counter.good + counter.reject)
    <2>1. all \in Int /\ all + counter.partial = worked /\ n * whole + rest = counter.partial + work
      <3>1. counter.good + counter.reject \in Int /\ n \in Int
        BY <1>0
      <3>2. all \in Int
        <4> HIDE DEF n
        <4>1. QED
          BY <3>1
      <3>3. n * whole + rest = begun
        BY <1>2
      <3>4. all + counter.partial = worked
        BY <1>0
      <3>5. QED
        BY <3>2, <3>3, <3>4
    <2> HIDE DEF all, whole, rest
    <2>2. n * (counter'.good + counter'.reject) + counter'.partial = all + (counter.partial + work)
      BY <1>4, <2>1 DEF all
    <2>3. all + (counter.partial + work) = worked'
      <3>1. all \in Int /\ all + counter.partial = worked
        BY <2>1
      <3>2. counter.partial \in Int /\ work \in Int /\ worked' = worked + work
        BY <1>0, <1>5
      <3>3. QED
        BY <3>1, <3>2
    <2>4. QED
      BY <2>2, <2>3 DEF PartsAccounted
  <1>7. counter' \in Counters
    <2>1. /\ counter.good + whole - rejects \in Nat /\ counter.reject + rejects \in Nat
          /\ whole \in Nat /\ rest \in 0..(n - 1)
      <3>1. whole \in Nat /\ rejects \in 0..whole
        BY <1>2
      <3>2. rest \in 0..(n - 1)
        BY <1>2
      <3> HIDE DEF whole
      <3>3. counter.good + whole - rejects \in Nat /\ counter.reject + rejects \in Nat
        BY <1>0, <3>1
      <3>4. QED
        BY <3>1, <3>2, <3>3
    <2> HIDE DEF whole, rest
    <2>2. QED
      BY <1>1, <2>1 DEF Counted, Counters, whole, rest
  <1>8. UNCHANGED <<fault, reading, lastValue, clean, sampled>>
    BY DEF Produce
  <1> HIDE DEF n, begun, whole, rest
  <1>9. SignalTypeOK'
    BY <1>5, <1>7, <1>8 DEF SignalInv, SignalTypeOK, Counters
  <1>10. LiarsReported'
    BY <1>8 DEF SignalInv, SignalsSound, LiarsReported, FaultReported
  <1>11. QED
    BY <1>6, <1>7, <1>9, <1>10 DEF SignalInv, SignalsSound

LEMMA SignalInvKept == SignalInv /\ [SignalNext]_signalVars => SignalInv'
  <1> SUFFICES ASSUME SignalInv, [SignalNext]_signalVars PROVE SignalInv'
    OBVIOUS
  <1>1. CASE UNCHANGED signalVars
    BY <1>1 DEF signalVars, SignalInv, SignalTypeOK, SignalsSound, LiarsReported, FaultReported, PartsAccounted
  <1>2. ASSUME NEW true \in Values, NEW disturbance \in -1..1, NEW missing \in BOOLEAN, NEW slip \in 0..1,
               Sample(true, IF missing THEN Missing ELSE true + disturbance, slip)
        PROVE  SignalInv'
    BY <1>2, SampleSound
  <1>3. ASSUME NEW kind \in Kinds, NEW left \in {Forever} \cup 1..MaxFaultS, InjectFault(kind, left)
        PROVE  SignalInv'
    <2>1. fault' \in Faults /\ sampled' = FALSE
      BY <1>3, SignalAssumption DEF InjectFault, Faults, SignalInv, SignalTypeOK, Values
    <2>2. QED
      BY <1>3, <2>1 DEF InjectFault, Faults, SignalInv, SignalTypeOK, SignalsSound, LiarsReported, PartsAccounted
  <1>4. CASE ClearFault
    BY <1>4, NoFaultTyped DEF ClearFault, Faults, SignalInv, SignalTypeOK, SignalsSound, LiarsReported,
       PartsAccounted
  <1>5. ASSUME NEW work \in 1..(Nominal + 1), Produce(work) PROVE SignalInv'
    BY <1>5, ProduceSound
  <1>6. QED
    BY <1>1, <1>2, <1>3, <1>4, <1>5 DEF SignalNext

-----------------------------------------------------------------------------
(* The catalog and the operations of the engine. *)
DeviceStates == [load : {"plan", "set"}, speed : {"rated", "set"}, fault : Modes \cup {None},
             sensor : Metrics \cup {None}, reset : SUBSET MachineParts]

\* What waits to be applied was written in a scenario that was accepted.
CatalogTyped ==
    /\ loaded \in [status : {"none", "valid", "refused"}, events : Seq(ScenarioEvents)]
    /\ pending \in Seq(ScenarioEvents) /\ device \in DeviceStates

AcceptedOnly ==
    /\ loaded.status = "valid" => Valid(loaded.events)
    /\ Valid(pending)

CatalogInv == CatalogTypeOK /\ CatalogTyped /\ AcceptedOnly /\ ValidatedRuns

\* An event validation lets through is refused by the engine for its duration,
\* or for the empty name of a component to reset.
LEMMA RefusedForDuration ==
    ASSUME NEW e \in ScenarioEvents, ValidEvent(e), ~Applies(e)
    PROVE  e.duration = "negative" \/ (e.action = "reset" /\ e.component = Empty)
  BY CatalogAssumption DEF ValidEvent, Applies, InjectableFault, ResetAllowed, ScenarioEvents, ScenarioFaults,
     NewEvent

LEMMA ResetTyped ==
    ASSUME device \in DeviceStates, NEW c, ResetAllowed(c)
    PROVE  MachineReset(c) \in DeviceStates
  BY DEF ResetAllowed, MachineReset, DeviceStates

LEMMA AppliedTyped ==
    ASSUME device \in DeviceStates, NEW e \in ScenarioEvents, Applies(e)
    PROVE  Applied(e) \in DeviceStates
  <1>1. e.action \in {"inject_fault", "sensor_fault", "set_load", "set_speed", "reset"}
    BY DEF ScenarioEvents, ScenarioFaults, NewEvent
  <1>2. CASE e.action \in {"inject_fault", "sensor_fault"}
    BY <1>2 DEF Applies, InjectableFault, Applied, FaultInjected, DeviceStates
  <1>3. CASE e.action = "set_load"
    BY <1>3 DEF Applied, DeviceStates
  <1>4. CASE e.action = "set_speed"
    BY <1>4 DEF Applied, DeviceStates
  <1>5. CASE e.action = "reset"
    BY <1>5, ResetTyped DEF Applies, Applied
  <1>6. QED
    BY <1>1, <1>2, <1>3, <1>4, <1>5

LEMMA CommandedTyped ==
    ASSUME device \in DeviceStates, NEW c \in Commands, Accepts(c)
    PROVE  Commanded(c) \in DeviceStates
  <1>1. CASE c.command = "set_load"
    BY <1>1 DEF Commanded, DeviceStates
  <1>2. CASE c.command = "set_speed"
    BY <1>2 DEF Commanded, DeviceStates
  <1>3. CASE c.command \notin {"set_load", "set_speed"}
    <2>1. c.command = "maintenance_reset"
      BY <1>3 DEF Commands, Accepts
    <2>2. QED
      BY <2>1, ResetTyped DEF Accepts, Commanded
  <1>4. QED
    BY <1>1, <1>2, <1>3

LEMMA CatalogInvHolds == CatalogInit => CatalogInv
  <1> SUFFICES ASSUME CatalogInit PROVE CatalogInv
    OBVIOUS
  <1>1. <<>> \in Seq(ScenarioEvents) /\ Len(<<>>) = 0 /\ DOMAIN <<>> = {}
    BY EmptySeq
  <1>2. CatalogTyped
    BY <1>1 DEF CatalogInit, CatalogTyped, DeviceStates, Untouched
  <1>3. CatalogTypeOK
    BY <1>1, CatalogAssumption DEF CatalogInit, CatalogTypeOK, Untouched
  <1>4. AcceptedOnly /\ ValidatedRuns
    BY <1>1 DEF CatalogInit, AcceptedOnly, Valid, ValidatedRuns
  <1>5. QED
    BY <1>2, <1>3, <1>4 DEF CatalogInv

\* An operation that changes the machine and no event.
LEMMA DeviceStep ==
    ASSUME CatalogInv, device' \in DeviceStates, UNCHANGED <<loaded, pending, refused>>,
           answer' \in {"none", "accepted", "rejected"}
    PROVE  CatalogInv'
  BY DEF CatalogInv, CatalogTypeOK, CatalogTyped, DeviceStates, AcceptedOnly, Valid, ValidatedRuns

LEMMA CatalogInvKept == CatalogInv /\ [CatalogNext]_catalogVars => CatalogInv'
  <1> SUFFICES ASSUME CatalogInv, [CatalogNext]_catalogVars PROVE CatalogInv'
    OBVIOUS
  <1>0. CatalogTypeOK /\ CatalogTyped /\ AcceptedOnly /\ ValidatedRuns /\ device \in DeviceStates
        /\ answer \in {"none", "accepted", "rejected"}
    BY DEF CatalogInv, CatalogTypeOK, CatalogTyped
  <1>1. CASE UNCHANGED catalogVars
    BY <1>0, <1>1, DeviceStep DEF catalogVars
  <1>2. ASSUME NEW n \in 1..MaxEvents, NEW es \in [1..n -> ScenarioEvents], LoadScenario(es) PROVE CatalogInv'
    <2>1. es \in Seq(ScenarioEvents) /\ Len(es) = n /\ n <= MaxEvents
      BY SeqDef, LenProperties, CatalogAssumption
    <2>2. CatalogTyped'
      BY <1>0, <1>2, <2>1 DEF LoadScenario, CatalogTyped
    <2>3. CatalogTypeOK'
      BY <1>0, <1>2, <2>1 DEF LoadScenario, CatalogTypeOK
    <2>4. AcceptedOnly' /\ ValidatedRuns'
      BY <1>0, <1>2 DEF LoadScenario, AcceptedOnly, Valid, ValidatedRuns
    <2>5. QED
      BY <2>2, <2>3, <2>4 DEF CatalogInv
  <1>3. CASE StartScenarioEvents
    <2>1. Untouched \in DeviceStates
      BY DEF Untouched, DeviceStates
    <2>2. CatalogTyped'
      BY <1>0, <1>3, <2>1 DEF StartScenarioEvents, CatalogTyped
    <2>3. CatalogTypeOK'
      BY <1>0, <1>3, <2>1 DEF StartScenarioEvents, CatalogTypeOK, DeviceStates
    <2>4. AcceptedOnly' /\ ValidatedRuns'
      BY <1>0, <1>3 DEF StartScenarioEvents, AcceptedOnly, Valid, ValidatedRuns
    <2>5. QED
      BY <2>2, <2>3, <2>4 DEF CatalogInv
  <1>4. CASE ScenarioEvent
    <2> DEFINE e == Head(pending)
    <2>1. /\ e \in ScenarioEvents /\ Tail(pending) \in Seq(ScenarioEvents) /\ Len(Tail(pending)) = Len(pending) - 1
          /\ \A i \in 1..Len(Tail(pending)) : Tail(pending)[i] = pending[i + 1]
          /\ e = pending[1] /\ Len(pending) \in Nat /\ Len(pending) > 0
      BY <1>0, <1>4, HeadTailProperties, LenProperties, EmptySeq DEF ScenarioEvent, CatalogTyped
    <2>2. DOMAIN pending = 1..Len(pending) /\ DOMAIN Tail(pending) = 1..Len(Tail(pending))
      BY <1>0, <2>1, LenProperties DEF CatalogTyped
    <2>3. ValidEvent(e) /\ Valid(Tail(pending))
      BY <1>0, <2>1, <2>2 DEF AcceptedOnly, Valid
    <2>4. pending' = Tail(pending) /\ UNCHANGED <<loaded, answer>>
      BY <1>4 DEF ScenarioEvent
    <2>5. device' \in DeviceStates /\ refused' \subseteq ScenarioEvents /\ ValidatedRuns'
      <3>1. CASE Applies(e)
        <4>1. device' = Applied(e) /\ refused' = refused
          BY <1>4, <3>1 DEF ScenarioEvent
        <4>2. QED
          BY <1>0, <2>1, <3>1, <4>1, AppliedTyped DEF CatalogTypeOK, ValidatedRuns
      <3>2. CASE ~Applies(e)
        <4>1. device' = device /\ refused' = refused \cup {e}
          BY <1>4, <3>2 DEF ScenarioEvent
        <4>2. e.duration = "negative" \/ (e.action = "reset" /\ e.component = Empty)
          BY <2>1, <2>3, <3>2, RefusedForDuration
        <4>3. QED
          BY <1>0, <2>1, <4>1, <4>2 DEF CatalogTypeOK, ValidatedRuns
      <3>3. QED
        BY <3>1, <3>2
    <2>6. Len(pending') <= MaxEvents
      BY <1>0, <2>1, <2>4, CatalogAssumption DEF CatalogTypeOK
    <2> HIDE DEF e
    <2>7. CatalogTyped' /\ CatalogTypeOK' /\ AcceptedOnly'
      BY <1>0, <2>1, <2>3, <2>4, <2>5, <2>6 DEF CatalogTyped, CatalogTypeOK, AcceptedOnly, Valid, DeviceStates
    <2>8. QED
      BY <2>5, <2>7 DEF CatalogInv
  <1>5. CASE PostFault
    <2>1. PICK e \in ScenarioEvents : Applies(e) /\ device' = Applied(e)
      BY <1>5 DEF PostFault
    <2>2. QED
      BY <1>0, <1>5, <2>1, AppliedTyped, DeviceStep DEF PostFault
  <1>6. ASSUME NEW c \in MachineParts \cup {None}, PostReset(c) PROVE CatalogInv'
    BY <1>0, <1>6, ResetTyped, DeviceStep DEF PostReset
  <1>7. CASE HandleCommand
    <2>1. PICK c \in Commands : answer' = Handled(c).answer /\ device' = Handled(c).device
      BY <1>7 DEF HandleCommand
    <2>2. device' \in DeviceStates /\ answer' \in {"accepted", "rejected"}
      BY <1>0, <2>1, CommandedTyped DEF Handled
    <2>3. QED
      BY <1>0, <1>7, <2>2, DeviceStep DEF HandleCommand
  <1>8. QED
    BY <1>1, <1>2, <1>3, <1>4, <1>5, <1>6, <1>7 DEF CatalogNext

-----------------------------------------------------------------------------
(* The control of the simulator and its record. *)
RunRows       == [code : Scenarios \cup {NoScenario}, open : BOOLEAN, export : BOOLEAN]
ControlStates == [pc : {"idle", "asking", "told", "ending", "ended"}, action : Controls,
                  code : Scenarios \cup {NoScenario}, found : SUBSET (1..MaxRunRequests),
                  ends : SUBSET (1..MaxRunRequests), alone : BOOLEAN]
Obeyed        == {"told", "ending", "ended"}

Occupied  == {w \in RunWorkers : control[w].pc # "idle"}
Asking(a) == {w \in RunWorkers : control[w].pc = "asking" /\ control[w].action = a}
ToldOf(a)   == {w \in RunWorkers : control[w].pc \in Obeyed /\ control[w].action = a}

RunsTyped ==
    /\ scenario \in Scenarios \cup {NoScenario} /\ scenarioRuns \in Seq(RunRows)
    /\ trail \in [Controls -> Nat] /\ done \in [Controls -> Nat]
    /\ control \in [RunWorkers -> ControlStates]
    /\ asked \in 0..MaxRunRequests /\ restarts \in 0..MaxRestarts /\ settled \in BOOLEAN

\* Each row comes of a request, and so does each thing the simulator does; what
\* is on record was done, and what is done and not on record is in the hands of
\* a worker, or lost.
CallsCounted ==
    /\ Len(scenarioRuns) + Cardinality(Occupied) <= asked
    /\ \A a \in Controls : /\ done[a] + Cardinality(Asking(a)) <= asked
                           /\ trail[a] + Cardinality(ToldOf(a)) <= done[a]

\* Only the record of a start ends rows.
StartsEnd ==
    \A w \in RunWorkers :
      /\ control[w].pc \in {"ending", "ended"} => control[w].action = "create"
      /\ control[w].ends # {} => control[w].pc = "ended"

\* A start that is alone has no other beside it, and ends all that is open.
AloneIs(w) ==
    /\ Starting(w) /\ \A v \in RunWorkers \ {w} : ~Starting(v)
    /\ control[w].pc = "ending" => control[w].found = OpenRuns
    /\ control[w].pc = "ended" => control[w].ends = OpenRuns
AloneHolds == \A w \in RunWorkers : control[w].alone => AloneIs(w)

\* A settled record is of the scenario that runs, and no start the simulator
\* has obeyed is still to be recorded.
OpenIsRunning == \E i \in DOMAIN scenarioRuns : OpenRuns = {i} /\ scenarioRuns[i].code = scenario
SettledHolds ==
    settled => OpenIsRunning /\ \A w \in RunWorkers : control[w].pc \in Obeyed => control[w].action # "create"

NoOpenExport == \A i \in OpenRuns : ~scenarioRuns[i].export

RunInv == RunsTyped /\ CallsCounted /\ StartsEnd /\ AloneHolds /\ SettledHolds /\ NoOpenExport

\* Two sets of workers that agree but for one.
LEMMA OneMoves ==
    ASSUME NEW S \in SUBSET RunWorkers, NEW T \in SUBSET RunWorkers, NEW w, S \ {w} = T \ {w}
    PROVE  /\ Cardinality(S) \in Nat /\ Cardinality(T) \in Nat
           /\ w \in S /\ w \notin T => Cardinality(T) = Cardinality(S) - 1
           /\ w \notin S /\ w \in T => Cardinality(T) = Cardinality(S) + 1
           /\ (w \in S <=> w \in T) => Cardinality(T) = Cardinality(S)
  <1>1. IsFiniteSet(S) /\ IsFiniteSet(T) /\ Cardinality(S) \in Nat /\ Cardinality(T) \in Nat
    BY RunAssumption, FS_Subset, FS_CardinalityType
  <1>2. CASE w \in S /\ w \notin T
    <2>1. T = S \ {w}
      BY <1>2
    <2>2. QED
      BY <1>1, <1>2, <2>1, FS_RemoveElement
  <1>3. CASE w \notin S /\ w \in T
    <2>1. T = S \cup {w}
      BY <1>3
    <2>2. QED
      BY <1>1, <1>3, <2>1, FS_AddElement
  <1>4. CASE w \in S <=> w \in T
    <2>1. S = T
      BY <1>4
    <2>2. QED
      BY <1>1, <1>4, <2>1
  <1>5. QED
    BY <1>1, <1>2, <1>3, <1>4

\* A worker moves, and another start may stop being alone.
Moves(w, to) ==
    /\ control' \in [RunWorkers -> ControlStates] /\ control'[w] = to
    /\ \A v \in RunWorkers \ {w} :
         /\ control'[v].pc = control[v].pc /\ control'[v].action = control[v].action
         /\ control'[v].code = control[v].code /\ control'[v].found = control[v].found
         /\ control'[v].ends = control[v].ends
         /\ control'[v].alone => control[v].alone

LEMMA PlainMove ==
    ASSUME RunsTyped, NEW w \in RunWorkers, NEW to \in ControlStates, control' = [control EXCEPT ![w] = to]
    PROVE  Moves(w, to)
  BY DEF RunsTyped, Moves

\* The counts after a move.
LEMMA MoveCounts ==
    ASSUME RunsTyped, NEW w \in RunWorkers, NEW to \in ControlStates, Moves(w, to)
    PROVE  /\ Cardinality(Occupied) \in Nat /\ Cardinality(Occupied)' \in Nat
           /\ control[w].pc = "idle" => Cardinality(Occupied)' <= Cardinality(Occupied) + 1
           /\ control[w].pc # "idle" => Cardinality(Occupied)' <= Cardinality(Occupied)
           /\ control[w].pc # "idle" /\ to.pc = "idle" => Cardinality(Occupied)' = Cardinality(Occupied) - 1
           /\ \A a \in Controls :
                /\ Cardinality(Asking(a)) \in Nat /\ Cardinality(Asking(a))' \in Nat
                /\ Cardinality(Asking(a))' <= Cardinality(Asking(a)) + 1
                /\ to.pc # "asking" => Cardinality(Asking(a))' <= Cardinality(Asking(a))
                /\ control[w].pc = "asking" /\ control[w].action = a /\ to.pc # "asking"
                   => Cardinality(Asking(a))' = Cardinality(Asking(a)) - 1
                /\ Cardinality(ToldOf(a)) \in Nat /\ Cardinality(ToldOf(a))' \in Nat
                /\ Cardinality(ToldOf(a))' <= Cardinality(ToldOf(a)) + 1
                /\ to.pc \notin Obeyed \/ to.action # a \/ (control[w].pc \in Obeyed /\ control[w].action = a)
                   => Cardinality(ToldOf(a))' <= Cardinality(ToldOf(a))
                /\ control[w].pc \in Obeyed /\ control[w].action = a /\ to.pc \notin Obeyed
                   => Cardinality(ToldOf(a))' = Cardinality(ToldOf(a)) - 1
  <1>1. control'[w] = to /\ \A v \in RunWorkers \ {w} :
          control'[v].pc = control[v].pc /\ control'[v].action = control[v].action
    BY DEF Moves
  <1>2. /\ Occupied \in SUBSET RunWorkers /\ Occupied' \in SUBSET RunWorkers
        /\ Occupied \ {w} = Occupied' \ {w}
        /\ w \in Occupied <=> control[w].pc # "idle"
        /\ w \in Occupied' <=> to.pc # "idle"
    BY <1>1 DEF Occupied
  <1>3. Cardinality(Occupied)' = Cardinality(Occupied')
    OBVIOUS
  <1>4. ASSUME NEW a \in Controls
        PROVE  /\ Asking(a) \in SUBSET RunWorkers /\ Asking(a)' \in SUBSET RunWorkers
               /\ Asking(a) \ {w} = Asking(a)' \ {w}
               /\ w \in Asking(a) <=> control[w].pc = "asking" /\ control[w].action = a
               /\ w \in Asking(a)' <=> to.pc = "asking" /\ to.action = a
               /\ ToldOf(a) \in SUBSET RunWorkers /\ ToldOf(a)' \in SUBSET RunWorkers
               /\ ToldOf(a) \ {w} = ToldOf(a)' \ {w}
               /\ w \in ToldOf(a) <=> control[w].pc \in Obeyed /\ control[w].action = a
               /\ w \in ToldOf(a)' <=> to.pc \in Obeyed /\ to.action = a
    BY <1>1 DEF Asking, ToldOf
  <1>5. /\ Cardinality(Occupied) \in Nat /\ Cardinality(Occupied)' \in Nat
        /\ control[w].pc = "idle" => Cardinality(Occupied)' <= Cardinality(Occupied) + 1
        /\ control[w].pc # "idle" => Cardinality(Occupied)' <= Cardinality(Occupied)
        /\ control[w].pc # "idle" /\ to.pc = "idle" => Cardinality(Occupied)' = Cardinality(Occupied) - 1
    BY <1>2, OneMoves
  <1>6. ASSUME NEW a \in Controls
        PROVE  /\ Cardinality(Asking(a)) \in Nat /\ Cardinality(Asking(a))' \in Nat
               /\ Cardinality(Asking(a))' <= Cardinality(Asking(a)) + 1
               /\ to.pc # "asking" => Cardinality(Asking(a))' <= Cardinality(Asking(a))
               /\ control[w].pc = "asking" /\ control[w].action = a /\ to.pc # "asking"
                  => Cardinality(Asking(a))' = Cardinality(Asking(a)) - 1
    BY <1>4, OneMoves
  <1>7. ASSUME NEW a \in Controls
        PROVE  /\ Cardinality(ToldOf(a)) \in Nat /\ Cardinality(ToldOf(a))' \in Nat
               /\ Cardinality(ToldOf(a))' <= Cardinality(ToldOf(a)) + 1
               /\ to.pc \notin Obeyed \/ to.action # a \/ (control[w].pc \in Obeyed /\ control[w].action = a)
                  => Cardinality(ToldOf(a))' <= Cardinality(ToldOf(a))
               /\ control[w].pc \in Obeyed /\ control[w].action = a /\ to.pc \notin Obeyed
                  => Cardinality(ToldOf(a))' = Cardinality(ToldOf(a)) - 1
    BY <1>4, OneMoves
  <1>8. QED
    BY <1>5, <1>6, <1>7

LEMMA RunInvHolds == RunInit => RunInv
  <1> SUFFICES ASSUME RunInit PROVE RunInv
    OBVIOUS
  <1>1. scenarioRuns \in Seq(RunRows) /\ Len(scenarioRuns) = 0 /\ DOMAIN scenarioRuns = {} /\ OpenRuns = {}
    BY EmptySeq DEF RunInit, OpenRuns
  <1>2. NoControl \in ControlStates /\ NoControl.pc = "idle" /\ NoControl.ends = {} /\ NoControl.alone = FALSE
    BY DEF NoControl, ControlStates, Controls
  <1>3. 0 \in 0..MaxRunRequests /\ 0 \in 0..MaxRestarts
    BY RunAssumption
  <1>4. RunsTyped
    BY <1>1, <1>2, <1>3 DEF RunInit, RunsTyped
  <1>5. Occupied = {} /\ \A a \in Controls : Asking(a) = {} /\ ToldOf(a) = {}
    BY <1>2 DEF RunInit, Occupied, Asking, ToldOf, Obeyed
  <1>6. Cardinality({}) = 0
    BY FS_EmptySet
  <1>7. CallsCounted
    <2>1. Len(scenarioRuns) = 0 /\ Cardinality(Occupied) = 0 /\ asked = 0
      BY <1>1, <1>5, <1>6 DEF RunInit
    <2>2. ASSUME NEW a \in Controls
          PROVE  done[a] = 0 /\ trail[a] = 0 /\ Cardinality(Asking(a)) = 0 /\ Cardinality(ToldOf(a)) = 0
      BY <1>5, <1>6 DEF RunInit
    <2>3. Len(scenarioRuns) + Cardinality(Occupied) <= asked
      BY <2>1
    <2>4. ASSUME NEW a \in Controls
          PROVE  done[a] + Cardinality(Asking(a)) <= asked /\ trail[a] + Cardinality(ToldOf(a)) <= done[a]
      BY <2>1, <2>2
    <2>5. QED
      BY <2>3, <2>4 DEF CallsCounted
  <1>8. StartsEnd /\ AloneHolds /\ SettledHolds /\ NoOpenExport
    BY <1>1, <1>2 DEF RunInit, StartsEnd, AloneHolds, SettledHolds, NoOpenExport
  <1>9. QED
    BY <1>4, <1>7, <1>8 DEF RunInv

\* A step that leaves the record as it is.
LEMMA RecordKept ==
    ASSUME RunInv, NEW w \in RunWorkers, NEW to \in ControlStates, Moves(w, to),
           UNCHANGED <<scenarioRuns, trail, restarts>>, CallsCounted',
           scenario' \in Scenarios \cup {NoScenario}, done' \in [Controls -> Nat], asked' \in 0..MaxRunRequests,
           settled' \in BOOLEAN,
           to.pc \in {"ending", "ended"} => to.action = "create",
           to.ends # {} => to.pc = "ended",
           settled' => /\ settled /\ scenario' = scenario
                       /\ to.pc \in Obeyed => to.action # "create",
           to.alone => /\ to.pc # "idle" /\ to.action = "create" /\ \A v \in RunWorkers \ {w} : ~Starting(v)
                       /\ to.pc = "ending" => to.found = OpenRuns
                       /\ to.pc = "ended" => to.ends = OpenRuns,
           to.pc # "idle" /\ to.action = "create" =>
             Starting(w) \/ \A v \in RunWorkers \ {w} : ~control'[v].alone
    PROVE  RunInv'
  <1>0. RunsTyped /\ StartsEnd /\ AloneHolds /\ SettledHolds /\ NoOpenExport
    BY DEF RunInv
  <1>1. OpenRuns' = OpenRuns /\ NoOpenExport'
    BY <1>0 DEF OpenRuns, NoOpenExport
  <1>2. RunsTyped'
    BY <1>0 DEF RunsTyped, Moves
  <1>3. StartsEnd'
    BY <1>0 DEF StartsEnd, Moves
  <1>4. AloneHolds'
    <2> SUFFICES ASSUME NEW v \in RunWorkers, control'[v].alone PROVE AloneIs(v)'
      BY DEF AloneHolds
    <2>1. CASE v = w
      BY <1>1, <2>1 DEF AloneIs, Starting, Moves
    <2>2. CASE v # w
      <3>1. AloneIs(v)
        BY <1>0, <2>2 DEF AloneHolds, Moves
      <3>2. \A u \in RunWorkers \ {v} : ~Starting(u)'
        <4>1. ~Starting(w)'
          BY <2>2, <3>1 DEF AloneIs, Starting, Moves
        <4>2. QED
          BY <2>2, <3>1, <4>1 DEF AloneIs, Starting, Moves
      <3>3. QED
        BY <1>1, <2>2, <3>1, <3>2 DEF AloneIs, Starting, Moves
    <2>3. QED
      BY <2>1, <2>2
  <1>5. SettledHolds'
    <2> SUFFICES ASSUME settled' PROVE SettledHolds'
      BY DEF SettledHolds
    <2>1. OpenIsRunning'
      BY <1>0, <1>1 DEF SettledHolds, OpenIsRunning
    <2>2. \A v \in RunWorkers : control'[v].pc \in Obeyed => control'[v].action # "create"
      BY <1>0 DEF SettledHolds, Moves
    <2>3. QED
      BY <2>1, <2>2 DEF SettledHolds
  <1>6. QED
    BY <1>1, <1>2, <1>3, <1>4, <1>5 DEF RunInv

\* A request begins.
LEMMA RequestsStep ==
    ASSUME RunInv, NEW w \in RunWorkers, NEW action \in Controls, NEW code \in Scenarios \cup {NoScenario},
           Requests(w, action, code)
    PROVE  RunInv'
  <1> DEFINE starts == {v \in RunWorkers \ {w} : Starting(v)}
             crossed == IF action = "create" THEN starts ELSE {}
             to == [NoControl EXCEPT !.pc = "asking", !.action = action, !.code = code,
                                     !.alone = (action = "create" /\ starts = {})]
  <1>0. RunsTyped /\ CallsCounted /\ StartsEnd /\ AloneHolds
    BY DEF RunInv
  <1>1. /\ to \in ControlStates /\ to.pc = "asking" /\ to.action = action /\ to.ends = {}
        /\ to.alone <=> action = "create" /\ starts = {}
    BY DEF NoControl, ControlStates
  <1>2. control' = [v \in RunWorkers |->
           IF v = w THEN to
           ELSE IF v \in crossed THEN [control[v] EXCEPT !.alone = FALSE]
           ELSE control[v]]
    BY DEF Requests
  <1> HIDE DEF to
  <1>3. Moves(w, to)
    BY <1>0, <1>1, <1>2 DEF RunsTyped, ControlStates, Moves
  <1>4. action = "create" => \A v \in RunWorkers \ {w} : ~control'[v].alone
    <2> SUFFICES ASSUME action = "create", NEW v \in RunWorkers \ {w} PROVE ~control'[v].alone
      OBVIOUS
    <2>1. CASE Starting(v)
      BY <1>0, <1>2, <2>1 DEF RunsTyped, ControlStates
    <2>2. CASE ~Starting(v)
      BY <1>0, <1>2, <2>2 DEF AloneHolds, AloneIs
    <2>3. QED
      BY <2>1, <2>2
  <1>5. control[w].pc = "idle" /\ asked' = asked + 1 /\ asked' \in 0..MaxRunRequests
        /\ UNCHANGED <<scenario, scenarioRuns, trail, restarts, done, settled>>
    <2>1. control[w].pc = "idle" /\ asked < MaxRunRequests /\ asked' = asked + 1
          /\ UNCHANGED <<scenario, scenarioRuns, trail, restarts, done, settled>>
      BY DEF Requests
    <2>2. asked \in 0..MaxRunRequests /\ MaxRunRequests \in Nat
      BY <1>0, RunAssumption DEF RunsTyped
    <2>3. asked' \in 0..MaxRunRequests
      BY <2>1, <2>2
    <2>4. QED
      BY <2>1, <2>3
  <1>6. Len(scenarioRuns) \in Nat /\ asked \in Nat
    BY <1>0, LenProperties DEF RunsTyped
  <1>7. CallsCounted'
    <2>1. Len(scenarioRuns') + Cardinality(Occupied)' <= asked'
      BY <1>0, <1>1, <1>3, <1>5, <1>6, MoveCounts DEF CallsCounted
    <2>2. ASSUME NEW a \in Controls
          PROVE  /\ done'[a] + Cardinality(Asking(a))' <= asked'
                 /\ trail'[a] + Cardinality(ToldOf(a))' <= done'[a]
      <3>1. /\ Cardinality(Asking(a)) \in Nat /\ Cardinality(Asking(a))' \in Nat
            /\ Cardinality(Asking(a))' <= Cardinality(Asking(a)) + 1
            /\ Cardinality(ToldOf(a)) \in Nat /\ Cardinality(ToldOf(a))' \in Nat
            /\ Cardinality(ToldOf(a))' <= Cardinality(ToldOf(a))
        BY <1>0, <1>1, <1>3, MoveCounts DEF Obeyed
      <3>2. done[a] \in Nat /\ trail[a] \in Nat /\ done'[a] = done[a] /\ trail'[a] = trail[a]
        BY <1>0, <1>5 DEF RunsTyped
      <3>3. done[a] + Cardinality(Asking(a)) <= asked /\ trail[a] + Cardinality(ToldOf(a)) <= done[a]
        BY <1>0 DEF CallsCounted
      <3>4. QED
        BY <1>5, <1>6, <3>1, <3>2, <3>3
    <2>3. QED
      BY <2>1, <2>2 DEF CallsCounted
  <1>8. QED
    BY <1>0, <1>1, <1>3, <1>4, <1>5, <1>7, RecordKept DEF RunsTyped, Obeyed

\* The simulator is asked.
LEMMA AskStep ==
    ASSUME RunInv, NEW w \in RunWorkers, AskSimulator(w)
    PROVE  RunInv'
  <1> DEFINE c == control[w]
             action == control[w].action
  <1>0. RunsTyped /\ CallsCounted /\ StartsEnd /\ AloneHolds
    BY DEF RunInv
  <1>1. c \in ControlStates /\ action \in Controls /\ c.code \in Scenarios \cup {NoScenario} /\ c.pc = "asking"
        /\ c.ends = {}
    BY <1>0 DEF RunsTyped, ControlStates, AskSimulator, StartsEnd
  <1>2. UNCHANGED <<scenarioRuns, trail, asked, restarts>>
    BY DEF AskSimulator
  <1>3. NoControl \in ControlStates /\ NoControl.pc = "idle" /\ NoControl.ends = {} /\ NoControl.alone = FALSE
    BY DEF NoControl, ControlStates, Controls
  <1>4. [c EXCEPT !.pc = "told"] \in ControlStates /\ [c EXCEPT !.pc = "told"].pc = "told"
        /\ [c EXCEPT !.pc = "told"].action = action /\ [c EXCEPT !.pc = "told"].ends = {}
        /\ [c EXCEPT !.pc = "told"].alone = c.alone
    BY <1>1 DEF ControlStates
  <1>5. Len(scenarioRuns) \in Nat /\ asked \in Nat
    BY <1>0, LenProperties DEF RunsTyped
  <1>6. ASSUME NEW to \in ControlStates, Moves(w, to), to.pc # "asking",
               done' = [done EXCEPT ![action] = @ + 1], to.pc \in Obeyed => to.action = action
        PROVE  CallsCounted' /\ done' \in [Controls -> Nat]
    <2>0. done' \in [Controls -> Nat]
      BY <1>0, <1>1, <1>6 DEF RunsTyped
    <2>1. Len(scenarioRuns') + Cardinality(Occupied)' <= asked'
      <3>1. /\ Cardinality(Occupied) \in Nat /\ Cardinality(Occupied)' \in Nat
            /\ Cardinality(Occupied)' <= Cardinality(Occupied)
        BY <1>0, <1>1, <1>6, MoveCounts
      <3>2. Len(scenarioRuns) + Cardinality(Occupied) <= asked
        BY <1>0 DEF CallsCounted
      <3>3. QED
        BY <1>2, <1>5, <3>1, <3>2
    <2>2. ASSUME NEW a \in Controls
          PROVE  /\ done'[a] + Cardinality(Asking(a))' <= asked'
                 /\ trail'[a] + Cardinality(ToldOf(a))' <= done'[a]
      <3>1. /\ Cardinality(Asking(a)) \in Nat /\ Cardinality(Asking(a))' \in Nat
            /\ Cardinality(Asking(a))' <= Cardinality(Asking(a))
            /\ action = a => Cardinality(Asking(a))' = Cardinality(Asking(a)) - 1
            /\ Cardinality(ToldOf(a)) \in Nat /\ Cardinality(ToldOf(a))' \in Nat
            /\ Cardinality(ToldOf(a))' <= Cardinality(ToldOf(a)) + 1
            /\ a # action => Cardinality(ToldOf(a))' <= Cardinality(ToldOf(a))
        BY <1>0, <1>1, <1>6, MoveCounts
      <3>2. /\ done[a] \in Nat /\ trail[a] \in Nat /\ trail'[a] = trail[a]
            /\ a = action => done'[a] = done[a] + 1
            /\ a # action => done'[a] = done[a]
        BY <1>0, <1>1, <1>2, <1>6 DEF RunsTyped
      <3>3. done[a] + Cardinality(Asking(a)) <= asked /\ trail[a] + Cardinality(ToldOf(a)) <= done[a]
        BY <1>0 DEF CallsCounted
      <3>4. CASE a = action
        <4>1. Cardinality(Asking(a))' = Cardinality(Asking(a)) - 1 /\ done'[a] = done[a] + 1
          BY <3>1, <3>2, <3>4
        <4>2. done'[a] + Cardinality(Asking(a))' <= asked'
          BY <1>2, <3>1, <3>2, <3>3, <4>1
        <4>3. trail'[a] + Cardinality(ToldOf(a))' <= done'[a]
          BY <3>1, <3>2, <3>3, <4>1
        <4>4. QED
          BY <4>2, <4>3
      <3>5. CASE a # action
        BY <1>2, <1>5, <3>1, <3>2, <3>3, <3>5
      <3>6. QED
        BY <3>4, <3>5
    <2>3. QED
      BY <2>0, <2>1, <2>2 DEF CallsCounted
  <1>7. CASE /\ done' = [done EXCEPT ![c.action] = @ + 1]
             /\ IF c.action = "create" THEN scenario' = c.code /\ settled' = FALSE ELSE UNCHANGED <<scenario, settled>>
             /\ control' = [control EXCEPT ![w].pc = "told"] \/ control' = EndsControl(w)
    <2>1. CASE control' = [control EXCEPT ![w].pc = "told"]
      <3> DEFINE to == [c EXCEPT !.pc = "told"]
      <3>1. control' = [control EXCEPT ![w] = to]
        BY <1>0, <2>1 DEF RunsTyped
      <3>2. to \in ControlStates /\ Moves(w, to)
        BY <1>0, <1>4, <3>1, PlainMove
      <3>3. to.alone => to.action = "create" /\ \A v \in RunWorkers \ {w} : ~Starting(v)
        BY <1>0, <1>4 DEF AloneHolds, AloneIs, Starting
      <3>4. to.pc = "told" /\ to.action = action /\ to.ends = {}
        BY <1>4
      <3> HIDE DEF to
      <3>5. CallsCounted' /\ done' \in [Controls -> Nat]
        BY <1>6, <1>7, <3>2, <3>4
      <3>6. /\ scenario' \in Scenarios \cup {NoScenario} /\ settled' \in BOOLEAN /\ asked' \in 0..MaxRunRequests
            /\ settled' => settled /\ scenario' = scenario /\ to.action # "create"
        BY <1>0, <1>1, <1>2, <1>7, <3>4 DEF RunsTyped
      <3>7. to.action = "create" => Starting(w)
        BY <1>1, <3>4 DEF Starting
      <3>8. QED
        BY <1>2, <3>2, <3>3, <3>4, <3>5, <3>6, <3>7, RecordKept
    <2>2. CASE control' = EndsControl(w)
      <3>1. Moves(w, NoControl)
        BY <1>0, <1>3, <2>2, PlainMove DEF EndsControl
      <3>2. CallsCounted' /\ done' \in [Controls -> Nat]
        BY <1>3, <1>6, <1>7, <3>1 DEF Obeyed
      <3>3. /\ scenario' \in Scenarios \cup {NoScenario} /\ settled' \in BOOLEAN /\ asked' \in 0..MaxRunRequests
            /\ settled' => settled /\ scenario' = scenario
        BY <1>0, <1>1, <1>2, <1>7 DEF RunsTyped
      <3>4. QED
        BY <1>2, <1>3, <3>1, <3>2, <3>3, RecordKept DEF Obeyed
    <2>3. QED
      BY <1>7, <2>1, <2>2
  <1>8. CASE control' = EndsControl(w) /\ UNCHANGED <<scenario, settled, done>>
    <2>1. Moves(w, NoControl)
      BY <1>0, <1>3, <1>8, PlainMove DEF EndsControl
    <2>2. CallsCounted'
      <3>1. Len(scenarioRuns') + Cardinality(Occupied)' <= asked'
        BY <1>0, <1>1, <1>2, <1>3, <1>5, <2>1, MoveCounts DEF CallsCounted
      <3>2. ASSUME NEW a \in Controls
            PROVE  /\ done'[a] + Cardinality(Asking(a))' <= asked'
                   /\ trail'[a] + Cardinality(ToldOf(a))' <= done'[a]
        <4>1. /\ Cardinality(Asking(a)) \in Nat /\ Cardinality(Asking(a))' \in Nat
              /\ Cardinality(Asking(a))' <= Cardinality(Asking(a))
              /\ Cardinality(ToldOf(a)) \in Nat /\ Cardinality(ToldOf(a))' \in Nat
              /\ Cardinality(ToldOf(a))' <= Cardinality(ToldOf(a))
          BY <1>0, <1>3, <2>1, MoveCounts DEF Obeyed
        <4>2. done[a] \in Nat /\ trail[a] \in Nat /\ done'[a] = done[a] /\ trail'[a] = trail[a]
          BY <1>0, <1>2, <1>8 DEF RunsTyped
        <4>3. done[a] + Cardinality(Asking(a)) <= asked /\ trail[a] + Cardinality(ToldOf(a)) <= done[a]
          BY <1>0 DEF CallsCounted
        <4>4. QED
          BY <1>2, <1>5, <4>1, <4>2, <4>3
      <3>3. QED
        BY <3>1, <3>2 DEF CallsCounted
    <2>3. QED
      BY <1>0, <1>2, <1>3, <1>8, <2>1, <2>2, RecordKept DEF RunsTyped, Obeyed
  <1>9. QED
    BY <1>7, <1>8 DEF AskSimulator

\* The counts of a step that neither asks nor tells.
LEMMA CountsKept ==
    ASSUME RunInv, NEW w \in RunWorkers, NEW to \in ControlStates, Moves(w, to),
           control[w].pc # "idle", to.pc # "asking",
           to.pc \in Obeyed => control[w].pc \in Obeyed /\ control[w].action = to.action,
           UNCHANGED <<scenarioRuns, trail, done, asked>>
    PROVE  CallsCounted'
  <1>0. RunsTyped /\ CallsCounted
    BY DEF RunInv
  <1>1. Len(scenarioRuns) \in Nat /\ asked \in Nat
    BY <1>0, LenProperties DEF RunsTyped
  <1>2. Len(scenarioRuns') + Cardinality(Occupied)' <= asked'
    <2>1. /\ Cardinality(Occupied) \in Nat /\ Cardinality(Occupied)' \in Nat
          /\ Cardinality(Occupied)' <= Cardinality(Occupied)
      BY <1>0, MoveCounts
    <2>2. Len(scenarioRuns) + Cardinality(Occupied) <= asked
      BY <1>0 DEF CallsCounted
    <2>3. QED
      BY <1>1, <2>1, <2>2
  <1>3. ASSUME NEW a \in Controls
        PROVE  /\ done'[a] + Cardinality(Asking(a))' <= asked'
               /\ trail'[a] + Cardinality(ToldOf(a))' <= done'[a]
    <2>1. /\ Cardinality(Asking(a)) \in Nat /\ Cardinality(Asking(a))' \in Nat
          /\ Cardinality(Asking(a))' <= Cardinality(Asking(a))
          /\ Cardinality(ToldOf(a)) \in Nat /\ Cardinality(ToldOf(a))' \in Nat
          /\ Cardinality(ToldOf(a))' <= Cardinality(ToldOf(a))
      BY <1>0, MoveCounts
    <2>2. done[a] \in Nat /\ trail[a] \in Nat /\ done'[a] = done[a] /\ trail'[a] = trail[a]
      BY <1>0 DEF RunsTyped
    <2>3. done[a] + Cardinality(Asking(a)) <= asked /\ trail[a] + Cardinality(ToldOf(a)) <= done[a]
      BY <1>0 DEF CallsCounted
    <2>4. QED
      BY <1>1, <2>1, <2>2, <2>3
  <1>4. QED
    BY <1>2, <1>3 DEF CallsCounted

\* Rows that are open are among those there may be.
LEMMA OpenBounded ==
    ASSUME RunInv
    PROVE  OpenRuns \subseteq 1..MaxRunRequests /\ Len(scenarioRuns) \in Nat /\ DOMAIN scenarioRuns = 1..Len(scenarioRuns)
  <1>1. Len(scenarioRuns) \in Nat /\ DOMAIN scenarioRuns = 1..Len(scenarioRuns) /\ asked \in 0..MaxRunRequests
        /\ Len(scenarioRuns) + Cardinality(Occupied) <= asked
    BY LenProperties DEF RunInv, RunsTyped, CallsCounted
  <1>2. Cardinality(Occupied) \in Nat
    BY RunAssumption, FS_Subset, FS_CardinalityType DEF Occupied
  <1>3. Len(scenarioRuns) <= MaxRunRequests
    BY <1>1, <1>2, RunAssumption
  <1>4. QED
    BY <1>1, <1>3, RunAssumption DEF OpenRuns

\* The two halves of the UPDATE.
LEMMA EndingStep ==
    ASSUME RunInv, NEW w \in RunWorkers, FindOpenRuns(w) \/ EndOpenRuns(w)
    PROVE  RunInv'
  <1> DEFINE c == control[w]
             found == [c EXCEPT !.pc = "ending", !.found = OpenRuns]
             ended == [c EXCEPT !.pc = "ended", !.ends = c.found \cap OpenRuns]
             Taken(to) == /\ to \in ControlStates /\ to.pc \in {"ending", "ended"}
                          /\ to.action = "create" /\ to.alone = c.alone
                          /\ to.ends # {} => to.pc = "ended"
                          /\ to.alone => /\ \A v \in RunWorkers \ {w} : ~Starting(v)
                                         /\ to.pc = "ending" => to.found = OpenRuns
                                         /\ to.pc = "ended" => to.ends = OpenRuns
  <1>0. RunsTyped /\ CallsCounted /\ StartsEnd /\ AloneHolds /\ c \in ControlStates
    BY DEF RunInv, RunsTyped
  <1>1. UNCHANGED <<scenario, scenarioRuns, trail, asked, restarts, done, settled>>
        /\ c.pc \in Obeyed /\ c.action = "create"
    BY <1>0 DEF FindOpenRuns, EndOpenRuns, Obeyed, StartsEnd
  <1>2. c.alone => /\ \A v \in RunWorkers \ {w} : ~Starting(v)
                   /\ c.pc = "ending" => c.found = OpenRuns
    BY <1>0 DEF AloneHolds, AloneIs
  <1>3. \E to : Taken(to) /\ control' = [control EXCEPT ![w] = to]
    <2>1. CASE FindOpenRuns(w)
      <3>1. c.ends = {} /\ c.pc = "told"
        BY <1>0, <2>1 DEF StartsEnd, FindOpenRuns
      <3>2. Taken(found)
        BY <1>0, <1>1, <1>2, <3>1, OpenBounded DEF ControlStates
      <3>3. control' = [control EXCEPT ![w] = found]
        BY <1>0, <2>1 DEF FindOpenRuns, RunsTyped
      <3>4. QED
        BY <3>2, <3>3
    <2>2. CASE EndOpenRuns(w)
      <3>1. c.pc = "ending"
        BY <2>2 DEF EndOpenRuns
      <3>2. Taken(ended)
        BY <1>0, <1>1, <1>2, <3>1, OpenBounded DEF ControlStates
      <3>3. control' = [control EXCEPT ![w] = ended]
        BY <1>0, <2>2 DEF EndOpenRuns, RunsTyped
      <3>4. QED
        BY <3>2, <3>3
    <2>3. QED
      BY <2>1, <2>2
  <1>4. PICK to : Taken(to) /\ control' = [control EXCEPT ![w] = to]
    BY <1>3
  <1>5. Moves(w, to)
    BY <1>0, <1>4, PlainMove
  <1>6. CallsCounted'
    BY <1>1, <1>4, <1>5, CountsKept DEF Obeyed
  <1>7. settled => FALSE
    BY <1>1 DEF RunInv, SettledHolds
  <1>8. Starting(w)
    BY <1>1 DEF Starting, Obeyed
  <1>9. QED
    BY <1>0, <1>1, <1>4, <1>5, <1>6, <1>7, <1>8, RecordKept DEF RunsTyped

\* The simulator forgets.
LEMMA RestartStep == ASSUME RunInv, SimulatorRestarts PROVE RunInv'
  <1>0. RunsTyped /\ CallsCounted /\ StartsEnd /\ NoOpenExport
    BY DEF RunInv
  <1>1. /\ \A w \in RunWorkers :
             /\ control'[w] \in ControlStates /\ control'[w].alone = FALSE
             /\ control'[w].pc = control[w].pc /\ control'[w].action = control[w].action
             /\ control'[w].ends = control[w].ends
        /\ control' \in [RunWorkers -> ControlStates]
    BY <1>0 DEF SimulatorRestarts, RunsTyped, ControlStates
  <1>2. /\ scenario' = NoScenario /\ settled' = FALSE /\ restarts' \in 0..MaxRestarts
        /\ UNCHANGED <<scenarioRuns, trail, asked, done>>
    <2>1. restarts < MaxRestarts /\ restarts' = restarts + 1 /\ restarts \in 0..MaxRestarts
      BY <1>0 DEF SimulatorRestarts, RunsTyped
    <2>2. restarts' \in 0..MaxRestarts
      BY <2>1, RunAssumption
    <2>3. QED
      BY <2>2 DEF SimulatorRestarts
  <1>3. RunsTyped'
    BY <1>0, <1>1, <1>2 DEF RunsTyped
  <1>4. Occupied' = Occupied /\ \A a \in Controls : Asking(a)' = Asking(a) /\ ToldOf(a)' = ToldOf(a)
    BY <1>1 DEF Occupied, Asking, ToldOf
  <1>5. CallsCounted'
    BY <1>0, <1>2, <1>4 DEF CallsCounted
  <1>6. StartsEnd' /\ AloneHolds' /\ SettledHolds' /\ NoOpenExport'
    BY <1>0, <1>1, <1>2 DEF StartsEnd, AloneHolds, SettledHolds, NoOpenExport, OpenRuns
  <1>7. QED
    BY <1>3, <1>5, <1>6 DEF RunInv

\* What the commit of a start or of anything else leaves open.
LEMMA RecordAfter ==
    ASSUME RunInv, NEW w \in RunWorkers, NEW c, c = control[w],
           scenarioRuns' = [i \in DOMAIN scenarioRuns |->
                              IF i \in c.ends THEN [scenarioRuns[i] EXCEPT !.open = FALSE] ELSE scenarioRuns[i]]
                           \o Inserted(c)
    PROVE  /\ scenarioRuns' \in Seq(RunRows) /\ Len(scenarioRuns') <= Len(scenarioRuns) + 1
           /\ Len(scenarioRuns') \in Nat /\ DOMAIN scenarioRuns' = 1..Len(scenarioRuns')
           /\ \A i \in OpenRuns' : ~scenarioRuns'[i].export
           /\ c.action = "create" => /\ OpenRuns' = (OpenRuns \ c.ends) \cup {Len(scenarioRuns) + 1}
                                     /\ scenarioRuns'[Len(scenarioRuns) + 1].code = c.code
           /\ c.action # "create" => /\ OpenRuns' = OpenRuns
                                     /\ \A i \in OpenRuns : scenarioRuns'[i] = scenarioRuns[i]
  <1> DEFINE old == [i \in DOMAIN scenarioRuns |->
                       IF i \in c.ends THEN [scenarioRuns[i] EXCEPT !.open = FALSE] ELSE scenarioRuns[i]]
             new == Inserted(c)
             n == Len(scenarioRuns)
  <1>0. /\ RunsTyped /\ NoOpenExport /\ c \in ControlStates /\ n \in Nat /\ DOMAIN scenarioRuns = 1..n
        /\ c.ends # {} => c.action = "create"
    BY OpenBounded DEF RunInv, RunsTyped, StartsEnd
  <1>1. \A i \in 1..n : scenarioRuns[i] \in RunRows
    BY <1>0, ElementOfSeq DEF RunsTyped
  <1>2. /\ old \in Seq(RunRows) /\ Len(old) = n
        /\ \A i \in 1..n : /\ i \in c.ends => old[i].open = FALSE
                           /\ i \notin c.ends => old[i] = scenarioRuns[i]
    <2>1. \A i \in 1..n : old[i] \in RunRows /\ (i \in c.ends => old[i].open = FALSE)
                          /\ (i \notin c.ends => old[i] = scenarioRuns[i])
      BY <1>0, <1>1 DEF RunRows
    <2>2. old \in [1..n -> RunRows]
      BY <1>0, <2>1
    <2> HIDE DEF old
    <2>3. old \in Seq(RunRows) /\ Len(old) = n
      BY <1>0, <2>2, SeqDef, LenProperties
    <2>4. QED
      BY <2>1, <2>3
  <1>3. /\ new \in Seq(RunRows) /\ Len(new) \in 0..1
        /\ c.action = "create" => Len(new) = 1 /\ new[1].open /\ ~new[1].export /\ new[1].code = c.code
        /\ c.action # "create" /\ Len(new) = 1 => ~new[1].open
    <2>1. c.code \in Scenarios \cup {NoScenario}
      BY <1>0 DEF ControlStates
    <2>2. \A r \in RunRows : <<r>> \in Seq(RunRows) /\ Len(<<r>>) = 1 /\ <<r>>[1] = r
      OBVIOUS
    <2>3. CASE c.action = "create"
      <3>1. [code |-> c.code, open |-> TRUE, export |-> FALSE] \in RunRows
        BY <2>1 DEF RunRows
      <3>2. new = <<[code |-> c.code, open |-> TRUE, export |-> FALSE]>>
        BY <2>3 DEF Inserted
      <3> HIDE DEF new
      <3>3. QED
        BY <2>2, <2>3, <3>1, <3>2
    <2>4. CASE c.action = "export"
      <3>1. [code |-> c.code, open |-> FALSE, export |-> TRUE] \in RunRows
        BY <2>1 DEF RunRows
      <3>2. new = <<[code |-> c.code, open |-> FALSE, export |-> TRUE]>>
        BY <2>4 DEF Inserted
      <3> HIDE DEF new
      <3>3. QED
        BY <2>2, <2>4, <3>1, <3>2
    <2>5. CASE c.action \notin {"create", "export"}
      <3>1. new = <<>>
        BY <2>5 DEF Inserted
      <3>2. QED
        BY <2>5, <3>1, EmptySeq
    <2>6. QED
      BY <2>3, <2>4, <2>5
  <1>4. scenarioRuns' = old \o new
    OBVIOUS
  <1> HIDE DEF old, new
  <1>5. /\ scenarioRuns' \in Seq(RunRows) /\ Len(scenarioRuns') = n + Len(new)
        /\ \A i \in 1..(n + Len(new)) : scenarioRuns'[i] = IF i <= n THEN old[i] ELSE new[i - n]
    <2>1. /\ old \o new \in Seq(RunRows) /\ Len(old \o new) = Len(old) + Len(new)
          /\ \A i \in 1..(Len(old) + Len(new)) :
               (old \o new)[i] = IF i <= Len(old) THEN old[i] ELSE new[i - Len(old)]
      <3>1. old \in Seq(RunRows) /\ new \in Seq(RunRows)
        BY <1>2, <1>3
      <3>2. QED
        BY <3>1, ConcatProperties
    <2>2. Len(old) = n
      BY <1>2
    <2>3. QED
      BY <2>1, <2>2, <1>4, Zenon
  <1>6. DOMAIN scenarioRuns' = 1..Len(scenarioRuns')
    BY <1>5, LenProperties
  <1>7. /\ \A i \in 1..n : /\ i \in c.ends => scenarioRuns'[i].open = FALSE
                           /\ i \notin c.ends => scenarioRuns'[i] = scenarioRuns[i]
        /\ n + 1 \in DOMAIN scenarioRuns' <=> Len(new) = 1
        /\ Len(new) = 1 => scenarioRuns'[n + 1] = new[1]
        /\ DOMAIN scenarioRuns' \subseteq 1..(n + 1) /\ 1..n \subseteq DOMAIN scenarioRuns'
    BY <1>0, <1>2, <1>3, <1>5, <1>6
  <1>8. CASE c.action = "create"
    <2>1. OpenRuns' = (OpenRuns \ c.ends) \cup {n + 1}
      BY <1>0, <1>3, <1>7, <1>8 DEF OpenRuns
    <2>2. \A i \in OpenRuns' : ~scenarioRuns'[i].export
      BY <1>0, <1>3, <1>7, <1>8, <2>1 DEF OpenRuns, NoOpenExport
    <2>3. Len(new) = 1 /\ new[1].code = c.code
      BY <1>3, <1>8
    <2>4. Len(scenarioRuns') = n + 1 /\ n + 1 \in Nat
      BY <1>0, <1>5, <2>3
    <2>5. scenarioRuns'[n + 1].code = c.code
      BY <1>7, <2>3
    <2>6. scenarioRuns' \in Seq(RunRows) /\ Len(scenarioRuns') \in Nat /\ Len(scenarioRuns') <= n + 1
      BY <1>5, <2>4
    <2>7. c.action = "create" => /\ OpenRuns' = (OpenRuns \ c.ends) \cup {n + 1}
                                 /\ scenarioRuns'[n + 1].code = c.code
      BY <2>1, <2>5
    <2>8. ~(c.action # "create")
      BY <1>8
    <2>9. QED
      BY <1>6, <2>2, <2>6, <2>7, <2>8, Zenon
  <1>9. CASE c.action # "create"
    <2>1. c.ends = {}
      BY <1>0, <1>9
    <2>2. OpenRuns' = OpenRuns /\ \A i \in OpenRuns : scenarioRuns'[i] = scenarioRuns[i]
      BY <1>0, <1>3, <1>7, <1>9, <2>1 DEF OpenRuns
    <2>3. \A i \in OpenRuns' : ~scenarioRuns'[i].export
      BY <1>0, <2>2 DEF NoOpenExport
    <2>4. Len(scenarioRuns') \in Nat
      BY <1>0, <1>3, <1>5
    <2>5. scenarioRuns' \in Seq(RunRows) /\ Len(scenarioRuns') <= n + 1
      BY <1>0, <1>3, <1>5
    <2>6. ~(c.action = "create")
      BY <1>9
    <2>7. QED
      BY <1>6, <2>2, <2>3, <2>4, <2>5, <2>6, Zenon
  <1>10. QED
    BY <1>8, <1>9

LEMMA CommitStep == ASSUME RunInv, NEW w \in RunWorkers, CommitControl(w) PROVE RunInv'
  <1> DEFINE c == control[w]
  <1>0. RunsTyped /\ CallsCounted /\ StartsEnd /\ AloneHolds /\ SettledHolds /\ c \in ControlStates /\ c.action \in Controls
    BY DEF RunInv, RunsTyped, ControlStates
  <1>1. NoControl \in ControlStates /\ NoControl.pc = "idle" /\ NoControl.ends = {} /\ NoControl.alone = FALSE
    BY DEF NoControl, ControlStates, Controls
  <1>2. /\ c.pc = (IF c.action = "create" THEN "ended" ELSE "told") /\ c.pc \in Obeyed /\ c.pc # "idle"
        /\ control' = [control EXCEPT ![w] = NoControl] /\ UNCHANGED <<scenario, asked, restarts, done>>
    BY DEF CommitControl, EndsControl, Obeyed
  <1>3. Moves(w, NoControl)
    BY <1>0, <1>1, <1>2, PlainMove
  <1>4. CASE UNCHANGED <<trail, scenarioRuns, settled>>
    <2>1. CallsCounted'
      BY <1>1, <1>2, <1>3, <1>4, CountsKept DEF Obeyed
    <2>2. QED
      BY <1>0, <1>1, <1>2, <1>3, <1>4, <2>1, RecordKept DEF RunsTyped, Obeyed
  <1>5. CASE /\ trail' = [trail EXCEPT ![c.action] = @ + 1]
             /\ scenarioRuns' = [i \in DOMAIN scenarioRuns |->
                                   IF i \in c.ends THEN [scenarioRuns[i] EXCEPT !.open = FALSE] ELSE scenarioRuns[i]]
                                \o Inserted(c)
             /\ settled' = (settled \/ (c.alone /\ scenario = c.code))
    <2> DEFINE n == Len(scenarioRuns)
    <2>1. /\ scenarioRuns' \in Seq(RunRows) /\ Len(scenarioRuns') <= n + 1 /\ Len(scenarioRuns') \in Nat
          /\ DOMAIN scenarioRuns' = 1..Len(scenarioRuns')
          /\ NoOpenExport'
          /\ c.action = "create" => /\ OpenRuns' = (OpenRuns \ c.ends) \cup {n + 1}
                                    /\ scenarioRuns'[n + 1].code = c.code
          /\ c.action # "create" => /\ OpenRuns' = OpenRuns
                                    /\ \A i \in OpenRuns : scenarioRuns'[i] = scenarioRuns[i]
      BY <1>5, RecordAfter DEF NoOpenExport
    <2>2. n \in Nat /\ asked \in Nat
      BY <1>0, LenProperties DEF RunsTyped
    <2>3. RunsTyped'
      <3>1. settled' \in BOOLEAN
        BY <1>0, <1>5 DEF RunsTyped
      <3>2. trail' \in [Controls -> Nat]
        BY <1>0, <1>5 DEF RunsTyped
      <3>3. control' \in [RunWorkers -> ControlStates]
        BY <1>3 DEF Moves
      <3>4. QED
        BY <1>0, <1>2, <2>1, <3>1, <3>2, <3>3 DEF RunsTyped
    <2>4. CallsCounted'
      <3>1. Len(scenarioRuns') + Cardinality(Occupied)' <= asked'
        <4>1. Cardinality(Occupied) \in Nat /\ Cardinality(Occupied)' = Cardinality(Occupied) - 1
          BY <1>0, <1>1, <1>2, <1>3, MoveCounts
        <4>2. n + Cardinality(Occupied) <= asked
          BY <1>0 DEF CallsCounted
        <4>3. QED
          BY <1>2, <2>1, <2>2, <4>1, <4>2
      <3>2. ASSUME NEW a \in Controls
            PROVE  /\ done'[a] + Cardinality(Asking(a))' <= asked'
                   /\ trail'[a] + Cardinality(ToldOf(a))' <= done'[a]
        <4>1. /\ Cardinality(Asking(a)) \in Nat /\ Cardinality(Asking(a))' \in Nat
              /\ Cardinality(Asking(a))' <= Cardinality(Asking(a))
              /\ Cardinality(ToldOf(a)) \in Nat /\ Cardinality(ToldOf(a))' \in Nat
              /\ Cardinality(ToldOf(a))' <= Cardinality(ToldOf(a))
              /\ c.action = a => Cardinality(ToldOf(a))' = Cardinality(ToldOf(a)) - 1
          BY <1>0, <1>1, <1>2, <1>3, MoveCounts DEF Obeyed
        <4>2. /\ done[a] \in Nat /\ trail[a] \in Nat /\ done'[a] = done[a]
              /\ c.action = a => trail'[a] = trail[a] + 1
              /\ c.action # a => trail'[a] = trail[a]
          BY <1>0, <1>2, <1>5 DEF RunsTyped
        <4>3. done[a] + Cardinality(Asking(a)) <= asked /\ trail[a] + Cardinality(ToldOf(a)) <= done[a]
          BY <1>0 DEF CallsCounted
        <4>4. done'[a] + Cardinality(Asking(a))' <= asked'
          BY <1>2, <2>2, <4>1, <4>2, <4>3
        <4>5. trail'[a] + Cardinality(ToldOf(a))' <= done'[a]
          <5>1. CASE c.action = a
            <6>1. Cardinality(ToldOf(a))' = Cardinality(ToldOf(a)) - 1 /\ trail'[a] = trail[a] + 1
              BY <4>1, <4>2, <5>1
            <6>2. QED
              BY <4>1, <4>2, <4>3, <6>1
          <5>2. CASE c.action # a
            <6>1. trail'[a] = trail[a]
              BY <4>2, <5>2
            <6>2. QED
              BY <4>1, <4>2, <4>3, <6>1
          <5>3. QED
            BY <5>1, <5>2
        <4>6. QED
          BY <4>4, <4>5
      <3>3. QED
        BY <3>1, <3>2 DEF CallsCounted
    <2>5. StartsEnd'
      BY <1>0, <1>1, <1>3 DEF StartsEnd, Moves
    <2>6. AloneHolds'
      <3> SUFFICES ASSUME NEW v \in RunWorkers, control'[v].alone PROVE AloneIs(v)'
        BY DEF AloneHolds
      <3>1. v # w /\ control[v].alone /\ AloneIs(v)
        BY <1>0, <1>1, <1>3 DEF AloneHolds, Moves
      <3>2. c.action # "create"
        BY <1>2, <3>1 DEF AloneIs, Starting
      <3>3. OpenRuns' = OpenRuns
        BY <2>1, <3>2
      <3>4. \A u \in RunWorkers : Starting(u)' => Starting(u)
        BY <1>1, <1>3 DEF Starting, Moves
      <3>5. Starting(v)' /\ control'[v].pc = control[v].pc /\ control'[v].found = control[v].found
            /\ control'[v].ends = control[v].ends
        BY <1>3, <3>1 DEF AloneIs, Starting, Moves
      <3>6. QED
        BY <3>1, <3>3, <3>4, <3>5 DEF AloneIs
    <2>7. SettledHolds'
      <3> SUFFICES ASSUME settled' PROVE SettledHolds'
        BY DEF SettledHolds
      <3>1. CASE c.action = "create"
        <4>1. ~settled
          BY <1>0, <1>2, <3>1 DEF SettledHolds
        <4>2. c.alone /\ scenario = c.code
          BY <1>5, <4>1
        <4>3. AloneIs(w) /\ c.ends = OpenRuns
          BY <1>0, <1>2, <3>1, <4>2 DEF AloneHolds, AloneIs
        <4>4. OpenRuns' = {n + 1} /\ scenarioRuns'[n + 1].code = scenario'
          BY <1>2, <2>1, <3>1, <4>2, <4>3
        <4>5. n + 1 \in DOMAIN scenarioRuns'
          BY <4>4 DEF OpenRuns
        <4>6. \A v \in RunWorkers : control'[v].pc \in Obeyed => control'[v].action # "create"
          BY <1>1, <1>3, <4>3 DEF AloneIs, Starting, Moves, Obeyed
        <4>7. QED
          BY <4>4, <4>5, <4>6 DEF SettledHolds, OpenIsRunning
      <3>2. CASE c.action # "create"
        <4>1. ~c.alone
          BY <1>0, <3>2 DEF AloneHolds, AloneIs, Starting
        <4>2. settled
          BY <1>5, <4>1
        <4>3. PICK i \in DOMAIN scenarioRuns : OpenRuns = {i} /\ scenarioRuns[i].code = scenario
          BY <1>0, <4>2 DEF SettledHolds, OpenIsRunning
        <4>4. OpenRuns' = {i} /\ scenarioRuns'[i].code = scenario' /\ i \in DOMAIN scenarioRuns'
          BY <1>2, <2>1, <3>2, <4>3 DEF OpenRuns
        <4>5. \A v \in RunWorkers : control'[v].pc \in Obeyed => control'[v].action # "create"
          BY <1>0, <1>1, <1>3, <4>2 DEF SettledHolds, Moves, Obeyed
        <4>6. QED
          BY <4>4, <4>5 DEF SettledHolds, OpenIsRunning
      <3>3. QED
        BY <3>1, <3>2
    <2>8. QED
      BY <2>1, <2>3, <2>4, <2>5, <2>6, <2>7 DEF RunInv
  <1>6. QED
    BY <1>4, <1>5 DEF CommitControl

LEMMA RunInvKept == RunInv /\ [RunNext]_runVars => RunInv'
  <1> SUFFICES ASSUME RunInv, [RunNext]_runVars PROVE RunInv'
    OBVIOUS
  <1>1. CASE UNCHANGED runVars
    <2>1. Occupied' = Occupied /\ \A a \in Controls : Asking(a)' = Asking(a) /\ ToldOf(a)' = ToldOf(a)
      BY <1>1 DEF runVars, Occupied, Asking, ToldOf
    <2>2. CallsCounted'
      BY <1>1, <2>1 DEF runVars, RunInv, CallsCounted
    <2>3. QED
      BY <1>1, <2>2 DEF runVars, RunInv, RunsTyped, StartsEnd, AloneHolds, AloneIs, Starting, SettledHolds,
         OpenIsRunning, NoOpenExport, OpenRuns
  <1>2. CASE SimulatorRestarts
    BY <1>2, RestartStep
  <1>3. ASSUME NEW w \in RunWorkers,
               RequestScenario(w) \/ RequestFault(w) \/ RequestTimeScale(w) \/ RequestReset(w) \/ RequestExport(w)
        PROVE  RunInv'
    <2>1. PICK action \in Controls, code \in Scenarios \cup {NoScenario} : Requests(w, action, code)
      BY <1>3 DEF RequestScenario, RequestFault, RequestTimeScale, RequestReset, RequestExport, Controls
    <2>2. QED
      BY <2>1, RequestsStep
  <1>4. ASSUME NEW w \in RunWorkers, AskSimulator(w) PROVE RunInv'
    BY <1>4, AskStep
  <1>5. ASSUME NEW w \in RunWorkers, FindOpenRuns(w) \/ EndOpenRuns(w) PROVE RunInv'
    BY <1>5, EndingStep
  <1>6. ASSUME NEW w \in RunWorkers, CommitControl(w) PROVE RunInv'
    BY <1>6, CommitStep
  <1>7. QED
    BY <1>1, <1>2, <1>3, <1>4, <1>5, <1>6 DEF RunNext

\* The counts are enough for the bounds, and for the record.
LEMMA RunInvEnough == RunInv => RunTypeOK /\ RunsSound
  <1> SUFFICES ASSUME RunInv PROVE RunTypeOK /\ RunsSound
    OBVIOUS
  <1>0. RunsTyped /\ CallsCounted /\ SettledHolds /\ NoOpenExport /\ asked \in 0..MaxRunRequests /\ MaxRunRequests \in Nat
    BY RunAssumption DEF RunInv, RunsTyped
  <1>1. ASSUME NEW a \in Controls
        PROVE  trail[a] \in 0..MaxRunRequests /\ done[a] \in 0..MaxRunRequests /\ trail[a] <= done[a]
    <2>1. Cardinality(Asking(a)) \in Nat /\ Cardinality(ToldOf(a)) \in Nat
      BY RunAssumption, FS_Subset, FS_CardinalityType DEF Asking, ToldOf
    <2>2. trail[a] \in Nat /\ done[a] \in Nat
      BY <1>0 DEF RunsTyped
    <2>3. done[a] + Cardinality(Asking(a)) <= asked /\ trail[a] + Cardinality(ToldOf(a)) <= done[a]
      BY <1>0 DEF CallsCounted
    <2>4. QED
      BY <1>0, <2>1, <2>2, <2>3
  <1>2. \A i \in DOMAIN scenarioRuns : scenarioRuns[i] \in RunRows
    BY <1>0, OpenBounded, ElementOfSeq DEF RunsTyped
  <1>3. trail \in [Controls -> 0..MaxRunRequests] /\ done \in [Controls -> 0..MaxRunRequests]
    BY <1>0, <1>1 DEF RunsTyped
  <1>4. RunTypeOK
    BY <1>0, <1>2, <1>3 DEF RunTypeOK, RunsTyped, RunRows, ControlStates
  <1>5. ScenarioRecorded
    <2> SUFFICES ASSUME settled PROVE ScenarioRecorded
      BY DEF ScenarioRecorded
    <2>1. PICK i \in DOMAIN scenarioRuns : OpenRuns = {i} /\ scenarioRuns[i].code = scenario
      BY <1>0 DEF SettledHolds, OpenIsRunning
    <2>2. Cardinality(OpenRuns) = 1
      BY <2>1, FS_Singleton
    <2>3. QED
      BY <2>1, <2>2 DEF ScenarioRecorded
  <1>6. QED
    BY <1>0, <1>1, <1>4, <1>5 DEF RunsSound, NothingInvented, NoOpenExport

-----------------------------------------------------------------------------
(* The Sparkplug node: its wills, numbers and births. *)

\* The lock is the live loop's exactly between its number and its publish.
LoopHoldsLock == publisher.pc = "numbered" <=> holder.thread = "publisher"

\* The will set is of the present bdSeq, and a connection has the will that was
\* set when it began.
WillIsSet == will = bdSeq /\ (link = "up" => session.will = bdSeq /\ paho # "lost")

\* A host knows the birth of every device the node remembers to have born, and
\* the last number it has read is the node's, but for one that is taken and not
\* published yet.
NodeInStep ==
    link = "up" /\ session.birth # NoBirth =>
        /\ born \subseteq session.announced
        /\ IF publisher.pc = "numbered" THEN seq = (session.last.seq + 1) % SeqModulus ELSE seq = session.last.seq

SeqNumbers == 0..SeqModulus - 1
NodeMessages   == [type : {"none", "NBIRTH", "DBIRTH", "DDATA"}, device : Devices \cup {NoDevice}, seq : SeqNumbers]
NodeSessions   == [will : SeqNumbers, birth : SeqNumbers \cup {NoBirth}, announced : SUBSET Devices, last : NodeMessages]
NodePublishers == [device : Devices \cup {NoDevice}, pc : {"idle", "stored", "checked", "numbered"}]
NodeHolders    == [thread : {"none", "paho", "api", "publisher"}, todo : SUBSET Devices, size : SUBSET Devices]

\* The types of the records, as sets.
NodeTyped ==
    /\ session \in NodeSessions /\ publisher \in NodePublishers /\ holder \in NodeHolders
    /\ publisher.pc # "idle" => publisher.device \in stored

NodeInv == NodeTypeOK /\ NodeTyped /\ LoopHoldsLock /\ WillIsSet /\ NodeInStep /\ DeathMatchesBirth

LEMMA NodeNumbers == 0 \in SeqNumbers /\ NoBirth \notin SeqNumbers /\ \A n \in SeqNumbers : (n + 1) % SeqModulus \in SeqNumbers
  BY NodeAssumption DEF SeqNumbers, NoBirth

LEMMA FreshSession ==
    ASSUME NEW n \in SeqNumbers
    PROVE  /\ NewSession(n) \in NodeSessions /\ NewSession(n).will = n /\ NewSession(n).birth = NoBirth
           /\ NewSession(n).announced = {}
  BY NodeNumbers DEF NewSession, Nothing, NodeSessions, NodeMessages

LEMMA FreshHolder ==
    NoHolder \in NodeHolders /\ NoHolder.thread = "none" /\ NoHolder.todo = {} /\ NoHolder.size = {}
  BY DEF NoHolder, NodeHolders

\* What a publish at QoS 0 does to the session.
LEMMA DeliveredTo ==
    ASSUME NodeInv, NEW type \in {"NBIRTH", "DBIRTH", "DDATA"}, NEW d \in Devices \cup {NoDevice}, NEW n \in SeqNumbers,
           type = "DBIRTH" => d \in Devices, Delivered(type, d, n)
    PROVE  /\ session' \in NodeSessions
           /\ link = "down" => session' = session
           /\ link # "down" =>
                /\ session'.last.type = type /\ session'.last.device = d /\ session'.last.seq = n
                /\ session'.will = session.will
                /\ session'.birth = IF type = "NBIRTH" THEN bdSeq ELSE session.birth
                /\ session'.announced = IF type = "NBIRTH" THEN {} ELSE IF type = "DBIRTH" THEN session.announced \cup {d}
                                        ELSE session.announced
  <1>1. session \in NodeSessions /\ bdSeq \in SeqNumbers
    BY DEF NodeInv, NodeTyped, NodeTypeOK, SeqNumbers
  <1>2. CASE link = "down"
    BY <1>1, <1>2 DEF Delivered
  <1>3. CASE link # "down" /\ type = "NBIRTH"
    BY <1>1, <1>3 DEF Delivered, NodeSessions, NodeMessages
  <1>4. CASE link # "down" /\ type = "DBIRTH"
    BY <1>1, <1>4 DEF Delivered, NodeSessions, NodeMessages
  <1>5. CASE link # "down" /\ type = "DDATA"
    BY <1>1, <1>5 DEF Delivered, NodeSessions, NodeMessages
  <1>6. QED
    BY <1>2, <1>3, <1>4, <1>5

LEMMA NodeInitHolds == NodeInit => NodeInv
  <1> SUFFICES ASSUME NodeInit PROVE NodeInv
    OBVIOUS
  <1> USE DEF NodeInit
  <1>1. NewSession(0) \in NodeSessions /\ NewSession(0).birth = NoBirth /\ NewSession(0).will = 0
    BY NodeNumbers, FreshSession
  <1>2. NodeTypeOK
    BY <1>1, NodeNumbers, FreshHolder DEF NodeTypeOK, SeqNumbers
  <1>3. NodeTyped
    BY <1>1, FreshHolder DEF NodeTyped, NodePublishers
  <1>4. LoopHoldsLock /\ WillIsSet /\ NodeInStep /\ DeathMatchesBirth
    BY <1>1, FreshHolder DEF LoopHoldsLock, WillIsSet, NodeInStep, DeathMatchesBirth
  <1>5. QED
    BY <1>2, <1>3, <1>4 DEF NodeInv

-----------------------------------------------------------------------------
(* The client's thread, and the request's. *)

LEMMA ConnectionKeeps ==
    NodeInv /\ (Connected \/ ConnectionLost \/ OnDisconnect \/ RebirthRequested \/ ScenarioStarted) => NodeInv'
  <1> SUFFICES ASSUME NodeInv, Connected \/ ConnectionLost \/ OnDisconnect \/ RebirthRequested \/ ScenarioStarted PROVE NodeInv'
    OBVIOUS
  <1>0. will \in SeqNumbers /\ bdSeq \in SeqNumbers
    BY DEF NodeInv, NodeTypeOK, SeqNumbers
  <1>1. CASE Connected
    <2>1. /\ session' \in NodeSessions /\ session'.birth = NoBirth /\ session'.will = will /\ link' = "up" /\ paho' = "connected"
          /\ UNCHANGED <<api, publisher, holder, bdSeq, seq, born, stored, will>>
      BY <1>0, <1>1, FreshSession DEF Connected
    <2>2. NodeTypeOK'
      BY <2>1 DEF NodeInv, NodeTypeOK
    <2>3. NodeTyped' /\ LoopHoldsLock' /\ WillIsSet' /\ NodeInStep' /\ DeathMatchesBirth'
      BY <2>1 DEF NodeInv, NodeTyped, LoopHoldsLock, WillIsSet, NodeInStep, DeathMatchesBirth
    <2>4. QED
      BY <2>2, <2>3 DEF NodeInv
  <1>2. CASE ConnectionLost
    BY <1>2 DEF ConnectionLost, NodeInv, NodeTypeOK, NodeTyped, LoopHoldsLock, WillIsSet, NodeInStep, DeathMatchesBirth
  <1>3. CASE OnDisconnect
    <2>1. bdSeq' \in SeqNumbers /\ will' = bdSeq' /\ born' = {} /\ paho' = "idle"
          /\ UNCHANGED <<link, api, publisher, holder, seq, stored, session>>
      BY <1>0, <1>3, NodeNumbers DEF OnDisconnect
    <2>2. link = "down"
      BY <1>3 DEF OnDisconnect, NodeInv, NodeTypeOK, WillIsSet
    <2>3. QED
      BY <2>1, <2>2 DEF NodeInv, NodeTypeOK, NodeTyped, LoopHoldsLock, WillIsSet, NodeInStep, DeathMatchesBirth, SeqNumbers
  <1>4. CASE RebirthRequested
    BY <1>4 DEF RebirthRequested, NodeInv, NodeTypeOK, NodeTyped, LoopHoldsLock, WillIsSet, NodeInStep, DeathMatchesBirth
  <1>5. CASE ScenarioStarted
    BY <1>5 DEF ScenarioStarted, NodeInv, NodeTypeOK, NodeTyped, LoopHoldsLock, WillIsSet, NodeInStep, DeathMatchesBirth
  <1>6. QED
    BY <1>1, <1>2, <1>3, <1>4, <1>5

LEMMA RebirthKeeps ==
    NodeInv /\ ((\E thread \in {"paho", "api"} : BeginRebirth(thread)) \/ BirthDevice \/ EndRebirth \/ RebirthRaises) => NodeInv'
  <1> SUFFICES ASSUME NodeInv, (\E thread \in {"paho", "api"} : BeginRebirth(thread)) \/ BirthDevice \/ EndRebirth \/ RebirthRaises
               PROVE  NodeInv'
    OBVIOUS
  <1>0. seq \in SeqNumbers /\ bdSeq \in SeqNumbers /\ link \in {"up", "down"} /\ session.birth \in SeqNumbers \cup {NoBirth}
    BY DEF NodeInv, NodeTypeOK, SeqNumbers
  <1>1. CASE \E thread \in {"paho", "api"} : BeginRebirth(thread)
    <2>1. PICK thread \in {"paho", "api"} : BeginRebirth(thread)
      BY <1>1
    <2>2. /\ publisher.pc # "numbered" /\ seq' = 0 /\ born' = {} /\ Delivered("NBIRTH", NoDevice, 0)
          /\ holder' = [thread |-> thread, todo |-> stored, size |-> stored]
          /\ UNCHANGED <<link, paho, api, publisher, bdSeq, stored, will>>
      BY <2>1, FreshHolder DEF BeginRebirth, NodeInv, LoopHoldsLock
    <2>3. /\ session' \in NodeSessions
          /\ link = "down" => session' = session
          /\ link # "down" => /\ session'.last.seq = 0 /\ session'.will = session.will
                              /\ session'.birth = bdSeq /\ session'.announced = {}
      BY <2>2, NodeNumbers, DeliveredTo
    <2>4. NodeTypeOK'
      <3>1. session'.birth \in SeqNumbers \cup {NoBirth}
        BY <2>3 DEF NodeSessions
      <3>2. seq' \in SeqNumbers
        BY <2>2, NodeNumbers
      <3>3. QED
        BY <2>2, <3>1, <3>2 DEF NodeInv, NodeTypeOK, SeqNumbers
    <2>5. NodeTyped' /\ LoopHoldsLock'
      BY <2>2, <2>3 DEF NodeInv, NodeTypeOK, NodeTyped, LoopHoldsLock, NodeHolders
    <2>6. WillIsSet' /\ NodeInStep' /\ DeathMatchesBirth'
      BY <1>0, <2>2, <2>3 DEF NodeInv, WillIsSet, NodeInStep, DeathMatchesBirth
    <2>7. QED
      BY <2>4, <2>5, <2>6 DEF NodeInv
  <1>2. CASE BirthDevice
    <2>1. PICK d \in holder.todo :
            /\ seq' = NextSeq /\ Delivered("DBIRTH", d, NextSeq) /\ born' = born \cup {d}
            /\ holder' = [holder EXCEPT !.todo = @ \ {d}]
      BY <1>2 DEF BirthDevice
    <2>2. /\ holder.thread \in {"paho", "api"} /\ publisher.pc # "numbered" /\ d \in stored /\ d \in Devices
          /\ UNCHANGED <<link, paho, api, publisher, bdSeq, stored, will>>
      BY <1>2 DEF BirthDevice, Rebirthing, NodeInv, LoopHoldsLock, NodeTyped, NodeHolders, NodeTypeOK
    <2>3. NextSeq \in SeqNumbers
      BY <1>0, NodeNumbers DEF NextSeq
    <2>4. /\ session' \in NodeSessions
          /\ link = "down" => session' = session
          /\ link # "down" => /\ session'.last.seq = NextSeq /\ session'.will = session.will
                              /\ session'.birth = session.birth /\ session'.announced = session.announced \cup {d}
      BY <2>1, <2>2, <2>3, DeliveredTo
    <2>5. holder' \in NodeHolders /\ holder'.thread = holder.thread /\ holder'.todo \subseteq holder'.size
      BY <2>1 DEF NodeInv, NodeTyped, NodeHolders, NodeTypeOK
    <2>6. NodeTypeOK'
      <3>1. session'.birth \in SeqNumbers \cup {NoBirth}
        BY <2>4 DEF NodeSessions
      <3>2. born' \subseteq stored'
        BY <2>1, <2>2 DEF NodeInv, NodeTypeOK
      <3>3. seq' \in SeqNumbers
        BY <2>1, <2>3
      <3>4. QED
        BY <2>2, <2>5, <3>1, <3>2, <3>3 DEF NodeInv, NodeTypeOK, SeqNumbers, NodeHolders
    <2>7. NodeTyped' /\ LoopHoldsLock'
      BY <2>2, <2>4, <2>5 DEF NodeInv, NodeTyped, LoopHoldsLock
    <2>8. WillIsSet' /\ DeathMatchesBirth'
      BY <2>2, <2>4 DEF NodeInv, NodeTypeOK, WillIsSet, DeathMatchesBirth
    <2>9. NodeInStep'
      <3> SUFFICES ASSUME link = "up", session.birth # NoBirth
                   PROVE  born' \subseteq session'.announced /\ seq' = session'.last.seq
        BY <2>2, <2>4 DEF NodeInv, NodeTypeOK, NodeInStep
      <3>1. QED
        BY <2>1, <2>4 DEF NodeInv, NodeInStep
    <2>10. QED
      BY <2>6, <2>7, <2>8, <2>9 DEF NodeInv
  <1>3. CASE EndRebirth \/ RebirthRaises
    <2>1. /\ holder' = NoHolder /\ holder.thread \in {"paho", "api"} /\ publisher.pc # "numbered"
          /\ UNCHANGED <<link, publisher, bdSeq, seq, born, stored, will, session>>
      BY <1>3 DEF EndRebirth, RebirthRaises, Returns, Rebirthing, NodeInv, LoopHoldsLock
    <2>2. /\ paho' \in {"idle", "connected", "rebirth", "lost", "dead"} /\ api' \in {"idle", "rebirth"}
          /\ paho' \in {paho, "idle", "dead"}
      BY <1>3 DEF EndRebirth, RebirthRaises, Returns, NodeInv, NodeTypeOK
    <2>3. NodeTypeOK'
      BY <2>1, <2>2, FreshHolder DEF NodeInv, NodeTypeOK
    <2>4. NodeTyped' /\ LoopHoldsLock'
      BY <2>1, FreshHolder DEF NodeInv, NodeTyped, LoopHoldsLock
    <2>5. WillIsSet' /\ NodeInStep' /\ DeathMatchesBirth'
      BY <2>1, <2>2 DEF NodeInv, WillIsSet, NodeInStep, DeathMatchesBirth
    <2>6. QED
      BY <2>3, <2>4, <2>5 DEF NodeInv
  <1>4. QED
    BY <1>1, <1>2, <1>3

-----------------------------------------------------------------------------
(* The live loop. *)

LEMMA LoopKeeps ==
    NodeInv /\ ((\E d \in Devices : StoreValues(d)) \/ CheckConnected \/ TakeSeq) => NodeInv'
  <1> SUFFICES ASSUME NodeInv, (\E d \in Devices : StoreValues(d)) \/ CheckConnected \/ TakeSeq PROVE NodeInv'
    OBVIOUS
  <1>0. seq \in SeqNumbers /\ publisher \in NodePublishers
    BY DEF NodeInv, NodeTypeOK, SeqNumbers, NodeTyped
  <1>1. CASE \E d \in Devices : StoreValues(d)
    <2>1. PICK d \in Devices : StoreValues(d)
      BY <1>1
    <2>2. /\ stored' = stored \cup {d} /\ publisher' = [device |-> d, pc |-> "stored"] /\ publisher.pc = "idle"
          /\ UNCHANGED <<link, paho, api, holder, bdSeq, seq, born, will, session>>
      BY <2>1 DEF StoreValues
    <2>3. publisher' \in NodePublishers /\ publisher'.pc = "stored" /\ publisher'.device = d
      BY <2>2 DEF NodePublishers
    <2>4. NodeTypeOK'
      BY <2>2, <2>3 DEF NodeInv, NodeTypeOK
    <2>5. NodeTyped' /\ LoopHoldsLock' /\ WillIsSet' /\ NodeInStep' /\ DeathMatchesBirth'
      BY <2>2, <2>3 DEF NodeInv, NodeTyped, LoopHoldsLock, WillIsSet, NodeInStep, DeathMatchesBirth
    <2>6. QED
      BY <2>4, <2>5 DEF NodeInv
  <1>2. CASE CheckConnected
    <2>1. /\ publisher' \in NodePublishers /\ publisher'.pc \in {"idle", "checked"} /\ publisher.pc = "stored"
          /\ publisher'.pc # "idle" => publisher'.device = publisher.device
          /\ UNCHANGED <<link, paho, api, holder, bdSeq, seq, born, stored, will, session>>
      BY <1>0, <1>2 DEF CheckConnected, NodePublishers
    <2>2. NodeTypeOK'
      BY <2>1 DEF NodeInv, NodeTypeOK, NodePublishers
    <2>3. NodeTyped' /\ LoopHoldsLock' /\ WillIsSet' /\ NodeInStep' /\ DeathMatchesBirth'
      BY <2>1 DEF NodeInv, NodeTyped, LoopHoldsLock, WillIsSet, NodeInStep, DeathMatchesBirth
    <2>4. QED
      BY <2>2, <2>3 DEF NodeInv
  <1>3. CASE TakeSeq
    <2>1. /\ publisher.pc = "checked" /\ holder = NoHolder /\ seq' = NextSeq
          /\ UNCHANGED <<link, paho, api, bdSeq, born, stored, will, session>>
      BY <1>3 DEF TakeSeq
    <2>2. publisher' \in NodePublishers /\ publisher'.pc = "numbered" /\ publisher'.device = publisher.device
      BY <1>0, <1>3 DEF TakeSeq, NodePublishers
    <2>3. holder' \in NodeHolders /\ holder'.thread = "publisher" /\ holder'.todo = {} /\ holder'.size = {}
      BY <1>3, FreshHolder DEF TakeSeq, NodeHolders, NoHolder
    <2>4. NextSeq \in SeqNumbers
      BY <1>0, NodeNumbers DEF NextSeq
    <2>5. NodeTypeOK'
      BY <2>1, <2>2, <2>3, <2>4 DEF NodeInv, NodeTypeOK, NodePublishers, SeqNumbers
    <2>6. NodeTyped' /\ LoopHoldsLock' /\ WillIsSet' /\ DeathMatchesBirth'
      BY <2>1, <2>2, <2>3 DEF NodeInv, NodeTyped, LoopHoldsLock, WillIsSet, DeathMatchesBirth
    <2>7. NodeInStep'
      BY <2>1, <2>2 DEF NodeInv, NodeInStep, NextSeq
    <2>8. QED
      BY <2>5, <2>6, <2>7 DEF NodeInv
  <1>4. QED
    BY <1>1, <1>2, <1>3

\* What the loop publishes to a connected client.
LEMMA PublishSends ==
    ASSUME NodeInv, Publish
    PROVE  /\ publisher.pc = "numbered" /\ publisher.device \in stored /\ stored \subseteq Devices /\ session' \in NodeSessions
           /\ link = "down" => session' = session
           /\ link # "down" =>
                /\ session'.last.seq = seq /\ session'.last.device = publisher.device
                /\ session'.last.type = IF publisher.device \in born THEN "DDATA" ELSE "DBIRTH"
                /\ session'.will = session.will /\ session'.birth = session.birth
                /\ session'.announced = IF publisher.device \in born THEN session.announced
                                        ELSE session.announced \cup {publisher.device}
  <1>1. publisher.pc = "numbered" /\ publisher.device \in stored /\ stored \subseteq Devices /\ seq \in SeqNumbers
    BY DEF Publish, NodeInv, NodeTyped, NodeTypeOK, SeqNumbers
  <1>2. CASE publisher.device \in born
    <2>1. Delivered("DDATA", publisher.device, seq)
      BY <1>2 DEF Publish
    <2>2. QED
      BY <1>1, <1>2, <2>1, DeliveredTo
  <1>3. CASE publisher.device \notin born
    <2>1. Delivered("DBIRTH", publisher.device, seq)
      BY <1>3 DEF Publish
    <2>2. QED
      BY <1>1, <1>3, <2>1, DeliveredTo
  <1>4. QED
    BY <1>2, <1>3

LEMMA PublishKeeps == NodeInv /\ Publish => NodeInv'
  <1> SUFFICES ASSUME NodeInv, Publish PROVE NodeInv'
    OBVIOUS
  <1>1. /\ publisher.pc = "numbered" /\ publisher.device \in stored /\ stored \subseteq Devices /\ session' \in NodeSessions
        /\ link = "down" => session' = session
        /\ link # "down" =>
             /\ session'.last.seq = seq /\ session'.will = session.will /\ session'.birth = session.birth
             /\ session'.announced = IF publisher.device \in born THEN session.announced
                                     ELSE session.announced \cup {publisher.device}
    BY PublishSends
  <1>2. /\ born' = born \cup {publisher.device} /\ holder' = NoHolder /\ publisher' = [device |-> NoDevice, pc |-> "idle"]
        /\ UNCHANGED <<link, paho, api, bdSeq, seq, stored, will>>
    BY DEF Publish
  <1>3. publisher' \in NodePublishers /\ publisher'.pc = "idle" /\ publisher'.device = NoDevice
    BY <1>2 DEF NodePublishers
  <1>4. NodeTypeOK'
    <2>1. session'.birth \in SeqNumbers \cup {NoBirth}
      BY <1>1 DEF NodeSessions
    <2>2. QED
      BY <1>1, <1>2, <1>3, <2>1, FreshHolder DEF NodeInv, NodeTypeOK, SeqNumbers
  <1>5. NodeTyped' /\ LoopHoldsLock'
    BY <1>1, <1>2, <1>3, FreshHolder DEF NodeInv, NodeTyped, LoopHoldsLock
  <1>6. WillIsSet' /\ DeathMatchesBirth'
    BY <1>1, <1>2 DEF NodeInv, NodeTypeOK, WillIsSet, DeathMatchesBirth
  <1>7. NodeInStep'
    <2> SUFFICES ASSUME link = "up", session.birth # NoBirth
                 PROVE  born' \subseteq session'.announced /\ seq' = session'.last.seq
      BY <1>1, <1>2, <1>3 DEF NodeInv, NodeTypeOK, NodeInStep
    <2>1. QED
      BY <1>1, <1>2 DEF NodeInv, NodeInStep
  <1>8. QED
    BY <1>4, <1>5, <1>6, <1>7 DEF NodeInv

-----------------------------------------------------------------------------
LEMMA NodeNextKeeps == NodeInv /\ [NodeNext]_nodeVars => NodeInv'
  <1> SUFFICES ASSUME NodeInv, [NodeNext]_nodeVars PROVE NodeInv'
    OBVIOUS
  <1>1. CASE UNCHANGED nodeVars
    BY <1>1 DEF nodeVars, NodeInv, NodeTypeOK, NodeTyped, LoopHoldsLock, WillIsSet, NodeInStep, DeathMatchesBirth
  <1>2. CASE NodeNext
    BY <1>2, ConnectionKeeps, RebirthKeeps, LoopKeeps, PublishKeeps DEF NodeNext
  <1>3. QED
    BY <1>1, <1>2

\* Every step of the node's threads, of its connection and of the broker keeps
\* the invariant of its sessions (SparkplugEdgeNode, MqttBridge).
THEOREM NodeInvariant == NodeSpec => []NodeInv
  BY NodeInitHolds, NodeNextKeeps, PTL DEF NodeSpec

\* The node's numbers stay below the modulus, it remembers births of devices it
\* has stored, and a rebirth has left to do what it began with.
THEOREM NodeTypeCorrect == NodeSpec => []NodeTypeOK
  <1>1. NodeInv => NodeTypeOK
    BY DEF NodeInv
  <1>2. QED
    BY <1>1, NodeInvariant, PTL

\* The will that _on_disconnect sets is of the bdSeq that rebirth announces on
\* the connection it is set for.
THEOREM DeathsMatch == NodeSpec => []DeathMatchesBirth
  <1>1. NodeInv => DeathMatchesBirth
    BY DEF NodeInv
  <1>2. QED
    BY <1>1, NodeInvariant, PTL

\* What a connection publishes after its birth certificate, from the client's
\* thread, a request's or the live loop, is numbered without a gap, and data
\* follow the birth of their device: the lock covers the number and the publish,
\* and a rebirth forgets the births before it announces the node's.
THEOREM StreamsUnbroken == NodeSpec => NodeStream
  <1>1. ASSUME NodeInv, NodeNext, session'.last # session.last, session.birth # NoBirth
        PROVE  /\ session'.last.type # "NBIRTH" /\ link = "up" => session'.last.seq = (session.last.seq + 1) % SeqModulus
               /\ session'.last.type = "DDATA" => session'.last.device \in session.announced
    <2>0. seq \in SeqNumbers /\ bdSeq \in SeqNumbers /\ link \in {"up", "down"} /\ session \in NodeSessions
      BY <1>1 DEF NodeInv, NodeTypeOK, SeqNumbers, NodeTyped
    <2>1. CASE Connected
      BY <2>1, <1>1 DEF Connected, NewSession, Nothing
    <2>2. CASE \E thread \in {"paho", "api"} : BeginRebirth(thread)
      <3>1. Delivered("NBIRTH", NoDevice, 0)
        BY <2>2 DEF BeginRebirth
      <3>2. session'.last.type = "NBIRTH"
        BY <1>1, <3>1, <2>0, NodeNumbers, DeliveredTo
      <3>3. QED
        BY <3>2
    <2>3. CASE BirthDevice
      <3>1. PICK d \in holder.todo : Delivered("DBIRTH", d, NextSeq)
        BY <2>3 DEF BirthDevice
      <3>2. publisher.pc # "numbered" /\ d \in Devices /\ NextSeq \in SeqNumbers
        BY <1>1, <2>0, <2>3, NodeNumbers DEF BirthDevice, Rebirthing, NodeInv, LoopHoldsLock, NodeTyped, NodeHolders, NextSeq
      <3>3. session'.last.type = "DBIRTH" /\ session'.last.seq = NextSeq /\ link # "down"
        BY <1>1, <3>1, <3>2, DeliveredTo
      <3>4. link = "up" => NextSeq = (session.last.seq + 1) % SeqModulus
        BY <1>1, <3>2 DEF NodeInv, NodeInStep, NextSeq
      <3>5. QED
        BY <3>3, <3>4
    <2>4. CASE Publish
      <3>1. /\ publisher.pc = "numbered" /\ link # "down" /\ session'.last.seq = seq /\ session'.last.device = publisher.device
            /\ session'.last.type = IF publisher.device \in born THEN "DDATA" ELSE "DBIRTH"
        BY <1>1, <2>4, PublishSends
      <3>2. QED
        BY <1>1, <2>0, <3>1 DEF NodeInv, NodeInStep
    <2>5. CASE ConnectionLost \/ OnDisconnect \/ RebirthRequested \/ ScenarioStarted \/ EndRebirth \/ RebirthRaises
               \/ (\E d \in Devices : StoreValues(d)) \/ CheckConnected \/ TakeSeq
      BY <1>1, <2>5 DEF ConnectionLost, OnDisconnect, RebirthRequested, ScenarioStarted, EndRebirth, RebirthRaises,
                        StoreValues, CheckConnected, TakeSeq
    <2>6. QED
      BY <1>1, <2>1, <2>2, <2>3, <2>4, <2>5 DEF NodeNext
  <1>2. NodeInv /\ [NodeNext]_nodeVars
          => [session.birth # NoBirth /\ session'.last # session.last /\ session'.last.type # "NBIRTH" /\ link = "up"
              => session'.last.seq = (session.last.seq + 1) % SeqModulus]_nodeVars
    BY <1>1
  <1>3. NodeInv /\ [NodeNext]_nodeVars
          => [session'.last # session.last /\ session'.last.type = "DDATA" /\ session.birth # NoBirth
              => session'.last.device \in session.announced]_nodeVars
    BY <1>1
  <1>4. QED
    BY <1>2, <1>3, NodeInvariant, PTL DEF NodeSpec, NodeStream, SequenceUnbroken, DataAfterBirth

-----------------------------------------------------------------------------
(* What if: a trajectory, the order of the lives, their percentiles.         *)

Operates(at)        == at.load \in LoadLevels /\ at.hot \in BOOLEAN
Clones        == [Cloned -> 0..Barrier]
HasFailed(clone) == \E i \in Cloned : clone[i] = Barrier

LEMMA MoreOf == ASSUME NEW a \in Nat, NEW x \in Nat, NEW y \in Nat, x <= y PROVE a * x <= a * y /\ a * x \in Nat
  <1>1. a * x \in Nat /\ a * y \in Nat
    OBVIOUS
  <1>2. CASE x = y
    BY <1>1, <1>2
  <1>3. CASE x < y
    <2>1. a * x + a <= a * y
      BY <1>3, Multiple
    <2>2. QED
      BY <1>1, <2>1
  <1>4. QED
    BY <1>1, <1>2, <1>3

LEMMA AtLeastOne == ASSUME NEW a \in Nat, NEW n \in Nat \ {0}, n <= a PROVE a \div n > 0
  <1>1. a \in Int
    OBVIOUS
  <1>2. a = n * (a \div n) + (a % n) /\ a % n \in 0..(n - 1) /\ a \div n \in Int
    BY <1>1, Divided
  <1>3. PICK q \in Int, r \in 0..(n - 1) : q = a \div n /\ r = a % n
    BY <1>2
  <1>4. SUFFICES ASSUME q < 1 PROVE FALSE
    BY <1>3
  <1>5. n * q + n <= n * 1
    BY <1>4, Multiple
  <1>6. a = n * q + r /\ n * q \in Int
    BY <1>2, <1>3
  <1>7. QED
    BY <1>5, <1>6

\* A part has ended at the start if it had failed, and only then.
LEMMA PassageIs ==
    ASSUME NEW i \in Cloned, NEW damage \in 0..Barrier, NEW at, Operates(at), NEW shock \in Shocks
    PROVE  /\ Passage(i, damage, at, shock) \in Nat
           /\ Passage(i, damage, at, shock) = 0 <=> damage = Barrier
  <1> DEFINE life == MachineOf[i].life
             left == Barrier - damage
             mean == left * life * 4
             rate == Acceleration(MachineOf[i], at)
  <1>1. life \in Nat \ {0} /\ left \in Nat /\ (left = 0 <=> damage = Barrier)
    <2>1. MachineOf[i] \in [life : Nat, thermal : BOOLEAN] /\ MachineOf[i].life > 0
      <3>1. PICK R : R = [life : Nat, thermal : BOOLEAN]
        OBVIOUS
      <3>2. MachineOf \in Seq(R) /\ i \in DOMAIN MachineOf /\ MachineOf[i].life > 0
        BY <3>1, WhatIfAssumption DEF Cloned
      <3>3. MachineOf[i] \in R
        BY <3>2
      <3>4. QED
        BY <3>1, <3>2, <3>3
    <2>2. life \in Nat \ {0}
      BY <2>1
    <2>3. Barrier \in Nat
      BY WhatIfAssumption
    <2>4. left \in Nat /\ (left = 0 <=> damage = Barrier)
      BY <2>3
    <2>5. QED
      BY <2>2, <2>4
  <1>2. rate \in Nat /\ rate <= 2 * at.load /\ at.load \in Nat
    <2>1. PICK load1 \in Nat : load1 = at.load
      BY WhatIfAssumption DEF Operates
    <2>2. rate = load1 * 1 \/ rate = load1 * 2
      BY <2>1 DEF Acceleration
    <2>3. QED
      BY <2>1, <2>2
  <1>3. shock \in Nat \ {0} /\ 2 * at.load <= 4 * shock
    BY WhatIfAssumption DEF Operates
  <1>4. Passage(i, damage, at, shock) = IF rate = 0 THEN mean * Stopped ELSE (mean * shock) \div rate
    BY DEF Passage
  <1> HIDE DEF rate, left, life
  <1>5. left * life \in Nat /\ (left * life = 0 <=> left = 0)
    <2>1. CASE left = 0
      BY <1>1, <2>1
    <2>2. CASE left # 0
      <3>1. life * 1 <= life * left /\ life * 1 \in Nat
        <4>1. 1 <= left
          BY <1>1, <2>2
        <4>2. QED
          BY <1>1, <4>1, MoreOf
      <3>2. life * left = left * life /\ left * life \in Nat
        BY <1>1
      <3>3. QED
        BY <1>1, <2>2, <3>1, <3>2
    <2>3. QED
      BY <2>1, <2>2
  <1>6. mean \in Nat /\ (mean = 0 <=> left = 0) /\ (mean # 0 => mean >= 4)
    <2>1. PICK p \in Nat : p = left * life
      BY <1>5
    <2>2. mean = p * 4
      BY <2>1
    <2>3. QED
      BY <1>5, <2>1, <2>2
  <1> HIDE DEF mean
  <1>7. CASE rate = 0
    BY <1>1, <1>4, <1>6, <1>7 DEF Stopped
  <1>8. CASE rate # 0
    <2>1. rate \in Nat \ {0} /\ mean * shock \in Nat /\ mean * shock \in Int
      BY <1>2, <1>3, <1>6, <1>8
    <2>2. (mean * shock) \div rate \in Nat
      BY <2>1, Divided
    <2>3. CASE left = 0
      <3>1. 0 = rate * 0 + 0 /\ 0 \in 0..(rate - 1) /\ 0 \in Int
        BY <2>1
      <3>2. 0 \div rate = 0
        BY <2>1, <3>1, DivisionIs
      <3>3. mean * shock = 0
        BY <1>3, <1>6, <2>3
      <3>4. QED
        BY <1>1, <1>4, <1>8, <2>3, <3>2, <3>3
    <2>4. CASE left # 0
      <3>1. shock * 4 <= shock * mean
        BY <1>3, <1>6, <2>4, MoreOf
      <3>2. shock * mean = mean * shock /\ shock * 4 = 4 * shock
        BY <1>3, <1>6
      <3>3. rate <= mean * shock
        <4>1. PICK m \in Nat : m = mean * shock
          BY <2>1
        <4>2. PICK l \in Nat : l = at.load
          BY <1>2
        <4>3. 4 * shock <= m
          BY <3>1, <3>2, <4>1
        <4>4. QED
          BY <1>2, <1>3, <4>1, <4>2, <4>3
      <3>4. (mean * shock) \div rate > 0
        BY <2>1, <3>3, AtLeastOne
      <3>5. QED
        BY <1>1, <1>4, <1>8, <2>2, <2>4, <3>4
    <2>5. QED
      BY <2>3, <2>4
  <1>9. QED
    BY <1>7, <1>8

\* A machine lives as long as its first part, and not at all if one had failed:
\* the first of those is what ended it.
LEMMA TrajectoryIs ==
    ASSUME Cloned # {}, NEW clone \in Clones, NEW at, Operates(at), NEW shock \in [Cloned -> Shocks]
    PROVE  LET end == Trajectory(clone, at, shock) IN
           /\ end.life \in Nat /\ end.first \in Cloned
           /\ end.life = 0 <=> HasFailed(clone)
           /\ \A i \in Cloned : clone[i] = Barrier => end.first <= i /\ clone[end.first] = Barrier
  <1> DEFINE P(i) == Passage(i, clone[i], at, shock[i])
             passages == {<<P(i), i>> : i \in Cloned}
             lives == {p[1] : p \in passages}
             life == Min(lives)
             firsts == {p[2] : p \in {q \in passages : q[1] = life}}
             first == Min(firsts)
  <1>1. \A i \in Cloned : P(i) \in Nat /\ (P(i) = 0 <=> clone[i] = Barrier)
    BY PassageIs DEF Clones
  <1>2. Cloned \subseteq Nat
    BY WhatIfAssumption DEF Cloned
  <1>3. Trajectory(clone, at, shock) = [life |-> life, first |-> first]
    BY DEF Trajectory
  <1> HIDE DEF P
  <1>a. \A p : p \in passages <=> \E i \in Cloned : p = <<P(i), i>>
    OBVIOUS
  <1>b. \A i \in Cloned : <<P(i), i>>[1] = P(i) /\ <<P(i), i>>[2] = i
    OBVIOUS
  <1> HIDE DEF passages
  <1>4. \A x : x \in lives <=> \E i \in Cloned : x = P(i)
    <2>1. \A i \in Cloned : <<P(i), i>> \in passages
      BY <1>a
    <2>2. \A x : x \in lives <=> \E p \in passages : x = p[1]
      OBVIOUS
    <2>3. ASSUME NEW i \in Cloned PROVE P(i) \in lives
      BY <1>b, <2>1, <2>2
    <2>4. ASSUME NEW x \in lives PROVE \E i \in Cloned : x = P(i)
      <3>1. PICK p \in passages : x = p[1]
        BY <2>2
      <3>2. PICK i \in Cloned : p = <<P(i), i>>
        BY <1>a
      <3>3. QED
        BY <1>b, <3>1, <3>2
    <2> HIDE DEF lives
    <2>5. QED
      BY <2>3, <2>4
  <1>5. \A x : x \in firsts <=> x \in Cloned /\ P(x) = life
    <2>1. \A i \in Cloned : <<P(i), i>> \in passages
      BY <1>a
    <2>2. \A x : x \in firsts <=> \E p \in passages : p[1] = life /\ x = p[2]
      <3> HIDE DEF life
      <3> QED OBVIOUS
    <2> HIDE DEF lives, life, firsts
    <2>3. ASSUME NEW i \in Cloned, P(i) = life PROVE i \in firsts
      <3>1. <<P(i), i>>[1] = life /\ <<P(i), i>>[2] = i
        BY <1>b, <2>3
      <3>2. QED
        BY <2>1, <2>2, <3>1
    <2>4. ASSUME NEW x \in firsts PROVE x \in Cloned /\ P(x) = life
      <3>1. PICK p \in passages : p[1] = life /\ x = p[2]
        BY <2>2
      <3>2. PICK i \in Cloned : p = <<P(i), i>>
        BY <1>a
      <3>3. p[1] = P(i) /\ p[2] = i
        BY <1>b, <3>2
      <3>4. QED
        BY <3>1, <3>3
    <2>5. QED
      BY <2>3, <2>4
  <1> HIDE DEF firsts, lives
  <1>6. life \in lives /\ \A x \in lives : life <= x
    <2>1. lives \subseteq Nat /\ lives # {}
      BY <1>1, <1>4
    <2>2. QED
      BY <2>1, MinIs
  <1> HIDE DEF life
  <1>7. first \in firsts /\ \A x \in firsts : first <= x
    <2>1. firsts \subseteq Nat /\ firsts # {}
      BY <1>2, <1>4, <1>5, <1>6
    <2>2. QED
      BY <2>1, MinIs
  <1> HIDE DEF first
  <1>8. life \in Nat /\ first \in Cloned /\ P(first) = life
    BY <1>1, <1>4, <1>5, <1>6, <1>7
  <1>9. life = 0 <=> HasFailed(clone)
    <2>1. ASSUME HasFailed(clone) PROVE life = 0
      <3>1. PICK i \in Cloned : P(i) = 0
        BY <1>1, <2>1 DEF HasFailed
      <3>2. life <= P(i)
        BY <1>4, <1>6
      <3>3. QED
        BY <1>8, <3>1, <3>2
    <2>2. ASSUME life = 0 PROVE HasFailed(clone)
      BY <1>1, <1>8, <2>2 DEF HasFailed
    <2>3. QED
      BY <2>1, <2>2
  <1>10. ASSUME NEW i \in Cloned, clone[i] = Barrier PROVE first <= i /\ clone[first] = Barrier
    <2>1. life = 0
      BY <1>9, <1>10 DEF HasFailed
    <2>2. P(i) = life
      BY <1>1, <1>10, <2>1
    <2>3. QED
      BY <1>1, <1>5, <1>7, <1>8, <2>1, <2>2
  <1>11. QED
    BY <1>3, <1>8, <1>9, <1>10

LivesKnown(ends) == \A t \in 1..Trials : ends[t].life \in Nat
EndedCount(ends, h) == Cardinality(EndedBy(ends, h))

LEMMA EndedCountIs ==
    ASSUME NEW ends, LivesKnown(ends)
    PROVE  /\ \A h : IsFiniteSet(EndedBy(ends, h)) /\ EndedCount(ends, h) \in 0..Trials
           /\ \A g, h \in Int : g <= h => EndedCount(ends, g) <= EndedCount(ends, h)
           /\ IsFiniteSet(1..Trials) /\ Cardinality(1..Trials) = Trials /\ Trials \in Nat
  <1>1. Trials \in Nat /\ IsFiniteSet(1..Trials) /\ Cardinality(1..Trials) = Trials
    <2>1. Trials \in Nat /\ 1 \in Int /\ Trials \in Int
      BY WhatIfAssumption
    <2>2. IsFiniteSet(1..Trials) /\ Cardinality(1..Trials) = IF 1 > Trials THEN 0 ELSE Trials - 1 + 1
      BY <2>1, FS_Interval
    <2>3. QED
      BY <2>1, <2>2
  <1>2. ASSUME NEW h PROVE IsFiniteSet(EndedBy(ends, h)) /\ EndedCount(ends, h) \in 0..Trials
    <2>1. EndedBy(ends, h) \subseteq 1..Trials
      BY DEF EndedBy
    <2>2. IsFiniteSet(EndedBy(ends, h)) /\ Cardinality(EndedBy(ends, h)) <= Trials /\ Cardinality(EndedBy(ends, h)) \in Nat
      BY <1>1, <2>1, FS_Subset, FS_CardinalityType
    <2>3. QED
      BY <1>1, <2>2 DEF EndedCount
  <1>3. ASSUME NEW g \in Int, NEW h \in Int, g <= h PROVE EndedCount(ends, g) <= EndedCount(ends, h)
    <2>1. EndedBy(ends, g) \subseteq EndedBy(ends, h)
      <3>1. SUFFICES ASSUME NEW t \in EndedBy(ends, g) PROVE t \in EndedBy(ends, h)
        OBVIOUS
      <3>2. t \in 1..Trials /\ ends[t].life <= g /\ ends[t].life \in Nat
        BY DEF EndedBy, LivesKnown
      <3>3. ends[t].life <= h
        BY <1>3, <3>2
      <3>4. QED
        BY <3>2, <3>3 DEF EndedBy
    <2>2. QED
      BY <1>2, <2>1, FS_Subset DEF EndedCount
  <1>4. QED
    BY <1>1, <1>2, <1>3

LEMMA LongestOf ==
    ASSUME NEW ends, LivesKnown(ends), NEW T, T \subseteq 1..Trials, T # {}
    PROVE  \E t \in T : \A u \in T : ends[u].life <= ends[t].life
  <1> DEFINE f == [t \in T |-> ends[t].life]
             lives == {f[t] : t \in T}
  <1>1. IsFiniteSet(T)
    BY EndedCountIs, FS_Subset
  <1>2. f \in Surjection(T, lives)
    BY DEF Surjection
  <1>3. IsFiniteSet(lives)
    <2> HIDE DEF f, lives
    <2> QED BY <1>1, <1>2, FS_Surjection
  <1>4. \A t \in T : f[t] = ends[t].life /\ f[t] \in Nat
    BY DEF LivesKnown
  <1>5. lives \subseteq Int /\ lives # {}
    <2> HIDE DEF f
    <2>1. \A x \in lives : x \in Nat
      BY <1>4
    <2>2. PICK t \in T : TRUE
      OBVIOUS
    <2>3. f[t] \in lives
      OBVIOUS
    <2> HIDE DEF lives
    <2>4. \A x \in lives : x \in Int
      BY <2>1
    <2>5. QED
      BY <2>3, <2>4
  <1>6. Max(lives) \in lives /\ \A y \in lives : Max(lives) >= y
    <2> HIDE DEF lives
    <2> QED BY <1>3, <1>5, MaxIs
  <1>7. PICK m : m = Max(lives)
    OBVIOUS
  <1>8. PICK t \in T : m = f[t]
    BY <1>6, <1>7
  <1>9. ASSUME NEW u \in T PROVE ends[u].life <= ends[t].life
    <2>1. m >= f[u]
      BY <1>6, <1>7
    <2>2. QED
      BY <1>4, <1>8, <2>1
  <1>10. QED
    BY <1>9

\* The life of rank k: k trials end by a time exactly when it is not before that life.
LEMMA RankedIs ==
    ASSUME NEW ends, LivesKnown(ends), NEW k \in 1..Trials
    PROVE  /\ \E t \in 1..Trials : Ranked(ends, k) = ends[t].life
           /\ Ranked(ends, k) \in Nat
           /\ \A h \in Nat : EndedCount(ends, h) >= k <=> Ranked(ends, k) <= h
  <1> DEFINE R == {ends[t].life : t \in {u \in 1..Trials : Cardinality(EndedBy(ends, ends[u].life)) >= k}}
  <1>1. \A x : x \in R <=> \E t \in 1..Trials : x = ends[t].life /\ EndedCount(ends, x) >= k
    BY DEF EndedCount
  <1>2. Ranked(ends, k) = Min(R)
    BY DEF Ranked
  <1> HIDE DEF R
  <1>3. \A t \in 1..Trials : ends[t].life \in Nat
    BY DEF LivesKnown
  <1>4. k \in Nat /\ k >= 1 /\ k <= Trials /\ Trials \in Nat
    BY EndedCountIs
  <1>5. ASSUME NEW h \in Nat, EndedCount(ends, h) >= k PROVE \E x \in R : x <= h
    <2>1. EndedBy(ends, h) # {}
      <3>1. SUFFICES ASSUME EndedBy(ends, h) = {} PROVE FALSE
        OBVIOUS
      <3>2. EndedCount(ends, h) = 0
        BY <3>1, FS_EmptySet DEF EndedCount
      <3>3. QED
        BY <1>4, <1>5, <3>2
    <2>2. EndedBy(ends, h) \subseteq 1..Trials
      BY DEF EndedBy
    <2>3. PICK t \in EndedBy(ends, h) : \A u \in EndedBy(ends, h) : ends[u].life <= ends[t].life
      BY <2>1, <2>2, LongestOf
    <2>4. t \in 1..Trials /\ ends[t].life <= h
      BY DEF EndedBy
    <2>5. EndedBy(ends, h) = EndedBy(ends, ends[t].life)
      <3>1. \A u \in EndedBy(ends, h) : u \in EndedBy(ends, ends[t].life)
        BY <2>3 DEF EndedBy
      <3>2. ASSUME NEW u \in EndedBy(ends, ends[t].life) PROVE u \in EndedBy(ends, h)
        <4>1. u \in 1..Trials /\ ends[u].life <= ends[t].life
          BY DEF EndedBy
        <4>2. ends[u].life \in Nat /\ ends[t].life \in Nat
          BY <1>3, <2>4, <4>1
        <4>3. ends[u].life <= h
          BY <2>4, <4>1, <4>2
        <4>4. QED
          BY <4>1, <4>3 DEF EndedBy
      <3>3. QED
        BY <3>1, <3>2
    <2>6. ends[t].life \in R
      BY <1>1, <1>5, <2>4, <2>5 DEF EndedCount
    <2>7. QED
      BY <2>4, <2>6
  <1>6. R # {}
    <2>1. 1 \in 1..Trials
      BY <1>4
    <2>2. PICK t \in 1..Trials : \A u \in 1..Trials : ends[u].life <= ends[t].life
      BY <2>1, LongestOf
    <2>3. EndedBy(ends, ends[t].life) = 1..Trials
      BY <2>2 DEF EndedBy
    <2>4. EndedCount(ends, ends[t].life) >= k
      BY <1>4, <2>3, EndedCountIs DEF EndedCount
    <2>5. QED
      BY <1>1, <2>4
  <1>7. R \subseteq Nat
    BY <1>1, <1>3
  <1>8. Min(R) \in R /\ \A x \in R : Min(R) <= x
    BY <1>6, <1>7, MinIs
  <1>9. PICK m \in Nat : m = Min(R)
    BY <1>7, <1>8
  <1>10. ASSUME NEW h \in Nat, m <= h PROVE EndedCount(ends, h) >= k
    <2>1. EndedCount(ends, m) >= k /\ EndedCount(ends, m) \in Nat /\ EndedCount(ends, h) \in Nat
      BY <1>1, <1>8, <1>9, EndedCountIs
    <2>2. m \in Int /\ h \in Int
      OBVIOUS
    <2>3. EndedCount(ends, m) <= EndedCount(ends, h)
      BY <1>10, <2>2, EndedCountIs
    <2>4. QED
      BY <1>4, <2>1, <2>3
  <1>11. ASSUME NEW h \in Nat, EndedCount(ends, h) >= k PROVE m <= h
    <2>1. PICK x \in R : x <= h
      BY <1>5, <1>11
    <2>2. m <= x /\ x \in Nat
      BY <1>7, <1>8, <1>9
    <2>3. QED
      BY <2>1, <2>2
  <1>12. \E t \in 1..Trials : m = ends[t].life
    BY <1>1, <1>8, <1>9
  <1>13. QED
    BY <1>2, <1>9, <1>10, <1>11, <1>12

LEMMA RanksInOrder ==
    ASSUME NEW ends, LivesKnown(ends), NEW j \in 1..Trials, NEW k \in 1..Trials, j <= k
    PROVE  Ranked(ends, j) <= Ranked(ends, k)
  <1>1. PICK r \in Nat : r = Ranked(ends, k)
    BY RankedIs
  <1>2. EndedCount(ends, r) >= k /\ EndedCount(ends, r) \in Nat
    <2>1. r <= r
      OBVIOUS
    <2>2. QED
      BY <1>1, <2>1, RankedIs, EndedCountIs
  <1>3. EndedCount(ends, r) >= j
    BY <1>2, EndedCountIs
  <1>4. QED
    BY <1>1, <1>3, RankedIs

\* What is between two numbers is no further from a third than they are.
LEMMA Blend ==
    ASSUME NEW r \in 0..99, NEW x \in Nat, NEW y \in Nat, NEW z \in Nat
    PROVE  /\ (100 - r) * x + r * y \in Nat
           /\ x <= z /\ (r = 0 \/ y <= z) => (100 - r) * x + r * y <= 100 * z
           /\ z <= x /\ z <= y => 100 * z <= (100 - r) * x + r * y
  <1>1. r \in Nat /\ 100 - r \in Nat
    OBVIOUS
  <1>2. (100 - r) * x \in Nat /\ r * y \in Nat /\ (100 - r) * z \in Nat /\ r * z \in Nat
    BY <1>1
  <1>3. (100 - r) * z + r * z = 100 * z
    OBVIOUS
  <1>4. PICK a, b, c, d \in Nat : a = (100 - r) * x /\ b = r * y /\ c = (100 - r) * z /\ d = r * z
    BY <1>2
  <1>5. x <= z => a <= c
    BY <1>1, <1>4, MoreOf
  <1>6. y <= z => b <= d
    BY <1>1, <1>4, MoreOf
  <1>7. r = 0 => b = 0
    BY <1>4
  <1>8. z <= x => c <= a
    BY <1>1, <1>4, MoreOf
  <1>9. z <= y => d <= b
    BY <1>1, <1>4, MoreOf
  <1>10. QED
    BY <1>3, <1>4, <1>5, <1>6, <1>7, <1>8, <1>9

\* Where percentile p falls between the ranks.
RankBelow(p)  == (((Trials - 1) * p) \div 100) + 1
RankAbove(p)  == Min({(((Trials - 1) * p) \div 100) + 2, Trials})
HowFar(p)  == ((Trials - 1) * p) % 100

LEMMA PercentileIs ==
    ASSUME NEW ends, NEW p
    PROVE  Percentile(p, ends) = (100 - HowFar(p)) * Ranked(ends, RankBelow(p)) + HowFar(p) * Ranked(ends, RankAbove(p))
  BY DEF Percentile, RankBelow, RankAbove, HowFar

LEMMA SmallerIs ==
    ASSUME NEW k \in Nat, NEW n \in Nat
    PROVE  Min({k, n}) = IF k <= n THEN k ELSE n
  <1>1. {k, n} \subseteq Nat /\ {k, n} # {}
    OBVIOUS
  <1>2. Min({k, n}) \in {k, n} /\ \A y \in {k, n} : Min({k, n}) <= y
    BY <1>1, MinIs
  <1>3. QED
    BY <1>2

LEMMA PlaceIs ==
    ASSUME NEW p \in 0..100
    PROVE  /\ RankBelow(p) \in 1..Trials /\ RankAbove(p) \in 1..Trials /\ HowFar(p) \in 0..99
           /\ (Trials - 1) * p \in Nat /\ (Trials - 1) * p = 100 * (RankBelow(p) - 1) + HowFar(p)
           /\ RankAbove(p) = IF RankBelow(p) < Trials THEN RankBelow(p) + 1 ELSE RankBelow(p)
           /\ RankBelow(p) = Trials => HowFar(p) = 0
  <1>1. PICK n \in Nat : n + 1 = Trials
    <2>1. Trials - 1 \in Nat /\ (Trials - 1) + 1 = Trials
      BY WhatIfAssumption
    <2>2. QED
      BY <2>1
  <1>2. p \in Nat /\ p <= 100 /\ 100 \in Nat \ {0}
    OBVIOUS
  <1>3. n * p \in Nat /\ n * p <= n * 100 /\ n * p \in Int
    BY <1>2, MoreOf
  <1>4. PICK k \in Nat, r \in 0..99 : k = (n * p) \div 100 /\ r = (n * p) % 100 /\ n * p = 100 * k + r
    BY <1>2, <1>3, Divided
  <1>5. Trials - 1 = n /\ Trials \in Nat
    BY <1>1
  <1>6. RankBelow(p) = k + 1 /\ HowFar(p) = r /\ RankAbove(p) = Min({k + 2, Trials})
    BY <1>4, <1>5 DEF RankBelow, HowFar, RankAbove
  <1>7. k <= n /\ (k = n => r = 0)
    <2>1. PICK a \in Nat : a = n * p
      BY <1>3
    <2>2. a <= 100 * n /\ a = 100 * k + r
      BY <1>3, <1>4, <2>1
    <2>3. QED
      BY <2>2
  <1>8. RankAbove(p) = IF k + 2 <= Trials THEN k + 2 ELSE Trials
    BY <1>5, <1>6, SmallerIs
  <1>9. (Trials - 1) * p = 100 * ((k + 1) - 1) + r
    BY <1>4, <1>5
  <1>10. QED
    BY <1>1, <1>3, <1>5, <1>6, <1>7, <1>8, <1>9

\* The ranks next to a percentile, their lives and how far it is between them.
LEMMA PercentileOf ==
    ASSUME NEW ends, LivesKnown(ends), NEW p \in 0..100
    PROVE  \E j \in 1..Trials, k \in 1..Trials, r \in 0..99, x \in Nat, y \in Nat :
             /\ j = RankBelow(p) /\ k = RankAbove(p) /\ r = HowFar(p)
             /\ x = Ranked(ends, j) /\ y = Ranked(ends, k) /\ x <= y
             /\ Percentile(p, ends) = (100 - r) * x + r * y
             /\ Percentile(p, ends) \in Nat /\ 100 * x <= Percentile(p, ends) /\ Percentile(p, ends) <= 100 * y
  <1>1. PICK j \in 1..Trials, k \in 1..Trials, r \in 0..99 :
          j = RankBelow(p) /\ k = RankAbove(p) /\ r = HowFar(p) /\ k = IF j < Trials THEN j + 1 ELSE j
    BY PlaceIs
  <1>2. j <= k
    BY <1>1
  <1>3. PICK x \in Nat, y \in Nat : x = Ranked(ends, j) /\ y = Ranked(ends, k)
    BY RankedIs
  <1>4. x <= y
    BY <1>2, <1>3, RanksInOrder
  <1>5. Percentile(p, ends) = (100 - r) * x + r * y
    BY <1>1, <1>3, PercentileIs
  <1>6. x <= x /\ y <= y
    OBVIOUS
  <1>7. Percentile(p, ends) \in Nat /\ 100 * x <= Percentile(p, ends) /\ Percentile(p, ends) <= 100 * y
    BY <1>4, <1>5, <1>6, Blend
  <1>8. QED
    BY <1>1, <1>3, <1>4, <1>5, <1>7

\* A higher percentile is not a shorter life.
LEMMA PercentilesInOrder ==
    ASSUME NEW ends, LivesKnown(ends), NEW p \in 0..100, NEW q \in 0..100, p <= q
    PROVE  Percentile(p, ends) <= Percentile(q, ends)
  <1>1. PICK j \in 1..Trials, k \in 1..Trials, r \in 0..99, x \in Nat, y \in Nat :
             /\ j = RankBelow(p) /\ k = RankAbove(p) /\ r = HowFar(p)
             /\ x = Ranked(ends, j) /\ y = Ranked(ends, k) /\ x <= y
             /\ Percentile(p, ends) = (100 - r) * x + r * y
             /\ Percentile(p, ends) \in Nat /\ 100 * x <= Percentile(p, ends) /\ Percentile(p, ends) <= 100 * y
    BY PercentileOf
  <1>2. PICK i \in 1..Trials, l \in 1..Trials, s \in 0..99, z \in Nat, w \in Nat :
             /\ i = RankBelow(q) /\ l = RankAbove(q) /\ s = HowFar(q)
             /\ z = Ranked(ends, i) /\ w = Ranked(ends, l) /\ z <= w
             /\ Percentile(q, ends) = (100 - s) * z + s * w
             /\ Percentile(q, ends) \in Nat /\ 100 * z <= Percentile(q, ends) /\ Percentile(q, ends) <= 100 * w
    BY PercentileOf
  <1>3. PICK n \in Nat : n = Trials - 1
    BY WhatIfAssumption
  <1>4. n * p <= n * q /\ n * p = 100 * (j - 1) + r /\ n * q = 100 * (i - 1) + s
    <2>1. n * p <= n * q
      BY MoreOf
    <2>2. QED
      BY <1>1, <1>2, <1>3, <2>1, PlaceIs
  <1>5. i \in Nat /\ j \in Nat /\ r \in Nat /\ s \in Nat /\ r <= 99 /\ s <= 99
    OBVIOUS
  <1>6. j < i \/ (j = i /\ r <= s)
    <2>1. PICK a \in Nat, b \in Nat : a = n * p /\ b = n * q
      OBVIOUS
    <2>2. a <= b /\ a = 100 * (j - 1) + r /\ b = 100 * (i - 1) + s
      BY <1>4, <2>1
    <2>3. QED
      BY <1>5, <2>2
  <1>7. CASE j < i
    <2>1. k <= i
      <3>1. k = IF j < Trials THEN j + 1 ELSE j
        BY <1>1, PlaceIs
      <3>2. QED
        BY <1>7, <3>1
    <2>2. y <= z
      BY <1>1, <1>2, <2>1, RanksInOrder
    <2>3. 100 * y <= 100 * z
      BY <2>2
    <2>4. PICK a \in Nat, b \in Nat : a = Percentile(p, ends) /\ b = Percentile(q, ends)
      BY <1>1, <1>2
    <2>5. a <= 100 * y /\ 100 * z <= b
      BY <1>1, <1>2, <2>4
    <2>6. a <= b
      BY <2>3, <2>5
    <2>7. QED
      BY <2>4, <2>6
  <1>8. CASE j = i /\ r <= s
    <2>1. l = k /\ z = x /\ w = y
      <3>1. k = IF j < Trials THEN j + 1 ELSE j
        BY <1>1, PlaceIs
      <3>2. l = IF i < Trials THEN i + 1 ELSE i
        BY <1>2, PlaceIs
      <3>3. QED
        BY <1>1, <1>2, <1>8, <3>1, <3>2
    <2>2. PICK d \in Nat : s = r + d
      BY <1>5, <1>8
    <2>3. PICK e \in Nat : y = x + e
      <3>1. x <= y
        BY <1>1
      <3>2. y - x \in Nat /\ y = x + (y - x)
        BY <3>1
      <3>3. QED
        BY <3>2
    <2>4. (100 - r) * x + r * y = 100 * x + r * e
      BY <2>3
    <2>5. (100 - s) * x + s * y = 100 * x + s * e
      BY <2>3
    <2>6. e * r <= e * s
      BY <1>8, MoreOf
    <2>7. e * r = r * e /\ e * s = s * e /\ e * r \in Nat /\ e * s \in Nat
      BY <1>5
    <2>8. Percentile(p, ends) = 100 * x + r * e /\ Percentile(q, ends) = 100 * x + s * e
      BY <1>1, <1>2, <2>1, <2>4, <2>5
    <2>9. QED
      BY <2>6, <2>7, <2>8
  <1>9. QED
    BY <1>6, <1>7, <1>8

\* The percentiles are in order, the last of them tells lives from none, and the
\* median ends inside a time when most trials do, and only if half of them do.
LEMMA PercentilesAre ==
    ASSUME NEW ends, LivesKnown(ends)
    PROVE  /\ Percentile(10, ends) \in Nat /\ Percentile(50, ends) \in Nat /\ Percentile(90, ends) \in Nat
           /\ Percentile(10, ends) <= Percentile(50, ends) /\ Percentile(50, ends) <= Percentile(90, ends)
           /\ (\A t \in 1..Trials : ends[t].life = 0) => Percentile(90, ends) = 0
           /\ (\A t \in 1..Trials : ends[t].life # 0) => Percentile(90, ends) # 0
           /\ \A h \in Nat : /\ 2 * EndedCount(ends, h) > Trials => Percentile(50, ends) <= 100 * h
                             /\ Percentile(50, ends) <= 100 * h => 2 * EndedCount(ends, h) >= Trials
  <1>1. PICK low, mid, high \in 0..100 : low = 10 /\ mid = 50 /\ high = 90 /\ low <= mid /\ mid <= high
    OBVIOUS
  <1>2. /\ Percentile(10, ends) \in Nat /\ Percentile(50, ends) \in Nat /\ Percentile(90, ends) \in Nat
        /\ Percentile(10, ends) <= Percentile(50, ends) /\ Percentile(50, ends) <= Percentile(90, ends)
    <2>1. Percentile(low, ends) \in Nat /\ Percentile(mid, ends) \in Nat /\ Percentile(high, ends) \in Nat
      BY PercentileOf
    <2>2. Percentile(low, ends) <= Percentile(mid, ends) /\ Percentile(mid, ends) <= Percentile(high, ends)
      BY <1>1, PercentilesInOrder
    <2>3. QED
      BY <1>1, <2>1, <2>2
  <1>3. PICK j \in 1..Trials, k \in 1..Trials, x \in Nat, y \in Nat :
             /\ x = Ranked(ends, j) /\ y = Ranked(ends, k)
             /\ 100 * x <= Percentile(90, ends) /\ Percentile(90, ends) <= 100 * y
    <2>1. PICK j \in 1..Trials, k \in 1..Trials, r \in 0..99, x \in Nat, y \in Nat :
             /\ j = RankBelow(high) /\ k = RankAbove(high) /\ r = HowFar(high)
             /\ x = Ranked(ends, j) /\ y = Ranked(ends, k) /\ x <= y
             /\ Percentile(high, ends) = (100 - r) * x + r * y
             /\ Percentile(high, ends) \in Nat /\ 100 * x <= Percentile(high, ends) /\ Percentile(high, ends) <= 100 * y
      BY PercentileOf
    <2>2. QED
      BY <1>1, <2>1
  <1>4. ASSUME \A t \in 1..Trials : ends[t].life = 0 PROVE Percentile(90, ends) = 0
    <2>1. y = 0
      BY <1>3, <1>4, RankedIs
    <2>2. QED
      BY <1>2, <1>3, <2>1
  <1>5. ASSUME \A t \in 1..Trials : ends[t].life # 0 PROVE Percentile(90, ends) # 0
    <2>1. x # 0
      BY <1>3, <1>5, RankedIs
    <2>2. QED
      BY <1>2, <1>3, <2>1
  <1>6. PICK l \in 1..Trials, u \in 1..Trials, r \in 0..99, z \in Nat, w \in Nat :
             /\ l = RankBelow(50) /\ u = RankAbove(50) /\ r = HowFar(50)
             /\ z = Ranked(ends, l) /\ w = Ranked(ends, u) /\ z <= w
             /\ Percentile(50, ends) = (100 - r) * z + r * w
             /\ 100 * z <= Percentile(50, ends) /\ Percentile(50, ends) <= 100 * w
    <2>1. PICK l \in 1..Trials, u \in 1..Trials, r \in 0..99, z \in Nat, w \in Nat :
             /\ l = RankBelow(mid) /\ u = RankAbove(mid) /\ r = HowFar(mid)
             /\ z = Ranked(ends, l) /\ w = Ranked(ends, u) /\ z <= w
             /\ Percentile(mid, ends) = (100 - r) * z + r * w
             /\ Percentile(mid, ends) \in Nat /\ 100 * z <= Percentile(mid, ends) /\ Percentile(mid, ends) <= 100 * w
      BY PercentileOf
    <2>2. QED
      BY <1>1, <2>1
  <1>7. PICK n \in Nat : n = Trials
    BY WhatIfAssumption
  <1>8. l \in 1..n /\ r \in 0..99 /\ (n - 1) * 50 = 100 * (l - 1) + r /\ u = IF l < n THEN l + 1 ELSE l
    BY <1>1, <1>6, <1>7, PlaceIs
  <1>9. (n = 2 * l - 1 /\ r = 0) \/ (n = 2 * l /\ u = l + 1)
    BY <1>8
  <1>10. ASSUME NEW h \in Nat
         PROVE  /\ 2 * EndedCount(ends, h) > Trials => Percentile(50, ends) <= 100 * h
                /\ Percentile(50, ends) <= 100 * h => 2 * EndedCount(ends, h) >= Trials
    <2>1. PICK c \in Nat : c = EndedCount(ends, h)
      BY EndedCountIs
    <2>2. (c >= l <=> z <= h) /\ (c >= u <=> w <= h)
      BY <1>6, <2>1, RankedIs
    <2>3. PICK a \in Nat : a = Percentile(50, ends)
      BY <1>2
    <2>4. ASSUME 2 * c > n PROVE a <= 100 * h
      <3>1. CASE n = 2 * l - 1 /\ r = 0
        <4>1. z <= h
          BY <2>2, <2>4, <3>1, <1>8
        <4>2. (100 - r) * z + r * w = 100 * z
          BY <3>1
        <4>3. QED
          BY <1>6, <2>3, <4>1, <4>2
      <3>2. CASE n = 2 * l /\ u = l + 1
        <4>1. w <= h
          BY <2>2, <2>4, <3>2, <1>8
        <4>2. 100 * w <= 100 * h /\ a <= 100 * w
          BY <1>6, <2>3, <4>1
        <4>3. QED
          BY <4>2
      <3>3. QED
        BY <1>9, <3>1, <3>2
    <2>5. ASSUME a <= 100 * h PROVE 2 * c >= n
      <3>1. 100 * z <= a
        BY <1>6, <2>3
      <3>2. z <= h
        BY <2>5, <3>1
      <3>3. c >= l
        BY <2>2, <3>2
      <3>4. n <= 2 * l
        BY <1>8, <1>9
      <3>5. QED
        BY <1>8, <3>3, <3>4
    <2>6. QED
      BY <1>7, <2>1, <2>3, <2>4, <2>5
  <1>11. QED
    BY <1>2, <1>4, <1>5, <1>10

-----------------------------------------------------------------------------
(* A forecast, and the answer of two of them. *)

\* What a forecast of a clone says agrees with itself and with the clone.
Firsts(first) == MapThenSumSet(LAMBDA i : first[i], Cloned)

ForecastGood(f, clone) ==
    /\ 2 * f.risk > Trials => f.percentiles[2] <= 100 * Horizon
    /\ f.percentiles[2] <= 100 * Horizon => 2 * f.risk >= Trials
    /\ f.percentiles[1] <= f.percentiles[2] /\ f.percentiles[2] <= f.percentiles[3]
    /\ Firsts(f.first) = Trials
    /\ f.percentiles[3] = 0 <=> HasFailed(clone)
    /\ \A i \in Cloned : clone[i] = Barrier /\ f.first[i] = 0 => \E j \in Cloned : j < i /\ clone[j] = Barrier

Forecasts == [percentiles : Seq(Nat), risk : 0..Trials, first : [Cloned -> 0..Trials]]

LEMMA ClonedFinite == IsFiniteSet(Cloned)
  <1>1. PICK R : R = [life : Nat, thermal : BOOLEAN]
    OBVIOUS
  <1>2. MachineOf \in Seq(R)
    BY <1>1, WhatIfAssumption
  <1>3. DOMAIN MachineOf = 1..Len(MachineOf) /\ Len(MachineOf) \in Nat
    BY <1>2
  <1>4. IsFiniteSet(DOMAIN MachineOf)
    <2>1. 1 \in Int /\ Len(MachineOf) \in Int
      BY <1>3
    <2>2. QED
      BY <1>3, <2>1, FS_Interval
  <1>5. Cloned \subseteq DOMAIN MachineOf
    BY DEF Cloned
  <1>6. QED
    BY <1>4, <1>5, FS_Subset

\* Every trial has one part that ended it.
LEMMA FirstsSum ==
    ASSUME NEW first, NEW ends, LivesKnown(ends), \A t \in 1..Trials : ends[t].first \in Cloned,
           first = [i \in Cloned |-> Cardinality({t \in 1..Trials : ends[t].first = i})]
    PROVE  /\ first \in [Cloned -> 0..Trials]
           /\ Firsts(first) = Trials
  <1> DEFINE P == [i \in Cloned |-> {t \in 1..Trials : ends[t].first = i}]
             Adds(g) == g = [s \in SUBSET Cloned |-> IF s = {} THEN 0
                               ELSE first[CHOOSE x \in s : TRUE] + g[s \ {CHOOSE x \in s : TRUE}]]
             c == CHOOSE g : Adds(g)
  <1>1. IsFiniteSet(1..Trials) /\ Cardinality(1..Trials) = Trials /\ Trials \in Nat
    BY EndedCountIs
  <1>2. \A i \in Cloned : P[i] \subseteq 1..Trials /\ IsFiniteSet(P[i]) /\ Cardinality(P[i]) \in 0..Trials
    <2>1. SUFFICES ASSUME NEW i \in Cloned
                   PROVE  P[i] \subseteq 1..Trials /\ IsFiniteSet(P[i]) /\ Cardinality(P[i]) \in 0..Trials
      OBVIOUS
    <2>2. P[i] \subseteq 1..Trials
      OBVIOUS
    <2>3. IsFiniteSet(P[i]) /\ Cardinality(P[i]) <= Trials /\ Cardinality(P[i]) \in Nat
      BY <1>1, <2>2, FS_Subset, FS_CardinalityType
    <2>4. QED
      BY <1>1, <2>2, <2>3
  <1>3. \A i, j \in Cloned : i # j => P[i] \cap P[j] = {}
    OBVIOUS
  <1>4. Together(P, Cloned) = 1..Trials
    BY DEF Together
  <1>5. first = Sizes(P, Cloned)
    BY DEF Sizes
  <1> HIDE DEF P
  <1>6. Summed(first, Cloned) /\ SumOver(first, Cloned) = Trials
    <2>1. \A i \in Cloned : IsFiniteSet(P[i])
      BY <1>2
    <2>2. /\ Summed(Sizes(P, Cloned), Cloned)
          /\ Cardinality(Together(P, Cloned)) = SumOver(Sizes(P, Cloned), Cloned)
      BY <2>1, <1>3, ClonedFinite, PartsSum
    <2>3. QED
      BY <1>1, <1>4, <1>5, <2>2
  <1>7. first \in [Cloned -> 0..Trials]
    BY <1>2, <1>5 DEF Sizes
  <1>8. \A s \in SUBSET Cloned : s # {} => Chosen(s) \in Cloned
    BY ChosenIn
  <1>9. PICK g : IsSum(g, first, Cloned)
    BY <1>6, SumExists
  <1>10. Adds(g)
    BY <1>8, <1>9 DEF IsSum, Chosen
  <1>11. Adds(c)
    BY <1>10
  <1>12. IsSum(c, first, Cloned)
    <2> HIDE DEF c
    <2> QED BY <1>8, <1>11 DEF IsSum, Chosen
  <1>13. Firsts(first) = c[Cloned]
    BY DEF Firsts, MapThenSumSet, MapThenFoldSet
  <1>14. QED
    BY <1>6, <1>7, <1>12, <1>13, SumIs

LEMMA SimulateIs ==
    ASSUME Cloned # {}, NEW clone \in Clones, NEW at, Operates(at), NEW draws \in Draws
    PROVE  Simulate(clone, at, draws) \in Forecasts /\ ForecastGood(Simulate(clone, at, draws), clone)
  <1> DEFINE ends == [t \in 1..Trials |-> Trajectory(clone, at, draws[t])]
             first == [i \in Cloned |-> Cardinality({t \in 1..Trials : ends[t].first = i})]
             f == Simulate(clone, at, draws)
  <1>1. \A t \in 1..Trials : ends[t] = Trajectory(clone, at, draws[t]) /\ draws[t] \in [Cloned -> Shocks]
    BY DEF Draws
  <1>2. f = [percentiles |-> <<Percentile(10, ends), Percentile(50, ends), Percentile(90, ends)>>,
             risk |-> EndedCount(ends, Horizon), first |-> first]
    BY DEF Simulate, EndedCount
  <1> HIDE DEF f, ends
  <1>3. \A t \in 1..Trials :
          /\ ends[t].life \in Nat /\ ends[t].first \in Cloned
          /\ ends[t].life = 0 <=> HasFailed(clone)
          /\ \A i \in Cloned : clone[i] = Barrier => ends[t].first <= i /\ clone[ends[t].first] = Barrier
    BY <1>1, TrajectoryIs
  <1>4. LivesKnown(ends)
    BY <1>3 DEF LivesKnown
  <1>5. 1 \in 1..Trials
    BY WhatIfAssumption
  <1>6. PICK a, b, c \in Nat :
          /\ a = Percentile(10, ends) /\ b = Percentile(50, ends) /\ c = Percentile(90, ends)
          /\ a <= b /\ b <= c
    BY <1>4, PercentilesAre
  <1>7. f.percentiles = <<a, b, c>> /\ f.risk = EndedCount(ends, Horizon) /\ f.first = first
    BY <1>2, <1>6
  <1>8. f.percentiles \in Seq(Nat) /\ f.percentiles[1] = a /\ f.percentiles[2] = b /\ f.percentiles[3] = c
    BY <1>7
  <1>9. first \in [Cloned -> 0..Trials] /\ Firsts(f.first) = Trials
    <2>1. f.first \in [Cloned -> 0..Trials] /\ Firsts(f.first) = Trials
      <3>1. \A t \in 1..Trials : ends[t].first \in Cloned
        BY <1>3
      <3>2. QED
        BY <3>1, <1>4, <1>7, FirstsSum
    <2>2. QED
      BY <1>7, <2>1
  <1>10. EndedCount(ends, Horizon) \in 0..Trials
    BY <1>4, EndedCountIs
  <1>11. /\ 2 * f.risk > Trials => b <= 100 * Horizon
         /\ b <= 100 * Horizon => 2 * f.risk >= Trials
    <2>1. Horizon \in Nat
      BY WhatIfAssumption
    <2>2. QED
      BY <1>4, <1>6, <1>7, <2>1, PercentilesAre
  <1>12. c = 0 <=> HasFailed(clone)
    BY <1>3, <1>4, <1>5, <1>6, PercentilesAre
  <1>13. ASSUME NEW i \in Cloned, clone[i] = Barrier, f.first[i] = 0
         PROVE  \E j \in Cloned : j < i /\ clone[j] = Barrier
    <2>1. 1 \in 1..Trials
      BY <1>5
    <2>2. PICK j \in Cloned : j = ends[1].first /\ j <= i /\ clone[j] = Barrier
      BY <1>3, <1>13, <2>1
    <2>3. j # i
      <3>1. SUFFICES ASSUME j = i PROVE FALSE
        OBVIOUS
      <3> DEFINE mine == {t \in 1..Trials : ends[t].first = i}
      <3>2. 1 \in mine
        BY <2>1, <2>2, <3>1
      <3>3. Cardinality(mine) = 0
        BY <1>7, <1>13
      <3>4. IsFiniteSet(mine)
        <4>1. IsFiniteSet(1..Trials) /\ mine \subseteq 1..Trials
          BY <1>4, EndedCountIs
        <4>2. QED
          BY <4>1, FS_Subset
      <3> HIDE DEF mine
      <3>5. QED
        BY <3>2, <3>3, <3>4, FS_EmptySet
    <2>4. i \in Int /\ j \in Int
      <3>1. Cloned \subseteq Nat
        BY WhatIfAssumption DEF Cloned
      <3>2. QED
        BY <3>1
    <2>5. QED
      BY <2>2, <2>3, <2>4
  <1>14. ForecastGood(f, clone)
    BY <1>6, <1>8, <1>9, <1>11, <1>12, <1>13 DEF ForecastGood
  <1>15. f \in Forecasts
    BY <1>2, <1>7, <1>8, <1>9, <1>10 DEF Forecasts
  <1>16. QED
    BY <1>14, <1>15 DEF f

WhatIfRuns == [pc : {"idle", "baseline", "answered"}, request : Requested, clone : Clones, load : LoadLevels,
         baseline : Forecasts, hypothetical : Forecasts, energy : Int]

WhatIfInv ==
    /\ damaged \in [DOMAIN MachineOf -> 0..Barrier] /\ load \in LoadLevels /\ whatIf \in WhatIfRuns
    /\ whatIf.pc # "idle" => Cloned # {} /\ ForecastGood(whatIf.baseline, whatIf.clone)
    /\ whatIf.pc = "answered" => /\ ForecastGood(whatIf.hypothetical, AfterMaintenance(whatIf))
                                 /\ whatIf.energy = EnergyImpact(whatIf)

LEMMA NoWhatIfIs == NoWhatIf \in WhatIfRuns /\ NoWhatIf.pc = "idle"
  <1>1. Barrier \in Nat \ {0} /\ Trials \in Nat /\ LoadLevels \subseteq Nat /\ 0 \in LoadLevels
    BY WhatIfAssumption
  <1>2. <<0, 0, 0>> \in Seq(Nat) /\ 0 \in 0..Trials /\ [i \in Cloned |-> 0] \in [Cloned -> 0..Trials]
        /\ [i \in Cloned |-> 0] \in Clones
    BY <1>1 DEF Clones
  <1>3. NoForecast \in Forecasts
    BY <1>2 DEF NoForecast, Forecasts
  <1>4. Unchanged \in Requested
    BY DEF Unchanged, Requested
  <1>5. QED
    BY <1>1, <1>2, <1>3, <1>4 DEF NoWhatIf, WhatIfRuns

LEMMA WhatIfInvHolds == WhatIfInit => WhatIfInv
  <1>1. Barrier \in Nat \ {0} /\ 1 \in LoadLevels
    BY WhatIfAssumption
  <1>2. QED
    BY <1>1, NoWhatIfIs DEF WhatIfInit, WhatIfInv

LEMMA BeginWhatIfKeeps == ASSUME NEW request \in Requested, WhatIfInv, BeginWhatIf(request) PROVE WhatIfInv'
  <1>1. PICK draws \in Draws :
          LET run == [NoWhatIf EXCEPT !.pc = "baseline", !.request = request,
                                     !.clone = [i \in Cloned |-> damaged[i]], !.load = load] IN
          whatIf' = [run EXCEPT !.baseline = Simulate(run.clone, AsRuns(run), draws)]
    BY DEF BeginWhatIf
  <1> DEFINE clone == [i \in Cloned |-> damaged[i]]
             run == [NoWhatIf EXCEPT !.pc = "baseline", !.request = request, !.clone = clone, !.load = load]
             forecast == Simulate(run.clone, AsRuns(run), draws)
  <1>2. clone \in Clones /\ Cloned # {}
    BY DEF WhatIfInv, Clones, Cloned, BeginWhatIf
  <1> HIDE DEF clone
  <1>3. run \in WhatIfRuns /\ run.pc = "baseline" /\ run.clone = clone /\ run.load = load /\ run.request = request
    BY <1>2, NoWhatIfIs DEF WhatIfInv, WhatIfRuns
  <1> HIDE DEF run
  <1>4. Operates(AsRuns(run))
    BY <1>3 DEF WhatIfInv, AsRuns, Operates, Requested
  <1>5. forecast \in Forecasts /\ ForecastGood(forecast, clone)
    BY <1>2, <1>3, <1>4, SimulateIs
  <1>6. whatIf' = [run EXCEPT !.baseline = forecast]
    BY <1>1 DEF run, clone
  <1> HIDE DEF forecast
  <1>7. whatIf' \in WhatIfRuns /\ whatIf'.pc = "baseline" /\ whatIf'.baseline = forecast /\ whatIf'.clone = clone
    BY <1>3, <1>5, <1>6 DEF WhatIfRuns
  <1>8. UNCHANGED <<damaged, load>>
    BY DEF BeginWhatIf
  <1>9. ForecastGood(whatIf.baseline, whatIf.clone)'
    BY <1>5, <1>7
  <1>10. QED
    BY <1>2, <1>7, <1>8, <1>9 DEF WhatIfInv

LEMMA AnswerWhatIfKeeps == WhatIfInv /\ AnswerWhatIf => WhatIfInv'
  <1> SUFFICES ASSUME WhatIfInv, AnswerWhatIf PROVE WhatIfInv'
    OBVIOUS
  <1>1. PICK draws \in Draws :
          whatIf' = [whatIf EXCEPT !.pc = "answered", !.energy = EnergyImpact(whatIf),
                                   !.hypothetical = Simulate(AfterMaintenance(whatIf), WouldRun(whatIf), draws)]
    BY DEF AnswerWhatIf
  <1> DEFINE forecast == Simulate(AfterMaintenance(whatIf), WouldRun(whatIf), draws)
  <1>2. whatIf \in WhatIfRuns /\ whatIf.pc = "baseline" /\ Cloned # {} /\ ForecastGood(whatIf.baseline, whatIf.clone)
    BY DEF WhatIfInv, AnswerWhatIf
  <1>3. Operates(WouldRun(whatIf)) /\ WouldRun(whatIf).load \in Nat /\ whatIf.load \in Nat
    BY <1>2, WhatIfAssumption DEF WhatIfRuns, WouldRun, Operates, Requested
  <1>4. AfterMaintenance(whatIf) \in Clones
    BY <1>2, WhatIfAssumption DEF WhatIfRuns, Clones, AfterMaintenance
  <1>5. forecast \in Forecasts /\ ForecastGood(forecast, AfterMaintenance(whatIf))
    BY <1>2, <1>3, <1>4, SimulateIs
  <1>6. EnergyImpact(whatIf) \in Int
    BY <1>3 DEF EnergyImpact
  <1> HIDE DEF forecast
  <1>7. /\ whatIf' \in WhatIfRuns /\ whatIf'.pc = "answered" /\ whatIf'.baseline = whatIf.baseline
        /\ whatIf'.clone = whatIf.clone /\ whatIf'.request = whatIf.request /\ whatIf'.load = whatIf.load
        /\ whatIf'.hypothetical = forecast /\ whatIf'.energy = EnergyImpact(whatIf)
    BY <1>1, <1>2, <1>5, <1>6 DEF WhatIfRuns, forecast
  <1>8. AfterMaintenance(whatIf)' = AfterMaintenance(whatIf) /\ EnergyImpact(whatIf)' = EnergyImpact(whatIf)
    BY <1>7 DEF AfterMaintenance, EnergyImpact, WouldRun
  <1>9. ForecastGood(whatIf.baseline, whatIf.clone)' /\ ForecastGood(whatIf.hypothetical, AfterMaintenance(whatIf))'
    BY <1>2, <1>5, <1>7, <1>8
  <1>10. UNCHANGED <<damaged, load>>
    BY DEF AnswerWhatIf
  <1>11. QED
    BY <1>2, <1>7, <1>8, <1>9, <1>10 DEF WhatIfInv

LEMMA WhatIfInvKept == WhatIfInv /\ [WhatIfNext]_whatIfVars => WhatIfInv'
  <1> SUFFICES ASSUME WhatIfInv, [WhatIfNext]_whatIfVars PROVE WhatIfInv'
    OBVIOUS
  <1>1. ASSUME UNCHANGED whatIf, damaged' \in [DOMAIN MachineOf -> 0..Barrier], load' \in LoadLevels PROVE WhatIfInv'
    BY <1>1 DEF WhatIfInv, AfterMaintenance, EnergyImpact, WouldRun
  <1>2. CASE AskByForm
    BY <1>2, BeginWhatIfKeeps DEF AskByForm
  <1>3. CASE AskAloud
    <2>1. Spoken \subseteq Requested
      BY DEF Spoken, Requested, Unchanged
    <2>2. QED
      BY <1>3, <2>1, BeginWhatIfKeeps DEF AskAloud
  <1>4. CASE AnswerWhatIf
    BY <1>4, AnswerWhatIfKeeps
  <1>5. CASE WhatIfDone
    BY <1>5, NoWhatIfIs DEF WhatIfDone, WhatIfInv
  <1>6. CASE PartWears
    <2>1. PICK i \in DOMAIN MachineOf : damaged[i] < Barrier /\ damaged' = [damaged EXCEPT ![i] = @ + 1]
      BY <1>6 DEF PartWears
    <2>2. damaged[i] + 1 \in 0..Barrier
      BY <2>1, WhatIfAssumption DEF WhatIfInv
    <2>3. damaged' \in [DOMAIN MachineOf -> 0..Barrier]
      BY <2>1, <2>2 DEF WhatIfInv
    <2>4. QED
      BY <1>1, <1>6, <2>3 DEF PartWears, WhatIfInv
  <1>7. CASE LoadChanges
    BY <1>1, <1>7 DEF LoadChanges, WhatIfInv
  <1>8. CASE IsReset
    <2>1. 0 \in 0..Barrier
      BY WhatIfAssumption
    <2>2. QED
      BY <1>1, <1>8, <2>1 DEF IsReset, WhatIfInv
  <1>9. CASE UNCHANGED whatIfVars
    BY <1>1, <1>9 DEF whatIfVars, WhatIfInv
  <1>10. QED
    BY <1>2, <1>3, <1>4, <1>5, <1>6, <1>7, <1>8, <1>9 DEF WhatIfNext

LEMMA WhatIfInvGives == WhatIfInv => WhatIfTypeOK /\ WhatIfSound
  <1> SUFFICES ASSUME WhatIfInv PROVE WhatIfTypeOK /\ WhatIfSound
    OBVIOUS
  <1>1. WhatIfTypeOK
    BY DEF WhatIfInv, WhatIfTypeOK, WhatIfRuns, Clones, Forecasts
  <1>2. SUFFICES ASSUME whatIf.pc = "answered" PROVE OneClone /\ NumbersAgree
    BY <1>1 DEF WhatIfSound, OneClone, NumbersAgree
  <1>3. /\ ForecastGood(whatIf.baseline, whatIf.clone)
        /\ ForecastGood(whatIf.hypothetical, AfterMaintenance(whatIf))
        /\ whatIf.energy = EnergyImpact(whatIf) /\ whatIf \in WhatIfRuns
    BY <1>2 DEF WhatIfInv
  <1>4. HasFailed(AfterMaintenance(whatIf)) <=> HasFailed(whatIf.clone) /\ ~whatIf.request.serviced
    <2>1. 0 # Barrier
      BY WhatIfAssumption
    <2>2. QED
      BY <2>1 DEF HasFailed, AfterMaintenance
  <1>5. OneClone
    BY <1>3, <1>4 DEF OneClone, ForecastGood, HasFailed
  <1>6. whatIf.energy > 0 => whatIf.request.load # AsItRuns
    <2>1. whatIf.load \in Nat
      BY <1>3, WhatIfAssumption DEF WhatIfRuns
    <2>2. whatIf.request.load = AsItRuns => whatIf.energy = whatIf.load - whatIf.load
      BY <1>3 DEF EnergyImpact, WouldRun
    <2>3. QED
      BY <2>1, <2>2
  <1>7. NumbersAgree
    <2>1. \A f \in {whatIf.baseline, whatIf.hypothetical} : \E clone : ForecastGood(f, clone)
      BY <1>3
    <2>2. QED
      BY <1>3, <1>6, <2>1 DEF NumbersAgree, ForecastGood, Firsts
  <1>8. QED
    BY <1>5, <1>7

\* Ask the twin (simulate, risk_within, WhatIfService.run): the two arms of an answer are
\* of one clone, however the simulator wore meanwhile, and the percentiles, the
\* risk and the first parts of an answer agree with each other, for any parts,
\* loads, shocks, number of trials and horizon.
THEOREM WhatIfStaysSound == WhatIfSpec => [](WhatIfTypeOK /\ WhatIfSound)
  BY WhatIfInvHolds, WhatIfInvKept, WhatIfInvGives, PTL DEF WhatIfSpec
=============================================================================
