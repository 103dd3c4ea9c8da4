-------------------------------- MODULE Services --------------------------------
(***************************************************************************)
(* The components of the platform, of the edge and of the simulator that   *)
(* share no state with one another, side by side: in every behaviour one   *)
(* of them runs and the others rest in their initial state.  Those that    *)
(* have work to finish are in BackgroundWork.                              *)
(***************************************************************************)
EXTENDS VoiceAction, VoiceDialogue, PlantSimulation, SparkplugNode, MachineSignals,
        ScenarioCatalog, ModelRegistry, Scoring, Training, LiveUpdates, AssetRegistry,
        MaintenancePlans, ShiftCalendar, ProductionKpis, ScenarioRuns, WhatIf

VARIABLE part   \* the component that runs

serviceVars == <<part, voiceVars, dialogueVars, plantVars, nodeVars, signalVars, catalogVars,
                 registryVars, scoringVars, trainingVars, liveVars, assetVars, planVars,
                 calendarVars, kpiVars, runVars, whatIfVars>>

Parts == {"voice", "dialogue", "plant", "node", "signals", "catalog", "registry", "scoring",
          "training", "live", "assets", "plans", "calendar", "kpis", "runs", "whatif"}

-----------------------------------------------------------------------------
(* Values of the constants that are functions. *)

\* One component of two wears by a process that may go back.
ProcessOf == [c \in Component |-> IF c = 1 THEN "wiener" ELSE "gamma"]

\* The third order takes two slots; all but the first are of one line.
SlotsOf(o) == IF o = 3 THEN 2 ELSE 1
Line(o)    == IF o = 1 THEN "l1" ELSE "l2"

\* One technician has no calendar, the other is there until slot 3 but for a
\* leave that begins within a slot and ends within the next.
WindowsOf(t) ==
    IF t = "t1" THEN {}
    ELSE {[kind |-> "available", starts |-> 0, ends |-> 6], [kind |-> "leave", starts |-> 1, ends |-> 3]}

\* Between two parts that wear, one that heat wears too, is one without a
\* degradation model.
PartsOf == <<[life |-> 1, thermal |-> FALSE], [life |-> 0, thermal |-> FALSE], [life |-> 2, thermal |-> TRUE]>>

-----------------------------------------------------------------------------
ServicesInit ==
    /\ part \in Parts
    /\ VoiceInit /\ DialogueInit /\ PlantInit /\ NodeInit /\ SignalInit /\ CatalogInit
    /\ RegistryInit /\ ScoringInit /\ TrainingInit /\ LiveInit /\ AssetInit /\ PlanInit
    /\ CalendarInit /\ KpiInit /\ RunInit /\ WhatIfInit

Rest(p, vars) == part # p => UNCHANGED vars

\* A step of the component p, with the others at rest.
Only(p) ==
    /\ part = p /\ UNCHANGED part
    /\ Rest("voice", voiceVars) /\ Rest("dialogue", dialogueVars)
    /\ Rest("plant", plantVars) /\ Rest("node", nodeVars)
    /\ Rest("signals", signalVars) /\ Rest("catalog", catalogVars)
    /\ Rest("registry", registryVars) /\ Rest("scoring", scoringVars)
    /\ Rest("training", trainingVars) /\ Rest("live", liveVars)
    /\ Rest("assets", assetVars) /\ Rest("plans", planVars)
    /\ Rest("calendar", calendarVars) /\ Rest("kpis", kpiVars)
    /\ Rest("runs", runVars) /\ Rest("whatif", whatIfVars)

ServicesNext ==
    \/ Only("voice")    /\ VoiceNext
    \/ Only("dialogue") /\ DialogueNext
    \/ Only("plant")    /\ PlantNext
    \/ Only("node")     /\ NodeNext
    \/ Only("signals")  /\ SignalNext
    \/ Only("catalog")  /\ CatalogNext
    \/ Only("registry") /\ RegistryNext
    \/ Only("scoring")  /\ ScoringNext
    \/ Only("training") /\ TrainingNext
    \/ Only("live")     /\ LiveNext
    \/ Only("assets")   /\ AssetNext
    \/ Only("plans")    /\ PlanNext
    \/ Only("calendar") /\ CalendarNext
    \/ Only("kpis")     /\ KpiNext
    \/ Only("runs")     /\ RunNext
    \/ Only("whatif")   /\ WhatIfNext

ServicesSpec == ServicesInit /\ [][ServicesNext]_serviceVars

-----------------------------------------------------------------------------
(* Properties, of the component that runs: the others are as they began.   *)

\* The state of the component is well formed.
ServicesTypeOK ==
    /\ part \in Parts
    /\ part = "voice"    => VoiceTypeOK
    /\ part = "dialogue" => DialogueTypeOK
    /\ part = "plant"    => PlantTypeOK
    /\ part = "node"     => NodeTypeOK
    /\ part = "signals"  => SignalTypeOK
    /\ part = "catalog"  => CatalogTypeOK
    /\ part = "registry" => RegistryTypeOK
    /\ part = "scoring"  => ScoringTypeOK
    /\ part = "training" => TrainingTypeOK
    /\ part = "live"     => LiveTypeOK
    /\ part = "assets"   => AssetTypeOK
    /\ part = "plans"    => PlanTypeOK
    /\ part = "calendar" => CalendarTypeOK
    /\ part = "kpis"     => KpiTypeOK
    /\ part = "runs"     => RunTypeOK
    /\ part = "whatif"   => WhatIfTypeOK

\* What the simulator shows can be relied on: the state of a machine agrees
\* with its damage at every tick, what its sensors and counters tell is true
\* or declared faulty, the engine refuses an event of a scenario that was
\* accepted only for what validation does not look at (a duration, an empty
\* name), and the record of what it was told to run can be believed.
SimulatorSound ==
    /\ part = "plant"   => MachineSound
    /\ part = "signals" => SignalsSound
    /\ part = "catalog" => ValidatedRuns
    /\ part = "runs"    => RunsSound

\* What is foretold of a machine rests on what is known of it: a model is fed
\* what it was trained on, and a what-if is about one machine at one time.
ForecastSound ==
    /\ part = "scoring" => ScoringSound
    /\ part = "whatif"  => WhatIfSound

\* What is computed over time holds for the time it says: the shift that is
\* on, and the sums of what machines did and drew.
TimeAgrees ==
    /\ part = "calendar" => ShiftsSound
    /\ part = "kpis"     => KpisAgree
=============================================================================
