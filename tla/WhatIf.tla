--------------------------------- MODULE WhatIf ---------------------------------
(***************************************************************************)
(* Ask the twin (apps/api/app/modules/twin/whatif.py, whatif_service.py):  *)
(* the damage the simulator carries is cloned, every component is drawn to *)
(* its first passage, as the machine runs and as it would run, and the     *)
(* machine lives as long as its first component.  The simulator goes on    *)
(* wearing the machine meanwhile.                                          *)
(*                                                                         *)
(* Damage is counted in parts of the barrier, load in nominal loads (speed *)
(* acts as load does) and life in quarters of a part's; a draw is the mean *)
(* by the shock of its trial.  Rounding is left out.                       *)
(***************************************************************************)
EXTENDS Integers, Sequences, FiniteSets, FiniteSetsExt

CONSTANTS
    MachineOf,   \* the components in order: life_h, 0 without a degradation model, and whether heat wears them
    LoadLevels,       \* in nominal loads
    Barrier,     \* the damage a component fails at
    Shocks,      \* draws over their mean
    Trials,      \* trials
    Horizon      \* horizon_h

\* The quarters of a life are fine enough that no rounding ends a part that lives.
ASSUME WhatIfAssumption ==
    /\ MachineOf \in Seq([life : Nat, thermal : BOOLEAN])
    /\ LoadLevels \subseteq Nat /\ {0, 1} \subseteq LoadLevels
    /\ Barrier \in Nat \ {0} /\ Shocks \subseteq Nat \ {0}
    /\ Trials \in Nat \ {0} /\ Horizon \in Nat \ {0}
    /\ \A shock \in Shocks, l \in LoadLevels : 2 * l <= 4 * shock

VARIABLES
    damaged,        \* the simulator's damage, by component
    load,        \* and its load
    whatIf       \* the run under way, then its answer

whatIfVars == <<damaged, load, whatIf>>

AsItRuns == -1
Requested == [load : LoadLevels \cup {AsItRuns}, hot : BOOLEAN, serviced : BOOLEAN]
Unchanged == [load |-> AsItRuns, hot |-> FALSE, serviced |-> FALSE]

\* Components with a degradation model
Cloned  == {i \in DOMAIN MachineOf : MachineOf[i].life > 0}

NoForecast == [percentiles |-> <<0, 0, 0>>, risk |-> 0, first |-> [i \in Cloned |-> 0]]
NoWhatIf   == [pc |-> "idle", request |-> Unchanged, clone |-> [i \in Cloned |-> 0], load |-> 0,
               baseline |-> NoForecast, hypothetical |-> NoForecast, energy |-> 0]

WhatIfTypeOK ==
    LET Forecasts == [percentiles : Seq(Nat), risk : 0..Trials, first : [Cloned -> 0..Trials]] IN
    /\ damaged \in [DOMAIN MachineOf -> 0..Barrier] /\ load \in LoadLevels
    /\ whatIf \in [pc : {"idle", "baseline", "answered"}, request : Requested, clone : [Cloned -> 0..Barrier],
                   load : LoadLevels, baseline : Forecasts, hypothetical : Forecasts, energy : Int]

WhatIfInit == damaged = [i \in DOMAIN MachineOf |-> 0] /\ load = 1 /\ whatIf = NoWhatIf

-----------------------------------------------------------------------------
(* One trajectory.  A stopped machine wears nothing, and its parts are given *)
(* a thousand times their mean life.                                         *)
Stopped == 1000

Acceleration(c, at) == at.load * (IF c.thermal /\ at.hot THEN 2 ELSE 1)

\* time_to_failure_h: the first passage of the barrier that remains
Passage(i, damage, at, shock) ==
    LET mean == (Barrier - damage) * MachineOf[i].life * 4
        rate == Acceleration(MachineOf[i], at) IN
    IF rate = 0 THEN mean * Stopped ELSE (mean * shock) \div rate

\* The first component to end; argmin takes the one of least index among equals.
Trajectory(clone, at, shock) ==
    LET passages == {<<Passage(i, clone[i], at, shock[i]), i>> : i \in Cloned}
        life     == Min({p[1] : p \in passages}) IN
    [life |-> life, first |-> Min({p[2] : p \in {q \in passages : q[1] = life}})]

-----------------------------------------------------------------------------
(* The distribution over the trials. *)

EndedBy(ends, h) == {t \in 1..Trials : ends[t].life <= h}

\* The life of rank k
Ranked(ends, k) == Min({ends[t].life : t \in {u \in 1..Trials : Cardinality(EndedBy(ends, ends[u].life)) >= k}})

\* np.percentile: linear between the two ranks next to it, in hundredths
Percentile(p, ends) ==
    LET place == (Trials - 1) * p
        k     == place \div 100 IN
    (100 - (place % 100)) * Ranked(ends, k + 1) + (place % 100) * Ranked(ends, Min({k + 2, Trials}))

\* simulate, and risk_within
Simulate(clone, at, shocks) ==
    LET ends == [t \in 1..Trials |-> Trajectory(clone, at, shocks[t])] IN
    [percentiles |-> <<Percentile(10, ends), Percentile(50, ends), Percentile(90, ends)>>,
     risk  |-> Cardinality(EndedBy(ends, Horizon)),
     first |-> [i \in Cloned |-> Cardinality({t \in 1..Trials : ends[t].first = i})]]

Draws == [1..Trials -> [Cloned -> Shocks]]

-----------------------------------------------------------------------------
(* The operating points.  The ambient asked for is the baseline's too.       *)
AsRuns(run)   == [load |-> run.load, hot |-> run.request.hot]
WouldRun(run) == [load |-> IF run.request.load = AsItRuns THEN run.load ELSE run.request.load, hot |-> run.request.hot]

\* Mutant: the hypothetical starts from what the simulator carries by now.
AfterMaintenanceLive(run) == [i \in Cloned |-> IF run.request.serviced THEN 0 ELSE damaged[i]]

\* _after_maintenance: whenever it is to be, the parts are new from the start.
AfterMaintenance(run) == [i \in Cloned |-> IF run.request.serviced THEN 0 ELSE run.clone[i]]

\* energy_impact, in rated powers over the horizon
EnergyImpact(run) == WouldRun(run).load - run.load

-----------------------------------------------------------------------------
\* run: the simulator's status is read once, and the baseline drawn.  A machine
\* the simulator does not carry, or one with nothing to project, is refused (422).
BeginWhatIf(request) ==
    /\ whatIf.pc = "idle" /\ Cloned # {}
    /\ \E draws \in Draws :
         LET run == [NoWhatIf EXCEPT !.pc = "baseline", !.request = request,
                                     !.clone = [i \in Cloned |-> damaged[i]], !.load = load] IN
         whatIf' = [run EXCEPT !.baseline = Simulate(run.clone, AsRuns(run), draws)]
    /\ UNCHANGED <<damaged, load>>

\* The hypothetical, with draws of its own, and the answer.
AnswerWhatIf ==
    /\ whatIf.pc = "baseline"
    /\ \E draws \in Draws :
         whatIf' = [whatIf EXCEPT !.pc = "answered", !.energy = EnergyImpact(whatIf),
                                  !.hypothetical = Simulate(AfterMaintenance(whatIf), WouldRun(whatIf), draws)]
    /\ UNCHANGED <<damaged, load>>

\* The answer has been sent; nothing of it is kept.
WhatIfDone == whatIf.pc = "answered" /\ whatIf' = NoWhatIf /\ UNCHANGED <<damaged, load>>

\* POST /twin/{code}/what-if
AskByForm == \E request \in Requested : BeginWhatIf(request)

\* _what_if_request: a spoken question changes one thing; zero percent is no
\* percentage to it, and it asks for no unchanged run.
Spoken == {[Unchanged EXCEPT !.load = l] : l \in LoadLevels \ {0}}
          \cup {[Unchanged EXCEPT !.hot = TRUE], [Unchanged EXCEPT !.serviced = TRUE]}

AskAloud == \E request \in Spoken : BeginWhatIf(request)

\* The simulator ticks: a component wears while the machine runs.  Bound: the
\* simulator is not followed past one change during a run, nor after it.
Followed == whatIf.pc = "idle" \/ (whatIf.pc = "baseline" /\ load = whatIf.load /\ \A i \in Cloned : damaged[i] = whatIf.clone[i])

PartWears ==
    /\ Followed /\ load > 0
    /\ \E i \in DOMAIN MachineOf : damaged[i] < Barrier /\ damaged' = [damaged EXCEPT ![i] = @ + 1]
    /\ UNCHANGED <<load, whatIf>>

LoadChanges == Followed /\ load' \in LoadLevels /\ UNCHANGED <<damaged, whatIf>>

IsReset == Followed /\ damaged' = [i \in DOMAIN MachineOf |-> 0] /\ UNCHANGED <<load, whatIf>>

WhatIfNext == AskByForm \/ AskAloud \/ AnswerWhatIf \/ WhatIfDone \/ PartWears \/ LoadChanges \/ IsReset

WhatIfSpec == WhatIfInit /\ [][WhatIfNext]_whatIfVars

-----------------------------------------------------------------------------
(* Properties, of an answer. *)

\* The two arms are of one clone: the machine has failed already in both or in
\* neither, however much it wore while they were drawn, and servicing leaves
\* nothing failed.
OneClone ==
    LET failed == \E i \in Cloned : whatIf.clone[i] = Barrier
        ends(f) == f.percentiles[3] = 0 IN
    whatIf.pc = "answered" =>
      /\ ends(whatIf.baseline) <=> failed
      /\ ends(whatIf.hypothetical) <=> failed /\ ~whatIf.request.serviced

\* "Every number here comes from the distribution above it": the numbers of one
\* answer agree.  The median ends inside the horizon when most trajectories do,
\* and only if half of them do, the percentiles are in order, every trajectory has one part that ended it,
\* and of a part that had failed already it is that one.
NumbersAgree ==
    whatIf.pc = "answered" =>
      /\ \A f \in {whatIf.baseline, whatIf.hypothetical} :
           /\ 2 * f.risk > Trials => f.percentiles[2] <= 100 * Horizon
           /\ f.percentiles[2] <= 100 * Horizon => 2 * f.risk >= Trials
           /\ f.percentiles[1] <= f.percentiles[2] /\ f.percentiles[2] <= f.percentiles[3]
           /\ MapThenSumSet(LAMBDA i : f.first[i], Cloned) = Trials
      /\ \A i \in Cloned : whatIf.clone[i] = Barrier /\ whatIf.baseline.first[i] = 0
           => \E j \in Cloned : j < i /\ whatIf.clone[j] = Barrier
      /\ whatIf.energy > 0 => whatIf.request.load # AsItRuns

\* An answer is about one machine at one time.
WhatIfSound == OneClone /\ NumbersAgree
=============================================================================
