------------------------------ MODULE ScenarioRuns ------------------------------
(***************************************************************************)
(* The platform's control of the simulator (apps/api/app/modules/          *)
(* simulation): a request is passed on first, and what it did is written   *)
(* and committed after.  The simulator keeps its scenario in memory; the   *)
(* table scenario_runs is the record of it, one row open at a time.        *)
(* Requests overlap at READ COMMITTED: an UPDATE takes the rows committed  *)
(* when it starts, waits for those another transaction has locked and      *)
(* looks at them again.                                                    *)
(***************************************************************************)
EXTENDS Integers, Sequences, FiniteSets

CONSTANTS
    Scenarios,      \* rows of the table scenarios that the simulator knows
    RunWorkers,     \* API workers
    MaxRunRequests, \* bound: requests
    MaxRestarts     \* bound: restarts of the simulator

VARIABLES
    scenario,   \* the simulator's, in memory
    scenarioRuns,   \* committed rows: their scenario, whether ended_at is null, whether they are exports
    trail,      \* committed audit rows, by action
    control,    \* what each worker is doing
    asked,      \* bound
    restarts,   \* bound
    done,       \* history: what the simulator has done, by action
    settled     \* history: the last start ran alone and nothing has happened since

runVars == <<scenario, scenarioRuns, trail, control, asked, restarts, done, settled>>

ASSUME RunAssumption == IsFiniteSet(RunWorkers) /\ MaxRunRequests \in Nat /\ MaxRestarts \in Nat

NoScenario == "no scenario"
Controls   == {"create", "inject_fault", "time_scale", "reset", "export"}
NoControl  == [pc |-> "idle", action |-> "create", code |-> NoScenario, found |-> {}, ends |-> {}, alone |-> FALSE]

RunTypeOK ==
    /\ scenario \in Scenarios \cup {NoScenario}
    /\ \A i \in DOMAIN scenarioRuns :
         scenarioRuns[i] \in [code : Scenarios \cup {NoScenario}, open : BOOLEAN, export : BOOLEAN]
    /\ trail \in [Controls -> 0..MaxRunRequests] /\ done \in [Controls -> 0..MaxRunRequests]
    /\ control \in [RunWorkers -> [pc : {"idle", "asking", "told", "ending", "ended"}, action : Controls,
                                   code : Scenarios \cup {NoScenario}, found : SUBSET (1..MaxRunRequests),
                                   ends : SUBSET (1..MaxRunRequests), alone : BOOLEAN]]
    /\ asked \in 0..MaxRunRequests /\ restarts \in 0..MaxRestarts /\ settled \in BOOLEAN

RunInit ==
    /\ scenario = NoScenario /\ scenarioRuns = <<>>
    /\ trail = [a \in Controls |-> 0] /\ done = [a \in Controls |-> 0]
    /\ control = [w \in RunWorkers |-> NoControl]
    /\ asked = 0 /\ restarts = 0 /\ settled = FALSE

Starting(w) == control[w].pc # "idle" /\ control[w].action = "create"

-----------------------------------------------------------------------------
(* A request.  One for a scenario or an asset that has no row is refused    *)
(* (404) before anything is sent.                                           *)
Requests(w, action, code) ==
    /\ control[w].pc = "idle" /\ asked < MaxRunRequests /\ asked' = asked + 1
    /\ LET starts  == {v \in RunWorkers \ {w} : Starting(v)}
           crossed == IF action = "create" THEN starts ELSE {} IN
       control' = [v \in RunWorkers |->
           IF v = w THEN [NoControl EXCEPT !.pc = "asking", !.action = action, !.code = code,
                                           !.alone = (action = "create" /\ starts = {})]
           ELSE IF v \in crossed THEN [control[v] EXCEPT !.alone = FALSE]
           ELSE control[v]]
    /\ UNCHANGED <<scenario, scenarioRuns, trail, restarts, done, settled>>

RequestScenario(w) == \E s \in Scenarios : Requests(w, "create", s)
RequestFault(w)   == Requests(w, "inject_fault", NoScenario)
RequestTimeScale(w)  == Requests(w, "time_scale", NoScenario)
RequestReset(w)    == Requests(w, "reset", NoScenario)
RequestExport(w) == \E s \in Scenarios \cup {NoScenario} : Requests(w, "export", s)

\* The session closes with its transaction: nothing of it stays.
EndsControl(w) == [control EXCEPT ![w] = NoControl]

\* SimulatorClient.request: the simulator does it or refuses it, and the answer
\* comes or is lost (503); an error status (404, 422, 502) ends the request too.
AskSimulator(w) ==
    LET c == control[w] IN
    /\ c.pc = "asking"
    /\ \/ \* done, and answered or not
          /\ done' = [done EXCEPT ![c.action] = @ + 1]
          /\ IF c.action = "create" THEN scenario' = c.code /\ settled' = FALSE ELSE UNCHANGED <<scenario, settled>>
          /\ \/ control' = [control EXCEPT ![w].pc = "told"]
             \/ control' = EndsControl(w)
       \/ \* refused, or never there
          control' = EndsControl(w) /\ UNCHANGED <<scenario, settled, done>>
    /\ UNCHANGED <<scenarioRuns, trail, asked, restarts>>

-----------------------------------------------------------------------------
(* The record of a start: end what is open, insert, audit, commit.          *)
OpenRuns == {i \in DOMAIN scenarioRuns : scenarioRuns[i].open}

\* The UPDATE starts.
FindOpenRuns(w) ==
    /\ control[w].pc = "told" /\ control[w].action = "create"
    /\ control' = [control EXCEPT ![w].pc = "ending", ![w].found = OpenRuns]
    /\ UNCHANGED <<scenario, scenarioRuns, trail, asked, restarts, done, settled>>

\* It has waited for every row it found and ends those that are still open.
EndOpenRuns(w) ==
    LET c == control[w] IN
    /\ c.pc = "ending"
    /\ \A v \in RunWorkers \ {w} : control[v].ends \cap c.found = {}
    /\ control' = [control EXCEPT ![w].pc = "ended", ![w].ends = c.found \cap OpenRuns]
    /\ UNCHANGED <<scenario, scenarioRuns, trail, asked, restarts, done, settled>>

\* Mutant: the new run is inserted before the UPDATE, which ends it too.
InsertedFirst(c) ==
    IF c.action \in {"create", "export"} THEN <<[code |-> c.code, open |-> FALSE, export |-> c.action = "export"]>> ELSE <<>>

\* The run of an export is inserted with the time it ended.
Inserted(c) ==
    IF c.action = "create" THEN <<[code |-> c.code, open |-> TRUE, export |-> FALSE]>>
    ELSE IF c.action = "export" THEN <<[code |-> c.code, open |-> FALSE, export |-> TRUE]>>
    ELSE <<>>

CommitControl(w) ==
    LET c == control[w] IN
    /\ c.pc = (IF c.action = "create" THEN "ended" ELSE "told")
    /\ control' = EndsControl(w)
    /\ \/ /\ trail' = [trail EXCEPT ![c.action] = @ + 1]
          /\ scenarioRuns' = [i \in DOMAIN scenarioRuns |->
                                IF i \in c.ends THEN [scenarioRuns[i] EXCEPT !.open = FALSE] ELSE scenarioRuns[i]]
                             \o Inserted(c)
          /\ settled' = (settled \/ (c.alone /\ scenario = c.code))
       \/ UNCHANGED <<trail, scenarioRuns, settled>>
    /\ UNCHANGED <<scenario, asked, restarts, done>>

\* The simulator's process starts anew, with the scenario of SIM_SCENARIO or
\* none; the platform is not told.
SimulatorRestarts ==
    /\ restarts < MaxRestarts /\ restarts' = restarts + 1
    /\ scenario' = NoScenario /\ settled' = FALSE
    /\ control' = [w \in RunWorkers |-> [control[w] EXCEPT !.alone = FALSE]]
    /\ UNCHANGED <<scenarioRuns, trail, asked, done>>

RunNext ==
    \/ SimulatorRestarts
    \/ \E w \in RunWorkers :
         \/ RequestScenario(w) \/ RequestFault(w) \/ RequestTimeScale(w) \/ RequestReset(w) \/ RequestExport(w)
         \/ AskSimulator(w) \/ FindOpenRuns(w) \/ EndOpenRuns(w) \/ CommitControl(w)

-----------------------------------------------------------------------------
(* Properties. *)

\* Whatever starts have overlapped, failed half-way or been forgotten by the
\* simulator before, one that ran alone puts the record right: the only open
\* run is that of the scenario the simulator runs.  (Two starts that overlap
\* leave two open runs, and the UPDATE of neither sees the other's row.)
ScenarioRecorded ==
    settled => {scenarioRuns[i].code : i \in OpenRuns} = {scenario} /\ Cardinality(OpenRuns) = 1

\* "audited control of the simulator": nothing is on record that the simulator
\* has not done.  (What it did and lost the answer of, or failed to commit, is
\* not on record.)
NothingInvented ==
    /\ \A a \in Controls : trail[a] <= done[a]
    /\ \A i \in OpenRuns : ~scenarioRuns[i].export

\* The record of the simulator can be believed.
RunsSound == ScenarioRecorded /\ NothingInvented
=============================================================================
