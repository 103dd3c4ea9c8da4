---------------------------- MODULE MaintenancePlans ----------------------------
(***************************************************************************)
(* Maintenance plans (apps/api/app/modules/maintenance: optimiser.py and   *)
(* ScheduleService): optimise runs the solver over the schedulable orders  *)
(* and activates the plan it finds, in one transaction that may overlap    *)
(* another; patch_item moves an order of the plan by hand, wherever and    *)
(* for as long as the planner wants it, and reports the conflicts.  The    *)
(* solver is what its constraints say; its objective only chooses among    *)
(* the solutions.  The solver and the conflicts count in slots, the items  *)
(* and the calendars have times, SlotLength of which make a slot.          *)
(***************************************************************************)
EXTENDS Integers, FiniteSets

CONSTANTS
    Planners,        \* API workers
    PlanOrders,      \* orders, 1..n
    Technicians,
    Slots,           \* slots of the horizon
    SlotLength,      \* units of time in a slot (SLOT_MINUTES)
    MaxPlans,        \* bound: plans made
    MaxDrags,        \* bound: items moved since the plan was activated
    Duration(_),     \* slots an order takes, at least 1
    LineOf(_),       \* the line of the order's asset
    Windows(_)       \* a technician's availability rows: kind, starts, ends (times)

VARIABLES
    active,   \* committed: the plans marked active
    items,    \* items of the active plan; NoItem: not in it
    planner,  \* each optimise under way: where it is, the plan, the active ones it saw
    drags,    \* items moved since the plan was activated
    plans     \* bound, and the number of the next plan

ASSUME PlanAssumption ==
    /\ PlanOrders \subseteq Nat /\ Slots \in Nat /\ SlotLength \in Nat \ {0} /\ MaxPlans \in Nat /\ MaxDrags \in Nat
    /\ "none" \notin Technicians /\ \A o \in PlanOrders : Duration(o) \in Nat \ {0}

planVars == <<active, items, planner, drags, plans>>

NoItem == [start |-> 0, end |-> 0, tech |-> "none"]
NoPlan == [pc |-> "idle", plan |-> 0, seen |-> {}]
HorizonEnd == SlotLength * Slots
ItemRows == [start : 0..HorizonEnd, end : 0..HorizonEnd, tech : Technicians \cup {"none"}]
Items  == [PlanOrders -> ItemRows]

PlanTypeOK ==
    /\ active \subseteq 1..MaxPlans /\ items \in Items /\ drags \in 0..MaxDrags /\ plans \in 0..MaxPlans
    /\ planner \in [Planners -> [pc : {"idle", "deactivate", "activate", "flushed"},
                                 plan : 0..MaxPlans, seen : SUBSET (1..MaxPlans)]]

PlanInit ==
    /\ active = {} /\ plans = 0 /\ items = [o \in PlanOrders |-> NoItem] /\ drags = 0
    /\ planner = [p \in Planners |-> NoPlan]

-----------------------------------------------------------------------------
(* The solver's inputs and constraints *)

\* slot_time, and _slot_of, which rounds down.
SlotTime(slot) == SlotLength * slot
SlotOf(time)   == time \div SlotLength

Covers(window, slot) == window.starts <= SlotTime(slot) /\ SlotTime(slot) < window.ends

\* Mutant: leave is subtracted before the availability is added.
AvailableFirst(tech, slot) ==
    Windows(tech) = {} \/ \E w \in Windows(tech) : w.kind = "available" /\ Covers(w, slot)

\* No calendar at all: always there.  Otherwise in a window of availability
\* and in none of leave or training, as the slot begins.
Available(tech, slot) ==
    LET covering == {w \in Windows(tech) : Covers(w, slot)} IN
    Windows(tech) = {} \/ (covering # {} /\ \A w \in covering : w.kind = "available")

Overlap(a, b) == a.start < b.end /\ b.start < a.end

\* Mutant: two orders of one line may overlap.
ApartTechOnly(plan, o, p) == plan[o].tech = plan[p].tech => ~Overlap(plan[o], plan[p])

Apart(plan, o, p) ==
    plan[o].tech = plan[p].tech \/ LineOf(o) = LineOf(p) => ~Overlap(plan[o], plan[p])

\* An order that does not fit in the horizon is left out, unscheduled.
Plannable == {o \in PlanOrders : Duration(o) <= Slots}

PlanOf(starts, techs) ==
    [o \in PlanOrders |-> IF o \in Plannable
                          THEN [start |-> SlotTime(starts[o]), end |-> SlotTime(starts[o] + Duration(o)), tech |-> techs[o]]
                          ELSE NoItem]

SlotsIn(item) == SlotOf(item.start)..(SlotOf(item.end) - 1)

Sound(plan) ==
    \A o \in Plannable :
      /\ plan[o].end <= HorizonEnd
      /\ \A k \in SlotsIn(plan[o]) : Available(plan[o].tech, k)
      /\ \A p \in Plannable \ {o} : Apart(plan, o, p)

Solutions == {plan \in {PlanOf(s, t) : s \in [PlanOrders -> 0..(Slots - 1)], t \in [PlanOrders -> Technicians]} : Sound(plan)}

-----------------------------------------------------------------------------
(* ScheduleService.optimise, ScheduleRepository.activate *)
Optimise(p) ==
    /\ planner[p].pc = "idle" /\ plans < MaxPlans /\ plans' = plans + 1
    /\ planner' = [planner EXCEPT ![p] = [pc |-> "deactivate", plan |-> plans', seen |-> active]]
    /\ UNCHANGED <<active, items, drags>>

Holds(p) == planner[p].pc \in {"activate", "flushed"}

\* Mutant: the deactivation is committed by itself.
DeactivateNow(p) ==
    /\ planner[p].pc = "deactivate"
    /\ active' = active \ planner[p].seen
    /\ planner' = [planner EXCEPT ![p].pc = "activate"]
    /\ UNCHANGED <<items, drags, plans>>

\* The UPDATE waits for whoever is deactivating the same plan and, that one
\* committed, finds it no longer active.
Deactivate(p) ==
    /\ planner[p].pc = "deactivate"
    /\ \A q \in Planners \ {p} : Holds(q) => planner[q].seen \cap planner[p].seen = {}
    /\ planner' = [planner EXCEPT ![p].pc = "activate", ![p].seen = @ \cap active]
    /\ UNCHANGED <<active, items, drags, plans>>

\* Mutant: nothing but the UPDATE keeps two plans from being active.
ActivateUnchecked(p) ==
    /\ planner[p].pc = "activate"
    /\ planner' = [planner EXCEPT ![p].pc = "flushed"]
    /\ UNCHANGED <<active, items, drags, plans>>

\* schedules_active_uq: the flush waits for another plan flushed and not yet
\* committed, and is refused (409) if one it has not deactivated is active.
Activate(p) ==
    /\ planner[p].pc = "activate"
    /\ \A q \in Planners \ {p} : planner[q].pc # "flushed"
    /\ planner' = [planner EXCEPT ![p] = IF active \subseteq @.seen THEN [@ EXCEPT !.pc = "flushed"] ELSE NoPlan]
    /\ UNCHANGED <<active, items, drags, plans>>

CommitPlan(p) ==
    /\ planner[p].pc = "flushed"
    /\ active' = (active \ planner[p].seen) \cup {planner[p].plan}
    /\ items' \in Solutions /\ drags' = 0
    /\ planner' = [planner EXCEPT ![p] = NoPlan]
    /\ UNCHANGED plans

\* Infeasible, not asked to activate, or failed.
PlanFails(p) ==
    /\ planner[p].pc # "idle"
    /\ planner' = [planner EXCEPT ![p] = NoPlan]
    /\ UNCHANGED <<active, items, drags, plans>>

-----------------------------------------------------------------------------
(* patch_item and the conflicts it reports *)

\* A move within the horizon is never refused, to any time and of any length.
PatchItem(o) ==
    /\ items[o].tech # "none" /\ drags < MaxDrags /\ drags' = drags + 1
    /\ \A p \in Planners : planner[p].pc = "idle"
    /\ \E start, end \in 0..HorizonEnd, tech \in Technicians :
         /\ start < end
         /\ items' = [items EXCEPT ![o] = [start |-> start, end |-> end, tech |-> tech]]
    /\ UNCHANGED <<active, planner, plans>>

Planned == {o \in PlanOrders : items[o].tech # "none"}

\* The order of the sweep: by slot, and by time as they are listed.
Before(o, p) == items[o].start < items[p].start \/ (items[o].start = items[p].start /\ o < p)

Shared(o, p) == items[o].tech = items[p].tech \/ LineOf(o) = LineOf(p)

\* Mutant: an order that starts as another ends is in its way.
BeginsBy(p, o) == SlotOf(items[p].start) <= SlotOf(items[o].end)

BeginsWithin(p, o) == SlotOf(items[p].start) < SlotOf(items[o].end)

\* Mutant: the search stops at the first order that is not in conflict.
ReachedUntilFree(o, p) ==
    /\ Before(o, p)
    /\ \A q \in Planned : q = p \/ (Before(o, q) /\ Before(q, p)) => BeginsWithin(q, o) /\ Shared(o, q)

\* From an order the sweep goes through those after it, until one starts in
\* or after the slot in which it ends.
Reached(o, p) ==
    /\ Before(o, p)
    /\ \A q \in Planned : q = p \/ (Before(o, q) /\ Before(q, p)) => BeginsWithin(q, o)

\* optimiser.conflicts
Conflicts ==
    {pair \in SUBSET Planned : \E o, p \in pair : pair = {o, p} /\ Reached(o, p) /\ Shared(o, p)}

PlanNext ==
    \/ \E p \in Planners : Optimise(p) \/ Deactivate(p) \/ Activate(p) \/ CommitPlan(p) \/ PlanFails(p)
    \/ \E o \in PlanOrders : PatchItem(o)

PlanSpec == PlanInit /\ [][PlanNext]_planVars

-----------------------------------------------------------------------------
(* Properties. *)

\* "Exactly one active plan at a time", however many are being activated, and
\* the shop floor is never without the one it had.
OneActivePlan ==
    /\ Cardinality(active) <= 1
    /\ (\E o \in PlanOrders : items[o] # NoItem) => active # {}

\* Two orders of one technician or line whose times overlap, by a slot's length
\* or more.
Collide(o, p) == o # p /\ Shared(o, p) /\ Overlap(items[o], items[p])
CollideForASlot(o, p) ==
    o # p /\ Shared(o, p) /\ \A a, b \in {items[o], items[p]} : a.start + SlotLength <= b.end

\* "reports any conflict it creates": after any number of drags, the sweep over
\* the sorted items, which rounds to slots and stops early, reports only orders
\* that collide, and all that collide for a slot's length or more.  Orders that
\* collide for less, within one slot, it may miss.
ConflictsFound ==
    /\ \A pair \in Conflicts : \E o, p \in Planned : pair = {o, p} /\ Collide(o, p)
    /\ \A o, p \in Planned : CollideForASlot(o, p) => {o, p} \in Conflicts

\* Until somebody moves an item, no two orders of a plan collide, though it was
\* solved in slots, and at the start of no slot is anybody asked to work who
\* is on leave or not there.
PlanIsSound ==
    drags = 0 => \A o \in Planned :
      /\ \A p \in Planned : ~Collide(o, p)
      /\ \A k \in SlotsIn(items[o]), w \in Windows(items[o].tech) : w.kind # "available" => ~Covers(w, k)

\* The plan in force is one, sound as it was solved, and its conflicts known but
\* for those within a slot.
PlansSound == OneActivePlan /\ ConflictsFound /\ PlanIsSound
=============================================================================
