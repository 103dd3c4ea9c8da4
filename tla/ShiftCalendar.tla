----------------------------- MODULE ShiftCalendar -----------------------------
(***************************************************************************)
(* Working time: the shifts and tariffs of the registry (apps/api/app/     *)
(* modules/analytics: ShiftService, TariffService, rate_at; workers/tasks/ *)
(* rollup.py: the bounds of a period) and the shift calendar the simulated *)
(* machines run to (apps/simulator/sim/shifts.py, Engine._shift_changes).  *)
(*                                                                         *)
(* A week has Days days of Hours hours in the plant's own time; an instant *)
(* is an hour counted from the start of a week before, so that the day     *)
(* before is there too.  Changes of daylight saving time are left out.     *)
(***************************************************************************)
EXTENDS Integers, Sequences, FiniteSets, SequencesExt

CONSTANTS
    Days,       \* days in a week
    Hours,      \* hours in a day
    MaxShifts   \* bound: rows

\* With one day in a week the search for the next change would stop short of
\* tomorrow's shift.
ASSUME CalendarAssumption == Days \in Nat /\ Days >= 2 /\ Hours \in Nat \ {0} /\ MaxShifts \in Nat

VARIABLES
    hour,     \* the present instant, in the middle one of three weeks
    shifts,   \* rows: starts, ends, days of the week
    onShift,  \* Engine.shift: the row's number, or 0
    wake      \* the instant at which _shift_changes wakes

calendarVars == <<hour, shifts, onShift, wake>>

Week  == Days * Hours
Now   == Week..(2 * Week - 1)
Clock == 0..(Hours - 1)
ShiftRows == [starts : Clock, ends : Clock, days : SUBSET (0..(Days - 1))]

CalendarTypeOK ==
    /\ hour \in Now /\ shifts \in Seq(ShiftRows) /\ Len(shifts) <= MaxShifts
    /\ onShift \in 0..Len(shifts) /\ wake \in Week..(4 * Week)

Midnight(h) == h - (h % Hours)
Weekday(h)  == (h \div Hours) % Days

-----------------------------------------------------------------------------
(* apps/simulator: shifts.py *)

\* The shift of a row that starts on a day, and may end on the next
Instance(rows, r, day) ==
    [row |-> r, starts |-> day + rows[r].starts,
     ends |-> (IF rows[r].ends <= rows[r].starts THEN day + Hours ELSE day) + rows[r].ends]

\* _instances: the shifts that start on the working days from `first' on; a
\* shift belongs to the day it starts.
Instances(rows, first, count) ==
    UNION {{Instance(rows, r, day) : r \in {q \in DOMAIN rows : Weekday(day) \in rows[q].days}} :
             day \in {first + Hours * d : d \in 0..(count - 1)}}

\* Mutant: the shift that began yesterday is not looked for.
ActiveToday(rows, h) ==
    LET in == {i \in Instances(rows, Midnight(h), 1) : i.starts <= h /\ h < i.ends} IN
    IF in = {} THEN 0 ELSE Min({i.row : i \in in})

\* ShiftCalendar.active: the first, yesterday's before today's, in which the
\* instant lies.
Active(rows, h) ==
    LET in == {i \in Instances(rows, Midnight(h) - Hours, 2) : i.starts <= h /\ h < i.ends}
        first == Min({i.starts \div Hours : i \in in}) IN
    IF in = {} THEN 0 ELSE Min({i.row : i \in {j \in in : j.starts \div Hours = first}})

\* Mutant: the end of the shift that began yesterday is no change.
NextChangeFromToday(rows, h) ==
    LET edges == {e \in UNION {{i.starts, i.ends} : i \in Instances(rows, Midnight(h), Days + 1)} : e > h} IN
    IF edges = {} THEN h + Hours ELSE Min(edges)

\* next_change: SEARCH_DAYS is a week and the day before
NextChange(rows, h) ==
    LET edges == {e \in UNION {{i.starts, i.ends} : i \in Instances(rows, Midnight(h) - Hours, Days + 1)} : e > h} IN
    IF edges = {} THEN h + Hours ELSE Min(edges)

-----------------------------------------------------------------------------
(* apps/api: _within, _shift_bounds, _period_bounds, rate_at *)
\* Mutant: a shift is still on at its end.
WithinClosed(clock, starts, ends) ==
    IF starts <= ends THEN starts <= clock /\ clock <= ends ELSE clock >= starts \/ clock <= ends

Within(clock, starts, ends) ==
    IF starts <= ends THEN starts <= clock /\ clock < ends ELSE clock >= starts \/ clock < ends

\* The first row whose window holds the clock and whose days hold the weekday of
\* the present, after midnight too, or 0.
RowAt(rows, h) ==
    LET in == {r \in DOMAIN rows : Weekday(h) \in rows[r].days /\ Within(h % Hours, rows[r].starts, rows[r].ends)} IN
    IF in = {} THEN 0 ELSE Min(in)

Day(h) == <<Midnight(h), Midnight(h) + Hours>>

\* Mutant: after midnight the shift is taken to begin today.
ShiftBoundsToday(rows, h) ==
    IF RowAt(rows, h) = 0 THEN Day(h)
    ELSE LET r == rows[RowAt(rows, h)]
             first == Midnight(h) IN
         <<first + r.starts, IF r.ends <= r.starts THEN first + Hours + r.ends ELSE first + r.ends>>

ShiftBounds(rows, h) ==
    IF RowAt(rows, h) = 0 THEN Day(h)
    ELSE LET r == rows[RowAt(rows, h)]
             crosses == r.ends <= r.starts
             first == IF crosses /\ h % Hours < r.ends THEN Midnight(h) - Hours ELSE Midnight(h) IN
         <<first + r.starts, IF crosses THEN first + Hours + r.ends ELSE first + r.ends>>

-----------------------------------------------------------------------------
CalendarInit == hour = Week /\ shifts = <<>> /\ onShift = 0 /\ wake = Week + 1

\* ShiftService.create_shift; the rows are listed by code.  The simulator has
\* its calendar from a file and begins with it.
NewCalendar(rows) ==
    /\ shifts' = rows
    /\ onShift' = Active(rows, hour) /\ wake' = NextChange(rows, hour)
    /\ UNCHANGED hour

CreateShift(r) == Len(shifts) < MaxShifts /\ NewCalendar(Append(shifts, r))
DeleteShift(r)   == NewCalendar(RemoveAt(shifts, r))

\* An hour passes; _shift_changes, if it is due, looks at the calendar again.
HourPasses ==
    LET next == IF hour + 1 \in Now THEN hour + 1 ELSE Week
        back == IF hour + 1 \in Now THEN 0 ELSE Week IN
    /\ hour' = next
    /\ IF wake - back = next
       THEN onShift' = Active(shifts, next) /\ wake' = NextChange(shifts, next)
       ELSE onShift' = onShift /\ wake' = wake - back
    /\ UNCHANGED shifts

CalendarNext ==
    \/ HourPasses
    \/ \E r \in ShiftRows : CreateShift(r)
    \/ \E r \in DOMAIN shifts : DeleteShift(r)

CalendarSpec == CalendarInit /\ [][CalendarNext]_calendarVars

-----------------------------------------------------------------------------
(* Properties. *)

\* The machines work when somebody is at work: at every hour the engine has a
\* shift exactly if the hour is one of those a shift of a working day covers,
\* counted hour by hour from its start, through midnight and the week's end.
OnShiftWhenWorking ==
    LET Length(r) == IF r.ends > r.starts THEN r.ends - r.starts ELSE Hours + r.ends - r.starts IN
    onShift # 0 <=> \E r \in DOMAIN shifts, back \in 0..(Hours - 1) :
        /\ back < Length(shifts[r]) /\ (hour - back) % Hours = shifts[r].starts
        /\ Weekday(hour - back) \in shifts[r].days

\* "The shift currently in progress" (_shift_bounds; the head of rollup.py speaks
\* of the one that just ended): the period a KPI is rolled up for holds the
\* present and is no longer than a day, whatever rows there are.
PeriodHoldsNow ==
    LET bounds == ShiftBounds(shifts, hour) IN
    bounds[1] <= hour /\ hour < bounds[2] /\ bounds[2] - bounds[1] <= Hours

\* A shift that has come through midnight, or one that ends when it starts, which
\* is a day long for the engine and no time at all for the rollup.
RulesDiffer ==
    \E r \in DOMAIN shifts :
       \/ shifts[r].starts = shifts[r].ends
       \/ shifts[r].ends < shifts[r].starts /\ hour % Hours < shifts[r].ends

\* Two copies of one rule: the rollup has a shift exactly when the engine has
\* one, and it is of a day on which it is worked.  It is not so after midnight,
\* when the rollup asks about the new day's weekday and the engine about that of
\* the day the shift began, nor with a shift that ends when it starts.
RollupFollowsEngine ==
    LET row == RowAt(shifts, hour) IN
    ~RulesDiffer =>
      /\ row # 0 <=> onShift # 0
      /\ row # 0 => Weekday(ShiftBounds(shifts, hour)[1]) \in shifts[row].days

\* Machines and rollups agree with the shifts on the wall, but for what
\* RollupFollowsEngine leaves out.
ShiftsSound == OnShiftWhenWorking /\ PeriodHoldsNow /\ RollupFollowsEngine
=============================================================================
