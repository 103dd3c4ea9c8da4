------------------------------ MODULE VoiceDialogue ------------------------------
(***************************************************************************)
(* A dialogue with VoiceNav (apps/api/app/modules/voice/service.py and     *)
(* tools.py, packages/nlu): an utterance is routed to an intent, what it   *)
(* leaves unsaid is taken from the context of its session, and it is       *)
(* answered, questioned or read back.  Turns of one session (two tabs) run *)
(* at the same time: each has read the context when it began and writes    *)
(* all of it when it commits.  The context counts for two minutes after    *)
(* the last turn that touched it.  How a read-back is confirmed by several *)
(* requests at once is in VoiceAction; here it is settled in one step.     *)
(***************************************************************************)
EXTENDS Integers, Sequences, FiniteSets, FiniteSetsExt

CONSTANTS
    Machines,     \* codes of machines, strings
    VoiceTabs,    \* turns of the session at the same time
    AllowT3,      \* settings.allow_t3
    MaxCommands,  \* bound: read-backs
    MaxLapses     \* bound: silences of two minutes

ASSUME DialogueAssumption == MaxCommands \in Nat /\ MaxLapses \in Nat

VARIABLES
    context,   \* the row's context: the machine, and whose explanation, was last spoken of
    fresh,     \* it was touched within two minutes
    tab,       \* each turn under way, with the context it has read
    commands,  \* the rows of voice_actions, in the order of their read-backs
    era        \* history: the number of silences of two minutes

dialogueVars == <<context, fresh, tab, commands, era>>

\* A value of the context, with the conversation it was said in.
Unsaid       == [of |-> "none", era |-> 0]
Said(m)      == [of |-> m, era |-> era]
EmptyContext == [machine |-> Unsaid, explanation |-> Unsaid]
NoTurn       == [pc |-> "idle", context |-> EmptyContext, fresh |-> FALSE]

DialogueTypeOK ==
    LET Sayings   == [of : Machines \cup {"none"}, era : 0..MaxLapses]
        Contexts == [machine : Sayings, explanation : Sayings] IN
    /\ context \in Contexts /\ fresh \in BOOLEAN /\ era \in 0..MaxLapses
    /\ tab \in [VoiceTabs -> [pc : {"idle", "turn"}, context : Contexts, fresh : BOOLEAN]]
    /\ Len(commands) <= MaxCommands
    /\ \A k \in DOMAIN commands :
         commands[k] \in [tier : {"T2", "T3"}, about : Sayings, late : BOOLEAN,
                          status : {"pending", "expired", "cancelled", "rejected", "failed", "executed"},
                          by : {"nobody", "confirm", "cancel", "repeat", "slower", "button", "pin"}]

DialogueInit ==
    /\ context = EmptyContext /\ fresh = FALSE /\ era = 0
    /\ tab = [t \in VoiceTabs |-> NoTurn] /\ commands = <<>>

-----------------------------------------------------------------------------
(* The catalogue: intents.yaml, and what the tools need and return.        *)
Tier == [get_machine_status |-> "T0", explain_prediction |-> "T0", get_counterfactual |-> "T0",
         list_alarms |-> "T0", get_kpi |-> "T0", navigate_dashboard |-> "T0", help |-> "T0",
         run_what_if |-> "T1", acknowledge_alarm |-> "T2", create_work_order |-> "T2",
         generate_report |-> "T2", give_feedback |-> "T2", set_simulation_scenario |-> "T3"]

Intents == DOMAIN Tier

\* required_arguments has asset_id, or alarm_id, which is looked up by machine.
NeedsMachine == {"get_machine_status", "explain_prediction", "get_counterfactual", "run_what_if",
                 "acknowledge_alarm", "create_work_order", "set_simulation_scenario"}

NamesNoMachine == {"help", "give_feedback"}

\* Intents whose tool may return an explanation_id.
Explains == {"get_machine_status", "explain_prediction", "get_counterfactual"}

NeedsConfirmation(intent) == Tier[intent] \in {"T2", "T3"}

-----------------------------------------------------------------------------
(* Understanding. *)

\* route: the first stage that has something to say.
Stage(found) ==
    IF "exact" \in found THEN "exact" ELSE IF "relaxed" \in found THEN "relaxed"
    ELSE IF "llm" \in found THEN "llm" ELSE "none"

Confidence == [exact |-> 95, relaxed |-> 80, llm |-> 75, none |-> 0]

Understood(found) == Stage(found) # "none" /\ Confidence[Stage(found)] >= 60

\* Mutant: the fewest captured characters first.
BestShortest(readings) ==
    CHOOSE r \in readings : \A q \in readings :
        r.captured < q.captured \/ (r.captured = q.captured /\ r.open <= q.open)

\* _best: of the readings of one pass, a machine's name torn in two loses to
\* anything; then the fewest captured characters, then the fewest open slots.
Best(readings) ==
    LET key == [r \in readings |-> 10000 * (IF r.torn THEN 1 ELSE 0) + 100 * r.captured + r.open] IN
    CHOOSE r \in readings : \A q \in readings : key[r] <= key[q]

\* rank: of each machine the better of its forms (code and name), the best two.
Rank(score) ==
    LET ms     == {f[1] : f \in DOMAIN score}
        best   == [m \in ms |-> Max({score[f] : f \in {g \in DOMAIN score : g[1] = m}})]
        first  == CHOOSE m \in ms : \A n \in ms : best[n] <= best[m]
        other  == CHOOSE m \in ms \ {first} : \A n \in ms \ {first} : best[n] <= best[m] IN
    IF Cardinality(ms) = 1 THEN <<[ref |-> first, score |-> best[first]]>>
    ELSE <<[ref |-> first, score |-> best[first]], [ref |-> other, score |-> best[other]]>>

\* Mutant: the best that clears the threshold.
ResolveBest(score) == LET c == Rank(score) IN IF c[1].score < 85 THEN "none" ELSE c[1].ref

\* resolve: the one machine that clears the threshold and is clearly ahead.
Resolve(score) ==
    LET c == Rank(score) IN
    IF c[1].score < 85 \/ (Len(c) > 1 /\ c[1].score - c[2].score < 5) THEN "none" ELSE c[1].ref

-----------------------------------------------------------------------------
(* Spoken times, in hours of a plant whose day 0 is a Thursday that begins *)
(* a month.                                                                *)
DayOfWeek(day) == (day + 3) % 7

\* Mutant: today's weekday is today.
WeeksAheadToday(ahead, again, past) == IF again THEN ahead + 7 ELSE ahead

WeeksAhead(ahead, again, past) ==
    IF (ahead = 0 \/ again) /\ (past \/ again) THEN ahead + 7 ELSE ahead

\* parse_datetime: s.day is the word for the day, s.again says "next", s.hour
\* the time of day, 8 unless said; 0 stands for no time.
SpokenTime(s, now) ==
    LET day   == now \div 24
        base  == 24 * day + (IF s.hour = 0 THEN 8 ELSE s.hour)
        ahead == (s.weekday - DayOfWeek(day)) % 7 IN
    CASE s.day = "tomorrow" -> base + 24
      [] s.day = "today"    -> base
      [] s.day = "weekday"  -> base + 24 * WeeksAhead(ahead, s.again, base <= now)
      [] s.day = "week"     -> base + 168
      [] s.day = "none" /\ s.hour # 0 -> IF base > now THEN base ELSE base + 24
      [] OTHER              -> 0

MonthStarts == {0, 31, 59, 90, 120}

FirstOfMonth(day) == Max({d \in MonthStarts : d <= day})

\* Mutant: three days after the 28th are the next month.
NextMonthShort(first) == FirstOfMonth(first + 27 + 3)

\* _next_month: the 28th and four days
NextMonth(first) == FirstOfMonth(first + 27 + 4)

\* _bucket_bounds, of the current bucket (0) or the last (-1)
Bounds(bucket, offset, now) ==
    LET day   == now \div 24
        week  == day - DayOfWeek(day) + 7 * offset
        month == IF offset = 0 THEN FirstOfMonth(day) ELSE FirstOfMonth(FirstOfMonth(day) - 1) IN
    CASE bucket = "hour"  -> <<now + offset, now + offset + 1>>
      [] bucket = "day"   -> <<24 * (day + offset), 24 * (day + offset + 1)>>
      [] bucket = "week"  -> <<24 * week, 24 * (week + 7)>>
      [] bucket = "month" -> <<24 * month, 24 * NextMonth(month)>>
      [] bucket = "shift" -> <<24 * day + 8 * offset, 24 * day + 8 * offset + 8>>

-----------------------------------------------------------------------------
(* The context. *)

\* _live_context: what is more than two minutes old is forgotten.
Live(c) == IF c.fresh THEN c.context ELSE EmptyContext

\* Mutant: what is old is remembered again.
RememberAll(c, m, e) ==
    [c EXCEPT !.context.machine = IF m = Unsaid THEN @ ELSE m,
              !.context.explanation = IF e = Unsaid THEN @ ELSE e,
              !.fresh = TRUE]

\* _remember: c is a context with its freshness (a turn).
Remember(c, m, e) ==
    [c EXCEPT !.context = [machine     |-> IF m = Unsaid THEN Live(c).machine ELSE m,
                           explanation |-> IF e = Unsaid THEN Live(c).explanation ELSE e],
              !.fresh = TRUE]

\* The turn after the machine m was found in what was said; "none": none was said.
Heard(t, m) == IF m = "none" THEN tab[t] ELSE Remember(tab[t], Said(m), Unsaid)

\* The machine the turn is about.
Machine(t, m) == IF m = "none" THEN Live(tab[t]).machine ELSE Said(m)

\* The commit writes the context if the turn has touched it.
Commits(t, c) ==
    /\ IF c = tab[t] THEN UNCHANGED <<context, fresh>> ELSE context' = c.context /\ fresh' = c.fresh
    /\ tab' = [tab EXCEPT ![t] = NoTurn]

-----------------------------------------------------------------------------
(* A turn. *)

BeginDialogueTurn(t) ==
    /\ tab[t] = NoTurn
    /\ tab' = [tab EXCEPT ![t] = [pc |-> "turn", context |-> context, fresh |-> fresh]]
    /\ UNCHANGED <<context, fresh, commands, era>>

\* Not understood, or a question back: the transcript is in doubt, no machine
\* is clearly meant, something else is missing (an open alarm, a task), or the
\* tool fails.  The machine that was found is remembered all the same.
AsksBack(t) ==
    /\ tab[t].pc = "turn"
    /\ \E m \in Machines \cup {"none"} : Commits(t, Heard(t, m))
    /\ UNCHANGED <<commands, era>>

\* What the turn is about once its slots are resolved.
Ready(t, intent, m) ==
    /\ tab[t].pc = "turn"
    /\ intent \in NamesNoMachine => m = "none"
    /\ intent \in NeedsMachine => Machine(t, m) # Unsaid

\* _execute_now: the status of a machine names it, and an answer may come with
\* the explanation of its prediction.
Answers(t) ==
    LET said   == {x \in Intents \X (Machines \cup {"none"}) : ~NeedsConfirmation(x[1]) /\ Ready(t, x[1], x[2])}
        about(x) == Said(Machine(t, x[2]).of)
        named(x) == IF x[1] = "get_machine_status" THEN about(x) ELSE Unsaid
        explained(x) == {Unsaid} \cup (IF x[1] \in Explains THEN {about(x)} ELSE {}) IN
    /\ \E turn \in UNION {{Remember(Heard(t, x[2]), named(x), e) : e \in explained(x)} : x \in said} : Commits(t, turn)
    /\ UNCHANGED <<commands, era>>

\* _read_back; feedback is about the explanation of the context, if any.
ReadsBack(t) ==
    /\ Len(commands) < MaxCommands
    /\ \E intent \in Intents, m \in Machines \cup {"none"} :
         /\ NeedsConfirmation(intent) /\ Ready(t, intent, m)
         /\ Tier[intent] = "T3" => AllowT3
         /\ commands' = Append(commands, [tier |-> Tier[intent], late |-> FALSE, status |-> "pending", by |-> "nobody",
                about |-> IF intent = "give_feedback" THEN Live(tab[t]).explanation ELSE Machine(t, m)])
         /\ Commits(t, Heard(t, m))
    /\ UNCHANGED era

-----------------------------------------------------------------------------
(* The answer to a read-back. *)

Settle(k, outcome, by) ==
    /\ commands' = [commands EXCEPT ![k].status = outcome, ![k].by = by]
    /\ UNCHANGED <<context, fresh, tab, era>>

Open(k) == commands[k].status = "pending" /\ ~commands[k].late

\* Mutant: the second factor is not asked for.
ConfirmsUnchecked(k, by) == \E outcome \in {"rejected", "failed", "executed"} : Settle(k, outcome, by)

\* confirm: the second factor, the parameters, the tool.
Confirms(k, by) ==
    \E outcome \in {"rejected", "failed", "executed"} :
      /\ commands[k].tier = "T3" /\ by # "pin" => outcome = "rejected"
      /\ Settle(k, outcome, by)

\* _handle_control: the newest read-back in its window.  What is not "repeat"
\* and not "cancel" confirms; "repeat" finds its own turn and repeats nothing.
ControlWord(word) ==
    \E k \in DOMAIN commands :
      /\ Open(k) /\ \A j \in DOMAIN commands : Open(j) => j <= k
      /\ word # "repeat"
      /\ IF word = "cancel" THEN Settle(k, "cancelled", word) ELSE Confirms(k, word)

ConfirmButton(by) == \E k \in DOMAIN commands : Open(k) /\ Confirms(k, by)

CancelButton == \E k \in DOMAIN commands : commands[k].status = "pending" /\ Settle(k, "cancelled", "button")

\* expire_stale, or confirm too late
ExpireRead == \E k \in DOMAIN commands : commands[k].status = "pending" /\ commands[k].late /\ Settle(k, "expired", "nobody")

-----------------------------------------------------------------------------
(* Time. *)

WindowCloses ==
    /\ \E k \in DOMAIN commands : Open(k) /\ commands' = [commands EXCEPT ![k].late = TRUE]
    /\ UNCHANGED <<context, fresh, tab, era>>

\* Two minutes without a turn that touches the context; a turn, and a window,
\* are shorter.
Silence ==
    /\ fresh /\ era < MaxLapses /\ era' = era + 1 /\ fresh' = FALSE
    /\ \A t \in VoiceTabs : tab[t] = NoTurn
    /\ \A k \in DOMAIN commands : ~Open(k)
    /\ UNCHANGED <<context, tab, commands>>

DialogueNext ==
    \/ \E t \in VoiceTabs : BeginDialogueTurn(t) \/ AsksBack(t) \/ Answers(t) \/ ReadsBack(t)
    \/ \E word \in {"confirm", "cancel", "repeat", "slower"} : ControlWord(word)
    \/ \E by \in {"button", "pin"} : ConfirmButton(by)
    \/ CancelButton \/ ExpireRead \/ WindowCloses \/ Silence

DialogueSpec == DialogueInit /\ [][DialogueNext]_dialogueVars

-----------------------------------------------------------------------------
(* Properties. *)

\* Unsaid said before a silence of two minutes is used after it: what a turn
\* takes from the context, and what waits to be confirmed, was said in this
\* conversation, however the turns overlap.
NothingRevived ==
    LET new(v) == v = Unsaid \/ v.era = era IN
    /\ \A c \in {[context |-> context, fresh |-> fresh]} \cup {tab[t] : t \in VoiceTabs} :
         new(Live(c).machine) /\ new(Live(c).explanation)
    /\ \A k \in DOMAIN commands : Open(k) => new(commands[k].about)

\* An actuation is executed with the second factor only, however it is confirmed.
ActuatedWithPin ==
    \A k \in DOMAIN commands : commands[k].tier = "T3" /\ commands[k].status = "executed" => commands[k].by = "pin"

\* A machine is taken for the one that was said only if no other could be: in
\* either of its forms every other is five points behind.  A reading with half
\* a name is taken only if every reading has, and what a stage explains is
\* never put off for want of confidence.
MeantMachine ==
    /\ \A found \in SUBSET {"exact", "relaxed", "llm"} : Understood(found) <=> found # {}
    /\ \A score \in [{"m1", "m2", "m3"} \X {"code"} \cup {<<"m1", "name">>} -> {60, 84, 88, 92}] :
         LET m == Resolve(score) IN
         m # "none" => \A f \in DOMAIN score : f[1] # m =>
            \E g \in DOMAIN score : g[1] = m /\ score[g] >= Max({85, score[f] + 5})
    /\ \A readings \in (SUBSET [torn : BOOLEAN, captured : {3, 8}, open : {1}]) \ {{}} :
         Best(readings).torn => \A r \in readings : r.torn

\* A spoken time is ahead and on the day that was said, unless "today" was
\* said; a bucket begins where the last one ends, a month is a whole month,
\* and all but the shift contain the hour in which they are spoken of.
SpokenTimes ==
    LET hours == {24 * d + h : d \in 59..67, h \in {0, 8, 13, 23}} IN
    /\ \A s \in [day : {"tomorrow", "weekday", "week", "none"}, weekday : {0, 4}, again : BOOLEAN, hour : {0, 8, 18}] :
         \A now \in hours :
           LET at == SpokenTime(s, now) IN
           at # 0 => at > now /\ (s.day = "weekday" => DayOfWeek(at \div 24) = s.weekday)
    /\ \A bucket \in {"hour", "day", "week", "month", "shift"} : \A now \in hours :
         LET this == Bounds(bucket, 0, now)
             last == Bounds(bucket, -1, now) IN
         /\ last[2] = this[1] /\ last[1] < last[2]
         /\ bucket # "shift" => this[1] <= now /\ now < this[2]

\* What is said is done to what was meant.
DialogueSound == NothingRevived /\ ActuatedWithPin /\ MeantMachine /\ SpokenTimes

\* Only the phrases of confirmation (or its button) execute a read-back.  The
\* code does not give it: "slower" does too.
OnlyConfirmExecutes ==
    \A k \in DOMAIN commands : commands[k].status = "executed" => commands[k].by \in {"confirm", "button", "pin"}
=============================================================================
