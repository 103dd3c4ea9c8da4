------------------------------- MODULE WorkOrders -------------------------------
(***************************************************************************)
(* Work orders (apps/api/app/modules/maintenance, workers/tasks/           *)
(* maintenance.py): created by hand or by the predictive task, edited,     *)
(* planned by the optimiser, and closed with a maintenance_reset sent to   *)
(* the machine (TwinCommand) between the update and the commit.  Requests  *)
(* and tasks run concurrently at READ COMMITTED: each decides on the rows  *)
(* it has read, and an updated row stays locked until its commit.          *)
(*                                                                         *)
(* The orders of one asset and failure mode are modelled.                  *)
(***************************************************************************)
EXTENDS TwinCommand

CONSTANTS
    MaxOrders,  \* bound: orders
    Workers,    \* API and task workers
    MaxJobs     \* bound: requests and tasks in all

ASSUME OrderAssumption == MaxOrders \in Nat /\ MaxJobs \in Nat

VARIABLES
    order,   \* each order's row
    job,     \* what each worker is doing and the statuses it has read
    jobs,    \* bound
    closer   \* history: the command sent for the closure of an order

orders == <<order, closer>>
vars == <<gateway, wire, orders, job, jobs>>

Order    == 1..MaxOrders
Open     == {"open", "scheduled", "in_progress"}
Terminal == {"closed", "cancelled"}
NoCommand == "no command"

Row  == [status : Open \cup Terminal \cup {"none"}, auto : BOOLEAN]
Idle == [pc |-> "idle", order |-> 0, command |-> NoCommand, seen |-> [o \in Order |-> "none"]]

TypeOK ==
    /\ CommandTypeOK
    /\ order \in [Order -> Row]
    /\ job \in [Workers ->
          [pc : {"idle", "raise", "update", "optimise", "close", "reset", "commit"},
           order : Order \cup {0}, command : Commands \cup {NoCommand},
           seen : [Order -> Open \cup Terminal \cup {"none"}]]]
    /\ jobs \in 0..MaxJobs
    /\ closer \in [Order -> Commands \cup {NoCommand}]

Init ==
    /\ CommandInit
    /\ order = [o \in Order |-> [status |-> "none", auto |-> FALSE]]
    /\ job = [w \in Workers |-> Idle]
    /\ jobs = 0
    /\ closer = [o \in Order |-> NoCommand]

Goes(w, to) == job' = [job EXCEPT ![w] = to]
Starts(w)   == job[w] = Idle /\ jobs < MaxJobs /\ jobs' = jobs + 1
Ends(w)     == Goes(w, Idle) /\ UNCHANGED jobs
Seen(rows)  == [o \in Order |-> IF o \in rows THEN order[o].status ELSE "none"]

\* Rows a closure has updated are locked until it commits or rolls back.
Locked == {job[w].order : w \in {v \in Workers : job[v].pc \in {"reset", "commit"}}}

OpenAuto(rows) == {o \in Order : rows[o].auto /\ rows[o].status \in Open}

\* work_orders_open_mode_uq: "one open auto-raised order per asset and failure
\* mode, so two concurrent inference workers cannot both raise it" (models.py).
IndexHolds(rows) == Cardinality(OpenAuto(rows)) <= 1

\* A commit the unique index refuses is rolled back.
Write(rows) == order' = IF IndexHolds(rows) THEN rows ELSE order

-----------------------------------------------------------------------------
(* Creation. *)

NextOrder == {o \in Order : order[o].status = "none"
                            /\ \A p \in Order : p < o => order[p].status # "none"}

\* An insert that meets an open row somebody is closing waits for that closure.
Insert(isAuto) ==
    /\ isAuto => OpenAuto(order) \cap Locked = {}
    /\ \E o \in NextOrder : Write([order EXCEPT ![o] = [status |-> "open", auto |-> isAuto]])

CreateOrder(w) ==
    /\ Starts(w)
    /\ \E isAuto \in BOOLEAN : Insert(isAuto)
    /\ UNCHANGED <<gateway, wire, closer, job>>

\* _raise_for_asset: no order is open for the mode ...
RaiseCheck(w) ==
    /\ Starts(w)
    /\ \A o \in Order : order[o].status \notin Open
    /\ Goes(w, [Idle EXCEPT !.pc = "raise"])
    /\ UNCHANGED <<gateway, wire, orders>>

\* ... so one is inserted.
RaiseOrder(w) ==
    /\ job[w].pc = "raise"
    /\ Insert(TRUE)
    /\ Ends(w)
    /\ UNCHANGED <<gateway, wire, closer>>

-----------------------------------------------------------------------------
(* Editing and planning. *)

\* update_order refuses a terminal order.
OpenUpdate(w) ==
    /\ Starts(w)
    /\ \E o \in Order :
         /\ order[o].status \in Open
         /\ Goes(w, [Idle EXCEPT !.pc = "update", !.order = o, !.seen = Seen({o})])
    /\ UNCHANGED <<gateway, wire, orders>>

\* Mutant: the schema takes any text.
SettableAnything == Open \cup Terminal \cup {"done"}

\* WorkOrderUpdate.status
Settable == Open \cup Terminal

\* The status asked for is written when it differs from the one read.
CommitUpdate(w) ==
    LET o == job[w].order IN
    /\ job[w].pc = "update"
    /\ o \notin Locked
    /\ \E s \in Settable :
         Write(IF s = job[w].seen[o] THEN order ELSE [order EXCEPT ![o].status = s])
    /\ Ends(w)
    /\ UNCHANGED <<gateway, wire, closer>>

Schedulable == {o \in Order : order[o].status \in {"open", "scheduled"}}

\* optimise reads the orders it may place, solves (seconds pass) ...
OptimiseRead(w) ==
    /\ Starts(w)
    /\ Schedulable # {}
    /\ Goes(w, [Idle EXCEPT !.pc = "optimise", !.seen = Seen(Schedulable)])
    /\ UNCHANGED <<gateway, wire, orders>>

\* ... and writes the plan: what was open when it was read becomes scheduled.
OptimiseCommit(w) ==
    /\ job[w].pc = "optimise"
    /\ \E placed \in SUBSET {o \in Order : job[w].seen[o] # "none"} :
         /\ placed \cap Locked = {}
         /\ Write([o \in Order |-> IF o \in placed /\ job[w].seen[o] = "open"
                                   THEN [order[o] EXCEPT !.status = "scheduled"] ELSE order[o]])
    /\ Ends(w)
    /\ UNCHANGED <<gateway, wire, closer>>

-----------------------------------------------------------------------------
(* Closure: close_order, _reset_damage. *)

CloseRead(w) ==
    /\ Starts(w)
    /\ \E o \in Order :
         /\ order[o].status \in Open
         /\ Goes(w, [Idle EXCEPT !.pc = "close", !.order = o])
    /\ UNCHANGED <<gateway, wire, orders>>

\* The row is updated, then the command goes out under a fresh id.
CloseSend(w) ==
    LET c == CHOOSE d \in Commands : outcome[d] = "none" IN
    /\ job[w].pc = "close"
    /\ job[w].order \notin Locked
    /\ \E d \in Commands : outcome[d] = "none"
    /\ Execute(c)
    /\ IF outcome'[c] = "unsent" THEN Goes(w, Idle)
       ELSE Goes(w, [job[w] EXCEPT !.pc = "reset", !.command = c])
    /\ UNCHANGED <<orders, jobs>>

\* reset_damage is off: the order is closed at once.
CloseQuietly(w) ==
    /\ job[w].pc = "close"
    /\ job[w].order \notin Locked
    /\ order' = [order EXCEPT ![job[w].order].status = "closed"]
    /\ Ends(w)
    /\ UNCHANGED <<gateway, wire, closer>>

\* Mutant: the answer is not looked at.
AnswerIgnored(answer) == TRUE

\* No answer counts as success.
AnswerTaken(answer) == answer # "rejected"

CloseAnswered(w) ==
    LET c == job[w].command IN
    /\ job[w].pc = "reset"
    /\ Return(c)
    /\ Goes(w, IF AnswerTaken(outcome'[c]) THEN [job[w] EXCEPT !.pc = "commit"] ELSE Idle)
    /\ UNCHANGED <<orders, jobs>>

CloseCommit(w) ==
    LET o == job[w].order IN
    /\ job[w].pc = "commit"
    /\ order' = [order EXCEPT ![o].status = "closed"]
    /\ closer' = [closer EXCEPT ![o] = job[w].command]
    /\ Ends(w)
    /\ UNCHANGED <<gateway, wire>>

-----------------------------------------------------------------------------
\* A worker dies or its commit fails: the transaction is rolled back, the
\* command is out.
Crash(w) ==
    /\ job[w] # Idle
    /\ Ends(w)
    /\ IF job[w].pc = "reset"
       THEN /\ pending' = pending \ {job[w].command}
            /\ outcome' = [outcome EXCEPT ![job[w].command] = "over"]
       ELSE UNCHANGED <<pending, outcome>>
    /\ UNCHANGED <<ack, wire, orders>>

Worker(w) ==
    \/ CreateOrder(w) \/ RaiseCheck(w) \/ RaiseOrder(w)
    \/ OpenUpdate(w) \/ CommitUpdate(w) \/ OptimiseRead(w) \/ OptimiseCommit(w)
    \/ CloseRead(w) \/ CloseSend(w) \/ CloseQuietly(w)
    \/ CloseAnswered(w) \/ CloseCommit(w)

Next ==
    \/ \E w \in Workers : Worker(w) \/ Crash(w)
    \/ (OnAck \/ RunCommand \/ Lose) /\ UNCHANGED <<orders, job, jobs>>

Spec == Init /\ [][Next]_vars

\* A wait that has timed out returns and the request goes on to its commit.
FairSpec ==
    Spec /\ \A w \in Workers : WF_vars(CloseAnswered(w) \/ CloseCommit(w))

-----------------------------------------------------------------------------
(* Properties. *)

\* "a rejected command rolls back the closure" (close_order): an order closed
\* with an answer is closed on an acceptance, and the machine was reset.
ClosedOnAnswer ==
    \A o \in Order : closer[o] # NoCommand =>
        \/ outcome[closer[o]] = "timeout"
        \/ outcome[closer[o]] = "accepted" /\ ran[closer[o]] > 0

\* A closure holds its row while it waits for the machine, which may never
\* answer; it lets go all the same.
RowReleased ==
    \A w \in Workers : job[w].pc \in {"reset", "commit"} ~> job[w].pc \notin {"reset", "commit"}

\* "A closed order must not be edited back open: the closure already published
\* maintenance_reset" (TERMINAL_STATUSES): an order whose closure sent a reset
\* and committed stays closed.
ClosedForGood ==
    [][\A o \in Order : order[o].status = "closed" /\ closer[o] # NoCommand
                          => order'[o].status = "closed"]_vars
=============================================================================
