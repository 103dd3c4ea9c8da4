---------------------------- MODULE WorkOrdersProofs ----------------------------
(***************************************************************************)
(* Work orders and their closure for any number of orders, commands,       *)
(* workers and requests: what execute reports as accepted the machine has  *)
(* run, and no order is closed on an answer the machine did not give.      *)
(***************************************************************************)
EXTENDS WorkOrders, TLAPS

\* An execute waits exactly while its id is registered.
PendingIsWaiting == \A c \in Commands : c \in pending <=> outcome[c] = "waiting"

\* No "accepted" is on the wire, held for a waiting call or returned by one
\* unless the machine has run that command.
AcceptedTrue ==
    /\ \A c \in Commands : <<c, "accepted">> \in acks => ran[c] > 0
    /\ \A c \in Commands : ack[c] = "accepted" => ran[c] > 0
    /\ AcceptedWasRun

Good == {"timeout", "accepted"}

\* A closure waits on a command of its own, and commits on a good outcome.
ClosureWaits ==
    \A w \in Workers :
        /\ job[w].pc = "reset" => job[w].command \in pending
        /\ job[w].pc = "commit" => job[w].command \in Commands /\ outcome[job[w].command] \in Good
        /\ \A v \in Workers : v # w /\ job[v].pc = "reset" /\ job[w].pc = "reset"
                              => job[v].command # job[w].command

\* The outcome an order was closed on is still the outcome of that command.
ClosedOnGood == \A o \in Order : closer[o] # NoCommand => closer[o] \in Commands /\ outcome[closer[o]] \in Good

IInv == TypeOK /\ PendingIsWaiting /\ AcceptedTrue /\ ClosureWaits /\ ClosedOnGood

-----------------------------------------------------------------------------
(* The table. *)

\* Closing an order keeps the rows' type.
LEMMA ClosingTyped ==
    ASSUME TypeOK, NEW o, order' = [order EXCEPT ![o].status = "closed"]
    PROVE  order' \in [Order -> Row]
  BY DEF TypeOK, Row, Terminal, Open

LEMMA WriteTyped ==
    ASSUME TypeOK, NEW rows \in [Order -> Row], Write(rows)
    PROVE  order' \in [Order -> Row]
  BY DEF TypeOK, Write

-----------------------------------------------------------------------------
(* The gateway, the wire and the machine. *)

GatewayInv == CommandTypeOK /\ PendingIsWaiting /\ AcceptedTrue

\* A publish registers a new id, or leaves the registered ones alone.
LEMMA ExecuteKeeps ==
    ASSUME GatewayInv, NEW c \in Commands, Execute(c)
    PROVE  /\ GatewayInv'
           /\ outcome[c] = "none"
           /\ \A d \in Commands : d # c => outcome'[d] = outcome[d]
           /\ \/ outcome'[c] = "waiting" /\ pending' = pending \cup {c}
              \/ outcome'[c] = "unsent" /\ pending' = pending
  <1> DEFINE Outcomes == Answers \cup {"none", "waiting", "unsent", "timeout", "over"}
  <1>0. /\ outcome \in [Commands -> Outcomes] /\ outcome[c] = "none"
        /\ ack' = ack /\ acks' = acks /\ ran' = ran
    BY DEF GatewayInv, CommandTypeOK, Execute
  <1>1. \A d \in Commands : d # c => outcome'[d] = outcome[d]
    BY <1>0 DEF Execute
  <1>2. \/ outcome'[c] = "waiting" /\ pending' = pending \cup {c}
        \/ outcome'[c] = "unsent" /\ pending' = pending
    BY <1>0 DEF Execute
  <1>3. outcome' \in [Commands -> Outcomes] /\ cmds' \subseteq Commands /\ pending' \subseteq Commands
    BY <1>0 DEF Execute, GatewayInv, CommandTypeOK
  <1>4. CommandTypeOK'
    BY <1>0, <1>3 DEF GatewayInv, CommandTypeOK
  <1>5. PendingIsWaiting'
    BY <1>0, <1>1, <1>2 DEF GatewayInv, PendingIsWaiting
  <1>6. AcceptedTrue'
    BY <1>0, <1>1, <1>2 DEF GatewayInv, AcceptedTrue, AcceptedWasRun
  <1>7. QED
    BY <1>0, <1>1, <1>2, <1>4, <1>5, <1>6 DEF GatewayInv

\* A call returns the ack it was given, or that there was none.
LEMMA ReturnKeeps ==
    ASSUME GatewayInv, NEW c, Return(c)
    PROVE  /\ GatewayInv'
           /\ c \in Commands /\ c \in pending /\ pending' = pending \ {c}
           /\ outcome'[c] \in Answers \cup {"timeout"}
           /\ \A d \in Commands : d # c => outcome'[d] = outcome[d]
  <1> DEFINE Outcomes == Answers \cup {"none", "waiting", "unsent", "timeout", "over"}
             result == IF ack[c] = "none" THEN "timeout" ELSE ack[c]
  <1>0. /\ outcome \in [Commands -> Outcomes] /\ ack[c] \in Answers \cup {"none"}
        /\ c \in Commands /\ c \in pending /\ pending' = pending \ {c}
        /\ ack' = ack /\ cmds' = cmds /\ acks' = acks /\ ran' = ran
        /\ outcome' = [outcome EXCEPT ![c] = result]
    BY DEF GatewayInv, CommandTypeOK, Return, wire
  <1>1. result \in Answers \cup {"timeout"} /\ result # "waiting" /\ (result = "accepted" => ack[c] = "accepted")
    BY <1>0 DEF Answers
  <1>2. outcome'[c] = result /\ \A d \in Commands : d # c => outcome'[d] = outcome[d]
    BY <1>0
  <1>3. CommandTypeOK'
    BY <1>0, <1>1 DEF GatewayInv, CommandTypeOK
  <1>4. PendingIsWaiting'
    BY <1>0, <1>1, <1>2 DEF GatewayInv, PendingIsWaiting
  <1>5. AcceptedTrue'
    BY <1>0, <1>1, <1>2 DEF GatewayInv, AcceptedTrue, AcceptedWasRun
  <1>6. QED
    BY <1>0, <1>1, <1>2, <1>3, <1>4, <1>5 DEF GatewayInv

\* The network thread and the machine tell no lies.
LEMMA WireKeeps ==
    ASSUME GatewayInv, OnAck \/ RunCommand \/ Lose
    PROVE  GatewayInv' /\ outcome' = outcome /\ pending' = pending
  <1>0. CommandTypeOK /\ PendingIsWaiting /\ AcceptedTrue
    BY DEF GatewayInv
  <1>1. CASE OnAck
    <2>1. PICK m \in acks :
            /\ ack' = [c \in Commands |-> IF c \in TakenBy(m) THEN m[2] ELSE ack[c]]
            /\ acks' \in {acks, acks \ {m}}
      BY <1>1 DEF OnAck
    <2>2. /\ m \in Commands \X Answers
          /\ pending' = pending /\ outcome' = outcome /\ cmds' = cmds /\ ran' = ran
      BY <1>0, <1>1 DEF OnAck, CommandTypeOK
    <2>3. \A c \in TakenBy(m) : m = <<c, m[2]>>
      BY <2>2 DEF TakenBy
    <2>4. CommandTypeOK'
      BY <1>0, <2>1, <2>2 DEF CommandTypeOK
    <2>5. AcceptedTrue'
      BY <1>0, <2>1, <2>2, <2>3 DEF AcceptedTrue, AcceptedWasRun
    <2>6. QED
      BY <1>0, <2>2, <2>4, <2>5 DEF GatewayInv, PendingIsWaiting
  <1>2. CASE RunCommand
    <2>1. PICK c \in cmds, s \in Answers :
            /\ ran[c] < MaxRuns
            /\ ran' = [ran EXCEPT ![c] = IF s = "accepted" THEN @ + 1 ELSE @]
            /\ cmds' \in {cmds, cmds \ {c}}
            /\ acks' \in {acks, acks \cup {<<c, s>>}}
      BY <1>2 DEF RunCommand
    <2>2. c \in Commands /\ pending' = pending /\ outcome' = outcome /\ ack' = ack
      BY <1>0, <1>2 DEF RunCommand, CommandTypeOK, gateway
    <2>3. ran[c] \in Nat /\ MaxRuns \in Nat /\ ran[c] + 1 \in 0..MaxRuns
      BY <1>0, <2>1, <2>2, CommandAssumption DEF CommandTypeOK
    <2>4. ran' \in [Commands -> 0..MaxRuns]
      BY <1>0, <2>1, <2>2, <2>3 DEF CommandTypeOK
    <2>5. /\ s = "accepted" => ran'[c] > 0
          /\ \A d \in Commands : ran[d] > 0 => ran'[d] > 0
      BY <1>0, <2>1, <2>2, <2>3 DEF CommandTypeOK
    <2>6. CommandTypeOK'
      BY <1>0, <2>1, <2>2, <2>4 DEF CommandTypeOK
    <2>7. AcceptedTrue'
      BY <1>0, <2>1, <2>2, <2>5 DEF AcceptedTrue, AcceptedWasRun
    <2>8. QED
      BY <1>0, <2>2, <2>6, <2>7 DEF GatewayInv, PendingIsWaiting
  <1>3. CASE Lose
    <2>1. /\ pending' = pending /\ outcome' = outcome /\ ack' = ack /\ ran' = ran
          /\ acks' \subseteq acks /\ cmds' \subseteq cmds
      BY <1>3 DEF Lose, gateway
    <2>2. QED
      BY <1>0, <2>1 DEF GatewayInv, CommandTypeOK, PendingIsWaiting, AcceptedTrue, AcceptedWasRun
  <1>4. QED
    BY <1>1, <1>2, <1>3

\* A crashed call is registered no more; its outcome is nobody's.
LEMMA AbandonKeeps ==
    ASSUME GatewayInv, NEW c \in Commands,
           pending' = pending \ {c}, outcome' = [outcome EXCEPT ![c] = "over"],
           UNCHANGED <<ack, wire>>
    PROVE  GatewayInv' /\ \A d \in Commands : d # c => outcome'[d] = outcome[d]
  BY DEF GatewayInv, CommandTypeOK, PendingIsWaiting, AcceptedTrue, AcceptedWasRun, wire, Answers

-----------------------------------------------------------------------------
(* The workers. *)

Job == [pc : {"idle", "raise", "update", "optimise", "close", "reset", "commit"},
        order : Order \cup {0}, command : Commands \cup {NoCommand},
        seen : [Order -> Open \cup Terminal \cup {"none"}]]

LEMMA JobTyped ==
    ASSUME TypeOK, NEW w \in Workers
    PROVE  job[w] \in Job /\ Idle \in Job /\ Idle.pc = "idle"
  BY DEF TypeOK, Job, Idle

LEMMA GoesTo ==
    ASSUME TypeOK, NEW w \in Workers, NEW to, Goes(w, to)
    PROVE  /\ job'[w] = to
           /\ \A v \in Workers : v # w => job'[v] = job[v]
           /\ to \in Job => job' \in [Workers -> Job]
  BY DEF Goes, TypeOK, Job

LEMMA StartsBounded ==
    ASSUME TypeOK, NEW w \in Workers, Starts(w)
    PROVE  jobs' \in 0..MaxJobs
  BY OrderAssumption DEF Starts, TypeOK

LEMMA SeenTyped ==
    ASSUME TypeOK, NEW rows
    PROVE  Seen(rows) \in [Order -> Open \cup Terminal \cup {"none"}]
  BY DEF TypeOK, Row, Seen

\* A worker that is, and gets, outside the wire part of a closure disturbs none.
LEMMA OutsideKeeps ==
    ASSUME TypeOK, ClosureWaits, NEW w \in Workers, NEW to, Goes(w, to),
           to.pc \notin {"reset", "commit"}, UNCHANGED <<pending, outcome>>
    PROVE  ClosureWaits'
  BY GoesTo DEF ClosureWaits

\* What a worker reads or writes outside a closure.
LEMMA EditKeeps ==
    ASSUME IInv, NEW w \in Workers, NEW to \in Job, Goes(w, to), to.pc \notin {"reset", "commit"},
           order' \in [Order -> Row], jobs' \in 0..MaxJobs,
           UNCHANGED <<gateway, wire, closer>>
    PROVE  IInv'
  <1>1. TypeOK'
    BY GoesTo DEF IInv, TypeOK, CommandTypeOK, Job, gateway, wire
  <1>2. ClosureWaits'
    BY OutsideKeeps DEF IInv, gateway
  <1>3. PendingIsWaiting' /\ AcceptedTrue' /\ ClosedOnGood'
    BY DEF IInv, PendingIsWaiting, AcceptedTrue, AcceptedWasRun, ClosedOnGood, gateway, wire
  <1>4. QED
    BY <1>1, <1>2, <1>3 DEF IInv

\* The rows as they are, and with an order inserted.
LEMMA InsertKeeps ==
    ASSUME IInv, NEW isAuto \in BOOLEAN, Insert(isAuto)
    PROVE  order' \in [Order -> Row]
  <1>1. PICK o \in NextOrder : Write([order EXCEPT ![o] = [status |-> "open", auto |-> isAuto]])
    BY DEF Insert
  <1>2. [order EXCEPT ![o] = [status |-> "open", auto |-> isAuto]] \in [Order -> Row]
    BY DEF IInv, TypeOK, Row, Open
  <1>3. QED
    BY <1>1, <1>2, WriteTyped DEF IInv

\* Creating, editing and planning, whatever they have read.
LEMMA EditingKeeps ==
    ASSUME IInv, NEW w \in Workers,
           \/ CreateOrder(w) \/ RaiseCheck(w) \/ RaiseOrder(w)
           \/ OpenUpdate(w) \/ CommitUpdate(w) \/ OptimiseRead(w) \/ OptimiseCommit(w)
           \/ CloseRead(w) \/ CloseQuietly(w)
    PROVE  IInv'
  <1>0. /\ TypeOK
        /\ order \in [Order -> Row] /\ jobs \in 0..MaxJobs
        /\ job \in [Workers -> Job] /\ job[w] \in Job /\ Idle \in Job /\ Idle.pc = "idle"
    BY JobTyped DEF IInv, TypeOK, Job
  <1>1. CASE CreateOrder(w)
    <2>1. Goes(w, Idle)
      BY <1>0, <1>1 DEF CreateOrder, Starts, Goes
    <2>2. order' \in [Order -> Row]
      BY <1>1, InsertKeeps DEF CreateOrder
    <2>3. jobs' \in 0..MaxJobs
      BY <1>0, <1>1, StartsBounded DEF CreateOrder
    <2>4. QED
      BY <1>0, <1>1, <2>1, <2>2, <2>3, EditKeeps DEF CreateOrder
  <1>2. CASE RaiseCheck(w)
    <2> DEFINE to == [Idle EXCEPT !.pc = "raise"]
    <2>1. to \in Job /\ to.pc = "raise"
      BY <1>0 DEF Job
    <2>2. jobs' \in 0..MaxJobs
      BY <1>0, <1>2, StartsBounded DEF RaiseCheck
    <2>3. QED
      BY <1>0, <1>2, <2>1, <2>2, EditKeeps DEF RaiseCheck, orders
  <1>3. CASE RaiseOrder(w)
    <2>1. order' \in [Order -> Row]
      BY <1>3, InsertKeeps DEF RaiseOrder
    <2>2. QED
      BY <1>0, <1>3, <2>1, EditKeeps DEF RaiseOrder, Ends
  <1>4. CASE OpenUpdate(w)
    <2>1. PICK o \in Order : Goes(w, [Idle EXCEPT !.pc = "update", !.order = o, !.seen = Seen({o})])
      BY <1>4 DEF OpenUpdate
    <2> DEFINE to == [Idle EXCEPT !.pc = "update", !.order = o, !.seen = Seen({o})]
    <2>2. to \in Job /\ to.pc = "update"
      BY <1>0, SeenTyped DEF Job, Idle
    <2>3. jobs' \in 0..MaxJobs
      BY <1>0, <1>4, StartsBounded DEF OpenUpdate
    <2>4. QED
      BY <1>0, <1>4, <2>1, <2>2, <2>3, EditKeeps DEF OpenUpdate, orders
  <1>5. CASE CommitUpdate(w)
    <2> DEFINE o == job[w].order
    <2>1. PICK s \in Settable : Write(IF s = job[w].seen[o] THEN order ELSE [order EXCEPT ![o].status = s])
      BY <1>5 DEF CommitUpdate
    <2>2. [order EXCEPT ![o].status = s] \in [Order -> Row]
      BY <1>0 DEF Row, Settable
    <2>3. order' \in [Order -> Row]
      BY <1>0, <2>1, <2>2, WriteTyped
    <2>4. QED
      BY <1>0, <1>5, <2>3, EditKeeps DEF CommitUpdate, Ends
  <1>6. CASE OptimiseRead(w)
    <2> DEFINE to == [Idle EXCEPT !.pc = "optimise", !.seen = Seen(Schedulable)]
    <2>1. to \in Job /\ to.pc = "optimise"
      BY <1>0, SeenTyped DEF Job, Idle
    <2>2. jobs' \in 0..MaxJobs
      BY <1>0, <1>6, StartsBounded DEF OptimiseRead
    <2>3. QED
      BY <1>0, <1>6, <2>1, <2>2, EditKeeps DEF OptimiseRead, orders
  <1>7. CASE OptimiseCommit(w)
    <2>1. PICK placed :
            Write([o \in Order |-> IF o \in placed /\ job[w].seen[o] = "open"
                                   THEN [order[o] EXCEPT !.status = "scheduled"] ELSE order[o]])
      BY <1>7 DEF OptimiseCommit
    <2>2. [o \in Order |-> IF o \in placed /\ job[w].seen[o] = "open"
                           THEN [order[o] EXCEPT !.status = "scheduled"] ELSE order[o]] \in [Order -> Row]
      BY <1>0 DEF Row, Open
    <2>3. order' \in [Order -> Row]
      BY <1>0, <2>1, <2>2, WriteTyped
    <2>4. QED
      BY <1>0, <1>7, <2>3, EditKeeps DEF OptimiseCommit, Ends
  <1>8. CASE CloseRead(w)
    <2>1. PICK o \in Order : Goes(w, [Idle EXCEPT !.pc = "close", !.order = o])
      BY <1>8 DEF CloseRead
    <2> DEFINE to == [Idle EXCEPT !.pc = "close", !.order = o]
    <2>2. to \in Job /\ to.pc = "close"
      BY <1>0 DEF Job, Idle
    <2>3. jobs' \in 0..MaxJobs
      BY <1>0, <1>8, StartsBounded DEF CloseRead
    <2>4. QED
      BY <1>0, <1>8, <2>1, <2>2, <2>3, EditKeeps DEF CloseRead, orders
  <1>9. CASE CloseQuietly(w)
    <2>1. order' \in [Order -> Row]
      BY <1>0, <1>9, ClosingTyped DEF CloseQuietly
    <2>2. QED
      BY <1>0, <1>9, <2>1, EditKeeps DEF CloseQuietly, Ends
  <1>10. QED
    BY <1>1, <1>2, <1>3, <1>4, <1>5, <1>6, <1>7, <1>8, <1>9

-----------------------------------------------------------------------------
(* Closures. *)

\* The command of a closure gets an id no other closure waits on.
LEMMA SendKeeps ==
    ASSUME IInv, NEW w \in Workers, CloseSend(w)
    PROVE  IInv'
  <1>0. /\ TypeOK /\ GatewayInv /\ ClosureWaits /\ ClosedOnGood
        /\ job[w] \in Job /\ Idle \in Job /\ Idle.pc = "idle"
    BY JobTyped DEF IInv, GatewayInv, TypeOK
  <1>1. PICK c \in Commands :
          /\ Execute(c) /\ UNCHANGED <<orders, jobs>>
          /\ Goes(w, IF outcome'[c] = "unsent" THEN Idle
                     ELSE [job[w] EXCEPT !.pc = "reset", !.command = c])
    BY DEF CloseSend
  <1> DEFINE to == IF outcome'[c] = "unsent" THEN Idle ELSE [job[w] EXCEPT !.pc = "reset", !.command = c]
  <1>2. /\ GatewayInv' /\ outcome[c] = "none"
        /\ \A d \in Commands : d # c => outcome'[d] = outcome[d]
        /\ \/ outcome'[c] = "waiting" /\ pending' = pending \cup {c}
           \/ outcome'[c] = "unsent" /\ pending' = pending
    BY <1>0, <1>1, ExecuteKeeps
  <1>3. /\ to \in Job /\ to.pc \in {"idle", "reset"}
        /\ to.pc = "reset" => to.command = c /\ c \in pending'
    <2>1. CASE outcome'[c] = "unsent"
      BY <1>0, <2>1
    <2>2. CASE outcome'[c] = "waiting"
      BY <1>0, <1>2, <2>2 DEF Job
    <2>3. QED
      BY <1>2, <2>1, <2>2
  <1>4. job'[w] = to /\ (\A v \in Workers : v # w => job'[v] = job[v]) /\ job' \in [Workers -> Job]
    BY <1>0, <1>1, <1>3, GoesTo
  <1>5. TypeOK'
    BY <1>0, <1>1, <1>2, <1>4 DEF TypeOK, GatewayInv, Job, orders
  <1>6. c \notin pending
    BY <1>0, <1>1, <1>2 DEF GatewayInv, PendingIsWaiting
  <1>7. ClosureWaits'
    <2> HIDE DEF to
    <2>1. ASSUME NEW v \in Workers
          PROVE  /\ job'[v].pc = "reset" => job'[v].command \in pending'
                 /\ job'[v].pc = "commit"
                    => job'[v].command \in Commands /\ outcome'[job'[v].command] \in Good
      <3>1. CASE v = w
        BY <1>3, <1>4, <3>1
      <3>2. CASE v # w
        BY <1>0, <1>2, <1>4, <3>2 DEF ClosureWaits, Good
      <3>3. QED
        BY <3>1, <3>2
    <2>2. ASSUME NEW u \in Workers, NEW v \in Workers, u # v, job'[u].pc = "reset", job'[v].pc = "reset"
          PROVE  job'[u].command # job'[v].command
      <3>1. CASE u = w
        BY <1>0, <1>3, <1>4, <1>6, <2>2, <3>1 DEF ClosureWaits
      <3>2. CASE v = w
        BY <1>0, <1>3, <1>4, <1>6, <2>2, <3>2 DEF ClosureWaits
      <3>3. CASE u # w /\ v # w
        BY <1>0, <1>4, <2>2, <3>3 DEF ClosureWaits
      <3>4. QED
        BY <3>1, <3>2, <3>3
    <2>3. QED
      BY <2>1, <2>2 DEF ClosureWaits
  <1>8. ClosedOnGood'
    BY <1>0, <1>1, <1>2 DEF ClosedOnGood, Good, orders
  <1>10. QED
    BY <1>2, <1>5, <1>7, <1>8 DEF IInv, GatewayInv

\* Only a closure that got an acceptance, or no answer, goes on to its commit.
LEMMA AnsweredKeeps ==
    ASSUME IInv, NEW w \in Workers, CloseAnswered(w)
    PROVE  IInv'
  <1> DEFINE c == job[w].command
             to == IF AnswerTaken(outcome'[c]) THEN [job[w] EXCEPT !.pc = "commit"] ELSE Idle
  <1>0. /\ TypeOK /\ GatewayInv /\ ClosureWaits /\ ClosedOnGood
        /\ job[w] \in Job /\ Idle \in Job /\ Idle.pc = "idle"
    BY JobTyped DEF IInv, GatewayInv, TypeOK
  <1>1. job[w].pc = "reset" /\ Return(c) /\ Goes(w, to) /\ UNCHANGED <<orders, jobs>>
    BY DEF CloseAnswered
  <1>2. /\ GatewayInv' /\ c \in Commands /\ c \in pending /\ pending' = pending \ {c}
        /\ outcome'[c] \in Answers \cup {"timeout"}
        /\ \A d \in Commands : d # c => outcome'[d] = outcome[d]
    BY <1>0, <1>1, ReturnKeeps
  <1>3. /\ to \in Job /\ to.pc \in {"idle", "commit"}
        /\ to.pc = "commit" => to.command = c /\ outcome'[c] \in Good
    BY <1>0, <1>2 DEF Job, AnswerTaken, Answers, Good
  <1>4. job'[w] = to /\ (\A v \in Workers : v # w => job'[v] = job[v]) /\ job' \in [Workers -> Job]
    BY <1>0, <1>1, <1>3, GoesTo
  <1>5. TypeOK'
    BY <1>0, <1>1, <1>2, <1>4 DEF TypeOK, GatewayInv, Job, orders
  <1>6. outcome[c] = "waiting"
    BY <1>0, <1>2 DEF GatewayInv, PendingIsWaiting
  <1>7. ClosureWaits'
    <2> HIDE DEF to
    <2>1. ASSUME NEW v \in Workers
          PROVE  /\ job'[v].pc = "reset" => job'[v].command \in pending'
                 /\ job'[v].pc = "commit"
                    => job'[v].command \in Commands /\ outcome'[job'[v].command] \in Good
      <3>1. CASE v = w
        BY <1>2, <1>3, <1>4, <3>1
      <3>2. CASE v # w
        BY <1>0, <1>1, <1>2, <1>4, <1>6, <3>2 DEF ClosureWaits, Good
      <3>3. QED
        BY <3>1, <3>2
    <2>2. ASSUME NEW u \in Workers, NEW v \in Workers, u # v, job'[u].pc = "reset", job'[v].pc = "reset"
          PROVE  job'[u].command # job'[v].command
      BY <1>0, <1>3, <1>4, <2>2 DEF ClosureWaits
    <2>3. QED
      BY <2>1, <2>2 DEF ClosureWaits
  <1>8. ClosedOnGood'
    BY <1>0, <1>1, <1>2, <1>6 DEF ClosedOnGood, Good, orders
  <1>10. QED
    BY <1>2, <1>5, <1>7, <1>8 DEF IInv, GatewayInv

LEMMA CommitKeeps ==
    ASSUME IInv, NEW w \in Workers, CloseCommit(w)
    PROVE  IInv'
  <1> DEFINE o == job[w].order
  <1>0. /\ TypeOK /\ GatewayInv /\ ClosureWaits /\ ClosedOnGood
        /\ job[w] \in Job /\ Idle \in Job /\ Idle.pc = "idle"
    BY JobTyped DEF IInv, GatewayInv, TypeOK
  <1>1. /\ job[w].pc = "commit" /\ Goes(w, Idle) /\ UNCHANGED <<gateway, wire, jobs>>
        /\ order' = [order EXCEPT ![o].status = "closed"]
        /\ closer' = [closer EXCEPT ![o] = job[w].command]
    BY DEF CloseCommit, Ends
  <1>2. job[w].command \in Commands /\ outcome[job[w].command] \in Good
    BY <1>0, <1>1 DEF ClosureWaits
  <1>3. order' \in [Order -> Row]
    BY <1>0, <1>1, ClosingTyped
  <1>4. closer' \in [Order -> Commands \cup {NoCommand}]
    BY <1>0, <1>1, <1>2 DEF TypeOK
  <1>5. job' \in [Workers -> Job]
    BY <1>0, <1>1, GoesTo
  <1>6. TypeOK'
    BY <1>0, <1>1, <1>3, <1>4, <1>5 DEF TypeOK, CommandTypeOK, Job, gateway, wire
  <1>7. ClosureWaits'
    BY <1>0, <1>1, OutsideKeeps DEF gateway
  <1>8. ClosedOnGood'
    BY <1>0, <1>1, <1>2 DEF ClosedOnGood, TypeOK, gateway
  <1>9. QED
    BY <1>0, <1>1, <1>3, <1>6, <1>7, <1>8
       DEF IInv, GatewayInv, PendingIsWaiting, AcceptedTrue, AcceptedWasRun, gateway, wire

\* A crash gives up one command nobody else waits on and nobody was closed on.
LEMMA CrashKeeps ==
    ASSUME IInv, NEW w \in Workers, Crash(w)
    PROVE  IInv'
  <1>0. /\ TypeOK /\ GatewayInv /\ ClosureWaits /\ ClosedOnGood
        /\ Idle \in Job /\ Idle.pc = "idle"
    BY JobTyped DEF IInv, GatewayInv, TypeOK
  <1>1. Goes(w, Idle) /\ UNCHANGED <<ack, wire, orders, jobs>>
    BY DEF Crash, Ends
  <1>2. /\ job'[w] = Idle /\ job' \in [Workers -> Job]
        /\ \A v \in Workers : v # w => job'[v] = job[v]
    BY <1>0, <1>1, GoesTo
  <1>3. CASE job[w].pc # "reset"
    <2>1. UNCHANGED <<pending, outcome>>
      BY <1>3 DEF Crash
    <2>2. order' \in [Order -> Row] /\ jobs' \in 0..MaxJobs
      BY <1>0, <1>1 DEF TypeOK, orders
    <2>3. QED
      BY <1>0, <1>1, <2>1, <2>2, EditKeeps DEF gateway, orders
  <1>4. CASE job[w].pc = "reset"
    <2> DEFINE c == job[w].command
    <2>1. c \in pending /\ c \in Commands /\ outcome[c] = "waiting"
      BY <1>0, <1>4 DEF ClosureWaits, GatewayInv, CommandTypeOK, PendingIsWaiting
    <2>2. pending' = pending \ {c} /\ outcome' = [outcome EXCEPT ![c] = "over"]
      BY <1>4 DEF Crash
    <2>3. GatewayInv' /\ \A d \in Commands : d # c => outcome'[d] = outcome[d]
      BY <1>0, <1>1, <2>1, <2>2, AbandonKeeps
    <2>4. TypeOK'
      BY <1>0, <1>1, <1>2, <2>3 DEF TypeOK, GatewayInv, Job, orders
    <2>5. ClosureWaits'
      BY <1>0, <1>2, <1>4, <2>1, <2>2, <2>3 DEF ClosureWaits, Good
    <2>6. ClosedOnGood'
      BY <1>0, <1>1, <2>1, <2>3 DEF ClosedOnGood, Good, orders
    <2>8. QED
      BY <2>3, <2>4, <2>5, <2>6 DEF IInv, GatewayInv
  <1>5. QED
    BY <1>3, <1>4

-----------------------------------------------------------------------------
\* Every step of a worker, of the wire and of the machine keeps the invariant.
THEOREM Inductive == Spec => []IInv
  <1>1. Init => IInv
    <2> SUFFICES ASSUME Init PROVE IInv
      OBVIOUS
    <2>1. Idle \in Job
      BY DEF Job, Idle
    <2>2. TypeOK
      BY <2>1, CommandAssumption, OrderAssumption
         DEF Init, CommandInit, TypeOK, CommandTypeOK, Job, Row
    <2>3. PendingIsWaiting /\ AcceptedTrue /\ ClosureWaits /\ ClosedOnGood
      BY DEF Init, CommandInit, Idle, PendingIsWaiting, AcceptedTrue, AcceptedWasRun, ClosureWaits,
         ClosedOnGood
    <2>6. QED
      BY <2>2, <2>3 DEF IInv
  <1>2. IInv /\ [Next]_vars => IInv'
    <2> SUFFICES ASSUME IInv, [Next]_vars PROVE IInv'
      OBVIOUS
    <2>1. ASSUME NEW w \in Workers, Worker(w) PROVE IInv'
      BY <2>1, EditingKeeps, SendKeeps, AnsweredKeeps, CommitKeeps DEF Worker
    <2>2. ASSUME NEW w \in Workers, Crash(w) PROVE IInv'
      BY <2>2, CrashKeeps
    <2>3. CASE (OnAck \/ RunCommand \/ Lose) /\ UNCHANGED <<orders, job, jobs>>
      <3>1. GatewayInv' /\ outcome' = outcome /\ pending' = pending
        BY <2>3, WireKeeps DEF IInv, GatewayInv, TypeOK
      <3>2. QED
        BY <2>3, <3>1 DEF IInv, GatewayInv, TypeOK, ClosureWaits, ClosedOnGood, orders
    <2>4. CASE UNCHANGED vars
      BY <2>4 DEF vars, gateway, wire, orders, IInv, TypeOK, CommandTypeOK, PendingIsWaiting, AcceptedTrue,
         AcceptedWasRun, ClosureWaits, ClosedOnGood
    <2>5. QED
      BY <2>1, <2>2, <2>3, <2>4 DEF Next
  <1>3. QED
    BY <1>1, <1>2, PTL DEF Spec

\* The rows, the workers and the messages keep their types.
THEOREM TypeCorrect == Spec => []TypeOK
  <1>1. IInv => TypeOK
    BY DEF IInv
  <1>2. QED
    BY <1>1, Inductive, PTL

\* What execute reports as accepted, the machine has run.
THEOREM AcceptedIsTrue == Spec => []AcceptedWasRun
  <1>1. IInv => AcceptedWasRun
    BY DEF IInv, AcceptedTrue
  <1>2. QED
    BY <1>1, Inductive, PTL

\* An order closed with a reset was closed on an acceptance the machine meant,
\* or on no answer in time; never on a rejection or on somebody else's answer.
THEOREM ClosedOnTheAnswer == Spec => []ClosedOnAnswer
  <1>1. IInv => ClosedOnAnswer
    BY DEF IInv, ClosedOnGood, AcceptedTrue, AcceptedWasRun, ClosedOnAnswer, Good
  <1>2. QED
    BY <1>1, Inductive, PTL
=============================================================================
