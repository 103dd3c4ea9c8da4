------------------------------ MODULE VoiceAction ------------------------------
(***************************************************************************)
(* The read-back protocol of VoiceNav (apps/api/app/modules/voice/         *)
(* service.py): a T2 or T3 command is stored as a pending action, read     *)
(* back, and executed when the operator confirms it within its window.     *)
(* Requests (turns of the session, confirm and cancel from any tab) run    *)
(* concurrently, each in its own database session: what it decides on is   *)
(* the row it has read, what it writes is visible when it commits.         *)
(*                                                                         *)
(* The actions of one dialogue session are modelled; actions are numbered  *)
(* in the order of their read-backs.                                       *)
(***************************************************************************)
EXTENDS Integers, FiniteSets

CONSTANTS
    MaxActions,  \* bound: read-backs
    Actuating,   \* the actions that are T3: their tool posts to the simulator
    VoiceWorkers,    \* API workers handling a request at the same time
    MaxEffects   \* bound: how often one action's tool is run

ASSUME VoiceAssumption ==
    /\ MaxActions \in Nat /\ MaxEffects \in Nat
    /\ Actuating \subseteq 1..MaxActions

Action == 1..MaxActions
NoAction == 0

VARIABLES
    status,   \* status of each action's row; "none" before the read-back
    late,     \* the actions whose window has closed
    turn,  \* what each worker is doing, to which action, with what it has read
    effects   \* how often the tool of an action has taken effect

voiceVars == <<status, late, turn, effects>>

Settled == {"cancelled", "expired", "executed", "failed", "rejected"}

\* stale: the rows expire_stale set to expired in the worker's transaction;
\* spoken: the request is a turn saying "confirm" or "cancel".
Idle == [pc |-> "idle", action |-> NoAction, stale |-> {}, spoken |-> FALSE]

VoiceTypeOK ==
    /\ status \in [Action -> Settled \cup {"none", "pending", "confirmed"}]
    /\ late \subseteq Action
    /\ turn \in [VoiceWorkers ->
          [pc : {"idle", "readback", "plain", "spoken", "confirm", "expire", "cancel", "recorded", "posted"},
           action : Action \cup {NoAction}, stale : SUBSET Action, spoken : BOOLEAN]]
    /\ effects \in [Action -> 0..MaxEffects]

VoiceInit ==
    /\ status = [a \in Action |-> "none"]
    /\ late = {}
    /\ turn = [r \in VoiceWorkers |-> Idle]
    /\ effects = [a \in Action |-> 0]

Goes(r, to) == turn' = [turn EXCEPT ![r] = to]

\* A row updated in an open transaction is locked: a request that has posted
\* to the simulator is between its update and its commit.
Free(r, b) == \A q \in VoiceWorkers \ {r} : turn[q].pc = "posted" => turn[q].action # b

\* The commit of r: its own row, and the rows it has expired.
Commit(r, a, s) ==
    /\ \A b \in turn[r].stale \cup {a} : Free(r, b)
    /\ status' = [b \in Action |-> IF b = a THEN s
                                   ELSE IF b \in turn[r].stale THEN "expired"
                                   ELSE status[b]]

-----------------------------------------------------------------------------
(* The operator's ten seconds pass. *)
Lapse ==
    /\ \E a \in Action \ late : status[a] # "none" /\ late' = late \cup {a}
    /\ UNCHANGED <<status, turn, effects>>

-----------------------------------------------------------------------------
(* A turn: handle. *)

\* expire_stale: what it reads.
Stale == {a \in late : status[a] = "pending"}

Waiting == {a \in Action \ late : status[a] = "pending"}

\* pending_for_session: the newest that is pending and in its window.
PendingForSession(a) == a \in Waiting /\ \A b \in Waiting : b <= a

\* The turn expires what is stale, then routes the utterance: a T2 or T3
\* command, a control word, or anything else (T0, T1, a question back, a
\* control word with nothing pending).
StartTurn(r) ==
    /\ turn[r] = Idle
    /\ \/ Goes(r, [Idle EXCEPT !.pc = "readback", !.stale = Stale])
       \/ Goes(r, [Idle EXCEPT !.pc = "plain", !.stale = Stale])
       \/ \E a \in Action, word \in {"spoken", "cancel"} :
            /\ PendingForSession(a)
            /\ Goes(r, [pc |-> word, action |-> a, stale |-> Stale, spoken |-> TRUE])
    /\ UNCHANGED <<status, late, effects>>

\* _read_back and the turn's commit.
ReadBack(r) ==
    /\ turn[r].pc = "readback"
    /\ \E a \in Action :
         /\ status[a] = "none" /\ \A b \in Action : b < a => status[b] # "none"
         /\ Commit(r, a, "pending")
    /\ Goes(r, Idle)
    /\ UNCHANGED <<late, effects>>

FinishTurn(r) ==
    /\ turn[r].pc = "plain"
    /\ Commit(r, NoAction, "none")
    /\ Goes(r, Idle)
    /\ UNCHANGED <<late, effects>>

-----------------------------------------------------------------------------
(* Confirmation: confirm. *)

\* Mutant: the window is not looked at again.
OpenConfirmAnytime(r) ==
    /\ turn[r] = Idle
    /\ \E a \in Action : status[a] = "pending" /\ Goes(r, [Idle EXCEPT !.pc = "confirm", !.action = a])
    /\ UNCHANGED <<status, late, effects>>

\* The row is read, then the clock; what is not pending is a conflict and
\* changes nothing.
OpenConfirm(r) ==
    /\ turn[r] = Idle
    /\ \E a \in Action :
         /\ status[a] = "pending"
         /\ Goes(r, [Idle EXCEPT !.pc = IF a \in late THEN "expire" ELSE "confirm", !.action = a])
    /\ UNCHANGED <<status, late, effects>>

\* "confirm" said: the turn goes on with the row it found, and reads the clock
\* again.
ConfirmSpoken(r) ==
    /\ turn[r].pc = "spoken"
    /\ Goes(r, [turn[r] EXCEPT !.pc = IF turn[r].action \in late THEN "expire" ELSE "confirm"])
    /\ UNCHANGED <<status, late, effects>>

Expire(r) ==
    /\ turn[r].pc = "expire"
    /\ Commit(r, turn[r].action, "expired")
    /\ Goes(r, Idle)
    /\ UNCHANGED <<late, effects>>

\* Actuation disabled, a wrong PIN, or parameters that are valid no more.
Reject(r) ==
    /\ turn[r].pc = "confirm"
    /\ Commit(r, turn[r].action, "rejected")
    /\ Goes(r, Idle)
    /\ UNCHANGED <<late, effects>>

\* A word spoken carries no PIN, so a T3 action is rejected.
MayRun(r) ==
    /\ turn[r].pc = "confirm"
    /\ effects[turn[r].action] < MaxEffects
    /\ ~(turn[r].spoken /\ turn[r].action \in Actuating)

\* The tool refuses before it has done anything.
ToolFails(r) ==
    /\ MayRun(r)
    /\ Commit(r, turn[r].action, "failed")
    /\ Goes(r, Idle)
    /\ UNCHANGED <<late, effects>>

\* Mutant: the tool's commit does not include the action's new status.
ToolRecordsAlone(r) ==
    LET a == turn[r].action IN
    /\ MayRun(r) /\ a \notin Actuating
    /\ effects' = [effects EXCEPT ![a] = @ + 1]
    /\ Goes(r, [turn[r] EXCEPT !.pc = "recorded"])
    /\ UNCHANGED <<late, status>>

\* A T2 tool commits the shared session: its own rows and the action's
\* status "confirmed" become visible together.
ToolRecords(r) ==
    LET a == turn[r].action IN
    /\ MayRun(r) /\ a \notin Actuating
    /\ Commit(r, a, "confirmed")
    /\ effects' = [effects EXCEPT ![a] = @ + 1]
    /\ Goes(r, [turn[r] EXCEPT !.pc = "recorded", !.stale = {}])
    /\ UNCHANGED late

\* The T3 tool posts to the simulator after the status is flushed and before
\* anything is committed.
ToolPosts(r) ==
    LET a == turn[r].action IN
    /\ MayRun(r) /\ a \in Actuating
    /\ Free(r, a)
    /\ effects' = [effects EXCEPT ![a] = @ + 1]
    /\ Goes(r, [turn[r] EXCEPT !.pc = "posted"])
    /\ UNCHANGED <<status, late>>

\* An answer of the simulator that is lost makes the tool fail although it
\* has taken effect.
Finish(r) ==
    /\ turn[r].pc \in {"recorded", "posted"}
    /\ \E s \in {"executed"} \cup IF turn[r].pc = "posted" THEN {"failed"} ELSE {} :
         Commit(r, turn[r].action, s)
    /\ Goes(r, Idle)
    /\ UNCHANGED <<late, effects>>

-----------------------------------------------------------------------------
(* Cancellation: cancel. *)

\* Mutant: any action can be cancelled.
OpenCancelAny(r) ==
    /\ turn[r] = Idle
    /\ \E a \in Action : status[a] # "none" /\ Goes(r, [Idle EXCEPT !.pc = "cancel", !.action = a])
    /\ UNCHANGED <<status, late, effects>>

OpenCancel(r) ==
    /\ turn[r] = Idle
    /\ \E a \in Action : status[a] = "pending" /\ Goes(r, [Idle EXCEPT !.pc = "cancel", !.action = a])
    /\ UNCHANGED <<status, late, effects>>

\* Mutant: a status the table's check constraint does not know.
CancelMisspelt(r) ==
    /\ turn[r].pc = "cancel"
    /\ Commit(r, turn[r].action, "canceled")
    /\ Goes(r, Idle)
    /\ UNCHANGED <<late, effects>>

Cancel(r) ==
    /\ turn[r].pc = "cancel"
    /\ Commit(r, turn[r].action, "cancelled")
    /\ Goes(r, Idle)
    /\ UNCHANGED <<late, effects>>

-----------------------------------------------------------------------------
(* A worker dies, or an error no handler expects ends its request: what it
   has not committed is rolled back. *)
Crash(r) ==
    /\ turn[r] # Idle
    /\ Goes(r, Idle)
    /\ UNCHANGED <<status, late, effects>>

VoiceNext ==
    \/ Lapse
    \/ \E r \in VoiceWorkers :
         \/ StartTurn(r) \/ ReadBack(r) \/ FinishTurn(r)
         \/ OpenConfirm(r) \/ ConfirmSpoken(r) \/ Expire(r) \/ Reject(r)
         \/ ToolFails(r) \/ ToolRecords(r) \/ ToolPosts(r) \/ Finish(r)
         \/ OpenCancel(r) \/ Cancel(r)
         \/ Crash(r)

VoiceSpec == VoiceInit /\ [][VoiceNext]_voiceVars

-----------------------------------------------------------------------------
(* Properties. *)

InFlight(a) == \E r \in VoiceWorkers : turn[r].action = a \/ a \in turn[r].stale

\* A recording tool and the end of the action's pending state are one commit:
\* no crash, and no other request, leaves an action that has taken effect open
\* to being confirmed.
PendingNotDone ==
    \A a \in Action \ Actuating : status[a] = "pending" => effects[a] = 0

Executing(a) ==
    \E r \in VoiceWorkers : turn[r].action = a /\ turn[r].pc \in {"confirm", "recorded", "posted"}

\* "an operator who walked away must not have an order created when they come
\* back" (models.py): once the window has closed, an action no confirmation is
\* already executing never takes effect and never starts to, whatever is said
\* or sent from any tab.
WalkedAway ==
    [][\A a \in late : ~Executing(a) => effects'[a] = effects[a] /\ ~Executing(a)']_voiceVars

\* The outcome of an action that no request is working on is final.
SettledForGood ==
    [][\A a \in Action :
          status[a] \in Settled /\ ~InFlight(a) => status'[a] = status[a] /\ ~InFlight(a)']_voiceVars

\* "test_confirming_twice_is_rejected": an action takes effect once.
ExecutedOnce == \A a \in Action : effects[a] <= 1
=============================================================================
