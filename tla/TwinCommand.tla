------------------------------ MODULE TwinCommand ------------------------------
(***************************************************************************)
(* Twin write-back (apps/api/app/modules/twin): CommandGateway publishes a *)
(* command with a fresh id and waits for the machine's ack; the simulator  *)
(* (sim/commands.py) runs what it receives and answers.  MQTT QoS 1 may    *)
(* deliver a message more than once, and loses one whose receiver is not   *)
(* connected, since no session outlives a connection.                      *)
(*                                                                         *)
(* The actions are those of a call of execute and of the broker and the    *)
(* machine; WorkOrders composes them with the closure of an order.         *)
(***************************************************************************)
EXTENDS Integers, FiniteSets

CONSTANTS
    Commands,  \* command ids
    MaxRuns    \* bound: how often one command is run

ASSUME CommandAssumption == MaxRuns \in Nat

VARIABLES
    pending,  \* _pending: the ids an execute waits for
    ack,      \* the ack each entry of _pending holds
    outcome,  \* what execute returned or raised
    cmds,     \* commands on their way to the machine
    acks,     \* acks on their way to the API
    ran       \* how often the machine has run each command

gateway == <<pending, ack, outcome>>
wire    == <<cmds, acks, ran>>

Answers == {"accepted", "rejected"}

CommandTypeOK ==
    /\ pending \subseteq Commands
    /\ ack \in [Commands -> Answers \cup {"none"}]
    /\ outcome \in [Commands -> Answers \cup {"none", "waiting", "unsent", "timeout", "over"}]
    /\ cmds \subseteq Commands
    /\ acks \subseteq Commands \X Answers
    /\ ran \in [Commands -> 0..MaxRuns]

CommandInit ==
    /\ pending = {} /\ ack = [c \in Commands |-> "none"]
    /\ outcome = [c \in Commands |-> "none"]
    /\ cmds = {} /\ acks = {} /\ ran = [c \in Commands |-> 0]

-----------------------------------------------------------------------------
(* CommandGateway. *)

\* execute registers the id and publishes: it waits, or raises "command not
\* sent".  A refusal for want of a connection leaves a QoS 1 message in the
\* client's memory, from where it goes out with the next connection.
Execute(c) ==
    /\ outcome[c] = "none"
    /\ \/ /\ outcome' = [outcome EXCEPT ![c] = "waiting"]
          /\ pending' = pending \cup {c}
          /\ cmds' = cmds \cup {c}
       \/ /\ outcome' = [outcome EXCEPT ![c] = "unsent"]
          /\ cmds' \in {cmds, cmds \cup {c}}
          /\ UNCHANGED pending
    /\ UNCHANGED <<ack, acks, ran>>

\* Mutant: an ack wakes whoever waits for the asset.
TakenByAll(m) == pending

\* The waiting call an ack is for: its command_id.
TakenBy(m) == pending \cap {m[1]}

\* _on_message, on the client's network thread.
OnAck ==
    /\ \E m \in acks :
         /\ ack' = [c \in Commands |-> IF c \in TakenBy(m) THEN m[2] ELSE ack[c]]
         /\ acks' \in {acks, acks \ {m}}
    /\ UNCHANGED <<pending, outcome, cmds, ran>>

\* Mutant: the wait has no timeout.
ReturnAnswered(c) ==
    /\ c \in pending /\ ack[c] # "none"
    /\ outcome' = [outcome EXCEPT ![c] = ack[c]]
    /\ pending' = pending \ {c}
    /\ UNCHANGED <<ack, wire>>

\* The event is set or the timeout has passed; the ack is read after the wait.
Return(c) ==
    /\ c \in pending
    /\ outcome' = [outcome EXCEPT ![c] = IF ack[c] = "none" THEN "timeout" ELSE ack[c]]
    /\ pending' = pending \ {c}
    /\ UNCHANGED <<ack, wire>>

-----------------------------------------------------------------------------
(* The broker and the machine. *)

\* handle_command runs the command or rejects it; the ack is published when
\* the channel is connected.
RunCommand ==
    /\ \E c \in cmds, s \in Answers :
         /\ ran[c] < MaxRuns
         /\ ran' = [ran EXCEPT ![c] = IF s = "accepted" THEN @ + 1 ELSE @]
         /\ cmds' \in {cmds, cmds \ {c}}
         /\ acks' \in {acks, acks \cup {<<c, s>>}}
    /\ UNCHANGED gateway

\* What is sent to a client that is not connected is gone: the channel starts
\* without a session on every connection, and an ack is not published without one.
Lose ==
    /\ \/ \E c \in cmds : cmds' = cmds \ {c} /\ UNCHANGED acks
       \/ \E m \in acks : acks' = acks \ {m} /\ UNCHANGED cmds
    /\ UNCHANGED <<gateway, ran>>

-----------------------------------------------------------------------------
\* What execute reports as accepted the machine has run: the answer is the
\* answer to this command, however late those to others come in.
AcceptedWasRun ==
    \A c \in Commands : outcome[c] = "accepted" => ran[c] > 0
=============================================================================
