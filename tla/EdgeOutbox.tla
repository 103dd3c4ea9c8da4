------------------------------- MODULE EdgeOutbox -------------------------------
(***************************************************************************)
(* The edge runner's store-and-forward path (apps/edge): a prediction is   *)
(* handed to the MQTT client at once when nothing is queued and the client *)
(* takes it, otherwise it is written to a SQLite table, and a drain thread *)
(* started by every (re)connection replays that table oldest first.        *)
(*                                                                         *)
(* A prediction is named by its number: paho's network thread runs         *)
(* on_message and every callback, so it makes predictions one after the    *)
(* other and is the only thread that inserts rows.  Row ids (AUTOINCREMENT)*)
(* therefore grow with the numbers, and the table is the set of the        *)
(* numbers queued.                                                         *)
(*                                                                         *)
(* Around it, modelled from how the code uses them: the MQTT client's      *)
(* memory of unacknowledged QoS 1 messages (flight).  On the platform's    *)
(* side the broker's acknowledgement says only that a message was taken:   *)
(* what has come that far is `reached`.  The consumer then keeps it in the *)
(* predictions table (stored) unless the id is there already, or drops it  *)
(* (refused): an unknown model or asset, an invalid payload, a database    *)
(* error that _on_message swallows, or no consumer subscribed.             *)
(***************************************************************************)
EXTENDS Naturals, Sequences, FiniteSets

CONSTANTS
    MaxPred,     \* bound: predictions made in a behaviour
    Batch,       \* rows read per SELECT of a drain (100 in the code)
    MaxWaiting,  \* bound: drain threads queued behind the drain lock
    MaxKept      \* bound: length of flight up to which a refused message is kept

ASSUME EdgeAssumption ==
    /\ MaxPred \in Nat
    /\ Batch \in Nat \ {0}
    /\ MaxWaiting \in Nat
    /\ MaxKept \in Nat

VARIABLES
    made,       \* number of the last prediction made
    net,        \* where paho's network thread is inside publish()
    connected,  \* EdgeRunner.connected
    sock,       \* the client's socket to the broker is up
    flight,     \* client memory: QoS 1 messages not yet acknowledged
    wire,       \* how many of flight the broker took on this connection
    outbox,     \* rows of the SQLite table
    waiting,    \* drain threads waiting for _drain_lock
    drain,      \* where the drain thread that holds the lock is
    rows,       \* its batch: the rows read and not yet deleted
    row,        \* the row it has just sent
    reached,    \* history: predictions the broker took, by first arrival
    stored,     \* predictions in the platform's table, in insertion order
    refused,    \* history: predictions dropped at an arrival, after the ack
    queued,     \* history: predictions that have been rows of the table
    gone        \* history: what a power cut erased from the runner's memory

network == <<connected, sock>>
client  == <<flight, wire>>
drainer == <<drain, rows, row>>
platform == <<stored, refused>>
history == <<queued, gone>>
vars == <<made, net, network, client, outbox, waiting, drainer, reached, platform,
          history>>

Preds == 1..MaxPred
Elems(s) == {s[i] : i \in DOMAIN s}

TypeOK ==
    /\ made \in 0..MaxPred
    /\ net \in {"idle", "check", "send", "enqueue"}
    /\ connected \in BOOLEAN
    /\ sock \in BOOLEAN
    /\ flight \in Seq(Preds)
    /\ wire \in 0..Len(flight)
    /\ outbox \in SUBSET Preds
    /\ waiting \in 0..MaxWaiting
    /\ drain \in {"idle", "fetch", "send", "delete"}
    /\ rows \in SUBSET Preds
    /\ row \in 0..MaxPred
    /\ reached \in Seq(Preds) /\ stored \in Seq(Preds) /\ refused \in SUBSET Preds
    /\ queued \in SUBSET Preds /\ gone \in SUBSET Preds

Init ==
    /\ made = 0 /\ net = "idle"
    /\ connected = FALSE /\ sock = FALSE
    /\ flight = <<>> /\ wire = 0
    /\ outbox = {}
    /\ waiting = 0
    /\ drain = "idle" /\ rows = {} /\ row = 0
    /\ reached = <<>> /\ stored = <<>> /\ refused = {}
    /\ queued = {} /\ gone = {}

-----------------------------------------------------------------------------
(* The MQTT client, as _send sees it. *)

\* rc = MQTT_ERR_SUCCESS: the message is in the client's memory, to be sent,
\* and sent again on the next connection, until the broker acknowledges it.
Taken(m) ==
    /\ connected /\ sock
    /\ flight' = Append(flight, m)

\* Any other outcome: not connected, no client, or an rc that is not SUCCESS.
\* An rc of NO_CONN leaves a QoS 1 message in the client's memory all the same.
Refused(m) ==
    \/ ~connected /\ UNCHANGED flight
    \/ /\ connected /\ ~sock
       /\ \/ UNCHANGED flight
          \/ Len(flight) < MaxKept /\ flight' = Append(flight, m)

-----------------------------------------------------------------------------
(* The network thread: handle_sample, publish. *)

\* A window is due: the prediction is made and publish() entered.
HandleSample ==
    /\ net = "idle" /\ made < MaxPred
    /\ made' = made + 1
    /\ net' = "check"
    /\ UNCHANGED <<network, client, outbox, waiting, drainer, reached, platform, history>>

\* Mutant: publish() does not look at the queue.
CheckPendingIgnored ==
    /\ net = "check"
    /\ net' = "send"
    /\ UNCHANGED <<made, network, client, outbox, waiting, drainer, reached, platform, history>>

\* self.outbox.pending() == 0, read under the table's lock.
CheckPending ==
    /\ net = "check"
    /\ net' = IF outbox = {} THEN "send" ELSE "enqueue"
    /\ UNCHANGED <<made, network, client, outbox, waiting, drainer, reached, platform, history>>

\* self._send(topic, payload, 1)
SendNow ==
    /\ net = "send"
    /\ \/ Taken(made) /\ net' = "idle"
       \/ Refused(made) /\ net' = "enqueue"
    /\ UNCHANGED <<made, network, wire, outbox, waiting, drainer, reached, platform, history>>

\* self.outbox.enqueue(topic, payload, 1)
Enqueue ==
    /\ net = "enqueue"
    /\ outbox' = outbox \cup {made}
    /\ queued' = queued \cup {made}
    /\ net' = "idle"
    /\ UNCHANGED <<made, network, client, waiting, drainer, reached, platform, gone>>

-----------------------------------------------------------------------------
(* Connections.  The socket breaks at any time; the callbacks run on the   *)
(* network thread, between two messages.                                   *)

LinkLost ==
    /\ sock
    /\ sock' = FALSE
    /\ wire' = 0
    /\ UNCHANGED <<made, net, connected, flight, outbox, waiting, drainer, reached, platform, history>>

OnDisconnect ==
    /\ net = "idle" /\ connected /\ ~sock
    /\ connected' = FALSE
    /\ UNCHANGED <<made, net, sock, client, outbox, waiting, drainer, reached, platform, history>>

\* Mutant: two drain threads are started.
OnConnectTwice ==
    /\ net = "idle" /\ ~connected
    /\ waiting < MaxWaiting
    /\ sock' = TRUE
    /\ connected' = TRUE
    /\ waiting' = waiting + 2
    /\ UNCHANGED <<made, net, client, outbox, drainer, reached, platform, history>>

\* connected = True, subscribe, and one more drain thread.  A refused
\* connection (reason_code.is_failure) returns before any of it.
OnConnect ==
    /\ net = "idle" /\ ~connected
    /\ waiting < MaxWaiting
    /\ sock' = TRUE
    /\ connected' = TRUE
    /\ waiting' = waiting + 1
    /\ UNCHANGED <<made, net, client, outbox, drainer, reached, platform, history>>

-----------------------------------------------------------------------------
(* The drain threads: EdgeRunner.drain around StoreAndForward.drain. *)

DrainAcquire ==
    /\ waiting > 0 /\ drain = "idle"
    /\ waiting' = waiting - 1
    /\ drain' = "fetch"
    /\ UNCHANGED <<made, net, network, client, outbox, rows, row, reached, platform, history>>

\* R is what SELECT ... ORDER BY id LIMIT batch returns.
OldestRows(R) ==
    /\ \A x \in R, y \in outbox \ R : x < y
    /\ Cardinality(R) <= Batch
    /\ R = outbox \/ Cardinality(R) = Batch

DrainFetch ==
    /\ drain = "fetch"
    /\ \/ /\ outbox = {}
          /\ drain' = "idle"
          /\ UNCHANGED rows
       \/ /\ outbox # {}
          /\ \E R \in SUBSET outbox : OldestRows(R) /\ rows' = R
          /\ drain' = "send"
    /\ UNCHANGED <<made, net, network, client, outbox, waiting, row, reached, platform, history>>

Oldest(m, S) == m \in S /\ \A x \in S : m <= x

\* Mutant: the result of publish is not looked at.
DrainSendUnchecked ==
    /\ drain = "send"
    /\ \E m \in rows :
         /\ Oldest(m, rows)
         /\ Taken(m) \/ Refused(m)
         /\ drain' = "delete" /\ row' = m
    /\ UNCHANGED <<made, network, net, wire, outbox, waiting, rows, reached, platform, history>>

DrainSend ==
    /\ drain = "send"
    /\ \E m \in rows :
         /\ Oldest(m, rows)
         /\ \/ Taken(m) /\ drain' = "delete" /\ row' = m /\ UNCHANGED rows
            \/ Refused(m) /\ drain' = "idle" /\ rows' = {} /\ UNCHANGED row
    /\ UNCHANGED <<made, net, network, wire, outbox, waiting, reached, platform, history>>

\* Mutant: the rows of a batch are deleted together, with its last one.
DrainDeleteBatch ==
    /\ drain = "delete"
    /\ outbox' = IF rows = {row} THEN {m \in outbox : m > row} ELSE outbox
    /\ rows' = rows \ {row}
    /\ drain' = IF rows = {row} THEN "fetch" ELSE "send"
    /\ row' = 0
    /\ UNCHANGED <<made, net, network, client, waiting, reached, platform, history>>

\* Mutant: one batch per drain.
DrainDeleteOneBatch ==
    /\ drain = "delete"
    /\ outbox' = outbox \ {row}
    /\ rows' = rows \ {row}
    /\ drain' = IF rows = {row} THEN "idle" ELSE "send"
    /\ row' = 0
    /\ UNCHANGED <<made, net, network, client, waiting, reached, platform, history>>

DrainDelete ==
    /\ drain = "delete"
    /\ outbox' = outbox \ {row}
    /\ rows' = rows \ {row}
    /\ drain' = IF rows = {row} THEN "fetch" ELSE "send"
    /\ row' = 0
    /\ UNCHANGED <<made, net, network, client, waiting, reached, platform, history>>

-----------------------------------------------------------------------------
(* The broker and the platform. *)

\* Mutant: the row is inserted whether or not its id is there.
KeepAgain(m) ==
    /\ stored' = Append(stored, m)
    /\ UNCHANGED refused

\* store_edge_prediction finds the id in the table, or inserts the row.
Keep(m) ==
    /\ stored' = IF m \in Elems(stored) THEN stored ELSE Append(stored, m)
    /\ UNCHANGED refused

\* The handler returns without a row, or raises and _on_message logs it: the
\* broker has acknowledged the message, so nobody sends it again on purpose.
Drop(m) ==
    /\ refused' = refused \cup {m}
    /\ UNCHANGED stored

\* The next message reaches the broker and, if one is connected, the consumer.
Deliver ==
    /\ sock /\ wire < Len(flight)
    /\ wire' = wire + 1
    /\ LET m == flight[wire + 1] IN
         /\ reached' = IF m \in Elems(reached) THEN reached ELSE Append(reached, m)
         /\ Keep(m) \/ Drop(m)
    /\ UNCHANGED <<made, net, network, flight, outbox, waiting, drainer, history>>

\* PUBACK: the client forgets its oldest unacknowledged message.
Acknowledge ==
    /\ sock /\ wire > 0
    /\ flight' = Tail(flight)
    /\ wire' = wire - 1
    /\ UNCHANGED <<made, net, network, outbox, waiting, drainer, reached, platform, history>>

\* What exists only in the runner's memory.
Unsaved == (Elems(flight) \cup (IF net = "idle" THEN {} ELSE {made}))
              \ (outbox \cup Elems(reached))

\* The runner dies (power cut) and starts again; only the table survives.
PowerCut ==
    /\ gone' = gone \cup Unsaved
    /\ net' = "idle"
    /\ connected' = FALSE /\ sock' = FALSE
    /\ flight' = <<>> /\ wire' = 0
    /\ waiting' = 0
    /\ drain' = "idle" /\ rows' = {} /\ row' = 0
    /\ UNCHANGED <<made, outbox, reached, platform, queued>>

-----------------------------------------------------------------------------
NetworkThread == HandleSample \/ CheckPending \/ SendNow \/ Enqueue
Connection    == LinkLost \/ OnDisconnect \/ OnConnect
DrainThread   == DrainAcquire \/ DrainFetch \/ DrainSend \/ DrainDelete
Broker        == Deliver \/ Acknowledge

Next == NetworkThread \/ Connection \/ DrainThread \/ Broker \/ PowerCut

Spec == Init /\ [][Next]_vars

\* Threads of a live process run; the client reconnects (reconnect_delay_set,
\* loop_forever) and an up link carries messages.  Nothing forces a link to
\* break, a prediction to be made or the power to fail.
Fairness ==
    /\ WF_vars(CheckPending \/ SendNow \/ Enqueue)
    /\ WF_vars(OnDisconnect) /\ WF_vars(OnConnect)
    /\ WF_vars(DrainThread)
    /\ WF_vars(Deliver) /\ WF_vars(Acknowledge)

FairSpec == Spec /\ Fairness

-----------------------------------------------------------------------------
(* Properties. *)

\* "Anything still queued goes first, so predictions reach the platform in
\* order" (runner.publish): they reach the broker in the order they were made,
\* and the platform's rows are in that order with none twice, over every
\* interleaving of direct sends, drains, reconnections, resends and power cuts.
\* One row may come late: that of a prediction the platform dropped on its
\* first arrival and kept when the client, or the drain, sent it again.
StoredInOrder ==
    /\ \A i, j \in DOMAIN reached : i < j => reached[i] < reached[j]
    /\ \A i, j \in DOMAIN stored : i < j =>
         /\ stored[i] # stored[j]
         /\ stored[i] < stored[j] \/ stored[j] \in refused

\* "a crash mid-drain re-sends at most the one message in flight"
\* (StoreAndForward.drain): among the queued rows only the oldest can already
\* have been handed over.
OnlyOldestResent ==
    \A m \in outbox \cap (Elems(flight) \cup Elems(reached)) :
        \A x \in outbox : m <= x

\* The edge gives up no prediction before the broker has it: each one made is
\* in the table, in the client's memory or being published, or it came to the
\* platform and was kept or dropped there, or a power cut caught it in memory.
\* No interleaving of publish() and drain() drops one.
AccountedFor ==
    \A m \in 1..made :
        \/ m \in outbox \cup Elems(flight) \cup gone
        \/ m \in Elems(stored) \cup refused
        \/ m = made /\ net # "idle"

\* FR-EDGE-03, "replayed oldest-first on reconnect": what is queued when a
\* connection starts its drain thread leaves the table if the link holds.
ReplayedOnReconnect ==
    \A m \in Preds :
        (waiting > 0 /\ m \in outbox) ~> (m \notin outbox \/ ~sock \/ ~connected)

\* The stronger reading, "queue whenever the broker is unreachable": while
\* the link stays up nothing remains queued.
NeverStranded ==
    \A m \in Preds :
        (connected /\ sock /\ m \in outbox) ~> (m \notin outbox \/ ~sock \/ ~connected)

\* "a power cut on the line does not lose what was queued either"
\* (buffer.py): no prediction that was ever a row of the table is erased.
PowerCutKeepsQueued == gone \cap queued = {}

\* The runner implements the promise of PredictionDelivery: rows released
\* oldest first, predictions arriving in order, a row kept only of what has
\* arrived and once, and only unsaved predictions erased.
Promise == INSTANCE PredictionDelivery WITH saved <- outbox
DeliversInOrder == Promise!Spec
=============================================================================
