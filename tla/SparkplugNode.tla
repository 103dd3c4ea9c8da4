----------------------------- MODULE SparkplugNode -----------------------------
(***************************************************************************)
(* A Sparkplug B edge node of the simulator (apps/simulator/sim/           *)
(* publisher.py): births, data, sequence numbers and the death certificate *)
(* the broker holds for it.  Three threads meet in it: the MQTT client's   *)
(* thread runs the callbacks, the live loop publishes devices, and a       *)
(* request that starts a scenario asks every node for a rebirth.           *)
(*                                                                         *)
(* The node's lock covers births and data; the store of the last values    *)
(* and the check for a connection are outside it.                          *)
(***************************************************************************)
EXTENDS Integers, FiniteSets

CONSTANTS
    Devices,
    SeqModulus   \* 256 in the code, for seq and for bdSeq

ASSUME NodeAssumption == SeqModulus \in Nat \ {0}

VARIABLES
    link,       \* the client's view of its connection: "up" or "down"
    paho,       \* the client's thread: idle, or the callback it runs; "dead" once one has raised
    api,        \* the request's thread
    publisher,  \* the live loop: the device it publishes, and how far it is
    holder,     \* who holds the lock, and what its rebirth iterates over
    bdSeq, seq, born, stored,   \* _bd_seq, _seq, _born, the keys of _last
    will,       \* bdSeq of the will set for the next connection
    session     \* what the broker and the hosts know of the present connection

nodeVars == <<link, paho, api, publisher, holder, bdSeq, seq, born, stored, will, session>>

NoDevice == "no device"
NoHolder == [thread |-> "none", todo |-> {}, size |-> {}]
NoBirth  == -1
Nothing  == [type |-> "none", device |-> NoDevice, seq |-> 0]

\* will: bdSeq of its will; birth: bdSeq of its last NBIRTH; announced: the
\* devices born since; last: the last message.
NewSession(w) == [will |-> w, birth |-> NoBirth, announced |-> {}, last |-> Nothing]

NodeTypeOK ==
    /\ link \in {"up", "down"}
    /\ paho \in {"idle", "connected", "rebirth", "lost", "dead"}
    /\ api \in {"idle", "rebirth"}
    /\ publisher.device \in Devices \cup {NoDevice} /\ publisher.pc \in {"idle", "stored", "checked", "numbered"}
    /\ holder.thread \in {"none", "paho", "api", "publisher"} /\ holder.todo \subseteq holder.size
    /\ {bdSeq, seq, will} \subseteq 0..SeqModulus - 1
    /\ born \subseteq stored /\ stored \subseteq Devices
    /\ session.birth \in {NoBirth} \cup 0..SeqModulus - 1

NodeInit ==
    /\ link = "down" /\ paho = "idle" /\ api = "idle"
    /\ publisher = [device |-> NoDevice, pc |-> "idle"]
    /\ holder = NoHolder
    /\ bdSeq = 0 /\ seq = 0 /\ born = {} /\ stored = {}
    /\ will = 0 /\ session = NewSession(0)

-----------------------------------------------------------------------------
(* What the broker sees of a publish: at QoS 0 nothing is kept for later. *)
Delivered(type, d, n) ==
    session' = IF link = "down" THEN session
               ELSE [session EXCEPT
                       !.last = [type |-> type, device |-> d, seq |-> n],
                       !.birth = IF type = "NBIRTH" THEN bdSeq ELSE @,
                       !.announced = CASE type = "NBIRTH" -> {}
                                       [] type = "DBIRTH" -> @ \cup {d}
                                       [] OTHER -> @]

NextSeq == (seq + 1) % SeqModulus

-----------------------------------------------------------------------------
(* The client's thread. *)

\* The client's state is "connected" before it runs on_connect.
Connected ==
    /\ paho = "idle" /\ link = "down"
    /\ link' = "up" /\ paho' = "connected"
    /\ session' = NewSession(will)
    /\ UNCHANGED <<api, publisher, holder, bdSeq, seq, born, stored, will>>

ConnectionLost ==
    /\ paho = "idle" /\ link = "up"
    /\ link' = "down" /\ paho' = "lost"
    /\ UNCHANGED <<api, publisher, holder, bdSeq, seq, born, stored, will, session>>

\* Mutant: the will keeps the bdSeq it had.
OnDisconnectSameWill ==
    /\ paho = "lost" /\ holder = NoHolder
    /\ born' = {} /\ bdSeq' = (bdSeq + 1) % SeqModulus
    /\ paho' = "idle"
    /\ UNCHANGED <<will, link, api, publisher, holder, seq, stored, session>>

\* _on_disconnect
OnDisconnect ==
    /\ paho = "lost" /\ holder = NoHolder
    /\ born' = {} /\ bdSeq' = (bdSeq + 1) % SeqModulus /\ will' = bdSeq'
    /\ paho' = "idle"
    /\ UNCHANGED <<link, api, publisher, holder, seq, stored, session>>

\* _on_message: "Node Control/Rebirth" is true.
RebirthRequested ==
    /\ paho = "idle" /\ link = "up"
    /\ paho' = "rebirth"
    /\ UNCHANGED <<link, api, publisher, holder, bdSeq, seq, born, stored, will, session>>

\* MqttBridge.rebirth looks at the connection first.
ScenarioStarted ==
    /\ api = "idle" /\ link = "up"
    /\ api' = "rebirth"
    /\ UNCHANGED <<link, paho, publisher, holder, bdSeq, seq, born, stored, will, session>>

-----------------------------------------------------------------------------
(* rebirth, by the client's thread or by the request's. *)
Asks(thread) ==
    \/ thread = "paho" /\ paho \in {"connected", "rebirth"}
    \/ thread = "api"  /\ api = "rebirth"

\* Mutant: the devices are not forgotten.
BeginRebirthKeepsBorn(thread) ==
    /\ Asks(thread) /\ holder = NoHolder
    /\ seq' = 0 /\ Delivered("NBIRTH", NoDevice, 0)
    /\ holder' = [thread |-> thread, todo |-> stored \ born, size |-> stored]
    /\ UNCHANGED <<link, paho, api, publisher, bdSeq, born, stored, will>>

BeginRebirth(thread) ==
    /\ Asks(thread) /\ holder = NoHolder
    /\ seq' = 0 /\ Delivered("NBIRTH", NoDevice, 0)
    /\ born' = {}
    /\ holder' = [thread |-> thread, todo |-> stored, size |-> stored]
    /\ UNCHANGED <<link, paho, api, publisher, bdSeq, stored, will>>

Returns(to) ==
    /\ holder' = NoHolder
    /\ IF holder.thread = "paho" THEN paho' = to /\ UNCHANGED api
                                 ELSE api' = "idle" /\ UNCHANGED paho

Rebirthing == holder.thread \in {"paho", "api"}

\* _publish_dbirth
BirthDevice ==
    /\ Rebirthing /\ stored = holder.size
    /\ \E d \in holder.todo :
         /\ seq' = NextSeq /\ Delivered("DBIRTH", d, NextSeq)
         /\ born' = born \cup {d}
         /\ holder' = [holder EXCEPT !.todo = @ \ {d}]
    /\ UNCHANGED <<link, paho, api, publisher, bdSeq, stored, will>>

EndRebirth ==
    /\ Rebirthing /\ holder.todo = {} /\ stored = holder.size
    /\ Returns("idle")
    /\ UNCHANGED <<link, publisher, bdSeq, seq, born, stored, will, session>>

\* A device stored meanwhile changes the size of the dictionary that is
\* iterated over: RuntimeError, which ends the client's thread.
RebirthRaises ==
    /\ Rebirthing /\ stored # holder.size
    /\ Returns("dead")
    /\ UNCHANGED <<link, publisher, bdSeq, seq, born, stored, will, session>>

-----------------------------------------------------------------------------
(* The live loop: publish_device. *)
StoreValues(d) ==
    /\ publisher.pc = "idle"
    /\ stored' = stored \cup {d}
    /\ publisher' = [device |-> d, pc |-> "stored"]
    /\ UNCHANGED <<link, paho, api, holder, bdSeq, seq, born, will, session>>

CheckConnected ==
    /\ publisher.pc = "stored"
    /\ publisher' = IF link = "up" THEN [publisher EXCEPT !.pc = "checked"]
                                   ELSE [device |-> NoDevice, pc |-> "idle"]
    /\ UNCHANGED <<link, paho, api, holder, bdSeq, seq, born, stored, will, session>>

\* Mutant: the lock is taken for the publish only.
TakeSeqUnlocked ==
    /\ publisher.pc = "checked"
    /\ seq' = NextSeq
    /\ publisher' = [publisher EXCEPT !.pc = "numbered"]
    /\ UNCHANGED <<link, paho, api, holder, bdSeq, born, stored, will, session>>

TakeSeq ==
    /\ publisher.pc = "checked" /\ holder = NoHolder
    /\ seq' = NextSeq
    /\ holder' = [NoHolder EXCEPT !.thread = "publisher"]
    /\ publisher' = [publisher EXCEPT !.pc = "numbered"]
    /\ UNCHANGED <<link, paho, api, bdSeq, born, stored, will, session>>

Publish ==
    /\ publisher.pc = "numbered" /\ ~Rebirthing
    /\ Delivered(IF publisher.device \in born THEN "DDATA" ELSE "DBIRTH", publisher.device, seq)
    /\ born' = born \cup {publisher.device}
    /\ holder' = NoHolder
    /\ publisher' = [device |-> NoDevice, pc |-> "idle"]
    /\ UNCHANGED <<link, paho, api, bdSeq, seq, stored, will>>

-----------------------------------------------------------------------------
NodeNext ==
    \/ Connected \/ ConnectionLost \/ OnDisconnect \/ RebirthRequested
    \/ ScenarioStarted
    \/ \E thread \in {"paho", "api"} : BeginRebirth(thread)
    \/ BirthDevice \/ EndRebirth \/ RebirthRaises
    \/ \E d \in Devices : StoreValues(d)
    \/ CheckConnected \/ TakeSeq \/ Publish

NodeSpec == NodeInit /\ [][NodeNext]_nodeVars

-----------------------------------------------------------------------------
(* Properties. *)

\* Once a connection has had its birth certificate, what a host reads in it is
\* numbered without a gap, though three threads publish: a gap makes a host
\* discard the node's data and ask for a rebirth.
SequenceUnbroken ==
    [][session.birth # NoBirth /\ session'.last # session.last /\ session'.last.type # "NBIRTH"
       /\ link = "up"
       => session'.last.seq = (session.last.seq + 1) % SeqModulus]_nodeVars

\* The metadata of a device precedes its data: after the node's birth, and
\* after every rebirth, whoever asked for it and even if it raised half-way, a
\* device's data follow that device's birth.
DataAfterBirth ==
    [][session'.last # session.last /\ session'.last.type = "DDATA" /\ session.birth # NoBirth
       => session'.last.device \in session.announced]_nodeVars

\* What a host reads of a session is unbroken and starts with the metadata.
NodeStream == SequenceUnbroken /\ DataAfterBirth

\* "A new session needs a new bdSeq, and the will must carry it before
\* reconnecting": the death certificate the broker will publish for a
\* connection is about the births of that connection.
DeathMatchesBirth == session.birth # NoBirth => session.birth = session.will
=============================================================================
