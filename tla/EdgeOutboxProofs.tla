---------------------------- MODULE EdgeOutboxProofs ----------------------------
(***************************************************************************)
(* The edge runner's store-and-forward for every bound and every number of *)
(* predictions: types, order of arrival and of the platform's rows, at most *)
(* one resent row, every prediction accounted for, and the promise of       *)
(* PredictionDelivery.                                                      *)
(***************************************************************************)
EXTENDS EdgeOutbox, FiniteSetTheorems, SequenceTheorems, TLAPS

-----------------------------------------------------------------------------
(* The inductive invariant, one conjunct per reason the steps are safe. *)

\* Every number in play was made; the one being published is in no table yet.
OnlyMade ==
    /\ outbox \cup Elems(flight) \cup Elems(reached) \subseteq 1..made
    /\ net # "idle" => made >= 1 /\ made \notin outbox

\* publish() sends directly only over an empty table, and only its own thread
\* fills the table.
SendsOverEmpty == net = "send" => outbox = {}

\* The client's memory is in order of making, resends included.
FlightSorted ==
    \A i, j \in DOMAIN flight : i <= j => flight[i] <= flight[j]

\* Queued rows are no older than anything handed over or taken by the broker.
QueueIsNewest ==
    \A m \in outbox : \A x \in Elems(flight) \cup Elems(reached) : x <= m

\* What the client still holds has reached the broker or is newer than all
\* that has.
FlightAfterReached ==
    \A i \in DOMAIN flight :
        \/ flight[i] \in Elems(reached)
        \/ \A j \in DOMAIN reached : reached[j] <= flight[i]

\* What crossed on this connection has reached the broker.
WireHasReached == \A i \in DOMAIN flight : i <= wire => flight[i] \in Elems(reached)

\* The drain's batch is what is oldest in the table.
BatchIsOldest ==
    /\ rows \subseteq outbox
    /\ \A x \in rows, y \in outbox \ rows : x < y

\* A row about to be deleted has been handed over and is the oldest.
DeletedIsSent ==
    drain = "delete" =>
        /\ row \in rows
        /\ row \in Elems(flight) \cup Elems(reached)
        /\ \A x \in rows : row <= x

\* What a power cut erased is nowhere any more.
GoneIsGone ==
    /\ gone \subseteq 1..made
    /\ gone \cap (outbox \cup Elems(flight) \cup Elems(reached)) = {}
    /\ net # "idle" => made \notin gone

\* The broker takes predictions in the order they were made.
ReachedInOrder ==
    \A i, j \in DOMAIN reached : i < j => reached[i] < reached[j]

\* Nothing disappears between publish(), the table, the client and the broker.
AllHeld ==
    \A m \in 1..made :
        \/ m \in outbox \cup Elems(flight) \cup Elems(reached) \cup gone
        \/ m = made /\ net # "idle"

\* The platform keeps or drops what the broker took and nothing else; a row
\* older than one before it was dropped on its first arrival.
KeptOrDropped ==
    /\ Elems(stored) \cup refused = Elems(reached)
    /\ \A i, j \in DOMAIN stored : i < j =>
         /\ stored[i] # stored[j]
         /\ stored[i] < stored[j] \/ stored[j] \in refused

IInv ==
    /\ TypeOK /\ OnlyMade /\ SendsOverEmpty /\ FlightSorted /\ QueueIsNewest
    /\ FlightAfterReached /\ WireHasReached /\ BatchIsOldest /\ DeletedIsSent
    /\ GoneIsGone /\ ReachedInOrder /\ AllHeld

-----------------------------------------------------------------------------
(* Sequences, as sets of their elements. *)

\* Handing a message over adds it to what the client holds.
LEMMA AppendElems ==
    ASSUME NEW S, NEW s \in Seq(S), NEW x \in S
    PROVE  /\ Append(s, x) \in Seq(S)
           /\ Len(Append(s, x)) = Len(s) + 1
           /\ \A i \in DOMAIN s : i \in DOMAIN Append(s, x) /\ Append(s, x)[i] = s[i]
           /\ \A i \in DOMAIN Append(s, x) : i \in DOMAIN s \/ i = Len(s) + 1
           /\ Append(s, x)[Len(s) + 1] = x
           /\ Elems(Append(s, x)) = Elems(s) \cup {x}
  <1>1. /\ Append(s, x) \in Seq(S)
        /\ Len(Append(s, x)) = Len(s) + 1
        /\ \A i \in 1..Len(s) : Append(s, x)[i] = s[i]
        /\ Append(s, x)[Len(s) + 1] = x
    BY AppendProperties
  <1>2. DOMAIN s = 1..Len(s) /\ Len(s) \in Nat
    BY LenProperties
  <1>3. DOMAIN Append(s, x) = 1..(Len(s) + 1)
    BY <1>1, LenProperties
  <1>4. Elems(Append(s, x)) = Elems(s) \cup {x}
    BY <1>1, <1>2, <1>3 DEF Elems
  <1>5. QED
    BY <1>1, <1>2, <1>3, <1>4

\* An acknowledgement removes the first message and shifts the others.
LEMMA TailElems ==
    ASSUME NEW S, NEW s \in Seq(S), s # <<>>
    PROVE  /\ Tail(s) \in Seq(S)
           /\ Len(Tail(s)) = Len(s) - 1
           /\ Len(s) >= 1
           /\ \A i \in DOMAIN Tail(s) : i + 1 \in DOMAIN s /\ Tail(s)[i] = s[i + 1]
           /\ Elems(s) = Elems(Tail(s)) \cup {s[1]}
  <1>1. /\ Tail(s) \in Seq(S) /\ Len(Tail(s)) = Len(s) - 1
        /\ \A i \in 1..Len(Tail(s)) : Tail(s)[i] = s[i + 1]
    BY HeadTailProperties
  <1>2. DOMAIN s = 1..Len(s) /\ Len(s) \in Nat /\ Len(s) # 0
    BY LenProperties, EmptySeq
  <1>3. DOMAIN Tail(s) = 1..(Len(s) - 1)
    BY <1>1, LenProperties
  <1>4. Elems(s) = Elems(Tail(s)) \cup {s[1]}
    <2>1. ASSUME NEW i \in DOMAIN s, i # 1
          PROVE  i - 1 \in DOMAIN Tail(s) /\ Tail(s)[i - 1] = s[i]
      BY <2>1, <1>1, <1>2, <1>3
    <2>2. ASSUME NEW x \in Elems(s)
          PROVE  x \in Elems(Tail(s)) \cup {s[1]}
      <3>1. PICK i \in DOMAIN s : x = s[i]
        BY <2>2 DEF Elems
      <3>2. QED
        BY <2>1, <3>1 DEF Elems
    <2>3. ASSUME NEW x \in Elems(Tail(s))
          PROVE  x \in Elems(s)
      <3>1. PICK i \in DOMAIN Tail(s) : x = Tail(s)[i]
        BY <2>3 DEF Elems
      <3>2. i + 1 \in DOMAIN s /\ x = s[i + 1]
        BY <3>1, <1>1, <1>2, <1>3
      <3>3. QED
        BY <3>2 DEF Elems
    <2>4. s[1] \in Elems(s)
      BY <1>2 DEF Elems
    <2>5. QED
      BY <2>2, <2>3, <2>4
  <1>5. QED
    BY <1>1, <1>2, <1>3, <1>4

\* Every element of a sequence of predictions is a prediction.
LEMMA SeqElems ==
    ASSUME NEW S, NEW s \in Seq(S)
    PROVE  /\ DOMAIN s = 1..Len(s) /\ Len(s) \in Nat
           /\ \A i \in DOMAIN s : s[i] \in S /\ s[i] \in Elems(s)
           /\ Elems(s) \subseteq S
  BY LenProperties, ElementOfSeq DEF Elems

-----------------------------------------------------------------------------
(* Steps.  The four conjuncts about the order of flight and reached move    *)
(* together: they are disturbed only by a hand-over, a delivery and an      *)
(* acknowledgement.                                                         *)

Ordered == FlightSorted /\ FlightAfterReached /\ WireHasReached /\ ReachedInOrder

\* A step that touches neither the client's memory nor the platform's rows
\* keeps their order.
LEMMA OrderedFrame ==
    ASSUME Ordered, UNCHANGED <<flight, reached>>, wire' = wire
    PROVE  Ordered'
  BY DEF Ordered, FlightSorted, FlightAfterReached, WireHasReached, ReachedInOrder

\* A message handed over that is no older than anything held or stored, or
\* that is stored already, keeps the client's memory in order.
LEMMA HandOver ==
    ASSUME TypeOK, Ordered, NEW m \in Preds,
           flight' = Append(flight, m), wire' = wire, reached' = reached,
           \A x \in Elems(flight) \cup Elems(reached) : x <= m
    PROVE  /\ flight' \in Seq(Preds) /\ wire' \in 0..Len(flight')
           /\ Elems(flight') = Elems(flight) \cup {m}
           /\ Ordered'
  <1>1. flight \in Seq(Preds) /\ wire \in 0..Len(flight)
    BY DEF TypeOK
  <1>2. /\ flight' \in Seq(Preds) /\ Len(flight') = Len(flight) + 1
        /\ \A i \in DOMAIN flight : i \in DOMAIN flight' /\ flight'[i] = flight[i]
        /\ \A i \in DOMAIN flight' : i \in DOMAIN flight \/ i = Len(flight) + 1
        /\ flight'[Len(flight) + 1] = m
        /\ Elems(flight') = Elems(flight) \cup {m}
    BY <1>1, AppendElems
  <1>3. /\ DOMAIN flight = 1..Len(flight) /\ Len(flight) \in Nat
        /\ \A i \in DOMAIN flight : flight[i] <= m
    BY <1>1, SeqElems
  <1>0. \A i \in DOMAIN reached : reached[i] <= m
    BY DEF Elems
  <1>4. FlightSorted'
    <2>1. m <= m
      BY EdgeAssumption DEF Preds
    <2>2. QED
      BY <1>2, <1>3, <2>1 DEF Ordered, FlightSorted
  <1>5. FlightAfterReached'
    BY <1>0, <1>2 DEF Ordered, FlightAfterReached
  <1>6. WireHasReached'
    BY <1>1, <1>2, <1>3 DEF Ordered, WireHasReached
  <1>7. ReachedInOrder'
    BY DEF Ordered, ReachedInOrder
  <1>8. wire' \in 0..Len(flight')
    BY <1>1, <1>2, <1>3
  <1>9. QED
    BY <1>2, <1>4, <1>5, <1>6, <1>7, <1>8 DEF Ordered

\* Making a prediction (handle_sample) preserves the invariant.
LEMMA HandleSampleStep == IInv /\ HandleSample => IInv'
  <1> SUFFICES ASSUME IInv, HandleSample PROVE IInv'
    OBVIOUS
  <1>1. TypeOK'
    BY EdgeAssumption DEF IInv, TypeOK, HandleSample, network, client, drainer, history, platform
  <1>2. Ordered'
    BY OrderedFrame DEF IInv, Ordered, HandleSample, client
  <1>3. 1..made \subseteq 1..(made + 1) /\ made + 1 \notin 1..made /\ made + 1 >= 1
    BY DEF IInv, TypeOK
  <1>4. OnlyMade'
    BY <1>3 DEF IInv, OnlyMade, HandleSample, client
  <1>5. QueueIsNewest' /\ BatchIsOldest' /\ DeletedIsSent'
    BY DEF IInv, QueueIsNewest, BatchIsOldest, DeletedIsSent, HandleSample, client, drainer
  <1>6. SendsOverEmpty' /\ GoneIsGone'
    BY <1>3 DEF IInv, SendsOverEmpty, GoneIsGone, HandleSample, client, history
  <1>7. AllHeld'
    <2>1. \A m \in 1..(made + 1) : m \in 1..made \/ m = made + 1
      BY DEF IInv, TypeOK
    <2>2. QED
      BY <2>1 DEF IInv, AllHeld, HandleSample, client, history
  <1>8. QED
    BY <1>1, <1>2, <1>4, <1>5, <1>6, <1>7 DEF IInv, Ordered

\* Reading pending() preserves it; a direct send follows only an empty table.
LEMMA CheckPendingStep == IInv /\ CheckPending => IInv'
  <1> SUFFICES ASSUME IInv, CheckPending PROVE IInv'
    OBVIOUS
  <1>1. TypeOK'
    BY DEF IInv, TypeOK, CheckPending, network, client, drainer, history, platform
  <1>2. Ordered'
    BY OrderedFrame DEF IInv, Ordered, CheckPending, client
  <1>3. OnlyMade' /\ QueueIsNewest' /\ BatchIsOldest' /\ DeletedIsSent' /\ GoneIsGone'
    BY DEF IInv, OnlyMade, QueueIsNewest, BatchIsOldest, DeletedIsSent, GoneIsGone,
           CheckPending, client, drainer, history
  <1>4. SendsOverEmpty'
    BY DEF IInv, SendsOverEmpty, CheckPending
  <1>5. AllHeld'
    BY DEF IInv, AllHeld, CheckPending, client, history
  <1>6. QED
    BY <1>1, <1>2, <1>3, <1>4, <1>5 DEF IInv, Ordered

\* publish() hands over the newest prediction only over an empty table.
LEMMA SendNowStep == IInv /\ SendNow => IInv'
  <1> SUFFICES ASSUME IInv, SendNow PROVE IInv'
    OBVIOUS
  <1>1. /\ net = "send" /\ outbox = {} /\ rows = {} /\ made >= 1
        /\ net' \in {"idle", "enqueue"}
        /\ UNCHANGED <<made, network, wire, outbox, waiting, drainer, reached, platform, history>>
    BY DEF IInv, SendsOverEmpty, OnlyMade, BatchIsOldest, SendNow
  <1>2. CASE UNCHANGED flight /\ net' = "enqueue"
    <2>1. TypeOK'
      BY <1>1, <1>2 DEF IInv, TypeOK, network, drainer, history, platform
    <2>2. Ordered'
      BY <1>1, <1>2, OrderedFrame DEF IInv, Ordered
    <2>3. OnlyMade' /\ SendsOverEmpty' /\ QueueIsNewest' /\ BatchIsOldest' /\ DeletedIsSent' /\ GoneIsGone'
      BY <1>1, <1>2 DEF IInv, OnlyMade, SendsOverEmpty, QueueIsNewest, BatchIsOldest,
                       DeletedIsSent, GoneIsGone, drainer, history
    <2>4. AllHeld'
      BY <1>1, <1>2 DEF IInv, AllHeld, history
    <2>5. QED
      BY <2>1, <2>2, <2>3, <2>4 DEF IInv, Ordered
  <1>3. CASE flight' = Append(flight, made)
    <2>1. /\ made \in Preds
          /\ \A x \in Elems(flight) \cup Elems(reached) : x <= made
      BY <1>1 DEF IInv, OnlyMade, TypeOK, Preds
    <2>2. /\ flight' \in Seq(Preds) /\ wire' \in 0..Len(flight')
          /\ Elems(flight') = Elems(flight) \cup {made}
          /\ Ordered'
      BY <1>1, <1>3, <2>1, HandOver DEF IInv, Ordered
    <2>3. TypeOK'
      BY <1>1, <2>2 DEF IInv, TypeOK, network, drainer, history, platform
    <2>4. OnlyMade'
      BY <1>1, <2>2 DEF IInv, OnlyMade, TypeOK
    <2>8. SendsOverEmpty' /\ QueueIsNewest'
      BY <1>1, <2>2 DEF IInv, SendsOverEmpty, QueueIsNewest
    <2>5. BatchIsOldest' /\ DeletedIsSent' /\ GoneIsGone'
      BY <1>1, <2>2 DEF IInv, BatchIsOldest, DeletedIsSent, GoneIsGone, drainer, history
    <2>6. AllHeld'
      BY <1>1, <2>2 DEF IInv, AllHeld, history
    <2>7. QED
      BY <2>2, <2>3, <2>4, <2>5, <2>6, <2>8 DEF IInv, Ordered
  <1>4. QED
    BY <1>2, <1>3 DEF SendNow, Taken, Refused

\* enqueue() adds the newest number, above everything handed over.
LEMMA EnqueueStep == IInv /\ Enqueue => IInv'
  <1> SUFFICES ASSUME IInv, Enqueue PROVE IInv'
    OBVIOUS
  <1>1. made \in Preds /\ made \notin outbox /\ outbox \subseteq 1..made
    BY DEF IInv, TypeOK, OnlyMade, Enqueue, Preds
  <1>2. TypeOK'
    BY <1>1 DEF IInv, TypeOK, Enqueue, network, client, drainer, platform
  <1>3. Ordered'
    BY OrderedFrame DEF IInv, Ordered, Enqueue, client
  <1>4. OnlyMade' /\ SendsOverEmpty' /\ GoneIsGone'
    BY <1>1 DEF IInv, OnlyMade, SendsOverEmpty, GoneIsGone, Enqueue, client, Preds
  <1>5. QueueIsNewest'
    <2>1. \A x \in Elems(flight) \cup Elems(reached) : x <= made
      BY DEF IInv, OnlyMade, TypeOK
    <2>2. QED
      BY <2>1 DEF IInv, QueueIsNewest, Enqueue, client
  <1>6. BatchIsOldest' /\ DeletedIsSent'
    BY <1>1 DEF IInv, BatchIsOldest, DeletedIsSent, Enqueue, client, drainer, Preds
  <1>7. AllHeld'
    BY DEF IInv, AllHeld, Enqueue, client
  <1>8. QED
    BY <1>2, <1>3, <1>4, <1>5, <1>6, <1>7 DEF IInv, Ordered

\* Losing and regaining the connection changes no message.
LEMMA LinkStep == IInv /\ (LinkLost \/ OnDisconnect \/ OnConnect) => IInv'
  <1> SUFFICES ASSUME IInv, LinkLost \/ OnDisconnect \/ OnConnect PROVE IInv'
    OBVIOUS
  <1>1. /\ UNCHANGED <<made, net, flight, outbox, drainer, reached, platform, history>>
        /\ wire' \in {wire, 0}
        /\ connected' \in BOOLEAN /\ sock' \in BOOLEAN
        /\ waiting' = waiting \/ (waiting < MaxWaiting /\ waiting' = waiting + 1)
    BY DEF LinkLost, OnDisconnect, OnConnect, client, IInv, TypeOK
  <1>2. flight \in Seq(Preds) /\ Len(flight) \in Nat /\ DOMAIN flight = 1..Len(flight)
    BY SeqElems DEF IInv, TypeOK
  <1>3. TypeOK'
    BY <1>1, <1>2, EdgeAssumption DEF IInv, TypeOK, drainer, history, platform
  <1>4. FlightSorted' /\ FlightAfterReached' /\ ReachedInOrder'
    BY <1>1 DEF IInv, FlightSorted, FlightAfterReached, ReachedInOrder
  <1>5. WireHasReached'
    BY <1>1, <1>2 DEF IInv, WireHasReached
  <1>6. OnlyMade' /\ SendsOverEmpty' /\ QueueIsNewest' /\ BatchIsOldest' /\ DeletedIsSent' /\ GoneIsGone'
    BY <1>1 DEF IInv, OnlyMade, SendsOverEmpty, QueueIsNewest, BatchIsOldest,
                DeletedIsSent, GoneIsGone, drainer, history
  <1>7. AllHeld'
    BY <1>1 DEF IInv, AllHeld, history
  <1>8. QED
    BY <1>3, <1>4, <1>5, <1>6, <1>7 DEF IInv

\* Taking _drain_lock changes no message.
LEMMA DrainAcquireStep == IInv /\ DrainAcquire => IInv'
  <1> SUFFICES ASSUME IInv, DrainAcquire PROVE IInv'
    OBVIOUS
  <1>1. TypeOK'
    BY EdgeAssumption DEF IInv, TypeOK, DrainAcquire, network, client, history, platform
  <1>2. Ordered'
    BY OrderedFrame DEF IInv, Ordered, DrainAcquire, client
  <1>3. OnlyMade' /\ SendsOverEmpty' /\ QueueIsNewest' /\ BatchIsOldest' /\ DeletedIsSent' /\ GoneIsGone'
    BY DEF IInv, OnlyMade, SendsOverEmpty, QueueIsNewest, BatchIsOldest, DeletedIsSent,
           GoneIsGone, DrainAcquire, client, history
  <1>4. AllHeld'
    BY DEF IInv, AllHeld, DrainAcquire, client, history
  <1>5. QED
    BY <1>1, <1>2, <1>3, <1>4 DEF IInv, Ordered

\* The batch read is what is oldest, by the order of the SELECT.
LEMMA DrainFetchStep == IInv /\ DrainFetch => IInv'
  <1> SUFFICES ASSUME IInv, DrainFetch PROVE IInv'
    OBVIOUS
  <1>1. rows' \subseteq outbox /\ \A x \in rows', y \in outbox \ rows' : x < y
    BY DEF IInv, BatchIsOldest, DrainFetch, OldestRows
  <1>2. drain' \in {"idle", "send"}
    BY DEF DrainFetch
  <1>3. TypeOK'
    BY <1>1, <1>2 DEF IInv, TypeOK, DrainFetch, network, client, history, platform
  <1>4. Ordered'
    BY OrderedFrame DEF IInv, Ordered, DrainFetch, client
  <1>5. BatchIsOldest' /\ DeletedIsSent'
    BY <1>1, <1>2 DEF BatchIsOldest, DeletedIsSent, DrainFetch
  <1>6. OnlyMade' /\ SendsOverEmpty' /\ QueueIsNewest' /\ GoneIsGone'
    BY DEF IInv, OnlyMade, SendsOverEmpty, QueueIsNewest, GoneIsGone, DrainFetch, client, history
  <1>7. AllHeld'
    BY DEF IInv, AllHeld, DrainFetch, client, history
  <1>8. QED
    BY <1>3, <1>4, <1>5, <1>6, <1>7 DEF IInv, Ordered

\* The oldest row goes out; every row of the table is at least as new.
LEMMA DrainSendStep == IInv /\ DrainSend => IInv'
  <1> SUFFICES ASSUME IInv, DrainSend PROVE IInv'
    OBVIOUS
  <1>1. PICK m \in rows :
          /\ Oldest(m, rows)
          /\ \/ Taken(m) /\ drain' = "delete" /\ row' = m /\ UNCHANGED rows
             \/ Refused(m) /\ drain' = "idle" /\ rows' = {} /\ UNCHANGED row
    BY DEF DrainSend
  <1>2. /\ m \in outbox /\ m \in Preds /\ m \in 1..made
        /\ \A x \in Elems(flight) \cup Elems(reached) : x <= m
        /\ \A x \in outbox : m <= x
    <2>1. m \in outbox /\ m \in Preds /\ m \in 1..made /\ outbox \subseteq 1..made
      BY DEF IInv, BatchIsOldest, OnlyMade, TypeOK
    <2>2. \A x \in outbox : m <= x
      BY <1>1, <2>1 DEF IInv, BatchIsOldest, Oldest
    <2>3. QED
      BY <2>1, <2>2 DEF IInv, QueueIsNewest
  <1>3. UNCHANGED <<made, net, network, wire, outbox, waiting, reached, platform, history>>
    BY DEF DrainSend
  <1>4. /\ flight' \in Seq(Preds) /\ wire' \in 0..Len(flight')
        /\ Elems(flight') \in {Elems(flight), Elems(flight) \cup {m}}
        /\ Ordered'
    <2>1. CASE flight' = flight
      BY <1>3, <2>1, OrderedFrame DEF IInv, TypeOK, Ordered
    <2>2. CASE flight' = Append(flight, m)
      BY <1>2, <1>3, <2>2, HandOver DEF IInv, Ordered
    <2>3. QED
      BY <1>1, <2>1, <2>2 DEF Taken, Refused
  <1>5. /\ rows' \in {{}, rows}
        /\ \/ drain' = "idle" /\ row' = row
           \/ drain' = "delete" /\ row' = m /\ rows' = rows /\ m \in Elems(flight')
    <2>1. CASE Taken(m) /\ drain' = "delete" /\ row' = m /\ UNCHANGED rows
      <3>1. m \in Elems(flight')
        BY <2>1, <1>2, <1>3, HandOver DEF IInv, Ordered, Taken
      <3>2. QED
        BY <2>1, <3>1
    <2>2. QED
      BY <1>1, <2>1
  <1>6. TypeOK'
    <2>1. row' \in 0..MaxPred /\ rows' \in SUBSET Preds
      <3>1. m \in 0..MaxPred /\ row \in 0..MaxPred /\ rows \in SUBSET Preds
        BY <1>2, EdgeAssumption DEF IInv, TypeOK, Preds
      <3>2. QED
        BY <1>5, <3>1
    <2>2. drain' \in {"idle", "delete"}
      BY <1>5
    <2>3. QED
      BY <1>3, <1>4, <2>1, <2>2 DEF IInv, TypeOK, network, history, platform
  <1>7. OnlyMade' /\ SendsOverEmpty' /\ GoneIsGone'
    BY <1>2, <1>3, <1>4 DEF IInv, OnlyMade, SendsOverEmpty, GoneIsGone, history
  <1>8. QueueIsNewest'
    BY <1>2, <1>3, <1>4 DEF IInv, QueueIsNewest
  <1>9. BatchIsOldest' /\ DeletedIsSent'
    BY <1>1, <1>3, <1>5 DEF IInv, BatchIsOldest, DeletedIsSent, Oldest
  <1>10. AllHeld'
    BY <1>3, <1>4 DEF IInv, AllHeld, history
  <1>11. QED
    BY <1>4, <1>6, <1>7, <1>8, <1>9, <1>10 DEF IInv, Ordered

\* The row deleted was handed over by the send before it.
LEMMA DrainDeleteStep == IInv /\ DrainDelete => IInv'
  <1> SUFFICES ASSUME IInv, DrainDelete PROVE IInv'
    OBVIOUS
  <1>1. row \in Elems(flight) \cup Elems(reached)
    BY DEF IInv, DeletedIsSent, DrainDelete
  <1>2. TypeOK'
    BY EdgeAssumption DEF IInv, TypeOK, DrainDelete, network, client, history, platform
  <1>3. Ordered'
    BY OrderedFrame DEF IInv, Ordered, DrainDelete, client
  <1>4. OnlyMade' /\ SendsOverEmpty' /\ QueueIsNewest' /\ BatchIsOldest' /\ GoneIsGone'
    BY DEF IInv, OnlyMade, SendsOverEmpty, QueueIsNewest, BatchIsOldest, GoneIsGone,
           DrainDelete, client, history
  <1>5. DeletedIsSent'
    BY DEF DeletedIsSent, DrainDelete
  <1>6. AllHeld'
    BY <1>1 DEF IInv, AllHeld, DrainDelete, client, history
  <1>7. QED
    BY <1>2, <1>3, <1>4, <1>5, <1>6 DEF IInv, Ordered

\* What crosses next has reached the broker before or is newer than all that has.
LEMMA DeliverStep == IInv /\ Deliver => IInv'
  <1> SUFFICES ASSUME IInv, Deliver PROVE IInv'
    OBVIOUS
  <1> DEFINE k == wire + 1
             m == flight[k]
  <1>1. /\ flight \in Seq(Preds) /\ reached \in Seq(Preds)
        /\ DOMAIN flight = 1..Len(flight) /\ Len(flight) \in Nat
        /\ DOMAIN reached = 1..Len(reached) /\ Len(reached) \in Nat
        /\ wire \in 0..Len(flight) /\ wire < Len(flight)
        /\ Preds \subseteq Nat
    BY SeqElems, EdgeAssumption DEF IInv, TypeOK, Deliver, Preds
  <1>2. k \in DOMAIN flight /\ m \in Preds /\ m \in Elems(flight) /\ k = wire + 1
    BY <1>1, SeqElems
  <1>3. /\ wire' = k /\ wire' \in 0..Len(flight)
        /\ UNCHANGED <<made, net, network, flight, outbox, waiting, drainer, history>>
        /\ reached' = IF m \in Elems(reached) THEN reached ELSE Append(reached, m)
        /\ Keep(m) \/ Drop(m)
    BY <1>1 DEF Deliver
  <1> HIDE DEF k, m
  <1>4. reached' \in Seq(Preds) /\ Elems(reached') = Elems(reached) \cup {m}
    BY <1>1, <1>2, <1>3, AppendElems
  <1>5. TypeOK'
    <2>1. stored' \in Seq(Preds) /\ refused' \in SUBSET Preds
      <3>1. stored \in Seq(Preds) /\ refused \in SUBSET Preds
        BY DEF IInv, TypeOK
      <3>2. Append(stored, m) \in Seq(Preds)
        BY <1>2, <3>1, AppendElems
      <3>3. QED
        BY <1>2, <1>3, <3>1, <3>2 DEF Keep, Drop
    <2>2. QED
      BY <1>3, <1>4, <2>1 DEF IInv, TypeOK, network, drainer, history
  <1>6. OnlyMade' /\ SendsOverEmpty' /\ GoneIsGone'
    BY <1>2, <1>3, <1>4 DEF IInv, OnlyMade, SendsOverEmpty, GoneIsGone, history
  <1>7. QueueIsNewest' /\ BatchIsOldest' /\ DeletedIsSent'
    BY <1>2, <1>3, <1>4 DEF IInv, QueueIsNewest, BatchIsOldest, DeletedIsSent, drainer
  <1>8. AllHeld'
    BY <1>3, <1>4 DEF IInv, AllHeld, history
  <1>9. FlightSorted'
    BY <1>3 DEF IInv, FlightSorted
  <1>10. WireHasReached'
    <2>1. \A i \in DOMAIN flight : i <= k => i <= wire \/ i = k
      BY <1>1, <1>2
    <2>2. m = flight[k]
      BY DEF m
    <2>3. QED
      BY <1>3, <1>4, <2>1, <2>2 DEF IInv, WireHasReached
  <1>11. FlightAfterReached' /\ ReachedInOrder'
    <2>1. CASE m \in Elems(reached)
      BY <1>3, <2>1 DEF IInv, FlightAfterReached, ReachedInOrder
    <2>2. CASE m \notin Elems(reached)
      <3>1. /\ \A i \in DOMAIN reached : i \in DOMAIN reached' /\ reached'[i] = reached[i]
            /\ \A i \in DOMAIN reached' : i \in DOMAIN reached \/ i = Len(reached) + 1
            /\ reached'[Len(reached) + 1] = m
        BY <1>1, <1>2, <1>3, <2>2, AppendElems
      <3>2. \A j \in DOMAIN reached : reached[j] \in Nat /\ reached[j] < m
        <4>1. \A j \in DOMAIN reached : reached[j] <= m
          BY <1>2, <2>2 DEF IInv, FlightAfterReached, m
        <4>2. \A j \in DOMAIN reached : reached[j] \in Preds /\ reached[j] # m
          BY <1>1, <2>2, SeqElems
        <4>3. \A j \in DOMAIN reached : reached[j] \in Nat
          BY <1>1, <4>2
        <4>4. m \in Nat
          BY <1>1, <1>2
        <4>5. QED
          BY <4>1, <4>2, <4>3, <4>4
      <3>3. ReachedInOrder'
        BY <1>1, <3>1, <3>2 DEF IInv, ReachedInOrder
      <3>4. \A i \in DOMAIN flight : flight[i] \in Elems(reached) \/ m <= flight[i]
        <4>1. \A i \in DOMAIN flight : i <= wire \/ k <= i
          BY <1>1, <1>2
        <4>2. QED
          BY <1>2, <4>1 DEF IInv, WireHasReached, FlightSorted, m
      <3>5. FlightAfterReached'
        BY <1>3, <1>4, <3>1, <3>4 DEF IInv, FlightAfterReached
      <3>6. QED
        BY <3>3, <3>5
    <2>3. QED
      BY <2>1, <2>2
  <1>12. QED
    BY <1>5, <1>6, <1>7, <1>8, <1>9, <1>10, <1>11 DEF IInv

\* What is acknowledged has reached the broker.
LEMMA AcknowledgeStep == IInv /\ Acknowledge => IInv'
  <1> SUFFICES ASSUME IInv, Acknowledge PROVE IInv'
    OBVIOUS
  <1>1. /\ flight \in Seq(Preds) /\ Len(flight) \in Nat /\ DOMAIN flight = 1..Len(flight)
        /\ wire \in 1..Len(flight) /\ wire' = wire - 1 /\ flight' = Tail(flight)
        /\ UNCHANGED <<made, net, network, outbox, waiting, drainer, reached, platform, history>>
    BY SeqElems DEF IInv, TypeOK, Acknowledge
  <1>2. flight # <<>>
    BY <1>1, EmptySeq
  <1>3. /\ flight' \in Seq(Preds) /\ Len(flight') = Len(flight) - 1
        /\ \A i \in DOMAIN flight' : i + 1 \in DOMAIN flight /\ flight'[i] = flight[i + 1]
        /\ Elems(flight) = Elems(flight') \cup {flight[1]}
        /\ DOMAIN flight' = 1..Len(flight')
    BY <1>1, <1>2, TailElems, SeqElems
  <1>4. flight[1] \in Elems(reached)
    BY <1>1 DEF IInv, WireHasReached
  <1>5. Elems(flight') \subseteq Elems(flight) /\ Elems(flight) \subseteq Elems(flight') \cup Elems(reached)
    BY <1>3, <1>4
  <1>6. TypeOK'
    BY <1>1, <1>3 DEF IInv, TypeOK, network, drainer, history, platform
  <1>7. OnlyMade' /\ SendsOverEmpty' /\ GoneIsGone'
    BY <1>1, <1>5 DEF IInv, OnlyMade, SendsOverEmpty, GoneIsGone, history
  <1>8. QueueIsNewest' /\ BatchIsOldest' /\ DeletedIsSent'
    BY <1>1, <1>5 DEF IInv, QueueIsNewest, BatchIsOldest, DeletedIsSent, drainer
  <1>9. AllHeld'
    BY <1>1, <1>5 DEF IInv, AllHeld, history
  <1>10. FlightSorted'
    BY <1>1, <1>3 DEF IInv, FlightSorted
  <1>11. FlightAfterReached' /\ ReachedInOrder'
    BY <1>1, <1>3 DEF IInv, FlightAfterReached, ReachedInOrder
  <1>12. WireHasReached'
    BY <1>1, <1>3 DEF IInv, WireHasReached
  <1>13. QED
    BY <1>6, <1>7, <1>8, <1>9, <1>10, <1>11, <1>12 DEF IInv

\* A power cut keeps the table and what the broker took.
LEMMA PowerCutStep == IInv /\ PowerCut => IInv'
  <1> SUFFICES ASSUME IInv, PowerCut PROVE IInv'
    OBVIOUS
  <1>1. /\ UNCHANGED <<made, outbox, reached, platform, queued>>
        /\ gone' = gone \cup Unsaved /\ net' = "idle"
        /\ flight' = <<>> /\ wire' = 0
        /\ drain' = "idle" /\ rows' = {}
    BY DEF PowerCut
  <1>2. /\ flight' \in Seq(Preds) /\ Len(flight') = 0
        /\ DOMAIN flight' = {} /\ Elems(flight') = {}
    BY <1>1, EmptySeq, LenProperties DEF Elems
  <1>3. /\ Unsaved \subseteq 1..made
        /\ Unsaved \cap (outbox \cup Elems(reached)) = {}
        /\ Elems(flight) \subseteq Unsaved \cup outbox \cup Elems(reached)
        /\ net # "idle" => made \in Unsaved \cup outbox \cup Elems(reached)
    BY DEF IInv, OnlyMade, Unsaved, TypeOK
  <1>4. 1..made \subseteq Preds
    BY EdgeAssumption DEF IInv, TypeOK, Preds
  <1>5. TypeOK'
    <2>1. wire' \in 0..Len(flight') /\ waiting' \in 0..MaxWaiting /\ row' \in 0..MaxPred
      BY <1>1, <1>2, EdgeAssumption DEF PowerCut
    <2>2. gone' \in SUBSET Preds
      BY <1>1, <1>3, <1>4 DEF IInv, TypeOK
    <2>3. net' \in {"idle"} /\ drain' \in {"idle"} /\ connected' \in BOOLEAN /\ sock' \in BOOLEAN
      BY DEF PowerCut
    <2>4. QED
      BY <1>1, <1>2, <2>1, <2>2, <2>3 DEF IInv, TypeOK, platform
  <1>6. FlightSorted' /\ FlightAfterReached' /\ WireHasReached' /\ ReachedInOrder'
    BY <1>1, <1>2 DEF IInv, FlightSorted, FlightAfterReached, WireHasReached, ReachedInOrder
  <1>7. OnlyMade' /\ SendsOverEmpty' /\ QueueIsNewest' /\ BatchIsOldest' /\ DeletedIsSent'
    BY <1>1, <1>2 DEF IInv, OnlyMade, SendsOverEmpty, QueueIsNewest, BatchIsOldest, DeletedIsSent
  <1>8. GoneIsGone'
    BY <1>1, <1>2, <1>3 DEF IInv, GoneIsGone
  <1>9. AllHeld'
    BY <1>1, <1>2, <1>3 DEF IInv, AllHeld
  <1>10. QED
    BY <1>5, <1>6, <1>7, <1>8, <1>9 DEF IInv

-----------------------------------------------------------------------------
(* Theorems. *)

\* The runner starts empty (or, after PowerCut, with its table).
LEMMA InitIInv == Init => IInv
  <1> SUFFICES ASSUME Init PROVE IInv
    OBVIOUS
  <1>1. /\ flight \in Seq(Preds) /\ reached \in Seq(Preds) /\ stored \in Seq(Preds)
        /\ Len(flight) = 0
        /\ DOMAIN flight = {} /\ DOMAIN reached = {}
        /\ Elems(flight) = {} /\ Elems(reached) = {}
    BY EmptySeq, LenProperties DEF Init, Elems
  <1>2. TypeOK
    <2>1. made \in 0..MaxPred /\ wire \in 0..Len(flight) /\ waiting \in 0..MaxWaiting /\ row \in 0..MaxPred
      BY <1>1, EdgeAssumption DEF Init
    <2>2. QED
      BY <1>1, <2>1 DEF Init, TypeOK
  <1>3. /\ OnlyMade /\ SendsOverEmpty /\ FlightSorted /\ QueueIsNewest
        /\ FlightAfterReached /\ WireHasReached /\ BatchIsOldest /\ DeletedIsSent
        /\ GoneIsGone /\ ReachedInOrder /\ AllHeld
    BY <1>1 DEF Init, OnlyMade, SendsOverEmpty, FlightSorted, QueueIsNewest,
        FlightAfterReached, WireHasReached, BatchIsOldest, DeletedIsSent,
        GoneIsGone, ReachedInOrder, AllHeld
  <1>4. QED
    BY <1>2, <1>3 DEF IInv

\* Nothing changes in a stuttering step.
LEMMA StutterStep == IInv /\ UNCHANGED vars => IInv'
  <1> SUFFICES ASSUME IInv, UNCHANGED vars PROVE IInv'
    OBVIOUS
  <1>1. TypeOK' /\ OnlyMade' /\ SendsOverEmpty' /\ FlightSorted'
    BY DEF IInv, TypeOK, OnlyMade, SendsOverEmpty, FlightSorted, vars, network, client, drainer, history, platform
  <1>2. QueueIsNewest' /\ FlightAfterReached' /\ WireHasReached' /\ BatchIsOldest'
    BY DEF IInv, QueueIsNewest, FlightAfterReached, WireHasReached, BatchIsOldest, vars, client, drainer
  <1>3. DeletedIsSent' /\ GoneIsGone' /\ ReachedInOrder' /\ AllHeld'
    BY DEF IInv, DeletedIsSent, GoneIsGone, ReachedInOrder, AllHeld, vars, client, drainer, history
  <1>4. QED
    BY <1>1, <1>2, <1>3 DEF IInv

\* IInv holds in every state of every behaviour.
THEOREM Inductive == Spec => []IInv
  <1>1. IInv /\ [Next]_vars => IInv'
    BY HandleSampleStep, CheckPendingStep, SendNowStep, EnqueueStep, LinkStep,
       DrainAcquireStep, DrainFetchStep, DrainSendStep, DrainDeleteStep,
       DeliverStep, AcknowledgeStep, PowerCutStep, StutterStep
    DEF Next, NetworkThread, Connection, DrainThread, Broker
  <1>2. QED
    BY <1>1, InitIInv, PTL DEF Spec

\* Every variable keeps its type, for any bounds and batch size.
THEOREM TypeCorrect == Spec => []TypeOK
  <1>1. IInv => TypeOK
    BY DEF IInv
  <1>2. QED
    BY <1>1, Inductive, PTL

-----------------------------------------------------------------------------
(* The platform's side: what it keeps of what the broker took. *)

\* A row added is new: of a prediction newer than every row, or of one the
\* platform had dropped.
LEMMA RowAdded ==
    ASSUME TypeOK, KeptOrDropped, NEW m \in Preds, m \notin Elems(stored),
           stored' = Append(stored, m), refused' = refused,
           m \in refused \/ \A x \in Elems(reached) : x < m,
           Elems(reached') = Elems(reached) \cup {m}
    PROVE  KeptOrDropped'
  <1>1. /\ stored \in Seq(Preds) /\ DOMAIN stored = 1..Len(stored) /\ Len(stored) \in Nat
        /\ \A i \in DOMAIN stored : stored[i] \in Elems(stored)
    BY SeqElems DEF TypeOK
  <1>2. /\ \A i \in DOMAIN stored : i \in DOMAIN stored' /\ stored'[i] = stored[i]
        /\ \A i \in DOMAIN stored' : i \in DOMAIN stored \/ i = Len(stored) + 1
        /\ stored'[Len(stored) + 1] = m
        /\ Elems(stored') = Elems(stored) \cup {m}
    BY <1>1, AppendElems
  <1>3. Elems(stored') \cup refused' = Elems(reached')
    BY <1>2 DEF KeptOrDropped
  <1>4. \A i \in DOMAIN stored : stored[i] # m /\ (stored[i] < m \/ m \in refused)
    BY <1>1 DEF KeptOrDropped
  <1>5. ASSUME NEW i \in DOMAIN stored', NEW j \in DOMAIN stored', i < j
        PROVE  /\ stored'[i] # stored'[j]
               /\ stored'[i] < stored'[j] \/ stored'[j] \in refused'
    <2>1. i \in DOMAIN stored
      BY <1>1, <1>2, <1>5
    <2>2. CASE j \in DOMAIN stored
      BY <1>2, <1>5, <2>1, <2>2 DEF KeptOrDropped
    <2>3. CASE j = Len(stored) + 1
      BY <1>2, <1>4, <2>1, <2>3
    <2>4. QED
      BY <1>2, <2>2, <2>3
  <1>6. QED
    BY <1>3, <1>5 DEF KeptOrDropped

\* Only a delivery touches the platform's rows.
LEMMA KeptStep == IInv /\ KeptOrDropped /\ [Next]_vars => KeptOrDropped'
  <1> SUFFICES ASSUME IInv, KeptOrDropped, [Next]_vars PROVE KeptOrDropped'
    OBVIOUS
  <1>1. CASE Deliver
    <2> DEFINE m == flight[wire + 1]
    <2>1. /\ m \in Preds /\ reached \in Seq(Preds)
          /\ m \in Elems(reached) \/ \A x \in Elems(reached) : x < m
      <3>1. wire + 1 \in DOMAIN flight /\ m \in Preds /\ reached \in Seq(Preds)
        BY <1>1, SeqElems DEF IInv, TypeOK, Deliver
      <3>2. m \in Elems(reached) \/ \A x \in Elems(reached) : x <= m
        BY <3>1 DEF IInv, FlightAfterReached, Elems
      <3>3. Elems(reached) \subseteq Preds /\ Preds \subseteq Nat
        BY <3>1, SeqElems, EdgeAssumption DEF Preds
      <3>4. m \notin Elems(reached) => \A x \in Elems(reached) : x # m /\ x \in Nat /\ m \in Nat
        BY <3>1, <3>3
      <3>5. m \notin Elems(reached) => \A x \in Elems(reached) : x < m
        BY <3>2, <3>4
      <3>6. QED
        BY <3>1, <3>5
    <2>2. /\ reached' = IF m \in Elems(reached) THEN reached ELSE Append(reached, m)
          /\ Keep(m) \/ Drop(m)
      BY <1>1 DEF Deliver
    <2> HIDE DEF m
    <2>3. Elems(reached') = Elems(reached) \cup {m}
      BY <2>1, <2>2, AppendElems
    <2>4. CASE Drop(m)
      BY <2>3, <2>4 DEF Drop, KeptOrDropped
    <2>5. CASE Keep(m) /\ m \in Elems(stored)
      BY <2>3, <2>5 DEF Keep, KeptOrDropped
    <2>6. CASE Keep(m) /\ m \notin Elems(stored)
      <3>1. m \in refused \/ \A x \in Elems(reached) : x < m
        BY <2>1, <2>6 DEF KeptOrDropped
      <3>2. QED
        BY <2>1, <2>3, <2>6, <3>1, RowAdded DEF Keep, IInv
    <2>7. QED
      BY <2>2, <2>4, <2>5, <2>6
  <1>2. CASE UNCHANGED <<reached, platform>>
    BY <1>2 DEF KeptOrDropped, platform
  <1>3. QED
    BY <1>1, <1>2
    DEF Next, NetworkThread, Connection, DrainThread, Broker, HandleSample, CheckPending,
        SendNow, Enqueue, LinkLost, OnDisconnect, OnConnect, DrainAcquire, DrainFetch,
        DrainSend, DrainDelete, Acknowledge, PowerCut, vars

\* The platform's rows are among what the broker took, in every behaviour.
THEOREM KeptInductive == Spec => [](IInv /\ KeptOrDropped)
  <1>1. Init => KeptOrDropped
    BY DEF Init, KeptOrDropped, Elems
  <1>2. QED
    BY <1>1, KeptStep, Inductive, PTL DEF Spec

\* Predictions reach the broker in the order they were made, and the rows of
\* the platform are in that order, none twice, but for those it dropped first.
THEOREM InOrder == Spec => []StoredInOrder
  <1>1. IInv /\ KeptOrDropped => StoredInOrder
    BY DEF IInv, ReachedInOrder, KeptOrDropped, StoredInOrder
  <1>2. QED
    BY <1>1, KeptInductive, PTL

\* At any time at most one queued row, the oldest, has been sent already.
THEOREM AtMostOneResend == Spec => []OnlyOldestResent
  <1>1. IInv => OnlyOldestResent
    BY DEF IInv, QueueIsNewest, OnlyOldestResent
  <1>2. QED
    BY <1>1, Inductive, PTL

\* Each prediction is held by the edge, kept or dropped by the platform, or
\* erased by a power cut.
THEOREM NoneDropped == Spec => []AccountedFor
  <1>1. IInv /\ KeptOrDropped => AccountedFor
    BY DEF IInv, AllHeld, KeptOrDropped, AccountedFor
  <1>2. QED
    BY <1>1, KeptInductive, PTL

\* The runner implements the promise of PredictionDelivery: each step is a
\* step of the abstract specification or leaves its variables unchanged.
THEOREM Implements == Spec => DeliversInOrder
  <1>1. Init => Promise!Init
    BY DEF Init, Promise!Init
  <1>2. IInv /\ KeptOrDropped /\ [Next]_vars => [Promise!Next]_(Promise!vars)
    <2> SUFFICES ASSUME IInv, KeptOrDropped, [Next]_vars PROVE [Promise!Next]_(Promise!vars)
      OBVIOUS
    <2> USE DEF Promise!Next, Promise!vars
    <2>1. CASE HandleSample
      BY <2>1 DEF HandleSample, history, platform, Promise!Make
    <2>2. CASE Enqueue
      BY <2>2 DEF Enqueue, platform, IInv, OnlyMade, GoneIsGone, Promise!Save
    <2>3. CASE DrainDelete
      <3>1. row \in 1..made /\ row \in outbox /\ \A x \in outbox : row <= x
        <4>1. row \in rows /\ row \in outbox /\ outbox \subseteq 1..made
          BY <2>3 DEF IInv, BatchIsOldest, DeletedIsSent, DrainDelete, OnlyMade
        <4>2. \A x \in outbox : row <= x
          BY <4>1, <2>3 DEF IInv, BatchIsOldest, DeletedIsSent, DrainDelete, TypeOK
        <4>3. QED
          BY <4>1, <4>2
      <3>2. Promise!Release(row)
        BY <2>3, <3>1 DEF DrainDelete, history, platform, Promise!Release
      <3>3. QED
        BY <3>1, <3>2
    <2>4. CASE Deliver
      <3> DEFINE m == flight[wire + 1]
      <3>1. wire + 1 \in DOMAIN flight /\ m \in Elems(flight) /\ m \in 1..made
            /\ \A i \in DOMAIN reached : reached[i] \in Nat
        <4>1. wire + 1 \in DOMAIN flight
          BY <2>4, SeqElems DEF IInv, TypeOK, Deliver
        <4>2. \A i \in DOMAIN reached : reached[i] \in Nat
          <5>1. Preds \subseteq Nat
            BY EdgeAssumption DEF Preds
          <5>2. QED
            BY <5>1, SeqElems DEF IInv, TypeOK
        <4>3. QED
          BY <4>1, <4>2, SeqElems DEF IInv, OnlyMade, TypeOK
      <3>2. /\ reached' = IF m \in Elems(reached) THEN reached ELSE Append(reached, m)
            /\ \/ stored' = stored
               \/ stored' = Append(stored, m) /\ m \notin Elems(stored)
            /\ UNCHANGED <<made, outbox, gone>>
        BY <2>4 DEF Deliver, Keep, Drop, history
      <3>3. CASE m \in Elems(reached) /\ stored' = stored
        BY <3>2, <3>3
      <3>4. CASE m \in Elems(reached) /\ stored' # stored
        <4>1. Promise!KeepLate(m)
          BY <3>2, <3>4 DEF Elems, Promise!InSeq, Promise!KeepLate
        <4>2. QED
          BY <3>1, <4>1
      <3>5. CASE m \notin Elems(reached)
        <4>1. \A s \in Promise!InSeq(reached) : s < m
          BY <3>1, <3>5 DEF IInv, FlightAfterReached, Elems, Promise!InSeq, TypeOK
        <4>2. m \notin gone /\ \A x \in outbox : m <= x
          BY <3>1 DEF IInv, GoneIsGone, QueueIsNewest
        <4>3. Promise!Arrive(m)
          BY <3>1, <3>2, <3>5, <4>1, <4>2 DEF Promise!Arrive
        <4>4. QED
          BY <3>1, <4>3
      <3>6. QED
        BY <3>3, <3>4, <3>5
    <2>5. CASE PowerCut
      <3>1. Unsaved \in SUBSET (1..made)
            /\ Unsaved \subseteq (1..made) \ (outbox \cup Promise!InSeq(reached) \cup gone)
        BY DEF IInv, OnlyMade, TypeOK, GoneIsGone, Unsaved, Elems, Promise!InSeq
      <3>2. Promise!Lose(Unsaved)
        BY <2>5, <3>1 DEF PowerCut, platform, Promise!Lose
      <3>3. QED
        BY <3>1, <3>2
    <2>6. CASE UNCHANGED <<made, outbox, reached, stored, gone>>
      BY <2>6
    <2>7. QED
      BY <2>1, <2>2, <2>3, <2>4, <2>5, <2>6
      DEF Next, NetworkThread, Connection, DrainThread, Broker, CheckPending, SendNow,
          LinkLost, OnDisconnect, OnConnect, DrainAcquire, DrainFetch, DrainSend,
          Acknowledge, vars, history, platform
  <1>3. QED
    BY <1>1, <1>2, KeptInductive, PTL DEF Spec, DeliversInOrder, Promise!Spec
=============================================================================
