-------------------------- MODULE IngestConsumerProofs --------------------------
(***************************************************************************)
(* The ingest consumer for any number of messages, batch size, states,     *)
(* parts and restarts: no telemetry row is lost between the buffer, the    *)
(* flush thread's copy and the table, no reading is inserted twice, and    *)
(* the counted parts never exceed the parts made.                          *)
(***************************************************************************)
EXTENDS IngestConsumer, DataLemmas, FiniteSetTheorems, TLAPS

\* The buffer lock is held exactly in the critical sections.
LockHeld ==
    /\ flusher \in {"locked", "copied"} <=> lock = "flusher"
    /\ mqtt \in {"extended", "flush"} <=> lock = "mqtt"

\* What the flush thread has copied is what it is about to clear, then what it
\* alone holds.
CopyHeld ==
    /\ flusher \in {"idle", "locked"} => copy = NoCopy
    /\ flusher = "copied" => copy.rows = buffer /\ copy.deltas \subseteq deltas
    /\ flusher = "production" => copy.rows = {}
    /\ flusher \in {"telemetry", "production"} => buffer \cap copy.rows = {}

\* The message at hand is new until its row is buffered.
MsgHeld ==
    /\ mqtt = "idle" <=> msg = NoMsg
    /\ mqtt # "idle" => msg.id \in 1..sent /\ msg.state \in States /\ msg.good \in 0..MaxGood
    /\ mqtt \in {"extended", "flush"} => msg.id \in buffer
    /\ mqtt \notin {"idle", "extended", "flush"} => msg.id \notin buffer \cup copy.rows \cup ToSet(telemetry)

\* A row is on its way or in the table, never both, and in the table once.
RowsApart ==
    /\ buffer \cup copy.rows \cup ToSet(telemetry) \subseteq 1..sent
    /\ ToSet(telemetry) \cap (buffer \cup copy.rows) = {}
    /\ \A i, j \in DOMAIN telemetry : i # j => telemetry[i] # telemetry[j]

\* A message has one delta, on its way or in the table, and in the table once.
DeltasApart ==
    /\ \A d \in deltas \cup copy.deltas \cup ToSet(production) :
         d.id \in 1..sent /\ (mqtt \in {"rules", "state", "commit", "counters"} => d.id # msg.id)
    /\ \A d \in deltas \cup copy.deltas, e \in ToSet(production) : d.id # e.id
    /\ \A d, e \in deltas \cup copy.deltas : d.id = e.id => d = e
    /\ flusher \in {"telemetry", "production"} => deltas \cap copy.deltas = {}
    /\ \A i, j \in DOMAIN production : i # j => production[i].id # production[j].id

\* The buffers are finite, and the counter counts parts that were made.
Finite == IsFiniteSet(deltas) /\ IsFiniteSet(copy.deltas) /\ machine.good <= machine.made

IInv == TypeOK /\ LockHeld /\ CopyHeld /\ MsgHeld /\ RowsApart /\ DeltasApart /\ Finite /\ TelemetryAccounted

-----------------------------------------------------------------------------
(* Sequences of a set. *)

LEMMA SetInSequence ==
    ASSUME NEW S, IsFiniteSet(S)
    PROVE  /\ SetToSeq(S) \in Seq(S)
           /\ \A i, j \in DOMAIN SetToSeq(S) : i # j => SetToSeq(S)[i] # SetToSeq(S)[j]
           /\ ToSet(SetToSeq(S)) = S
  <1> DEFINE n == Cardinality(S)
  <1>1. n \in Nat /\ ExistsBijection(1..n, S)
    BY FS_CardinalityType
  <1>2. PICK g : g \in Bijection(1..n, S)
    BY <1>1 DEF ExistsBijection
  <1>3. g \in [1..n -> S] /\ IsInjective(g)
    BY <1>2 DEF Bijection, Injection
  <1>4. SetToSeq(S) \in [1..n -> S] /\ IsInjective(SetToSeq(S))
    BY <1>3 DEF SetToSeq
  <1>5. SetToSeq(S) \in Injection(1..n, S)
    BY <1>4 DEF Injection
  <1>6. Cardinality(1..n) = n
    BY <1>1, FS_Interval
  <1>7. SetToSeq(S) \in Surjection(1..n, S)
    BY <1>5, <1>6, FS_Injection
  <1>8. DOMAIN SetToSeq(S) = 1..n
    BY <1>4
  <1>9. ToSet(SetToSeq(S)) = S
    BY <1>4, <1>7, <1>8 DEF ToSet, Surjection
  <1>10. SetToSeq(S) \in Seq(S)
    BY <1>1, <1>4
  <1>11. QED
    BY <1>4, <1>8, <1>9, <1>10 DEF IsInjective

\* Appending a finite set of new elements.
LEMMA SetAppended ==
    ASSUME NEW T, NEW s \in Seq(T), NEW S \in SUBSET T, IsFiniteSet(S)
    PROVE  LET t == s \o SetToSeq(S) IN
           /\ t \in Seq(T)
           /\ ToSet(t) = ToSet(s) \cup S
           /\ (\A i, j \in DOMAIN s : i # j => s[i] # s[j]) /\ ToSet(s) \cap S = {}
                => \A i, j \in DOMAIN t : i # j => t[i] # t[j]
  <1> DEFINE u == SetToSeq(S)
             t == s \o u
  <1>1. /\ u \in Seq(S) /\ ToSet(u) = S
        /\ \A i, j \in DOMAIN u : i # j => u[i] # u[j]
    BY SetInSequence
  <1> HIDE DEF u
  <1>2. u \in Seq(T)
    BY <1>1
  <1>3. t \in Seq(T) /\ Len(t) = Len(s) + Len(u)
    BY <1>2
  <1>4. /\ Len(s) \in Nat /\ DOMAIN s = 1..Len(s)
        /\ Len(u) \in Nat /\ DOMAIN u = 1..Len(u)
        /\ DOMAIN t = 1..(Len(s) + Len(u))
    BY <1>2, <1>3
  <1>5. \A i \in DOMAIN t : IF i <= Len(s) THEN i \in DOMAIN s /\ t[i] = s[i]
                            ELSE i - Len(s) \in DOMAIN u /\ t[i] = u[i - Len(s)]
    BY <1>2, <1>4
  <1>6. /\ \A i \in DOMAIN s : i \in DOMAIN t /\ t[i] = s[i]
        /\ \A i \in DOMAIN u : i + Len(s) \in DOMAIN t /\ t[i + Len(s)] = u[i]
    BY <1>2, <1>4
  <1> HIDE DEF t
  <1>7. ToSet(t) = ToSet(s) \cup ToSet(u)
    <2>1. \A i \in DOMAIN t : t[i] \in ToSet(s) \cup ToSet(u)
      BY <1>4, <1>5 DEF ToSet
    <2>2. \A i \in DOMAIN s : s[i] \in ToSet(t)
      BY <1>6 DEF ToSet
    <2>3. \A i \in DOMAIN u : u[i] \in ToSet(t)
      BY <1>6 DEF ToSet
    <2>4. QED
      BY <2>1, <2>2, <2>3 DEF ToSet
  <1>8. ASSUME \A i, j \in DOMAIN s : i # j => s[i] # s[j], ToSet(s) \cap S = {},
               NEW i \in DOMAIN t, NEW j \in DOMAIN t, i # j
        PROVE  t[i] # t[j]
    <2>1. i \in Int /\ j \in Int
      BY <1>4
    <2>2. \A k \in DOMAIN s : s[k] \notin S
      BY <1>8 DEF ToSet
    <2>3. \A k \in DOMAIN u : u[k] \in S
      BY <1>1 DEF ToSet
    <2>4. CASE i <= Len(s) /\ j <= Len(s)
      BY <2>4, <1>5, <1>8
    <2>5. CASE i <= Len(s) /\ ~(j <= Len(s))
      BY <2>5, <2>2, <2>3, <1>5
    <2>6. CASE ~(i <= Len(s)) /\ j <= Len(s)
      BY <2>6, <2>2, <2>3, <1>5
    <2>7. CASE ~(i <= Len(s)) /\ ~(j <= Len(s))
      <3>1. i - Len(s) # j - Len(s)
        BY <2>1, <1>4, <1>8
      <3>2. QED
        BY <3>1, <2>7, <1>1, <1>5
    <2>8. QED
      BY <2>4, <2>5, <2>6, <2>7
  <1>9. QED
    BY <1>1, <1>3, <1>7, <1>8 DEF t, u

\* Deltas of messages that have none in the table yet.
LEMMA DeltasAppended ==
    ASSUME NEW s \in Seq(Delta), NEW S \in SUBSET Delta, IsFiniteSet(S),
           \A i, j \in DOMAIN s : i # j => s[i].id # s[j].id,
           \A d, e \in S : d.id = e.id => d = e,
           \A d \in S, e \in ToSet(s) : d.id # e.id
    PROVE  LET t == s \o SetToSeq(S) IN
           /\ t \in Seq(Delta)
           /\ ToSet(t) = ToSet(s) \cup S
           /\ \A i, j \in DOMAIN t : i # j => t[i].id # t[j].id
  <1> DEFINE t == s \o SetToSeq(S)
  <1>1. \A i, j \in DOMAIN s : i # j => s[i] # s[j]
    OBVIOUS
  <1>2. ToSet(s) \cap S = {}
    OBVIOUS
  <1>3. /\ t \in Seq(Delta) /\ ToSet(t) = ToSet(s) \cup S
        /\ \A i, j \in DOMAIN t : i # j => t[i] # t[j]
    BY <1>1, <1>2, SetAppended
  <1> HIDE DEF t
  <1>4. \A d, e \in ToSet(s) \cup S : d.id = e.id => d = e
    BY DEF ToSet
  <1>5. \A i \in DOMAIN t : t[i] \in ToSet(s) \cup S
    BY <1>3 DEF ToSet
  <1>6. \A i, j \in DOMAIN t : i # j => t[i].id # t[j].id
    BY <1>3, <1>4, <1>5
  <1>7. QED
    BY <1>3, <1>6 DEF t

-----------------------------------------------------------------------------
(* The invariant. *)

LEMMA InitHolds == Init => IInv
  <1> SUFFICES ASSUME Init PROVE IInv
    OBVIOUS
  <1> USE IngestAssumption DEF Init, NoMsg, NoCopy, NoCount
  <1>1. TypeOK
    BY DEF TypeOK
  <1>2. LockHeld /\ CopyHeld /\ MsgHeld
    BY DEF LockHeld, CopyHeld, MsgHeld
  <1>3. RowsApart /\ DeltasApart
    BY DEF RowsApart, DeltasApart, ToSet
  <1>4. Finite
    BY FS_EmptySet DEF Finite
  <1>5. TelemetryAccounted
    BY DEF TelemetryAccounted
  <1>6. QED
    BY <1>1, <1>2, <1>3, <1>4, <1>5 DEF IInv

LEMMA LastEventTyped == ASSUME TypeOK PROVE LastEvent \in States \cup {None}
  BY DEF TypeOK, LastEvent, Last

\* The machine and the caches' refresh touch no row and no delta.
LEMMA OthersKeep ==
    ASSUME IInv, Machine \/ RefreshThread
    PROVE  IInv'
  <1> USE IngestAssumption DEF process, tables
  <1>1. CASE Machine
    <2>1. UNCHANGED <<sent, process, tables, dropped>> /\ machine' \in [state : States, good : 0..MaxGood, made : 0..MaxGood]
          /\ machine'.good <= machine'.made /\ restarts' \in 0..MaxRestarts
      <3>1. machine \in [state : States, good : 0..MaxGood, made : 0..MaxGood] /\ machine.good <= machine.made /\ restarts \in 0..MaxRestarts
        BY DEF IInv, TypeOK, Finite
      <3>2. CASE Produce
        <4>1. machine' = [state |-> machine.state, good |-> machine.good + 1, made |-> machine.made + 1]
          BY <3>1, <3>2 DEF Produce
        <4>2. machine.good + 1 \in 0..MaxGood /\ machine.made + 1 \in 0..MaxGood /\ machine.good + 1 <= machine.made + 1
          BY <3>1, <3>2 DEF Produce
        <4>3. UNCHANGED <<sent, process, tables, dropped, restarts>>
          BY <3>2 DEF Produce
        <4>4. QED
          BY <3>1, <4>1, <4>2, <4>3
      <3>3. CASE ChangeState
        BY <3>1, <3>3 DEF ChangeState
      <3>4. CASE RestartSimulator
        BY <3>1, <3>4 DEF RestartSimulator
      <3>5. QED
        BY <1>1, <3>2, <3>3, <3>4 DEF Machine
    <2>2. TypeOK'
      BY <2>1 DEF IInv, TypeOK
    <2>3. QED
      BY <2>1, <2>2 DEF IInv, LockHeld, CopyHeld, MsgHeld, RowsApart, DeltasApart, Finite, TelemetryAccounted, InMemory
  <1>2. CASE RefreshThread
    <2>1. UNCHANGED <<machine, sent, mqtt, msg, lock, buffer, deltas, lastGood, flusher, copy, tables, dropped, restarts>>
      BY <1>2 DEF RefreshThread, RefreshMaps, RefreshRead, RefreshAssign
    <2>2. last' \in States \cup {None} /\ snap' \in States \cup {None} /\ mapped' \in BOOLEAN /\ refresh' \in {"idle", "maps", "loaded"}
      BY <1>2, LastEventTyped DEF RefreshThread, RefreshMaps, RefreshRead, RefreshAssign, IInv, TypeOK
    <2>3. TypeOK'
      BY <2>1, <2>2 DEF IInv, TypeOK
    <2>4. QED
      BY <2>1, <2>3 DEF IInv, LockHeld, CopyHeld, MsgHeld, RowsApart, DeltasApart, Finite, TelemetryAccounted, InMemory
  <1>3. QED
    BY <1>1, <1>2

LEMMA ReceiveKeeps == ASSUME IInv, Receive PROVE IInv'
  <1> USE IngestAssumption DEF Receive, Reading, NoMsg, tables
  <1>0. /\ mqtt = "idle" /\ msg = NoMsg /\ sent' = sent + 1 /\ sent' \in 1..MaxMsgs
        /\ machine.state \in States /\ machine.good \in 0..MaxGood /\ sent \in Nat
    BY DEF IInv, TypeOK, MsgHeld
  <1>1. TypeOK'
    <2>1. dropped' \subseteq 1..MaxMsgs
      BY <1>0 DEF IInv, TypeOK
    <2>2. [id |-> sent + 1, state |-> machine.state, good |-> machine.good]
            \in [id : 0..MaxMsgs, state : States \cup {None}, good : NoCount..MaxGood]
      BY <1>0 DEF NoCount
    <2>3. msg' \in [id : 0..MaxMsgs, state : States \cup {None}, good : NoCount..MaxGood]
      BY <1>0, <2>2 DEF IInv, TypeOK
    <2>4. QED
      BY <1>0, <2>1, <2>3 DEF IInv, TypeOK
  <1>2. LockHeld' /\ CopyHeld'
    BY DEF IInv, LockHeld, CopyHeld
  <1>3. MsgHeld'
    BY DEF IInv, TypeOK, MsgHeld, RowsApart
  <1>4. RowsApart'
    BY DEF IInv, TypeOK, RowsApart
  <1>5. DeltasApart'
    BY DEF IInv, TypeOK, DeltasApart
  <1>6. Finite'
    BY DEF IInv, Finite
  <1>7. TelemetryAccounted'
    <2>1. 1..sent' = 1..sent \cup {sent'}
      BY <1>0
    <2>2. msg'.id = sent' \/ sent' \in dropped'
      BY <1>0
    <2>3. 1..sent \subseteq buffer \cup copy.rows \cup ToSet(telemetry) \cup dropped'
      BY <1>0 DEF IInv, TelemetryAccounted, InMemory
    <2>4. sent' \in InMemory' \cup dropped'
      BY <1>0, <2>2 DEF InMemory
    <2>5. buffer \cup copy.rows \subseteq InMemory' /\ telemetry' = telemetry
      BY DEF InMemory
    <2>6. QED
      BY <2>1, <2>3, <2>4, <2>5 DEF TelemetryAccounted
  <1>8. QED
    BY <1>1, <1>2, <1>3, <1>4, <1>5, <1>6, <1>7 DEF IInv

\* The message goes on through the rules and the state event, or is given up.
LEMMA HandlingKeeps ==
    ASSUME IInv, EvaluateRules \/ HandleStateChange \/ CommitEvent
    PROVE  IInv'
  <1> USE IngestAssumption DEF tables
  <1>1. /\ UNCHANGED <<machine, sent, lock, buffer, deltas, lastGood, mapped, flusher, copy, refresh, snap, telemetry, production, restarts>>
        /\ mqtt \in {"rules", "state", "commit"}
        /\ \/ mqtt' \in {"state", "commit", "counters"} /\ UNCHANGED <<msg, dropped>>
           \/ Abandon
        /\ last' \in {last, msg.state} /\ events' \in {events, Append(events, msg.state)}
    BY DEF EvaluateRules, HandleStateChange, CommitEvent
  <1>2. msg.state \in States /\ msg.id \in 1..sent
    BY <1>1 DEF IInv, MsgHeld
  <1>3. TypeOK'
    <2>1. events' \in Seq(States) /\ last' \in States \cup {None}
      <3>1. events \in Seq(States) /\ last \in States \cup {None}
        BY DEF IInv, TypeOK
      <3>2. Append(events, msg.state) \in Seq(States)
        BY <3>1, <1>2
      <3>3. QED
        BY <1>1, <1>2, <3>1, <3>2
    <2> DEFINE Msg == [id : 0..MaxMsgs, state : States \cup {None}, good : NoCount..MaxGood]
    <2>2. NoMsg \in Msg
      BY DEF NoMsg, NoCount
    <2>3. msg \in Msg /\ msg.id \in 1..MaxMsgs /\ dropped \subseteq 1..MaxMsgs
      BY <1>2 DEF IInv, TypeOK
    <2>4. dropped' \subseteq 1..MaxMsgs /\ mqtt' \in {"idle", "state", "commit", "counters"} /\ msg' \in Msg
      BY <1>1, <2>2, <2>3 DEF Abandon
    <2>5. QED
      BY <1>1, <2>1, <2>4 DEF IInv, TypeOK
  <1>4. LockHeld' /\ CopyHeld'
    BY <1>1 DEF IInv, LockHeld, CopyHeld, Abandon
  <1>5. MsgHeld'
    BY <1>1, <1>2 DEF IInv, MsgHeld, Abandon, NoMsg
  <1>6. RowsApart' /\ Finite'
    BY <1>1 DEF IInv, RowsApart, Finite
  <1>7. DeltasApart'
    BY <1>1 DEF IInv, DeltasApart, Abandon
  <1>8. TelemetryAccounted'
    BY <1>1 DEF IInv, TelemetryAccounted, InMemory, Abandon, NoMsg
  <1>9. QED
    BY <1>3, <1>4, <1>5, <1>6, <1>7, <1>8 DEF IInv

\* The message's delta joins the others; the flush thread may clear it with
\* what it has copied, but never inserts it twice.
LEMMA HandleCountersKeeps == ASSUME IInv, HandleCounters PROVE IInv'
  <1> USE IngestAssumption DEF tables
  <1> DEFINE n == CounterDelta(lastGood, msg.good)
             d == [id |-> msg.id, n |-> n]
  <1>1. /\ mqtt = "counters" /\ mqtt' = "buffer" /\ lastGood' = msg.good
        /\ deltas' = IF n = 0 THEN deltas ELSE deltas \cup {d}
        /\ UNCHANGED <<machine, sent, msg, lock, buffer, last, mapped, flusher, copy, refresh, snap, telemetry, production,
                       events, dropped, restarts>>
    BY DEF HandleCounters
  <1>2. msg.id \in 1..sent /\ msg.good \in 0..MaxGood
    BY <1>1 DEF IInv, MsgHeld
  <1>3. n \in 0..MaxGood
    BY <1>2 DEF IInv, TypeOK, CounterDelta, NoCount
  <1>4. n # 0 => d \in Delta
    BY <1>2, <1>3 DEF IInv, TypeOK, Delta
  <1> HIDE DEF n
  <1>5. TypeOK'
    BY <1>1, <1>2, <1>4 DEF IInv, TypeOK, NoCount
  <1>6. LockHeld' /\ CopyHeld' /\ MsgHeld' /\ RowsApart'
    BY <1>1 DEF IInv, LockHeld, CopyHeld, MsgHeld, RowsApart
  <1>7. DeltasApart'
    <2>1. \A e \in deltas \cup copy.deltas \cup ToSet(production) : e.id # d.id /\ e.id \in 1..sent
      BY <1>1 DEF IInv, DeltasApart
    <2>2. deltas' \subseteq deltas \cup {d} /\ d.id \in 1..sent
      BY <1>1, <1>2
    <2>3. /\ \A e \in deltas' \cup copy.deltas \cup ToSet(production) : e.id \in 1..sent
          /\ \A e \in deltas' \cup copy.deltas, f \in ToSet(production) : e.id # f.id
          /\ \A e, f \in deltas' \cup copy.deltas : e.id = f.id => e = f
      BY <2>1, <2>2 DEF IInv, DeltasApart
    <2>4. flusher \in {"telemetry", "production"} => deltas' \cap copy.deltas = {}
      BY <2>1, <2>2 DEF IInv, DeltasApart
    <2>5. QED
      BY <1>1, <2>3, <2>4 DEF IInv, DeltasApart
  <1>8. Finite'
    BY <1>1, FS_AddElement DEF IInv, Finite
  <1>9. TelemetryAccounted'
    BY <1>1 DEF IInv, TelemetryAccounted, InMemory
  <1>10. QED
    BY <1>5, <1>6, <1>7, <1>8, <1>9 DEF IInv

\* The row is buffered under the lock, where the flush thread has copied
\* nothing that it has not cleared.
LEMMA BufferingKeeps ==
    ASSUME IInv, BufferRows \/ FinishMessage
    PROVE  IInv'
  <1> USE IngestAssumption DEF tables
  <1>1. CASE BufferRows
    <2> USE <1>1 DEF BufferRows
    <2>1. msg.id \in 1..sent /\ msg.id \notin buffer \cup copy.rows \cup ToSet(telemetry) /\ flusher \notin {"locked", "copied"}
      BY DEF IInv, MsgHeld, LockHeld
    <2>2. TypeOK'
      <3>1. buffer' = buffer \cup {msg.id} /\ msg.id \in 1..MaxMsgs /\ buffer \subseteq 1..MaxMsgs
        BY <2>1 DEF IInv, TypeOK
      <3>2. QED
        BY <3>1 DEF IInv, TypeOK
    <2>3. LockHeld' /\ CopyHeld'
      BY <2>1 DEF IInv, LockHeld, CopyHeld
    <2>4. MsgHeld'
      BY <2>1 DEF IInv, MsgHeld
    <2>5. RowsApart'
      BY <2>1 DEF IInv, RowsApart
    <2>6. DeltasApart' /\ Finite'
      BY DEF IInv, DeltasApart, Finite
    <2>7. TelemetryAccounted'
      BY DEF IInv, TelemetryAccounted, InMemory
    <2>8. QED
      BY <2>2, <2>3, <2>4, <2>5, <2>6, <2>7 DEF IInv
  <1>2. CASE FinishMessage
    <2> USE <1>2 DEF FinishMessage, NoMsg
    <2>1. msg.id \in buffer
      BY DEF IInv, MsgHeld
    <2>2. TypeOK'
      BY DEF IInv, TypeOK, NoCount
    <2>3. LockHeld' /\ CopyHeld'
      BY DEF IInv, LockHeld, CopyHeld
    <2>4. MsgHeld'
      BY DEF IInv, MsgHeld
    <2>5. RowsApart' /\ DeltasApart' /\ Finite'
      BY DEF IInv, RowsApart, DeltasApart, Finite
    <2>6. TelemetryAccounted'
      BY <2>1 DEF IInv, TelemetryAccounted, InMemory
    <2>7. QED
      BY <2>2, <2>3, <2>4, <2>5, <2>6 DEF IInv
  <1>3. QED
    BY <1>1, <1>2

\* The lock keeps the buffer of telemetry as it was copied until it is cleared.
LEMMA FlushingKeeps ==
    ASSUME IInv, FlushLock \/ FlushCopy \/ FlushClear
    PROVE  IInv'
  <1> USE IngestAssumption DEF tables
  <1>1. CASE FlushLock
    BY <1>1 DEF FlushLock, IInv, TypeOK, LockHeld, CopyHeld, MsgHeld, RowsApart, DeltasApart, Finite, TelemetryAccounted, InMemory
  <1>2. CASE FlushCopy
    <2> USE <1>2 DEF FlushCopy
    <2>1. copy.rows = {} /\ copy.deltas = {}
      BY DEF IInv, CopyHeld, NoCopy
    <2>2. TypeOK'
      BY DEF IInv, TypeOK
    <2>3. LockHeld' /\ CopyHeld' /\ Finite'
      BY DEF IInv, LockHeld, CopyHeld, Finite
    <2>4. MsgHeld' /\ RowsApart' /\ DeltasApart'
      BY DEF IInv, MsgHeld, RowsApart, DeltasApart
    <2>5. TelemetryAccounted'
      BY <2>1 DEF IInv, TelemetryAccounted, InMemory
    <2>6. QED
      BY <2>2, <2>3, <2>4, <2>5 DEF IInv
  <1>3. CASE FlushClear
    <2> USE <1>3 DEF FlushClear
    <2>1. copy.rows = buffer /\ lock = "flusher"
      BY DEF IInv, CopyHeld, LockHeld
    <2>2. TypeOK'
      BY DEF IInv, TypeOK
    <2>3. LockHeld' /\ CopyHeld'
      BY <2>1 DEF IInv, LockHeld, CopyHeld
    <2>4. MsgHeld'
      BY <2>1 DEF IInv, MsgHeld, LockHeld
    <2>5. RowsApart' /\ DeltasApart'
      BY <2>1 DEF IInv, RowsApart, DeltasApart
    <2>6. Finite'
      BY FS_EmptySet DEF IInv, Finite
    <2>7. TelemetryAccounted'
      BY <2>1 DEF IInv, TelemetryAccounted, InMemory
    <2>8. QED
      BY <2>2, <2>3, <2>4, <2>5, <2>6, <2>7 DEF IInv
  <1>4. QED
    BY <1>1, <1>2, <1>3

Ids == 1..MaxMsgs

\* Rows that are not in the table yet.
LEMMA RowsAppended ==
    ASSUME NEW s \in Seq(Ids), NEW S \in SUBSET Ids, IsFiniteSet(S),
           \A i, j \in DOMAIN s : i # j => s[i] # s[j], ToSet(s) \cap S = {}
    PROVE  LET t == s \o SetToSeq(S) IN
           /\ t \in Seq(Ids)
           /\ ToSet(t) = ToSet(s) \cup S
           /\ \A i, j \in DOMAIN t : i # j => t[i] # t[j]
  BY SetAppended

LEMMA RowsFinite == ASSUME TypeOK PROVE IsFiniteSet(buffer) /\ IsFiniteSet(copy.rows)
  <1>1. IsFiniteSet(1..MaxMsgs)
    BY IngestAssumption, FS_Interval
  <1>2. QED
    BY <1>1, FS_Subset DEF TypeOK

\* Each insert puts its copy into the table or gives it up.
LEMMA InsertTelemetryKeeps == ASSUME IInv, InsertTelemetry PROVE IInv'
  <1> USE IngestAssumption DEF tables, InsertTelemetry
  <1>1. LET t == telemetry \o SetToSeq(copy.rows) IN
        /\ t \in Seq(1..MaxMsgs) /\ ToSet(t) = ToSet(telemetry) \cup copy.rows
        /\ \A i, j \in DOMAIN t : i # j => t[i] # t[j]
    <2>1. telemetry \in Seq(Ids) /\ copy.rows \in SUBSET Ids /\ IsFiniteSet(copy.rows)
      BY RowsFinite DEF IInv, TypeOK, Ids
    <2>2. (\A i, j \in DOMAIN telemetry : i # j => telemetry[i] # telemetry[j]) /\ ToSet(telemetry) \cap copy.rows = {}
      BY DEF IInv, RowsApart
    <2>3. QED
      BY <2>1, <2>2, RowsAppended DEF Ids
  <1>2. /\ telemetry' \in Seq(1..MaxMsgs)
        /\ ToSet(telemetry') \subseteq ToSet(telemetry) \cup copy.rows
        /\ ToSet(telemetry) \cup copy.rows \subseteq ToSet(telemetry') \cup dropped'
        /\ \A i, j \in DOMAIN telemetry' : i # j => telemetry'[i] # telemetry'[j]
    BY <1>1 DEF IInv, TypeOK, RowsApart
  <1>3. copy'.rows = {} /\ copy'.deltas = copy.deltas /\ copy' \in [rows : SUBSET (1..MaxMsgs), deltas : SUBSET Delta]
    BY DEF IInv, TypeOK
  <1>4. TypeOK'
    <2>1. dropped' \subseteq 1..MaxMsgs
      BY DEF IInv, TypeOK
    <2>2. QED
      BY <1>2, <1>3, <2>1 DEF IInv, TypeOK
  <1>5. LockHeld' /\ CopyHeld'
    BY <1>3 DEF IInv, LockHeld, CopyHeld
  <1>6. MsgHeld'
    BY <1>2, <1>3 DEF IInv, MsgHeld
  <1>7. RowsApart'
    <2>1. ToSet(telemetry') \subseteq 1..sent /\ ToSet(telemetry') \cap buffer = {}
      BY <1>2 DEF IInv, RowsApart, CopyHeld
    <2>2. QED
      BY <1>2, <1>3, <2>1 DEF IInv, RowsApart
  <1>8. DeltasApart' /\ Finite'
    BY <1>3 DEF IInv, DeltasApart, Finite
  <1>9. TelemetryAccounted'
    <2>1. dropped \subseteq dropped'
      OBVIOUS
    <2>2. QED
      BY <2>1, <1>2, <1>3 DEF IInv, TelemetryAccounted, InMemory
  <1>10. QED
    BY <1>4, <1>5, <1>6, <1>7, <1>8, <1>9 DEF IInv

LEMMA InsertProductionKeeps == ASSUME IInv, InsertProduction PROVE IInv'
  <1> USE IngestAssumption DEF tables, InsertProduction
  <1>1. LET t == production \o SetToSeq(copy.deltas) IN
        /\ t \in Seq(Delta) /\ ToSet(t) = ToSet(production) \cup copy.deltas
        /\ \A i, j \in DOMAIN t : i # j => t[i].id # t[j].id
    <2>1. production \in Seq(Delta) /\ copy.deltas \in SUBSET Delta /\ IsFiniteSet(copy.deltas)
      BY DEF IInv, TypeOK, Finite
    <2>2. /\ \A i, j \in DOMAIN production : i # j => production[i].id # production[j].id
          /\ \A d, e \in copy.deltas : d.id = e.id => d = e
          /\ \A d \in copy.deltas, e \in ToSet(production) : d.id # e.id
      BY DEF IInv, DeltasApart
    <2>3. QED
      BY <2>1, <2>2, DeltasAppended
  <1>2. /\ production' \in Seq(Delta)
        /\ ToSet(production') \subseteq ToSet(production) \cup copy.deltas
        /\ \A i, j \in DOMAIN production' : i # j => production'[i].id # production'[j].id
    BY <1>1 DEF IInv, TypeOK, DeltasApart
  <1>3. copy.rows = {} /\ deltas \cap copy.deltas = {} /\ copy' = NoCopy
    BY DEF IInv, CopyHeld, DeltasApart
  <1>4. TypeOK'
    BY <1>2, <1>3 DEF IInv, TypeOK, NoCopy
  <1>5. LockHeld' /\ CopyHeld'
    BY <1>3 DEF IInv, LockHeld, CopyHeld
  <1>6. MsgHeld' /\ RowsApart'
    BY <1>3 DEF IInv, MsgHeld, RowsApart, NoCopy
  <1>7. DeltasApart'
    <2>1. \A d \in deltas, e \in ToSet(production') : d.id # e.id
      BY <1>2, <1>3 DEF IInv, DeltasApart
    <2>2. QED
      BY <2>1, <1>2, <1>3 DEF IInv, DeltasApart, NoCopy
  <1>8. Finite'
    BY <1>3, FS_EmptySet DEF IInv, Finite, NoCopy
  <1>9. TelemetryAccounted'
    BY <1>3 DEF IInv, TelemetryAccounted, InMemory, NoCopy
  <1>10. QED
    BY <1>4, <1>5, <1>6, <1>7, <1>8, <1>9 DEF IInv

LEMMA InMemoryTyped == ASSUME TypeOK PROVE InMemory \subseteq 1..MaxMsgs
  <1>1. buffer \subseteq 1..MaxMsgs /\ copy.rows \subseteq 1..MaxMsgs /\ (msg.id # 0 => msg.id \in 1..MaxMsgs)
    BY IngestAssumption DEF TypeOK
  <1>2. QED
    BY <1>1 DEF InMemory

\* A process that ends leaves the rows that only it held among the dropped.
LEMMA KillKeeps == ASSUME IInv, Kill PROVE IInv'
  <1> USE IngestAssumption DEF tables, Kill, Fresh, NoMsg, NoCopy
  <1>1. TypeOK'
    <2>1. dropped' \subseteq 1..MaxMsgs
      BY InMemoryTyped DEF IInv, TypeOK
    <2>2. last' \in States \cup {None} /\ mapped' \in BOOLEAN
      BY LastEventTyped DEF IInv
    <2>3. QED
      BY <2>1, <2>2 DEF IInv, TypeOK, NoCount
  <1>2. LockHeld' /\ CopyHeld' /\ MsgHeld'
    BY DEF LockHeld, CopyHeld, MsgHeld
  <1>3. RowsApart' /\ DeltasApart'
    BY DEF IInv, RowsApart, DeltasApart
  <1>4. Finite'
    BY FS_EmptySet DEF IInv, Finite
  <1>5. TelemetryAccounted'
    BY DEF IInv, TelemetryAccounted
  <1>6. QED
    BY <1>1, <1>2, <1>3, <1>4, <1>5 DEF IInv

\* One interrupted outside the flush thread's critical section inserts what is
\* in the buffers on its way out: what has been copied is no longer there.
LEMMA InterruptKeeps == ASSUME IInv, Interrupt PROVE IInv'
  <1> USE IngestAssumption DEF tables, Fresh, NoMsg, NoCopy
  <1>1. PICK saved \in {{}, buffer} :
            /\ telemetry' = telemetry \o SetToSeq(saved)
            /\ dropped' = dropped \cup (InMemory \ (saved \cup ToSet(telemetry)))
    BY DEF Interrupt
  <1>2. PICK made \in {{}, deltas} : production' = production \o SetToSeq(made)
    BY DEF Interrupt
  <1>3. restarts < MaxRestarts /\ restarts' = restarts + 1 /\ Fresh /\ UNCHANGED <<machine, sent, events>>
    BY DEF Interrupt
  <1>4. /\ telemetry' \in Seq(1..MaxMsgs) /\ ToSet(telemetry') = ToSet(telemetry) \cup saved
        /\ \A i, j \in DOMAIN telemetry' : i # j => telemetry'[i] # telemetry'[j]
    <2>1. IsFiniteSet(saved) /\ saved \in SUBSET Ids /\ ToSet(telemetry) \cap saved = {}
      BY RowsFinite, FS_EmptySet DEF IInv, TypeOK, RowsApart, Ids
    <2>2. telemetry \in Seq(Ids) /\ \A i, j \in DOMAIN telemetry : i # j => telemetry[i] # telemetry[j]
      BY DEF IInv, TypeOK, RowsApart, Ids
    <2>3. LET t == telemetry \o SetToSeq(saved) IN
          /\ t \in Seq(Ids)
          /\ ToSet(t) = ToSet(telemetry) \cup saved
          /\ \A i, j \in DOMAIN t : i # j => t[i] # t[j]
      BY <2>1, <2>2, RowsAppended
    <2>4. QED
      BY <1>1, <2>3 DEF Ids
  <1>5. /\ production' \in Seq(Delta) /\ ToSet(production') = ToSet(production) \cup made
        /\ \A i, j \in DOMAIN production' : i # j => production'[i].id # production'[j].id
    <2>1. production \in Seq(Delta) /\ IsFiniteSet(made) /\ made \in SUBSET Delta
      BY FS_EmptySet DEF IInv, TypeOK, Finite
    <2>2. /\ \A i, j \in DOMAIN production : i # j => production[i].id # production[j].id
          /\ \A d, e \in made : d.id = e.id => d = e
          /\ \A d \in made, e \in ToSet(production) : d.id # e.id
      BY DEF IInv, DeltasApart
    <2>3. QED
      BY <1>2, <2>1, <2>2, DeltasAppended
  <1>6. TypeOK'
    <2>1. dropped' \subseteq 1..MaxMsgs
      BY <1>1, InMemoryTyped DEF IInv, TypeOK
    <2>2. last' \in States \cup {None} /\ mapped' \in BOOLEAN
      BY <1>3, LastEventTyped DEF IInv
    <2>3. QED
      BY <1>3, <1>4, <1>5, <2>1, <2>2 DEF IInv, TypeOK, NoCount
  <1>7. LockHeld' /\ CopyHeld' /\ MsgHeld'
    BY <1>3 DEF LockHeld, CopyHeld, MsgHeld
  <1>8. RowsApart'
    BY <1>3, <1>4 DEF IInv, RowsApart
  <1>9. DeltasApart'
    BY <1>3, <1>5 DEF IInv, DeltasApart
  <1>10. Finite'
    BY <1>3, FS_EmptySet DEF IInv, Finite
  <1>11. TelemetryAccounted'
    BY <1>1, <1>3, <1>4 DEF IInv, TelemetryAccounted
  <1>12. QED
    BY <1>6, <1>7, <1>8, <1>9, <1>10, <1>11 DEF IInv

LEMMA NextKeeps == IInv /\ [Next]_vars => IInv'
  <1> SUFFICES ASSUME IInv, [Next]_vars PROVE IInv'
    OBVIOUS
  <1>1. CASE Next
    BY <1>1, OthersKeep, ReceiveKeeps, HandlingKeeps, HandleCountersKeeps, BufferingKeeps, FlushingKeeps,
       InsertTelemetryKeeps, InsertProductionKeeps, KillKeeps, InterruptKeeps DEF Next, MqttThread, FlushThread
  <1>2. CASE UNCHANGED vars
    BY <1>2 DEF vars, process, tables, IInv, TypeOK, LockHeld, CopyHeld, MsgHeld, RowsApart, DeltasApart, Finite,
       TelemetryAccounted, InMemory
  <1>3. QED
    BY <1>1, <1>2

\* Every step of the MQTT thread, of the flush thread and of the plant keeps
\* the invariant: the lock, the copy and the counters' mirrors.
THEOREM IngestInvariant == Spec => []IInv
  BY InitHolds, NextKeeps, PTL DEF Spec

-----------------------------------------------------------------------------
(* Results. *)

\* Every variable of the consumer keeps its type: the refreshed caches, the
\* deltas of _counter_delta and the tables.
THEOREM IngestTypeCorrect == Spec => []TypeOK
  <1>1. IInv => TypeOK
    BY DEF IInv
  <1>2. QED
    BY <1>1, IngestInvariant, PTL

\* Buffering under _buffer_lock loses no telemetry row: each is in the message
\* at hand, a buffer, the flush thread's copy or the table, or was given up.
THEOREM RowsAccounted == Spec => []TelemetryAccounted
  <1>1. IInv => TelemetryAccounted
    BY DEF IInv
  <1>2. QED
    BY <1>1, IngestInvariant, PTL

\* _flush_buffer and start()'s flush on the way out insert no reading twice,
\* though the MQTT thread appends deltas without the lock.
THEOREM NoneTwice == Spec => []InsertedOnce
  <1>1. IInv => InsertedOnce
    BY DEF IInv, InsertedOnce, RowsApart, DeltasApart
  <1>2. QED
    BY <1>1, IngestInvariant, PTL

-----------------------------------------------------------------------------
(* The counters. *)

\* What the deltas in the table and on their way add up to, and what the
\* message at hand and the next one can still add, is not more than was made.
AllDeltas == ToSet(production) \cup deltas \cup copy.deltas

Uncounted ==
    IF mqtt \in {"rules", "state", "commit", "counters"}
    THEN CounterDelta(lastGood, msg.good) + CounterDelta(msg.good, machine.good)
    ELSE CounterDelta(lastGood, machine.good)

PartsCovered == Counted(AllDeltas) + Uncounted <= machine.made

PartsOf == [d \in Delta |-> d.n]

\* The fold of the community modules is the sum.
LEMMA CountedIsSum ==
    ASSUME NEW S \in SUBSET Delta, IsFiniteSet(S)
    PROVE  /\ Counted(S) = SumOver(PartsOf, S) /\ Counted(S) \in Nat
           /\ Summed(PartsOf, S)
  <1> DEFINE Adds(g) == g = [s \in SUBSET S |-> IF s = {} THEN 0
                                               ELSE (CHOOSE x \in s : TRUE).n + g[s \ {CHOOSE x \in s : TRUE}]]
             c == CHOOSE g : Adds(g)
  <1>1. \A d \in Delta : PartsOf[d] = d.n /\ d.n \in Nat
    BY DEF PartsOf, Delta
  <1>2. Summed(PartsOf, S) /\ SumOver(PartsOf, S) \in Nat
    BY <1>1, SumNatural
  <1>3. \A s \in SUBSET S : s # {} => Chosen(s) \in S
    BY ChosenIn
  <1>4. PICK g : IsSum(g, PartsOf, S)
    BY <1>2, SumExists
  <1>5. Adds(g)
    BY <1>1, <1>3, <1>4 DEF IsSum, Chosen
  <1>6. Adds(c)
    BY <1>5
  <1>7. IsSum(c, PartsOf, S)
    <2> HIDE DEF c
    <2> QED BY <1>1, <1>3, <1>6 DEF IsSum, Chosen
  <1>8. Counted(S) = c[S]
    BY DEF Counted, MapThenSumSet, MapThenFoldSet
  <1>9. QED
    BY <1>2, <1>7, <1>8, SumIs

LEMMA FewerCounted ==
    ASSUME NEW S \in SUBSET Delta, IsFiniteSet(S), NEW T \in SUBSET S
    PROVE  Counted(T) <= Counted(S) /\ Counted(T) \in Nat /\ Counted(S) \in Nat
  <1>1. \A d \in S : PartsOf[d] \in Nat
    BY DEF PartsOf, Delta
  <1>2. SumOver(PartsOf, T) <= SumOver(PartsOf, S)
    BY <1>1, SumGrows
  <1>3. QED
    BY <1>2, CountedIsSum, FS_Subset

LEMMA OneMoreCounted ==
    ASSUME NEW S \in SUBSET Delta, IsFiniteSet(S), NEW d \in Delta
    PROVE  Counted(S \cup {d}) <= Counted(S) + d.n /\ Counted(S \cup {d}) \in Nat /\ Counted(S) \in Nat
  <1>1. d.n \in Nat /\ PartsOf[d] = d.n
    BY DEF PartsOf, Delta
  <1>2. Counted(S \cup {d}) \in Nat /\ Counted(S) \in Nat
    BY CountedIsSum, FS_AddElement
  <1>3. CASE d \in S
    <2>1. S \cup {d} = S
      BY <1>3
    <2>2. Counted(S \cup {d}) = Counted(S)
      BY <2>1
    <2> HIDE DEF Counted
    <2>3. QED
      BY <1>1, <1>2, <2>2
  <1>4. CASE d \notin S
    <2>1. Summed(PartsOf, S) /\ PartsOf[d] \in Int
      BY <1>1, CountedIsSum
    <2>2. SumOver(PartsOf, S \cup {d}) = d.n + SumOver(PartsOf, S)
      BY <1>1, <1>4, <2>1, SumAdd
    <2>3. Counted(S \cup {d}) = d.n + Counted(S)
      BY <2>2, CountedIsSum, FS_AddElement
    <2>4. QED
      BY <1>1, <1>2, <2>3
  <1>5. QED
    BY <1>3, <1>4

LEMMA AllDeltasFinite ==
    ASSUME IInv
    PROVE  AllDeltas \in SUBSET Delta /\ IsFiniteSet(AllDeltas)
  <1>1. production \in Seq(Delta) /\ deltas \in SUBSET Delta /\ copy.deltas \in SUBSET Delta
    BY DEF IInv, TypeOK
  <1>2. IsFiniteSet(ToSet(production)) /\ ToSet(production) \in SUBSET Delta
    <2> DEFINE n == Len(production)
    <2>1. n \in Nat /\ production \in [1..n -> Delta]
      BY <1>1
    <2> HIDE DEF n
    <2>2. production \in Surjection(1..n, ToSet(production))
      BY <2>1 DEF Surjection, ToSet
    <2>3. IsFiniteSet(ToSet(production))
      BY <2>1, <2>2, FS_Interval, FS_Surjection
    <2>4. QED
      BY <2>1, <2>3 DEF ToSet
  <1>3. IsFiniteSet(deltas) /\ IsFiniteSet(copy.deltas)
    BY DEF IInv, Finite
  <1>4. QED
    BY <1>1, <1>2, <1>3, FS_Union DEF AllDeltas

\* A reading left out adds nothing.
LEMMA Triangle ==
    ASSUME NEW p \in Nat \cup {NoCount}, NEW m \in Nat, NEW q \in Nat
    PROVE  /\ CounterDelta(p, m) \in Nat /\ CounterDelta(m, q) \in Nat /\ CounterDelta(p, q) \in Nat
           /\ CounterDelta(p, q) <= CounterDelta(p, m) + CounterDelta(m, q)
           /\ CounterDelta(p, q + 1) \in Nat /\ CounterDelta(p, q + 1) <= CounterDelta(p, q) + 1
           /\ CounterDelta(p, 0) = 0 /\ CounterDelta(q, q) = 0 /\ CounterDelta(NoCount, q) = 0
  BY DEF CounterDelta, NoCount

\* Fewer deltas, and nothing more to come than parts were made since.
LEMMA StillCovered ==
    ASSUME IInv, PartsCovered, AllDeltas' \subseteq AllDeltas,
           Uncounted \in Nat, Uncounted' \in Nat, machine.made \in Nat, machine'.made \in Nat,
           Uncounted' - Uncounted <= machine'.made - machine.made
    PROVE  PartsCovered'
  <1>1. AllDeltas \in SUBSET Delta /\ IsFiniteSet(AllDeltas) /\ AllDeltas' \in SUBSET AllDeltas
    BY AllDeltasFinite
  <1>2. Counted(AllDeltas') <= Counted(AllDeltas) /\ Counted(AllDeltas') \in Nat /\ Counted(AllDeltas) \in Nat
    BY <1>1, FewerCounted
  <1> DEFINE c == Counted(AllDeltas)
             d == Counted(AllDeltas')
             u == Uncounted
             v == Uncounted'
             m == machine.made
             n == machine'.made
  <1>3. c + u <= m
    BY DEF PartsCovered
  <1>4. d <= c /\ d \in Nat /\ c \in Nat /\ u \in Nat /\ v \in Nat /\ m \in Nat /\ n \in Nat /\ v - u <= n - m
    BY <1>2
  <1> HIDE DEF c, d, u, v, m, n
  <1>5. d + v <= n
    BY <1>3, <1>4
  <1> USE DEF d, v, n
  <1>6. Counted(AllDeltas') + Uncounted' <= machine'.made
    BY <1>5
  <1>7. PartsCovered' <=> Counted(AllDeltas') + Uncounted' <= machine'.made
    BY DEF PartsCovered, Counted, MapThenSumSet, MapThenFoldSet
  <1>8. QED
    BY <1>6, <1>7

LEMMA UncountedTyped == IInv => Uncounted \in Nat /\ machine.made \in Nat /\ machine.good \in Nat
  <1> SUFFICES ASSUME IInv PROVE Uncounted \in Nat /\ machine.made \in Nat /\ machine.good \in Nat
    OBVIOUS
  <1>1. machine.good \in Nat /\ machine.made \in Nat /\ lastGood \in Nat \cup {NoCount}
    BY IngestAssumption DEF IInv, TypeOK, NoCount
  <1>2. mqtt # "idle" => msg.good \in Nat
    BY IngestAssumption DEF IInv, TypeOK, MsgHeld
  <1>3. CASE mqtt \in {"rules", "state", "commit", "counters"}
    <2>1. CounterDelta(lastGood, msg.good) \in Nat /\ CounterDelta(msg.good, machine.good) \in Nat
      BY <1>1, <1>2, <1>3, Triangle
    <2>2. QED
      BY <1>1, <1>3, <2>1 DEF Uncounted
  <1>4. CASE mqtt \notin {"rules", "state", "commit", "counters"}
    <2>1. CounterDelta(lastGood, machine.good) \in Nat
      BY <1>1, Triangle
    <2>2. QED
      BY <1>1, <1>4, <2>1 DEF Uncounted
  <1>5. QED
    BY <1>3, <1>4

\* The machine makes a part, or starts counting again.
LEMMA MachineCovered ==
    ASSUME IInv, IInv', PartsCovered, Uncounted' \in Nat, machine'.made \in Nat,
           Produce \/ ChangeState \/ RestartSimulator
    PROVE  PartsCovered'
  <1>1. AllDeltas' \subseteq AllDeltas
    BY DEF Produce, ChangeState, RestartSimulator, process, tables, AllDeltas
  <1>2. /\ Uncounted \in Nat /\ machine.made \in Nat /\ machine.good \in Nat
        /\ machine \in [state : States, good : 0..MaxGood, made : 0..MaxGood]
        /\ lastGood \in Nat \cup {NoCount} /\ (mqtt # "idle" => msg.good \in Nat)
        /\ UNCHANGED <<lastGood, msg, mqtt>>
    <2>1. UNCHANGED <<lastGood, msg, mqtt>>
      BY DEF Produce, ChangeState, RestartSimulator, process
    <2>2. lastGood \in Nat \cup {NoCount} /\ machine \in [state : States, good : 0..MaxGood, made : 0..MaxGood]
      BY IngestAssumption DEF IInv, TypeOK, NoCount
    <2>3. mqtt # "idle" => msg.good \in Nat
      BY IngestAssumption DEF IInv, MsgHeld
    <2>4. QED
      BY <2>1, <2>2, <2>3, UncountedTyped
  <1>3. CASE Produce
    <2>1. machine'.good = machine.good + 1 /\ machine'.made = machine.made + 1
      BY <1>2, <1>3 DEF Produce
    <2>2. CASE mqtt \in {"rules", "state", "commit", "counters"}
      <3>1. msg.good \in Nat
        BY <1>2, <2>2
      <3>2. /\ Uncounted = CounterDelta(lastGood, msg.good) + CounterDelta(msg.good, machine.good)
            /\ Uncounted' = CounterDelta(lastGood, msg.good) + CounterDelta(msg.good, machine.good + 1)
        BY <1>2, <2>1, <2>2 DEF Uncounted, CounterDelta
      <3>3. /\ CounterDelta(lastGood, msg.good) \in Nat /\ CounterDelta(msg.good, machine.good) \in Nat
            /\ CounterDelta(msg.good, machine.good + 1) \in Nat
            /\ CounterDelta(msg.good, machine.good + 1) <= CounterDelta(msg.good, machine.good) + 1
        BY <1>2, <3>1, Triangle
      <3>4. Uncounted' - Uncounted <= 1
        BY <3>2, <3>3
      <3>5. Uncounted' - Uncounted <= machine'.made - machine.made
        <4>1. machine'.made - machine.made = 1
          BY <1>2, <2>1
        <4>2. QED
          BY <3>4, <4>1
      <3>6. QED
        BY <1>1, <1>2, <3>5, StillCovered
    <2>3. CASE mqtt \notin {"rules", "state", "commit", "counters"}
      <3>1. /\ Uncounted = CounterDelta(lastGood, machine.good)
            /\ Uncounted' = CounterDelta(lastGood, machine.good + 1)
        BY <1>2, <2>1, <2>3 DEF Uncounted, CounterDelta
      <3>2. /\ CounterDelta(lastGood, machine.good) \in Nat /\ CounterDelta(lastGood, machine.good + 1) \in Nat
            /\ CounterDelta(lastGood, machine.good + 1) <= CounterDelta(lastGood, machine.good) + 1
        BY <1>2, Triangle
      <3>3. Uncounted' - Uncounted <= 1
        BY <3>1, <3>2
      <3>5. Uncounted' - Uncounted <= machine'.made - machine.made
        <4>1. machine'.made - machine.made = 1
          BY <1>2, <2>1
        <4>2. QED
          BY <3>3, <4>1
      <3>6. QED
        BY <1>1, <1>2, <3>5, StillCovered
    <2>4. QED
      BY <2>2, <2>3
  <1>4. CASE ChangeState \/ RestartSimulator
    <2>1. machine'.good \in {machine.good, 0} /\ machine'.made = machine.made
      BY <1>2, <1>4 DEF ChangeState, RestartSimulator
    <2>2. Uncounted' <= Uncounted
      BY <1>2, <2>1, Triangle DEF Uncounted, CounterDelta
    <2>3. Uncounted' - Uncounted <= machine'.made - machine.made
      BY <1>2, <2>1, <2>2
    <2>4. QED
      BY <1>1, <1>2, <2>3, StillCovered
  <1>5. QED
    BY <1>3, <1>4

\* The delta of the reading is what it no longer has to add.
LEMMA CountingCovered ==
    ASSUME IInv, IInv', PartsCovered, HandleCounters
    PROVE  PartsCovered'
  <1> DEFINE n == CounterDelta(lastGood, msg.good)
             m == CounterDelta(msg.good, machine.good)
             d == [id |-> msg.id, n |-> n]
  <1>1. /\ msg.good \in Nat /\ machine.good \in Nat /\ machine.made \in Nat /\ msg.id \in 1..MaxMsgs
        /\ lastGood \in Nat \cup {NoCount} /\ msg.good <= MaxGood
    BY IngestAssumption DEF IInv, TypeOK, MsgHeld, HandleCounters, NoCount
  <1>2. n \in Nat /\ m \in Nat /\ n <= MaxGood
    BY <1>1, IngestAssumption, Triangle DEF CounterDelta
  <1>3. Uncounted = n + m /\ Uncounted' = m /\ machine' = machine
    BY DEF HandleCounters, Uncounted, CounterDelta
  <1>4. AllDeltas' = IF n = 0 THEN AllDeltas ELSE AllDeltas \cup {d}
    BY DEF HandleCounters, AllDeltas, tables
  <1>5. CASE n = 0
    <2>1. Uncounted' - Uncounted <= machine'.made - machine.made
      BY <1>1, <1>2, <1>3, <1>5
    <2>2. QED
      BY <1>1, <1>2, <1>3, <1>4, <1>5, <2>1, StillCovered
  <1>6. CASE n # 0
    <2>1. d \in Delta /\ d.n = n
      BY <1>1, <1>2, <1>6, IngestAssumption DEF Delta
    <2>2. AllDeltas' = AllDeltas \cup {d}
      BY <1>4, <1>6
    <2>3. AllDeltas \in SUBSET Delta /\ IsFiniteSet(AllDeltas)
      BY AllDeltasFinite
    <2>4. /\ Counted(AllDeltas \cup {d}) <= Counted(AllDeltas) + n
          /\ Counted(AllDeltas \cup {d}) \in Nat /\ Counted(AllDeltas) \in Nat
      BY <2>1, <2>3, OneMoreCounted
    <2>5. Counted(AllDeltas) + (n + m) <= machine.made
      BY <1>3 DEF PartsCovered
    <2>6. Counted(AllDeltas \cup {d}) + m <= machine.made
      <3> DEFINE x == Counted(AllDeltas)
                 y == Counted(AllDeltas \cup {d})
                 k == machine.made
      <3>1. y <= x + n /\ x + (n + m) <= k /\ x \in Nat /\ y \in Nat /\ k \in Nat
        BY <1>1, <2>4, <2>5
      <3> HIDE DEF x, y, k, n, m
      <3>2. y + m <= k
        BY <1>2, <3>1
      <3> USE DEF y, k
      <3>3. QED
        BY <3>2
    <2>7. Counted(AllDeltas') + Uncounted' <= machine'.made
      BY <1>3, <2>2, <2>6
    <2>8. PartsCovered' <=> Counted(AllDeltas') + Uncounted' <= machine'.made
      BY DEF PartsCovered, Counted, MapThenSumSet, MapThenFoldSet
    <2>9. QED
      BY <2>7, <2>8
  <1>7. QED
    BY <1>5, <1>6

\* The other steps of the threads lose deltas, move them or leave them alone.
LEMMA ThreadsCovered ==
    ASSUME IInv, IInv', PartsCovered, Uncounted' \in Nat, machine'.made \in Nat,
           (MqttThread /\ ~HandleCounters) \/ FlushThread \/ RefreshThread
    PROVE  PartsCovered'
  <1>1. machine' = machine /\ lastGood' = lastGood
    BY DEF MqttThread, Receive, EvaluateRules, HandleStateChange, CommitEvent, BufferRows, FinishMessage,
           FlushThread, FlushLock, FlushCopy, FlushClear, InsertTelemetry, InsertProduction,
           RefreshThread, RefreshMaps, RefreshRead, RefreshAssign
  <1>2. AllDeltas' \subseteq AllDeltas
    <2>1. CASE InsertProduction
      <3>1. production \in Seq(Delta) /\ IsFiniteSet(copy.deltas) /\ copy.deltas \in SUBSET Delta
        BY DEF IInv, TypeOK, Finite
      <3>2. ToSet(production \o SetToSeq(copy.deltas)) = ToSet(production) \cup copy.deltas
        BY <3>1, SetAppended
      <3>3. ToSet(production') \subseteq ToSet(production) \cup copy.deltas
        BY <2>1, <3>2 DEF InsertProduction
      <3>4. deltas' = deltas /\ copy'.deltas = {}
        BY <2>1 DEF InsertProduction, NoCopy
      <3>5. QED
        BY <3>3, <3>4 DEF AllDeltas
    <2>2. CASE FlushCopy \/ FlushClear \/ InsertTelemetry
      <3>1. copy \in [rows : SUBSET (1..MaxMsgs), deltas : SUBSET Delta]
        BY DEF IInv, TypeOK
      <3>2. production' = production /\ deltas' \cup copy'.deltas \subseteq deltas \cup copy.deltas
        BY <2>2, <3>1 DEF FlushCopy, FlushClear, InsertTelemetry, tables
      <3>3. QED
        BY <3>2 DEF AllDeltas
    <2>3. CASE (MqttThread /\ ~HandleCounters) \/ FlushLock \/ RefreshThread
      <3>1. UNCHANGED <<production, deltas, copy>>
        BY <2>3 DEF MqttThread, Receive, EvaluateRules, HandleStateChange, CommitEvent, BufferRows,
             FinishMessage, FlushLock, RefreshThread, RefreshMaps, RefreshRead, RefreshAssign, tables
      <3>2. QED
        BY <3>1 DEF AllDeltas
    <2>4. QED
      BY <2>1, <2>2, <2>3 DEF FlushThread
  <1>3. /\ Uncounted \in Nat /\ machine.made \in Nat /\ machine.good \in Nat
        /\ lastGood \in Nat \cup {NoCount} /\ (mqtt # "idle" => msg.good \in Nat)
    <2>1. lastGood \in Nat \cup {NoCount}
      BY IngestAssumption DEF IInv, TypeOK, NoCount
    <2>2. mqtt # "idle" => msg.good \in Nat
      BY IngestAssumption DEF IInv, MsgHeld
    <2>3. QED
      BY <2>1, <2>2, UncountedTyped
  <1>4. Uncounted' <= Uncounted
    <2>1. CASE Receive
      <3>1. mqtt = "idle" /\ Uncounted = CounterDelta(lastGood, machine.good)
        BY <2>1 DEF Receive, Uncounted
      <3>2. CounterDelta(machine.good, machine.good) = 0 /\ CounterDelta(lastGood, machine.good) \in Nat
        BY <1>3, Triangle
      <3>3. CASE mqtt' = "rules"
        <4>1. msg'.good = machine.good
          BY <2>1, <3>1, <3>3 DEF Receive, Reading
        <4>2. Uncounted' = CounterDelta(lastGood, machine.good) + CounterDelta(machine.good, machine.good)
          BY <1>1, <3>3, <4>1 DEF Uncounted, CounterDelta
        <4>3. QED
          BY <3>1, <3>2, <4>2
      <3>4. CASE mqtt' # "rules"
        <4>1. mqtt' = "idle"
          BY <2>1, <3>1, <3>4 DEF Receive
        <4>2. Uncounted' = CounterDelta(lastGood, machine.good)
          BY <1>1, <4>1 DEF Uncounted, CounterDelta
        <4>3. QED
          BY <3>1, <3>2, <4>2
      <3>5. QED
        BY <3>3, <3>4
    <2>2. CASE /\ mqtt \in {"rules", "state", "commit", "counters"}
               /\ mqtt' \in {"rules", "state", "commit", "counters"}
               /\ msg' = msg
      <3>1. Uncounted' = Uncounted
        BY <1>1, <2>2 DEF Uncounted, CounterDelta
      <3>2. QED
        BY <1>3, <3>1
    <2>3. CASE /\ mqtt \in {"rules", "state", "commit", "counters"}
               /\ mqtt' = "idle"
      <3>1. /\ Uncounted = CounterDelta(lastGood, msg.good) + CounterDelta(msg.good, machine.good)
            /\ Uncounted' = CounterDelta(lastGood, machine.good)
        BY <1>1, <2>3 DEF Uncounted, CounterDelta
      <3>2. msg.good \in Nat
        BY <1>3, <2>3
      <3>3. QED
        BY <1>3, <3>1, <3>2, Triangle
    <2>4. CASE /\ mqtt \notin {"rules", "state", "commit", "counters"}
               /\ mqtt' \notin {"rules", "state", "commit", "counters"}
      <3>1. Uncounted' = Uncounted
        BY <1>1, <2>4 DEF Uncounted, CounterDelta
      <3>2. QED
        BY <1>3, <3>1
    <2>5. CASE UNCHANGED <<mqtt, msg>>
      <3>1. Uncounted' = Uncounted
        BY <1>1, <2>5 DEF Uncounted, CounterDelta
      <3>2. QED
        BY <1>3, <3>1
    <2>6. MqttThread /\ ~HandleCounters /\ ~Receive =>
             \/ /\ mqtt \in {"rules", "state", "commit", "counters"}
                /\ mqtt' \in {"rules", "state", "commit", "counters"} /\ msg' = msg
             \/ mqtt \in {"rules", "state", "commit", "counters"} /\ mqtt' = "idle"
             \/ /\ mqtt \notin {"rules", "state", "commit", "counters"}
                /\ mqtt' \notin {"rules", "state", "commit", "counters"}
      BY DEF MqttThread, EvaluateRules, HandleStateChange, CommitEvent, BufferRows, FinishMessage, Abandon
    <2>7. FlushThread \/ RefreshThread => UNCHANGED <<mqtt, msg>>
      BY DEF FlushThread, FlushLock, FlushCopy, FlushClear, InsertTelemetry, InsertProduction,
             RefreshThread, RefreshMaps, RefreshRead, RefreshAssign
    <2>8. QED
      BY <2>1, <2>2, <2>3, <2>4, <2>5, <2>6, <2>7
  <1>5. Uncounted' - Uncounted <= machine'.made - machine.made
    BY <1>1, <1>3, <1>4
  <1>6. QED
    BY <1>1, <1>2, <1>3, <1>5, StillCovered

\* A new process has no reading to compare the next one with.
LEMMA RestartCovered ==
    ASSUME IInv, IInv', PartsCovered, Uncounted' \in Nat, machine'.made \in Nat, Kill \/ Interrupt
    PROVE  PartsCovered'
  <1>1. machine' = machine /\ lastGood' = NoCount /\ mqtt' = "idle" /\ deltas' = {} /\ copy' = NoCopy
    BY DEF Kill, Interrupt, Fresh
  <1>2. ToSet(production') \subseteq ToSet(production) \cup deltas
    <2>1. CASE Kill
      BY <2>1 DEF Kill, tables
    <2>2. CASE Interrupt
      <3>1. PICK saved \in {{}, deltas} : production' = production \o SetToSeq(saved)
        BY <2>2 DEF Interrupt
      <3>2. production \in Seq(Delta) /\ IsFiniteSet(saved) /\ saved \in SUBSET Delta
        BY FS_EmptySet DEF IInv, TypeOK, Finite
      <3>3. ToSet(production \o SetToSeq(saved)) = ToSet(production) \cup saved
        BY <3>2, SetAppended
      <3>4. QED
        BY <3>1, <3>3
    <2>3. QED
      BY <2>1, <2>2
  <1>3. AllDeltas' \subseteq AllDeltas
    BY <1>1, <1>2 DEF AllDeltas, NoCopy
  <1>4. Uncounted \in Nat /\ machine.made \in Nat /\ machine.good \in Nat
    BY UncountedTyped
  <1>5. Uncounted' = 0
    <2>1. Uncounted' = CounterDelta(NoCount, machine.good)
      BY <1>1 DEF Uncounted, CounterDelta
    <2>2. QED
      BY <1>4, <2>1, Triangle
  <1>6. Uncounted' - Uncounted <= machine'.made - machine.made
    BY <1>1, <1>4, <1>5
  <1>7. QED
    BY <1>1, <1>3, <1>4, <1>5, <1>6, StillCovered

LEMMA PartsInit == Init => PartsCovered
  <1> SUFFICES ASSUME Init PROVE PartsCovered
    OBVIOUS
  <1>1. IInv
    BY InitHolds
  <1>2. AllDeltas = {} /\ Uncounted = 0 /\ machine.made = 0
    BY DEF Init, NoCopy, AllDeltas, ToSet, Uncounted, CounterDelta
  <1>3. Summed(PartsOf, {})
    BY FS_EmptySet DEF Summed
  <1>4. Counted({}) = 0
    BY <1>3, FS_EmptySet, CountedIsSum, SumStep
  <1>5. QED
    BY <1>2, <1>4 DEF PartsCovered

LEMMA PartsKept ==
    ASSUME IInv, [Next]_vars, PartsCovered
    PROVE  PartsCovered'
  <1>1. IInv'
    BY NextKeeps
  <1>2. machine'.made \in Nat /\ machine'.good \in Nat /\ lastGood' \in Nat \cup {NoCount}
    BY <1>1, IngestAssumption DEF IInv, TypeOK, NoCount
  <1>3. mqtt' # "idle" => msg'.good \in Nat
    BY <1>1, IngestAssumption DEF IInv, MsgHeld
  <1>4. Uncounted' \in Nat
    <2>1. CASE mqtt' \in {"rules", "state", "commit", "counters"}
      <3>1. Uncounted' = CounterDelta(lastGood', msg'.good) + CounterDelta(msg'.good, machine'.good)
        BY <2>1 DEF Uncounted, CounterDelta
      <3>2. CounterDelta(lastGood', msg'.good) \in Nat /\ CounterDelta(msg'.good, machine'.good) \in Nat
        BY <1>2, <1>3, <2>1, Triangle
      <3>3. QED
        BY <3>1, <3>2
    <2>2. CASE mqtt' \notin {"rules", "state", "commit", "counters"}
      <3>1. Uncounted' = CounterDelta(lastGood', machine'.good)
        BY <2>2 DEF Uncounted, CounterDelta
      <3>2. QED
        BY <1>2, <3>1, Triangle
    <2>3. QED
      BY <2>1, <2>2
  <1>5. CASE UNCHANGED vars
    BY <1>5 DEF vars, process, tables, PartsCovered, AllDeltas, Uncounted, CounterDelta, Counted,
                MapThenSumSet, MapThenFoldSet
  <1>6. CASE Next
    BY <1>1, <1>2, <1>4, <1>6, MachineCovered, CountingCovered, ThreadsCovered, RestartCovered
       DEF Next, Machine, MqttThread
  <1>7. QED
    BY <1>5, <1>6

\* _counter_delta never counts a part twice: across counter resets, restarts
\* of either program, first readings and readings given up half way, the
\* deltas of the production table and those on their way to it add up to no
\* more than the parts made.
THEOREM NoneOvercounted == Spec => []NeverOvercounts
  <1>1. IInv /\ PartsCovered => NeverOvercounts
    <2> SUFFICES ASSUME IInv, PartsCovered PROVE NeverOvercounts
      OBVIOUS
    <2>1. Counted(AllDeltas) \in Nat /\ Uncounted \in Nat /\ machine.made \in Nat
      BY AllDeltasFinite, CountedIsSum, UncountedTyped
    <2>2. Counted(AllDeltas) <= machine.made
      <3> HIDE DEF Counted, AllDeltas, Uncounted
      <3>1. QED
        BY <2>1 DEF PartsCovered
    <2>3. QED
      BY <2>2 DEF NeverOvercounts, AllDeltas
  <1>2. QED
    BY <1>1, IngestInvariant, PartsInit, PartsKept, PTL DEF Spec
=============================================================================
