--------------------------- MODULE BackgroundProofs ---------------------------
(***************************************************************************)
(* What has work to finish, for any number of workers, clients, versions,  *)
(* requests, deaths and time-outs: alarms and the overlapping requests     *)
(* about them, the jobs of a model's versions, inference, explanations     *)
(* and their narration, and the scheduled reports.                         *)
(***************************************************************************)
EXTENDS BackgroundWork, DataLemmas, FiniteSetTheorems, SequenceTheorems, TLAPS

-----------------------------------------------------------------------------
(* Alarms: those of one rule and asset, for any number of workers and      *)
(* requests.                                                               *)

\* Only the consumer makes an alarm active, and it is past its check only
\* while there is none.
RaisesAlone == consumer = "raise" => \A i \in DOMAIN alarms : alarms[i].status # "active"

\* OneActiveAlarm without counting.
ActiveUnique ==
    \A i, j \in DOMAIN alarms : alarms[i].status = "active" /\ alarms[j].status = "active" => i = j

\* An alarm that was acknowledged is not active.
AnsweredNotActive == \A i \in DOMAIN alarms : alarms[i].acknowledged_at => alarms[i].status # "active"

\* A request that acknowledges has read an active alarm, so what it writes
\* differs from what it read and is written.
AckReadActive == \A r \in AlarmWorkers : handling[r].action = "ack" => handling[r].seen.status = "active"

\* A worker that is not idle was asked for something.
Asked == \A r \in AlarmWorkers : handling[r] # NoHandling => handling[r].action # "none"

AlarmInv == AlarmTypeOK /\ RaisesAlone /\ ActiveUnique /\ AnsweredNotActive /\ AckReadActive /\ Asked

-----------------------------------------------------------------------------
\* Inserting a row keeps the others.
LEMMA InsertedLast ==
    ASSUME AlarmTypeOK, alarms' = Append(alarms, NewAlarm)
    PROVE  /\ alarms' \in Seq(Row) /\ Len(alarms') = Len(alarms) + 1
           /\ DOMAIN alarms' = DOMAIN alarms \cup {Len(alarms) + 1}
           /\ \A i \in DOMAIN alarms : alarms'[i] = alarms[i]
           /\ alarms'[Len(alarms) + 1] = NewAlarm
  <1>1. alarms \in Seq(Row) /\ NewAlarm \in Row
    BY DEF AlarmTypeOK, NewAlarm, Row
  <1>2. /\ alarms' \in Seq(Row) /\ Len(alarms') = Len(alarms) + 1
        /\ \A i \in 1..Len(alarms) : alarms'[i] = alarms[i]
        /\ alarms'[Len(alarms) + 1] = NewAlarm
    BY <1>1, AppendProperties
  <1>3. /\ DOMAIN alarms = 1..Len(alarms) /\ DOMAIN alarms' = 1..Len(alarms')
        /\ Len(alarms) \in Nat
    BY <1>1, <1>2, LenProperties
  <1>4. QED
    BY <1>2, <1>3

\* Rows are rewritten in place.
LEMMA Rewritten ==
    ASSUME AlarmTypeOK, alarms' \in [DOMAIN alarms -> Row]
    PROVE  alarms' \in Seq(Row) /\ Len(alarms') = Len(alarms) /\ DOMAIN alarms' = DOMAIN alarms
  <1>1. DOMAIN alarms = 1..Len(alarms) /\ Len(alarms) \in Nat
    BY LenProperties DEF AlarmTypeOK
  <1>2. alarms' \in [1..Len(alarms) -> Row]
    BY <1>1
  <1>3. alarms' \in Seq(Row)
    BY <1>1, <1>2, SeqDef
  <1>4. QED
    BY <1>1, <1>2, <1>3, LenProperties

LEMMA RowTyped == ASSUME AlarmTypeOK, NEW i \in DOMAIN alarms PROVE alarms[i] \in Row
  BY ElementOfSeq, LenProperties DEF AlarmTypeOK

\* What a commit writes is a row, active only if it was.
LEMMA WrittenRow ==
    ASSUME NEW row \in Row, NEW q, q.action \in Actions, q.seen \in Row,
           q.action = "ack" => q.seen.status = "active"
    PROVE  /\ Written(row, q) \in Row
           /\ Written(row, q).status = "active" => row.status = "active" /\ q.action # "ack"
           /\ Written(row, q).acknowledged_at => row.acknowledged_at \/ q.action = "ack"
           /\ row.status = "shelved" /\ Written(row, q).status # "shelved" => q.action = "ack"
  <1>1. CASE q.action = "ack"
    BY <1>1 DEF Written, RowAfter, StatusAfter, Row, Actions
  <1>2. CASE q.action = "assign"
    BY <1>2 DEF Written, RowAfter, StatusAfter, Row, Actions
  <1>3. CASE q.action = "shelve"
    BY <1>3 DEF Written, RowAfter, StatusAfter, Row, Actions
  <1>4. QED
    BY <1>1, <1>2, <1>3 DEF Actions

\* The commit of a request changes one row.
LEMMA CommitChangesOne ==
    ASSUME AlarmInv, NEW r \in AlarmWorkers, CommitAction(r)
    PROVE  /\ alarms' \in Seq(Row) /\ Len(alarms') = Len(alarms) /\ DOMAIN alarms' = DOMAIN alarms
           /\ \A i \in DOMAIN alarms :
                \/ alarms'[i] = alarms[i]
                \/ i = handling[r].alarm /\ alarms'[i] = Written(alarms[i], handling[r])
           /\ \A i \in DOMAIN alarms :
                /\ alarms'[i].status = "active" => alarms[i].status = "active"
                /\ alarms'[i].status = "active" /\ alarms'[i].acknowledged_at => alarms[i].acknowledged_at
                /\ alarms[i].status = "shelved" /\ alarms'[i].status # "shelved"
                   => i = handling[r].alarm /\ handling[r].action = "ack"
  <1> DEFINE q == handling[r]
             i0 == handling[r].alarm
  <1>0. AlarmTypeOK /\ AckReadActive /\ Asked /\ AnsweredNotActive
    BY DEF AlarmInv
  <1>1. q.action \in Actions /\ q.seen \in Row
    BY <1>0 DEF AlarmTypeOK, CommitAction, Asked
  <1>2. q.action = "ack" => q.seen.status = "active"
    BY <1>0 DEF AckReadActive
  <1>3. alarms' = [alarms EXCEPT ![i0] = Written(alarms[i0], q)]
    BY DEF CommitAction
  <1>4. \A i \in DOMAIN alarms : alarms[i] \in Row
    BY <1>0, RowTyped
  <1>5. ASSUME NEW i \in DOMAIN alarms
        PROVE  /\ alarms'[i] \in Row
               /\ alarms'[i] = alarms[i] \/ (i = i0 /\ alarms'[i] = Written(alarms[i], q))
               /\ alarms'[i].status = "active" => alarms[i].status = "active"
               /\ alarms'[i].status = "active" /\ alarms'[i].acknowledged_at => alarms[i].acknowledged_at
               /\ alarms[i].status = "shelved" /\ alarms'[i].status # "shelved"
                  => i = i0 /\ q.action = "ack"
    <2>1. CASE i = i0
      <3>1. alarms'[i] = Written(alarms[i], q)
        BY <1>3, <2>1
      <3>2. QED
        BY <1>1, <1>2, <1>4, <2>1, <3>1, WrittenRow
    <2>2. CASE i # i0
      <3>1. alarms'[i] = alarms[i]
        BY <1>3, <2>2
      <3>2. QED
        BY <1>4, <3>1
    <2>3. QED
      BY <2>1, <2>2
  <1>6. alarms' \in [DOMAIN alarms -> Row]
    BY <1>3, <1>5
  <1>7. QED
    BY <1>0, <1>5, <1>6, Rewritten

\* Acknowledging in bulk changes active rows only.
LEMMA BulkChangesActive ==
    ASSUME AlarmInv, BulkAck
    PROVE  /\ alarms' \in Seq(Row) /\ Len(alarms') = Len(alarms) /\ DOMAIN alarms' = DOMAIN alarms
           /\ \A i \in DOMAIN alarms :
                \/ alarms'[i] = alarms[i]
                \/ alarms[i].status = "active" /\ alarms'[i].status = "acknowledged"
  <1>0. AlarmTypeOK
    BY DEF AlarmInv
  <1>1. PICK ids \in SUBSET DOMAIN alarms :
          alarms' = [i \in DOMAIN alarms |->
             IF i \in ids /\ alarms[i].status = "active"
             THEN [alarms[i] EXCEPT !.status = "acknowledged", !.acknowledged_at = TRUE]
             ELSE alarms[i]]
    BY DEF BulkAck
  <1>2. ASSUME NEW i \in DOMAIN alarms
        PROVE  /\ alarms'[i] \in Row
               /\ \/ alarms'[i] = alarms[i]
                  \/ alarms[i].status = "active" /\ alarms'[i].status = "acknowledged"
    <2>1. alarms[i] \in Row
      BY <1>0, RowTyped
    <2>2. [alarms[i] EXCEPT !.status = "acknowledged", !.acknowledged_at = TRUE] \in Row
      BY <2>1 DEF Row
    <2>3. [alarms[i] EXCEPT !.status = "acknowledged", !.acknowledged_at = TRUE].status = "acknowledged"
      BY <2>1 DEF Row
    <2>4. QED
      BY <1>1, <2>1, <2>2, <2>3
  <1>3. alarms' \in [DOMAIN alarms -> Row]
    BY <1>1, <1>2
  <1>4. QED
    BY <1>0, <1>2, <1>3, Rewritten

\* A request that reads keeps the table and takes on what it may do.
LEMMA ReadTakes ==
    ASSUME AlarmInv, NEW r \in AlarmWorkers, ReadAlarm(r)
    PROVE  /\ handling' \in [AlarmWorkers ->
                 [action : Actions \cup {"none"}, alarm : 0..Len(alarms), seen : Row]]
           /\ asked' \in 0..MaxRequests
           /\ AckReadActive' /\ Asked'
  <1>0. AlarmTypeOK /\ AckReadActive /\ Asked
    BY DEF AlarmInv
  <1>1. PICK i \in DOMAIN alarms, a \in Actions :
          /\ Accepted(a, alarms[i])
          /\ handling' = [handling EXCEPT ![r] = [action |-> a, alarm |-> i, seen |-> alarms[i]]]
    BY DEF ReadAlarm
  <1>2. alarms[i] \in Row /\ i \in 0..Len(alarms)
    BY <1>0, RowTyped, LenProperties DEF AlarmTypeOK
  <1>3. asked' \in 0..MaxRequests
    BY <1>0, AlarmAssumption DEF ReadAlarm, AlarmTypeOK
  <1>4. a # "none"
    BY DEF Actions
  <1>5. handling' \in [AlarmWorkers ->
                 [action : Actions \cup {"none"}, alarm : 0..Len(alarms), seen : Row]]
    BY <1>0, <1>1, <1>2 DEF AlarmTypeOK
  <1>6. handling'[r] = [action |-> a, alarm |-> i, seen |-> alarms[i]]
        /\ \A q \in AlarmWorkers \ {r} : handling'[q] = handling[q]
    BY <1>0, <1>1 DEF AlarmTypeOK
  <1>7. AckReadActive'
    BY <1>0, <1>1, <1>6 DEF AckReadActive, Accepted
  <1>8. Asked'
    BY <1>0, <1>4, <1>6 DEF Asked
  <1>9. QED
    BY <1>3, <1>5, <1>7, <1>8

-----------------------------------------------------------------------------
\* The invariant holds at first and no step of the consumer or of a request
\* breaks it.
LEMMA AlarmInvHolds == AlarmInit => AlarmInv
  <1> SUFFICES ASSUME AlarmInit PROVE AlarmInv
    OBVIOUS
  <1>1. alarms = <<>> /\ alarms \in Seq(Row) /\ DOMAIN alarms = {} /\ Len(alarms) = 0
    BY EmptySeq DEF AlarmInit
  <1>2. NoHandling \in [action : Actions \cup {"none"}, alarm : 0..Len(alarms), seen : Row]
    BY <1>1 DEF NoHandling, Row
  <1>3. AlarmTypeOK
    BY <1>1, <1>2, AlarmAssumption DEF AlarmInit, AlarmTypeOK
  <1>4. AckReadActive /\ Asked
    BY DEF AlarmInit, AckReadActive, Asked, NoHandling
  <1>5. QED
    BY <1>1, <1>3, <1>4 DEF AlarmInv, RaisesAlone, ActiveUnique, AnsweredNotActive

LEMMA AlarmInvKept == AlarmInv /\ [AlarmNext]_alarmVars => AlarmInv'
  <1> SUFFICES ASSUME AlarmInv, [AlarmNext]_alarmVars PROVE AlarmInv'
    OBVIOUS
  <1>0. /\ AlarmTypeOK /\ RaisesAlone /\ ActiveUnique /\ AnsweredNotActive /\ AckReadActive /\ Asked
        /\ NoHandling \in [action : Actions \cup {"none"}, alarm : 0..Len(alarms), seen : Row]
        /\ Len(alarms) \in Nat
    BY LenProperties DEF AlarmInv, AlarmTypeOK, NoHandling, Row
  <1>1. CASE ValueChanges \/ Evaluate \/ UNCHANGED alarmVars
    BY <1>0, <1>1 DEF ValueChanges, Evaluate, alarmVars, AlarmInv, AlarmTypeOK, RaisesAlone, ActiveUnique,
       AnsweredNotActive, AckReadActive, Asked
  <1>2. CASE Dedupe
    <2>1. RaisesAlone'
      BY <1>2 DEF Dedupe, RaisesAlone, Open
    <2>2. QED
      BY <1>0, <1>2, <2>1 DEF Dedupe, AlarmInv, AlarmTypeOK, ActiveUnique, AnsweredNotActive, AckReadActive, Asked
  <1>3. CASE RaiseAlarm
    <2>1. CASE alarms' = Append(alarms, NewAlarm) /\ UNCHANGED failed
      <3>1. /\ alarms' \in Seq(Row) /\ Len(alarms') = Len(alarms) + 1
            /\ DOMAIN alarms' = DOMAIN alarms \cup {Len(alarms) + 1}
            /\ \A i \in DOMAIN alarms : alarms'[i] = alarms[i]
            /\ alarms'[Len(alarms) + 1] = NewAlarm
        BY <1>0, <2>1, InsertedLast
      <3>2. AlarmTypeOK'
        <4>1. 0..Len(alarms) \subseteq 0..Len(alarms')
          BY <1>0, <3>1
        <4>2. handling' \in [AlarmWorkers ->
                 [action : Actions \cup {"none"}, alarm : 0..Len(alarms'), seen : Row]]
          BY <1>0, <1>3, <4>1 DEF RaiseAlarm, AlarmTypeOK
        <4>3. QED
          BY <1>0, <1>3, <2>1, <3>1, <4>2 DEF RaiseAlarm, AlarmTypeOK
      <3>3. ActiveUnique'
        BY <1>0, <1>3, <3>1 DEF RaiseAlarm, RaisesAlone, ActiveUnique
      <3>4. AnsweredNotActive'
        BY <1>0, <3>1 DEF AnsweredNotActive, NewAlarm
      <3>5. QED
        BY <1>0, <1>3, <3>2, <3>3, <3>4 DEF AlarmInv, RaiseAlarm, RaisesAlone, AckReadActive, Asked
    <2>2. CASE failed < MaxFailures /\ failed' = failed + 1 /\ UNCHANGED alarms
      <3>1. failed' \in 0..MaxFailures
        BY <1>0, <2>2, AlarmAssumption DEF AlarmTypeOK
      <3>2. QED
        BY <1>0, <1>3, <2>2, <3>1 DEF RaiseAlarm, AlarmInv, AlarmTypeOK, RaisesAlone, ActiveUnique,
           AnsweredNotActive, AckReadActive, Asked
    <2>3. QED
      BY <1>3, <2>1, <2>2 DEF RaiseAlarm
  <1>4. ASSUME NEW r \in AlarmWorkers, ReadAlarm(r) PROVE AlarmInv'
    BY <1>0, <1>4, ReadTakes DEF ReadAlarm, AlarmInv, AlarmTypeOK, RaisesAlone, ActiveUnique, AnsweredNotActive
  <1>5. ASSUME NEW r \in AlarmWorkers, CommitAction(r) PROVE AlarmInv'
    <2>1. /\ alarms' \in Seq(Row) /\ Len(alarms') = Len(alarms) /\ DOMAIN alarms' = DOMAIN alarms
          /\ \A i \in DOMAIN alarms :
               /\ alarms'[i].status = "active" => alarms[i].status = "active"
               /\ alarms'[i].status = "active" /\ alarms'[i].acknowledged_at => alarms[i].acknowledged_at
      BY <1>5, CommitChangesOne
    <2>2. handling'[r] = NoHandling /\ \A q \in AlarmWorkers \ {r} : handling'[q] = handling[q]
      BY <1>0, <1>5 DEF CommitAction, AlarmTypeOK
    <2>3. AlarmTypeOK'
      BY <1>0, <1>5, <2>1 DEF CommitAction, AlarmTypeOK
    <2>4. AckReadActive' /\ Asked'
      BY <1>0, <2>2 DEF AckReadActive, Asked, NoHandling
    <2>5. QED
      BY <1>0, <1>5, <2>1, <2>3, <2>4 DEF CommitAction, AlarmInv, RaisesAlone, ActiveUnique, AnsweredNotActive
  <1>6. CASE BulkAck
    <2>1. /\ alarms' \in Seq(Row) /\ Len(alarms') = Len(alarms) /\ DOMAIN alarms' = DOMAIN alarms
          /\ \A i \in DOMAIN alarms :
               \/ alarms'[i] = alarms[i]
               \/ alarms[i].status = "active" /\ alarms'[i].status = "acknowledged"
      BY <1>6, BulkChangesActive
    <2>2. asked' \in 0..MaxRequests
      <3>1. asked < MaxRequests /\ asked' = asked + 1
        BY <1>6 DEF BulkAck
      <3>2. asked \in 0..MaxRequests /\ MaxRequests \in Nat
        BY <1>0, AlarmAssumption DEF AlarmTypeOK
      <3>3. QED
        BY <3>1, <3>2
    <2>3. AlarmTypeOK'
      BY <1>0, <1>6, <2>1, <2>2 DEF BulkAck, AlarmTypeOK
    <2>4. consumer' = consumer /\ handling' = handling
      BY <1>6 DEF BulkAck
    <2>5. AckReadActive' /\ Asked'
      BY <1>0, <2>4 DEF AckReadActive, Asked
    <2>6. RaisesAlone' /\ ActiveUnique'
      BY <1>0, <2>1, <2>4 DEF RaisesAlone, ActiveUnique
    <2>7. AnsweredNotActive'
      BY <1>0, <2>1 DEF AnsweredNotActive
    <2>8. QED
      BY <2>3, <2>5, <2>6, <2>7 DEF AlarmInv
  <1>7. QED
    BY <1>1, <1>2, <1>3, <1>4, <1>5, <1>6 DEF AlarmNext, Consumer

\* Every step of the consumer, of a request and of the requests' commits keeps
\* the invariant of the alarms (AlarmEngine, TelemetryService).
THEOREM AlarmInductive == AlarmSpec => []AlarmInv
  <1>1. QED
    BY AlarmInvHolds, AlarmInvKept, PTL DEF AlarmSpec

\* The rows and the requests keep their types.
THEOREM AlarmTypeCorrect == AlarmSpec => []AlarmTypeOK
  <1>1. AlarmInv => AlarmTypeOK
    BY DEF AlarmInv
  <1>2. QED
    BY <1>1, AlarmInductive, PTL

\* Two active alarms never stand for one rule and asset: the consumer's check
\* and insert are two statements, but only it makes an alarm active.
THEOREM OneActive == AlarmSpec => []OneActiveAlarm
  <1>1. AlarmInv => OneActiveAlarm
    <2> SUFFICES ASSUME AlarmInv PROVE OneActiveAlarm
      OBVIOUS
    <2> DEFINE A == {i \in DOMAIN alarms : alarms[i].status = "active"}
    <2>1. CASE A = {}
      BY <2>1, FS_EmptySet DEF OneActiveAlarm
    <2>2. CASE A # {}
      <3>1. PICK i : A = {i}
        BY <2>2 DEF AlarmInv, ActiveUnique
      <3>2. Cardinality(A) = 1
        BY <3>1, FS_Singleton
      <3>3. QED
        BY <3>2 DEF OneActiveAlarm
    <2>3. QED
      BY <2>1, <2>2
  <1>2. QED
    BY <1>1, AlarmInductive, PTL

\* What an operator has answered is not presented as active again.
THEOREM Answered == AlarmSpec => AnsweredForGood
  <1>1. AlarmInv /\ [AlarmNext]_alarmVars
        => \A i \in DOMAIN alarms : alarms[i].acknowledged_at => alarms'[i].status # "active"
    <2> SUFFICES ASSUME AlarmInv, [AlarmNext]_alarmVars, NEW i \in DOMAIN alarms, alarms[i].acknowledged_at
                 PROVE  alarms'[i].status # "active"
      OBVIOUS
    <2>0. alarms[i].status # "active" /\ AlarmTypeOK
      BY DEF AlarmInv, AnsweredNotActive
    <2>1. CASE RaiseAlarm
      BY <2>0, <2>1, InsertedLast DEF RaiseAlarm
    <2>2. ASSUME NEW r \in AlarmWorkers, CommitAction(r) PROVE alarms'[i].status # "active"
      BY <2>0, <2>2, CommitChangesOne
    <2>3. CASE BulkAck
      BY <2>0, <2>3, BulkChangesActive
    <2>4. CASE UNCHANGED alarms
      BY <2>0, <2>4
    <2>5. QED
      BY <2>1, <2>2, <2>3, <2>4 DEF AlarmNext, Consumer, ValueChanges, Evaluate, Dedupe, ReadAlarm, alarmVars
  <1>2. QED
    BY <1>1, AlarmInductive, PTL DEF AlarmSpec, AnsweredForGood

\* A shelved alarm leaves the shelf only by an acknowledgement under way.
THEOREM Shelved == AlarmSpec => ShelvedStays
  <1> DEFINE Off(i) == alarms[i].status = "shelved" /\ alarms'[i].status # "shelved"
             Acked(i) == \E r \in AlarmWorkers :
                           handling[r].alarm = i /\ handling[r].action = "ack" /\ handling'[r] = NoHandling
  <1>1. AlarmInv /\ [AlarmNext]_alarmVars => \A i \in DOMAIN alarms : Off(i) => Acked(i)
    <2> SUFFICES ASSUME AlarmInv, [AlarmNext]_alarmVars, NEW i \in DOMAIN alarms, Off(i)
                 PROVE  Acked(i)
      OBVIOUS
    <2>0. AlarmTypeOK
      BY DEF AlarmInv
    <2>1. CASE RaiseAlarm
      BY <2>0, <2>1, InsertedLast DEF RaiseAlarm
    <2>2. ASSUME NEW r \in AlarmWorkers, CommitAction(r) PROVE Acked(i)
      <3>1. i = handling[r].alarm /\ handling[r].action = "ack"
        BY <2>2, CommitChangesOne
      <3>2. handling'[r] = NoHandling
        BY <2>0, <2>2 DEF CommitAction, AlarmTypeOK
      <3>3. QED
        BY <3>1, <3>2
    <2>3. CASE BulkAck
      BY <2>3, BulkChangesActive
    <2>4. CASE UNCHANGED alarms
      BY <2>4
    <2>5. QED
      BY <2>1, <2>2, <2>3, <2>4 DEF AlarmNext, Consumer, ValueChanges, Evaluate, Dedupe, ReadAlarm, alarmVars
  <1>2. QED
    BY <1>1, AlarmInductive, PTL DEF AlarmSpec, ShelvedStays

-----------------------------------------------------------------------------
(* The jobs about models. *)

Computation == [pc : {"idle", "computing", "deleting", "deleted"}, id : 0..computed,
                doomed : SUBSET (1..computed)]

\* A computation that has begun has a number, and none greater is stored.
InsightsTyped ==
    /\ insight \in [InsightWorkers -> Computation]
    /\ \A w \in InsightWorkers : insight[w].pc # "idle" => insight[w].id # 0

JobInv == JobTypeOK /\ InsightsTyped /\ InsightsThere

LEMMA NoInsightTyped == computed \in Nat => NoInsight \in Computation
  <1> SUFFICES ASSUME computed \in Nat PROVE NoInsight \in Computation
    OBVIOUS
  <1>1. 0 \in 0..computed /\ {} \in SUBSET (1..computed)
    OBVIOUS
  <1>2. QED
    BY <1>1 DEF NoInsight, Computation

LEMMA JobInvHolds == JobInit => JobInv
  <1> SUFFICES ASSUME JobInit PROVE JobInv
    OBVIOUS
  <1>1. computed = 0 /\ NoInsight \in Computation
    BY NoInsightTyped DEF JobInit
  <1>2. InsightsTyped
    BY <1>1 DEF JobInit, InsightsTyped, NoInsight
  <1>3. JobTypeOK
    <2>1. \A w \in InsightWorkers : insight[w] \in Computation
      BY <1>2 DEF InsightsTyped
    <2>2. \A w \in InsightWorkers :
            /\ insight[w].pc \in {"idle", "computing", "deleting", "deleted"}
            /\ insight[w].id \in 0..computed /\ insight[w].doomed \subseteq 1..computed
      BY <2>1 DEF Computation
    <2>3. bench \in [status : {"none", "running", "done", "failed"}, request : {"idle", "enqueue", "raised", "gone"},
                     queued : BOOLEAN, worker : {"idle", "running", "lost", "raised"}]
      BY DEF JobInit
    <2>4. computed \in 0..MaxInsights
      BY <1>1, JobAssumption
    <2>5. metrics \subseteq 1..computed /\ published \in BOOLEAN
      BY DEF JobInit
    <2>6. QED
      BY <2>2, <2>3, <2>4, <2>5 DEF JobTypeOK
  <1>4. QED
    BY <1>2, <1>3 DEF JobInit, JobInv, InsightsThere

\* A step of one computation keeps the others.
LEMMA InsightStep ==
    ASSUME JobInv, NEW w \in InsightWorkers, NEW v \in Computation, v.pc # "idle" => v.id # 0,
           insight' = [insight EXCEPT ![w] = v], UNCHANGED <<bench, computed>>,
           metrics' \subseteq 1..computed, published' \in BOOLEAN, InsightsThere'
    PROVE  JobInv'
  <1>1. InsightsTyped'
    BY DEF JobInv, InsightsTyped, Computation
  <1>2. JobTypeOK'
    BY <1>1 DEF JobInv, JobTypeOK, InsightsTyped, Computation
  <1>3. QED
    BY <1>1, <1>2 DEF JobInv

LEMMA JobInvKept == JobInv /\ [JobNext]_jobVars => JobInv'
  <1> SUFFICES ASSUME JobInv, [JobNext]_jobVars PROVE JobInv'
    OBVIOUS
  <1> USE DEF InsightsThere
  <1>0. /\ JobTypeOK /\ InsightsTyped /\ InsightsThere
        /\ computed \in Nat /\ metrics \subseteq 1..computed /\ published \in BOOLEAN
    BY JobAssumption DEF JobInv, JobTypeOK
  <1>1. CASE UNCHANGED jobVars
    BY <1>0, <1>1 DEF jobVars, JobInv, JobTypeOK, InsightsTyped, Computation
  <1>2. CASE StartBenchmark \/ BenchmarkSteps \/ RequestDies \/ WorkerLost
    <2>1. bench' \in [status : {"none", "running", "done", "failed"}, request : {"idle", "enqueue", "raised", "gone"},
                      queued : BOOLEAN, worker : {"idle", "running", "lost", "raised"}]
      BY <1>0, <1>2 DEF JobTypeOK, StartBenchmark, BenchmarkSteps, RequestDies, WorkerLost, Enqueue, EnqueueFailed,
         TakeBenchmark, FinishBenchmark
    <2>2. UNCHANGED <<metrics, insight, computed, published>>
      BY <1>2 DEF StartBenchmark, BenchmarkSteps, RequestDies, WorkerLost, Enqueue, EnqueueFailed, TakeBenchmark,
         FinishBenchmark
    <2>3. QED
      BY <1>0, <2>1, <2>2 DEF JobInv, JobTypeOK, InsightsTyped, Computation
  <1>3. ASSUME NEW w \in InsightWorkers, ComputeInsights(w) PROVE JobInv'
    <2>1. /\ computed' = computed + 1 /\ computed' \in 0..MaxInsights
          /\ Computation \subseteq Computation'
          /\ UNCHANGED <<bench, metrics, published>>
      BY <1>0, <1>3, JobAssumption DEF ComputeInsights, JobTypeOK, Computation
    <2>2. insight' = [insight EXCEPT ![w] = [pc |-> "computing", id |-> computed', doomed |-> {}]]
      BY <1>3 DEF ComputeInsights
    <2>3. [pc |-> "computing", id |-> computed', doomed |-> {}] \in Computation'
      BY <1>0, <2>1 DEF Computation
    <2>5. InsightsTyped'
      BY <1>0, <2>1, <2>2, <2>3 DEF InsightsTyped
    <2>6. JobTypeOK'
      BY <1>0, <2>1, <2>5 DEF JobTypeOK, InsightsTyped, Computation
    <2>7. QED
      BY <1>0, <2>1, <2>5, <2>6 DEF JobInv
  <1>4. ASSUME NEW w \in InsightWorkers, FindOldMetrics(w) PROVE JobInv'
    <2>1. [insight[w] EXCEPT !.pc = "deleting", !.doomed = metrics] \in Computation
          /\ [insight[w] EXCEPT !.pc = "deleting", !.doomed = metrics].id # 0
      BY <1>0, <1>4 DEF FindOldMetrics, InsightsTyped, Computation
    <2>2. insight' = [insight EXCEPT ![w] = [insight[w] EXCEPT !.pc = "deleting", !.doomed = metrics]]
      BY <1>0, <1>4 DEF FindOldMetrics, InsightsTyped
    <2>3. QED
      BY <1>0, <1>4, <2>1, <2>2, InsightStep DEF FindOldMetrics
  <1>5. ASSUME NEW w \in InsightWorkers, DeleteOldMetrics(w) PROVE JobInv'
    <2>1. [insight[w] EXCEPT !.pc = "deleted"] \in Computation /\ [insight[w] EXCEPT !.pc = "deleted"].id # 0
      BY <1>0, <1>5 DEF DeleteOldMetrics, InsightsTyped, Computation
    <2>2. insight' = [insight EXCEPT ![w] = [insight[w] EXCEPT !.pc = "deleted"]]
      BY <1>0, <1>5 DEF DeleteOldMetrics, InsightsTyped
    <2>3. QED
      BY <1>0, <1>5, <2>1, <2>2, InsightStep DEF DeleteOldMetrics
  <1>6. ASSUME NEW w \in InsightWorkers, CommitInsights(w) PROVE JobInv'
    <2>1. insight[w].id \in 1..computed
      BY <1>0, <1>6 DEF CommitInsights, InsightsTyped, Computation
    <2>2. metrics' \subseteq 1..computed /\ metrics' # {} /\ published' = TRUE
      BY <1>0, <1>6, <2>1 DEF CommitInsights
    <2>3. QED
      <3>1. /\ NoInsight \in Computation /\ NoInsight.pc = "idle" /\ InsightsThere'
            /\ insight' = [insight EXCEPT ![w] = NoInsight] /\ UNCHANGED <<bench, computed>>
        BY <1>0, <1>6, <2>2, NoInsightTyped DEF CommitInsights, NoInsight
      <3>2. QED
        BY <1>0, <2>2, <3>1, InsightStep
  <1>7. ASSUME NEW w \in InsightWorkers, InsightsFail(w) PROVE JobInv'
    <2>1. /\ NoInsight \in Computation /\ NoInsight.pc = "idle"
          /\ insight' = [insight EXCEPT ![w] = NoInsight] /\ UNCHANGED <<bench, metrics, computed, published>>
      BY <1>0, <1>7, NoInsightTyped DEF InsightsFail, NoInsight
    <2>2. QED
      BY <1>0, <2>1, InsightStep
  <1>8. QED
    BY <1>1, <1>2, <1>3, <1>4, <1>5, <1>6, <1>7 DEF JobNext

-----------------------------------------------------------------------------
(* Predictions and who stored them. *)
LEMMA InferTypeHolds == InferInit => InferTypeOK
  <1>1. Never \in 0..Never
    BY InferAssumption DEF Never
  <1>2. QED
    BY <1>1 DEF InferInit, InferTypeOK

LEMMA InferTypeKept == InferTypeOK /\ [InferNext]_inferVars => InferTypeOK'
  <1> SUFFICES ASSUME InferTypeOK, [InferNext]_inferVars PROVE InferTypeOK'
    OBVIOUS
  <1> USE InferAssumption DEF InferTypeOK
  <1>1. CASE ClockTicks
    <2>1. edgeAge' \in 0..Never
      BY <1>1 DEF ClockTicks, Old, Never
    <2>2. QED
      BY <1>1, <2>1 DEF ClockTicks
  <1>5. CASE ReportingChanges \/ UNCHANGED inferVars
    BY <1>5 DEF ReportingChanges, inferVars
  <1>2. ASSUME NEW age \in 0..Old, EdgeStored(age) PROVE InferTypeOK'
    BY <1>2 DEF EdgeStored, Old, Never
  <1>3. ASSUME NEW reached \in BOOLEAN, EdgeShown(reached) PROVE InferTypeOK'
    BY <1>3 DEF EdgeShown
  <1>4. ASSUME NEW w \in Scorers, StartScoring(w) \/ StorePrediction(w) \/ PublishPrediction(w)
        PROVE  InferTypeOK'
    BY <1>4 DEF StartScoring, StorePrediction, PublishPrediction
  <1>6. QED
    BY <1>1, <1>2, <1>3, <1>4, <1>5 DEF InferNext

-----------------------------------------------------------------------------
(* Explanations and their narration. *)

\* Nobody else has a row uncommitted while one has, and what is uncommitted is
\* the first.
FlushedFirst ==
    /\ \A e, f \in Explainers : explainer[e] = "flushed" /\ explainer[f] = "flushed" => e = f
    /\ \A e \in Explainers : explainer[e] = "flushed" => explained = 0

NarratedFirst ==
    /\ \A n, m \in Narrators : narrator[n].pc = "flushed" /\ narrator[m].pc = "flushed" => n = m
    /\ \A n \in Narrators : narrator[n].pc = "flushed" =>
         narration = NoText /\ narrator[n].text \in {Template} \cup Faithful

\* Only a crash brings a job back.
JobsCounted == jobs <= 1 + crashes

ExplainInv == ExplainTypeOK /\ FlushedFirst /\ NarratedFirst /\ JobsCounted /\ ExplanationsAgree

JobVars == <<jobs, explainer, explained, lost, crashes>>
NarrationVars == <<narration, narrator>>

LEMMA ExplainInvHolds == ExplainInit => ExplainInv
  <1> SUFFICES ASSUME ExplainInit PROVE ExplainInv
    OBVIOUS
  <1>1. NoRequest \in [pc : {"idle", "composing", "flushed", "done"}, text : Texts \cup {NoText}]
    BY DEF NoRequest
  <1>2. jobs \in 0..(MaxCrashes + 1) /\ explained \in 0..2 /\ crashes \in 0..MaxCrashes
    BY ExplainAssumption DEF ExplainInit
  <1>3. ExplainTypeOK
    BY <1>1, <1>2 DEF ExplainInit, ExplainTypeOK
  <1>4. QED
    BY <1>3 DEF ExplainInit, ExplainInv, FlushedFirst, NarratedFirst, JobsCounted, ExplanationsAgree,
       ExplainedOnce, OneNarration, NoRequest

LEMMA OneMore == \A m, j \in Nat : \A c \in 0..m : j <= 1 + c => j \in 0..(m + 1)
  OBVIOUS

\* A step of the task moves one run; the narration rests.
LEMMA ExplainerStep ==
    ASSUME ExplainInv, NEW e \in Explainers, NEW to \in {"idle", "looked", "computing", "flushed", "ack"},
           explainer' = [explainer EXCEPT ![e] = to], UNCHANGED NarrationVars,
           explained' \in 0..1, lost' \in BOOLEAN, jobs' \in Nat, crashes' \in 0..MaxCrashes,
           jobs' <= 1 + crashes',
           explained' # explained => explainer[e] = "flushed",
           to = "flushed" => explained' = 0 /\ \A f \in Explainers \ {e} : explainer[f] # "flushed"
    PROVE  ExplainInv'
  <1>1. /\ explainer \in [Explainers -> {"idle", "looked", "computing", "flushed", "ack"}]
        /\ FlushedFirst /\ NarratedFirst /\ ExplanationsAgree
    BY DEF ExplainInv, ExplainTypeOK
  <1>2. explainer'[e] = to /\ \A f \in Explainers \ {e} : explainer'[f] = explainer[f]
    BY <1>1
  <1>3. FlushedFirst'
    BY <1>1, <1>2 DEF FlushedFirst
  <1>4. NarratedFirst' /\ OneNarration'
    BY <1>1 DEF NarrationVars, NarratedFirst, OneNarration, ExplanationsAgree
  <1>5. jobs' \in 0..(MaxCrashes + 1) /\ explained' \in 0..2 /\ explained' <= 1
    <2>1. MaxCrashes \in Nat /\ crashes' \in 0..MaxCrashes /\ jobs' \in Nat /\ jobs' <= 1 + crashes'
      BY ExplainAssumption
    <2>2. jobs' \in 0..(MaxCrashes + 1)
      BY <2>1, OneMore
    <2>3. explained' \in 0..2 /\ explained' <= 1
      OBVIOUS
    <2>4. QED
      BY <2>2, <2>3
  <1>6. ExplainTypeOK'
    BY <1>1, <1>2, <1>5 DEF ExplainInv, ExplainTypeOK, NarrationVars
  <1>7. QED
    BY <1>3, <1>4, <1>5, <1>6 DEF ExplainInv, JobsCounted, ExplanationsAgree, ExplainedOnce

\* A step of a request moves one narration; the task rests.
LEMMA NarratorStep ==
    ASSUME ExplainInv, NEW n \in Narrators, UNCHANGED JobVars,
           NEW to \in [pc : {"idle", "composing", "flushed", "done"}, text : Texts \cup {NoText}],
           narrator' = [narrator EXCEPT ![n] = to],
           narration' \in {NoText, Template} \cup Faithful,
           narration' # narration => narrator[n].pc = "flushed",
           to.pc = "done" => to.text \in {NoText, narration'},
           to.pc = "flushed" => /\ narration' = NoText /\ to.text \in {Template} \cup Faithful
                                /\ \A o \in Narrators \ {n} : narrator[o].pc # "flushed"
    PROVE  ExplainInv'
  <1>1. /\ narrator \in [Narrators -> [pc : {"idle", "composing", "flushed", "done"}, text : Texts \cup {NoText}]]
        /\ FlushedFirst /\ NarratedFirst /\ JobsCounted /\ ExplainedOnce /\ OneNarration
    BY DEF ExplainInv, ExplainTypeOK, ExplanationsAgree
  <1>2. narrator'[n] = to /\ \A o \in Narrators \ {n} : narrator'[o] = narrator[o]
    BY <1>1
  <1>3. NarratedFirst'
    BY <1>1, <1>2 DEF NarratedFirst
  <1>4. OneNarration'
    BY <1>1, <1>2 DEF NarratedFirst, OneNarration
  <1>5. FlushedFirst' /\ JobsCounted' /\ ExplainedOnce'
    BY <1>1 DEF JobVars, FlushedFirst, JobsCounted, ExplainedOnce
  <1>6. narration' \in Texts \cup {NoText}
    BY ExplainAssumption DEF Texts
  <1>7. ExplainTypeOK'
    BY <1>1, <1>2, <1>6 DEF ExplainInv, ExplainTypeOK, JobVars
  <1>8. QED
    BY <1>3, <1>4, <1>5, <1>7 DEF ExplainInv, ExplanationsAgree

\* What the audit lets through.
LEMMA FinalTextFaithful == \A text : FinalText(text) \in {Template} \cup Faithful
  BY DEF FinalText

LEMMA ExplainInvKept == ExplainInv /\ [ExplainNext]_explainVars => ExplainInv'
  <1> SUFFICES ASSUME ExplainInv, [ExplainNext]_explainVars PROVE ExplainInv'
    OBVIOUS
  <1>0. /\ ExplainTypeOK /\ FlushedFirst /\ NarratedFirst /\ JobsCounted /\ OneNarration
        /\ jobs \in Nat /\ explained \in 0..1 /\ crashes \in 0..MaxCrashes /\ lost \in BOOLEAN
        /\ jobs <= 1 + crashes /\ MaxCrashes \in Nat
    BY ExplainAssumption DEF ExplainInv, ExplainTypeOK, ExplanationsAgree, ExplainedOnce, JobsCounted
  <1>1. CASE UNCHANGED explainVars
    BY <1>0, <1>1 DEF explainVars, ExplainInv, ExplainTypeOK, FlushedFirst, NarratedFirst, JobsCounted,
       ExplanationsAgree, ExplainedOnce, OneNarration
  <1>2. ASSUME NEW e \in Explainers,
               ExplainerSteps(e) \/ ExplanationFails(e) \/ ExplainerCrashes(e) \/ DeliveredAgain(e)
        PROVE  ExplainInv'
    <2> USE DEF NarrationVars
    <2>1. CASE TakeJob(e)
      <3>1. jobs' \in Nat /\ jobs' <= 1 + crashes
        BY <1>0, <2>1 DEF TakeJob
      <3>2. QED
        BY <1>0, <2>1, <3>1, ExplainerStep DEF TakeJob, Run
    <2>2. CASE LookUp(e)
      BY <1>0, <2>2, ExplainerStep DEF LookUp, Run
    <2>3. CASE FlushExplanation(e)
      <3> DEFINE to == IF explained > 0 THEN "ack" ELSE "flushed"
      <3>1. to \in {"idle", "looked", "computing", "flushed", "ack"} /\ (to = "flushed" => explained = 0)
        BY <1>0
      <3>2. /\ explainer' = [explainer EXCEPT ![e] = to] /\ \A f \in Explainers : explainer[f] # "flushed"
            /\ UNCHANGED <<narration, narrator, jobs, explained, lost, crashes>>
        BY <2>3 DEF FlushExplanation, Run
      <3> HIDE DEF to
      <3>3. QED
        BY <1>0, <3>1, <3>2, ExplainerStep
    <2>4. CASE CommitExplanation(e)
      <3>1. explained = 0 /\ explained' = 1
        BY <1>0, <2>4 DEF CommitExplanation, Run, FlushedFirst
      <3>2. QED
        <4>1. /\ explainer' = [explainer EXCEPT ![e] = "ack"] /\ explainer[e] = "flushed"
              /\ UNCHANGED <<narration, narrator, jobs, lost, crashes>> /\ explained' \in 0..1
          BY <2>4, <3>1 DEF CommitExplanation, Run
        <4>2. QED
          BY <1>0, <4>1, ExplainerStep
    <2>5. CASE Acknowledge(e)
      BY <1>0, <2>5, ExplainerStep DEF Acknowledge, Run
    <2>6. CASE ExplanationFails(e)
      BY <1>0, <2>6, ExplainerStep DEF ExplanationFails, Run
    <2>7. CASE ExplainerCrashes(e)
      <3>1. crashes' \in 0..MaxCrashes /\ crashes' = crashes + 1
        BY <1>0, <2>7 DEF ExplainerCrashes
      <3>2. jobs' \in Nat /\ jobs' <= 1 + crashes' /\ lost' \in BOOLEAN
        <4>1. crashes \in Nat /\ jobs' \in {jobs, jobs + 1}
          BY <1>0, <2>7 DEF ExplainerCrashes
        <4>2. lost' \in BOOLEAN
          BY <1>0, <2>7 DEF ExplainerCrashes
        <4>3. QED
          BY <1>0, <3>1, <4>1, <4>2
      <3>3. QED
        BY <1>0, <2>7, <3>1, <3>2, ExplainerStep DEF ExplainerCrashes
    <2>8. CASE DeliveredAgain(e)
      <3>1. crashes' \in 0..MaxCrashes /\ crashes' = crashes + 1
        BY <1>0, <2>8 DEF DeliveredAgain
      <3>2. jobs' \in Nat /\ jobs' <= 1 + crashes'
        BY <1>0, <2>8, <3>1 DEF DeliveredAgain
      <3>3. jobs' \in 0..(MaxCrashes + 1)
        BY <1>0, <3>1, <3>2
      <3>4. QED
        BY <1>0, <2>8, <3>1, <3>2, <3>3 DEF DeliveredAgain, ExplainInv, ExplainTypeOK, FlushedFirst,
           NarratedFirst, JobsCounted, ExplanationsAgree, ExplainedOnce, OneNarration
    <2>9. QED
      BY <1>2, <2>1, <2>2, <2>3, <2>4, <2>5, <2>6, <2>7, <2>8 DEF ExplainerSteps
  <1>3. ASSUME NEW n \in Narrators,
               AskNarration(n) \/ ComposeNarration(n) \/ CommitNarration(n) \/ NarrationAgain(n)
        PROVE  ExplainInv'
    <2> USE DEF JobVars, UnchangedJob
    <2> DEFINE Requests == [pc : {"idle", "composing", "flushed", "done"}, text : Texts \cup {NoText}]
    <2>0. /\ narrator \in [Narrators -> Requests] /\ narrator[n] \in Requests
          /\ narration \in Texts \cup {NoText} /\ narration \in {NoText, Template} \cup Faithful
      BY <1>0 DEF ExplainTypeOK, OneNarration
    <2>1. CASE AskNarration(n)
      <3>1. CASE narration # NoText
        <4>1. [pc |-> "done", text |-> narration] \in Requests
          BY <2>0
        <4>2. narrator' = [narrator EXCEPT ![n] = [pc |-> "done", text |-> narration]]
          BY <2>1, <3>1 DEF AskNarration
        <4>3. QED
          BY <2>0, <2>1, <4>1, <4>2, NarratorStep DEF AskNarration
      <3>2. CASE narration = NoText
        <4>1. [narrator[n] EXCEPT !.pc = "composing"] \in Requests
              /\ [narrator[n] EXCEPT !.pc = "composing"].pc = "composing"
          BY <2>0
        <4>2. narrator' = [narrator EXCEPT ![n] = [narrator[n] EXCEPT !.pc = "composing"]]
          BY <2>1, <3>2 DEF AskNarration
        <4>3. QED
          BY <2>0, <2>1, <4>1, <4>2, NarratorStep DEF AskNarration
      <3>3. QED
        BY <3>1, <3>2
    <2>2. CASE ComposeNarration(n)
      <3>1. CASE narration # NoText
        <4>1. [pc |-> "done", text |-> NoText] \in Requests
          OBVIOUS
        <4>2. narrator' = [narrator EXCEPT ![n] = [pc |-> "done", text |-> NoText]]
          BY <2>2, <3>1 DEF ComposeNarration
        <4>3. QED
          BY <2>0, <2>2, <4>1, <4>2, NarratorStep DEF ComposeNarration
      <3>2. CASE narration = NoText
        <4>1. PICK text \in Paraphrase :
                narrator' = [narrator EXCEPT ![n] = [pc |-> "flushed", text |-> FinalText(text)]]
          BY <2>2, <3>2 DEF ComposeNarration
        <4>2. FinalText(text) \in {Template} \cup Faithful
          BY FinalTextFaithful
        <4>3. [pc |-> "flushed", text |-> FinalText(text)] \in Requests
          BY <4>2, ExplainAssumption DEF Texts
        <4>4. QED
          BY <2>0, <2>2, <3>2, <4>1, <4>2, <4>3, NarratorStep DEF ComposeNarration
      <3>3. QED
        BY <3>1, <3>2
    <2>3. CASE CommitNarration(n)
      <3>1. /\ narration = NoText /\ narrator[n].text \in {Template} \cup Faithful
            /\ narration' = narrator[n].text
        BY <1>0, <2>3 DEF CommitNarration, NarratedFirst
      <3>2. /\ [narrator[n] EXCEPT !.pc = "done"] \in Requests
            /\ [narrator[n] EXCEPT !.pc = "done"].pc = "done"
            /\ [narrator[n] EXCEPT !.pc = "done"].text = narrator[n].text
        BY <2>0
      <3>3. narrator' = [narrator EXCEPT ![n] = [narrator[n] EXCEPT !.pc = "done"]]
        BY <2>3 DEF CommitNarration
      <3>4. QED
        <4>1. narrator[n].pc = "flushed" /\ UNCHANGED JobVars
          BY <2>3 DEF CommitNarration
        <4>2. narration' \in {NoText, Template} \cup Faithful
          BY <3>1
        <4> DEFINE to == [narrator[n] EXCEPT !.pc = "done"]
        <4>3. to \in Requests /\ to.pc = "done" /\ to.text = narration' /\ narrator' = [narrator EXCEPT ![n] = to]
          BY <3>1, <3>2, <3>3
        <4> HIDE DEF to
        <4>4. QED
          BY <4>1, <4>2, <4>3, NarratorStep
    <2>4. CASE NarrationAgain(n)
      <3>1. NoRequest \in Requests /\ NoRequest.pc = "idle"
        BY DEF NoRequest
      <3>2. QED
        BY <2>0, <2>4, <3>1, NarratorStep DEF NarrationAgain
    <2>5. QED
      BY <1>3, <2>1, <2>2, <2>3, <2>4
  <1>4. QED
    BY <1>1, <1>2, <1>3 DEF ExplainNext

-----------------------------------------------------------------------------
(* Reports and their schedule. *)

ReportRows == [status : {"none", "queued", "running"} \cup Finished, sent : 0..(1 + MaxKills),
               at : 0..MaxMinute, lost : BOOLEAN]
Clerks     == [pc : {"idle", "due", "send", "mark", "generate", "running", "ack"}, report : 0..MaxReports,
               at : 0..MaxMinute]

RequestedAt(at) == \E r \in ReportIds : reports[r].status # "none" /\ reports[r].at = at

\* Only a death has a job delivered more than once.
SentCounted == \A r \in ReportIds : reports[r].sent <= 1 + kills

\* A sweep that is about to mark its schedule has requested the report it
\* marks it for, and a job is about a report there is.
ClerksHold ==
    \A w \in ReportWorkers :
      /\ clerk[w].pc = "send" => /\ clerk[w].report \in ReportIds
                                 /\ reports[clerk[w].report].status # "none"
                                 /\ reports[clerk[w].report].at = clerk[w].at
      /\ clerk[w].pc \in {"generate", "running", "ack"} => clerk[w].report \in ReportIds
      /\ clerk[w].pc = "mark" => RequestedAt(clerk[w].at)

ReportInv == ReportTypeOK /\ SentCounted /\ ClerksHold /\ MarkedWasRequested

\* What was requested stays so, for its minute.
RowsKept == \A r \in ReportIds : reports[r].status # "none" =>
              reports'[r].status # "none" /\ reports'[r].at = reports[r].at

LEMMA NextReportIs ==
    ASSUME Unrequested # {}
    PROVE  NextReport \in ReportIds /\ reports[NextReport].status = "none"
  <1>1. Unrequested \subseteq Nat
    BY ReportAssumption DEF Unrequested, ReportIds
  <1>2. \E r \in Unrequested : \A q \in Unrequested : r <= q
    BY <1>1, LeastOf
  <1>3. NextReport \in Unrequested
    BY <1>2 DEF NextReport
  <1>4. QED
    BY <1>3 DEF Unrequested

LEMMA ReportInvHolds == ReportInit => ReportInv
  <1> SUFFICES ASSUME ReportInit PROVE ReportInv
    OBVIOUS
  <1>1. NoReport \in ReportRows /\ NoReport.sent = 0
    <2>1. 0 \in 0..(1 + MaxKills) /\ 0 \in 0..MaxMinute
      BY ReportAssumption
    <2>2. QED
      BY <2>1 DEF NoReport, ReportRows, Finished
  <1>2. AtRest \in Clerks /\ AtRest.pc = "idle"
    <2>1. 0 \in 0..MaxReports /\ 0 \in 0..MaxMinute
      BY ReportAssumption
    <2>2. QED
      BY <2>1 DEF AtRest, Clerks
  <1>3. /\ minute \in 1..MaxMinute /\ lastRun \in 0..MaxMinute /\ kills \in 0..MaxKills /\ ticks \in 0..minute
        /\ kills = 0
    BY ReportAssumption DEF ReportInit
  <1>4. reports \in [ReportIds -> ReportRows] /\ clerk \in [ReportWorkers -> Clerks]
    BY <1>1, <1>2 DEF ReportInit
  <1>5. ReportTypeOK
    BY <1>3, <1>4 DEF ReportTypeOK, ReportRows, Clerks
  <1>6. SentCounted /\ ClerksHold /\ MarkedWasRequested
    BY <1>1, <1>2, <1>3 DEF ReportInit, SentCounted, ClerksHold, MarkedWasRequested
  <1>7. QED
    BY <1>5, <1>6 DEF ReportInv

\* A step of one process.
LEMMA ClerkStep ==
    ASSUME ReportInv, NEW w \in ReportWorkers, NEW to \in Clerks, clerk' = [clerk EXCEPT ![w] = to],
           reports' \in [ReportIds -> ReportRows], RowsKept, SentCounted',
           UNCHANGED minute, kills' \in 0..MaxKills, ticks' \in 0..minute,
           lastRun' = lastRun \/ (lastRun' \in 0..MaxMinute /\ RequestedAt(lastRun')),
           to.pc = "send" => /\ to.report \in ReportIds /\ reports'[to.report].status # "none"
                             /\ reports'[to.report].at = to.at,
           to.pc \in {"generate", "running", "ack"} => to.report \in ReportIds,
           to.pc = "mark" => RequestedAt(to.at)
    PROVE  ReportInv'
  <1>1. /\ clerk \in [ReportWorkers -> Clerks] /\ ClerksHold /\ MarkedWasRequested
        /\ minute \in 1..MaxMinute /\ lastRun \in 0..MaxMinute
    BY DEF ReportInv, ReportTypeOK, Clerks
  <1>2. clerk'[w] = to /\ \A v \in ReportWorkers \ {w} : clerk'[v] = clerk[v]
    BY <1>1
  <1>3. \A at : RequestedAt(at) => \E r \in ReportIds : reports'[r].status # "none" /\ reports'[r].at = at
    BY DEF RequestedAt, RowsKept
  <1>4. ClerksHold'
    <2> SUFFICES ASSUME NEW v \in ReportWorkers
                 PROVE  /\ clerk'[v].pc = "send" => /\ clerk'[v].report \in ReportIds
                                                    /\ reports'[clerk'[v].report].status # "none"
                                                    /\ reports'[clerk'[v].report].at = clerk'[v].at
                        /\ clerk'[v].pc \in {"generate", "running", "ack"} => clerk'[v].report \in ReportIds
                        /\ clerk'[v].pc = "mark" =>
                             \E r \in ReportIds : reports'[r].status # "none" /\ reports'[r].at = clerk'[v].at
      BY DEF ClerksHold, RequestedAt
    <2>1. CASE v = w
      BY <1>2, <1>3, <2>1
    <2>2. CASE v # w
      BY <1>1, <1>2, <1>3, <2>2 DEF ClerksHold, RowsKept
    <2>3. QED
      BY <2>1, <2>2
  <1>5. MarkedWasRequested'
    <2>1. lastRun # 0 => RequestedAt(lastRun)
      BY <1>1 DEF MarkedWasRequested, RequestedAt
    <2>2. QED
      BY <1>3, <2>1 DEF MarkedWasRequested
  <1>6. clerk' \in [ReportWorkers -> Clerks] /\ lastRun' \in 0..MaxMinute
    BY <1>1, <1>2
  <1>7. ReportTypeOK'
    BY <1>1, <1>6 DEF ReportTypeOK, ReportRows, Clerks
  <1>8. QED
    BY <1>4, <1>5, <1>7 DEF ReportInv

\* A report queued for a minute.
LEMMA QueuedRowIs ==
    ASSUME ReportInv, NEW w \in ReportWorkers, NEW at \in 0..MaxMinute, QueuedRow(w, at),
           UNCHANGED <<minute, lastRun, kills>>, ticks' \in 0..minute
    PROVE  ReportInv'
  <1> DEFINE row == [NoReport EXCEPT !.status = "queued", !.at = at]
             to == [pc |-> "send", report |-> NextReport, at |-> at]
  <1>1. NextReport \in ReportIds /\ reports[NextReport].status = "none"
    BY NextReportIs DEF QueuedRow
  <1>2. /\ reports' = [reports EXCEPT ![NextReport] = row] /\ clerk' = [clerk EXCEPT ![w] = to]
        /\ reports \in [ReportIds -> ReportRows] /\ SentCounted /\ kills \in 0..MaxKills
    BY DEF QueuedRow, ReportInv, ReportTypeOK, ReportRows
  <1>3. row \in ReportRows /\ row.status = "queued" /\ row.at = at /\ row.sent = 0
    <2>1. 0 \in 0..(1 + MaxKills)
      BY ReportAssumption
    <2>2. QED
      BY <2>1 DEF NoReport, ReportRows
  <1>4. to \in Clerks /\ to.pc = "send" /\ to.report = NextReport /\ to.at = at
    BY <1>1, ReportAssumption DEF Clerks, ReportIds
  <1> HIDE DEF row, to
  <1>5. /\ reports' \in [ReportIds -> ReportRows] /\ reports'[NextReport] = row
        /\ \A r \in ReportIds \ {NextReport} : reports'[r] = reports[r]
    BY <1>1, <1>2, <1>3
  <1>6. RowsKept
    BY <1>1, <1>5 DEF RowsKept
  <1>7. SentCounted'
    BY <1>2, <1>3, <1>5 DEF SentCounted
  <1>8. QED
    BY <1>1, <1>2, <1>3, <1>4, <1>5, <1>6, <1>7, ClerkStep

\* A step that changes one row and nothing it was requested for.
LEMMA RowStep ==
    ASSUME ReportInv, NEW r \in ReportIds, NEW row \in ReportRows, reports' = [reports EXCEPT ![r] = row],
           row.at = reports[r].at, reports[r].status # "none" => row.status # "none",
           row.sent <= 1 + kills', kills' \in {kills, kills + 1}
    PROVE  reports' \in [ReportIds -> ReportRows] /\ RowsKept /\ SentCounted'
  <1>1. /\ reports \in [ReportIds -> ReportRows] /\ kills \in Nat
        /\ \A q \in ReportIds : reports[q].sent <= 1 + kills /\ reports[q].sent \in Nat
    BY ReportAssumption DEF ReportInv, ReportTypeOK, SentCounted, ReportRows
  <1>2. reports'[r] = row /\ \A q \in ReportIds \ {r} : reports'[q] = reports[q]
    BY <1>1
  <1>3. \A q \in ReportIds : reports'[q].sent <= 1 + kills'
    BY <1>1, <1>2
  <1>4. QED
    BY <1>1, <1>2, <1>3 DEF RowsKept, SentCounted

\* A process that changes no row.
LEMMA ClerkAloneStep ==
    ASSUME ReportInv, NEW w \in ReportWorkers, NEW to \in Clerks, clerk' = [clerk EXCEPT ![w] = to],
           UNCHANGED <<minute, reports, kills>>, ticks' \in 0..minute,
           lastRun' = lastRun \/ (lastRun' \in 0..MaxMinute /\ RequestedAt(lastRun')),
           to.pc \in {"idle", "due"} \/ (to.pc = "ack" /\ to.report \in ReportIds)
    PROVE  ReportInv'
  <1>1. /\ reports' \in [ReportIds -> ReportRows] /\ RowsKept /\ SentCounted' /\ kills' \in 0..MaxKills
    BY DEF ReportInv, ReportTypeOK, ReportRows, RowsKept, SentCounted
  <1>2. QED
    BY <1>1, ClerkStep

LEMMA ReportInvKept == ReportInv /\ [ReportNext]_reportVars => ReportInv'
  <1> SUFFICES ASSUME ReportInv, [ReportNext]_reportVars PROVE ReportInv'
    OBVIOUS
  <1>0. /\ ReportTypeOK /\ SentCounted /\ ClerksHold
        /\ reports \in [ReportIds -> ReportRows] /\ clerk \in [ReportWorkers -> Clerks]
        /\ minute \in 1..MaxMinute /\ lastRun \in 0..MaxMinute /\ kills \in 0..MaxKills /\ ticks \in 0..minute
        /\ minute \in 0..MaxMinute
    BY DEF ReportInv, ReportTypeOK, ReportRows, Clerks
  <1>1. AtRest \in Clerks /\ AtRest.pc = "idle"
    <2>1. 0 \in 0..MaxReports /\ 0 \in 0..MaxMinute
      BY ReportAssumption
    <2>2. QED
      BY <2>1 DEF AtRest, Clerks
  <1>2. CASE UNCHANGED reportVars
    BY <1>2 DEF reportVars, ReportInv, ReportTypeOK, SentCounted, ClerksHold, RequestedAt, MarkedWasRequested
  <1>3. CASE MinutePasses
    <2>1. /\ minute' \in 1..MaxMinute /\ ticks' \in 0..minute'
          /\ UNCHANGED <<lastRun, reports, clerk, ticks, kills>>
      BY <1>0, <1>3, ReportAssumption DEF MinutePasses
    <2>2. QED
      BY <1>0, <2>1 DEF ReportInv, ReportTypeOK, SentCounted, ClerksHold, RequestedAt, MarkedWasRequested
  <1>4. ASSUME NEW w \in ReportWorkers,
               RequestReport(w) \/ Sweep(w) \/ SweepSteps(w) \/ ReportSteps(w) \/ GenerateRaises(w) \/ Killed(w)
        PROVE  ReportInv'
    <2> DEFINE c == clerk[w]
    <2>0. c \in Clerks /\ c.report \in 0..MaxReports /\ c.at \in 0..MaxMinute
      BY <1>0 DEF Clerks
    <2>1. CASE RequestReport(w)
      <3>1. 0 \in 0..MaxMinute
        BY ReportAssumption
      <3>2. QED
        BY <1>0, <2>1, <3>1, QueuedRowIs DEF RequestReport
    <2>2. CASE Sweep(w)
      <3>1. ticks' \in 0..minute /\ UNCHANGED <<minute, lastRun, reports, kills>>
        BY <1>0, <2>2 DEF Sweep
      <3>2. CASE IsDue
        <4>1. clerk' = [clerk EXCEPT ![w] = [pc |-> "due", report |-> 0, at |-> minute]]
          BY <2>2, <3>2 DEF Sweep
        <4>2. [pc |-> "due", report |-> 0, at |-> minute] \in Clerks
          <5>1. 0 \in 0..MaxReports
            BY ReportAssumption
          <5>2. QED
            BY <1>0, <5>1 DEF Clerks
        <4>3. QED
          BY <3>1, <4>1, <4>2, ClerkAloneStep
      <3>3. CASE ~IsDue
        BY <1>0, <2>2, <3>1, <3>3 DEF Sweep, ReportInv, ReportTypeOK, SentCounted, ClerksHold, RequestedAt,
           MarkedWasRequested
      <3>4. QED
        BY <3>2, <3>3
    <2>3. CASE RequestDue(w)
      <3>1. CASE QueuedRow(w, c.at)
        <4>1. ticks' \in 0..minute
          BY <1>0, <2>3 DEF RequestDue
        <4>2. QED
          BY <2>0, <2>3, <3>1, <4>1, QueuedRowIs DEF RequestDue
      <3>2. CASE clerk' = [clerk EXCEPT ![w] = AtRest] /\ UNCHANGED reports
        BY <1>0, <1>1, <2>3, <3>2, ClerkAloneStep DEF RequestDue
      <3>3. QED
        BY <2>3, <3>1, <3>2 DEF RequestDue
    <2>4. CASE MarkRun(w)
      <3>1. lastRun' = c.at /\ RequestedAt(c.at)
        BY <1>0, <2>4 DEF MarkRun, ClerksHold
      <3>2. QED
        BY <1>0, <1>1, <2>0, <2>4, <3>1, ClerkAloneStep DEF MarkRun
    <2>5. CASE SendReport(w)
      <3>1. /\ c.report \in ReportIds /\ reports[c.report].status # "none" /\ reports[c.report].at = c.at
            /\ reports[c.report] \in ReportRows
        BY <1>0, <2>5 DEF SendReport, ClerksHold
      <3>2. PICK sent \in {0, 1} :
              reports' = [reports EXCEPT ![c.report] = [reports[c.report] EXCEPT !.sent = sent, !.lost = sent = 0]]
        BY <2>5 DEF SendReport
      <3> DEFINE row == [reports[c.report] EXCEPT !.sent = sent, !.lost = sent = 0]
                 to == IF c.at = 0 THEN AtRest ELSE [pc |-> "mark", report |-> 0, at |-> c.at]
      <3>3. row \in ReportRows /\ row.at = reports[c.report].at /\ row.status # "none" /\ row.sent <= 1 + kills
        <4>1. sent \in 0..(1 + MaxKills) /\ sent <= 1 + kills
          BY <1>0, ReportAssumption
        <4>2. (sent = 0) \in BOOLEAN
          OBVIOUS
        <4>3. row \in ReportRows /\ row.sent = sent
          BY <3>1, <4>1, <4>2 DEF ReportRows
        <4>4. row.at = reports[c.report].at /\ row.status = reports[c.report].status
          BY <3>1 DEF ReportRows
        <4>5. QED
          BY <3>1, <4>1, <4>3, <4>4
      <3>4. to \in Clerks /\ (to.pc = "idle" \/ (to.pc = "mark" /\ to.at = c.at))
        <4>1. 0 \in 0..MaxReports
          BY ReportAssumption
        <4>2. QED
          BY <1>1, <2>0, <4>1 DEF Clerks
      <3>5. RequestedAt(c.at)
        BY <3>1 DEF RequestedAt
      <3>6. clerk' = [clerk EXCEPT ![w] = to] /\ UNCHANGED <<minute, lastRun, ticks, kills>>
        BY <2>5 DEF SendReport
      <3>7. reports' = [reports EXCEPT ![c.report] = row]
        BY <3>2
      <3> HIDE DEF row, to
      <3>8. reports' \in [ReportIds -> ReportRows] /\ RowsKept /\ SentCounted'
        BY <3>1, <3>3, <3>6, <3>7, RowStep
      <3>9. QED
        BY <1>0, <3>4, <3>5, <3>6, <3>8, ClerkStep
    <2>6. CASE TakeReport(w)
      <3>1. PICK r \in ReportIds :
              /\ reports[r].sent > 0
              /\ reports' = [reports EXCEPT ![r].sent = @ - 1]
              /\ clerk' = [clerk EXCEPT ![w] = [pc |-> "generate", report |-> r, at |-> 0]]
        BY <2>6 DEF TakeReport
      <3>2. UNCHANGED <<minute, lastRun, ticks, kills>>
        BY <2>6 DEF TakeReport
      <3> DEFINE row == [reports[r] EXCEPT !.sent = reports[r].sent - 1]
                 to == [pc |-> "generate", report |-> r, at |-> 0]
      <3>3. reports[r] \in ReportRows /\ reports' = [reports EXCEPT ![r] = row]
        BY <1>0, <3>1
      <3>4. reports[r].sent - 1 \in 0..(1 + MaxKills) /\ reports[r].sent - 1 <= 1 + kills
        BY <1>0, <3>1, <3>3, ReportAssumption DEF ReportRows, SentCounted
      <3>5. /\ row \in ReportRows /\ row.at = reports[r].at /\ row.status = reports[r].status
            /\ row.sent <= 1 + kills
        BY <3>3, <3>4 DEF ReportRows
      <3>6. to \in Clerks /\ to.pc = "generate" /\ to.report = r
        <4>1. 0 \in 0..MaxMinute /\ r \in 0..MaxReports
          BY ReportAssumption DEF ReportIds
        <4>2. QED
          BY <4>1 DEF Clerks
      <3>7. clerk' = [clerk EXCEPT ![w] = to]
        BY <3>1
      <3> HIDE DEF row, to
      <3>8. reports' \in [ReportIds -> ReportRows] /\ RowsKept /\ SentCounted'
        BY <3>2, <3>3, <3>5, RowStep
      <3>9. QED
        BY <1>0, <3>2, <3>6, <3>7, <3>8, ClerkStep
    <2>7. CASE BeginReport(w)
      <3> DEFINE again == reports[c.report].status = "done"
                 to == [c EXCEPT !.pc = IF again THEN "ack" ELSE "running"]
                 row == [reports[c.report] EXCEPT !.status = "running"]
      <3>1. c.report \in ReportIds /\ reports[c.report] \in ReportRows
        BY <1>0, <2>7 DEF BeginReport, ClerksHold
      <3>2. /\ clerk' = [clerk EXCEPT ![w] = to] /\ UNCHANGED <<minute, lastRun, ticks, kills>>
            /\ reports' = IF again THEN reports ELSE [reports EXCEPT ![c.report] = row]
        BY <1>0, <2>7 DEF BeginReport
      <3>3. to \in Clerks /\ to.pc \in {"ack", "running"} /\ to.report = c.report
        BY <2>0 DEF Clerks
      <3>4. reports' \in [ReportIds -> ReportRows] /\ RowsKept /\ SentCounted'
        <4>1. CASE again
          BY <1>0, <3>2, <4>1 DEF RowsKept, SentCounted
        <4>2. CASE ~again
          <5>1. /\ row \in ReportRows /\ row.at = reports[c.report].at /\ row.status # "none"
                /\ row.sent = reports[c.report].sent
            BY <3>1 DEF ReportRows
          <5>2. row.sent <= 1 + kills
            BY <1>0, <3>1, <5>1 DEF SentCounted
          <5>3. reports' = [reports EXCEPT ![c.report] = row]
            BY <3>2, <4>2
          <5> HIDE DEF row, to, again
          <5>4. QED
            BY <3>1, <3>2, <5>1, <5>2, <5>3, RowStep
        <4>3. QED
          BY <4>1, <4>2
      <3> HIDE DEF again, to, row
      <3>5. QED
        BY <1>0, <3>1, <3>2, <3>3, <3>4, ClerkStep
    <2>8. CASE FinishReport(w)
      <3> DEFINE to == [c EXCEPT !.pc = "ack"]
      <3>1. c.report \in ReportIds /\ reports[c.report] \in ReportRows
        BY <1>0, <2>8 DEF FinishReport, ClerksHold
      <3>2. PICK status \in Finished : reports' = [reports EXCEPT ![c.report].status = status]
        BY <2>8 DEF FinishReport
      <3> DEFINE row == [reports[c.report] EXCEPT !.status = status]
      <3>3. /\ row \in ReportRows /\ row.at = reports[c.report].at /\ row.status # "none"
            /\ row.sent = reports[c.report].sent
        BY <3>1, <3>2 DEF ReportRows, Finished
      <3>4. to \in Clerks /\ to.pc = "ack" /\ to.report = c.report
        BY <2>0 DEF Clerks
      <3>5. /\ clerk' = [clerk EXCEPT ![w] = to] /\ UNCHANGED <<minute, lastRun, ticks, kills>>
            /\ reports' = [reports EXCEPT ![c.report] = row]
        BY <1>0, <2>8, <3>1, <3>2 DEF FinishReport
      <3>6. row.sent <= 1 + kills
        BY <1>0, <3>1, <3>3 DEF SentCounted
      <3> HIDE DEF row, to
      <3>7. reports' \in [ReportIds -> ReportRows] /\ RowsKept /\ SentCounted'
        BY <3>1, <3>3, <3>5, <3>6, RowStep
      <3>8. QED
        BY <1>0, <3>1, <3>4, <3>5, <3>7, ClerkStep
    <2>9. CASE AcknowledgeReport(w)
      BY <1>0, <1>1, <2>9, ClerkAloneStep DEF AcknowledgeReport
    <2>10. CASE Killed(w)
      <3>1. /\ kills' \in 0..MaxKills /\ kills' = kills + 1 /\ clerk' = [clerk EXCEPT ![w] = AtRest]
            /\ UNCHANGED <<minute, lastRun, ticks>>
        BY <1>0, <2>10, ReportAssumption DEF Killed
      <3>2. reports' \in [ReportIds -> ReportRows] /\ RowsKept /\ SentCounted'
        <4>1. CASE /\ c.pc \in {"generate", "running", "ack"}
                   /\ reports' = [reports EXCEPT ![c.report].sent = @ + 1]
          <5> DEFINE row == [reports[c.report] EXCEPT !.sent = reports[c.report].sent + 1]
          <5>1. c.report \in ReportIds /\ reports[c.report] \in ReportRows
            BY <1>0, <4>1 DEF ClerksHold
          <5>2. reports[c.report].sent + 1 \in 0..(1 + MaxKills) /\ reports[c.report].sent + 1 <= 1 + kills'
            BY <1>0, <3>1, <5>1, ReportAssumption DEF SentCounted, ReportRows
          <5>3. /\ row \in ReportRows /\ row.at = reports[c.report].at /\ row.status = reports[c.report].status
                /\ row.sent <= 1 + kills'
            BY <5>1, <5>2 DEF ReportRows
          <5>4. reports' = [reports EXCEPT ![c.report] = row]
            BY <1>0, <4>1, <5>1
          <5> HIDE DEF row
          <5>5. QED
            BY <3>1, <5>1, <5>3, <5>4, RowStep
        <4>2. CASE reports' = IF c.report = 0 THEN reports ELSE [reports EXCEPT ![c.report].lost = TRUE]
          <5>1. CASE c.report = 0
            <6>1. reports' = reports
              BY <4>2, <5>1
            <6>2. \A r \in ReportIds : reports[r].sent <= 1 + kills => reports[r].sent <= 1 + kills'
              BY <1>0, <3>1 DEF ReportRows
            <6>3. QED
              BY <1>0, <6>1, <6>2 DEF RowsKept, SentCounted
          <5>2. CASE c.report # 0
            <6> DEFINE row == [reports[c.report] EXCEPT !.lost = TRUE]
            <6>1. c.report \in ReportIds
              BY <2>0, <5>2, ReportAssumption DEF ReportIds
            <6>2. /\ reports[c.report] \in ReportRows /\ row \in ReportRows /\ row.at = reports[c.report].at
                  /\ row.status = reports[c.report].status /\ row.sent = reports[c.report].sent
              BY <1>0, <6>1 DEF ReportRows
            <6>3. reports[c.report].sent <= 1 + kills'
              BY <1>0, <3>1, <6>1, <6>2 DEF SentCounted, ReportRows
            <6>4. reports' = [reports EXCEPT ![c.report] = row]
              BY <1>0, <4>2, <5>2, <6>1
            <6> HIDE DEF row
            <6>5. QED
              BY <3>1, <6>1, <6>2, <6>3, <6>4, RowStep
          <5>3. QED
            BY <5>1, <5>2
        <4>3. QED
          BY <2>10, <4>1, <4>2 DEF Killed
      <3>3. QED
        BY <1>0, <1>1, <3>1, <3>2, ClerkStep
    <2>11. CASE GenerateRaises(w)
      <3> DEFINE to == [c EXCEPT !.pc = "ack"]
                 row == [reports[c.report] EXCEPT !.lost = TRUE]
      <3>1. c.report \in ReportIds /\ reports[c.report] \in ReportRows
        BY <1>0, <2>11 DEF GenerateRaises, ClerksHold
      <3>2. /\ row \in ReportRows /\ row.at = reports[c.report].at
            /\ row.status = reports[c.report].status /\ row.sent = reports[c.report].sent
        BY <3>1 DEF ReportRows
      <3>3. to \in Clerks /\ to.pc = "ack" /\ to.report = c.report
        BY <2>0 DEF Clerks
      <3>4. /\ clerk' = [clerk EXCEPT ![w] = to] /\ UNCHANGED <<minute, lastRun, ticks, kills>>
            /\ reports' = [reports EXCEPT ![c.report] = row]
        BY <1>0, <2>11, <3>1 DEF GenerateRaises
      <3>5. row.sent <= 1 + kills
        BY <1>0, <3>1, <3>2 DEF SentCounted
      <3> HIDE DEF row, to
      <3>6. reports' \in [ReportIds -> ReportRows] /\ RowsKept /\ SentCounted'
        BY <3>1, <3>2, <3>4, <3>5, RowStep
      <3>7. QED
        BY <1>0, <3>1, <3>3, <3>4, <3>6, ClerkStep
    <2>12. QED
      BY <1>4, <2>1, <2>2, <2>3, <2>4, <2>5, <2>6, <2>7, <2>8, <2>9, <2>10, <2>11 DEF ReportSteps, SweepSteps
  <1>5. QED
    BY <1>2, <1>3, <1>4 DEF ReportNext

-----------------------------------------------------------------------------
(* All of them: one runs, the others rest. *)

BackgroundInv == AlarmInv /\ JobInv /\ InferTypeOK /\ ExplainInv /\ ReportInv

\* Every step of a worker, client or process that dies keeps the invariants of
\* jobs, inference, explanations and reports, while the others rest.
THEOREM BackgroundInductive == BackgroundSpec => []BackgroundInv
  <1>1. BackgroundInit => BackgroundInv
    BY AlarmInvHolds, JobInvHolds, InferTypeHolds, ExplainInvHolds, ReportInvHolds
       DEF BackgroundInit, BackgroundInv
  <1>2. BackgroundInv /\ [BackgroundNext]_backgroundVars => BackgroundInv'
    <2> SUFFICES ASSUME BackgroundInv, [BackgroundNext]_backgroundVars PROVE BackgroundInv'
      OBVIOUS
    <2>1. [AlarmNext]_alarmVars /\ [JobNext]_jobVars /\ [InferNext]_inferVars
          /\ [ExplainNext]_explainVars /\ [ReportNext]_reportVars
      BY DEF BackgroundNext, backgroundVars, Only, Rest
    <2>2. QED
      BY <2>1, AlarmInvKept, JobInvKept, InferTypeKept, ExplainInvKept, ReportInvKept DEF BackgroundInv
  <1>3. QED
    BY <1>1, <1>2, PTL DEF BackgroundSpec

\* Whatever the interleaving, and however many workers there are, the state of
\* each component stays well formed: in particular the deliveries of a job
\* grow only with the deaths and time-outs that explain them.
THEOREM BackgroundTypeCorrect == BackgroundSpec => []BackgroundTypeOK
  <1>1. BackgroundInv => BackgroundTypeOK
    BY DEF BackgroundInv, BackgroundTypeOK, AlarmInv, JobInv, ExplainInv, ReportInv
  <1>2. QED
    BY <1>1, BackgroundInductive, PTL

\* For any number of workers, requests, deliveries and crashes a prediction is
\* explained once and narrated in one text the audit passed
\* (explain_prediction, ExplanationService.narration), and the quality page
\* that had insights keeps some (compute_model_insights, deleting and inserting in
\* one transaction).
THEOREM PagesStaySound == BackgroundSpec => []PagesSound
  <1>1. BackgroundInv => PagesSound
    BY DEF BackgroundInv, PagesSound, JobInv, ExplainInv
  <1>2. QED
    BY <1>1, BackgroundInductive, PTL

\* A schedule that says it ran in a minute has a report requested for that
\* minute, whatever process of run_report_schedules dies and when.
THEOREM MarkedStaysRequested == BackgroundSpec => []MarkedWasRequested
  <1>1. BackgroundInv => MarkedWasRequested
    BY DEF BackgroundInv, ReportInv
  <1>2. QED
    BY <1>1, BackgroundInductive, PTL
=============================================================================
