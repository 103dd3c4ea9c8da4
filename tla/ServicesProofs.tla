----------------------------- MODULE ServicesProofs -----------------------------
(***************************************************************************)
(* What a user speaks and what a training leaves, for any constants: the   *)
(* read-back protocol, the dialogue that carries what was meant, and       *)
(* trainings with their bundles; and the components of Services side by    *)
(* side: what is proved of each one holds while the others rest.           *)
(***************************************************************************)
EXTENDS Services, SimulatorProofs, RegistryProofs, DataLemmas, FiniteSetTheorems, SequenceTheorems, TLAPS

-----------------------------------------------------------------------------
(* The read-back protocol for any number of actions and API workers: what  *)
(* no interleaving of turns, confirmations, cancellations and crashes can  *)
(* bring about.                                                            *)

\* The steps a request can take, for the lemmas about all of them.
RequestStep(r) ==
    \/ StartTurn(r) \/ ReadBack(r) \/ FinishTurn(r)
    \/ OpenConfirm(r) \/ ConfirmSpoken(r) \/ Expire(r) \/ Reject(r)
    \/ ToolFails(r) \/ ToolRecords(r) \/ ToolPosts(r) \/ Finish(r)
    \/ OpenCancel(r) \/ Cancel(r)
    \/ Crash(r)

\* What a worker may be doing.
Doing ==
    [pc : {"idle", "readback", "plain", "spoken", "confirm", "expire", "cancel", "recorded", "posted"},
     action : Action \cup {NoAction}, stale : SUBSET Action, spoken : BOOLEAN]

LEMMA NextCases == VoiceNext <=> Lapse \/ \E r \in VoiceWorkers : RequestStep(r)
  BY DEF VoiceNext, RequestStep

\* A commit writes one status to one row, "expired" to the stale ones, and
\* nothing to the others.
LEMMA CommitWrites ==
    ASSUME VoiceTypeOK, NEW r \in VoiceWorkers, NEW a, NEW s, Commit(r, a, s)
    PROVE  /\ DOMAIN status' = Action
           /\ \A b \in Action :
                \/ b = a /\ status'[b] = s
                \/ b # a /\ b \in turn[r].stale /\ status'[b] = "expired"
                \/ b # a /\ b \notin turn[r].stale /\ status'[b] = status[b]
  BY DEF Commit

LEMMA CommitTyped ==
    ASSUME VoiceTypeOK, NEW r \in VoiceWorkers, NEW a, NEW s, Commit(r, a, s),
           a \in Action => s \in Settled \cup {"none", "pending", "confirmed"}
    PROVE  status' \in [Action -> Settled \cup {"none", "pending", "confirmed"}]
  BY DEF Commit, VoiceTypeOK, Settled

\* A worker goes from one thing to another and leaves the others at theirs.
LEMMA GoesTo ==
    ASSUME VoiceTypeOK, NEW r \in VoiceWorkers, NEW to, Goes(r, to)
    PROVE  /\ turn'[r] = to
           /\ \A q \in VoiceWorkers \ {r} : turn'[q] = turn[q]
           /\ to \in Doing => turn' \in [VoiceWorkers -> Doing]
  BY DEF Goes, VoiceTypeOK, Doing

LEMMA DoingTyped ==
    ASSUME VoiceTypeOK, NEW r \in VoiceWorkers
    PROVE  /\ turn[r] \in Doing
           /\ turn[r].action \in Action \cup {NoAction}
           /\ turn[r].stale \subseteq Action
           /\ turn[r].spoken \in BOOLEAN
           /\ Idle \in Doing
           /\ Stale \subseteq Action
  BY DEF VoiceTypeOK, Doing, Idle, Stale, NoAction

LEMMA OthersStay ==
    ASSUME VoiceTypeOK, NEW r \in VoiceWorkers, RequestStep(r)
    PROVE  \A q \in VoiceWorkers \ {r} : turn'[q] = turn[q]
  <1>1. \E to : Goes(r, to)
    BY DEF RequestStep, StartTurn, ReadBack, FinishTurn, OpenConfirm, ConfirmSpoken, Expire, Reject,
       ToolFails, ToolRecords, ToolPosts, Finish, OpenCancel, Cancel, Crash
  <1>2. QED
    BY <1>1, GoesTo

\* A turn starts with what is stale and, for a control word, a waiting action.
LEMMA TurnStarts ==
    ASSUME VoiceTypeOK, NEW r \in VoiceWorkers, StartTurn(r)
    PROVE  /\ turn'[r].pc \in {"readback", "plain", "spoken", "cancel"}
           /\ turn'[r].stale = Stale
           /\ turn'[r].action \in Waiting \cup {NoAction}
  <1>1. ASSUME NEW to, Goes(r, to),
               to.pc \in {"readback", "plain", "spoken", "cancel"}, to.stale = Stale,
               to.action \in Waiting \cup {NoAction}
        PROVE  /\ turn'[r].pc \in {"readback", "plain", "spoken", "cancel"}
               /\ turn'[r].stale = Stale
               /\ turn'[r].action \in Waiting \cup {NoAction}
    BY <1>1, GoesTo
  <1>2. CASE Goes(r, [Idle EXCEPT !.pc = "readback", !.stale = Stale])
    BY <1>1, <1>2 DEF Idle
  <1>3. CASE Goes(r, [Idle EXCEPT !.pc = "plain", !.stale = Stale])
    BY <1>1, <1>3 DEF Idle
  <1>4. ASSUME NEW a \in Action, NEW word \in {"spoken", "cancel"}, PendingForSession(a),
               Goes(r, [pc |-> word, action |-> a, stale |-> Stale, spoken |-> TRUE])
        PROVE  /\ turn'[r].pc \in {"readback", "plain", "spoken", "cancel"}
               /\ turn'[r].stale = Stale
               /\ turn'[r].action \in Waiting \cup {NoAction}
    BY <1>1, <1>4 DEF PendingForSession
  <1>5. QED
    BY <1>2, <1>3, <1>4 DEF StartTurn

\* A confirmation or a cancellation starts on a pending action.
LEMMA AnswerStarts ==
    ASSUME VoiceTypeOK, NEW r \in VoiceWorkers, OpenConfirm(r) \/ OpenCancel(r)
    PROVE  /\ turn'[r].pc \in {"confirm", "expire", "cancel"}
           /\ turn'[r].pc = "confirm" => turn'[r].action \notin late
           /\ turn'[r].stale = {}
           /\ turn'[r].action \in Action /\ status[turn'[r].action] = "pending"
  <1>1. PICK a \in Action, pc \in {"confirm", "expire", "cancel"} :
          /\ status[a] = "pending" /\ (pc = "confirm" => a \notin late)
          /\ Goes(r, [Idle EXCEPT !.pc = pc, !.action = a])
    BY DEF OpenConfirm, OpenCancel
  <1>2. turn'[r] = [Idle EXCEPT !.pc = pc, !.action = a]
    BY <1>1, GoesTo
  <1>3. QED
    BY <1>1, <1>2 DEF Idle

\* A tool is run once more, within the bound.
LEMMA OneMoreEffect ==
    ASSUME VoiceTypeOK, NEW a, effects[a] < MaxEffects, effects' = [effects EXCEPT ![a] = @ + 1]
    PROVE  effects' \in [Action -> 0..MaxEffects]
  <1>1. ASSUME a \in Action PROVE effects[a] + 1 \in 0..MaxEffects
    <2>1. effects[a] \in Nat /\ MaxEffects \in Nat
      BY <1>1, VoiceAssumption DEF VoiceTypeOK
    <2>2. QED
      BY <2>1
  <1>2. QED
    BY <1>1 DEF VoiceTypeOK

-----------------------------------------------------------------------------
(* Type correctness. *)

LEMMA VoiceTypeHolds == VoiceInit => VoiceTypeOK
  BY VoiceAssumption DEF VoiceInit, VoiceTypeOK, Idle, NoAction

LEMMA VoiceTypeKept == VoiceTypeOK /\ [VoiceNext]_voiceVars => VoiceTypeOK'
  <1> SUFFICES ASSUME VoiceTypeOK, [VoiceNext]_voiceVars PROVE VoiceTypeOK'
    OBVIOUS
  <1>1. CASE Lapse
    BY <1>1 DEF Lapse, VoiceTypeOK
  <1>2. ASSUME NEW r \in VoiceWorkers, RequestStep(r) PROVE VoiceTypeOK'
    <2>1. CASE StartTurn(r)
      <3>1. PICK to \in Doing : Goes(r, to)
        BY <2>1, DoingTyped DEF StartTurn, PendingForSession, Doing, Idle, NoAction
      <3>2. QED
        BY <2>1, <3>1, GoesTo DEF StartTurn, VoiceTypeOK, Doing
    <2>2. CASE ReadBack(r)
      BY <2>2, CommitTyped, GoesTo, DoingTyped DEF ReadBack, VoiceTypeOK, Doing
    <2>3. CASE FinishTurn(r)
      <3>1. NoAction \notin Action
        BY VoiceAssumption DEF NoAction, Action
      <3>2. QED
        BY <2>3, <3>1, CommitTyped, GoesTo, DoingTyped DEF FinishTurn, VoiceTypeOK, Doing
    <2>4. CASE OpenConfirm(r)
      <3>1. PICK to \in Doing : Goes(r, to)
        BY <2>4, DoingTyped DEF OpenConfirm, Doing, Idle, NoAction
      <3>2. QED
        BY <2>4, <3>1, GoesTo DEF OpenConfirm, VoiceTypeOK, Doing
    <2>5. CASE ConfirmSpoken(r)
      <3>1. PICK to \in Doing : Goes(r, to)
        BY <2>5, DoingTyped DEF ConfirmSpoken, Doing
      <3>2. QED
        BY <2>5, <3>1, GoesTo DEF ConfirmSpoken, VoiceTypeOK, Doing
    <2>6. CASE Expire(r)
      BY <2>6, CommitTyped, GoesTo, DoingTyped DEF Expire, VoiceTypeOK, Doing, Settled
    <2>7. CASE Reject(r)
      BY <2>7, CommitTyped, GoesTo, DoingTyped DEF Reject, VoiceTypeOK, Doing, Settled
    <2>8. CASE ToolFails(r)
      BY <2>8, CommitTyped, GoesTo, DoingTyped DEF ToolFails, VoiceTypeOK, Doing, Settled
    <2>9. CASE ToolRecords(r)
      <3> DEFINE to == [turn[r] EXCEPT !.pc = "recorded", !.stale = {}]
      <3>1. to \in Doing /\ Goes(r, to)
        BY <2>9, DoingTyped DEF ToolRecords, Doing
      <3>2. effects' \in [Action -> 0..MaxEffects]
        BY <2>9, OneMoreEffect DEF ToolRecords, MayRun
      <3>3. status' \in [Action -> Settled \cup {"none", "pending", "confirmed"}]
        BY <2>9, CommitTyped DEF ToolRecords
      <3>4. QED
        BY <2>9, <3>1, <3>2, <3>3, GoesTo DEF ToolRecords, VoiceTypeOK, Doing
    <2>10. CASE ToolPosts(r)
      <3> DEFINE to == [turn[r] EXCEPT !.pc = "posted"]
      <3>1. to \in Doing /\ Goes(r, to)
        BY <2>10, DoingTyped DEF ToolPosts, Doing
      <3>2. effects' \in [Action -> 0..MaxEffects]
        BY <2>10, OneMoreEffect DEF ToolPosts, MayRun
      <3>3. QED
        BY <2>10, <3>1, <3>2, GoesTo DEF ToolPosts, VoiceTypeOK, Doing
    <2>11. CASE Finish(r)
      <3>1. status' \in [Action -> Settled \cup {"none", "pending", "confirmed"}]
        BY <2>11, CommitTyped DEF Finish, Settled
      <3>2. QED
        BY <2>11, <3>1, GoesTo, DoingTyped DEF Finish, VoiceTypeOK, Doing
    <2>12. CASE OpenCancel(r)
      <3>1. PICK to \in Doing : Goes(r, to)
        BY <2>12, DoingTyped DEF OpenCancel, Doing, Idle, NoAction
      <3>2. QED
        BY <2>12, <3>1, GoesTo DEF OpenCancel, VoiceTypeOK, Doing
    <2>13. CASE Cancel(r)
      BY <2>13, CommitTyped, GoesTo, DoingTyped DEF Cancel, VoiceTypeOK, Doing, Settled
    <2>14. CASE Crash(r)
      BY <2>14, GoesTo, DoingTyped DEF Crash, VoiceTypeOK, Doing
    <2>15. QED
      BY <1>2, <2>1, <2>2, <2>3, <2>4, <2>5, <2>6, <2>7, <2>8, <2>9, <2>10, <2>11,
         <2>12, <2>13, <2>14 DEF RequestStep
  <1>3. CASE UNCHANGED voiceVars
    BY <1>3 DEF voiceVars, VoiceTypeOK
  <1>4. QED
    BY <1>1, <1>2, <1>3, NextCases

\* Every step of a turn, a confirmation or a cancellation, and every crash,
\* keeps the rows and the workers within their types.
THEOREM VoiceTypeCorrect == VoiceSpec => []VoiceTypeOK
  BY VoiceTypeHolds, VoiceTypeKept, PTL DEF VoiceSpec

-----------------------------------------------------------------------------
(* The read-back's promises. *)

\* What a recording tool has done is neither pending nor still to be read
\* back: stronger than PendingNotDone by the actions nobody has read back,
\* which a read-back is about to make pending.
NotDoneYet ==
    \A a \in Action \ Actuating : status[a] \in {"none", "pending"} => effects[a] = 0

\* A commit that does not write "none" or "pending" keeps that.
LEMMA CommitKeeps ==
    ASSUME VoiceTypeOK, NotDoneYet, NEW r \in VoiceWorkers, NEW a, NEW s, Commit(r, a, s),
           a \in Action => s \notin {"none", "pending"},
           UNCHANGED effects
    PROVE  NotDoneYet'
  BY CommitWrites DEF NotDoneYet

\* A pending action has no effect in the plant's records, whatever requests
\* overlap and wherever a worker dies: the tool and the status are one commit.
THEOREM NotDone == VoiceSpec => []PendingNotDone
  <1>1. VoiceInit => NotDoneYet
    BY DEF VoiceInit, NotDoneYet
  <1>2. VoiceTypeOK /\ NotDoneYet /\ [VoiceNext]_voiceVars => NotDoneYet'
    <2> SUFFICES ASSUME VoiceTypeOK, NotDoneYet, [VoiceNext]_voiceVars PROVE NotDoneYet'
      OBVIOUS
    <2>1. ASSUME NEW r \in VoiceWorkers, RequestStep(r) PROVE NotDoneYet'
      <3>1. CASE ReadBack(r)
        <4>1. PICK a \in Action : status[a] = "none" /\ Commit(r, a, "pending")
          BY <3>1 DEF ReadBack
        <4>2. QED
          BY <3>1, <4>1, CommitWrites DEF ReadBack, NotDoneYet
      <3>2. CASE FinishTurn(r)
        <4>1. NoAction \notin Action
          BY VoiceAssumption DEF NoAction, Action
        <4>2. QED
          BY <3>2, <4>1, CommitKeeps DEF FinishTurn
      <3>3. CASE Expire(r) \/ Reject(r) \/ ToolFails(r) \/ Cancel(r)
        BY <3>3, CommitKeeps DEF Expire, Reject, ToolFails, Cancel
      <3>4. CASE ToolRecords(r)
        <4>1. \A b \in Action : b # turn[r].action => effects'[b] = effects[b]
          BY <3>4 DEF ToolRecords, VoiceTypeOK
        <4>2. QED
          BY <3>4, <4>1, CommitWrites DEF ToolRecords, NotDoneYet
      <3>5. CASE ToolPosts(r)
        BY <3>5 DEF ToolPosts, MayRun, NotDoneYet, VoiceTypeOK
      <3>6. CASE Finish(r)
        BY <3>6, CommitKeeps DEF Finish
      <3>7. CASE StartTurn(r) \/ OpenConfirm(r) \/ ConfirmSpoken(r) \/ OpenCancel(r) \/ Crash(r)
        BY <3>7 DEF StartTurn, OpenConfirm, ConfirmSpoken, OpenCancel, Crash, NotDoneYet
      <3>8. QED
        BY <2>1, <3>1, <3>2, <3>3, <3>4, <3>5, <3>6, <3>7 DEF RequestStep
    <2>2. CASE Lapse \/ UNCHANGED voiceVars
      BY <2>2 DEF Lapse, voiceVars, NotDoneYet
    <2>3. QED
      BY <2>1, <2>2, NextCases
  <1>3. VoiceTypeOK /\ NotDoneYet => PendingNotDone
    BY DEF NotDoneYet, PendingNotDone
  <1>4. QED
    BY <1>1, <1>2, <1>3, VoiceTypeCorrect, PTL DEF VoiceSpec

\* Once the window of an action has closed, it neither takes effect nor starts
\* to, unless a confirmation was executing it when the window closed.
THEOREM NotAfterWalkingAway == VoiceSpec => WalkedAway
  <1> DEFINE Stays(a) == ~Executing(a) => effects'[a] = effects[a] /\ ~Executing(a)'
  <1>1. VoiceTypeOK /\ [VoiceNext]_voiceVars => \A a \in late : Stays(a)
    <2> SUFFICES ASSUME VoiceTypeOK, [VoiceNext]_voiceVars, NEW a \in late, ~Executing(a)
                 PROVE  effects'[a] = effects[a] /\ ~Executing(a)'
      OBVIOUS
    <2>0. a \in Action
      BY DEF VoiceTypeOK
    <2>1. ASSUME NEW r \in VoiceWorkers, RequestStep(r)
          PROVE  effects'[a] = effects[a] /\ ~Executing(a)'
      <3>1. turn[r].action = a => turn[r].pc \notin {"confirm", "recorded", "posted"}
        BY DEF Executing
      <3>2. effects'[a] = effects[a]
        <4>1. CASE ToolRecords(r) \/ ToolPosts(r)
          BY <2>0, <3>1, <4>1 DEF ToolRecords, ToolPosts, MayRun, VoiceTypeOK
        <4>2. CASE ~(ToolRecords(r) \/ ToolPosts(r))
          BY <2>1, <4>2 DEF RequestStep, StartTurn, ReadBack, FinishTurn, OpenConfirm, ConfirmSpoken,
             Expire, Reject, ToolFails, Finish, OpenCancel, Cancel, Crash
        <4>3. QED
          BY <4>1, <4>2
      <3>3. turn'[r].action = a => turn'[r].pc \notin {"confirm", "recorded", "posted"}
        <4>1. CASE StartTurn(r)
          BY <4>1, TurnStarts
        <4>2. CASE OpenConfirm(r) \/ OpenCancel(r)
          BY <4>2, AnswerStarts
        <4>3. CASE ConfirmSpoken(r)
          BY <3>1, <4>3, GoesTo, DoingTyped DEF ConfirmSpoken, Doing
        <4>4. CASE ReadBack(r) \/ FinishTurn(r) \/ Expire(r) \/ Reject(r) \/ ToolFails(r) \/ Finish(r)
                   \/ Cancel(r) \/ Crash(r)
          BY <4>4, GoesTo DEF ReadBack, FinishTurn, Expire, Reject, ToolFails, Finish, Cancel, Crash, Idle
        <4>5. CASE ToolRecords(r)
          BY <3>1, <4>5, DoingTyped DEF ToolRecords, MayRun, Doing, Goes, VoiceTypeOK
        <4>6. CASE ToolPosts(r)
          BY <3>1, <4>6, GoesTo, DoingTyped DEF ToolPosts, MayRun, Doing
        <4>7. QED
          BY <2>1, <4>1, <4>2, <4>3, <4>4, <4>5, <4>6 DEF RequestStep
      <3>4. QED
        BY <2>1, <3>2, <3>3, OthersStay DEF Executing
    <2>2. CASE Lapse \/ UNCHANGED voiceVars
      BY <2>2 DEF Lapse, voiceVars, Executing
    <2>3. QED
      BY <2>1, <2>2, NextCases
  <1>2. QED
    BY <1>1, VoiceTypeCorrect, PTL DEF VoiceSpec, WalkedAway

\* The outcome of an action that no request is working on is final: no later
\* word, click, or expiry of another tab's turn changes it.
THEOREM SettledIsFinal == VoiceSpec => SettledForGood
  <1> DEFINE Final(a) == status[a] \in Settled /\ ~InFlight(a)
                         => status'[a] = status[a] /\ ~InFlight(a)'
  <1>1. VoiceTypeOK /\ [VoiceNext]_voiceVars => \A a \in Action : Final(a)
    <2> SUFFICES ASSUME VoiceTypeOK, [VoiceNext]_voiceVars, NEW a \in Action, status[a] \in Settled, ~InFlight(a)
                 PROVE  status'[a] = status[a] /\ ~InFlight(a)'
      OBVIOUS
    <2>1. ASSUME NEW r \in VoiceWorkers, RequestStep(r)
          PROVE  status'[a] = status[a] /\ ~InFlight(a)'
      <3>1. turn[r].action # a /\ a \notin turn[r].stale
        BY DEF InFlight
      <3>2. status[a] \notin {"none", "pending"}
        BY DEF Settled
      <3>3. NoAction # a
        BY VoiceAssumption DEF NoAction, Action
      <3>4. ASSUME NEW b, NEW s, b # a, Commit(r, b, s) PROVE status'[a] = status[a]
        BY <3>1, <3>4, CommitWrites
      <3>5. turn'[r].action # a /\ a \notin turn'[r].stale
        <4>1. CASE StartTurn(r)
          BY <3>2, <3>3, <4>1, TurnStarts DEF Stale, Waiting
        <4>2. CASE OpenConfirm(r) \/ OpenCancel(r)
          BY <3>2, <4>2, AnswerStarts
        <4>3. CASE ConfirmSpoken(r)
          BY <3>1, <4>3, GoesTo, DoingTyped DEF ConfirmSpoken, Doing
        <4>4. CASE ToolRecords(r)
          BY <3>1, <4>4, DoingTyped DEF ToolRecords, Doing, Goes, VoiceTypeOK
        <4>5. CASE ToolPosts(r)
          BY <3>1, <4>5, GoesTo, DoingTyped DEF ToolPosts, Doing
        <4>6. CASE ReadBack(r) \/ FinishTurn(r) \/ Expire(r) \/ Reject(r) \/ ToolFails(r) \/ Finish(r)
                   \/ Cancel(r) \/ Crash(r)
          BY <3>3, <4>6, GoesTo DEF ReadBack, FinishTurn, Expire, Reject, ToolFails, Finish, Cancel, Crash, Idle
        <4>7. QED
          BY <2>1, <4>1, <4>2, <4>3, <4>4, <4>5, <4>6 DEF RequestStep
      <3>6. status'[a] = status[a]
        <4>1. CASE ReadBack(r)
          BY <3>2, <3>4, <4>1 DEF ReadBack
        <4>2. CASE FinishTurn(r) \/ Expire(r) \/ Reject(r) \/ ToolFails(r) \/ ToolRecords(r) \/ Finish(r)
                   \/ Cancel(r)
          BY <3>1, <3>3, <3>4, <4>2 DEF FinishTurn, Expire, Reject, ToolFails, ToolRecords, Finish, Cancel
        <4>3. CASE StartTurn(r) \/ OpenConfirm(r) \/ ConfirmSpoken(r) \/ ToolPosts(r) \/ OpenCancel(r)
                   \/ Crash(r)
          BY <4>3 DEF StartTurn, OpenConfirm, ConfirmSpoken, ToolPosts, OpenCancel, Crash
        <4>4. QED
          BY <2>1, <4>1, <4>2, <4>3 DEF RequestStep
      <3>7. QED
        BY <2>1, <3>5, <3>6, OthersStay DEF InFlight
    <2>2. CASE Lapse \/ UNCHANGED voiceVars
      BY <2>2 DEF Lapse, voiceVars, InFlight
    <2>3. QED
      BY <2>1, <2>2, NextCases
  <1>2. QED
    BY <1>1, VoiceTypeCorrect, PTL DEF VoiceSpec, SettledForGood

-----------------------------------------------------------------------------
(* The dialogue, for any machines, tabs, commands and lapses: what the     *)
(* session's row and its turns carry was said in this conversation, and    *)
(* the pure readings of machines and times, by least counterexamples.      *)

Sayings  == [of : Machines \cup {"none"}, era : 0..MaxLapses]
Contexts == [machine : Sayings, explanation : Sayings]
Turns    == [pc : {"idle", "turn"}, context : Contexts, fresh : BOOLEAN]
ReadBacks ==
    [tier : {"T2", "T3"}, about : Sayings, late : BOOLEAN,
     status : {"pending", "expired", "cancelled", "rejected", "failed", "executed"},
     by : {"nobody", "confirm", "cancel", "repeat", "slower", "button", "pin"}]

DialogueTyped ==
    /\ context \in Contexts /\ fresh \in BOOLEAN /\ era \in 0..MaxLapses
    /\ tab \in [VoiceTabs -> Turns]
    /\ commands \in Seq(ReadBacks) /\ Len(commands) <= MaxCommands

\* Said in this conversation, or not at all.
New(v) == v = Unsaid \/ v.era = era
NewTurn(c) == New(Live(c).machine) /\ New(Live(c).explanation)

DialogueInv == DialogueTyped /\ NothingRevived /\ ActuatedWithPin

LEMMA RevivedIs ==
    NothingRevived <=> /\ NewTurn([context |-> context, fresh |-> fresh])
                       /\ \A t \in VoiceTabs : NewTurn(tab[t])
                       /\ \A k \in DOMAIN commands : Open(k) => New(commands[k].about)
  BY DEF NothingRevived, NewTurn, New

LEMMA EmptyTyped == EmptyContext \in Contexts /\ NoTurn \in Turns /\ Unsaid \in Sayings
  BY DialogueAssumption DEF EmptyContext, Contexts, Sayings, Unsaid, NoTurn, Turns

LEMMA DialogueInvHolds == DialogueInit => DialogueInv
  <1> SUFFICES ASSUME DialogueInit PROVE DialogueInv
    OBVIOUS
  <1>1. DialogueTyped
    <2>1. <<>> \in Seq(ReadBacks) /\ Len(<<>>) = 0 /\ 0 \in 0..MaxLapses /\ 0 <= MaxCommands
      BY DialogueAssumption
    <2>2. [t \in VoiceTabs |-> NoTurn] \in [VoiceTabs -> Turns]
      BY EmptyTyped
    <2>3. QED
      BY <2>1, <2>2, EmptyTyped DEF DialogueInit, DialogueTyped
  <1>2. NothingRevived
    BY RevivedIs DEF DialogueInit, NewTurn, New, Live, NoTurn, EmptyContext
  <1>3. ActuatedWithPin
    BY DEF DialogueInit, ActuatedWithPin
  <1>4. QED
    BY <1>1, <1>2, <1>3 DEF DialogueInv

\* What is remembered is of this conversation if what was said is.
LEMMA RememberNew ==
    ASSUME DialogueTyped, NEW c \in Turns, NewTurn(c), NEW m \in Sayings, NEW e \in Sayings, New(m), New(e)
    PROVE  Remember(c, m, e) \in Turns /\ NewTurn(Remember(c, m, e))
  <1>1. Live(c) \in Contexts
    BY EmptyTyped DEF Live, Turns
  <1>2. Remember(c, m, e) \in Turns
    BY <1>1 DEF Remember, Turns, Contexts
  <1>3. /\ Live(Remember(c, m, e)).machine = IF m = Unsaid THEN Live(c).machine ELSE m
        /\ Live(Remember(c, m, e)).explanation = IF e = Unsaid THEN Live(c).explanation ELSE e
    BY DEF Remember, Live, Turns
  <1>4. QED
    BY <1>2, <1>3 DEF NewTurn

LEMMA SaidNew ==
    ASSUME DialogueTyped, NEW m \in Machines \cup {"none"}
    PROVE  Said(m) \in Sayings /\ New(Said(m)) /\ Unsaid \in Sayings /\ New(Unsaid)
  BY EmptyTyped DEF DialogueTyped, Said, Sayings, New

LEMMA HeardNew ==
    ASSUME DialogueInv, NEW t \in VoiceTabs, NEW m \in Machines \cup {"none"}
    PROVE  /\ Heard(t, m) \in Turns /\ NewTurn(Heard(t, m))
           /\ Machine(t, m) \in Sayings /\ New(Machine(t, m))
           /\ Live(tab[t]) \in Contexts
           /\ New(Live(tab[t]).explanation)
  <1>1. tab[t] \in Turns /\ NewTurn(tab[t])
    BY RevivedIs DEF DialogueInv, DialogueTyped
  <1>2. Live(tab[t]) \in Contexts
    BY <1>1, EmptyTyped DEF Live, Turns
  <1>3. Said(m) \in Sayings /\ New(Said(m)) /\ Unsaid \in Sayings /\ New(Unsaid)
    BY SaidNew DEF DialogueInv
  <1>4. QED
    BY <1>1, <1>2, <1>3, RememberNew DEF Heard, Machine, NewTurn, DialogueInv, Contexts

\* A turn that commits what is of this conversation.
LEMMA CommitNew ==
    ASSUME DialogueInv, NEW t \in VoiceTabs, NEW c \in Turns, NewTurn(c), Commits(t, c), era' = era
    PROVE  /\ context' \in Contexts /\ fresh' \in BOOLEAN /\ tab' \in [VoiceTabs -> Turns]
           /\ NewTurn([context |-> context', fresh |-> fresh'])
           /\ \A u \in VoiceTabs : NewTurn(tab'[u])
  <1>1. /\ tab \in [VoiceTabs -> Turns] /\ context \in Contexts /\ fresh \in BOOLEAN
        /\ NewTurn([context |-> context, fresh |-> fresh]) /\ \A u \in VoiceTabs : NewTurn(tab[u])
    BY RevivedIs DEF DialogueInv, DialogueTyped
  <1>2. \/ context' = context /\ fresh' = fresh
        \/ context' = c.context /\ fresh' = c.fresh
    BY DEF Commits
  <1>3. c.context \in Contexts /\ c.fresh \in BOOLEAN
    BY DEF Turns
  <1>4. NewTurn([context |-> c.context, fresh |-> c.fresh])
    BY DEF NewTurn, Live
  <1>5. tab' = [tab EXCEPT ![t] = NoTurn]
    BY DEF Commits
  <1>6. NewTurn(NoTurn)
    BY DEF NewTurn, New, Live, NoTurn, EmptyContext
  <1>7. QED
    BY <1>1, <1>2, <1>3, <1>4, <1>5, <1>6, EmptyTyped

LEMMA OneSettled ==
    ASSUME DialogueInv, NEW k \in DOMAIN commands,
           NEW s \in {"expired", "cancelled", "rejected", "failed", "executed"},
           NEW by \in {"nobody", "confirm", "cancel", "repeat", "slower", "button", "pin"},
           commands[k].tier = "T3" /\ by # "pin" => s # "executed",
           Settle(k, s, by)
    PROVE  DialogueInv'
  <1>1. /\ commands \in Seq(ReadBacks) /\ Len(commands) <= MaxCommands
    BY DEF DialogueInv, DialogueTyped
  <1>2. commands' = [commands EXCEPT ![k].status = s, ![k].by = by]
    BY DEF Settle
  <1> DEFINE entry == [tier |-> commands[k].tier, about |-> commands[k].about, late |-> commands[k].late,
                    status |-> s, by |-> by]
  <1>12. commands[k] \in ReadBacks /\ entry \in ReadBacks /\ entry.tier = commands[k].tier
    <2>1. commands[k] \in ReadBacks
      BY <1>1
    <2>2. QED
      BY <2>1 DEF ReadBacks
  <1>14. ASSUME NEW r \in ReadBacks
         PROVE  [[r EXCEPT !.status = s] EXCEPT !.by = by]
                  = [tier |-> r.tier, about |-> r.about, late |-> r.late, status |-> s, by |-> by]
    <2> DEFINE q == [r EXCEPT !.status = s]
    <2>2. /\ q \in ReadBacks /\ q.tier = r.tier /\ q.about = r.about /\ q.late = r.late
          /\ q.status = s /\ q.by = r.by
      BY DEF ReadBacks
    <2> HIDE DEF q
    <2>3. [q EXCEPT !.by = by] = [tier |-> q.tier, about |-> q.about, late |-> q.late, status |-> q.status, by |-> by]
      BY <2>2 DEF ReadBacks
    <2>4. [q EXCEPT !.by = by] = [tier |-> r.tier, about |-> r.about, late |-> r.late, status |-> s, by |-> by]
      BY <2>2, <2>3
    <2>5. QED
      BY <2>4 DEF q
  <1>13. commands' = [commands EXCEPT ![k] = entry]
    <2>1. commands' = [commands EXCEPT ![k] = [[commands[k] EXCEPT !.status = s] EXCEPT !.by = by]]
      BY <1>1, <1>2
    <2>2. [[commands[k] EXCEPT !.status = s] EXCEPT !.by = by] = entry
      BY <1>12, <1>14
    <2>3. QED
      BY <2>1, <2>2
  <1> HIDE DEF entry
  <1>3. /\ commands' \in Seq(ReadBacks) /\ Len(commands') = Len(commands) /\ DOMAIN commands' = DOMAIN commands
        /\ \A j \in DOMAIN commands : commands'[j] = IF j = k THEN entry ELSE commands[j]
    BY <1>1, <1>12, <1>13
  <1> USE DEF entry
  <1>4. \A j \in DOMAIN commands :
            IF j = k THEN /\ commands'[j].tier = commands[j].tier /\ commands'[j].status = s
                          /\ commands'[j].by = by
            ELSE commands'[j] = commands[j]
    BY <1>3, <1>12
  <1>5. UNCHANGED <<context, fresh, tab, era>>
    BY DEF Settle
  <1>6. DialogueTyped'
    BY <1>1, <1>3, <1>5 DEF DialogueInv, DialogueTyped
  <1>7. NothingRevived'
    BY <1>3, <1>4, <1>5 DEF DialogueInv, NothingRevived, Open, Live
  <1>8. ActuatedWithPin'
    BY <1>3, <1>4 DEF DialogueInv, ActuatedWithPin
  <1>9. QED
    BY <1>6, <1>7, <1>8 DEF DialogueInv

LEMMA DialogueInvKept == DialogueInv /\ [DialogueNext]_dialogueVars => DialogueInv'
  <1> SUFFICES ASSUME DialogueInv, [DialogueNext]_dialogueVars PROVE DialogueInv'
    OBVIOUS
  <1>0. /\ context \in Contexts /\ fresh \in BOOLEAN /\ era \in 0..MaxLapses /\ tab \in [VoiceTabs -> Turns]
        /\ commands \in Seq(ReadBacks) /\ Len(commands) <= MaxCommands
        /\ NewTurn([context |-> context, fresh |-> fresh]) /\ (\A u \in VoiceTabs : NewTurn(tab[u]))
        /\ \A k \in DOMAIN commands : Open(k) => New(commands[k].about)
    BY RevivedIs DEF DialogueInv, DialogueTyped
  <1>1. ASSUME UNCHANGED <<commands, era>>,
               context' \in Contexts, fresh' \in BOOLEAN, tab' \in [VoiceTabs -> Turns],
               NewTurn([context |-> context', fresh |-> fresh']), \A u \in VoiceTabs : NewTurn(tab'[u])
        PROVE  DialogueInv'
    <2>1. DialogueTyped'
      BY <1>0, <1>1 DEF DialogueTyped
    <2>2. NothingRevived'
      BY <1>0, <1>1 DEF NothingRevived, NewTurn, New, Open, Live
    <2>3. ActuatedWithPin'
      BY <1>1 DEF DialogueInv, ActuatedWithPin
    <2>4. QED
      BY <2>1, <2>2, <2>3 DEF DialogueInv
  <1>2. ASSUME NEW t \in VoiceTabs, BeginDialogueTurn(t) PROVE DialogueInv'
    <2> DEFINE c == [pc |-> "turn", context |-> context, fresh |-> fresh]
    <2>1. c \in Turns /\ NewTurn(c)
      BY <1>0 DEF Turns, NewTurn, Live
    <2>2. /\ tab' = [tab EXCEPT ![t] = c] /\ UNCHANGED <<context, fresh, commands, era>>
      BY <1>2 DEF BeginDialogueTurn
    <2> HIDE DEF c
    <2>3. tab' \in [VoiceTabs -> Turns] /\ \A u \in VoiceTabs : NewTurn(tab'[u])
      BY <1>0, <2>1, <2>2
    <2>4. QED
      BY <1>0, <1>1, <2>2, <2>3
  <1>3. ASSUME NEW t \in VoiceTabs, AsksBack(t) PROVE DialogueInv'
    <2>1. PICK m \in Machines \cup {"none"} : Commits(t, Heard(t, m))
      BY <1>3 DEF AsksBack
    <2>2. UNCHANGED <<commands, era>>
      BY <1>3 DEF AsksBack
    <2>3. Heard(t, m) \in Turns /\ NewTurn(Heard(t, m))
      BY HeardNew
    <2>4. QED
      BY <1>1, <2>1, <2>2, <2>3, CommitNew
  <1>4. ASSUME NEW t \in VoiceTabs, Answers(t) PROVE DialogueInv'
    <2>1. PICK c : /\ Commits(t, c)
                   /\ \E x \in Intents \X (Machines \cup {"none"}) : \E named, e \in {Unsaid, Said(Machine(t, x[2]).of)} :
                        c = Remember(Heard(t, x[2]), named, e)
      BY <1>4 DEF Answers
    <2>2. UNCHANGED <<commands, era>>
      BY <1>4 DEF Answers
    <2>3. PICK x \in Intents \X (Machines \cup {"none"}) : \E named, e \in {Unsaid, Said(Machine(t, x[2]).of)} :
                        c = Remember(Heard(t, x[2]), named, e)
      BY <2>1
    <2>4. x[2] \in Machines \cup {"none"}
      OBVIOUS
    <2>5. Machine(t, x[2]).of \in Machines \cup {"none"}
      BY <2>4, HeardNew DEF Sayings
    <2>6. \A v \in {Unsaid, Said(Machine(t, x[2]).of)} : v \in Sayings /\ New(v)
      BY <2>5, SaidNew DEF DialogueInv
    <2>7. Heard(t, x[2]) \in Turns /\ NewTurn(Heard(t, x[2]))
      BY <2>4, HeardNew
    <2>8. c \in Turns /\ NewTurn(c)
      BY <2>3, <2>6, <2>7, RememberNew DEF DialogueInv
    <2>9. QED
      BY <1>1, <2>1, <2>2, <2>8, CommitNew
  <1>5. ASSUME NEW t \in VoiceTabs, ReadsBack(t) PROVE DialogueInv'
    <2>1. PICK intent \in Intents, m \in Machines \cup {"none"} :
            /\ NeedsConfirmation(intent)
            /\ commands' = Append(commands, [tier |-> Tier[intent], late |-> FALSE, status |-> "pending", by |-> "nobody",
                 about |-> IF intent = "give_feedback" THEN Live(tab[t]).explanation ELSE Machine(t, m)])
            /\ Commits(t, Heard(t, m))
      BY <1>5 DEF ReadsBack
    <2> DEFINE v == IF intent = "give_feedback" THEN Live(tab[t]).explanation ELSE Machine(t, m)
               entry == [tier |-> Tier[intent], late |-> FALSE, status |-> "pending", by |-> "nobody", about |-> v]
    <2>2. era' = era /\ Len(commands) < MaxCommands
      BY <1>5 DEF ReadsBack
    <2>3. v \in Sayings /\ New(v)
      BY HeardNew DEF Contexts
    <2>4. entry \in ReadBacks /\ entry.status = "pending" /\ entry.about = v
      BY <2>1, <2>3 DEF ReadBacks, NeedsConfirmation
    <2>5. commands' = Append(commands, entry)
      BY <2>1
    <2> HIDE DEF entry, v
    <2>6. /\ commands' \in Seq(ReadBacks) /\ Len(commands') = Len(commands) + 1 /\ DOMAIN commands' = 1..(Len(commands) + 1)
          /\ DOMAIN commands = 1..Len(commands) /\ Len(commands) \in Nat
          /\ commands'[Len(commands) + 1] = entry
          /\ \A k \in DOMAIN commands : commands'[k] = commands[k]
      BY <1>0, <2>4, <2>5
    <2>7. Heard(t, m) \in Turns /\ NewTurn(Heard(t, m))
      BY HeardNew
    <2>8. /\ context' \in Contexts /\ fresh' \in BOOLEAN /\ tab' \in [VoiceTabs -> Turns]
          /\ NewTurn([context |-> context', fresh |-> fresh'])
          /\ \A u \in VoiceTabs : NewTurn(tab'[u])
      BY <2>1, <2>2, <2>7, CommitNew
    <2>9. DialogueTyped'
      BY <1>0, <2>2, <2>6, <2>8, DialogueAssumption DEF DialogueTyped
    <2>10. \A k \in DOMAIN commands' : k \in DOMAIN commands \/ k = Len(commands) + 1
      BY <2>6
    <2>11. NothingRevived'
      <3>1. \A k \in DOMAIN commands' : Open(k)' => New(commands'[k].about)
        BY <1>0, <2>3, <2>4, <2>6, <2>10 DEF Open
      <3>2. QED
        BY <2>2, <2>8, <3>1 DEF NothingRevived, NewTurn, New, Live
    <2>12. ActuatedWithPin'
      BY <2>4, <2>6, <2>10 DEF DialogueInv, ActuatedWithPin
    <2>13. QED
      BY <2>9, <2>11, <2>12 DEF DialogueInv
  <1>6. ASSUME NEW k \in DOMAIN commands, NEW by \in {"confirm", "slower", "button", "pin"}, Confirms(k, by)
        PROVE  DialogueInv'
    BY <1>6, OneSettled DEF Confirms
  <1>7. ASSUME NEW word \in {"confirm", "cancel", "repeat", "slower"}, ControlWord(word) PROVE DialogueInv'
    <2>1. PICK k \in DOMAIN commands :
            /\ word # "repeat"
            /\ IF word = "cancel" THEN Settle(k, "cancelled", word) ELSE Confirms(k, word)
      BY <1>7 DEF ControlWord
    <2>2. CASE word = "cancel"
      BY <2>1, <2>2, OneSettled
    <2>3. CASE word # "cancel"
      BY <1>6, <2>1, <2>3
    <2>4. QED
      BY <2>2, <2>3
  <1>8. ASSUME NEW by \in {"button", "pin"}, ConfirmButton(by) PROVE DialogueInv'
    BY <1>6, <1>8 DEF ConfirmButton
  <1>9. CASE CancelButton
    BY <1>9, OneSettled DEF CancelButton
  <1>10. CASE ExpireRead
    BY <1>10, OneSettled DEF ExpireRead
  <1>11. CASE WindowCloses
    <2>1. PICK k \in DOMAIN commands : Open(k) /\ commands' = [commands EXCEPT ![k].late = TRUE]
      BY <1>11 DEF WindowCloses
    <2>2. UNCHANGED <<context, fresh, tab, era>>
      BY <1>11 DEF WindowCloses
    <2> DEFINE entry == [commands[k] EXCEPT !.late = TRUE]
    <2>9. commands[k] \in ReadBacks /\ entry \in ReadBacks /\ commands' = [commands EXCEPT ![k] = entry]
      <3>1. commands[k] \in ReadBacks
        BY <1>0
      <3>2. entry \in ReadBacks
        BY <3>1 DEF ReadBacks
      <3>3. QED
        BY <2>1, <3>1, <3>2
    <2>10. /\ entry.tier = commands[k].tier /\ entry.status = commands[k].status /\ entry.by = commands[k].by
           /\ entry.about = commands[k].about /\ entry.late = TRUE
      BY <2>9 DEF ReadBacks
    <2> HIDE DEF entry
    <2>3. /\ commands' \in Seq(ReadBacks) /\ Len(commands') = Len(commands) /\ DOMAIN commands' = DOMAIN commands
          /\ \A j \in DOMAIN commands : commands'[j] = IF j = k THEN entry ELSE commands[j]
      BY <1>0, <2>9
    <2>4. \A j \in DOMAIN commands : /\ commands'[j].tier = commands[j].tier /\ commands'[j].status = commands[j].status
                                     /\ commands'[j].by = commands[j].by /\ commands'[j].about = commands[j].about
                                     /\ commands'[j].late \in {commands[j].late, TRUE}
      BY <2>3, <2>10
    <2>5. DialogueTyped'
      BY <1>0, <2>2, <2>3 DEF DialogueTyped
    <2>6. NothingRevived'
      <3>1. \A j \in DOMAIN commands' : Open(j)' => New(commands'[j].about)
        BY <1>0, <2>3, <2>4 DEF Open
      <3>2. QED
        BY <1>0, <2>2, <3>1 DEF NothingRevived, NewTurn, New, Live
    <2>7. ActuatedWithPin'
      BY <2>3, <2>4 DEF DialogueInv, ActuatedWithPin
    <2>8. QED
      BY <2>5, <2>6, <2>7 DEF DialogueInv
  <1>12. CASE Silence
    <2>1. /\ era < MaxLapses /\ era' = era + 1 /\ fresh' = FALSE /\ UNCHANGED <<context, tab, commands>>
          /\ \A t \in VoiceTabs : tab[t] = NoTurn
          /\ \A k \in DOMAIN commands : ~Open(k)
      BY <1>12 DEF Silence
    <2>2. DialogueTyped'
      <3>1. era' \in 0..MaxLapses
        BY <1>0, <2>1, DialogueAssumption
      <3>2. QED
        BY <1>0, <2>1, <3>1 DEF DialogueTyped
    <2>3. NothingRevived'
      BY <2>1 DEF NothingRevived, Open, Live, NoTurn, EmptyContext
    <2>4. ActuatedWithPin'
      BY <2>1 DEF DialogueInv, ActuatedWithPin
    <2>5. QED
      BY <2>2, <2>3, <2>4 DEF DialogueInv
  <1>13. CASE UNCHANGED dialogueVars
    BY <1>13 DEF dialogueVars, DialogueInv, DialogueTyped, NothingRevived, ActuatedWithPin, Open, Live
  <1>14. QED
    BY <1>2, <1>3, <1>4, <1>5, <1>7, <1>8, <1>9, <1>10, <1>11, <1>12, <1>13 DEF DialogueNext

-----------------------------------------------------------------------------
(* Understanding. *)

LEMMA UnderstoodIs ==
    ASSUME NEW found \in SUBSET {"exact", "relaxed", "llm"}
    PROVE  Understood(found) <=> found # {}
  <1>1. /\ Confidence["exact"] = 95 /\ Confidence["relaxed"] = 80 /\ Confidence["llm"] = 75
    BY DEF Confidence
  <1>2. CASE found = {}
    BY <1>2 DEF Understood, Stage
  <1>3. CASE found # {}
    <2>1. Stage(found) \in {"exact", "relaxed", "llm"}
      BY <1>3 DEF Stage
    <2>2. Confidence[Stage(found)] >= 60 /\ Stage(found) # "none"
      BY <1>1, <2>1
    <2>3. QED
      BY <1>3, <2>2 DEF Understood
  <1>4. QED
    BY <1>2, <1>3

\* The machine that is resolved clears the threshold and is five points ahead.
LEMMA ResolvedAhead ==
    ASSUME NEW F, IsFiniteSet(F), F # {}, NEW score \in [F -> Int],
           Resolve(score) # "none",
           NEW f \in F, f[1] # Resolve(score)
    PROVE  \E g \in F : g[1] = Resolve(score) /\ score[g] >= Max({85, score[f] + 5})
  <1> DEFINE ms    == {g[1] : g \in F}
             forms(m) == {score[g] : g \in {h \in F : h[1] = m}}
             best  == [m \in ms |-> Max(forms(m))]
             first == CHOOSE m \in ms : \A n \in ms : best[n] <= best[m]
             other == CHOOSE m \in ms \ {first} : \A n \in ms \ {first} : best[n] <= best[m]
  <1>1. ASSUME NEW m \in ms
        PROVE  /\ best[m] \in Int /\ (\A h \in F : h[1] = m => score[h] <= best[m])
               /\ \E g \in F : g[1] = m /\ score[g] = best[m]
    <2> DEFINE G == {h \in F : h[1] = m}
               r == [g \in G |-> score[g]]
    <2>1. IsFiniteSet(G) /\ G # {}
      BY FS_Subset
    <2>2. r \in Surjection(G, forms(m))
      BY DEF Surjection
    <2>3. IsFiniteSet(forms(m))
      BY <2>1, <2>2, FS_Surjection
    <2>4. forms(m) # {} /\ forms(m) \subseteq Int
      BY <2>1
    <2>5. best[m] = Max(forms(m))
      BY DEF best
    <2>6. best[m] \in forms(m) /\ \A y \in forms(m) : best[m] >= y
      <3> HIDE DEF best, forms
      <3> QED BY <2>3, <2>4, <2>5, MaxIs
    <2> HIDE DEF best
    <2>7. \A h \in F : h[1] = m => score[h] \in forms(m)
      OBVIOUS
    <2>8. best[m] \in Int /\ \A h \in F : h[1] = m => score[h] <= best[m]
      BY <2>4, <2>6, <2>7
    <2>9. QED
      BY <2>6, <2>8
  <1>2. IsFiniteSet(ms)
    <2> DEFINE p == [g \in F |-> g[1]]
    <2>1. p \in Surjection(F, ms)
      BY DEF Surjection
    <2>2. QED
      BY <2>1, FS_Surjection
  <1>3. f[1] \in ms
    OBVIOUS
  <1>4. Rank(score) = IF Cardinality(ms) = 1 THEN <<[ref |-> first, score |-> best[first]]>>
                      ELSE <<[ref |-> first, score |-> best[first]], [ref |-> other, score |-> best[other]]>>
    BY DEF Rank
  <1>5. ASSUME NEW N \in SUBSET ms, N # {}
        PROVE  \E m \in N : \A n \in N : best[n] <= best[m]
    <2> DEFINE B == {best[n] : n \in N}
               q == [n \in N |-> best[n]]
    <2>0. IsFiniteSet(N)
      BY <1>2, FS_Subset
    <2>9. \A n \in N : best[n] \in Int
      <3>1. \A n \in ms : best[n] \in Int
        BY <1>1
      <3> HIDE DEF best, ms
      <3>2. QED
        BY <3>1
    <2>1. IsFiniteSet(N) /\ B # {} /\ B \subseteq Int
      <3> HIDE DEF best, ms
      <3> QED BY <1>5, <2>0, <2>9
    <2>2. q \in Surjection(N, B)
      BY DEF Surjection
    <2>3. IsFiniteSet(B)
      BY <2>1, <2>2, FS_Surjection
    <2>4. Max(B) \in B /\ \A y \in B : Max(B) >= y
      <3> HIDE DEF B
      <3> QED BY <2>1, <2>3, MaxIs
    <2>5. PICK m \in N : best[m] = Max(B)
      BY <2>4
    <2>6. \A n \in N : best[n] \in B /\ best[n] \in Int
      BY <1>1
    <2> HIDE DEF B, best
    <2>7. \A n \in N : best[n] <= best[m]
      BY <2>4, <2>5, <2>6
    <2>8. QED
      BY <2>7
  <1> HIDE DEF ms, best
  <1>6. first \in ms /\ \A n \in ms : best[n] <= best[first]
    BY <1>3, <1>5
  <1>7. Cardinality(ms) = 1 => ms = {first}
    BY <1>2, <1>6, FS_Singleton
  <1>8. CASE Cardinality(ms) = 1
    <2>1. f[1] = first
      BY <1>3, <1>7, <1>8
    <2>2. Rank(score) = <<[ref |-> first, score |-> best[first]]>>
      BY <1>4, <1>8
    <2> DEFINE c == <<[ref |-> first, score |-> best[first]]>>
    <2>3. Resolve(score) = IF c[1].score < 85 \/ (Len(c) > 1 /\ c[1].score - c[2].score < 5) THEN "none" ELSE c[1].ref
      BY <2>2 DEF Resolve
    <2>4. c[1].ref = first
      OBVIOUS
    <2> HIDE DEF c, first
    <2>5. Resolve(score) = first
      BY <2>3, <2>4
    <2>6. QED
      BY <2>1, <2>5
  <1>9. CASE Cardinality(ms) # 1
    <2> HIDE DEF first, other
    <2>1. Rank(score) = <<[ref |-> first, score |-> best[first]], [ref |-> other, score |-> best[other]]>>
      BY <1>4, <1>9
    <2>2. Resolve(score) = IF best[first] < 85 \/ best[first] - best[other] < 5 THEN "none" ELSE first
      BY <2>1 DEF Resolve
    <2>3. Resolve(score) = first /\ ~(best[first] < 85) /\ ~(best[first] - best[other] < 5)
      BY <2>2
    <2>4. f[1] \in ms \ {first}
      BY <1>3, <2>3
    <2>5. other \in ms \ {first} /\ \A n \in ms \ {first} : best[n] <= best[other]
      <3>1. \E m \in ms \ {first} : \A n \in ms \ {first} : best[n] <= best[m]
        BY <1>5, <2>4
      <3>2. QED
        BY <3>1 DEF other
    <2>6. PICK g \in F : g[1] = first /\ score[g] = best[first]
      BY <1>1, <1>6
    <2>7. score[f] <= best[f[1]] /\ best[f[1]] <= best[other] /\ best[f[1]] \in Int
      BY <1>1, <1>3, <2>4, <2>5
    <2>8. best[first] \in Int /\ best[other] \in Int /\ score[f] \in Int
      BY <1>1, <1>6, <2>5
    <2>9. best[first] >= 85 /\ best[first] >= score[f] + 5
      BY <2>3, <2>7, <2>8
    <2>10. Max({85, score[f] + 5}) \in {85, score[f] + 5}
      <3> DEFINE v == score[f] + 5
      <3>0. v \in Int
        BY <2>8
      <3> HIDE DEF v
      <3>3. {85, v} = {85} \cup {v}
        OBVIOUS
      <3>4. IsFiniteSet({85, v})
        <4>1. IsFiniteSet({85})
          BY FS_Singleton
        <4>2. IsFiniteSet({85} \cup {v})
          BY <4>1, FS_AddElement
        <4>3. QED
          BY <3>3, <4>2
      <3>5. {85, v} \subseteq Int /\ {85, v} # {}
        BY <3>0
      <3>6. Max({85, v}) \in {85, v}
        BY <3>4, <3>5, MaxIs
      <3> USE DEF v
      <3>2. QED
        BY <3>6
    <2>11. QED
      BY <2>3, <2>6, <2>9, <2>10
  <1>10. QED
    BY <1>8, <1>9

\* Half a name is taken only where there is nothing else.
LEMMA BestWhole ==
    ASSUME NEW readings \in (SUBSET [torn : BOOLEAN, captured : {3, 8}, open : {1}]) \ {{}},
           Best(readings).torn
    PROVE  \A r \in readings : r.torn
  <1> DEFINE key == [r \in readings |-> 10000 * (IF r.torn THEN 1 ELSE 0) + 100 * r.captured + r.open]
             T == {key[r] : r \in readings}
  <1>1. \A r \in readings : key[r] \in Nat /\ (r.torn => key[r] > 9999) /\ (~r.torn => key[r] < 9999)
    OBVIOUS
  <1>2. T \subseteq Nat /\ T # {}
    <2>1. \A r \in readings : key[r] \in Nat
      BY <1>1
    <2>2. readings # {}
      OBVIOUS
    <2> HIDE DEF key
    <2>3. T \subseteq Nat
      BY <2>1
    <2>4. T # {}
      BY <2>2
    <2>5. QED
      BY <2>3, <2>4
  <1>3. \E r \in readings : \A q \in readings : key[r] <= key[q]
    <2>1. PICK k \in T : \A j \in T : k <= j
      <3> HIDE DEF T
      <3> QED BY <1>2, LeastOf
    <2>2. QED
      BY <2>1
  <1>4. Best(readings) \in readings /\ \A q \in readings : key[Best(readings)] <= key[q]
    <2>1. Best(readings) = CHOOSE r \in readings : \A q \in readings : key[r] <= key[q]
      BY DEF Best
    <2> HIDE DEF key
    <2>2. QED
      BY <1>3, <2>1
  <1> HIDE DEF key
  <1>5. QED
    BY <1>1, <1>4

LEMMA MachineMeant == MeantMachine
  <1> DEFINE F == {"m1", "m2", "m3"} \X {"code"} \cup {<<"m1", "name">>}
  <1>1. IsFiniteSet(F) /\ F # {}
    <2>1. IsFiniteSet({"m1", "m2", "m3"}) /\ IsFiniteSet({"code"}) /\ IsFiniteSet({<<"m1", "name">>})
      <3>1. {"m1", "m2", "m3"} = ({"m1"} \cup {"m2"}) \cup {"m3"}
        OBVIOUS
      <3>2. IsFiniteSet({"m1"} \cup {"m2"})
        BY FS_AddElement, FS_Singleton
      <3>3. IsFiniteSet(({"m1"} \cup {"m2"}) \cup {"m3"})
        BY <3>2, FS_AddElement
      <3>4. QED
        BY <3>1, <3>3, FS_Singleton
    <2>2. QED
      BY <2>1, FS_Product, FS_Union
  <1>2. ASSUME NEW score \in [F -> {60, 84, 88, 92}]
        PROVE  LET m == Resolve(score) IN
               m # "none" => \A f \in DOMAIN score : f[1] # m =>
                  \E g \in DOMAIN score : g[1] = m /\ score[g] >= Max({85, score[f] + 5})
    <2>1. score \in [F -> Int] /\ DOMAIN score = F
      OBVIOUS
    <2> HIDE DEF F
    <2>2. QED
      BY <1>1, <2>1, ResolvedAhead
  <1>3. QED
    BY <1>2, UnderstoodIs, BestWhole DEF MeantMachine

-----------------------------------------------------------------------------
Hour(s) == IF s.hour = 0 THEN 8 ELSE s.hour

LEMMA DayOf ==
    ASSUME NEW d \in Nat, NEW h \in 0..23
    PROVE  (24 * d + h) \div 24 = d /\ 24 * d + h \in Nat
  OBVIOUS

\* As many days ahead as there are to the weekday.
LEMMA WeekdayAhead ==
    ASSUME NEW d \in Nat, NEW w \in 0..6
    PROVE  LET ahead == (w - DayOfWeek(d)) % 7 IN
           /\ ahead \in 0..6
           /\ DayOfWeek(d + ahead) = w /\ DayOfWeek(d + ahead + 7) = w
  BY DEF DayOfWeek

LEMMA SpokenAhead ==
    ASSUME NEW d \in Nat, NEW h \in 0..23,
           NEW s \in [day : {"tomorrow", "weekday", "week", "none"}, weekday : 0..6, again : BOOLEAN, hour : 0..23]
    PROVE  LET at == SpokenTime(s, 24 * d + h) IN
           at # 0 => at > 24 * d + h /\ (s.day = "weekday" => DayOfWeek(at \div 24) = s.weekday)
  <1> DEFINE now   == 24 * d + h
             base  == 24 * d + Hour(s)
             ahead == (s.weekday - DayOfWeek(d)) % 7
             at    == SpokenTime(s, now)
             w     == WeeksAhead(ahead, s.again, base <= now)
  <1>1. now \div 24 = d /\ now \in Nat
    BY DayOf
  <1>2. Hour(s) \in 1..23 /\ base \in Nat
    BY DEF Hour
  <1>3. at = CASE s.day = "tomorrow" -> base + 24
               [] s.day = "today"    -> base
               [] s.day = "weekday"  -> base + 24 * w
               [] s.day = "week"     -> base + 168
               [] s.day = "none" /\ s.hour # 0 -> IF base > now THEN base ELSE base + 24
               [] OTHER              -> 0
    BY <1>1 DEF SpokenTime, Hour
  <1>4. base + 24 > now /\ base + 168 > now
    BY <1>2
  <1>5. ahead \in 0..6 /\ DayOfWeek(d + ahead) = s.weekday /\ DayOfWeek(d + ahead + 7) = s.weekday
    BY WeekdayAhead
  <1>6. CASE s.day = "weekday"
    <2>1. at = base + 24 * w
      <3> HIDE DEF at, base, now, w
      <3>1. "weekday" # "tomorrow" /\ "weekday" # "today" /\ "weekday" # "week"
        OBVIOUS
      <3>2. ~(s.day = "tomorrow") /\ ~(s.day = "today") /\ ~(s.day = "week")
        BY <1>6, <3>1
      <3>3. QED
        BY <1>3, <1>6, <3>2
    <2>2. w \in {ahead, ahead + 7} /\ (ahead = 0 /\ base <= now => w = 7)
      BY <1>5 DEF WeeksAhead
    <2>3. base + 24 * w = 24 * (d + w) + Hour(s) /\ d + w \in Nat
      BY <1>2, <1>5, <2>2
    <2>4. (base + 24 * w) \div 24 = d + w
      BY <1>2, <2>3, DayOf
    <2>5. DayOfWeek(d + w) = s.weekday
      BY <1>5, <2>2
    <2>6. base + 24 * w > now
      <3> HIDE DEF w, ahead
      <3>1. CASE ahead = 0 /\ ~(base <= now)
        BY <1>1, <1>2, <1>5, <2>2, <3>1
      <3>2. CASE ~(ahead = 0 /\ ~(base <= now))
        <4>1. w \in Nat /\ w >= 1
          BY <1>5, <2>2, <3>2
        <4> HIDE DEF base, now
        <4>2. base + 24 * w >= base + 24
          BY <1>2, <4>1
        <4>3. QED
          BY <1>1, <1>2, <1>4, <4>1, <4>2
      <3>3. QED
        BY <3>1, <3>2
    <2> HIDE DEF at, w, base, ahead, now
    <2>7. at > now /\ DayOfWeek(at \div 24) = s.weekday
      BY <2>1, <2>4, <2>5, <2>6
    <2> USE DEF at, now
    <2>8. QED
      BY <2>7
  <1>7. CASE s.day # "weekday"
    <2>1. at \in {base + 24, base + 168, 0} \/ (at = base /\ base > now)
      <3>1. s.day \in {"tomorrow", "week", "none"}
        BY <1>7
      <3> HIDE DEF at, base, now, w
      <3>2. CASE s.day = "tomorrow"
        BY <1>3, <3>2
      <3>3. CASE s.day = "week"
        BY <1>3, <3>3
      <3>4. CASE s.day = "none" /\ s.hour # 0
        BY <1>3, <3>4
      <3>5. CASE s.day = "none" /\ s.hour = 0
        BY <1>3, <3>5
      <3>6. QED
        BY <3>1, <3>2, <3>3, <3>4, <3>5
    <2> HIDE DEF at, base, now
    <2>2. at # 0 => at > now
      BY <1>4, <2>1
    <2> USE DEF at, now
    <2>3. QED
      BY <1>7, <2>2
  <1>8. QED
    BY <1>6, <1>7

LEMMA MonthIs ==
    /\ \A d \in 59..89 : FirstOfMonth(d) = 59
    /\ FirstOfMonth(90) = 90 /\ FirstOfMonth(58) = 31 /\ NextMonth(59) = 90 /\ NextMonth(31) = 59
  <1>1. ASSUME NEW day \in Nat, NEW m \in MonthStarts, m <= day, \A n \in MonthStarts : n <= day => n <= m
        PROVE  FirstOfMonth(day) = m
    BY <1>1 DEF FirstOfMonth, MonthStarts, Max
  <1>2. \A d \in 59..89 : FirstOfMonth(d) = 59
    BY <1>1 DEF MonthStarts
  <1>3. FirstOfMonth(90) = 90 /\ FirstOfMonth(58) = 31
    BY <1>1 DEF MonthStarts
  <1>4. QED
    BY <1>2, <1>3 DEF NextMonth

\* This bucket and the last one, on a day of March.
LEMMA BucketsMeet ==
    ASSUME NEW d \in 59..89, NEW h \in 0..23, NEW bucket \in {"hour", "day", "week", "month", "shift"}
    PROVE  LET now  == 24 * d + h
               this == Bounds(bucket, 0, now)
               last == Bounds(bucket, -1, now) IN
           /\ last[2] = this[1] /\ last[1] < last[2]
           /\ (bucket # "shift" => this[1] <= now /\ now < this[2])
  <1> DEFINE now  == 24 * d + h
             this == Bounds(bucket, 0, now)
             last == Bounds(bucket, -1, now)
             week(offset) == d - DayOfWeek(d) + 7 * offset
  <1>1. now \div 24 = d /\ now \in Nat
    BY DayOf
  <1>2. DayOfWeek(d) \in 0..6 /\ FirstOfMonth(d) = 59
    BY MonthIs DEF DayOfWeek
  <1>3. CASE bucket = "hour"
    BY <1>1, <1>3 DEF Bounds
  <1>4. CASE bucket = "day"
    BY <1>1, <1>4 DEF Bounds
  <1>5. CASE bucket = "week"
    <2>1. this = <<24 * week(0), 24 * (week(0) + 7)>> /\ last = <<24 * week(-1), 24 * (week(-1) + 7)>>
      BY <1>1, <1>5 DEF Bounds
    <2>2. QED
      BY <1>1, <1>2, <1>5, <2>1
  <1>6. CASE bucket = "month"
    <2>1. this = <<24 * 59, 24 * 90>> /\ last = <<24 * 31, 24 * 59>>
      BY <1>1, <1>2, <1>6, MonthIs DEF Bounds
    <2>2. QED
      BY <1>1, <2>1
  <1>7. CASE bucket = "shift"
    BY <1>1, <1>7 DEF Bounds
  <1>8. QED
    BY <1>3, <1>4, <1>5, <1>6, <1>7

LEMMA TimesSpoken == SpokenTimes
  <1> DEFINE hours == {24 * d + h : d \in 59..67, h \in {0, 8, 13, 23}}
  <1>1. \A s \in [day : {"tomorrow", "weekday", "week", "none"}, weekday : {0, 4}, again : BOOLEAN, hour : {0, 8, 18}] :
         \A now \in hours :
           LET at == SpokenTime(s, now) IN
           at # 0 => at > now /\ (s.day = "weekday" => DayOfWeek(at \div 24) = s.weekday)
    <2>1. TAKE s \in [day : {"tomorrow", "weekday", "week", "none"}, weekday : {0, 4}, again : BOOLEAN, hour : {0, 8, 18}]
    <2>2. TAKE now \in hours
    <2>3. PICK d \in 59..67, h \in {0, 8, 13, 23} : now = 24 * d + h
      BY <2>2
    <2>4. s \in [day : {"tomorrow", "weekday", "week", "none"}, weekday : 0..6, again : BOOLEAN, hour : 0..23]
      BY <2>1
    <2>5. d \in Nat /\ h \in 0..23
      OBVIOUS
    <2>6. LET at == SpokenTime(s, 24 * d + h) IN
          at # 0 => at > 24 * d + h /\ (s.day = "weekday" => DayOfWeek(at \div 24) = s.weekday)
      BY <2>4, <2>5, SpokenAhead
    <2>7. QED
      BY <2>3, <2>6
  <1>2. \A bucket \in {"hour", "day", "week", "month", "shift"} : \A now \in hours :
         LET this == Bounds(bucket, 0, now)
             last == Bounds(bucket, -1, now) IN
         /\ last[2] = this[1] /\ last[1] < last[2]
         /\ bucket # "shift" => this[1] <= now /\ now < this[2]
    <2>1. TAKE bucket \in {"hour", "day", "week", "month", "shift"}
    <2>2. TAKE now \in hours
    <2>3. PICK d \in 59..67, h \in {0, 8, 13, 23} : now = 24 * d + h
      BY <2>2
    <2>4. d \in 59..89 /\ h \in 0..23
      OBVIOUS
    <2>5. LET this == Bounds(bucket, 0, 24 * d + h)
              last == Bounds(bucket, -1, 24 * d + h) IN
          /\ last[2] = this[1] /\ last[1] < last[2]
          /\ (bucket # "shift" => this[1] <= 24 * d + h /\ 24 * d + h < this[2])
      <3> HIDE DEF hours
      <3> QED BY <2>1, <2>4, BucketsMeet, Zenon
    <2>6. QED
      BY <2>3, <2>5
  <1>3. QED
    BY <1>1, <1>2 DEF SpokenTimes

-----------------------------------------------------------------------------
(* Results. *)

\* What a turn takes from the session's context, and what its read-back is
\* about, was said in this conversation (the two minutes of _live_context), an
\* actuation is executed with the second factor only (confirm), and the types
\* of the row and its turns hold: _remember and the commit of a turn that read
\* the context before another wrote it keep all of it.
THEOREM DialogueInvariant == DialogueSpec => []DialogueInv
  BY DialogueInvHolds, DialogueInvKept, PTL DEF DialogueSpec

\* The row of the session, its turns and the read-backs keep their types.
THEOREM DialogueTypeCorrect == DialogueSpec => []DialogueTypeOK
  <1>1. DialogueInv => DialogueTypeOK
    <2> SUFFICES ASSUME DialogueTyped PROVE DialogueTypeOK
      BY DEF DialogueInv
    <2>1. \A k \in DOMAIN commands : commands[k] \in ReadBacks
      BY DEF DialogueTyped
    <2>2. QED
      BY <2>1 DEF DialogueTyped, DialogueTypeOK, Contexts, Sayings, Turns, ReadBacks
  <1>2. QED
    BY <1>1, DialogueInvariant, PTL

\* What is said is done to what was meant: the context is this conversation's,
\* an actuation needs its PIN (confirm), resolve takes a machine only five
\* points ahead of the next, and parse_datetime and _bucket_bounds name the
\* time that was said.
THEOREM DialogueStaysSound == DialogueSpec => []DialogueSound
  <1>1. DialogueInv => DialogueSound
    BY MachineMeant, TimesSpoken DEF DialogueInv, DialogueSound
  <1>2. QED
    BY <1>1, DialogueInvariant, PTL

-----------------------------------------------------------------------------
(* Trainings, bundles and exports, for any number of them: how far a       *)
(* training is says which files its directory holds, how far an export is  *)
(* which ones the device's copy does.                                      *)

Fitting == [pc : {"idle", "fit", "save", "write", "register", "finish"}, id : TrainingIds, version : 0..MaxSecond,
            left : Seq(Files)]

TrainingTyped ==
    /\ second \in Version /\ trainings \in TrainingIds /\ mishaps \in 0..MaxMishaps
    /\ disk \in [Version -> [Files -> Contents]] /\ copied \in [Version -> [Files -> Contents]]
    /\ registered \in [Version -> TrainingIds] /\ collided \in SUBSET Version /\ orphaned \in SUBSET Version
    /\ trainer \in [Trainers -> Fitting]
    /\ exporter \in [version : 0..MaxSecond, left : Seq(Files)]

\* What is left of a list once k are done.
After(s, k) == SubSeq(s, k + 1, Len(s))

\* A training has a number and a version, and the files it has yet to write.
Numbered ==
    \A w \in Trainers : trainer[w].pc # "idle" =>
        /\ trainer[w].version \in Version /\ trainer[w].id \in 1..MaxTrainings
        /\ trainer[w].pc = "fit" => trainer[w].left = After(FileOrder, 0)
        /\ trainer[w].pc = "save" => \E k \in 0..4 : trainer[w].left = After(FileOrder, k)
        /\ trainer[w].pc = "write" => trainer[w].left = After(FileOrder, 4)

\* No version that has not collided is of two trainings.
VersionAlone ==
    \A w, u \in Trainers :
        trainer[w].pc # "idle" /\ trainer[u].pc # "idle" /\ trainer[w].version = trainer[u].version
          /\ trainer[w].version \notin collided => w = u

\* How far a training is, its directory is, and its row.
DirectoryOf(w) ==
    LET t == trainer[w] IN
    /\ t.pc \in {"fit", "save"} =>
         /\ registered[t.version] = 0
         /\ \A k \in 0..4 : t.left = After(FileOrder, k) =>
              \A i \in 1..5 : disk[t.version][FileOrder[i]] = IF i <= k THEN t.id ELSE NoFile
    /\ t.pc = "write" =>
         /\ registered[t.version] = 0
         /\ \A i \in 1..5 : disk[t.version][FileOrder[i]] = IF i <= 4 THEN t.id ELSE Torn
    /\ t.pc \in {"register", "finish"} => \A f \in Files : disk[t.version][f] = t.id
    /\ t.pc = "register" => registered[t.version] = 0
    /\ t.pc = "finish" => registered[t.version] = t.id

Directories ==
    \A w \in Trainers : trainer[w].pc # "idle" /\ trainer[w].version \notin collided => DirectoryOf(w)

\* What BundlesWhole says of the files of a bundle.
BundlesComplete ==
    \A v \in Version \ collided :
       /\ disk[v]["bundle.json"] # NoFile => \E id \in 1..MaxTrainings : Whole(disk, v, Files, id)
       /\ registered[v] # 0 => \A f \in Files : disk[v][f] = registered[v]

\* Every bundle, not the newest only, is known.
KnownOf(v) ==
    registered[v] # 0 \/ \E w \in Trainers : trainer[w].version = v /\ trainer[w].pc \in {"write", "register"}

BundlesKnown ==
    \A v \in Version \ (collided \cup orphaned) : disk[v]["bundle.json"] # NoFile => KnownOf(v)

\* What the export has copied is the bundle's, and a bundle that is on the
\* device is there whole unless it is the one being copied.
Copied(v, files) == Whole(copied, v, files, disk[v]["model.onnx"])

Exporting ==
    exporter # NoExport =>
        /\ exporter.version \in Version /\ disk[exporter.version]["bundle.json"] # NoFile
        /\ \E k \in 0..3 :
             /\ exporter.left = After(EdgeFiles, k)
             /\ exporter.version \notin collided => Copied(exporter.version, {EdgeFiles[i] : i \in 1..k})

DeviceWhole ==
    \A v \in Version \ (collided \cup orphaned) :
        copied[v]["bundle.json"] # NoFile /\ exporter.version # v =>
            disk[v]["bundle.json"] # NoFile /\ Copied(v, ToSet(EdgeFiles))

TrainingInv ==
    /\ TrainingTyped /\ Numbered /\ VersionAlone /\ Directories /\ BundlesComplete /\ BundlesKnown
    /\ Exporting /\ DeviceWhole

-----------------------------------------------------------------------------
LEMMA AfterIs ==
    ASSUME NEW S, NEW s \in Seq(S), NEW k \in 0..(Len(s) - 1)
    PROVE  /\ After(s, k) \in Seq(S) /\ Len(After(s, k)) = Len(s) - k /\ k + 1 \in 1..Len(s)
           /\ Head(After(s, k)) = s[k + 1] /\ s[k + 1] \in S
           /\ Tail(After(s, k)) = After(s, k + 1)
           /\ Tail(After(s, k)) \in Seq(S)
  <1>1. Len(s) \in Nat /\ DOMAIN s = 1..Len(s) /\ k \in Nat
    OBVIOUS
  <1>2. After(s, k) \in Seq(S) /\ Len(After(s, k)) = Len(s) - k
    BY <1>1 DEF After
  <1>3. \A i \in 1..(Len(s) - k) : After(s, k)[i] = s[k + i]
    BY <1>1 DEF After
  <1>4. Head(After(s, k)) = s[k + 1] /\ s[k + 1] \in S
    BY <1>1, <1>2, <1>3
  <1>5. /\ Tail(After(s, k)) \in Seq(S) /\ Len(Tail(After(s, k))) = Len(s) - k - 1
        /\ \A i \in 1..(Len(s) - k - 1) : Tail(After(s, k))[i] = s[k + i + 1]
    <2> DEFINE a == After(s, k)
               n == Len(s) - k
    <2>9. n \in Nat /\ n # 0 /\ a \in Seq(S) /\ Len(a) = n
      <3>1. n \in Nat /\ n # 0
        <4> DEFINE l == Len(s)
        <4>1. l \in Nat /\ k \in 0..(l - 1)
          BY <1>1
        <4> HIDE DEF l
        <4>2. l - k \in Nat /\ l - k # 0
          BY <4>1
        <4>3. QED
          BY <4>2 DEF l
      <3>2. QED
        BY <1>2, <3>1
    <2>1. a \in Seq(S) /\ Len(a) = n /\ n \in Nat \ {0} /\ a # <<>>
      <3> HIDE DEF a, n
      <3> QED BY <2>9
    <2>2. \A i \in 1..n : a[i] = s[k + i]
      BY <1>3
    <2> HIDE DEF a, n
    <2>3. Tail(a) \in Seq(S) /\ Len(Tail(a)) = n - 1
      BY <2>1
    <2>4. \A i \in 1..(n - 1) : Tail(a)[i] = a[i + 1] /\ i + 1 \in 1..n /\ i \in Int
      BY <2>1
    <2>5. \A i \in 1..(n - 1) : Tail(a)[i] = s[k + (i + 1)] /\ i \in Int
      BY <2>2, <2>4
    <2>6. \A i \in Int : k + (i + 1) = k + i + 1
      BY <1>1
    <2>7. \A i \in 1..(n - 1) : Tail(a)[i] = s[k + i + 1]
      BY <2>5, <2>6
    <2> USE DEF a, n
    <2>8. QED
      BY <2>3, <2>7
  <1>6. /\ After(s, k + 1) \in Seq(S) /\ Len(After(s, k + 1)) = Len(s) - k - 1
        /\ \A i \in 1..(Len(s) - k - 1) : After(s, k + 1)[i] = s[k + i + 1]
    BY <1>1, SMTT(60) DEF After
  <1>7. Tail(After(s, k)) = After(s, k + 1)
    <2> DEFINE x == Tail(After(s, k))
               y == After(s, k + 1)
    <2>1. x \in Seq(S) /\ y \in Seq(S) /\ Len(x) = Len(y) /\ Len(x) \in Nat /\ \A i \in 1..Len(x) : x[i] = y[i]
      <3>1. Len(s) - k - 1 \in Nat
        BY <1>1
      <3>2. QED
        BY <1>5, <1>6, <3>1
    <2> HIDE DEF x, y
    <2>2. x = y
      BY <2>1
    <2> QED BY <2>2 DEF x, y
  <1>8. QED
    BY <1>1, <1>2, <1>4, <1>5, <1>7

LEMMA FilesAre ==
    /\ Files = {"model.onnx", "anomaly.onnx", "model.pkl", "booster.txt", "bundle.json"}
    /\ FileOrder \in Seq(Files) /\ Len(FileOrder) = 5 /\ FileOrder[5] = "bundle.json"
    /\ \A i, j \in 1..5 : FileOrder[i] = FileOrder[j] => i = j
    /\ \A f \in Files : \E i \in 1..5 : f = FileOrder[i]
    /\ EdgeFiles \in Seq(Files) /\ Len(EdgeFiles) = 4
    /\ ToSet(EdgeFiles) = {EdgeFiles[i] : i \in 1..4} /\ ToSet(EdgeFiles) \subseteq Files
    /\ "bundle.json" \in Files /\ "bundle.json" \in ToSet(EdgeFiles)
  <1>1. ToSet(FileOrder) = {"model.onnx", "anomaly.onnx", "model.pkl", "booster.txt", "bundle.json"}
    BY DEF ToSet, FileOrder
  <1>2. Files = {"model.onnx", "anomaly.onnx", "model.pkl", "booster.txt", "bundle.json"}
    BY <1>1 DEF Files
  <1>3. ToSet(EdgeFiles) = {"bundle.json", "model.onnx", "booster.txt", "anomaly.onnx"}
    BY DEF ToSet, EdgeFiles
  <1>4. FileOrder \in Seq(Files) /\ Len(FileOrder) = 5 /\ EdgeFiles \in Seq(Files) /\ Len(EdgeFiles) = 4
    BY <1>2 DEF FileOrder, EdgeFiles
  <1>5. ToSet(EdgeFiles) = {EdgeFiles[i] : i \in 1..4}
    BY DEF ToSet, EdgeFiles
  <1>6. /\ FileOrder[1] = "model.onnx" /\ FileOrder[2] = "anomaly.onnx" /\ FileOrder[3] = "model.pkl"
        /\ FileOrder[4] = "booster.txt" /\ FileOrder[5] = "bundle.json"
    BY DEF FileOrder
  <1>7. \A i \in 1..5 : i = 1 \/ i = 2 \/ i = 3 \/ i = 4 \/ i = 5
    OBVIOUS
  <1>8. \A i, j \in 1..5 : FileOrder[i] = FileOrder[j] => i = j
    BY <1>6, <1>7
  <1>9. \A f \in Files : \E i \in 1..5 : f = FileOrder[i]
    BY <1>2, <1>6
  <1>10. QED
    BY <1>2, <1>3, <1>4, <1>5, <1>6, <1>8, <1>9

LEMMA FileOrderAfter ==
    ASSUME NEW k \in 0..4
    PROVE  /\ Len(After(FileOrder, k)) = 5 - k /\ Head(After(FileOrder, k)) = FileOrder[k + 1]
           /\ Tail(After(FileOrder, k)) = After(FileOrder, k + 1)
           /\ k + 1 \in 1..5 /\ FileOrder[k + 1] \in Files /\ Tail(After(FileOrder, k)) \in Seq(Files)
           /\ \A j \in 0..4 : After(FileOrder, k) = After(FileOrder, j) => j = k
  <1>1. ASSUME NEW j \in 0..4
        PROVE  /\ Len(After(FileOrder, j)) = 5 - j /\ Head(After(FileOrder, j)) = FileOrder[j + 1]
               /\ Tail(After(FileOrder, j)) = After(FileOrder, j + 1)
               /\ j + 1 \in 1..5 /\ FileOrder[j + 1] \in Files /\ Tail(After(FileOrder, j)) \in Seq(Files)
    <2>1. FileOrder \in Seq(Files) /\ Len(FileOrder) = 5
      BY FilesAre
    <2>2. j \in 0..(Len(FileOrder) - 1)
      BY <2>1
    <2>3. /\ Len(After(FileOrder, j)) = Len(FileOrder) - j /\ Head(After(FileOrder, j)) = FileOrder[j + 1]
          /\ Tail(After(FileOrder, j)) = After(FileOrder, j + 1)
          /\ j + 1 \in 1..Len(FileOrder) /\ FileOrder[j + 1] \in Files /\ Tail(After(FileOrder, j)) \in Seq(Files)
      BY <2>1, <2>2, AfterIs
    <2>4. QED
      BY <2>1, <2>3
  <1>2. ASSUME NEW j \in 0..4, After(FileOrder, k) = After(FileOrder, j) PROVE j = k
    <2>1. 5 - k = 5 - j
      BY <1>1, <1>2
    <2>2. QED
      BY <2>1
  <1>3. QED
    BY <1>1, <1>2

LEMMA NoTrainingTyped == NoTraining \in Fitting /\ NoExport \in [version : 0..MaxSecond, left : Seq(Files)]
  BY TrainingAssumption DEF NoTraining, NoExport, Fitting, TrainingIds

LEMMA TrainingInvHolds == TrainingInit => TrainingInv
  <1> SUFFICES ASSUME TrainingInit PROVE TrainingInv
    OBVIOUS
  <1>1. EmptyBundle \in [Files -> Contents] /\ \A f \in Files : EmptyBundle[f] = NoFile
    BY TrainingAssumption DEF EmptyBundle, Contents, TrainingIds, NoFile
  <1>2. /\ \A v \in Version : disk[v] = EmptyBundle /\ copied[v] = EmptyBundle /\ registered[v] = 0
        /\ \A w \in Trainers : trainer[w].pc = "idle"
        /\ exporter = NoExport
    BY DEF TrainingInit, NoTraining
  <1>3. TrainingTyped
    <2>1. 1 \in Version /\ 0 \in TrainingIds /\ 0 \in 0..MaxMishaps
      BY TrainingAssumption DEF Version, TrainingIds
    <2>2. [v \in Version |-> EmptyBundle] \in [Version -> [Files -> Contents]]
      BY <1>1
    <2>3. [v \in Version |-> 0] \in [Version -> TrainingIds]
      BY <2>1
    <2>4. [w \in Trainers |-> NoTraining] \in [Trainers -> Fitting]
      BY NoTrainingTyped
    <2>5. QED
      BY <2>1, <2>2, <2>3, <2>4, NoTrainingTyped DEF TrainingInit, TrainingTyped
  <1>4. Numbered /\ VersionAlone /\ Directories
    BY <1>2 DEF Numbered, VersionAlone, Directories
  <1>5. BundlesComplete /\ BundlesKnown /\ DeviceWhole /\ Exporting
    BY <1>1, <1>2, FilesAre DEF BundlesComplete, BundlesKnown, DeviceWhole, Exporting, NoFile
  <1>6. QED
    BY <1>3, <1>4, <1>5 DEF TrainingInv

-----------------------------------------------------------------------------
LEMMA TrainerTyped ==
    ASSUME TrainingTyped, NEW w \in Trainers
    PROVE  /\ trainer[w] \in Fitting /\ trainer[w].pc \in {"idle", "fit", "save", "write", "register", "finish"}
           /\ trainer[w].id \in TrainingIds /\ trainer[w].version \in 0..MaxSecond /\ trainer[w].left \in Seq(Files)
  <1>1. trainer[w] \in Fitting
    BY DEF TrainingTyped
  <1>2. QED
    BY <1>1 DEF Fitting

LEMMA OneTrains ==
    ASSUME TrainingTyped, NEW w \in Trainers, NEW r \in Fitting, trainer' = [trainer EXCEPT ![w] = r]
    PROVE  /\ trainer' \in [Trainers -> Fitting] /\ trainer'[w] = r
           /\ \A u \in Trainers \ {w} : trainer'[u] = trainer[u]
  BY DEF TrainingTyped

\* A process gives its training up.
LEMMA Stops ==
    ASSUME TrainingInv, NEW w \in Trainers, trainer' = [trainer EXCEPT ![w] = NoTraining],
           UNCHANGED <<second, disk, copied, registered, exporter, trainings, collided>>,
           orphaned \subseteq orphaned', orphaned' \in SUBSET Version, mishaps' \in 0..MaxMishaps,
           trainer[w].pc \in {"write", "register"} => trainer[w].version \in orphaned' \cup collided
    PROVE  TrainingInv'
  <1>1. /\ trainer' \in [Trainers -> Fitting] /\ trainer'[w].pc = "idle"
        /\ \A u \in Trainers \ {w} : trainer'[u] = trainer[u]
    BY OneTrains, NoTrainingTyped DEF TrainingInv, NoTraining
  <1>2. TrainingTyped'
    BY <1>1 DEF TrainingInv, TrainingTyped
  <1>3. \A u \in Trainers : trainer'[u].pc # "idle" => trainer'[u] = trainer[u]
    BY <1>1
  <1>4. Numbered'
    BY <1>3 DEF TrainingInv, Numbered
  <1>5. VersionAlone'
    BY <1>3 DEF TrainingInv, VersionAlone
  <1>6. Directories'
    <2>1. ASSUME NEW u \in Trainers, trainer'[u] = trainer[u], DirectoryOf(u) PROVE DirectoryOf(u)'
      BY <2>1 DEF DirectoryOf
    <2>2. ASSUME NEW u \in Trainers, trainer'[u].pc # "idle", trainer'[u].version \notin collided'
          PROVE  DirectoryOf(u)'
      <3>1. trainer'[u] = trainer[u] /\ collided' = collided
        BY <1>3, <2>2
      <3>2. DirectoryOf(u)
        BY <2>2, <3>1 DEF TrainingInv, Directories
      <3>3. QED
        BY <2>1, <3>1, <3>2
    <2>3. QED
      BY <2>2 DEF Directories
  <1>7. BundlesComplete'
    BY DEF TrainingInv, BundlesComplete, Whole
  <1>8. BundlesKnown'
    BY <1>1 DEF TrainingInv, BundlesKnown, KnownOf
  <1>9. Exporting'
    BY DEF TrainingInv, Exporting, Copied, Whole
  <1>10. DeviceWhole'
    BY DEF TrainingInv, DeviceWhole, Copied, Whole
  <1>11. QED
    BY <1>2, <1>4, <1>5, <1>6, <1>7, <1>8, <1>9, <1>10 DEF TrainingInv

LEMMA BeginKeeps ==
    ASSUME TrainingInv, NEW w \in Trainers, BeginTraining(w)
    PROVE  TrainingInv'
  <1> DEFINE r == [pc |-> "fit", id |-> trainings + 1, version |-> second, left |-> FileOrder]
  <1>1. /\ trainings < MaxTrainings /\ trainings' = trainings + 1 /\ trainer' = [trainer EXCEPT ![w] = r]
        /\ trainer[w].pc = "idle"
        /\ UNCHANGED <<second, disk, copied, registered, exporter, orphaned>>
    BY DEF BeginTraining
  <1>2. r \in Fitting /\ trainings' \in TrainingIds /\ r.id \in 1..MaxTrainings /\ second \in Version
    BY <1>1, TrainingAssumption, FilesAre DEF TrainingInv, TrainingTyped, Fitting, TrainingIds, Version
  <1>3. /\ r.pc = "fit" /\ r.version = second /\ r.left = After(FileOrder, 0)
    <2>1. After(FileOrder, 0) = FileOrder
      BY FilesAre DEF After
    <2>2. QED
      BY <2>1
  <1> HIDE DEF r
  <1>4. /\ trainer' \in [Trainers -> Fitting] /\ trainer'[w] = r
        /\ \A u \in Trainers \ {w} : trainer'[u] = trainer[u]
    BY <1>1, <1>2, OneTrains DEF TrainingInv
  <1>5. /\ collided' \in {collided, collided \cup {second}}
        /\ second \notin collided' =>
             /\ \A u \in Trainers : trainer[u].pc # "idle" => trainer[u].version # second
             /\ registered[second] = 0 /\ \A f \in Files : disk[second][f] = NoFile
    BY DEF BeginTraining
  <1>6. TrainingTyped'
    <2>1. mishaps \in 0..MaxMishaps
      BY DEF TrainingInv, TrainingTyped
    <2>2. mishaps' \in 0..MaxMishaps
      BY <2>1, TrainingAssumption DEF BeginTraining
    <2>3. QED
      BY <1>1, <1>2, <1>4, <1>5, <2>2 DEF TrainingInv, TrainingTyped
  <1>7. Numbered'
    BY <1>2, <1>3, <1>4 DEF TrainingInv, Numbered
  <1>8. VersionAlone'
    <2>1. SUFFICES ASSUME NEW u \in Trainers, NEW v \in Trainers, trainer'[u].pc # "idle", trainer'[v].pc # "idle",
                          trainer'[u].version = trainer'[v].version, trainer'[u].version \notin collided'
                   PROVE  u = v
      BY DEF VersionAlone
    <2>2. CASE u # w /\ v # w
      BY <1>4, <1>5, <2>1, <2>2 DEF TrainingInv, VersionAlone
    <2>3. CASE u = w \/ v = w
      BY <1>3, <1>4, <1>5, <2>1, <2>3
    <2>4. QED
      BY <2>2, <2>3
  <1>9. Directories'
    <2>1. SUFFICES ASSUME NEW u \in Trainers, trainer'[u].pc # "idle", trainer'[u].version \notin collided'
                   PROVE  DirectoryOf(u)'
      BY DEF Directories
    <2>2. CASE u = w
      <3>1. /\ trainer'[u].pc = "fit" /\ trainer'[u].version = second /\ trainer'[u].left = After(FileOrder, 0)
            /\ registered'[second] = 0 /\ \A f \in Files : disk'[second][f] = NoFile
        BY <1>1, <1>3, <1>4, <1>5, <2>1, <2>2
      <3>2. \A k \in 0..4 : After(FileOrder, 0) = After(FileOrder, k) => k = 0
        <4>1. 0 \in 0..4
          OBVIOUS
        <4>2. QED
          BY <4>1, FileOrderAfter
      <3>3. \A i \in 1..5 : FileOrder[i] \in Files
        BY FilesAre
      <3>4. QED
        BY <3>1, <3>2, <3>3 DEF DirectoryOf
    <2>3. CASE u # w
      BY <1>1, <1>4, <1>5, <2>1, <2>3 DEF TrainingInv, Directories, DirectoryOf
    <2>4. QED
      BY <2>2, <2>3
  <1>10. BundlesComplete'
    BY <1>1, <1>5 DEF TrainingInv, BundlesComplete, Whole
  <1>11. BundlesKnown'
    <2>1. \A u \in Trainers : trainer[u].pc \in {"write", "register"} => trainer'[u] = trainer[u]
      BY <1>1, <1>4
    <2>2. QED
      BY <1>1, <1>5, <2>1 DEF TrainingInv, BundlesKnown, KnownOf
  <1>12. Exporting'
    BY <1>1, <1>5 DEF TrainingInv, Exporting, Copied, Whole
  <1>13. DeviceWhole'
    BY <1>1, <1>5 DEF TrainingInv, DeviceWhole, Copied, Whole
  <1>14. QED
    BY <1>6, <1>7, <1>8, <1>9, <1>10, <1>11, <1>12, <1>13 DEF TrainingInv

LEMMA FitKeeps ==
    ASSUME TrainingInv, NEW w \in Trainers, Fit(w)
    PROVE  TrainingInv'
  <1>1. CASE trainer' = [trainer EXCEPT ![w] = NoTraining]
    BY <1>1, Stops DEF Fit, TrainingInv, TrainingTyped
  <1>2. CASE trainer' = [trainer EXCEPT ![w].pc = "save"]
    <2> DEFINE r == [trainer[w] EXCEPT !.pc = "save"]
    <2>1. trainer[w] \in Fitting /\ trainer[w].pc = "fit"
      BY TrainerTyped DEF Fit, TrainingInv
    <2>2. /\ r \in Fitting /\ r.pc = "save" /\ r.id = trainer[w].id /\ r.version = trainer[w].version
          /\ r.left = trainer[w].left
      BY <2>1 DEF Fitting
    <2>3. trainer' = [trainer EXCEPT ![w] = r]
      BY <1>2
    <2> HIDE DEF r
    <2>4. /\ trainer' \in [Trainers -> Fitting] /\ trainer'[w] = r
          /\ \A u \in Trainers \ {w} : trainer'[u] = trainer[u]
      BY <2>2, <2>3, OneTrains DEF TrainingInv
    <2>5. UNCHANGED <<second, disk, copied, registered, exporter, trainings, mishaps, collided, orphaned>>
      BY DEF Fit
    <2>6. \A u \in Trainers : /\ trainer'[u].id = trainer[u].id /\ trainer'[u].version = trainer[u].version
                              /\ trainer'[u].left = trainer[u].left
                              /\ \/ trainer'[u].pc = trainer[u].pc
                                 \/ trainer[u].pc = "fit" /\ trainer'[u].pc = "save"
      BY <2>1, <2>2, <2>4
    <2>7. TrainingTyped'
      BY <2>4, <2>5 DEF TrainingInv, TrainingTyped
    <2>8. Numbered'
      <3>1. 0 \in 0..4
        OBVIOUS
      <3>2. QED
        BY <2>6, <3>1 DEF TrainingInv, Numbered
    <2>9. VersionAlone'
      BY <2>5, <2>6 DEF TrainingInv, VersionAlone
    <2>10. Directories'
      BY <2>5, <2>6 DEF TrainingInv, Directories, DirectoryOf
    <2>11. BundlesComplete' /\ Exporting' /\ DeviceWhole'
      BY <2>5 DEF TrainingInv, BundlesComplete, Exporting, DeviceWhole, Copied, Whole
    <2>12. BundlesKnown'
      BY <2>5, <2>6 DEF TrainingInv, BundlesKnown, KnownOf
    <2>13. QED
      BY <2>7, <2>8, <2>9, <2>10, <2>11, <2>12 DEF TrainingInv
  <1>3. QED
    BY <1>1, <1>2 DEF Fit

\* The device's copy is held against the files of the bundles, which no write of
\* an uncollided bundle disturbs.
LEMMA FilesOnDisk ==
    ASSUME TrainingInv, UNCHANGED <<copied, exporter, collided, orphaned>>,
           \A v \in Version : disk[v]["bundle.json"] # NoFile => disk'[v]["bundle.json"] # NoFile,
           \A v \in Version \ collided : disk[v]["bundle.json"] # NoFile =>
              disk'[v]["model.onnx"] = disk[v]["model.onnx"]
    PROVE  Exporting' /\ DeviceWhole'
  <1>1. Exporting'
    <2>1. SUFFICES ASSUME exporter # NoExport
                   PROVE  /\ exporter.version \in Version /\ disk'[exporter.version]["bundle.json"] # NoFile
                          /\ \E j \in 0..3 :
                               /\ exporter.left = After(EdgeFiles, j)
                               /\ exporter.version \notin collided =>
                                    Whole(copied, exporter.version, {EdgeFiles[i] : i \in 1..j},
                                          disk'[exporter.version]["model.onnx"])
      BY DEF Exporting, Copied, Whole
    <2>2. /\ exporter.version \in Version /\ disk[exporter.version]["bundle.json"] # NoFile
          /\ \E j \in 0..3 :
               /\ exporter.left = After(EdgeFiles, j)
               /\ exporter.version \notin collided =>
                    Whole(copied, exporter.version, {EdgeFiles[i] : i \in 1..j}, disk[exporter.version]["model.onnx"])
      BY <2>1 DEF TrainingInv, Exporting, Copied
    <2>3. QED
      BY <2>2
  <1>2. DeviceWhole'
    <2>1. SUFFICES ASSUME NEW v \in Version \ (collided \cup orphaned), copied[v]["bundle.json"] # NoFile,
                          exporter.version # v
                   PROVE  /\ disk'[v]["bundle.json"] # NoFile
                          /\ Whole(copied, v, ToSet(EdgeFiles), disk'[v]["model.onnx"])
      BY DEF DeviceWhole, Copied, Whole
    <2>2. disk[v]["bundle.json"] # NoFile /\ Whole(copied, v, ToSet(EdgeFiles), disk[v]["model.onnx"])
      BY <2>1 DEF TrainingInv, DeviceWhole, Copied
    <2>3. QED
      BY <2>2
  <1>3. QED
    BY <1>1, <1>2

LEMMA DirectoryKept ==
    ASSUME NEW u \in Trainers, DirectoryOf(u), trainer'[u] = trainer[u], UNCHANGED registered,
           \A f \in Files : disk'[trainer[u].version][f] = disk[trainer[u].version][f]
    PROVE  DirectoryOf(u)'
  <1>1. \A i \in 1..5 : disk'[trainer[u].version][FileOrder[i]] = disk[trainer[u].version][FileOrder[i]]
    BY FilesAre
  <1> DEFINE t == trainer[u]
             at == disk[t.version]
             now == disk'[t.version]
             reg == registered[t.version]
  <1>2. \A f \in Files : now[f] = at[f]
    OBVIOUS
  <1>3. \A i \in 1..5 : now[FileOrder[i]] = at[FileOrder[i]]
    BY <1>1
  <1>4. /\ t.pc \in {"fit", "save"} =>
             reg = 0 /\ \A k \in 0..4 : t.left = After(FileOrder, k) =>
                         \A i \in 1..5 : at[FileOrder[i]] = IF i <= k THEN t.id ELSE NoFile
        /\ t.pc = "write" => reg = 0 /\ \A i \in 1..5 : at[FileOrder[i]] = IF i <= 4 THEN t.id ELSE Torn
        /\ t.pc \in {"register", "finish"} => \A f \in Files : at[f] = t.id
        /\ t.pc = "register" => reg = 0
        /\ t.pc = "finish" => reg = t.id
    BY DEF DirectoryOf
  <1>5. SUFFICES
        /\ t.pc \in {"fit", "save"} =>
             reg = 0 /\ \A k \in 0..4 : t.left = After(FileOrder, k) =>
                         \A i \in 1..5 : now[FileOrder[i]] = IF i <= k THEN t.id ELSE NoFile
        /\ t.pc = "write" => reg = 0 /\ \A i \in 1..5 : now[FileOrder[i]] = IF i <= 4 THEN t.id ELSE Torn
        /\ t.pc \in {"register", "finish"} => \A f \in Files : now[f] = t.id
        /\ t.pc = "register" => reg = 0
        /\ t.pc = "finish" => reg = t.id
    BY DEF DirectoryOf
  <1> HIDE DEF t, at, now, reg
  <1>6. t.pc \in {"fit", "save"} =>
             reg = 0 /\ \A k \in 0..4 : t.left = After(FileOrder, k) =>
                         \A i \in 1..5 : now[FileOrder[i]] = IF i <= k THEN t.id ELSE NoFile
    BY <1>3, <1>4
  <1>7. t.pc = "write" => reg = 0 /\ \A i \in 1..5 : now[FileOrder[i]] = IF i <= 4 THEN t.id ELSE Torn
    BY <1>3, <1>4
  <1>8. QED
    BY <1>2, <1>4, <1>6, <1>7

LEMMA OpenKeeps ==
    ASSUME TrainingInv, NEW w \in Trainers, OpenBundle(w)
    PROVE  TrainingInv'
  <1> DEFINE t == trainer[w]
             x == t.version
             r == [t EXCEPT !.pc = "write"]
  <1>1. /\ t \in Fitting /\ t.pc = "save" /\ Head(t.left) = "bundle.json"
        /\ disk' = [disk EXCEPT ![x]["bundle.json"] = Torn] /\ trainer' = [trainer EXCEPT ![w] = r]
        /\ UNCHANGED <<second, copied, registered, exporter, trainings, mishaps, collided, orphaned>>
    BY TrainerTyped DEF OpenBundle, TrainingInv
  <1>2. x \in Version /\ t.id \in 1..MaxTrainings /\ t.left = After(FileOrder, 4)
    <2>1. PICK k \in 0..4 : t.left = After(FileOrder, k)
      BY <1>1 DEF TrainingInv, Numbered
    <2>2. k + 1 \in 1..5 /\ FileOrder[k + 1] = FileOrder[5] /\ 5 \in 1..5
      BY <1>1, <2>1, FilesAre, FileOrderAfter
    <2>3. k + 1 = 5
      BY <2>2, FilesAre
    <2>4. k = 4
      BY <2>3
    <2>5. QED
      BY <1>1, <2>1, <2>4 DEF TrainingInv, Numbered
  <1>3. r \in Fitting /\ r.pc = "write" /\ r.id = t.id /\ r.version = x /\ r.left = t.left
    BY <1>1 DEF Fitting
  <1> HIDE DEF r
  <1>4. /\ trainer' \in [Trainers -> Fitting] /\ trainer'[w] = r
        /\ \A u \in Trainers \ {w} : trainer'[u] = trainer[u]
    BY <1>1, <1>3, OneTrains DEF TrainingInv
  <1>5. Torn \in Contents /\ Torn # NoFile /\ "bundle.json" \in Files /\ "model.onnx" \in Files
    BY FilesAre DEF Contents, Torn, NoFile
  <1>6. /\ disk' \in [Version -> [Files -> Contents]]
        /\ \A v \in Version, f \in Files :
             disk'[v][f] = IF v = x /\ f = "bundle.json" THEN Torn ELSE disk[v][f]
    BY <1>1, <1>2, <1>5 DEF TrainingInv, TrainingTyped
  <1>7. ASSUME x \notin collided
        PROVE  /\ registered[x] = 0
               /\ \A i \in 1..5 : disk'[x][FileOrder[i]] = IF i <= 4 THEN t.id ELSE Torn
    <2>1. DirectoryOf(w)
      BY <1>1, <1>7 DEF TrainingInv, Directories
    <2>2. registered[x] = 0 /\ \A i \in 1..5 : disk[x][FileOrder[i]] = IF i <= 4 THEN t.id ELSE NoFile
      <3>1. 4 \in 0..4
        OBVIOUS
      <3>2. QED
        BY <1>1, <1>2, <2>1, <3>1 DEF DirectoryOf
    <2>3. ASSUME NEW i \in 1..5 PROVE disk'[x][FileOrder[i]] = IF i <= 4 THEN t.id ELSE Torn
      <3>1. FileOrder[i] \in Files /\ (FileOrder[i] = "bundle.json" <=> i = 5) /\ (i <= 4 <=> i # 5)
        <4>1. 5 \in 1..5
          OBVIOUS
        <4>2. QED
          BY <4>1, FilesAre
      <3>2. disk[x][FileOrder[i]] = IF i <= 4 THEN t.id ELSE NoFile
        BY <2>2
      <3>3. QED
        BY <1>2, <1>6, <3>1, <3>2
    <2>4. QED
      BY <2>2, <2>3
  <1>8. TrainingTyped'
    BY <1>1, <1>4, <1>6 DEF TrainingInv, TrainingTyped
  <1>9. Numbered'
    BY <1>2, <1>3, <1>4 DEF TrainingInv, Numbered
  <1>10. \A u \in Trainers : /\ trainer'[u].version = trainer[u].version /\ trainer'[u].id = trainer[u].id
                             /\ trainer'[u].pc # "idle" => trainer[u].pc # "idle"
    BY <1>1, <1>3, <1>4
  <1>11. VersionAlone'
    BY <1>1, <1>10 DEF TrainingInv, VersionAlone
  <1>12. Directories'
    <2>1. SUFFICES ASSUME NEW u \in Trainers, trainer'[u].pc # "idle", trainer'[u].version \notin collided
                   PROVE  DirectoryOf(u)'
      BY <1>1 DEF Directories
    <2>2. CASE u = w
      <3>1. x \notin collided /\ trainer'[u] = r
        BY <1>3, <1>4, <2>1, <2>2
      <3>2. registered'[x] = 0
        BY <1>1, <1>7, <3>1
      <3>3. QED
        BY <1>3, <1>7, <3>1, <3>2 DEF DirectoryOf
    <2>3. CASE u # w
      <3>1. trainer'[u] = trainer[u]
        BY <1>4, <2>3
      <3>2. trainer[u].version # x
        BY <1>1, <2>1, <2>3, <3>1 DEF TrainingInv, VersionAlone
      <3>3. DirectoryOf(u) /\ trainer[u].version \in Version
        BY <2>1, <3>1 DEF TrainingInv, Directories, Numbered
      <3>4. \A f \in Files : disk'[trainer[u].version][f] = disk[trainer[u].version][f]
        BY <1>6, <3>2, <3>3
      <3>6. QED
        BY <1>1, <3>1, <3>3, <3>4, DirectoryKept
    <2>4. QED
      BY <2>2, <2>3
  <1>13. BundlesComplete'
    <2>1. SUFFICES ASSUME NEW v \in Version \ collided
                   PROVE  /\ disk'[v]["bundle.json"] # NoFile => \E id \in 1..MaxTrainings : Whole(disk', v, Files, id)
                          /\ registered[v] # 0 => \A f \in Files : disk'[v][f] = registered[v]
      BY <1>1 DEF BundlesComplete, Whole
    <2>2. CASE v # x
      <3>1. \A h \in Files : disk'[v][h] = disk[v][h]
        BY <1>6, <2>2
      <3>2. QED
        BY <1>5, <3>1 DEF TrainingInv, BundlesComplete, Whole
    <2>3. CASE v = x
      <3>1. ASSUME NEW f \in Files PROVE disk'[x][f] = t.id \/ (f = "bundle.json" /\ disk'[x][f] = Torn)
        <4>1. PICK i \in 1..5 : f = FileOrder[i]
          BY FilesAre
        <4>2. i <= 4 \/ i = 5
          OBVIOUS
        <4>3. disk'[x][f] = IF i <= 4 THEN t.id ELSE Torn
          BY <1>7, <2>3, <4>1
        <4>4. QED
          BY <4>1, <4>2, <4>3, FilesAre
      <3>2. Whole(disk', x, Files, t.id)
        BY <3>1 DEF Whole
      <3>3. QED
        BY <1>2, <1>7, <2>3, <3>2
    <2>4. QED
      BY <2>2, <2>3
  <1>14. BundlesKnown'
    <2>1. SUFFICES ASSUME NEW v \in Version \ (collided \cup orphaned), disk'[v]["bundle.json"] # NoFile
                   PROVE  \/ registered[v] # 0
                          \/ \E u \in Trainers : trainer'[u].version = v /\ trainer'[u].pc \in {"write", "register"}
      BY <1>1 DEF BundlesKnown, KnownOf
    <2>2. CASE v # x
      <3>1. disk[v]["bundle.json"] # NoFile
        BY <1>5, <1>6, <2>1, <2>2
      <3>2. CASE registered[v] = 0
        <4>1. PICK u \in Trainers : trainer[u].version = v /\ trainer[u].pc \in {"write", "register"}
          BY <2>1, <3>1, <3>2 DEF TrainingInv, BundlesKnown, KnownOf
        <4>2. u # w
          BY <2>2, <4>1
        <4>3. QED
          BY <1>4, <4>1, <4>2
      <3>3. QED
        BY <3>2
    <2>3. CASE v = x
      BY <1>3, <1>4, <2>3
    <2>4. QED
      BY <2>2, <2>3
  <1>15. Exporting' /\ DeviceWhole'
    <2>1. "model.onnx" # "bundle.json"
      OBVIOUS
    <2>2. \A v \in Version : /\ disk[v]["bundle.json"] # NoFile => disk'[v]["bundle.json"] # NoFile
                            /\ disk'[v]["model.onnx"] = disk[v]["model.onnx"]
      BY <1>5, <1>6, <2>1
    <2>3. QED
      BY <1>1, <2>2, FilesOnDisk
  <1>16. QED
    BY <1>8, <1>9, <1>11, <1>12, <1>13, <1>14, <1>15 DEF TrainingInv

LEMMA SaveKeeps ==
    ASSUME TrainingInv, NEW w \in Trainers, SaveFile(w)
    PROVE  TrainingInv'
  <1> DEFINE t == trainer[w]
             x == t.version
  <1>1. t \in Fitting /\ t.pc \in {"save", "write"}
    BY TrainerTyped DEF SaveFile, TrainingInv
  <1>2. /\ x \in Version /\ t.id \in 1..MaxTrainings
        /\ \E k \in 0..4 : t.left = After(FileOrder, k)
    <2>1. 4 \in 0..4
      OBVIOUS
    <2>2. QED
      BY <1>1, <2>1 DEF TrainingInv, Numbered
  <1>3. PICK k \in 0..4 : t.left = After(FileOrder, k)
    BY <1>2
  <1>4. /\ Len(t.left) = 5 - k /\ Head(t.left) = FileOrder[k + 1] /\ Tail(t.left) = After(FileOrder, k + 1)
        /\ k + 1 \in 1..5 /\ FileOrder[k + 1] \in Files /\ Tail(t.left) \in Seq(Files)
    BY <1>3, FileOrderAfter
  <1>22. k = 4 <=> t.pc = "write"
    <2>1. FileOrder[5] = "bundle.json"
      BY FilesAre
    <2>2. k = 4 => t.pc = "write"
      BY <1>4, <2>1 DEF SaveFile
    <2>3. t.pc = "write" => t.left = After(FileOrder, 4)
      BY DEF TrainingInv, Numbered
    <2>4. After(FileOrder, k) = After(FileOrder, 4) => 4 = k
      <3>1. 4 \in 0..4
        OBVIOUS
      <3>2. QED
        BY <3>1, FileOrderAfter
    <2>5. QED
      BY <1>3, <2>2, <2>3, <2>4
  <1> DEFINE r == [t EXCEPT !.left = Tail(@), !.pc = IF Len(t.left) = 1 THEN "register" ELSE "save"]
             g == FileOrder[k + 1]
  <1>5. /\ trainer' = [trainer EXCEPT ![w] = r]
        /\ disk' = [disk EXCEPT ![x][g] = t.id]
        /\ UNCHANGED <<second, copied, registered, exporter, trainings, mishaps, collided, orphaned>>
    BY <1>4 DEF SaveFile
  <1>6. /\ r \in Fitting /\ r.id = t.id /\ r.version = x /\ r.left = After(FileOrder, k + 1)
        /\ r.pc = IF k = 4 THEN "register" ELSE "save"
    <2>1. (Len(t.left) = 1) <=> (k = 4)
      BY <1>3, <1>4
    <2>2. QED
      BY <1>1, <1>4, <2>1 DEF Fitting
  <1>7. /\ x \in Version /\ t.id \in Contents /\ t.id # NoFile /\ g \in Files
    BY <1>2, <1>4, TrainingAssumption DEF Contents, TrainingIds, NoFile
  <1> HIDE DEF r, g
  <1>8. /\ trainer' \in [Trainers -> Fitting] /\ trainer'[w] = r
        /\ \A u \in Trainers \ {w} : trainer'[u] = trainer[u]
    BY <1>5, <1>6, OneTrains DEF TrainingInv
  <1>9. /\ disk' \in [Version -> [Files -> Contents]]
        /\ \A v \in Version, f \in Files : disk'[v][f] = IF v = x /\ f = g THEN t.id ELSE disk[v][f]
    BY <1>5, <1>7 DEF TrainingInv, TrainingTyped
  <1> DEFINE Unwritten == IF k = 4 THEN Torn ELSE NoFile
             SoFar == \A i \in 1..5 : disk[x][FileOrder[i]] = IF i <= k THEN t.id ELSE Unwritten
  <1>10. ASSUME x \notin collided
         PROVE  registered[x] = 0 /\ SoFar /\ (k # 4 => disk[x]["bundle.json"] = NoFile)
    <2>2. DirectoryOf(w)
      BY <1>1, <1>10 DEF TrainingInv, Directories
    <2>3. registered[x] = 0 /\ SoFar
      <3>1. CASE k = 4
        BY <1>22, <2>2, <3>1 DEF DirectoryOf
      <3>2. CASE k # 4
        BY <1>1, <1>3, <1>22, <2>2, <3>2 DEF DirectoryOf
      <3>3. QED
        BY <3>1, <3>2
    <2>4. 5 \in 1..5 /\ ~(5 <= k) /\ FileOrder[5] = "bundle.json"
      BY FilesAre
    <2>5. disk[x][FileOrder[5]] = IF 5 <= k THEN t.id ELSE Unwritten
      BY <2>3, <2>4
    <2>6. disk[x]["bundle.json"] = Unwritten
      BY <2>4, <2>5
    <2> HIDE DEF SoFar
    <2>7. QED
      BY <2>3, <2>6
  <1>11. x \notin collided => \A i \in 1..5 : disk'[x][FileOrder[i]] = IF i <= k + 1 THEN t.id ELSE NoFile
    <2>1. SUFFICES ASSUME x \notin collided, NEW i \in 1..5
                   PROVE  disk'[x][FileOrder[i]] = IF i <= k + 1 THEN t.id ELSE NoFile
      OBVIOUS
    <2>2. FileOrder[i] \in Files
      BY FilesAre
    <2>3. FileOrder[i] = g <=> i = k + 1
      BY <1>4, FilesAre DEF g
    <2>4. disk'[x][FileOrder[i]] = IF i = k + 1 THEN t.id ELSE disk[x][FileOrder[i]]
      BY <1>7, <1>9, <2>2, <2>3
    <2>5. disk[x][FileOrder[i]] = IF i <= k THEN t.id ELSE Unwritten
      <3>1. \A j \in 1..5 : disk[x][FileOrder[j]] = IF j <= k THEN t.id ELSE Unwritten
        BY <1>10, <2>1
      <3> HIDE DEF t
      <3>2. QED
        BY <3>1
    <2>6. k \in 0..4 /\ i \in 1..5
      OBVIOUS
    <2>7. QED
      BY <2>4, <2>5, <2>6
  <1>12. TrainingTyped'
    BY <1>5, <1>8, <1>9 DEF TrainingInv, TrainingTyped
  <1>13. Numbered'
    <2>1. k # 4 => k + 1 \in 0..4
      OBVIOUS
    <2>2. QED
      BY <1>2, <1>6, <1>8, <2>1 DEF TrainingInv, Numbered
  <1>14. \A u \in Trainers : /\ trainer'[u].version = trainer[u].version /\ trainer'[u].id = trainer[u].id
                             /\ trainer'[u].pc # "idle" => trainer[u].pc # "idle"
    BY <1>1, <1>6, <1>8
  <1>15. VersionAlone'
    BY <1>5, <1>14 DEF TrainingInv, VersionAlone
  <1>16. Directories'
    <2>1. SUFFICES ASSUME NEW u \in Trainers, trainer'[u].pc # "idle", trainer'[u].version \notin collided
                   PROVE  DirectoryOf(u)'
      BY <1>5 DEF Directories
    <2>2. CASE u = w
      <3>1. x \notin collided /\ trainer'[u] = r
        BY <1>6, <1>8, <2>1, <2>2
      <3>2. registered'[x] = 0
        BY <1>5, <1>10, <3>1
      <3>3. CASE k = 4
        <4>1. r.pc = "register" /\ \A i \in 1..5 : disk'[x][FileOrder[i]] = t.id
          BY <1>6, <1>11, <3>1, <3>3
        <4>2. \A f \in Files : disk'[x][f] = t.id
          BY <4>1, FilesAre
        <4> QED
          BY <1>6, <3>1, <3>2, <4>1, <4>2 DEF DirectoryOf
      <3>4. CASE k # 4
        <4>1. r.pc = "save"
          BY <1>6, <3>4
        <4>2. \A j \in 0..4 : After(FileOrder, k + 1) = After(FileOrder, j) => j = k + 1
          <5>1. k + 1 \in 0..4
            BY <3>4
          <5>2. QED
            BY <5>1, FileOrderAfter
        <4>3. \A j \in 0..4 : r.left = After(FileOrder, j) =>
                 \A i \in 1..5 : disk'[x][FileOrder[i]] = IF i <= j THEN t.id ELSE NoFile
          BY <1>6, <1>11, <3>1, <4>2
        <4> QED
          BY <1>6, <3>1, <3>2, <4>1, <4>3 DEF DirectoryOf
      <3>5. QED
        BY <3>3, <3>4
    <2>3. CASE u # w
      <3>1. trainer'[u] = trainer[u]
        BY <1>8, <2>3
      <3>2. trainer[u].version # x
        BY <1>1, <2>1, <2>3, <3>1 DEF TrainingInv, VersionAlone
      <3>3. DirectoryOf(u) /\ trainer[u].version \in Version
        BY <2>1, <3>1 DEF TrainingInv, Directories, Numbered
      <3>4. \A f \in Files : disk'[trainer[u].version][f] = disk[trainer[u].version][f]
        BY <1>9, <3>2, <3>3
      <3>6. QED
        BY <1>5, <3>1, <3>3, <3>4, DirectoryKept
    <2>4. QED
      BY <2>2, <2>3
  <1>23. k = 4 => g = "bundle.json"
    BY FilesAre DEF g
  <1>24. ASSUME NEW v \in Version \ collided, disk[v]["bundle.json"] # NoFile
         PROVE  disk'[v]["model.onnx"] = disk[v]["model.onnx"] /\ disk'[v]["bundle.json"] # NoFile
    <2>1. v = x => k = 4
      BY <1>10, <1>24
    <2>2. "model.onnx" \in Files /\ "bundle.json" \in Files /\ "model.onnx" # "bundle.json"
      BY FilesAre
    <2>3. QED
      BY <1>7, <1>9, <1>23, <1>24, <2>1, <2>2
  <1>17. BundlesComplete'
    <2>1. SUFFICES ASSUME NEW v \in Version \ collided
                   PROVE  /\ disk'[v]["bundle.json"] # NoFile => \E id \in 1..MaxTrainings : Whole(disk', v, Files, id)
                          /\ registered[v] # 0 => \A f \in Files : disk'[v][f] = registered[v]
      BY <1>5 DEF BundlesComplete, Whole
    <2>2. CASE v # x
      <3>1. \A h \in Files : disk'[v][h] = disk[v][h]
        BY <1>9, <2>2
      <3>2. "bundle.json" \in Files
        BY FilesAre
      <3>3. QED
        BY <3>1, <3>2 DEF TrainingInv, BundlesComplete, Whole
    <2>3. CASE v = x
      <3>1. registered[x] = 0
        BY <1>10, <2>3
      <3>2. k # 4 => disk'[x]["bundle.json"] = NoFile
        <4>1. 5 \in 1..5 /\ FileOrder[5] = "bundle.json" /\ (5 <= k + 1 <=> k = 4)
          BY FilesAre
        <4>3. \A i \in 1..5 : disk'[x][FileOrder[i]] = IF i <= k + 1 THEN t.id ELSE NoFile
          BY <1>11, <2>3
        <4>4. disk'[x][FileOrder[5]] = IF 5 <= k + 1 THEN t.id ELSE NoFile
          BY <4>1, <4>3
        <4>2. QED
          BY <4>1, <4>4
      <3>3. CASE k = 4
        <4>1. \A i \in 1..5 : disk'[x][FileOrder[i]] = t.id
          BY <1>11, <2>3, <3>3
        <4>2. Whole(disk', x, Files, t.id)
          BY <4>1, FilesAre DEF Whole
        <4>3. QED
          BY <1>2, <2>3, <3>1, <4>2
      <3>4. CASE k # 4
        BY <2>3, <3>1, <3>2, <3>4
      <3>5. QED
        BY <3>3, <3>4
    <2>4. QED
      BY <2>2, <2>3
  <1>18. BundlesKnown'
    <2>1. SUFFICES ASSUME NEW v \in Version \ (collided \cup orphaned), disk'[v]["bundle.json"] # NoFile
                   PROVE  \/ registered[v] # 0
                          \/ \E u \in Trainers : trainer'[u].version = v /\ trainer'[u].pc \in {"write", "register"}
      BY <1>5 DEF BundlesKnown, KnownOf
    <2>2. CASE v # x
      <3>1. disk[v]["bundle.json"] # NoFile
        BY <1>9, <2>1, <2>2, FilesAre
      <3>2. CASE registered[v] # 0
        BY <3>2
      <3>3. CASE registered[v] = 0
        <4>1. PICK u \in Trainers : trainer[u].version = v /\ trainer[u].pc \in {"write", "register"}
          BY <2>1, <3>1, <3>3 DEF TrainingInv, BundlesKnown, KnownOf
        <4>2. u # w
          BY <2>2, <4>1
        <4>3. QED
          BY <1>8, <4>1, <4>2
      <3>4. QED
        BY <3>2, <3>3
    <2>3. CASE v = x
      <3>1. 5 \in 1..5 /\ FileOrder[5] = "bundle.json" /\ (5 <= k + 1 <=> k = 4)
        BY FilesAre
      <3>2. k = 4
        BY <1>11, <2>1, <2>3, <3>1
      <3>3. QED
        BY <1>6, <1>8, <2>3, <3>2
    <2>4. QED
      BY <2>2, <2>3
  <1>19. Exporting' /\ DeviceWhole'
    <2>1. \A v \in Version : disk[v]["bundle.json"] # NoFile => disk'[v]["bundle.json"] # NoFile
      BY <1>7, <1>9, FilesAre
    <2>2. \A v \in Version \ collided : disk[v]["bundle.json"] # NoFile =>
             disk'[v]["model.onnx"] = disk[v]["model.onnx"]
      BY <1>24
    <2>3. QED
      BY <1>5, <2>1, <2>2, FilesOnDisk
  <1>21. QED
    BY <1>12, <1>13, <1>15, <1>16, <1>17, <1>18, <1>19 DEF TrainingInv

LEMMA RegisterKeeps ==
    ASSUME TrainingInv, NEW w \in Trainers, RegisterTrained(w)
    PROVE  TrainingInv'
  <1> DEFINE t == trainer[w]
             x == t.version
  <1>1. /\ t \in Fitting /\ t.pc = "register"
        /\ UNCHANGED <<second, disk, copied, exporter, trainings, mishaps, collided, orphaned>>
    BY TrainerTyped DEF RegisterTrained, TrainingInv
  <1>2. x \in Version /\ t.id \in 1..MaxTrainings /\ t.id \in TrainingIds /\ t.id # 0
    BY <1>1, TrainingAssumption DEF TrainingInv, Numbered, TrainingIds
  <1>3. ASSUME x \notin collided
        PROVE  registered[x] = 0 /\ \A f \in Files : disk[x][f] = t.id
    <2>1. DirectoryOf(w)
      BY <1>1, <1>3 DEF TrainingInv, Directories
    <2>2. QED
      BY <1>1, <2>1 DEF DirectoryOf
  <1>4. CASE registered[x] # 0
    <2>1. /\ trainer' = [trainer EXCEPT ![w] = NoTraining] /\ UNCHANGED registered
      BY <1>4 DEF RegisterTrained
    <2>2. x \in collided
      BY <1>3, <1>4
    <2>3. orphaned \in SUBSET Version /\ mishaps \in 0..MaxMishaps
      BY DEF TrainingInv, TrainingTyped
    <2>4. QED
      BY <1>1, <2>1, <2>2, <2>3, Stops
  <1>5. CASE registered[x] = 0
    <2> DEFINE r == [t EXCEPT !.pc = "finish"]
    <2>1. /\ registered' = [registered EXCEPT ![x] = t.id] /\ trainer' = [trainer EXCEPT ![w] = r]
      BY <1>5 DEF RegisterTrained
    <2>2. r \in Fitting /\ r.pc = "finish" /\ r.id = t.id /\ r.version = x /\ r.left = t.left
      BY <1>1 DEF Fitting
    <2> HIDE DEF r
    <2>3. /\ trainer' \in [Trainers -> Fitting] /\ trainer'[w] = r
          /\ \A u \in Trainers \ {w} : trainer'[u] = trainer[u]
      BY <2>1, <2>2, OneTrains DEF TrainingInv
    <2>4. /\ registered' \in [Version -> TrainingIds]
          /\ \A v \in Version : registered'[v] = IF v = x THEN t.id ELSE registered[v]
      BY <1>2, <2>1 DEF TrainingInv, TrainingTyped
    <2>5. TrainingTyped'
      BY <1>1, <2>3, <2>4 DEF TrainingInv, TrainingTyped
    <2>6. \A u \in Trainers : /\ trainer'[u].version = trainer[u].version /\ trainer'[u].id = trainer[u].id
                              /\ trainer'[u].left = trainer[u].left
                              /\ trainer'[u].pc # "idle" => trainer[u].pc # "idle"
                              /\ \/ trainer'[u].pc = trainer[u].pc
                                 \/ trainer'[u].pc = "finish"
      BY <1>1, <2>2, <2>3
    <2>7. Numbered'
      BY <2>6 DEF TrainingInv, Numbered
    <2>8. VersionAlone'
      BY <1>1, <2>6 DEF TrainingInv, VersionAlone
    <2>9. Directories'
      <3>1. SUFFICES ASSUME NEW u \in Trainers, trainer'[u].pc # "idle", trainer'[u].version \notin collided
                     PROVE  DirectoryOf(u)'
        BY <1>1 DEF Directories
      <3>2. CASE u = w
        <4>1. x \notin collided /\ trainer'[u] = r
          BY <2>2, <2>3, <3>1, <3>2
        <4>2. QED
          BY <1>1, <1>2, <1>3, <2>2, <2>4, <4>1 DEF DirectoryOf
      <3>3. CASE u # w
        <4>1. trainer'[u] = trainer[u]
          BY <2>3, <3>3
        <4>2. trainer[u].version # x
          BY <1>1, <3>1, <3>3, <4>1 DEF TrainingInv, VersionAlone
        <4>3. DirectoryOf(u) /\ trainer[u].version \in Version
          BY <3>1, <4>1 DEF TrainingInv, Directories, Numbered
        <4>4. registered'[trainer[u].version] = registered[trainer[u].version]
          BY <2>4, <4>2, <4>3
        <4>5. QED
          BY <1>1, <4>1, <4>3, <4>4 DEF DirectoryOf
      <3>4. QED
        BY <3>2, <3>3
    <2>10. BundlesComplete'
      <3>1. SUFFICES ASSUME NEW v \in Version \ collided
                     PROVE  /\ disk[v]["bundle.json"] # NoFile => \E id \in 1..MaxTrainings : Whole(disk, v, Files, id)
                            /\ registered'[v] # 0 => \A f \in Files : disk[v][f] = registered'[v]
        BY <1>1 DEF BundlesComplete, Whole
      <3>2. disk[v]["bundle.json"] # NoFile => \E id \in 1..MaxTrainings : Whole(disk, v, Files, id)
        BY DEF TrainingInv, BundlesComplete
      <3>3. registered'[v] # 0 => \A f \in Files : disk[v][f] = registered'[v]
        BY <1>3, <2>4 DEF TrainingInv, BundlesComplete
      <3>4. QED
        BY <3>2, <3>3
    <2>11. BundlesKnown'
      <3>1. SUFFICES ASSUME NEW v \in Version \ (collided \cup orphaned), disk[v]["bundle.json"] # NoFile,
                            registered'[v] = 0
                     PROVE  \E u \in Trainers : trainer'[u].version = v /\ trainer'[u].pc \in {"write", "register"}
        BY <1>1 DEF BundlesKnown, KnownOf
      <3>2. v # x /\ registered[v] = 0
        BY <1>2, <2>4, <3>1
      <3>3. PICK u \in Trainers : trainer[u].version = v /\ trainer[u].pc \in {"write", "register"}
        BY <3>1, <3>2 DEF TrainingInv, BundlesKnown, KnownOf
      <3>4. u # w
        BY <3>2, <3>3
      <3>5. QED
        BY <2>3, <3>3, <3>4
    <2>12. Exporting' /\ DeviceWhole'
      BY <1>1 DEF TrainingInv, Exporting, DeviceWhole, Copied, Whole
    <2>13. QED
      BY <2>5, <2>7, <2>8, <2>9, <2>10, <2>11, <2>12 DEF TrainingInv
  <1>6. QED
    BY <1>4, <1>5

\* What the steps of the device leave alone.
LEMMA TrainersStay ==
    ASSUME TrainingInv, UNCHANGED <<second, disk, registered, trainer, trainings, collided>>,
           orphaned \subseteq orphaned', orphaned' \in SUBSET Version, mishaps' \in 0..MaxMishaps,
           copied' \in [Version -> [Files -> Contents]],
           exporter' \in [version : 0..MaxSecond, left : Seq(Files)],
           Exporting', DeviceWhole'
    PROVE  TrainingInv'
  <1>1. TrainingTyped'
    BY DEF TrainingInv, TrainingTyped
  <1>2. Numbered' /\ VersionAlone'
    BY DEF TrainingInv, Numbered, VersionAlone
  <1>3. Directories'
    BY DEF TrainingInv, Directories, DirectoryOf
  <1>4. BundlesComplete' /\ BundlesKnown'
    BY DEF TrainingInv, BundlesComplete, BundlesKnown, KnownOf, Whole
  <1>5. QED
    BY <1>1, <1>2, <1>3, <1>4 DEF TrainingInv

\* The newest version that has a bundle.json has one.
LEMMA LatestIs ==
    ASSUME NEW dir \in [Version -> [Files -> Contents]]
    PROVE  /\ LatestBundle(dir) \in 0..MaxSecond
           /\ LatestBundle(dir) # 0 => LatestBundle(dir) \in Version /\ dir[LatestBundle(dir)]["bundle.json"] # NoFile
  <1> DEFINE T == {v \in Version : dir[v]["bundle.json"] # NoFile}
             S == {0} \cup T
  <1>1. IsFiniteSet(S) /\ S \subseteq 0..MaxSecond /\ S # {}
    <2>1. IsFiniteSet(0..MaxSecond)
      BY TrainingAssumption, FS_Interval
    <2>2. S \subseteq 0..MaxSecond
      BY TrainingAssumption DEF Version
    <2>3. QED
      BY <2>1, <2>2, FS_Subset
  <1>2. S \subseteq Int
    BY <1>1
  <1>3. Max(S) \in S
    <2> HIDE DEF S
    <2> QED BY <1>1, <1>2, MaxIs
  <1>4. LatestBundle(dir) = Max(S)
    BY DEF LatestBundle
  <1> HIDE DEF S
  <1>5. LatestBundle(dir) \in S
    BY <1>3, <1>4
  <1> USE DEF S
  <1>6. QED
    BY <1>1, <1>5

LEMMA StartExportKeeps == ASSUME TrainingInv, StartExport PROVE TrainingInv'
  <1> DEFINE x == LatestBundle(disk)
  <1>1. x \in Version /\ x \in 0..MaxSecond /\ disk[x]["bundle.json"] # NoFile
    BY LatestIs DEF StartExport, TrainingInv, TrainingTyped
  <1> HIDE DEF x
  <1>2. exporter' = [version |-> x, left |-> EdgeFiles] /\ exporter = NoExport
    BY DEF StartExport, x
  <1>3. UNCHANGED <<second, disk, copied, registered, trainer, trainings, mishaps, collided, orphaned>>
    BY DEF StartExport
  <1>4. EdgeFiles = After(EdgeFiles, 0) /\ EdgeFiles \in Seq(Files)
    BY FilesAre DEF After
  <1>5. Exporting'
    <2>1. 0 \in 0..3 /\ {EdgeFiles[i] : i \in 1..0} = {}
      OBVIOUS
    <2>2. exporter'.version = x /\ exporter'.left = After(EdgeFiles, 0)
      BY <1>2, <1>4
    <2>3. exporter'.version \in Version /\ disk'[exporter'.version]["bundle.json"] # NoFile
      BY <1>1, <1>3, <2>2
    <2>4. Whole(copied', x, {EdgeFiles[i] : i \in 1..0}, disk'[x]["model.onnx"])
      BY <2>1 DEF Whole
    <2>5. \E k \in 0..3 : /\ exporter'.left = After(EdgeFiles, k)
                          /\ Whole(copied', exporter'.version, {EdgeFiles[i] : i \in 1..k},
                                   disk'[exporter'.version]["model.onnx"])
      BY <2>1, <2>2, <2>4
    <2>6. QED
      BY <2>3, <2>5 DEF Exporting, Copied, Whole
  <1>6. DeviceWhole'
    <2>1. exporter.version = 0
      BY <1>2 DEF NoExport
    <2>2. \A v \in Version : v # 0
      BY TrainingAssumption DEF Version
    <2>3. QED
      BY <1>3, <2>1, <2>2 DEF TrainingInv, DeviceWhole, Copied, Whole
  <1>7. exporter' \in [version : 0..MaxSecond, left : Seq(Files)]
    BY <1>1, <1>2, <1>4
  <1>8. QED
    BY <1>3, <1>5, <1>6, <1>7, TrainersStay DEF TrainingInv, TrainingTyped

LEMMA CopyKeeps == ASSUME TrainingInv, CopyFile PROVE TrainingInv'
  <1> DEFINE x == exporter.version
             f == Head(exporter.left)
  <1>1. /\ exporter # NoExport
        /\ UNCHANGED <<second, disk, registered, trainer, trainings, mishaps, collided, orphaned>>
        /\ copied' = IF disk[x][f] = NoFile THEN copied ELSE [copied EXCEPT ![x][f] = disk[x][f]]
        /\ exporter' = IF Len(exporter.left) = 1 THEN NoExport ELSE [exporter EXCEPT !.left = Tail(@)]
    BY DEF CopyFile
  <1>2. x \in Version /\ disk[x]["bundle.json"] # NoFile
    BY <1>1 DEF TrainingInv, Exporting
  <1>3. PICK k \in 0..3 : /\ exporter.left = After(EdgeFiles, k)
                          /\ x \notin collided => Copied(x, {EdgeFiles[i] : i \in 1..k})
    BY <1>1 DEF TrainingInv, Exporting
  <1>4. /\ f = EdgeFiles[k + 1] /\ f \in Files /\ Len(exporter.left) = 4 - k
        /\ Tail(exporter.left) = After(EdgeFiles, k + 1) /\ Tail(exporter.left) \in Seq(Files)
    <2>1. EdgeFiles \in Seq(Files) /\ Len(EdgeFiles) = 4
      BY FilesAre
    <2>2. k \in 0..(Len(EdgeFiles) - 1)
      BY <2>1
    <2>3. /\ Len(After(EdgeFiles, k)) = Len(EdgeFiles) - k /\ Head(After(EdgeFiles, k)) = EdgeFiles[k + 1]
          /\ Tail(After(EdgeFiles, k)) = After(EdgeFiles, k + 1)
          /\ EdgeFiles[k + 1] \in Files /\ Tail(After(EdgeFiles, k)) \in Seq(Files)
      BY <2>1, <2>2, AfterIs
    <2>4. QED
      BY <1>3, <2>1, <2>3
  <1>5. exporter \in [version : 0..MaxSecond, left : Seq(Files)] /\ copied \in [Version -> [Files -> Contents]]
        /\ disk \in [Version -> [Files -> Contents]]
    BY DEF TrainingInv, TrainingTyped
  <1>6. /\ copied' \in [Version -> [Files -> Contents]]
        /\ \A v \in Version, h \in Files :
             copied'[v][h] = IF v = x /\ h = f /\ disk[x][f] # NoFile THEN disk[x][f] ELSE copied[v][h]
    <2>1. disk[x][f] \in Contents
      BY <1>2, <1>4, <1>5
    <2> HIDE DEF x, f
    <2>2. QED
      BY <1>1, <1>2, <1>4, <1>5, <2>1
  <1>7. k = 3 => exporter' = NoExport
    BY <1>1, <1>4
  <1>8. k # 3 => exporter'.version = x /\ exporter'.left = After(EdgeFiles, k + 1) /\ k + 1 \in 0..3
    <2>1. SUFFICES ASSUME k # 3
                   PROVE  exporter'.version = x /\ exporter'.left = After(EdgeFiles, k + 1) /\ k + 1 \in 0..3
      OBVIOUS
    <2>2. Len(exporter.left) # 1 /\ k + 1 \in 0..3
      BY <1>4, <2>1
    <2>3. exporter' = [exporter EXCEPT !.left = Tail(exporter.left)]
      BY <1>1, <2>2
    <2>4. exporter'.left = Tail(exporter.left) /\ exporter'.version = exporter.version
      BY <1>5, <2>3
    <2>5. QED
      BY <1>4, <2>2, <2>4
  <1>9. exporter' \in [version : 0..MaxSecond, left : Seq(Files)]
    <2>1. CASE k = 3
      BY <1>7, <2>1, NoTrainingTyped
    <2>2. CASE k # 3
      <3>1. Len(exporter.left) # 1
        BY <1>3, <1>4, <2>2
      <3>2. exporter' = [exporter EXCEPT !.left = Tail(exporter.left)]
        BY <1>1, <3>1
      <3>3. QED
        BY <1>4, <1>5, <3>2
    <2>3. QED
      BY <2>1, <2>2
  <1> HIDE DEF f
  <1>10. ASSUME x \notin collided
         PROVE  \A i \in 1..(k + 1) :
                   \/ copied'[x][EdgeFiles[i]] = disk[x]["model.onnx"]
                   \/ EdgeFiles[i] = "bundle.json" /\ copied'[x][EdgeFiles[i]] = Torn
    <2>1. PICK id \in 1..MaxTrainings : Whole(disk, x, Files, id)
      BY <1>2, <1>10 DEF TrainingInv, BundlesComplete
    <2>2. /\ disk[x]["model.onnx"] = id /\ id # NoFile /\ Torn # NoFile
          /\ disk[x][f] = id \/ (f = "bundle.json" /\ disk[x][f] = Torn)
      BY <1>4, <2>1, TrainingAssumption, FilesAre DEF Whole, NoFile, Torn
    <2>3. TAKE i \in 1..(k + 1)
    <2>4. EdgeFiles[i] \in Files
      <3>1. ToSet(EdgeFiles) = {EdgeFiles[j] : j \in 1..4} /\ ToSet(EdgeFiles) \subseteq Files
        BY FilesAre
      <3>2. i \in 1..4
        OBVIOUS
      <3>3. EdgeFiles[i] \in {EdgeFiles[j] : j \in 1..4}
        BY <3>2
      <3>4. QED
        BY <3>1, <3>3
    <2>5. CASE i = k + 1
      BY <1>2, <1>4, <1>6, <2>2, <2>5
    <2>6. CASE i # k + 1
      <3>1. i \in 1..k
        BY <2>6
      <3>2. \/ copied[x][EdgeFiles[i]] = disk[x]["model.onnx"]
            \/ EdgeFiles[i] = "bundle.json" /\ copied[x][EdgeFiles[i]] = Torn
        BY <1>3, <1>10, <3>1 DEF Copied, Whole
      <3>3. QED
        BY <1>2, <1>6, <2>2, <2>4, <3>2
    <2>7. QED
      BY <2>5, <2>6
  <1>11. Exporting'
    <2>1. CASE k = 3
      BY <1>7, <2>1 DEF Exporting
    <2>2. CASE k # 3
      <3>1. x \notin collided => Whole(copied', x, {EdgeFiles[i] : i \in 1..(k + 1)}, disk[x]["model.onnx"])
        BY <1>10 DEF Whole
      <3> DEFINE y == exporter'.version
      <3>2. y = x /\ exporter'.left = After(EdgeFiles, k + 1) /\ k + 1 \in 0..3
        BY <1>8, <2>2
      <3>3. y \in Version /\ disk'[y]["bundle.json"] # NoFile
        BY <1>1, <1>2, <3>2
      <3>4. y \notin collided' => Whole(copied', y, {EdgeFiles[i] : i \in 1..(k + 1)}, disk'[y]["model.onnx"])
        BY <1>1, <3>1, <3>2
      <3>5. \E j \in 0..3 :
               /\ exporter'.left = After(EdgeFiles, j)
               /\ y \notin collided' => Whole(copied', y, {EdgeFiles[i] : i \in 1..j}, disk'[y]["model.onnx"])
        BY <3>2, <3>4
      <3>6. QED
        BY <3>3, <3>5 DEF Exporting, Copied, Whole
    <2>3. QED
      BY <2>1, <2>2
  <1>12. DeviceWhole'
    <2>1. SUFFICES ASSUME NEW v \in Version \ (collided \cup orphaned), copied'[v]["bundle.json"] # NoFile,
                          exporter'.version # v
                   PROVE  /\ disk[v]["bundle.json"] # NoFile
                          /\ Whole(copied', v, ToSet(EdgeFiles), disk[v]["model.onnx"])
      BY <1>1 DEF DeviceWhole, Copied, Whole
    <2>2. "bundle.json" \in Files /\ ToSet(EdgeFiles) \subseteq Files
      BY FilesAre
    <2>3. CASE v # x
      <3>1. \A h \in Files : copied'[v][h] = copied[v][h]
        BY <1>6, <2>3
      <3>2. disk[v]["bundle.json"] # NoFile /\ Whole(copied, v, ToSet(EdgeFiles), disk[v]["model.onnx"])
        BY <2>1, <2>2, <2>3, <3>1 DEF TrainingInv, DeviceWhole, Copied
      <3>3. QED
        BY <2>2, <3>1, <3>2 DEF Whole
    <2>4. CASE v = x
      <3>1. k = 3
        BY <1>8, <2>1, <2>4
      <3>2. \A h \in ToSet(EdgeFiles) : \E i \in 1..4 : h = EdgeFiles[i]
        BY FilesAre
      <3>3. \A i \in 1..4 : \/ copied'[x][EdgeFiles[i]] = disk[x]["model.onnx"]
                            \/ EdgeFiles[i] = "bundle.json" /\ copied'[x][EdgeFiles[i]] = Torn
        BY <1>10, <2>1, <2>4, <3>1
      <3>4. QED
        BY <1>2, <2>4, <3>2, <3>3 DEF Whole
    <2>5. QED
      BY <2>3, <2>4
  <1>13. QED
    BY <1>1, <1>6, <1>9, <1>11, <1>12, TrainersStay DEF TrainingInv, TrainingTyped

LEMMA ExportStopsKeeps == ASSUME TrainingInv, ExportStops PROVE TrainingInv'
  <1> DEFINE x == exporter.version
             f == Head(exporter.left)
  <1>1. /\ exporter # NoExport /\ exporter' = NoExport /\ mishaps' \in 0..MaxMishaps
        /\ copied' \in {copied, [copied EXCEPT ![x][f] = Torn]}
        /\ orphaned' = orphaned \cup {x}
        /\ UNCHANGED <<second, disk, registered, trainer, trainings, collided>>
    BY TrainingAssumption DEF ExportStops, TrainingInv, TrainingTyped
  <1>2. x \in Version
    BY <1>1 DEF TrainingInv, Exporting
  <1>3. orphaned' \in SUBSET Version /\ copied \in [Version -> [Files -> Contents]]
    BY <1>1, <1>2 DEF TrainingInv, TrainingTyped
  <1> HIDE DEF x, f
  <1>4. /\ copied' \in [Version -> [Files -> Contents]]
        /\ \A v \in Version : v # x => copied'[v] = copied[v]
    <2>1. Torn \in Contents
      BY DEF Contents
    <2>2. QED
      BY <1>1, <1>2, <1>3, <2>1
  <1>5. Exporting'
    BY <1>1 DEF Exporting
  <1>6. DeviceWhole'
    <2>1. SUFFICES ASSUME NEW v \in Version \ (collided \cup orphaned'), copied'[v]["bundle.json"] # NoFile
                   PROVE  /\ disk[v]["bundle.json"] # NoFile
                          /\ Whole(copied', v, ToSet(EdgeFiles), disk[v]["model.onnx"])
      BY <1>1 DEF DeviceWhole, Copied, Whole
    <2>2. v # x /\ v \notin orphaned
      BY <1>1, <2>1
    <2>3. copied'[v] = copied[v]
      BY <1>4, <2>2
    <2>4. disk[v]["bundle.json"] # NoFile /\ Whole(copied, v, ToSet(EdgeFiles), disk[v]["model.onnx"])
      BY <2>1, <2>2, <2>3 DEF TrainingInv, DeviceWhole, Copied, x
    <2>5. QED
      BY <2>3, <2>4 DEF Whole
  <1>7. QED
    BY <1>1, <1>3, <1>4, <1>5, <1>6, NoTrainingTyped, TrainersStay DEF TrainingInv, TrainingTyped

LEMMA TrainingInvKept == TrainingInv /\ [TrainingNext]_trainingVars => TrainingInv'
  <1> SUFFICES ASSUME TrainingInv, [TrainingNext]_trainingVars PROVE TrainingInv'
    OBVIOUS
  <1>0. mishaps \in 0..MaxMishaps /\ orphaned \in SUBSET Version /\ second \in Version
    BY DEF TrainingInv, TrainingTyped
  <1>1. ASSUME NEW w \in Trainers, FinishTraining(w) PROVE TrainingInv'
    BY <1>0, <1>1, Stops DEF FinishTraining
  <1>2. ASSUME NEW w \in Trainers, TrainingEnds(w) PROVE TrainingInv'
    <2>1. mishaps' \in 0..MaxMishaps
      BY <1>0, <1>2, TrainingAssumption DEF TrainingEnds
    <2>2. trainer[w].version \in Version
      BY <1>2 DEF TrainingEnds, TrainingInv, Numbered
    <2>3. QED
      BY <1>0, <1>2, <2>1, <2>2, Stops DEF TrainingEnds
  <1>3. CASE SecondPasses
    <2>1. second' \in Version
      BY <1>0, <1>3, TrainingAssumption DEF SecondPasses, Version
    <2>2. UNCHANGED <<disk, copied, registered, trainer, exporter, trainings, mishaps, collided, orphaned>>
      BY <1>3 DEF SecondPasses
    <2>3. TrainingTyped'
      BY <2>1, <2>2 DEF TrainingInv, TrainingTyped
    <2>4. Numbered' /\ VersionAlone' /\ Directories'
      BY <2>2 DEF TrainingInv, Numbered, VersionAlone, Directories, DirectoryOf
    <2>5. BundlesComplete' /\ BundlesKnown' /\ Exporting' /\ DeviceWhole'
      BY <2>2 DEF TrainingInv, BundlesComplete, BundlesKnown, KnownOf, Exporting, DeviceWhole, Copied, Whole
    <2>6. QED
      BY <2>3, <2>4, <2>5 DEF TrainingInv
  <1>4. CASE UNCHANGED trainingVars
    <2>1. UNCHANGED <<second, disk, copied, registered, trainer, exporter, trainings, mishaps, collided, orphaned>>
      BY <1>4 DEF trainingVars
    <2>2. Exporting' /\ DeviceWhole'
      BY <2>1 DEF TrainingInv, Exporting, DeviceWhole, Copied, Whole
    <2>3. QED
      BY <2>1, <2>2, TrainersStay DEF TrainingInv, TrainingTyped
  <1>5. QED
    BY <1>1, <1>2, <1>3, <1>4, BeginKeeps, FitKeeps, OpenKeeps, SaveKeeps, RegisterKeeps, StartExportKeeps, CopyKeeps,
       ExportStopsKeeps DEF TrainingNext

HeldApart(lengths, size, stride) ==
    LET all  == SyntheticWindows(lengths, size, stride)
        test == HeldOut(all) IN
    RowsOf(test, size) \cap RowsOf(all \ test, size) = {} /\ test # {} /\ test # all

\* Whatever the assets and the windows' size and stride: of several assets that
\* have a window each, the last is held out, and it shares no row with the rest.
LEMMA HeldOutApart ==
    ASSUME NEW A, IsFiniteSet(A), A \subseteq Int, Cardinality(A) > 1,
           NEW size \in Nat \ {0}, NEW stride \in Nat \ {0},
           NEW lengths \in [A -> Nat], \A a \in A : lengths[a] >= size
    PROVE  HeldApart(lengths, size, stride)
  <1> DEFINE W(a) == AssetWindows(a, lengths[a], size, stride)
             all == SyntheticWindows(lengths, size, stride)
             test == HeldOut(all)
             m == Max(A)
  <1>1. A # {} /\ m \in A
    <2>1. A # {}
      BY FS_EmptySet
    <2>2. QED
      BY <2>1, MaxIs
  <1>2. PICK b \in A : b # m
    <2>1. SUFFICES ASSUME \A b \in A : b = m PROVE FALSE
      OBVIOUS
    <2>2. A = {m}
      BY <1>1, <2>1
    <2>3. QED
      BY <2>2, FS_Singleton
  <1>3. \A a \in A : <<a, 1>> \in W(a)
    <2>1. 0 % stride = 0
      OBVIOUS
    <2>2. TAKE a \in A
    <2>3. 1 \in 1..(lengths[a] - size + 1)
      OBVIOUS
    <2>4. (1 - 1) % stride = 0
      BY <2>1
    <2>5. QED
      BY <2>3, <2>4 DEF AssetWindows
  <1>4. \A a \in A : \A w \in W(a) : w[1] = a
    BY DEF AssetWindows
  <1>5. \A w : w \in all <=> \E a \in A : w \in W(a)
    BY DEF SyntheticWindows
  <1> HIDE DEF W, all
  <1>6. {w[1] : w \in all} = A
    <2>1. \A a \in A : <<a, 1>> \in all /\ <<a, 1>>[1] = a
      BY <1>3, <1>5
    <2>2. \A w \in all : w[1] \in A
      BY <1>4, <1>5
    <2>3. QED
      BY <2>1, <2>2
  <1> HIDE DEF m
  <1>7. test = {w \in all : w[1] = m}
    BY <1>6 DEF HeldOut, m
  <1> HIDE DEF test
  <1>8. test # {} /\ test # all
    <2>1. <<m, 1>> \in test
      BY <1>1, <1>3, <1>5, <1>7
    <2>2. <<b, 1>> \in all /\ <<b, 1>> \notin test
      BY <1>2, <1>3, <1>5, <1>7
    <2>3. QED
      BY <2>1, <2>2
  <1>9. RowsOf(test, size) \cap RowsOf(all \ test, size) = {}
    <2>1. \A r \in RowsOf(test, size) : r[1] = m
      BY <1>7 DEF RowsOf
    <2>2. \A r \in RowsOf(all \ test, size) : r[1] # m
      BY <1>7 DEF RowsOf
    <2>3. QED
      BY <2>1, <2>2
  <1>10. QED
    BY <1>8, <1>9 DEF all, test, HeldApart

LEMMA MeasuredApart == MeasuredOnUnseen
  <1>1. SUFFICES ASSUME NEW n \in 2..3, NEW lengths \in [1..n -> {2, 5}], NEW stride \in 1..2
                 PROVE  HeldApart(lengths, 2, stride)
    BY DEF MeasuredOnUnseen, HeldApart
  <1> DEFINE A == 1..n
  <1>2. IsFiniteSet(A) /\ Cardinality(A) > 1 /\ A \subseteq Int
    BY FS_Interval
  <1>3. lengths \in [A -> Nat] /\ \A a \in A : lengths[a] >= 2
    OBVIOUS
  <1>4. 2 \in Nat \ {0} /\ stride \in Nat \ {0}
    OBVIOUS
  <1> HIDE DEF A
  <1>5. QED
    BY <1>2, <1>3, <1>4, HeldOutApart

LEMMA TrainingInvGives == TrainingInv => TrainingTypeOK /\ TrainingSound
  <1> SUFFICES ASSUME TrainingInv PROVE TrainingTypeOK /\ TrainingSound
    OBVIOUS
  <1>1. TrainingTypeOK
    <2>1. \A w \in Trainers : trainer[w] \in Fitting
      BY DEF TrainingInv, TrainingTyped
    <2>2. QED
      BY <2>1 DEF TrainingInv, TrainingTyped, TrainingTypeOK, Fitting
  <1>2. /\ disk \in [Version -> [Files -> Contents]] /\ copied \in [Version -> [Files -> Contents]]
        /\ registered \in [Version -> TrainingIds] /\ Numbered
        /\ Directories /\ BundlesComplete /\ BundlesKnown /\ DeviceWhole
    BY DEF TrainingInv, TrainingTyped
  <1>3. PickedIsKnown
    <2> DEFINE x == LatestBundle(disk)
    <2>1. x # 0 => x \in Version /\ disk[x]["bundle.json"] # NoFile
      BY <1>2, LatestIs
    <2> HIDE DEF x
    <2>2. x # 0 /\ x \notin collided \cup orphaned => KnownOf(x)
      BY <1>2, <2>1 DEF BundlesKnown
    <2>3. QED
      BY <2>2 DEF PickedIsKnown, KnownOf, x
  <1>4. DeviceRuns
    <2> DEFINE x == LatestBundle(copied)
    <2>1. x # 0 => x \in Version /\ copied[x]["bundle.json"] # NoFile
      BY <1>2, LatestIs
    <2> HIDE DEF x
    <2>2. ASSUME x # 0, x \notin collided \cup orphaned, exporter.version # x
          PROVE  \E id \in 1..MaxTrainings : Whole(copied, x, ToSet(EdgeFiles), id)
      <3>1. disk[x]["bundle.json"] # NoFile /\ Copied(x, ToSet(EdgeFiles))
        BY <1>2, <2>1, <2>2 DEF DeviceWhole
      <3>2. PICK id \in 1..MaxTrainings : Whole(disk, x, Files, id)
        BY <1>2, <2>1, <2>2, <3>1 DEF BundlesComplete
      <3>3. disk[x]["model.onnx"] = id
        BY <3>2, FilesAre DEF Whole
      <3>4. QED
        BY <3>1, <3>3 DEF Copied
    <2>3. QED
      BY <2>2 DEF DeviceRuns, x
  <1>6. BundlesWhole
    <2>1. ASSUME NEW v \in Version \ collided, disk[v]["bundle.json"] = Torn, v \notin orphaned
          PROVE  \E w \in Trainers : trainer[w].version = v /\ trainer[w].pc = "write"
      <3>1. Torn # NoFile /\ Torn \notin TrainingIds /\ "bundle.json" \in Files
        BY FilesAre DEF Torn, NoFile, TrainingIds
      <3>2. registered[v] = 0
        BY <1>2, <2>1, <3>1 DEF BundlesComplete
      <3>3. PICK w \in Trainers : trainer[w].version = v /\ trainer[w].pc \in {"write", "register"}
        BY <1>2, <2>1, <3>1, <3>2 DEF BundlesKnown, KnownOf
      <3>4. trainer[w].pc # "register"
        <4>1. SUFFICES ASSUME trainer[w].pc = "register" PROVE FALSE
          OBVIOUS
        <4>2. DirectoryOf(w)
          BY <1>2, <2>1, <3>3, <4>1 DEF Directories
        <4>3. disk[v]["bundle.json"] = trainer[w].id
          BY <3>1, <3>3, <4>1, <4>2 DEF DirectoryOf
        <4>4. trainer[w].id \in 1..MaxTrainings
          BY <1>2, <4>1 DEF Numbered
        <4>5. QED
          BY <2>1, <4>3, <4>4 DEF Torn
      <3>5. QED
        BY <3>3, <3>4
    <2>2. QED
      BY <1>2, <2>1 DEF BundlesWhole, BundlesComplete
  <1>5. QED
    BY <1>1, <1>3, <1>4, <1>6, MeasuredApart DEF TrainingSound

\* The invariant of trainings and exports that the two theorems below follow
\* from (train.py, bundle.py's save_bundle, export_models.py).
THEOREM TrainingInvariant == TrainingSpec => []TrainingInv
  <1>1. QED
    BY TrainingInvHolds, TrainingInvKept, PTL DEF TrainingSpec

\* Every training, bundle and export has the type the code gives it.
THEOREM TrainingTypeCorrect == TrainingSpec => []TrainingTypeOK
  <1>1. QED
    BY TrainingInvariant, TrainingInvGives, PTL

\* What a reader takes for a bundle has the files of one training, its
\* bundle.json short only while it is written or where the training died at
\* that; what is registered is whole; so is the device's copy; the newest one's
\* version is known or about to be; and no model is measured on rows it was
\* fitted to (save_bundle, register_model, export_bundle, _train_synthetic).
THEOREM TrainingStaysSound == TrainingSpec => []TrainingSound
  <1>1. QED
    BY TrainingInvariant, TrainingInvGives, PTL

ScoringTyped ==
    /\ sent \in Seq(SUBSET Sensors) /\ Len(sent) <= MaxTime
    /\ missed \in SUBSET (1..Len(sent)) /\ held \in SUBSET (1..Len(sent))
    /\ edge \in [rows : Seq(EdgeRow), last : EdgeRow, since : Nat, adds : Nat, emitted : SUBSET Nat]
    /\ scored = [end |-> scored.end, vector |-> scored.vector, imputed |-> scored.imputed, partial |-> scored.partial,
                 confidence |-> scored.confidence, late |-> scored.late]
    /\ scored.end \in 0..Len(sent) /\ scored.imputed \in SUBSET Sensors /\ scored.late \in BOOLEAN
    /\ scored.confidence \in Labels \cup {"none"}

\* How many rows the window has after a number of adds, and when it is due again.
EdgeCounts ==
    /\ edge.adds <= Len(sent)
    /\ Len(edge.rows) = IF edge.adds < WindowSize THEN edge.adds ELSE WindowSize
    /\ edge.since = IF edge.adds < WindowSize THEN edge.adds ELSE (edge.adds - WindowSize) % Stride
    /\ SameWindows

\* The sensor was read in the second and the edge knows of it.
Got(s, j) == j \in 1..Len(sent) /\ j \notin missed /\ s \in sent[j]

\* v is the newest reading of the sensor the edge had from the seconds up to k.
Newest(s, v, k) ==
    \/ v = NoReading /\ \A j \in 1..k : ~Got(s, j)
    \/ v \in 1..k /\ Got(s, v) /\ \A j \in (v + 1)..k : ~Got(s, j)

\* A row of the edge's window is of the second its age says, if none was missed since.
AgeOf(i) == Len(edge.rows) - i
Unbroken(i) == \A j \in (Len(sent) - AgeOf(i))..Len(sent) : j \notin missed

EdgeFollows ==
    /\ edge.rows # <<>> => \E s \in Sensors : edge.last[s] # NoReading
    /\ \A s \in Sensors : Newest(s, edge.last[s], Len(sent))
    /\ \A i \in 1..Len(edge.rows) : Unbroken(i) =>
         \A s \in Sensors : Newest(s, edge.rows[i][s], Len(sent) - AgeOf(i))

\* The window the server has scored is there as it was, until a reading is stored late.
ScoredStands ==
    scored # NoScore /\ ~scored.late =>
        /\ Vector(scored.end) = scored.vector
        /\ 10 * Filled(scored.end) < 9 * WindowSize => scored.partial

\* A window that was scored was over.
ScoredOver == BucketSeconds * scored.end <= Len(sent)

Downgraded == 4 * Cardinality(scored.imputed) > Cardinality(Sensors) => scored.confidence # "high"

ScoringInv == ScoringTyped /\ EdgeCounts /\ EdgeFollows /\ ScoredStands /\ ScoredOver /\ Downgraded

-----------------------------------------------------------------------------
LEMMA ScoringInvHolds == ScoringInit => ScoringInv
  <1> SUFFICES ASSUME ScoringInit PROVE ScoringInv
    OBVIOUS
  <1> USE ScoringAssumption
  <1>1. ScoringTyped
    <2>1. [s \in Sensors |-> NoReading] \in EdgeRow
      BY DEF EdgeRow, NoReading
    <2>2. edge \in [rows : Seq(EdgeRow), last : EdgeRow, since : Nat, adds : Nat, emitted : SUBSET Nat]
      BY <2>1 DEF ScoringInit
    <2>3. sent \in Seq(SUBSET Sensors) /\ Len(sent) = 0
      BY DEF ScoringInit
    <2>4. scored = NoScore /\ missed = {} /\ held = {}
      BY DEF ScoringInit
    <2>5. QED
      BY <2>2, <2>3, <2>4 DEF ScoringTyped, NoScore
  <1>2. EdgeCounts
    <2>1. edge.adds = 0 /\ Len(edge.rows) = 0 /\ edge.since = 0 /\ edge.emitted = {} /\ Len(sent) = 0
      BY DEF ScoringInit
    <2>2. SameWindows
      BY <2>1 DEF SameWindows
    <2>3. QED
      BY <2>1, <2>2 DEF EdgeCounts
  <1>3. EdgeFollows
    <2>1. edge.rows = <<>> /\ Len(edge.rows) = 0 /\ Len(sent) = 0 /\ \A s \in Sensors : edge.last[s] = NoReading
      BY DEF ScoringInit
    <2>2. QED
      BY <2>1 DEF EdgeFollows, Newest
  <1>4. scored = NoScore /\ scored.confidence = "none" /\ scored.end = 0 /\ Len(sent) = 0
    BY DEF ScoringInit, NoScore
  <1>5. BucketSeconds * 0 = 0
    OBVIOUS
  <1>6. QED
    BY <1>1, <1>2, <1>3, <1>4, <1>5 DEF ScoringInv, ScoredStands, ScoredOver, Downgraded

-----------------------------------------------------------------------------
(* Buckets and the seconds they are of. *)
LEMMA OfIs ==
    ASSUME NEW b \in Int
    PROVE  /\ BucketSeconds * b \in Int
           /\ \A t : t \in Of(b) <=> /\ t \in Int /\ t <= BucketSeconds * b
                                     /\ BucketSeconds * b - BucketSeconds < t
  <1>1. BucketSeconds \in Nat /\ BucketSeconds * b \in Int /\ b - 1 \in Int
    BY ScoringAssumption
  <1>2. BucketSeconds * (b - 1) = BucketSeconds * b - BucketSeconds
    <2>1. \A n, x \in Int : n * (x - 1) = n * x - n
      OBVIOUS
    <2>2. QED
      BY <1>1, <2>1
  <1> DEFINE x == BucketSeconds * b
             y == BucketSeconds * (b - 1)
  <1>3. x \in Int /\ y = x - BucketSeconds /\ Of(b) = (y + 1)..x
    BY <1>1, <1>2 DEF Of
  <1> HIDE DEF x, y
  <1>4. \A t : t \in (y + 1)..x <=> t \in Int /\ t <= x /\ x - BucketSeconds < t
    BY <1>1, <1>3
  <1>5. QED
    BY <1>3, <1>4 DEF x

LEMMA LaterBucket ==
    ASSUME NEW b \in Int, NEW c \in Int, b <= c
    PROVE  BucketSeconds * b <= BucketSeconds * c
  <1>1. BucketSeconds \in Nat /\ BucketSeconds * b \in Int /\ BucketSeconds * c \in Int
    BY ScoringAssumption
  <1>2. CASE b = c
    BY <1>1, <1>2
  <1>3. CASE b < c
    <2>1. BucketSeconds * b + BucketSeconds <= BucketSeconds * c
      BY <1>1, <1>3, Multiple
    <2>2. QED
      BY <1>1, <2>1
  <1>4. QED
    BY <1>2, <1>3

\* Every second is of a bucket.
LEMMA BucketOf == ASSUME NEW t \in Int PROVE \E b \in Int : t \in Of(b)
  <1> DEFINE q == (t - 1) \div BucketSeconds
             r == (t - 1) % BucketSeconds
  <1>1. BucketSeconds \in Nat \ {0} /\ t - 1 \in Int
    BY ScoringAssumption
  <1>2. t - 1 = BucketSeconds * q + r /\ r \in 0..(BucketSeconds - 1) /\ q \in Int
    BY <1>1, Divided
  <1> HIDE DEF q, r
  <1>3. BucketSeconds * q \in Int /\ BucketSeconds * (q + 1) = BucketSeconds * q + BucketSeconds
    <2>1. \A n, x \in Int : n * (x + 1) = n * x + n /\ n * x \in Int
      OBVIOUS
    <2>2. QED
      BY <1>1, <1>2, <2>1
  <1>4. t \in Of(q + 1)
    <2>1. q + 1 \in Int
      BY <1>2
    <2>2. t <= BucketSeconds * (q + 1) /\ BucketSeconds * (q + 1) - BucketSeconds < t
      BY <1>1, <1>2, <1>3
    <2>3. QED
      BY <2>1, <2>2, OfIs
  <1>5. QED
    BY <1>2, <1>4

\* The last bucket that is over.
LEMMA EndIs ==
    ASSUME NEW n \in Nat
    PROVE  /\ WindowEnd(n) \in Nat /\ WindowEnd(n) <= n
           /\ BucketSeconds * WindowEnd(n) <= n /\ n < BucketSeconds * WindowEnd(n) + BucketSeconds
  <1> DEFINE q == n \div BucketSeconds
             r == n % BucketSeconds
  <1>1. BucketSeconds \in Nat \ {0}
    BY ScoringAssumption
  <1>2. n = BucketSeconds * q + r /\ r \in 0..(BucketSeconds - 1) /\ q \in Nat /\ WindowEnd(n) = q
    <2>1. n \in Int /\ n \in Nat
      OBVIOUS
    <2>2. n = BucketSeconds * q + r /\ r \in 0..(BucketSeconds - 1) /\ q \in Nat
      BY <1>1, <2>1, Divided
    <2>3. QED
      BY <2>2 DEF WindowEnd
  <1> HIDE DEF q, r
  <1>3. BucketSeconds * q \in Nat /\ q <= BucketSeconds * q
    <2>1. PICK p \in Nat : BucketSeconds = p + 1
      <3>1. BucketSeconds - 1 \in Nat /\ BucketSeconds = (BucketSeconds - 1) + 1
        BY <1>1
      <3>2. QED
        BY <3>1
    <2>2. \A x \in Nat : (p + 1) * x = p * x + x /\ p * x \in Nat
      OBVIOUS
    <2>3. (p + 1) * q = p * q + q /\ p * q \in Nat
      BY <1>2, <2>2
    <2>4. QED
      BY <1>2, <2>1, <2>3
  <1>4. QED
    BY <1>1, <1>2, <1>3

\* What is stored of a sensor's second.
Stored(s, t) == t \in (1..Len(sent)) \ held /\ s \in sent[t]

LEMMA MeanIs ==
    ASSUME NEW s, NEW b \in Int
    PROVE  /\ Mean(s, b) = {t \in Of(b) : Stored(s, t)}
           /\ Has(s, b) <=> \E t \in Of(b) : Stored(s, t)
           /\ Has(s, b) /\ Len(sent) \in Nat => b \in Nat
  <1>1. Mean(s, b) = {t \in Of(b) : Stored(s, t)}
    BY DEF Mean, Stored
  <1>2. Has(s, b) <=> \E t \in Of(b) : Stored(s, t)
    BY <1>1 DEF Has
  <1>3. ASSUME Has(s, b), Len(sent) \in Nat PROVE b \in Nat
    <2>1. PICK t \in Of(b) : Stored(s, t)
      BY <1>2, <1>3
    <2>2. t >= 1 /\ t \in Int /\ t <= BucketSeconds * b
      BY <1>3, <2>1, OfIs DEF Stored
    <2>3. CASE b < 0
      <3>1. BucketSeconds * b <= BucketSeconds * 0 /\ BucketSeconds * 0 = 0 /\ BucketSeconds * b \in Int
        <4>1. BucketSeconds * 0 = 0 /\ BucketSeconds * b \in Int
          BY ScoringAssumption
        <4>2. b <= 0 /\ 0 \in Int
          BY <2>3
        <4>3. QED
          BY <4>1, <4>2, LaterBucket
      <3>2. QED
        BY <2>2, <3>1
    <2>4. QED
      BY <2>3
  <1>4. QED
    BY <1>1, <1>2, <1>3

\* What the server sees of a window depends on what is stored of it only.
LEMMA SameWindow ==
    ASSUME NEW e \in Int, Len(sent) \in Nat, \A s \in Sensors, k \in Window(e) : Mean(s, k)' = Mean(s, k)
    PROVE  Vector(e)' = Vector(e) /\ Filled(e)' = Filled(e) /\ Silent(e)' = Silent(e)
  <1>0. \A s \in Sensors, k \in Window(e) : Has(s, k)' <=> Has(s, k)
    BY DEF Has
  <1>1. Silent(e)' = Silent(e) /\ Filled(e)' = Filled(e)
    <2>1. {k \in Window(e) : \E s \in Sensors : Has(s, k)'} = {k \in Window(e) : \E s \in Sensors : Has(s, k)}
      BY <1>0
    <2>2. {s \in Sensors : \A k \in Window(e) : ~Has(s, k)'} = {s \in Sensors : \A k \in Window(e) : ~Has(s, k)}
      BY <1>0
    <2>3. QED
      BY <2>1, <2>2 DEF Filled, Silent, Window
  <1>2. \A s \in Sensors \ Silent(e), k \in Int : Reading(s, k, e)' = Reading(s, k, e)
    <2>1. TAKE s \in Sensors \ Silent(e), k \in Int
    <2> DEFINE before == {j \in Window(e) : j <= k /\ Has(s, j)}
               after  == {j \in Window(e) : j > k /\ Has(s, j)}
               x == IF before # {} THEN Max(before) ELSE Min(after)
    <2>2. {j \in Window(e) : j <= k /\ Has(s, j)'} = before
      BY <1>0
    <2>3. {j \in Window(e) : j > k /\ Has(s, j)'} = after
      BY <1>0
    <2>4. x \in Window(e)
      <3>1. /\ Window(e) \subseteq Int /\ IsFiniteSet(Window(e))
            /\ before \subseteq Window(e) /\ after \subseteq Window(e)
        BY ScoringAssumption, FS_Interval DEF Window
      <3>2. before # {} \/ after # {}
        <4>1. PICK j \in Window(e) : Has(s, j)
          BY <2>1 DEF Silent
        <4>2. j \in Int
          BY <3>1
        <4>3. QED
          BY <2>1, <4>1, <4>2
      <3>3. after \subseteq Nat
        BY <3>1, MeanIs
      <3>4. IsFiniteSet(before) /\ before \subseteq Int
        BY <3>1, FS_Subset
      <3> HIDE DEF before, after
      <3>5. before # {} => Max(before) \in before
        BY <3>4, MaxIs
      <3>6. after # {} => Min(after) \in after
        BY <3>3, MinIs
      <3>7. QED
        BY <3>1, <3>2, <3>5, <3>6
    <2>5. PICK y \in Window(e) : y = x
      BY <2>4
    <2>6. Reading(s, k, e) = Mean(s, y)
      BY <2>5 DEF Reading
    <2>7. Reading(s, k, e)' = Mean(s, y)'
      BY <2>2, <2>3, <2>5 DEF Reading, Window
    <2>8. Mean(s, y)' = Mean(s, y)
      BY <2>1
    <2>9. QED
      BY <2>6, <2>7, <2>8
  <1>3. \A k \in 1..WindowSize : e - WindowSize + k \in Int
    BY ScoringAssumption
  <1>4. Vector(e) = [s \in Sensors |-> [k \in 1..WindowSize |->
                      IF s \in Silent(e) THEN Median ELSE Reading(s, e - WindowSize + k, e)]]
    BY DEF Vector
  <1>5. Vector(e)' = [s \in Sensors |-> [k \in 1..WindowSize |->
                      IF s \in Silent(e) THEN Median ELSE Reading(s, e - WindowSize + k, e)']]
    BY <1>1 DEF Vector, Median
  <1>6. QED
    BY <1>1, <1>2, <1>3, <1>4, <1>5

\* A message is the last one sent, and is stored or held, known to the edge or
\* missed.
LEMMA MessageIs ==
    ASSUME ScoringTyped, NEW present \in SUBSET Sensors, NEW lost \in BOOLEAN, NEW tardy \in BOOLEAN,
           MessageSent(present, lost, tardy)
    PROVE  /\ sent' \in Seq(SUBSET Sensors) /\ Len(sent') = Len(sent) + 1 /\ Len(sent) \in Nat
           /\ Len(sent') <= MaxTime
           /\ missed' \in SUBSET (1..Len(sent')) /\ held' \in SUBSET (1..Len(sent'))
           /\ \A j \in 1..Len(sent) : sent'[j] = sent[j] /\ (j \in missed' <=> j \in missed)
                                      /\ (j \in held' <=> j \in held)
           /\ sent'[Len(sent) + 1] = present /\ (Len(sent) + 1 \in missed' <=> lost)
           /\ \A s, j : j \in 1..Len(sent) => (Got(s, j)' <=> Got(s, j))
           /\ \A s, j : j = Len(sent) + 1 => (Got(s, j)' <=> ~lost /\ s \in present)
           /\ \A k \in Int : k <= Len(sent) => \A s : (Stored(s, k)' <=> Stored(s, k))
           /\ UNCHANGED scored
  <1> DEFINE n == Len(sent)
  <1>1. /\ sent' = Append(sent, present) /\ n + 1 <= MaxTime /\ UNCHANGED scored
        /\ missed' = IF lost THEN missed \cup {n + 1} ELSE missed
        /\ held' = IF tardy THEN held \cup {n + 1} ELSE held
    BY DEF MessageSent
  <1>2. sent \in Seq(SUBSET Sensors) /\ n \in Nat /\ missed \in SUBSET (1..n) /\ held \in SUBSET (1..n)
    BY DEF ScoringTyped
  <1>3. /\ sent' \in Seq(SUBSET Sensors) /\ Len(sent') = n + 1
        /\ \A j \in 1..n : sent'[j] = sent[j]
        /\ sent'[n + 1] = present
    BY <1>1, <1>2
  <1> HIDE DEF n
  <1>4. /\ missed' \in SUBSET (1..(n + 1)) /\ held' \in SUBSET (1..(n + 1))
        /\ \A j \in 1..n : (j \in missed' <=> j \in missed) /\ (j \in held' <=> j \in held)
        /\ n + 1 \in missed' <=> lost
    BY <1>1, <1>2
  <1>5. \A j \in 1..n : j \in 1..(n + 1)
    BY <1>2
  <1>6. \A s, j : j \in 1..n => (Got(s, j)' <=> Got(s, j))
    BY <1>3, <1>4, <1>5 DEF Got, n
  <1>7. \A s, j : j = n + 1 => (Got(s, j)' <=> ~lost /\ s \in present)
    <2>1. n + 1 \in 1..(n + 1)
      BY <1>2
    <2>2. QED
      BY <1>3, <1>4, <2>1 DEF Got
  <1>8. \A k \in Int : k <= n => \A s : (Stored(s, k)' <=> Stored(s, k))
    <2>1. TAKE k \in Int
    <2>2. SUFFICES ASSUME k <= n, NEW s PROVE Stored(s, k)' <=> Stored(s, k)
      OBVIOUS
    <2>3. k \in 1..(n + 1) <=> k \in 1..n
      BY <1>2, <2>2
    <2>4. QED
      BY <1>3, <1>4, <2>3 DEF Stored, n
  <1>9. QED
    BY <1>1, <1>2, <1>3, <1>4, <1>6, <1>7, <1>8 DEF n

\* A message the edge has had: it changes nothing as long as no sensor was ever
\* read, and is a row from then on.
Added(present, now) ==
    LET last == Carried(edge.last, present, now)
        rows == edge'.rows IN
    /\ edge' \in [rows : Seq(EdgeRow), last : EdgeRow, since : Nat, adds : Nat, emitted : SUBSET Nat]
    /\ edge'.last = last /\ edge'.adds = edge.adds + 1
    /\ Len(rows) = IF Len(edge.rows) < WindowSize THEN Len(edge.rows) + 1 ELSE WindowSize
    /\ rows[Len(rows)] = last
    /\ \A i \in 1..(Len(rows) - 1) :
         rows[i] = edge.rows[IF Len(edge.rows) < WindowSize THEN i ELSE i + 1]
    /\ LET due == Len(rows) = WindowSize /\ edge.since + 1 >= Stride IN
       /\ edge'.since = IF due THEN 0 ELSE edge.since + 1
       /\ edge'.emitted = IF due THEN edge.emitted \cup {edge.adds + 1} ELSE edge.emitted

LEMMA AddIs ==
    ASSUME ScoringTyped, EdgeCounts, NEW present \in SUBSET Sensors, NEW now \in 1..MaxTime, Add(present, now)
    PROVE  /\ Carried(edge.last, present, now) \in EdgeRow
           /\ IF \A s \in Sensors : Carried(edge.last, present, now)[s] = NoReading
              THEN UNCHANGED edge ELSE Added(present, now)
  <1> DEFINE last == Carried(edge.last, present, now)
             n == Len(edge.rows)
             rows == IF n < WindowSize THEN Append(edge.rows, last) ELSE Append(Tail(edge.rows), last)
             adds == edge.adds + 1
             due == Len(rows) = WindowSize /\ edge.since + 1 >= Stride
  <1> USE ScoringAssumption
  <1>1. /\ edge.rows \in Seq(EdgeRow) /\ edge.last \in EdgeRow /\ edge.since \in Nat /\ edge.adds \in Nat
        /\ edge.emitted \in SUBSET Nat /\ n \in Nat /\ n <= WindowSize
    BY DEF ScoringTyped, EdgeCounts
  <1>2. last \in EdgeRow
    BY <1>1 DEF Carried, EdgeRow
  <1>3. CASE \A s \in Sensors : last[s] = NoReading
    BY <1>2, <1>3 DEF Add
  <1>4. CASE ~\A s \in Sensors : last[s] = NoReading
    <2>1. edge' = [rows |-> rows, last |-> last, adds |-> adds, since |-> IF due THEN 0 ELSE edge.since + 1,
                   emitted |-> IF due THEN edge.emitted \cup {adds} ELSE edge.emitted]
      BY <1>4 DEF Add
    <2> HIDE DEF last
    <2>2. /\ rows \in Seq(EdgeRow) /\ Len(rows) = IF n < WindowSize THEN n + 1 ELSE WindowSize
          /\ rows[Len(rows)] = last
          /\ \A i \in 1..(Len(rows) - 1) : rows[i] = edge.rows[IF n < WindowSize THEN i ELSE i + 1]
      <3>1. CASE n < WindowSize
        <4> DEFINE r == edge.rows
        <4>1. r \in Seq(EdgeRow) /\ Len(r) = n /\ last \in EdgeRow /\ rows = Append(r, last)
          BY <1>1, <1>2, <3>1
        <4> HIDE DEF r, rows
        <4>2. /\ rows \in Seq(EdgeRow) /\ Len(rows) = Len(r) + 1 /\ rows[Len(r) + 1] = last
              /\ \A i \in 1..Len(r) : rows[i] = r[i]
          BY <4>1
        <4>3. Len(rows) = n + 1 /\ Len(rows) - 1 = n
          BY <1>1, <4>1, <4>2
        <4>4. QED
          BY <3>1, <4>1, <4>2, <4>3 DEF r
      <3>2. CASE ~(n < WindowSize)
        <4> DEFINE r == edge.rows
                   t == Tail(r)
        <4>1. r \in Seq(EdgeRow) /\ Len(r) = WindowSize /\ last \in EdgeRow /\ r # <<>>
          BY <1>1, <1>2, <3>2
        <4>2. t \in Seq(EdgeRow) /\ Len(t) = WindowSize - 1 /\ \A i \in 1..(WindowSize - 1) : t[i] = r[i + 1]
          <5> HIDE DEF r
          <5> QED BY <4>1
        <4>3. rows = Append(t, last)
          BY <3>2
        <4> HIDE DEF r, t, rows
        <4>4. /\ rows \in Seq(EdgeRow) /\ Len(rows) = Len(t) + 1 /\ rows[Len(t) + 1] = last
              /\ \A i \in 1..Len(t) : rows[i] = t[i]
          BY <4>1, <4>2, <4>3
        <4>5. Len(rows) = WindowSize /\ Len(t) + 1 = WindowSize /\ Len(t) = WindowSize - 1
          BY <4>2, <4>4
        <4>6. QED
          BY <3>2, <4>2, <4>4, <4>5 DEF r
      <3>3. QED
        BY <3>1, <3>2
    <2> HIDE DEF rows, n
    <2>3. /\ edge'.rows = rows /\ edge'.last = last /\ edge'.adds = adds
          /\ edge'.since = IF due THEN 0 ELSE edge.since + 1
          /\ edge'.emitted = IF due THEN edge.emitted \cup {adds} ELSE edge.emitted
      BY <2>1
    <2>4. edge'.since \in Nat /\ edge'.emitted \in SUBSET Nat /\ adds \in Nat
      BY <1>1, <2>3
    <2>5. edge' \in [rows : Seq(EdgeRow), last : EdgeRow, since : Nat, adds : Nat, emitted : SUBSET Nat]
      <3> HIDE DEF due, adds
      <3> QED BY <1>2, <2>1, <2>2, <2>3, <2>4
    <2>6. QED
      BY <1>2, <1>4, <2>2, <2>3, <2>5 DEF Added, last, n
  <1>5. QED
    BY <1>3, <1>4

\* A row more: the counts go on, and the window is due every Stride rows.
Since(n) == IF n < WindowSize THEN n ELSE (n - WindowSize) % Stride
Due(n)   == n >= WindowSize /\ (n - WindowSize) % Stride = 0

LEMMA NextDue ==
    ASSUME NEW a \in Nat
    PROVE  /\ Since(a) \in Nat
           /\ Due(a + 1) <=> a + 1 >= WindowSize /\ Since(a) + 1 >= Stride
           /\ Since(a + 1) = IF Due(a + 1) THEN 0 ELSE Since(a) + 1
           /\ Due(a + 1) => a + 1 >= WindowSize
  <1> DEFINE w == WindowSize
             d == Stride
  <1>1. w \in Nat \ {0} /\ d \in Nat \ {0} /\ d <= w
    BY ScoringAssumption
  <1>2. 0 % d = 0
    BY <1>1, DivisionIs
  <1>3. CASE a + 1 < w
    BY <1>1, <1>3 DEF Since, Due
  <1>4. CASE a + 1 = w
    <2>1. a < w /\ ~(a + 1 < w) /\ (a + 1) - w = 0 /\ a + 1 >= d
      BY <1>1, <1>4
    <2>2. ((a + 1) - w) % d = 0
      BY <1>2, <2>1
    <2>3. Since(a) = a /\ Since(a + 1) = 0 /\ Due(a + 1)
      <3> DEFINE x == ((a + 1) - w) % d
      <3>1. Since(a + 1) = x /\ (Due(a + 1) <=> a + 1 >= w /\ x = 0)
        BY <2>1 DEF Since, Due
      <3>2. x = 0
        BY <2>2
      <3> HIDE DEF x
      <3>3. QED
        BY <1>1, <1>4, <2>1, <3>1, <3>2 DEF Since
    <2>4. QED
      BY <1>4, <2>1, <2>3
  <1>5. CASE a + 1 > w
    <2> DEFINE m == a - w
               r == m % d
               x == (m + 1) % d
    <2>1. m \in Nat /\ (a + 1) - w = m + 1 /\ ~(a < w) /\ ~(a + 1 < w)
      BY <1>1, <1>5
    <2>2. Since(a) = r
      BY <2>1 DEF Since
    <2> HIDE DEF m
    <2>3. Since(a + 1) = x /\ (Due(a + 1) <=> a + 1 >= w /\ x = 0)
      <3> DEFINE y == (a + 1) - w
      <3>1. Since(a + 1) = y % d /\ (Due(a + 1) <=> a + 1 >= w /\ y % d = 0)
        BY <2>1 DEF Since, Due
      <3>2. y = m + 1
        BY <2>1
      <3> HIDE DEF y
      <3>3. QED
        BY <3>1, <3>2
    <2>4. r \in 0..(d - 1) /\ x = IF r + 1 = d THEN 0 ELSE r + 1
      BY <1>1, <2>1, NextRemainder
    <2> HIDE DEF r, x
    <2>5. QED
      BY <1>1, <1>5, <2>2, <2>3, <2>4
  <1>6. QED
    BY <1>1, <1>3, <1>4, <1>5

LEMMA WindowCountsKept ==
    ASSUME ScoringTyped, EdgeCounts, NEW present, NEW now, Added(present, now), Len(sent') = Len(sent) + 1
    PROVE  EdgeCounts'
  <1> DEFINE a == edge.adds
             b == edge'.adds
             w == WindowSize
  <1>1. w \in Nat \ {0} /\ a \in Nat /\ a <= Len(sent) /\ Len(sent) \in Nat
    BY ScoringAssumption DEF ScoringTyped, EdgeCounts
  <1>2. /\ b = a + 1
        /\ Len(edge.rows) = IF a < w THEN a ELSE w
        /\ Len(edge'.rows) = IF Len(edge.rows) < w THEN Len(edge.rows) + 1 ELSE w
        /\ edge.since = Since(a)
        /\ edge.emitted = {n \in 1..a : Due(n)}
    BY DEF Added, EdgeCounts, SameWindows, Since, Due
  <1>3. /\ edge'.since = IF Len(edge'.rows) = w /\ edge.since + 1 >= Stride THEN 0 ELSE edge.since + 1
        /\ edge'.emitted = IF Len(edge'.rows) = w /\ edge.since + 1 >= Stride
                           THEN edge.emitted \cup {a + 1} ELSE edge.emitted
    BY DEF Added
  <1>4. /\ Since(a) \in Nat
        /\ Due(a + 1) <=> a + 1 >= w /\ Since(a) + 1 >= Stride
        /\ Since(a + 1) = IF Due(a + 1) THEN 0 ELSE Since(a) + 1
    BY <1>1, NextDue
  <1> HIDE DEF a, b, w
  <1>5. Len(edge'.rows) = (IF b < w THEN b ELSE w) /\ (Len(edge'.rows) = w <=> a + 1 >= w)
    BY <1>1, <1>2
  <1>6. edge'.since = Since(b)
    BY <1>2, <1>3, <1>4, <1>5
  <1>7. edge'.emitted = {n \in 1..b : Due(n)}
    <2>1. \A n : n \in 1..b <=> n \in 1..a \/ n = a + 1
      BY <1>1, <1>2
    <2>2. edge'.emitted = IF Due(a + 1) THEN edge.emitted \cup {a + 1} ELSE edge.emitted
      BY <1>2, <1>3, <1>4, <1>5
    <2>3. QED
      BY <1>2, <2>1, <2>2
  <1>8. b <= Len(sent')
    BY <1>1, <1>2
  <1>9. QED
    BY <1>5, <1>6, <1>7, <1>8 DEF EdgeCounts, SameWindows, Since, Due, a, b, w

LEMMA NewestStays ==
    ASSUME NEW n \in Nat, NEW k \in Int, k <= n, NEW s, NEW v, Newest(s, v, k),
           \A j \in 1..n : Got(s, j)' <=> Got(s, j)
    PROVE  Newest(s, v, k)'
  <1>1. \A j \in 1..k : j \in 1..n
    OBVIOUS
  <1>2. CASE v = NoReading /\ \A j \in 1..k : ~Got(s, j)
    BY <1>1, <1>2 DEF Newest
  <1>3. CASE v \in 1..k /\ Got(s, v) /\ \A j \in (v + 1)..k : ~Got(s, j)
    <2>1. \A j \in (v + 1)..k : j \in 1..n
      BY <1>3
    <2>2. Got(s, v)'
      BY <1>1, <1>3
    <2>3. \A j \in (v + 1)..k : ~Got(s, j)'
      BY <1>3, <2>1
    <2>4. QED
      BY <1>3, <2>2, <2>3 DEF Newest
  <1>4. QED
    BY <1>2, <1>3 DEF Newest

\* What the edge's window says of the seconds, after a message more.
LEMMA FollowsKept ==
    ASSUME ScoringTyped, EdgeCounts, EdgeFollows, NEW present \in SUBSET Sensors,
           NEW lost \in BOOLEAN, NEW tardy \in BOOLEAN, MessageSent(present, lost, tardy)
    PROVE  EdgeFollows'
  <1> DEFINE n == Len(sent)
             now == n + 1
             L == Len(edge.rows)
  <1>1. PICK m \in Nat : m = n
    BY DEF ScoringTyped
  <1>2. /\ Len(sent') = m + 1 /\ m + 1 <= MaxTime
        /\ m + 1 \in missed' <=> lost
        /\ \A j \in 1..m : (j \in missed' <=> j \in missed)
        /\ \A s, j : j \in 1..m => (Got(s, j)' <=> Got(s, j))
        /\ \A s, j : j = m + 1 => (Got(s, j)' <=> ~lost /\ s \in present)
    BY <1>1, MessageIs
  <1>3. /\ edge.rows \in Seq(EdgeRow) /\ L \in Nat /\ edge.last \in EdgeRow /\ L <= m
        /\ missed \in SUBSET (1..m)
    BY <1>1, ScoringAssumption DEF ScoringTyped, EdgeCounts
  <1>4. /\ edge.rows # <<>> => \E s \in Sensors : edge.last[s] # NoReading
        /\ \A s \in Sensors : Newest(s, edge.last[s], m)
        /\ \A i \in 1..L : (\A j \in (m - (L - i))..m : j \notin missed) =>
             \A s \in Sensors : Newest(s, edge.rows[i][s], m - (L - i))
    BY <1>1 DEF EdgeFollows, Unbroken, AgeOf
  <1>5. \A s, v : \A k \in Int : k <= m /\ Newest(s, v, k) => Newest(s, v, k)'
    BY <1>2, NewestStays
  <1> HIDE DEF n, now, L
  <1>6. CASE lost
    <2>1. UNCHANGED edge
      BY <1>6 DEF MessageSent
    <2>2. \A s \in Sensors : \A v : Newest(s, v, m) => \A k : k = m + 1 => Newest(s, v, k)'
      <3>1. SUFFICES ASSUME NEW s \in Sensors, NEW v, Newest(s, v, m), NEW k, k = m + 1 PROVE Newest(s, v, k)'
        OBVIOUS
      <3>2. Newest(s, v, m)'
        BY <1>5, <3>1
      <3>3. ~Got(s, k)'
        BY <1>2, <1>6, <3>1
      <3>4. \A j : j \in 1..k <=> j \in 1..m \/ j = k
        BY <3>1
      <3>5. \A w \in 1..m : \A j : j \in (w + 1)..k <=> j \in (w + 1)..m \/ j = k
        BY <3>1
      <3>6. QED
        BY <3>2, <3>3, <3>4, <3>5 DEF Newest
    <2>3. \A i \in 1..Len(edge.rows) : ~Unbroken(i)'
      <3>1. TAKE i \in 1..Len(edge.rows)
      <3>2. m + 1 \in ((m + 1) - (L - i))..(m + 1)
        BY <1>3 DEF L
      <3>3. m + 1 \in missed'
        BY <1>2, <1>6
      <3>4. Len(sent') = m + 1 /\ Len(edge'.rows) = L
        BY <1>2, <2>1 DEF L
      <3>5. ~ \A j \in (Len(sent') - (Len(edge'.rows) - i))..Len(sent') : j \notin missed'
        BY <3>2, <3>3, <3>4
      <3>6. QED
        BY <3>5 DEF Unbroken, AgeOf
    <2>4. QED
      BY <1>2, <1>4, <2>1, <2>2, <2>3 DEF EdgeFollows
  <1>7. CASE ~lost
    <2> DEFINE last == Carried(edge.last, present, m + 1)
    <2>1. /\ last \in EdgeRow
          /\ IF \A s \in Sensors : last[s] = NoReading THEN UNCHANGED edge ELSE Added(present, m + 1)
      <3>1. Add(present, m + 1)
        BY <1>1, <1>7 DEF MessageSent, n
      <3>2. m + 1 \in 1..MaxTime
        BY <1>2, ScoringAssumption
      <3>3. QED
        BY <3>1, <3>2, AddIs
    <2>2. \A s \in Sensors : last[s] = IF s \in present THEN m + 1 ELSE edge.last[s]
      BY DEF Carried
    <2> HIDE DEF last
    <2>3. \A s \in Sensors : \A v, k : v = last[s] /\ k = m + 1 => Newest(s, v, k)'
      <3>1. SUFFICES ASSUME NEW s \in Sensors, NEW v, NEW k, v = last[s], k = m + 1 PROVE Newest(s, v, k)'
        OBVIOUS
      <3>2. CASE s \in present
        <4>1. v = k /\ Got(s, k)' /\ k \in 1..k /\ \A j \in (k + 1)..k : FALSE
          BY <1>2, <1>7, <2>2, <3>1, <3>2
        <4>2. QED
          BY <4>1 DEF Newest
      <3>3. CASE s \notin present
        <4>1. Newest(s, v, m)'
          BY <1>4, <1>5, <2>2, <3>1, <3>3
        <4>2. ~Got(s, k)'
          BY <1>2, <3>1, <3>3
        <4>3. \A j : j \in 1..k <=> j \in 1..m \/ j = k
          BY <3>1
        <4>4. \A w \in 1..m : \A j : j \in (w + 1)..k <=> j \in (w + 1)..m \/ j = k
          BY <3>1
        <4>5. QED
          BY <4>1, <4>2, <4>3, <4>4 DEF Newest
      <3>4. QED
        BY <3>2, <3>3
    <2>4. CASE \A s \in Sensors : last[s] = NoReading
      <3>1. UNCHANGED edge /\ \A s \in Sensors : edge.last[s] = NoReading
        <4>1. m + 1 # NoReading
          BY DEF NoReading
        <4>2. QED
          BY <2>1, <2>2, <2>4, <4>1
      <3>2. edge.rows = <<>> /\ Len(edge.rows) = 0
        BY <1>3, <1>4, <3>1
      <3>3. \A s \in Sensors : Newest(s, edge.last[s], Len(sent))'
        <4>1. Len(sent') = m + 1 /\ edge' = edge /\ \A s \in Sensors : edge.last[s] = last[s]
          BY <1>2, <2>4, <3>1
        <4>2. QED
          BY <2>3, <4>1
      <3>4. QED
        BY <3>1, <3>2, <3>3 DEF EdgeFollows
    <2>5. CASE ~\A s \in Sensors : last[s] = NoReading
      <3>1. Added(present, m + 1)
        BY <2>1, <2>5
      <3> DEFINE K == Len(edge'.rows)
      <3>2. /\ edge'.last = last /\ K = IF L < WindowSize THEN L + 1 ELSE WindowSize
            /\ edge'.rows[K] = last
            /\ \A i \in 1..(K - 1) : edge'.rows[i] = edge.rows[IF L < WindowSize THEN i ELSE i + 1]
        BY <3>1 DEF Added, last, L
      <3>3. L <= WindowSize /\ WindowSize \in Nat
        BY ScoringAssumption DEF L, EdgeCounts, ScoringTyped
      <3>4. \A i \in 1..K : Unbroken(i)' =>
              \A s \in Sensors : \A v, k : v = edge'.rows[i][s] /\ k = m + 1 - (K - i) => Newest(s, v, k)'
        <4>1. SUFFICES ASSUME NEW i \in 1..K, Unbroken(i)', NEW s \in Sensors, NEW v, NEW k,
                              v = edge'.rows[i][s], k = m + 1 - (K - i)
                       PROVE  Newest(s, v, k)'
          OBVIOUS
        <4>2. CASE i = K
          <5>1. v = last[s] /\ k = m + 1
            BY <1>3, <3>2, <3>3, <4>1, <4>2
          <5>2. QED
            BY <2>3, <5>1
        <4>3. CASE i # K
          <5> DEFINE h == IF L < WindowSize THEN i ELSE i + 1
          <5>1. h \in 1..L /\ k = m - (L - h) /\ i \in 1..(K - 1) /\ k \in Int /\ k <= m
            <6>1. PICK l \in Nat, w \in Nat, c \in Nat, p \in Int :
                    l = L /\ w = WindowSize /\ c = K /\ p = m /\ l <= w /\ c = IF l < w THEN l + 1 ELSE w
              <7>1. L \in Nat /\ WindowSize \in Nat /\ L <= WindowSize /\ m \in Int
                BY <1>3, <3>3
              <7>2. K = IF L < WindowSize THEN L + 1 ELSE WindowSize
                BY <3>2
              <7> HIDE DEF L, K
              <7>3. K \in Nat
                BY <7>1, <7>2
              <7>4. QED
                BY <7>1, <7>2, <7>3
            <6>2. i \in 1..c /\ i # c /\ i \in Int
              BY <4>1, <4>3, <6>1
            <6>3. k = p + 1 - (c - i) /\ h = IF l < w THEN i ELSE i + 1
              BY <4>1, <6>1
            <6>4. i \in 1..(c - 1) /\ h \in 1..l
              BY <6>1, <6>2, <6>3
            <6>5. k = p - (l - h) /\ k \in Int /\ k <= p
              BY <6>1, <6>2, <6>3, <6>4
            <6>6. QED
              BY <6>1, <6>4, <6>5
          <5>2. v = edge.rows[h][s]
            BY <3>2, <4>1, <5>1
          <5>3. \A j \in k..(m + 1) : j \notin missed'
            BY <1>2, <4>1 DEF Unbroken, AgeOf
          <5> HIDE DEF h
          <5>4. \A j \in k..m : j \notin missed
            <6>1. TAKE j \in k..m
            <6>2. j \in k..(m + 1)
              BY <5>1
            <6>3. CASE j \in 1..m
              BY <1>2, <5>3, <6>2, <6>3
            <6>4. CASE j \notin 1..m
              BY <1>3, <6>4
            <6>5. QED
              BY <6>3, <6>4
          <5>5. Newest(s, v, k)
            BY <1>4, <5>1, <5>2, <5>4
          <5>6. QED
            BY <1>5, <5>1, <5>5
        <4>4. QED
          BY <4>2, <4>3
      <3>5. \A i \in 1..K : Unbroken(i)' =>
              \A s \in Sensors : Newest(s, edge.rows[i][s], Len(sent) - AgeOf(i))'
        <4>1. TAKE i \in 1..K
        <4>2. SUFFICES ASSUME Unbroken(i)', NEW s \in Sensors
                       PROVE  Newest(s, edge.rows[i][s], Len(sent) - AgeOf(i))'
          OBVIOUS
        <4>3. PICK v, k : v = edge'.rows[i][s] /\ k = m + 1 - (K - i)
          OBVIOUS
        <4>4. Newest(s, v, k)'
          BY <3>4, <4>2, <4>3
        <4>5. k = (Len(sent) - AgeOf(i))'
          BY <1>2, <4>3 DEF AgeOf
        <4>6. QED
          BY <4>3, <4>4, <4>5
      <3>6. \A s \in Sensors : Newest(s, edge.last[s], Len(sent))'
        BY <1>2, <2>3, <3>2
      <3>7. \E s \in Sensors : edge'.last[s] # NoReading
        BY <2>5, <3>2
      <3>8. QED
        BY <3>5, <3>6, <3>7 DEF EdgeFollows
    <2>6. QED
      BY <2>4, <2>5
  <1>8. QED
    BY <1>6, <1>7

\* The edge stays as it is with what it was sent.
LEMMA EdgeStays ==
    ASSUME ScoringTyped, EdgeCounts, EdgeFollows, UNCHANGED <<sent, missed, edge>>
    PROVE  EdgeCounts' /\ EdgeFollows'
  <1>1. EdgeCounts'
    BY DEF EdgeCounts, SameWindows
  <1>2. \A s, v, k : Newest(s, v, k)' <=> Newest(s, v, k)
    <2>1. \A s, j : Got(s, j)' <=> Got(s, j)
      BY DEF Got
    <2>2. NoReading' = NoReading
      BY DEF NoReading
    <2>3. QED
      BY <2>1, <2>2 DEF Newest
  <1>3. \A i : Unbroken(i)' <=> Unbroken(i)
    BY DEF Unbroken, AgeOf
  <1>4. EdgeFollows'
    <2>1. \A i : AgeOf(i)' = AgeOf(i)
      BY DEF AgeOf
    <2>2. NoReading' = NoReading
      BY DEF NoReading
    <2>3. QED
      BY <1>2, <1>3, <2>1, <2>2 DEF EdgeFollows
  <1>5. QED
    BY <1>1, <1>4

LEMMA StandsIfSame ==
    ASSUME NEW e \in Int, e = scored.end, ScoredStands, UNCHANGED scored, Len(sent) \in Nat,
           \A s \in Sensors, k \in Window(e) : Mean(s, k)' = Mean(s, k)
    PROVE  ScoredStands'
  <1>1. Vector(e)' = Vector(e) /\ Filled(e)' = Filled(e)
    BY SameWindow
  <1>2. Vector(scored.end)' = Vector(e)' /\ Filled(scored.end)' = Filled(e)'
    OBVIOUS
  <1>3. Vector(scored.end) = Vector(e) /\ Filled(scored.end) = Filled(e) /\ NoScore' = NoScore
    BY DEF NoScore
  <1>4. QED
    BY <1>1, <1>2, <1>3 DEF ScoredStands

LEMMA MessageSentKeeps ==
    ASSUME ScoringInv, NEW present \in SUBSET Sensors, NEW lost \in BOOLEAN, NEW tardy \in BOOLEAN,
           MessageSent(present, lost, tardy)
    PROVE  ScoringInv'
  <1>1. ScoringTyped /\ EdgeCounts /\ EdgeFollows /\ ScoredStands /\ ScoredOver /\ Downgraded
    BY DEF ScoringInv
  <1>2. /\ sent' \in Seq(SUBSET Sensors) /\ Len(sent') = Len(sent) + 1 /\ Len(sent) \in Nat
        /\ Len(sent') <= MaxTime
        /\ missed' \in SUBSET (1..Len(sent')) /\ held' \in SUBSET (1..Len(sent'))
        /\ \A k \in Int : k <= Len(sent) => \A s : (Stored(s, k)' <=> Stored(s, k))
        /\ UNCHANGED scored
    BY <1>1, MessageIs
  <1>3. edge' = edge \/ Added(present, Len(sent) + 1)
    <2>1. CASE lost
      BY <2>1 DEF MessageSent
    <2>2. CASE ~lost
      <3>1. Add(present, Len(sent) + 1) /\ Len(sent) + 1 \in 1..MaxTime
        BY <1>2, <2>2, ScoringAssumption DEF MessageSent
      <3>2. QED
        BY <1>1, <3>1, AddIs
    <2>3. QED
      BY <2>1, <2>2
  <1>4. edge' \in [rows : Seq(EdgeRow), last : EdgeRow, since : Nat, adds : Nat, emitted : SUBSET Nat]
    BY <1>1, <1>3 DEF ScoringTyped, Added
  <1>5. ScoringTyped'
    <2>1. scored.end \in 0..Len(sent')
      BY <1>1, <1>2 DEF ScoringTyped
    <2>2. QED
      BY <1>1, <1>2, <1>4, <2>1 DEF ScoringTyped, EdgeRow, Labels
  <1>6. EdgeCounts'
    <2>1. CASE edge' = edge
      <3>1. edge.adds <= Len(sent')
        BY <1>1, <1>2 DEF EdgeCounts, ScoringTyped
      <3>2. QED
        BY <1>1, <2>1, <3>1 DEF EdgeCounts, SameWindows
    <2>2. CASE Added(present, Len(sent) + 1)
      BY <1>1, <1>2, <2>2, WindowCountsKept
    <2>3. QED
      BY <1>3, <2>1, <2>2
  <1>7. EdgeFollows'
    BY <1>1, FollowsKept
  <1>8. ScoredStands'
    <2>1. PICK e \in Int : e = scored.end /\ BucketSeconds * e <= Len(sent)
      BY <1>1 DEF ScoringTyped, ScoredOver
    <2>2. \A s \in Sensors, k \in Window(e) : Mean(s, k)' = Mean(s, k)
      <3>1. TAKE s \in Sensors, k \in Window(e)
      <3>2. k \in Int /\ k <= e
        BY <2>1, ScoringAssumption DEF Window
      <3>3. BucketSeconds * k <= BucketSeconds * e /\ BucketSeconds * e \in Int
        BY <2>1, <3>2, LaterBucket, OfIs
      <3>4. ASSUME NEW t \in Of(k) PROVE t \in Int /\ t <= Len(sent)
        <4>1. t \in Int /\ t <= BucketSeconds * k /\ BucketSeconds * k \in Int
          BY <3>2, OfIs
        <4>2. QED
          BY <1>2, <2>1, <3>3, <4>1
      <3>5. \A t \in Of(k) : Stored(s, t)' <=> Stored(s, t)
        BY <1>2, <3>4
      <3>6. Mean(s, k)' = {t \in Of(k) : Stored(s, t)'}
        BY DEF Mean, Stored, Of
      <3>7. Mean(s, k) = {t \in Of(k) : Stored(s, t)}
        BY DEF Mean, Stored
      <3>8. QED
        BY <3>5, <3>6, <3>7
    <2>3. QED
      BY <1>1, <1>2, <2>1, <2>2, StandsIfSame
  <1>9. Downgraded'
    BY <1>1, <1>2 DEF Downgraded
  <1>10. ScoredOver'
    <2>1. BucketSeconds * scored.end <= Len(sent) /\ BucketSeconds * scored.end \in Int
      BY <1>1, OfIs DEF ScoredOver, ScoringTyped
    <2>2. QED
      BY <1>2, <2>1 DEF ScoredOver
  <1>11. QED
    BY <1>5, <1>6, <1>7, <1>8, <1>9, <1>10 DEF ScoringInv

LEMMA ServerScoresKeeps ==
    ASSUME ScoringInv, NEW q \in HalfWidths, ServerScores(q) PROVE ScoringInv'
  <1> USE ScoringAssumption
  <1>1. ScoringTyped /\ EdgeCounts /\ EdgeFollows
    BY DEF ScoringInv
  <1>2. PICK e \in Nat : e = WindowEnd(Len(sent)) /\ e <= Len(sent) /\ BucketSeconds * e <= Len(sent)
    BY <1>1, EndIs DEF ScoringTyped
  <1>3. PICK c : c = Score("rul", RulCap, q, "none").confidence
    OBVIOUS
  <1>4. /\ scored' = [end |-> e, vector |-> Vector(e), imputed |-> Silent(e), late |-> FALSE,
                      partial |-> 10 * Filled(e) < 9 * WindowSize, confidence |-> Qualify(c, Silent(e))]
        /\ UNCHANGED <<sent, missed, held, edge>>
    BY <1>2, <1>3 DEF ServerScores
  <1>5. c \in Labels
    BY <1>3 DEF Score, IntervalConfidence, Labels
  <1>6. Qualify(c, Silent(e)) \in Labels /\ Silent(e) \in SUBSET Sensors
    BY <1>5 DEF Qualify, Lower, Labels, Silent
  <1>7. /\ scored'.end = e /\ scored'.vector = Vector(e) /\ scored'.imputed = Silent(e) /\ scored'.late = FALSE
        /\ scored'.partial = (10 * Filled(e) < 9 * WindowSize) /\ scored'.confidence = Qualify(c, Silent(e))
    BY <1>4
  <1>8. ScoringTyped'
    <2>1. e \in 0..Len(sent)
      BY <1>1, <1>2 DEF ScoringTyped
    <2>2. scored' = [end |-> scored'.end, vector |-> scored'.vector, imputed |-> scored'.imputed,
                     partial |-> scored'.partial, confidence |-> scored'.confidence, late |-> scored'.late]
      BY <1>4, <1>7
    <2>3. QED
      BY <1>1, <1>4, <1>6, <1>7, <2>1, <2>2 DEF ScoringTyped, EdgeRow, Labels
  <1>9. EdgeCounts' /\ EdgeFollows'
    BY <1>1, <1>4, EdgeStays
  <1>10. ScoredStands'
    <2>1. Vector(e)' = Vector(e) /\ Filled(e)' = Filled(e)
      <3>1. Len(sent) \in Nat /\ \A s, k : Mean(s, k)' = Mean(s, k)
        BY <1>1, <1>4 DEF Mean, Of, ScoringTyped
      <3>2. QED
        BY <3>1, SameWindow
    <2>2. Vector(scored.end)' = Vector(e)' /\ Filled(scored.end)' = Filled(e)'
      BY <1>7
    <2>3. QED
      BY <1>7, <2>1, <2>2 DEF ScoredStands
  <1>11. Downgraded'
    BY <1>5, <1>7 DEF Downgraded, Qualify, Lower, Labels
  <1>12. ScoredOver'
    BY <1>2, <1>4, <1>7 DEF ScoredOver
  <1>13. QED
    BY <1>8, <1>9, <1>10, <1>11, <1>12 DEF ScoringInv

LEMMA FlushHeldKeeps ==
    ASSUME ScoringInv, FlushHeld PROVE ScoringInv'
  <1> USE ScoringAssumption
  <1>1. ScoringTyped /\ EdgeCounts /\ EdgeFollows /\ ScoredStands /\ ScoredOver /\ Downgraded
    BY DEF ScoringInv
  <1>2. PICK e \in Nat : e = scored.end
    BY <1>1 DEF ScoringTyped
  <1>3. PICK l \in BOOLEAN : l = (scored.late \/ \E b \in Window(e) : held \cap Of(b) # {})
    BY <1>1 DEF ScoringTyped
  <1>4. /\ held' = {} /\ UNCHANGED <<sent, missed, edge>>
        /\ scored' = [end |-> scored.end, vector |-> scored.vector, imputed |-> scored.imputed,
                      partial |-> scored.partial, confidence |-> scored.confidence, late |-> l]
    <2>1. /\ held' = {} /\ UNCHANGED <<sent, missed, edge>>
          /\ scored' = [scored EXCEPT !.late = l]
      BY <1>2, <1>3 DEF FlushHeld
    <2>2. QED
      BY <1>1, <2>1 DEF ScoringTyped
  <1>5. /\ scored'.end = e /\ scored'.vector = scored.vector /\ scored'.imputed = scored.imputed
        /\ scored'.late = l /\ scored'.partial = scored.partial /\ scored'.confidence = scored.confidence
    BY <1>2, <1>4
  <1>6. ScoringTyped'
    <2>1. scored' = [end |-> scored'.end, vector |-> scored'.vector, imputed |-> scored'.imputed,
                     partial |-> scored'.partial, confidence |-> scored'.confidence, late |-> scored'.late]
      BY <1>2, <1>4, <1>5
    <2>2. QED
      BY <1>1, <1>2, <1>4, <1>5, <2>1 DEF ScoringTyped, EdgeRow, Labels
  <1>7. EdgeCounts' /\ EdgeFollows'
    BY <1>1, <1>4, EdgeStays
  <1>8. ScoredStands'
    <2>1. SUFFICES ASSUME (scored # NoScore)', ~l
                   PROVE  /\ Vector(scored.end)' = scored'.vector
                          /\ 10 * Filled(scored.end)' < 9 * WindowSize => scored'.partial
      BY <1>5 DEF ScoredStands
    <2>2. ~scored.late /\ \A b \in Window(e) : held \cap Of(b) = {}
      BY <1>3, <2>1
    <2>3. scored = scored'
      BY <1>1, <1>4, <2>1, <2>2 DEF ScoringTyped
    <2>4. Vector(e) = scored.vector /\ (10 * Filled(e) < 9 * WindowSize => scored.partial)
      BY <1>1, <1>2, <2>1, <2>2, <2>3 DEF ScoredStands, NoScore
    <2>5. Vector(e)' = Vector(e) /\ Filled(e)' = Filled(e)
      <3>1. \A s \in Sensors, k \in Window(e) : Mean(s, k)' = Mean(s, k)
        <4>1. TAKE s \in Sensors, k \in Window(e)
        <4>2. Mean(s, k) = {t \in Of(k) : t \in (1..Len(sent)) \ held /\ s \in sent[t]}
          BY DEF Mean
        <4>3. Mean(s, k)' = {t \in Of(k) : t \in 1..Len(sent) /\ s \in sent[t]}
          BY <1>4 DEF Mean, Of
        <4>4. \A t \in Of(k) : t \notin held
          BY <2>2
        <4>5. QED
          BY <4>2, <4>3, <4>4
      <3>2. Len(sent) \in Nat
        BY <1>1 DEF ScoringTyped
      <3>3. QED
        BY <3>1, <3>2, SameWindow
    <2>6. Vector(scored.end)' = Vector(e)' /\ Filled(scored.end)' = Filled(e)'
      BY <1>5
    <2>7. QED
      BY <1>5, <2>4, <2>5, <2>6
  <1>9. Downgraded'
    BY <1>1, <1>5 DEF Downgraded
  <1>10. ScoredOver'
    BY <1>1, <1>2, <1>4, <1>5 DEF ScoredOver
  <1>11. QED
    BY <1>6, <1>7, <1>8, <1>9, <1>10 DEF ScoringInv

-----------------------------------------------------------------------------
\* At the end of a bucket both windows have a sensor's newest reading.
LEMMA CarriesAlike == ASSUME ScoringInv PROVE CarriedAlike
  <1> USE ScoringAssumption
  <1>1. ScoringTyped /\ EdgeFollows /\ EdgeCounts
    BY DEF ScoringInv
  <1>2. PICK now \in Nat : now = Len(sent)
    BY <1>1 DEF ScoringTyped
  <1>3. PICK e \in Nat : e = WindowEnd(now) /\ BucketSeconds * e <= now
    BY <1>2, EndIs
  <1>4. PICK L \in Nat : L = Len(edge.rows) /\ L <= now
    BY <1>1, <1>2 DEF ScoringTyped, EdgeCounts
  <1>5. SUFFICES ASSUME \A j \in (BucketSeconds * (e - WindowSize) + 1)..now : j \notin missed /\ j \notin held,
                        NEW s \in Sensors, NEW k \in 1..L, NEW b \in Window(e),
                        BucketSeconds * b = now - (L - k),
                        NEW c \in Window(e), c <= b, Has(s, c)
                 PROVE  edge.rows[k][s] = Max(Vector(e)[s][WindowSize - (e - b)])
    <2>1. CarriedAlike <=>
            ((missed \cup held) \cap (BucketSeconds * (e - WindowSize) + 1)..now = {} =>
               \A x \in Sensors, k \in 1..L, b \in Window(e) :
                 /\ BucketSeconds * b = now - (L - k)
                 /\ \E c \in Window(e) : c <= b /\ Has(x, c)
                 => edge.rows[k][x] = Max(Vector(e)[x][WindowSize - (e - b)]))
      BY <1>2, <1>3, <1>4 DEF CarriedAlike
    <2>2. (missed \cup held) \cap (BucketSeconds * (e - WindowSize) + 1)..now = {}
            => \A j \in (BucketSeconds * (e - WindowSize) + 1)..now : j \notin missed /\ j \notin held
      OBVIOUS
    <2>3. QED
      BY <2>1, <2>2
  <1> DEFINE t == now - (L - k)
             v == edge.rows[k][s]
             from == BucketSeconds * (e - WindowSize)
             before == {i \in Window(e) : i <= b /\ Has(s, i)}
  <1>6. /\ b \in Int /\ b <= e /\ c \in Int /\ e - WindowSize < c /\ e - WindowSize \in Int
        /\ t = BucketSeconds * b /\ t \in 1..now /\ from \in Int
        /\ \A i : i \in Window(e) <=> i \in Int /\ e - WindowSize < i /\ i <= e
    <2>1. \A i : i \in Window(e) <=> i \in Int /\ e - WindowSize < i /\ i <= e
      BY DEF Window
    <2>2. t \in 1..now
      BY <1>4, <1>5
    <2>3. QED
      BY <1>5, <2>1, <2>2
  <1> HIDE DEF from
  \* Of the seconds of the platform's window nothing is missed or held.
  <1>7. ASSUME NEW i \in Window(e), NEW x \in Of(i)
        PROVE  x \in Int /\ from < x /\ (x <= now => x \notin missed /\ x \notin held)
    <2>1. i \in Int /\ e - WindowSize <= i - 1 /\ i - 1 \in Int
      BY <1>6
    <2>2. from <= BucketSeconds * (i - 1) /\ BucketSeconds * (i - 1) = BucketSeconds * i - BucketSeconds
      <3>1. from <= BucketSeconds * (i - 1)
        BY <1>6, <2>1, LaterBucket DEF from
      <3>2. \A n, y \in Int : n * (y - 1) = n * y - n
        OBVIOUS
      <3>3. QED
        BY <2>1, <3>1, <3>2
    <2>3. x \in Int /\ BucketSeconds * i - BucketSeconds < x /\ BucketSeconds * i \in Int
      BY <2>1, OfIs
    <2>4. from < x
      BY <1>6, <2>2, <2>3
    <2>5. x <= now => x \in (from + 1)..now
      BY <1>6, <2>3, <2>4
    <2>6. QED
      BY <1>5, <2>3, <2>4, <2>5 DEF from
  <1>8. PICK j \in Of(c) : Stored(s, j)
    BY <1>5, <1>6, MeanIs
  <1>9. j \in Int /\ 1 <= j /\ j <= t /\ from < j /\ Got(s, j)
    <2>1. BucketSeconds * c <= BucketSeconds * b /\ j <= BucketSeconds * c /\ BucketSeconds * c \in Int
      BY <1>5, <1>6, <1>8, LaterBucket, OfIs
    <2>2. j \in Int /\ from < j /\ j \in 1..now /\ s \in sent[j]
      BY <1>2, <1>7, <1>8 DEF Stored
    <2>3. j \notin missed
      BY <1>7, <1>8, <2>2
    <2>4. Got(s, j)
      BY <1>2, <2>2, <2>3 DEF Got
    <2>5. BucketSeconds * b = t /\ t \in Int
      BY <1>6
    <2>6. 1 <= j /\ j <= t
      <3> HIDE DEF t
      <3>1. QED
        BY <1>2, <2>1, <2>2, <2>5
    <2>7. QED
      BY <2>2, <2>4, <2>6
  <1>10. Newest(s, v, t)
    <2>1. AgeOf(k) = L - k /\ Len(sent) - AgeOf(k) = t
      BY <1>2, <1>4 DEF AgeOf
    <2>2. Unbroken(k)
      <3>1. \A x \in t..now : x \in (from + 1)..now
        BY <1>6, <1>9
      <3>2. \A x \in t..now : x \notin missed
        BY <1>5, <3>1 DEF from
      <3>3. QED
        BY <1>2, <2>1, <3>2 DEF Unbroken
    <2>3. QED
      BY <1>1, <1>4, <2>1, <2>2 DEF EdgeFollows
  <1> HIDE DEF t, v
  <1>11. v \in 1..t /\ Got(s, v) /\ (\A i \in (v + 1)..t : ~Got(s, i)) /\ j <= v
    BY <1>6, <1>9, <1>10 DEF Newest
  \* The bucket of the edge's reading is one of the window, and the last with one.
  <1>12. PICK d \in Int : v \in Of(d)
    <2>1. v \in Int
      BY <1>6, <1>11
    <2>2. QED
      BY <2>1, BucketOf
  <1>13. c <= d /\ d <= b
    <2>1. /\ v \in Int /\ v <= BucketSeconds * d /\ BucketSeconds * d - BucketSeconds < v
          /\ BucketSeconds * c - BucketSeconds < j /\ BucketSeconds * d \in Int /\ BucketSeconds * c \in Int
      BY <1>6, <1>8, <1>12, OfIs
    <2>2. ~(d < c)
      <3>1. SUFFICES ASSUME d < c PROVE FALSE
        OBVIOUS
      <3>2. BucketSeconds * d + BucketSeconds <= BucketSeconds * c
        BY <1>6, <3>1, Multiple
      <3>3. QED
        BY <1>9, <1>11, <2>1, <3>2
    <2>3. ~(b < d)
      <3>1. SUFFICES ASSUME b < d PROVE FALSE
        OBVIOUS
      <3>2. BucketSeconds * b + BucketSeconds <= BucketSeconds * d /\ BucketSeconds * b \in Int
        BY <1>6, <3>1, Multiple
      <3>3. QED
        BY <1>6, <1>11, <2>1, <3>2
    <2>4. QED
      BY <1>6, <2>2, <2>3
  <1>14. d \in Window(e)
    BY <1>6, <1>13
  <1>15. Stored(s, v)
    <2>1. v <= now /\ v \in 1..Len(sent) /\ s \in sent[v]
      BY <1>2, <1>6, <1>11 DEF Got
    <2>2. v \notin held
      BY <1>7, <1>12, <1>14, <2>1
    <2>3. QED
      BY <2>1, <2>2 DEF Stored
  <1>16. d \in before
    BY <1>12, <1>13, <1>14, <1>15, MeanIs
  <1>17. ASSUME NEW i \in before, NEW x \in Mean(s, i) PROVE x \in Int /\ x <= v
    <2>1. i \in Int /\ i <= b /\ i \in Window(e)
      BY <1>6
    <2>2. x \in Of(i) /\ Stored(s, x)
      BY <2>1, MeanIs
    <2>3. x \in Int /\ x <= BucketSeconds * i /\ BucketSeconds * i <= BucketSeconds * b /\ BucketSeconds * i \in Int
      BY <1>6, <2>1, <2>2, LaterBucket, OfIs
    <2>4. x <= t /\ x \in 1..now /\ s \in sent[x]
      <3>1. BucketSeconds * b = t /\ t \in Int
        BY <1>6
      <3>2. x <= t
        BY <2>3, <3>1
      <3>3. QED
        BY <1>2, <2>2, <3>2 DEF Stored
    <2>5. Got(s, x)
      BY <1>2, <1>7, <2>1, <2>2, <2>4 DEF Got
    <2>6. QED
      BY <1>6, <1>11, <2>3, <2>4, <2>5
  <1>18. Max(before) = d
    <2>1. before \subseteq Int /\ before # {} /\ IsFiniteSet(before)
      <3>1. before \subseteq Window(e) /\ IsFiniteSet(Window(e)) /\ Window(e) \subseteq Int
        BY FS_Interval DEF Window
      <3>2. QED
        BY <1>16, <3>1, FS_Subset
    <2>2. PICK m : m = Max(before)
      OBVIOUS
    <2>3. m \in before /\ \A y \in before : m >= y
      <3> HIDE DEF before
      <3>1. QED
        BY <2>1, <2>2, MaxIs
    <2>4. m \in Int /\ m >= d
      BY <1>16, <2>1, <2>3
    <2>5. ~(d < m)
      <3>1. SUFFICES ASSUME d < m PROVE FALSE
        OBVIOUS
      <3>2. PICK x : x \in Mean(s, m)
        BY <2>3 DEF Has
      <3>3. x \in Int /\ x <= v
        BY <1>17, <2>3, <3>2
      <3>4. x \in Of(m)
        BY <2>4, <3>2, MeanIs
      <3>5. /\ BucketSeconds * m - BucketSeconds < x /\ v <= BucketSeconds * d
            /\ BucketSeconds * m \in Int /\ BucketSeconds * d \in Int
        BY <1>12, <2>4, <3>4, OfIs
      <3>6. BucketSeconds * d + BucketSeconds <= BucketSeconds * m
        BY <2>4, <3>1, Multiple
      <3>7. v \in Int
        BY <1>6, <1>11
      <3>8. QED
        BY <3>3, <3>5, <3>6, <3>7
    <2>6. QED
      BY <2>2, <2>4, <2>5
  <1>19. Max(Mean(s, d)) = v
    <2> DEFINE M == Mean(s, d)
    <2>1. v \in M /\ M \subseteq Of(d)
      BY <1>12, <1>15, MeanIs
    <2>2. \A x \in M : x \in Int /\ x <= v
      BY <1>16, <1>17
    <2>3. IsFiniteSet(M)
      <3>1. BucketSeconds * (d - 1) + 1 \in Int /\ BucketSeconds * d \in Int
        BY <1>12
      <3>2. IsFiniteSet(Of(d))
        BY <3>1, FS_Interval DEF Of
      <3>3. QED
        BY <2>1, <3>2, FS_Subset
    <2> HIDE DEF M
    <2>4. PICK m : m = Max(M)
      OBVIOUS
    <2>5. m \in M /\ \A y \in M : m >= y
      <3>1. M \subseteq Int /\ M # {}
        BY <2>1, <2>2
      <3>2. QED
        BY <2>3, <2>4, <3>1, MaxIs
    <2>6. m \in Int /\ v \in Int /\ m >= v /\ m <= v
      BY <2>1, <2>2, <2>5
    <2>7. QED
      BY <2>4, <2>6 DEF M
  <1>20. Vector(e)[s][WindowSize - (e - b)] = Mean(s, d)
    <2>1. s \notin Silent(e)
      BY <1>5 DEF Silent
    <2>2. Reading(s, b, e) = Mean(s, d)
      <3>1. before # {}
        BY <1>16
      <3>2. QED
        BY <1>18, <3>1 DEF Reading
    <2>3. WindowSize - (e - b) \in 1..WindowSize /\ e - WindowSize + (WindowSize - (e - b)) = b
      BY <1>5, <1>6
    <2>4. QED
      BY <2>1, <2>2, <2>3 DEF Vector
  <1>21. QED
    BY <1>19, <1>20 DEF v

\* The interval lies around the point, between none and the cap.
LEMMA IntervalsHold ==
    ASSUME NEW raw \in {0, RulCap \div 2, RulCap + 1}, NEW q \in HalfWidths \cup {0}
    PROVE  LET rul == Rul(raw, q) IN
           /\ 0 <= rul.low /\ rul.low <= rul.point /\ rul.point <= rul.high /\ rul.high <= RulCap
           /\ Score("rul", raw, q, "score").health = Predict("rul", raw, q, "score").health
           /\ Score("rul", raw, q, "score").confidence = Predict("rul", raw, q, "score").confidence
  <1> DEFINE p == Clip(raw)
             h == HalfWidth(q, p)
  <1>1. RulCap \in Nat /\ raw \in Nat /\ q \in Nat
    BY ScoringAssumption, Divided
  <1>2. p \in 0..RulCap
    BY <1>1 DEF Clip
  <1>3. h \in Nat
    <2>1. p \div 5 \in Nat
      BY <1>2, Divided
    <2>2. QED
      BY <1>1, <2>1 DEF HalfWidth
  <1>4. Rul(raw, q) = [low |-> Clip(p - h), point |-> p, high |-> Clip(p + h)]
    BY DEF Rul
  <1>5. /\ 0 <= Clip(p - h) /\ Clip(p - h) <= p /\ p <= Clip(p + h) /\ Clip(p + h) <= RulCap
    <2> HIDE DEF p, h
    <2>1. QED
      BY <1>1, <1>2, <1>3 DEF Clip
  <1>6. QED
    BY <1>4, <1>5 DEF Score, Predict

LEMMA ScoringInvGives == ScoringInv => ScoringTypeOK /\ ScoringSound
  <1> SUFFICES ASSUME ScoringInv PROVE ScoringTypeOK /\ ScoringSound
    OBVIOUS
  <1> USE ScoringAssumption
  <1>1. ScoringTyped /\ EdgeCounts /\ ScoredStands /\ Downgraded
    BY DEF ScoringInv
  <1>2. ScoringTypeOK
    <2>1. Len(sent) \in Nat /\ edge.adds \in 0..Len(sent)
      BY <1>1 DEF ScoringTyped, EdgeCounts
    <2>2. edge.since \in 0..edge.adds
      <3> DEFINE m == edge.adds - WindowSize
      <3>1. CASE edge.adds < WindowSize
        BY <1>1, <2>1, <3>1 DEF EdgeCounts
      <3>2. CASE ~(edge.adds < WindowSize)
        <4>1. m \in Nat /\ m <= edge.adds
          BY <2>1, <3>2
        <4> HIDE DEF m
        <4>2. m % Stride \in Nat /\ m % Stride <= m
          <5>1. /\ m = Stride * (m \div Stride) + (m % Stride) /\ m \div Stride \in Int
                /\ m % Stride \in 0..(Stride - 1)
            BY <4>1, DivisionIs
          <5>2. m \div Stride \in Nat
            <6>1. m \in Int /\ Stride \in Nat \ {0}
              BY <4>1
            <6>2. QED
              BY <4>1, <6>1, Divided
          <5>3. Stride * (m \div Stride) \in Nat
            BY <5>2
          <5>4. QED
            BY <4>1, <5>1, <5>3
        <4>3. edge.since = m % Stride
          BY <1>1, <3>2 DEF EdgeCounts, m
        <4>4. QED
          BY <2>1, <4>1, <4>2, <4>3
      <3>3. QED
        BY <3>1, <3>2
    <2>3. edge.emitted \subseteq 1..edge.adds
      BY <1>1 DEF EdgeCounts, SameWindows
    <2>4. Len(edge.rows) <= WindowSize
      BY <1>1, <2>1 DEF EdgeCounts
    <2>5. QED
      BY <1>1, <2>1, <2>2, <2>3, <2>4 DEF ScoringTypeOK, ScoringTyped
  <1>3. CarriedAlike
    BY CarriesAlike
  <1>4. ExplainedAsScored
    BY <1>1 DEF ScoredStands, ExplainedAsScored
  <1>5. HonestConfidence
    BY <1>1, IntervalsHold DEF HonestConfidence, ScoredStands, Downgraded
  <1>6. QED
    BY <1>1, <1>2, <1>3, <1>4, <1>5 DEF ScoringSound, EdgeCounts

\* The edge's window and the server's are the bundle's window of what each knows.
LEMMA ScoringInvKept == ScoringInv /\ [ScoringNext]_scoringVars => ScoringInv'
  <1> SUFFICES ASSUME ScoringInv, [ScoringNext]_scoringVars PROVE ScoringInv'
    OBVIOUS
  <1>1. ASSUME NEW present \in SUBSET Sensors, NEW lost \in BOOLEAN, NEW tardy \in BOOLEAN,
               MessageSent(present, lost, tardy)
        PROVE  ScoringInv'
    BY <1>1, MessageSentKeeps
  <1>2. ASSUME NEW q \in HalfWidths, ServerScores(q) PROVE ScoringInv'
    BY <1>2, ServerScoresKeeps
  <1>3. CASE FlushHeld
    BY <1>3, FlushHeldKeeps
  <1>4. CASE UNCHANGED scoringVars
    <2>1. UNCHANGED <<sent, missed, held, edge, scored>>
      BY <1>4 DEF scoringVars
    <2>2. ScoringInv
      OBVIOUS
    <2>3. ScoringTyped' /\ EdgeCounts' /\ EdgeFollows' /\ Downgraded' /\ ScoredOver'
      <3>1. ScoringTyped /\ EdgeCounts /\ EdgeFollows /\ Downgraded /\ ScoredOver
        BY <2>2 DEF ScoringInv
      <3>2. EdgeCounts' /\ EdgeFollows'
        BY <2>1, <3>1, EdgeStays
      <3>3. ScoringTyped'
        BY <2>1, <3>1 DEF ScoringTyped, EdgeRow, Labels
      <3>4. QED
        BY <2>1, <3>1, <3>2, <3>3 DEF Downgraded, ScoredOver
    <2>4. ScoredStands'
      <3>1. PICK e \in Int : e = scored.end /\ Len(sent) \in Nat
        BY <2>2 DEF ScoringInv, ScoringTyped
      <3>2. \A s \in Sensors, k \in Window(e) : Mean(s, k)' = Mean(s, k)
        BY <2>1 DEF Mean, Of
      <3>3. QED
        BY <2>1, <2>2, <3>1, <3>2, StandsIfSame DEF ScoringInv
    <2>5. QED
      BY <2>3, <2>4 DEF ScoringInv
  <1>5. QED
    BY <1>1, <1>2, <1>3, <1>4 DEF ScoringNext

\* The invariant of windows and scores that the two theorems below follow from: the
\* edge's rows follow from the messages it was sent, and a score of the server from
\* what was stored (RollingWindow.add, telemetry_window, infer_asset).
THEOREM ScoringInvariant == ScoringSpec => []ScoringInv
  BY ScoringInvHolds, ScoringInvKept, PTL DEF ScoringSpec

\* Readings, windows and scores have the types the edge and the server give them
\* (RollingWindow, ScoringWindow, Score).
THEOREM ScoringTypeCorrect == ScoringSpec => []ScoringTypeOK
  BY ScoringInvariant, ScoringInvGives, PTL

\* Edge and server carry a reading forward alike, the edge scores at the strides of
\* training, the explanation rebuilds what was scored, and no confidence hides what
\* was invented (RollingWindow.add, telemetry_window, score, qualify): for any
\* sensors, buckets, window size, stride, times, and messages that are lost or late.
THEOREM ScoringStaysSound == ScoringSpec => []ScoringSound
  BY ScoringInvariant, ScoringInvGives, PTL

-----------------------------------------------------------------------------
(* Side by side. *)

\* One component runs, and the others stay as they began.
LEMMA EachSteps ==
    ASSUME [ServicesNext]_serviceVars
    PROVE  /\ [VoiceNext]_voiceVars /\ [PlantNext]_plantVars /\ [NodeNext]_nodeVars /\ [SignalNext]_signalVars
           /\ [CatalogNext]_catalogVars /\ [RegistryNext]_registryVars /\ [LiveNext]_liveVars
           /\ [AssetNext]_assetVars /\ [PlanNext]_planVars /\ [RunNext]_runVars
           /\ [DialogueNext]_dialogueVars /\ [ScoringNext]_scoringVars /\ [TrainingNext]_trainingVars
           /\ [CalendarNext]_calendarVars /\ [KpiNext]_kpiVars /\ [WhatIfNext]_whatIfVars
           /\ UNCHANGED part
  BY DEF ServicesNext, serviceVars, Only, Rest

LEMMA EachBegins ==
    ServicesInit => /\ VoiceInit /\ DialogueInit /\ NodeInit /\ RegistryInit /\ ScoringInit /\ TrainingInit
                    /\ LiveInit /\ AssetInit /\ PlanInit /\ CalendarInit /\ KpiInit /\ WhatIfInit
                    /\ part \in Parts
  BY DEF ServicesInit

\* The inductive invariants of the simulator's components.
SimulatorInv == PlantInv /\ SignalInv /\ CatalogInv /\ RunInv

LEMMA SimulatorInvariant == ServicesSpec => []SimulatorInv
  <1>1. ServicesInit => SimulatorInv
    BY PlantInvHolds, SignalInvHolds, CatalogInvHolds, RunInvHolds DEF ServicesInit, SimulatorInv
  <1>2. SimulatorInv /\ [ServicesNext]_serviceVars => SimulatorInv'
    BY EachSteps, PlantInvKept, SignalInvKept, CatalogInvKept, RunInvKept DEF SimulatorInv
  <1>3. QED
    BY <1>1, <1>2, PTL DEF ServicesSpec

\* The state of a machine agrees with its damage at every tick (Engine, the
\* degradation models), its sensors and counters tell the truth or are declared
\* faulty (signals.py, counters.py), the engine refuses no event of an accepted
\* scenario but for its duration or the empty name of a component
\* (Catalog.validate_event, Engine.apply_event), and the record of the runs can be
\* believed (ScenarioRun), for any components, wears, parts, scenarios, bounds,
\* workers and restarts.
THEOREM SimulatorStaysSound == ServicesSpec => []SimulatorSound
  <1>1. SimulatorInv => SimulatorSound
    BY RunInvEnough DEF SimulatorInv, SimulatorSound, PlantInv, SignalInv, CatalogInv
  <1>2. QED
    BY <1>1, SimulatorInvariant, PTL

\* Whatever the others do, each component behaves as it is specified on its own.
LEMMA EachSpec ==
    ServicesSpec => /\ VoiceSpec /\ DialogueSpec /\ NodeSpec /\ RegistrySpec /\ ScoringSpec /\ TrainingSpec
                    /\ LiveSpec /\ AssetSpec /\ PlanSpec /\ CalendarSpec /\ KpiSpec /\ WhatIfSpec
                    /\ [](part \in Parts)
  <1>1. ServicesSpec => VoiceSpec /\ DialogueSpec /\ NodeSpec /\ RegistrySpec
    BY EachBegins, EachSteps, PTL DEF ServicesSpec, VoiceSpec, DialogueSpec, NodeSpec, RegistrySpec
  <1>2. ServicesSpec => ScoringSpec /\ TrainingSpec /\ LiveSpec /\ AssetSpec
    BY EachBegins, EachSteps, PTL DEF ServicesSpec, ScoringSpec, TrainingSpec, LiveSpec, AssetSpec
  <1>3. ServicesSpec => PlanSpec /\ CalendarSpec /\ KpiSpec /\ WhatIfSpec
    BY EachBegins, EachSteps, PTL DEF ServicesSpec, PlanSpec, CalendarSpec, KpiSpec, WhatIfSpec
  <1>4. ServicesSpec => [](part \in Parts)
    <2>1. part \in Parts /\ [ServicesNext]_serviceVars => (part \in Parts)'
      BY EachSteps
    <2>2. QED
      BY EachBegins, <2>1, PTL DEF ServicesSpec
  <1>5. QED
    BY <1>1, <1>2, <1>3, <1>4

\* The state of every component is well formed, for any constants: what the
\* handlers, workers and loops of Services.tla's components read and write has the
\* type their code gives it.
THEOREM ServicesTypeCorrect == ServicesSpec => []ServicesTypeOK
  <1>1. ServicesSpec => [](VoiceTypeOK /\ DialogueTypeOK /\ NodeTypeOK /\ RegistryTypeOK)
    BY EachSpec, VoiceTypeCorrect, DialogueTypeCorrect, NodeTypeCorrect, RegistryTypeCorrect, PTL
  <1>2. ServicesSpec => [](ScoringTypeOK /\ TrainingTypeOK /\ LiveTypeOK /\ AssetTypeOK)
    BY EachSpec, ScoringTypeCorrect, TrainingTypeCorrect, LiveTypeCorrect, AssetTypeCorrect, PTL
  <1>3. ServicesSpec => [](PlanTypeOK /\ CalendarTypeOK /\ KpiTypeOK /\ WhatIfTypeOK)
    BY EachSpec, PlanTypeCorrect, CalendarStaysSound, KpisStayAgreed, WhatIfStaysSound, PTL
  <1>4. SimulatorInv => PlantTypeOK /\ SignalTypeOK /\ CatalogTypeOK /\ RunTypeOK
    BY RunInvEnough DEF SimulatorInv, PlantInv, SignalInv, CatalogInv
  <1>5. /\ VoiceTypeOK /\ DialogueTypeOK /\ NodeTypeOK /\ RegistryTypeOK
        /\ ScoringTypeOK /\ TrainingTypeOK /\ LiveTypeOK /\ AssetTypeOK
        /\ PlanTypeOK /\ CalendarTypeOK /\ KpiTypeOK /\ WhatIfTypeOK
        /\ PlantTypeOK /\ SignalTypeOK /\ CatalogTypeOK /\ RunTypeOK /\ part \in Parts
        => ServicesTypeOK
    BY DEF ServicesTypeOK
  <1>6. QED
    BY <1>1, <1>2, <1>3, <1>4, <1>5, EachSpec, SimulatorInvariant, PTL

\* What is computed over time holds for the time it says: the shift that is on
\* (ShiftCalendar.active, next_change) and the sums of what machines did (durations_from_events,
\* _oee_trend, KpiService.rollup), for any days, hours, events and workers: events and
\* stored readings agree over a window every instant of which has been read, and the
\* rollup's period is the engine's shift except after midnight (RollupFollowsEngine).
THEOREM TimesStayAgreed == ServicesSpec => []TimeAgrees
  <1>1. ShiftsSound /\ KpisAgree => TimeAgrees
    BY DEF TimeAgrees
  <1>2. QED
    BY <1>1, EachSpec, CalendarStaysSound, KpisStayAgreed, PTL

\* What is foretold of a machine rests on what is known of it: readings are carried
\* forward alike on both sides (RollingWindow, telemetry_window) and a what-if is about one
\* machine at one time (WhatIfService), for any sensors, windows, parts and trials.
THEOREM ForecastsStaySound == ServicesSpec => []ForecastSound
  <1>1. ScoringSound /\ WhatIfSound => ForecastSound
    BY DEF ForecastSound
  <1>2. QED
    BY <1>1, EachSpec, ScoringStaysSound, WhatIfStaysSound, PTL
=============================================================================
