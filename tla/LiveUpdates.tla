------------------------------ MODULE LiveUpdates ------------------------------
(***************************************************************************)
(* The browser's live socket (apps/web/src/lib/ws.ts) and the hub that     *)
(* serves it (apps/api/app/core/ws_hub.py): topics counted on one side and *)
(* kept as a set on the other, over sockets that drop and are opened again *)
(* by a timer, after a token request that may outlive a stop and a start.  *)
(***************************************************************************)
EXTENDS Integers, FiniteSets, Sequences

CONSTANTS
    Topics,
    Sockets,    \* bound: sockets that exist at a time
    MaxGen,     \* bound: starts and stops
    MaxInbox    \* bound: messages on their way to the hub

VARIABLES
    browser,  \* stopped, generation, the timer's generation (0: none), this.ws
    asking,   \* token requests under way, by generation
    socket,   \* each socket: its state and what is on its way to the hub
    refs,     \* handlers of each topic
    hub,      \* WsHub._sockets: the topics of each socket
    raced     \* history: a token request failed under a later generation

liveVars == <<browser, asking, socket, refs, hub, raced>>

NoSocket == "no socket"

ASSUME LiveAssumption == MaxGen \in Nat /\ MaxInbox \in Nat /\ NoSocket \notin Sockets

LiveTypeOK ==
    /\ browser \in [stopped : BOOLEAN, gen : 0..MaxGen, timer : 0..MaxGen, ws : Sockets \cup {NoSocket}]
    /\ asking \in [1..MaxGen -> 0..2] /\ refs \in [Topics -> 0..2] /\ raced \in BOOLEAN
    /\ \A s \in Sockets : /\ socket[s].state \in {"none", "connecting", "open", "closing"}
                          /\ Len(socket[s].inbox) <= MaxInbox
    /\ hub \in [Sockets -> SUBSET Topics]

Gone == [state |-> "none", inbox |-> <<>>]

LiveInit ==
    /\ browser = [stopped |-> TRUE, gen |-> 0, timer |-> 0, ws |-> NoSocket]
    /\ asking = [g \in 1..MaxGen |-> 0] /\ refs = [t \in Topics |-> 0]
    /\ socket = [s \in Sockets |-> Gone] /\ hub = [s \in Sockets |-> {}] /\ raced = FALSE

Current   == browser.ws
IsOpen    == Current # NoSocket /\ socket[Current].state = "open"
Wanted    == {t \in Topics : refs[t] > 0}

\* send: only on this.ws, and only while it is open.
SentTo(sockets, kind, topics) ==
    IF topics # {} /\ Current # NoSocket /\ sockets[Current].state = "open"
    THEN [sockets EXCEPT ![Current].inbox = Append(@, [kind |-> kind, topics |-> topics])]
    ELSE sockets

-----------------------------------------------------------------------------
Start ==
    /\ browser.stopped /\ browser.gen < MaxGen
    /\ browser' = [browser EXCEPT !.stopped = FALSE, !.gen = @ + 1]
    /\ asking' = [asking EXCEPT ![browser'.gen] = @ + 1]
    /\ UNCHANGED <<socket, refs, hub, raced>>

Stop ==
    /\ ~browser.stopped /\ browser.gen < MaxGen
    /\ browser' = [stopped |-> TRUE, gen |-> browser.gen + 1, timer |-> 0, ws |-> NoSocket]
    /\ socket' = IF Current = NoSocket THEN socket ELSE [socket EXCEPT ![Current].state = "closing"]
    /\ UNCHANGED <<asking, refs, hub, raced>>

Answered(g) == asking[g] > 0 /\ asking' = [asking EXCEPT ![g] = @ - 1]

\* Mutant: a token that comes after stop opens a socket all the same.
TokenArrivesLate(g) ==
    /\ Answered(g)
    /\ \E s \in Sockets :
         /\ socket[s].state = "none"
         /\ socket' = [socket EXCEPT ![s].state = "connecting"]
         /\ browser' = [browser EXCEPT !.ws = s]
    /\ UNCHANGED <<refs, hub, raced>>

TokenArrives(g) ==
    /\ Answered(g)
    /\ IF g # browser.gen THEN UNCHANGED <<socket, browser>>
       ELSE \E s \in Sockets :
              /\ socket[s].state = "none"
              /\ socket' = [socket EXCEPT ![s].state = "connecting"]
              /\ browser' = [browser EXCEPT !.ws = s]
    /\ UNCHANGED <<refs, hub, raced>>

\* scheduleReconnect: under the generation of the moment, whichever asked.
Scheduled(b) == IF b.stopped THEN b ELSE [b EXCEPT !.timer = b.gen]

TokenFails(g) ==
    /\ Answered(g)
    /\ browser' = Scheduled(browser)
    /\ raced' = (raced \/ g # browser.gen)
    /\ UNCHANGED <<socket, refs, hub>>

TimerFires ==
    /\ browser.timer # 0 /\ asking[browser.timer] < 2
    /\ asking' = [asking EXCEPT ![browser.timer] = @ + 1]
    /\ browser' = [browser EXCEPT !.timer = 0]
    /\ UNCHANGED <<socket, refs, hub, raced>>

-----------------------------------------------------------------------------
Room == \A s \in Sockets : Len(socket[s].inbox) < MaxInbox

\* Mutant: the topics are sent when they are subscribed to, and only then.
SocketOpensBare(s) ==
    /\ socket[s].state = "connecting" /\ Room
    /\ socket' = [socket EXCEPT ![s].state = "open"]
    /\ UNCHANGED <<browser, asking, refs, hub, raced>>

\* The hub has accepted the socket; onopen subscribes to everything again.
SocketOpens(s) ==
    /\ socket[s].state = "connecting" /\ Room
    /\ socket' = SentTo([socket EXCEPT ![s].state = "open"], "subscribe", Wanted)
    /\ UNCHANGED <<browser, asking, refs, hub, raced>>

\* The network, the server or ws.close() ends it; the hub forgets its topics
\* and onclose, if it is still the current one, schedules another.
SocketCloses(s) ==
    /\ socket[s].state # "none"
    /\ socket' = [socket EXCEPT ![s] = Gone] /\ hub' = [hub EXCEPT ![s] = {}]
    /\ browser' = IF Current = s THEN Scheduled([browser EXCEPT !.ws = NoSocket]) ELSE browser
    /\ UNCHANGED <<asking, refs, raced>>

-----------------------------------------------------------------------------
Subscribe(t) ==
    /\ refs[t] < 2 /\ Room
    /\ refs' = [refs EXCEPT ![t] = @ + 1]
    /\ socket' = SentTo(socket, "subscribe", {t} \ Wanted)
    /\ UNCHANGED <<browser, asking, hub, raced>>

Unsubscribe(t) ==
    /\ refs[t] > 0 /\ Room
    /\ refs' = [refs EXCEPT ![t] = @ - 1]
    /\ socket' = SentTo(socket, "unsubscribe", IF refs[t] = 1 THEN {t} ELSE {})
    /\ UNCHANGED <<browser, asking, hub, raced>>

\* WsHub.handle
HubReceives(s) ==
    /\ socket[s].state = "open" /\ socket[s].inbox # <<>>
    /\ LET m == Head(socket[s].inbox) IN
         hub' = [hub EXCEPT ![s] = IF m.kind = "subscribe" THEN @ \cup m.topics ELSE @ \ m.topics]
    /\ socket' = [socket EXCEPT ![s].inbox = Tail(@)]
    /\ UNCHANGED <<browser, asking, refs, raced>>

LiveNext ==
    \/ Start \/ Stop \/ TimerFires
    \/ \E g \in 1..MaxGen : TokenArrives(g) \/ TokenFails(g)
    \/ \E s \in Sockets : SocketOpens(s) \/ SocketCloses(s) \/ HubReceives(s)
    \/ \E t \in Topics : Subscribe(t) \/ Unsubscribe(t)

LiveSpec == LiveInit /\ [][LiveNext]_liveVars

-----------------------------------------------------------------------------
(* Properties. *)

\* The hub sends a browser what its pages want: once everything sent has
\* arrived, the topics of the open socket are those with a handler, across
\* drops, reconnections and handlers that come and go while none is open.
HubKnowsTopics == IsOpen /\ socket[Current].inbox = <<>> => hub[Current] = Wanted

\* The browser has one socket at a time, and none once it is stopped: another
\* would deliver every message twice.  (Not if a token request fails after a
\* stop and a start: it schedules a second connection, raced.)
OneSocket ==
    LET live == {s \in Sockets : socket[s].state \in {"connecting", "open"}} IN
    ~raced => Cardinality(live) <= 1 /\ (browser.stopped => live = {})

\* What the pages want is what they are sent, once.
LiveSound == HubKnowsTopics /\ OneSocket
=============================================================================
