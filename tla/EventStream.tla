---------------------------- MODULE EventStream ----------------------------
(***************************************************************************)
(* Callback queries and the event stream of the web client: the registry   *)
(* of a Network (network.py), the SSE queues of /user/events               *)
(* (user_http.py), the press and answerCallbackQuery that use the one and  *)
(* feed the other, and the part of the web client that shows them: the     *)
(* spinner of a pressed button (web/app.js, onInline and connectEvents).   *)
(*                                                                         *)
(* Admin reset replaces the network; a Bot API call goes on with the one   *)
(* it took before it awaited its form, so the replaced ones stay in the    *)
(* model.  Bots survive resets, and answer what they remember.             *)
(***************************************************************************)
EXTENDS Integers, Sequences, FiniteSets

CONSTANTS
    Streams,      \* browser tabs, each with one connection to /user/events
    Calls,        \* concurrent answerCallbackQuery calls of bots
    QueueLimit,   \* SSE_QUEUE_LIMIT
    TTL,          \* CALLBACK_TTL
    MaxNetworks,  \* bound: networks in one behaviour
    MaxPresses,   \* bound: presses
    MaxEvents,    \* bound: events emitted by live networks
    MaxTime       \* bound: the clock

ASSUME QueueLimitAssumption == QueueLimit \in Nat \ {0}

ASSUME BoundsAssumption ==
    /\ TTL \in Nat
    /\ MaxNetworks \in Nat \ {0}
    /\ MaxPresses \in Nat
    /\ MaxEvents \in Nat
    /\ MaxTime \in Nat

VARIABLES
    net,         \* app.state.network
    callbacks,   \* each Network._callbacks
    nextId,      \* each Network._next_callback_id
    listed,      \* each Network._subscribers
    saved,       \* a snapshot: the registry as dump() wrote it
    now,         \* time.time()
    stream,      \* each tab's connection: phase, and the network events() saw
    queue,       \* each tab's asyncio.Queue
    emitted,     \* history: how many events the live networks have emitted
    spin,        \* the buttons that spin in each tab, named by their press
    flight,      \* the press requests of each tab that have no response yet
    pending,     \* each tab's map `pending` from query id to button
    call,        \* each answerCallbackQuery call
    told,        \* history: the queries bots were sent
    answered,    \* history: the presses whose query was answered with ok
    unheard      \* history: the answers a tab could not use

registryVars == <<net, callbacks, nextId, saved, now>>
tabVars == <<spin, flight, pending>>
vars == <<registryVars, listed, stream, queue, emitted, tabVars, call,
          told, answered, unheard>>

-----------------------------------------------------------------------------
Networks == 1 .. MaxNetworks
Presses == 1 .. MaxPresses
Ids == 1 .. MaxPresses

\* The person, dialog and message of a query are those of its press.
Query == [id : Ids, press : Presses, date : 0 .. MaxTime]

Event ==
    [type : {"answered"}, id : Ids, press : Presses]
        \cup [type : {"message", "journal", "reset"}]

Item == [n : 1 .. MaxEvents, event : Event]

\* What a bot knows of a query; it is stale after a reset or a restore.
Told == [id : Ids, press : Presses, stale : BOOLEAN]

Phases == {"closed", "opening", "open", "gone", "leaked"}

TypeOK ==
    /\ net \in Networks
    /\ callbacks \in [Networks -> SUBSET Query]
    /\ nextId \in [Networks -> 1 .. MaxPresses + 1]
    /\ listed \in [Networks -> SUBSET Streams]
    /\ saved.callbacks \subseteq Query /\ saved.nextId \in 1 .. MaxPresses + 1
    /\ now \in 0 .. MaxTime
    /\ stream \in [Streams -> [phase : Phases, home : Networks]]
    /\ \A s \in Streams :
        /\ queue[s] \in Seq(Item) /\ Len(queue[s]) <= QueueLimit
        /\ pending[s] \in [DOMAIN pending[s] -> Presses] /\ DOMAIN pending[s] \subseteq Ids
    /\ emitted \in 0 .. MaxEvents
    /\ spin \in [Streams -> SUBSET Presses]
    /\ flight \in [Streams -> SUBSET [press : Presses, id : {0} \cup Ids, ok : BOOLEAN]]
    /\ \A c \in Calls : call[c] = [phase |-> "idle"] \/
        /\ call[c].phase = "received" /\ call[c].net \in Networks /\ call[c].query \in Told
    /\ told \subseteq Told
    /\ answered \subseteq Presses
    /\ unheard \in [Streams -> SUBSET Presses]

-----------------------------------------------------------------------------
\* The presses made so far, in whatever tab; each has its own number.
Pressed ==
    answered \cup {q.press : q \in told}
        \cup UNION {spin[s] \cup {f.press : f \in flight[s]} : s \in Streams}

\* The answers among the events of a queue.
Answers(items) ==
    {items[i].event.press : i \in {j \in DOMAIN items : items[j].event.type = "answered"}}

\* A page is there to handle what the queue holds.
Listening(s) == stream[s].phase \in {"opening", "open"}

\* Fault: a full queue refuses the new event.
OldestFirst(items) ==
    IF Len(items) <= QueueLimit THEN items ELSE SubSeq(items, 1, QueueLimit)

\* Fault: a queue without a bound.
Everything(items) == items

\* A full queue loses its oldest event for each new one.
Newest(items) ==
    IF Len(items) <= QueueLimit
    THEN items
    ELSE SubSeq(items, Len(items) - QueueLimit + 1, Len(items))

\* Events in a row for the queues of a list: the live network's, or an older's.
Offer(live, readers, events) ==
    LET fresh      == [i \in DOMAIN events |-> [n |-> emitted + i, event |-> events[i]]]
        offered(s) == IF s \in readers THEN queue[s] \o fresh ELSE queue[s]
    IN  /\ live => emitted + Len(events) <= MaxEvents
        /\ emitted' = IF live THEN emitted + Len(events) ELSE emitted
        /\ queue' = [s \in Streams |-> Newest(offered(s))]
        /\ unheard' = [s \in Streams |-> unheard[s] \cup
                IF Listening(s) /\ live
                THEN Answers(offered(s)) \ Answers(Newest(offered(s)))
                ELSE Answers(fresh)]

\* Network.emit of network g.
Emit(g, events) == Offer(g = net, listed[g], events)

\* Fault: the edge is one second early.
SweptEarly(records) == {r \in records : now - r.date < TTL}

\* _sweep_callbacks
Swept(records) == {r \in records : now - r.date <= TTL}

\* Fault: the id counts the queries that wait for an answer.
CountedId(g) == Cardinality(callbacks[g]) + 1

\* new_callback_id
NewId(g) == nextId[g]

\* A query that a bot holds is of an earlier history now.
Stale(q) == [q EXCEPT !.stale = TRUE]

-----------------------------------------------------------------------------
Init ==
    /\ net = 1
    /\ callbacks = [g \in Networks |-> {}]
    /\ nextId = [g \in Networks |-> 1]
    /\ listed = [g \in Networks |-> {}]
    /\ saved = [callbacks |-> {}, nextId |-> 1]
    /\ now = 0
    /\ stream = [s \in Streams |-> [phase |-> "closed", home |-> 1]]
    /\ queue = [s \in Streams |-> <<>>]
    /\ emitted = 0
    /\ spin = [s \in Streams |-> {}]
    /\ flight = [s \in Streams |-> {}]
    /\ pending = [s \in Streams |-> <<>>]
    /\ call = [c \in Calls |-> [phase |-> "idle"]]
    /\ told = {}
    /\ answered = {}
    /\ unheard = [s \in Streams |-> {}]

Tick ==
    /\ now < MaxTime
    /\ now' = now + 1
    /\ UNCHANGED <<net, callbacks, nextId, listed, saved, stream, queue, emitted,
                   tabVars, call, told, answered, unheard>>

(* GET /user/events up to its answer; the generator has not run yet. *)
Connect(s) ==
    /\ stream[s].phase = "closed"
    /\ stream' = [stream EXCEPT ![s] = [phase |-> "opening", home |-> net]]
    /\ queue' = [queue EXCEPT ![s] = <<>>]
    /\ listed' = [listed EXCEPT ![net] = @ \cup {s}]
    /\ UNCHANGED <<registryVars, emitted, tabVars, call, told, answered, unheard>>

(* The generator enters its `try`. *)
StreamStarts(s) ==
    /\ stream[s].phase = "opening"
    /\ stream' = [stream EXCEPT ![s].phase = "open"]
    /\ UNCHANGED <<registryVars, listed, queue, emitted, tabVars, call, told,
                   answered, unheard>>

(* The browser is gone, or its connection is.  A generator that was never  *)
(* started has no `finally` to run: its queue stays in the list.           *)
StreamDrops(s) ==
    /\ Listening(s)
    /\ stream' = [stream EXCEPT ![s].phase = IF @ = "open" THEN "gone" ELSE "leaked"]
    /\ unheard' = [unheard EXCEPT ![s] = @ \cup Answers(queue[s])]
    /\ UNCHANGED <<registryVars, listed, queue, emitted, tabVars, call, told,
                   answered>>

\* Fault: the generator leaves the network it was started with.
UnsubscribeHome(s) == [listed EXCEPT ![stream[s].home] = @ \ {s}]

\* The generator leaves the live network, and the one it was started with.
Unsubscribe(s) ==
    [g \in Networks |-> IF g \in {net, stream[s].home} THEN listed[g] \ {s} ELSE listed[g]]

(* The generator of a dropped connection ends, its `finally` included. *)
StreamEnds(s) ==
    /\ stream[s].phase = "gone"
    /\ stream' = [stream EXCEPT ![s].phase = "closed"]
    /\ listed' = Unsubscribe(s)
    /\ UNCHANGED <<registryVars, queue, emitted, tabVars, call, told, answered,
                   unheard>>

\* callback_answered: the button of the query stops, if the query is known.
HandleAnswered(s, event) ==
    LET known == event.id \in DOMAIN pending[s]
        hit   == known /\ pending[s][event.id] = event.press
    IN  /\ pending' = [pending EXCEPT ![s] = [i \in DOMAIN @ \ {event.id} |-> @[i]]]
        /\ spin' = [spin EXCEPT ![s] = IF known THEN @ \ {pending[s][event.id]} ELSE @]
        /\ unheard' = [unheard EXCEPT ![s] = IF hit THEN @ ELSE @ \cup {event.press}]

\* What onmessage does with an event that gets past the filter of events().
Handle(s, event) ==
    \/ /\ event.type = "reset"
       /\ spin' = [spin EXCEPT ![s] = {}]
       /\ pending' = [pending EXCEPT ![s] = <<>>]
       /\ UNCHANGED unheard
    \/ /\ event.type = "answered"
       /\ HandleAnswered(s, event)
    \/ /\ event.type = "message"
       \* buttons go with a deleted message, or as openChat draws the feed again
       /\ \E kept \in SUBSET spin[s] : spin' = [spin EXCEPT ![s] = kept]
       /\ UNCHANGED <<pending, unheard>>
    \/ /\ event.type = "journal"
       /\ UNCHANGED <<spin, pending, unheard>>

(* The generator takes the oldest event and the tab handles it; while the  *)
(* browser is gone nobody does.                                            *)
Read(s) ==
    /\ stream[s].phase \in {"open", "gone"}
    /\ queue[s] # <<>>
    /\ queue' = [queue EXCEPT ![s] = Tail(@)]
    /\ IF stream[s].phase = "open"
       THEN Handle(s, Head(queue[s]).event)
       ELSE UNCHANGED <<spin, pending, unheard>>
    /\ UNCHANGED <<registryVars, listed, stream, emitted, flight, call, told,
                   answered>>

(* onInline up to its request: the button spins. *)
Click(s) ==
    \E p \in Presses \ Pressed :
        /\ \A lower \in 1 .. p - 1 : lower \in Pressed
        /\ spin' = [spin EXCEPT ![s] = @ \cup {p}]
        /\ flight' = [flight EXCEPT ![s] = @ \cup {[press |-> p, id |-> 0, ok |-> TRUE]}]
        /\ UNCHANGED <<registryVars, listed, stream, queue, emitted, pending, call,
                       told, answered, unheard>>

(* POST .../press.  The session, the dialog or the button may be gone. *)
Press(s, f) ==
    /\ f.id = 0 /\ f.ok
    /\ \/ /\ LET id == NewId(net)
                 query == [id |-> id, press |-> f.press, date |-> now]
             IN  /\ id <= MaxPresses
                 /\ nextId' = [nextId EXCEPT ![net] = id + 1]
                 /\ callbacks' = [callbacks EXCEPT ![net] =
                        {r \in Swept(@) : r.id # id} \cup {query}]
                 /\ told' = told \cup {[id |-> id, press |-> f.press, stale |-> FALSE]}
                 /\ flight' = [flight EXCEPT ![s] = (@ \ {f}) \cup {[f EXCEPT !.id = id]}]
       \/ /\ flight' = [flight EXCEPT ![s] = (@ \ {f}) \cup {[f EXCEPT !.ok = FALSE]}]
          /\ UNCHANGED <<callbacks, nextId, told>>
    /\ UNCHANGED <<net, saved, now, listed, stream, queue, emitted, spin, pending,
                   call, answered, unheard>>

(* onInline resumes with the response, which the stream may have overtaken. *)
PressReturns(s, f) ==
    /\ f.id # 0 \/ ~f.ok
    /\ flight' = [flight EXCEPT ![s] = @ \ {f}]
    /\ IF f.ok
       THEN /\ pending' = [pending EXCEPT ![s] =
                    [i \in DOMAIN @ \cup {f.id} |-> IF i = f.id THEN f.press ELSE @[i]]]
            /\ UNCHANGED spin
       ELSE /\ spin' = [spin EXCEPT ![s] = @ \ {f.press}]
            /\ UNCHANGED pending
    /\ UNCHANGED <<registryVars, listed, stream, queue, emitted, call, told,
                   answered, unheard>>

(* answerCallbackQuery reaches call(), which takes the network and awaits   *)
(* the form.                                                               *)
AnswerReceived(c, q) ==
    /\ call[c].phase = "idle"
    /\ call' = [call EXCEPT ![c] = [phase |-> "received", net |-> net, query |-> q]]
    /\ UNCHANGED <<registryVars, listed, stream, queue, emitted, tabVars, told,
                   answered, unheard>>

\* answer_callback
Announce(r) == <<[type |-> "answered", id |-> r.id, press |-> r.press]>>

Journal == <<[type |-> "journal"]>>

(* call() resumes: the query is looked up, answered and announced in the    *)
(* network the call took, and so is the call.                              *)
AnswerHandled(c) ==
    /\ call[c].phase = "received"
    /\ LET g == call[c].net
           records == Swept(callbacks[g])
           found == {r \in records : r.id = call[c].query.id}
       IN  /\ callbacks' = [callbacks EXCEPT ![g] = records \ found]
           /\ answered' = answered \cup {r.press : r \in found}
           /\ \/ found = {} /\ Emit(g, Journal)
              \/ \E r \in found : Emit(g, Announce(r) \o Journal)
    /\ call' = [call EXCEPT ![c] = [phase |-> "idle"]]
    /\ UNCHANGED <<net, nextId, saved, now, listed, stream, tabVars, told>>

(* Any other Bot API call; one that sends tells the person's tabs first. *)
BotCall(events) ==
    /\ Emit(net, events \o Journal)
    /\ UNCHANGED <<registryVars, listed, stream, tabVars, call, told, answered>>

\* Fault: the subscribers stay with the network they came to.
ListedAtHome == listed

\* The subscribers move to the next network.
ListedAfterReset == [listed EXCEPT ![net + 1] = listed[net], ![net] = {}]

(* POST /admin/reset: the event goes to the subscribers the next network has. *)
Reset ==
    /\ net < MaxNetworks
    /\ net' = net + 1
    /\ listed' = ListedAfterReset
    /\ Offer(TRUE, listed'[net + 1], <<[type |-> "reset"]>>)
    /\ told' = {Stale(q) : q \in told}
    /\ UNCHANGED <<callbacks, nextId, saved, now, stream, tabVars, call, answered>>

(* POST /admin/snapshot. *)
Snapshot ==
    /\ saved' = [callbacks |-> callbacks[net], nextId |-> nextId[net]]
    /\ UNCHANGED <<net, callbacks, nextId, listed, now, stream, queue, emitted,
                   tabVars, call, told, answered, unheard>>

(* POST /admin/snapshot/restore: the live network takes the state of the    *)
(* snapshot; its subscribers stay.                                         *)
Restore ==
    /\ callbacks' = [callbacks EXCEPT ![net] = saved.callbacks]
    /\ nextId' = [nextId EXCEPT ![net] = saved.nextId]
    /\ told' = {Stale(q) : q \in told}
    /\ call' = [c \in Calls |->
            IF call[c].phase = "received" /\ call[c].net = net
            THEN [call[c] EXCEPT !.query = Stale(@)] ELSE call[c]]
    /\ UNCHANGED <<net, saved, now, listed, stream, queue, emitted, tabVars, answered,
                   unheard>>

-----------------------------------------------------------------------------
Next ==
    \/ Tick
    \/ \E s \in Streams :
        \/ Connect(s) \/ StreamStarts(s) \/ StreamDrops(s) \/ StreamEnds(s)
        \/ Read(s) \/ Click(s)
        \/ \E f \in flight[s] : Press(s, f) \/ PressReturns(s, f)
    \/ BotCall(<<[type |-> "message"]>>)
    \/ BotCall(<<>>)
    \/ \E c \in Calls : AnswerHandled(c) \/ \E q \in told : AnswerReceived(c, q)
    \/ Reset
    \/ Snapshot
    \/ Restore

Spec == Init /\ [][Next]_vars

-----------------------------------------------------------------------------
(* A connection is in the list of the live network, and in no other, from   *)
(* subscribe to the `finally` of its generator, whatever was reset in       *)
(* between (network.py:293, user_http.py:318).  Only the queue of a         *)
(* generator that never started stays for good.                            *)
ListedWhileConnected ==
    \A g \in Networks :
        listed[g] = IF g = net THEN {s \in Streams : stream[s].phase # "closed"} ELSE {}

(* What waits for a tab is the newest of what the live networks emitted:    *)
(* without a gap, in order, up to the last event; a slow reader loses only  *)
(* the oldest (network.py:180), and a reset loses nothing.                  *)
QueueIsNewest ==
    \A s \in Streams : Listening(s) =>
        \A i \in DOMAIN queue[s] : queue[s][i].n = emitted - Len(queue[s]) + i

(* A query id that a bot holds names the query it was sent with or none,    *)
(* unless a reset or a restore came in between: no answer stops another     *)
(* query (network.py:213-240).                                             *)
IdsNameOneQuery ==
    /\ \A g \in Networks : \A r, t \in callbacks[g] : r.id = t.id => r = t
    /\ \A q \in told : ~q.stale =>
        \A r \in callbacks[net] : r.id = q.id => r.press = q.press
    /\ \A c \in Calls : call[c].phase = "received" /\ ~call[c].query.stale =>
        \A r \in callbacks[call[c].net] :
            r.id = call[c].query.id => r.press = call[c].query.press

Restoring == callbacks'[net] = saved.callbacks /\ nextId'[net] = saved.nextId

(* A query can be answered for TTL and no longer, though it is swept only   *)
(* when another is made or answered: it leaves the registry answered and in *)
(* time, or unanswered and late, or by a restore (network.py:218-240).     *)
QueriesLiveTheirTime ==
    [][\A g \in Networks : \A r \in callbacks[g] \ callbacks'[g] :
            \/ g = net /\ Restoring
            \/ IF now - r.date > TTL THEN r.press \notin answered' \ answered
                                     ELSE r.press \in answered']_vars

(* A button spins for a reason: its request is under way, or its query is   *)
(* not answered, or the tab is about to hear of the answer, or it could not *)
(* hear of it: the event came before the response, was pushed out of the    *)
(* queue, or was emitted while the page had no connection or on a network   *)
(* that a reset had replaced (web/app.js:239, network.py:180).              *)
SpinnersAreExplained ==
    \A s \in Streams : \A p \in spin[s] :
        \/ \E f \in flight[s] : f.press = p
        \/ p \notin answered
        \/ Listening(s) /\ p \in Answers(queue[s])
        \/ p \in unheard[s]

=============================================================================
