------------------------------ MODULE Lifecycle ------------------------------
(***************************************************************************)
(* The numbers of a bot's updates through everything that replaces the     *)
(* network under a running bot: /admin/reset, /admin/snapshot/restore,     *)
(* /admin/bots for a known token, and a restart that loads the SQLite file *)
(* written after requests (app.py, store.py, Network.reset / dump / load). *)
(*                                                                         *)
(* The bot keeps its offset in memory.  A request holds on to what it saw  *)
(* when it started: a Bot API call to the Network it read before it        *)
(* awaited its form, a long poll to its BotRuntime.                        *)
(*                                                                         *)
(* Of a BotRuntime the module keeps the numbering, the queue and the ack;  *)
(* subscriptions, webhooks and concurrent polls are UpdateQueue's.         *)
(***************************************************************************)
EXTENDS Integers

CONSTANTS
    Operations,      \* what happens to this sandbox, a subset of AllOperations
    MaxUpdates,      \* bound: updates pushed in one behaviour
    MaxGenerations,  \* bound: BotRuntime objects made in one behaviour
    MaxSaves,        \* bound: requests answered and not yet saved
    MaxBotRestarts   \* bound: restarts of the bot

AllOperations == {"userPost", "botPost", "botGet", "createChat", "reset",
                  "snapshot", "createBot", "restart", "botRestart"}

ASSUME OperationsAssumption == Operations \subseteq AllOperations

ASSUME LifecycleBounds ==
    /\ MaxUpdates \in Nat /\ MaxGenerations \in Nat \ {0}
    /\ MaxSaves \in Nat /\ MaxBotRestarts \in Nat

VARIABLES
    runtimes,    \* every BotRuntime made for the token
    bots,        \* of each Network, the runtime its `bots` holds
    generation,  \* the runtime of the live network
    network,     \* app.state.network
    call,        \* the Network of a POST whose form is awaited, or none
    poll,        \* the bot's getUpdates request
    offset,      \* the bot's own: the offset of its next poll, 0 before any
    seen,        \* the updates the bot got
    saves,       \* requests answered and not yet written to the store
    disk,        \* the store's row
    snapshot,    \* the last answer of /admin/snapshot
    pushed,      \* history: the number of updates pushed
    unsaved,     \* history: a GET or a refused request changed the network since
                 \* the last save
    rewound,     \* history: the numbering went back, or went on in a dead network
    botRestarts  \* history: restarts of the bot

netVars   == <<runtimes, bots, generation, network>>
botVars   == <<poll, offset, seen, botRestarts>>
storeVars == <<saves, disk, snapshot, unsaved>>
vars == <<netVars, call, botVars, storeVars, pushed, rewound>>

-----------------------------------------------------------------------------
Generations == 1 .. MaxGenerations

\* `body` tells the updates apart, whatever their ids.
Update == [id : Nat \ {0}, body : Nat \ {0}]

Runtime == [next : Nat \ {0}, updates : SUBSET Update, acked : Nat]

\* A new BotRuntime.
Fresh == [next |-> 1, updates |-> {}, acked |-> 0]

Live == runtimes[generation]

NoCall == 0
NoPoll == [phase |-> "none", at |-> 0]

Poll == [phase : {"none", "calling", "waiting"}, at : Generations \cup {0}]

TypeOK ==
    /\ runtimes \in [Generations -> Runtime]
    /\ bots \in [Generations -> Generations]
    /\ generation \in Generations /\ network \in 1 .. generation
    /\ bots[network] = generation
    /\ call \in 0 .. network
    /\ poll \in Poll
    /\ offset \in Nat
    /\ seen \subseteq Update
    /\ saves \in 0 .. MaxSaves
    /\ disk \in Runtime /\ snapshot \in Runtime
    /\ pushed \in 0 .. MaxUpdates
    /\ unsaved \in BOOLEAN /\ rewound \in BOOLEAN
    /\ botRestarts \in 0 .. MaxBotRestarts

-----------------------------------------------------------------------------
(* What is written and read back (Network.dump, Network.load): waiting     *)
(* polls are not part of it.                                               *)
Dump(r) == [next |-> r.next, updates |-> r.updates, acked |-> r.acked]

\* Fault: next_update_id is missing from the dump.
LoadFromOne(d) == [next |-> 1, updates |-> d.updates, acked |-> d.acked]

Load(d) == [next |-> d.next, updates |-> d.updates, acked |-> d.acked]

\* Fault: the numbering starts again (defect #33).
ResetFromOne(r) == Fresh

(* Network.reset: an empty runtime that goes on counting. *)
AfterReset(r) == [Fresh EXCEPT !.next = r.next]

\* Fault: the offset itself counts as acknowledged.
AckedThrough(r, o) == IF o > r.acked THEN o ELSE r.acked

Acked(r, o) == IF o - 1 > r.acked THEN o - 1 ELSE r.acked

\* The updates a poll with the bot's offset gets from r.
Pending(r) == {u \in runtimes[r].updates : u.id >= offset}

\* push_update.
Push(r) ==
    LET u == [id |-> runtimes[r].next, body |-> pushed + 1]
    IN  /\ pushed < MaxUpdates
        /\ pushed' = pushed + 1
        /\ runtimes' = [runtimes EXCEPT ![r] =
                [next |-> @.next + 1, updates |-> @.updates \cup {u}, acked |-> @.acked]]
        /\ UNCHANGED <<bots, generation, network>>

\* A request that changed the network succeeds; _persist follows.
ToBeSaved ==
    /\ saves < MaxSaves
    /\ saves' = saves + 1

\* Fault: the runtime is put into the network that was live before.
InstallBefore(runtime, n) ==
    /\ generation < MaxGenerations
    /\ generation' = generation + 1
    /\ network' = n
    /\ runtimes' = [runtimes EXCEPT ![generation + 1] = runtime]
    /\ bots' = [bots EXCEPT ![network] = generation + 1]

(* A runtime takes the bot's place in network n. *)
Install(runtime, n) ==
    /\ generation < MaxGenerations
    /\ generation' = generation + 1
    /\ network' = n
    /\ runtimes' = [runtimes EXCEPT ![generation + 1] = runtime]
    /\ bots' = [bots EXCEPT ![n] = generation + 1]

-----------------------------------------------------------------------------
(* No file yet: the first load is that of a new network, in which          *)
(* ensure_bot makes the bot on its first call.                             *)
Init ==
    /\ runtimes = [g \in Generations |-> Fresh]
    /\ bots = [g \in Generations |-> 1]
    /\ generation = 1 /\ network = 1
    /\ call = NoCall
    /\ poll = NoPoll
    /\ offset = 0
    /\ seen = {}
    /\ saves = 0
    /\ disk = Fresh /\ snapshot = Fresh
    /\ pushed = 0
    /\ unsaved = FALSE /\ rewound = FALSE
    /\ botRestarts = 0

(* A person's message: its body is read before the handler takes the       *)
(* network (FastAPI parses it into a parameter).                           *)
UserPost ==
    /\ "userPost" \in Operations
    /\ Push(generation)
    /\ ToBeSaved
    /\ UNCHANGED <<call, botVars, disk, snapshot, unsaved, rewound>>

(* Another bot's POST that updates this bot, such as a channel post: call() *)
(* takes the network, then awaits the form.                                *)
BotPost ==
    /\ "botPost" \in Operations
    /\ call = NoCall
    /\ call' = network
    /\ UNCHANGED <<netVars, botVars, storeVars, pushed, rewound>>

BotPostServed ==
    /\ call # NoCall
    /\ Push(bots[call])
    /\ call' = NoCall
    /\ ToBeSaved
    /\ rewound' = (rewound \/ call # network)
    /\ UNCHANGED <<botVars, disk, snapshot, unsaved>>

\* An update of the live network, after which nothing is saved.
PushUnsaved ==
    /\ Push(generation)
    /\ unsaved' = TRUE
    /\ UNCHANGED <<call, botVars, saves, disk, snapshot, rewound>>

(* The same call by GET: nothing to await. *)
BotGet == "botGet" \in Operations /\ PushUnsaved

(* create_chat that adds this bot and then fails for another member: the   *)
(* bot has its update, and the answer is a 400.                            *)
CreateChatFails == "createChat" \in Operations /\ PushUnsaved

\* Fault: the network that create_app was given is saved.
SaveFirst ==
    /\ saves > 0
    /\ saves' = saves - 1
    /\ disk' = Dump(runtimes[1])
    /\ unsaved' = FALSE
    /\ UNCHANGED <<netVars, call, botVars, snapshot, pushed, rewound>>

(* _persist, after the answer went out: the network that is live by then. *)
Save ==
    /\ saves > 0
    /\ saves' = saves - 1
    /\ disk' = Dump(Live)
    /\ unsaved' = FALSE
    /\ UNCHANGED <<netVars, call, botVars, snapshot, pushed, rewound>>

-----------------------------------------------------------------------------
(* getUpdates is sent; its form is awaited. *)
PollCall ==
    /\ poll = NoPoll
    /\ poll' = [phase |-> "calling", at |-> network]
    /\ UNCHANGED <<netVars, call, offset, seen, botRestarts, storeVars, pushed, rewound>>

(* The bot handles what it got, and will acknowledge it by its next poll. *)
Answer(updates) ==
    /\ poll' = NoPoll
    /\ seen' = seen \cup updates
    /\ offset' = 1 + (CHOOSE i \in {u.id : u \in updates} : \A u \in updates : u.id <= i)
    /\ UNCHANGED botRestarts

\* Fault: a request whose network was reset meanwhile is not answered.
PollServedIfLive ==
    LET r == generation
    IN  /\ poll.phase = "calling" /\ bots[poll.at] = r
        /\ runtimes' = [runtimes EXCEPT ![r].acked = Acked(runtimes[r], offset)]
        /\ IF Pending(r) # {}
           THEN Answer(Pending(r))
           ELSE /\ poll' = [phase |-> "waiting", at |-> r]
                /\ UNCHANGED <<offset, seen, botRestarts>>
        /\ UNCHANGED <<bots, generation, network, call, storeVars, pushed, rewound>>

(* The form is here: the offset acknowledges, and the poll is answered at  *)
(* once or waits.                                                          *)
PollServed ==
    LET r == bots[poll.at]
    IN  /\ poll.phase = "calling"
        /\ runtimes' = [runtimes EXCEPT ![r].acked = Acked(runtimes[r], offset)]
        /\ IF Pending(r) # {}
           THEN Answer(Pending(r))
           ELSE /\ poll' = [phase |-> "waiting", at |-> r]
                /\ UNCHANGED <<offset, seen, botRestarts>>
        /\ UNCHANGED <<bots, generation, network, call, storeVars, pushed, rewound>>

PollWakes ==
    /\ poll.phase = "waiting"
    /\ Pending(poll.at) # {}
    /\ Answer(Pending(poll.at))
    /\ UNCHANGED <<netVars, call, storeVars, pushed, rewound>>

PollExpires ==
    /\ poll.phase = "waiting"
    /\ poll' = NoPoll
    /\ UNCHANGED <<netVars, call, offset, seen, botRestarts, storeVars, pushed, rewound>>

(* The bot's process starts again, without an offset. *)
BotRestart ==
    /\ "botRestart" \in Operations
    /\ botRestarts < MaxBotRestarts
    /\ botRestarts' = botRestarts + 1
    /\ offset' = 0
    /\ poll' = NoPoll
    /\ UNCHANGED <<netVars, call, seen, storeVars, pushed, rewound>>

-----------------------------------------------------------------------------
(* POST /admin/reset. *)
Reset ==
    /\ "reset" \in Operations
    /\ Install(AfterReset(Live), generation + 1)
    /\ ToBeSaved
    /\ UNCHANGED <<call, botVars, disk, snapshot, unsaved, pushed, rewound>>

(* POST /admin/snapshot: a read, not saved. *)
Snapshot ==
    /\ "snapshot" \in Operations
    /\ snapshot' = Dump(Live)
    /\ UNCHANGED <<netVars, call, botVars, saves, disk, unsaved, pushed, rewound>>

(* POST /admin/snapshot/restore: the same Network, its bots replaced. *)
Restore ==
    /\ "snapshot" \in Operations
    /\ Install(Load(snapshot), network)
    /\ ToBeSaved
    /\ rewound' = (rewound \/ snapshot.next < Live.next)
    /\ UNCHANGED <<call, botVars, disk, snapshot, unsaved, pushed>>

(* POST /admin/bots replaces the runtime of a known token. *)
CreateBot ==
    /\ "createBot" \in Operations
    /\ Install(Fresh, network)
    /\ ToBeSaved
    /\ rewound' = (rewound \/ Fresh.next < Live.next)
    /\ UNCHANGED <<call, botVars, disk, snapshot, unsaved, pushed>>

(* The process stops, at any point, and create_app loads the store.        *)
(* Requests under way are gone; the bot tries again with the same offset.  *)
Restart ==
    /\ "restart" \in Operations
    /\ Install(Load(disk), generation + 1)
    /\ call' = NoCall
    /\ poll' = NoPoll
    /\ saves' = 0
    /\ unsaved' = FALSE
    /\ rewound' = (rewound \/ disk.next < Live.next)
    /\ UNCHANGED <<offset, seen, botRestarts, disk, snapshot, pushed>>

Next ==
    \/ UserPost \/ BotPost \/ BotPostServed \/ BotGet \/ CreateChatFails \/ Save
    \/ PollCall \/ PollServed \/ PollWakes \/ PollExpires \/ BotRestart
    \/ Reset \/ Snapshot \/ Restore \/ CreateBot \/ Restart

Spec == Init /\ [][Next]_vars

(* The bot polls in a loop, its requests are served, and the loop's timers *)
(* fire; nobody is made to write, to reset or to restart.                  *)
FairSpec ==
    /\ Spec
    /\ WF_vars(PollCall) /\ WF_vars(PollServed)
    /\ WF_vars(PollWakes) /\ WF_vars(PollExpires)

-----------------------------------------------------------------------------
(* "A bot in compose survives /admin/reset and keeps its offset in memory": *)
(* no queued update is below the offset of a bot that has not got it       *)
(* (network.py:273-279).                                                   *)
NoDeafBot == \A u \in Live.updates : u.id < offset => u \in seen

(* The bot goes deaf only after the numbering went back: by a restored     *)
(* snapshot, a bot created again, a restart that lost what was pushed, or  *)
(* a call that was served in a network already reset.                      *)
DeafOnlyAfterRewind == ~rewound => NoDeafBot

(* What wait_acked reports as finished the bot did get, even if it or the  *)
(* sandbox was restarted since (network.py:735-739, 958-975).              *)
AckedMeansSeen == ~rewound => \A u \in Live.updates : u.id <= Live.acked => u \in seen

Durable(r) == [next |-> r.next, updates |-> r.updates]

(* When every request is answered and saved, a restart loses no update and *)
(* no number, but for what a GET or a refused create_chat has done: only   *)
(* acked may be behind, "the bot's cursor, not network state"              *)
(* (bot_api.py:76-78, app.py:47-57).                                       *)
DiskIsCurrent == saves = 0 /\ ~unsaved => Durable(disk) = Durable(Live)

\* The bot is never stuck: it can poll, be served, or wait until its deadline.
NoStuckPoll ==
    /\ poll.phase = "none" => ENABLED <<PollCall>>_vars
    /\ poll.phase = "calling" => ENABLED <<PollServed>>_vars
    /\ poll.phase = "waiting" => ENABLED <<PollExpires>>_vars

Settled(g, k) == <>[](generation = g /\ botRestarts = k)

\* The sandbox is not replaced for ever, nor the bot restarted.
Settles == \E g \in Generations, k \in 0 .. MaxBotRestarts : Settled(g, k)

(* A queued update reaches a bot that keeps polling, whatever poll of a    *)
(* dead network it was stuck in, unless the network that had it is gone.   *)
EveryUpdateSeen ==
    \A b \in 1 .. MaxUpdates :
        (\E u \in Live.updates : u.body = b) ~>
            \/ \E u \in seen : u.body = b
            \/ ~\E u \in Live.updates : u.body = b
            \/ rewound

=============================================================================
