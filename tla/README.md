# A verification of telemulator

telemulator is a stand-in for Telegram used in integration tests: it speaks the
Bot API to the bots under test, offers a User API, a web client and Python
clients for the people they talk to, and an Admin API for the test harness.
The modules in this directory model its core, the runs check them with TLC on
small instances, and the `*Proofs` modules prove theorems about them with TLAPS.

Paths such as `network.py` are those of `src/telemulator/`. "The wave-3
specification" is `docs/specs/2026-08-16-test-telegram-wave-3-design.md`, "the
first design" `docs/specs/2026-08-13-test-telegram-design.md`.

    tlc -workers 2 -config UpdateQueue.cfg MCUpdateQueue
    tlapm UpdateQueueProofs.tla


## 1. The system

One process, one asyncio event loop, one thread. What runs between two
`await`s is atomic; everything hard comes from the places where a coroutine is
suspended, from clients that are other processes, and from state that is
replaced while somebody holds on to the old one.

| Component | State | Operations | Suspends at |
|---|---|---|---|
| Update queue of a bot (`BotRuntime`, `network.py:41-91, 661-781`; `bot_api.py:692-750`) | `updates`, `_next_update_id`, `acked`, subscription and cutoff, webhook, `pending_getupdates`, `preempted`, two `asyncio.Event`s | `push_update`, `getUpdates`, `setWebhook`, `deleteWebhook`, webhook delivery, `wait_acked` | the poll task, both `wait_for`s, the handler's `await task`, the POST to the webhook |
| Chat membership and rights (`chats.py`, `network.py:324-607`, `admin_api.py`, `user_http.py`, `bot_api.py`) | `ChatRecord.members` | add, remove, leave, ban, unban, promote, patch | nothing: one step each |
| Sending limits (`limits.py`) | three lists of times per bot (and chat) | `check`, `record`, `POST /admin/limits` | nothing |
| Feed of a group or channel (`privacy.py`, `user_api.py:29-210`, `network.py:794-920`) | `messages`, `last_bot_id`, `privacy_at_join`, `privacy_mode` | send, edit, delete, press; join and leave, which post service messages | nothing |
| Replacement of the network and persistence (`app.py`, `store.py`, `Network.reset/dump/load`) | `app.state.network`, the SQLite row | reset, snapshot, restore, create a bot, save after a request, start | between taking the network and the form of the request; between the answer and the save |
| Clients and the dialog with a bot (`client.py`, `remote.py`, `view.py`) | the number of the bot's messages seen before, the update waited for | `send`, `press_callback` and their `_wait` | four HTTP requests, or one wait |
| Callback queries (`network.py:213-240`) | `_callbacks`, `_next_callback_id` | register, answer, sweep after 15 minutes | nothing; an answer waits for the form of its request |
| Event stream (`network.py:171-184, 293-300`, `user_http.py:294-324`) | a queue of 1000 events per subscriber | subscribe, emit, read, unsubscribe; moved to the new network by a reset | the reader's `queue.get`; before the generator is first run |
| Web client (`web/app.js`) | the map `pending` and the spinners of the buttons | click, the response of the press, the events of the stream | every request it makes |
| Private dialogs (`network.py:310-320, 574-674`, `user_api.py`) | `bot_chats`, `private_user_chats`, `users`, the ids of `bots` | write, edit, delete, press, `thread_for`, `chats_for` | nothing |
| Journal, files, reply keyboards, sessions, errors, catalogue, in-process server | dictionaries, bounded deques | written and read in one step | the server's start and stop |

How they interact. A person's message (User API) is appended to a chat or a
dialog and pushed to the queue of each bot the privacy filter picks; the push
wakes the bot's long poll. The bot's next `getUpdates` carries an offset, which
acknowledges; the ack wakes `wait_acked`, which is how the clients know that a
handler is over. The bot answers by Bot API calls, which pass the limits, change
the chats and are appended to the feed the clients read. Changes of membership
push `my_chat_member` and `chat_member` updates and post service messages.
Successful requests other than GET and a few reads are followed by a dump of the
whole network into SQLite. `/admin/reset` replaces the network under all of this.

What makes each part correct:

* *Queue*: no update is lost between two polls or hidden by a change of
  subscription, one poll is live at a time, every request is answered, acks only
  grow.
* *Membership*: no rights without a role, the rules of each type of chat, and
  bots that are told of everything that concerns them.
* *Limits*: no window has more messages than its limit, and `retry_after` is
  neither too short nor too long.
* *Feed*: ids name one message, and each bot gets what the specification says.
* *Lifecycle*: a bot that keeps its offset misses nothing, what was saved is
  what there is.
* *Clients*: a screen is the bot's answer, and silence is silence.
* *Callback queries and the event stream*: an id names one query, a query can be
  answered for 15 minutes, a connection never goes mute, and a button spins only
  for as long as it should, or for a reason that can be named.
* *Dialogs*: whoever takes part in a conversation is shown it, and a press reaches
  the message and the bot it was meant for.

`PROJECT.json` lists the hazards line by line, with the properties that cover
them.


## 2. The modules

Every module that models code has named assumptions about its constants, one
action per operation, and its properties at the end. Names are the source's
where TLA+ allows it. Operators marked "Fault" are not part of any
specification: each is a plausible mistake in the operator below it, and put in
its place makes one of the properties fail.

| Module | Models | Checked by | Proved in |
|---|---|---|---|
| `UpdateQueue` | one `BotRuntime` and its requests, await by await | `MCUpdateQueue`: `UpdateQueue`, `UpdateQueueLive` | `UpdateQueueProofs` |
| `UpdateStream` | nothing of the code: what `getUpdates` promises a bot | as the property `ImplementsStream` of `UpdateQueue` | `UpdateQueueProofs` |
| `Membership` | one chat's members under three APIs | `MCMembership`: `Membership`, `CreatorStays` | `MembershipProofs` |
| `RateLimiter` | the sliding windows | `MCRateLimiter`: `RateLimiter` | `RateLimiterProofs` |
| `SlidingWindows` | nothing of the code: what the limits promise a bot | as the property `ImplementsWindows` of `RateLimiter` | `RateLimiterProofs` |
| `GroupFeed` | a group's or channel's feed and the privacy filter | `MCGroupFeed`: `GroupFeed`, `CallbackGoesToKeyboard` | `GroupFeedProofs` |
| `Lifecycle` | what replaces the network under a running bot | `MCLifecycle`: `Lifecycle`, `NoDeafBot` | `LifecycleProofs` |
| `Conversation` | the clients' view of a dialog | `Conversation` | `ConversationProofs` |
| `EventStream` | callback queries, the SSE queues and the spinner of a pressed button | `MCEventStream`: `EventStream` | `EventStreamProofs` |
| `Dialogs` | the threads between people and bots, and who is which | `MCDialogs`: `Dialogs` | `DialogsProofs` |

### UpdateQueue

A `getUpdates` request is two coroutines. Its phase says where they are:
`created` (the task exists and has not run), `waiting` and `woken` (suspended in
`wait_for`, its event not set or set), `cancelling` (`cancel()` was called),
`done` and `cancelled` (the task is over, the handler has not resumed), and how
the request ended: `ok`, `conflict` (409), `gone` (the client went away). A
newer request cancels the pending task and marks it in `preempted`
(`GetUpdates`); a client can go away at any suspension point (`ClientGone`); the
handler resumes with its `finally` (`HandlerResume`). `_arrived` and `_acked`
are not variables: `Event.set()` makes every waiting coroutine `woken`, which is
what the event stands for, since there is no `await` between the check, the
`clear()` and the wait. The cutoff and the subscription are separate, as in
`update_is_visible`; an answer is filtered twice, in the task and in the handler.

### UpdateStream, and how UpdateQueue implements it

The abstract stream has a queue that only grows, a part of it that is shown and
only grows, one reader at a time, an answer that is everything shown from the
reader's offset on, and a mark of what is confirmed. It knows of no task, event,
cancellation, preemption, cutoff or webhook. The refinement mapping at the end of
`UpdateQueue` says what stands for what: `shown` are the updates a poll would be
given now (`Shown`), the reader is the request whose task is live (`Reader`), and
a request's answer is the list its task has made, until it is thrown away
(`Given`). A new request takes the reader's place at the moment it cancels the old
task, though that task runs on for a step; a webhook is a number of the stream
that is published and never queued. `Reveal` and the growing of `shown` in `Ask`
are there because the code shows hidden updates when a subscription changes
(section 5). Confirmed updates stay due to a reader with a smaller offset.

### Membership

A member is its status, a set of rights and who promoted it. Each operation is
one action: checks, new record and notifications (`Commit`, `Notify`); the service
message it may end with is `GroupFeed`'s. The routes of the User and the Admin API are actions of their
own on what they share (`AddMember`, `PatchMember`, `RemoveMember`): a session is a
person's, the Admin API acts as anyone, and only the User API's PATCH asks for the
chat's creator. Notifications are kept as what the receivers know: `told` for
`my_chat_member`, `seen` for `chat_member`. Of the rights the instance tells apart
the three the code asks for. The chat's creator is a person: through the
Admin API the repository only ever creates chats for people.

### RateLimiter

`check`, the delivery and `record` run without an `await`, so a message is one
action; refused by a bucket (`TooManyRequests`), refused for another reason
after the check (`SendFails`) or sent (`Send`). Lists are trimmed when they are
looked at, in the order in which the code looks at them. A second is several
ticks, so that rounding up is visible.

### SlidingWindows, and how RateLimiter implements it

The abstract limits have no lists: a log of all messages, and windows over it. A
message is accepted when each of its windows has room; it is refused when one has
not, and the wait is defined by what it is for, the least number of whole seconds
after which that one has room, and not by the oldest stamp and a rounding. The
mapping is the identity on the clock, the profile, the log and the last refusal,
of which the log and the refusal are history variables of `RateLimiter`. A refusal
carries its time, so that a second one that is not justified is a step and not a
stutter; a message that fails after the check is a stutter, and must have left no
trace. Which of several full windows refuses is the code's order and no promise.

### GroupFeed

Messages, service messages, edits, deletions and presses of one chat, with the
bots' roles changing between them. `GroupReceivers` is
`deliver_group_message_to_bots` pass by pass, `DeliverChannel` its counterpart
for channels. Of a text the model keeps what the filter looks at: no command, a
bare one, or one addressed to a name; two bots may share a name, as nothing in
the code keeps them from it. Whoever comes or goes, a bot (`Join`, `Leave`) or a
person (`PersonComesOrGoes`), and by whomever, the service message
(`AppendService`) goes through the same filter, after the change.

### Lifecycle

All `BotRuntime`s ever made for a token, numbered by generation; `network` and
`bots` say which one is live and which one each network holds. A POST of a bot
remembers the network it took before it awaited its form (`BotPost`,
`BotPostServed`), a long poll the runtime it waits on (`PollServed`). `saves`
counts requests that are answered and whose dump is still to be written;
`Restart` may come at any point and loads `disk`. Of a runtime only the
numbering, the queue and the ack are kept. Updates carry a `body` that no two
share, so that the properties can tell an update from another with its number.

### Conversation

The remote client's call is four requests: count the bot's messages, post, wait
for the ack, count again. The bot, another process, takes every step in between:
it polls, and in its handlers it sends, edits and deletes what it likes.
`UserClient` counts and posts in one step, so its behaviours are a subset.

### EventStream

Every network ever live is kept, numbered like the generations of `Lifecycle`,
with its registry of queries and its list of subscribers: a Bot API call that took
a network before a reset goes on with it (`AnswerReceived`, `AnswerHandled`), and
a generator holds the one it was started with. A connection is `opening` (its
queue is listed, its generator has not run), `open`, `gone` (the browser went
away, the `finally` has not run), `leaked` (it went away before the generator ran,
so that there is no `finally`) or `closed`. An emitted event pushes the oldest out
of a full queue. In the tab, `spin` are the buttons that turn, `flight` the
presses without a response and `pending` the map of `app.js` from a query's id to
its button; the stream and the response of the press are two connections, and
either may be first. Bots survive resets and answer any query they were ever sent,
any number of times. `emitted`, `told`, `answered` and `unheard` are history: the
number of each event, what bots know, and the answers a tab could not use, with
the reasons spelled out in `SpinnersAreExplained`. A button is pressed once: two
presses of one button are two buttons here. What else removes spinners, such as
opening another chat, is left out, since it only removes them.

### Dialogs

Two dictionaries, `bot_chats` (a person and a bot, in the order of insertion,
which matters) and `private_user_chats` (a set of two ids, or of one who writes to
himself), and two places that say what an id is: `users`, which any side may
overwrite, and the runtimes. Writers ask for a runtime (`HasToken`), readers for a
runtime or the entry (`IsBotId`). An id becomes a bot's with the first use of its
token; `takenOver` records that it was a person's before. `PressAsClient` is
`UserClient.press_callback`, which finds its message in the dialog with its own
bot and then gives `_press` no more than the person's id; `PressAsViewer` is the
route of the web and the remote client, which checks the session and takes any id
for the peer. Both end in `Press`, which is `_press`: a bot's id stands for the
presser's dialog with it, any other for the dialogs of the person with that id, who
need not be the presser (`Owner`). Group chats are in `GroupFeed`, and resets
in `Lifecycle` and `EventStream`.

### Simplifications

Time is abstract except in `RateLimiter`: a deadline may pass in any state in
which the coroutine is suspended. One bot, one chat or one dialog per model,
where the code keeps them apart by dictionary keys and nothing crosses over;
`Dialogs` is about the place where something does. A request that is refused and changes
nothing is no step. `Lifecycle` has a SQLite file; without one nothing is saved
and a restart starts from nothing. An answer of `getUpdates` is lost in
`Lifecycle` only with the bot itself, and in `UpdateQueue` by `ClientGone`.


## 3. The runs

| Run | Asks | Size |
|---|---|---|
| `UpdateQueue` | two requests, a waiter and webhook deliveries in every interleaving: one live poll, no lost wake-up, no gap in an answer, one route per update; every step is a step of `UpdateStream` or none | 1.8 million states |
| `UpdateQueueLive` | no request ever gets stuck, and every request and every wait ends | 173 thousand |
| `Membership` | any sequence of operations in all three types of chat; a ban ends with an unban or a promotion, and with nothing else | 92 thousand |
| `RateLimiter` | the limits over every window, lists that do not grow; every step is a step of `SlidingWindows` or none | 1.0 million |
| `GroupFeed` | who gets what, ids, privacy that changes by rejoining | 1.2 million |
| `Lifecycle` | the bot misses an update only after the numbering went back; what is acknowledged was seen; the file is current; the bot is never stuck, and every update reaches a bot that keeps polling | 1.7 million |
| `Conversation` | when a screen is the answer and silence is silence | 2.1 million |
| `EventStream` | connections stay listed through resets, queues hold the newest events, ids name one query, queries live their time, and why a button spins | 5.3 million |
| `Dialogs` | who writes is shown it, the list of chats is complete, a press reaches a button of the dialog it names | 529 thousand |
| `CreatorStays`, `CallbackGoesToKeyboard`, `NoDeafBot` | statements of the documentation that the code does not keep (section 5) | a counterexample each |

Bounds, and why they are enough:

* `UpdateQueue`: two updates, because the questions are about one update hidden
  or pushed below another; two requests, because a request interferes with the
  one in `pending_getupdates` and no other (the proofs hold for any number);
  offsets none and 2, below and above an id. One update in the liveness run:
  what has to end is a request, and an update only makes it end sooner.
* `Membership`: the creator, another person and one bot: an operation is about an
  actor, a target and a bot that is told, which the bot can be by itself. With
  two bots the state space is beyond a run, and the theorems cover it.
* `RateLimiter`: a second of two ticks, a minute of eight, limits of one and two,
  so that each bucket is the one that refuses in some behaviour; ten ticks are
  more than a full minute after which a window has moved on, four messages more
  than any limit.
* `GroupFeed`: two bots and ids up to 2. A message, a reply to it, its deletion
  and the reuse of its id all fit, since ids are reused.
* `Lifecycle`: two updates (one seen, one that could be missed), three runtimes
  (two replacements in a row), two answered requests that are not saved, one
  restart of the bot.
* `Conversation`: three updates, the one asked about and two before it, and three
  messages at a time.
* `EventStream`: one tab that connects any number of times (queues do not touch
  each other), one call that may be suspended, two networks, a queue of two events
  (an answer and its journal entry fill it), three events (one more than the queue
  holds), two presses (an id given out twice, one answer for the other), a query
  that lives until the next second, and a clock with one. The theorems hold for
  any number of each.
* `Dialogs`: two people, since a press may name the other, and two ids of bots, of
  which each is a person's id until its first call; two messages, for two dialogs
  with a message of the same number, of one person or of two, or a dialog and a
  talk. The last query is forgotten with the next step. The theorems hold for any
  number of each.

Only `Membership` may stop (a chat that everybody has left); there deadlock is
not checked.

Fairness. `UpdateQueueLive` assumes that the event loop runs each ready
coroutine and fires each timer: weak fairness of the poll's steps, of a waiter's
wake-up and of their deadlines, nothing about clients, pushes or webhooks.
`Lifecycle` assumes in addition that the bot polls in a loop, which is what the
harness demands of a bot; nobody has to write, reset, save or restart.


## 4. What is proved

For every value of the constants that satisfies the named assumptions:

* **UpdateQueue.** Type correctness (`TypeCorrect`); `PollsTakeTurns`, at most one
  live poll and preempted requests in flight (`OneLivePoll`), inductive as
  `PollInv`; one route per update (`UpdatesHaveOneRoute`);
  `VisibleStaysVisible` and `AckNeverRetreats` (`SubscriptionKeepsVisible`,
  `AcknowledgedForGood`), each from the type invariant and `OneRoute`; no lost
  wake-up and no gap (`EventsLoseNobody`, `AnswersHaveNoGap`)
  from `DeliveryInv`, which adds that a result a request holds is made of queued
  updates from its offset on: only then does it follow that an update pushed
  later, with a larger id, leaves no gap, and that a change of subscription moves
  the cutoff above everything queued. The other half of `NoLostWakeUp` is about
  the waiters for an ack (`WaitersNotForgotten`): every change of `acked` wakes
  them.
  *Liveness*, `RequestsAreAnswered`: under `FairSpec` every request and every wait
  ends, if no request is ever stuck. The phases of a request go one way
  (`PhasesMoveOn`) but for the loop of `take_updates`, from `waiting` to `woken`
  and back, and out of the loop leads its deadline, which fairness fires
  (`LoopIsLeft`). `[]NoStuckRequest` says that the steps that fairness speaks of are
  enabled where the argument counts on them; ENABLED is beyond the prover, so it is
  the theorem's hypothesis, and an invariant that TLC checks in `UpdateQueueLive`.
* **UpdateStream.** `QueueIsStream`: `UpdateQueue` implements it. The initial state
  maps to the initial state, and each action to `Publish`,
  `Reveal`, `Ask`, `Look`, `Leave`, `Lose` or a stutter. The mapping is a step
  only in states that satisfy `RInv`: one live poll, or the reader would be two;
  results made of what is still shown (`ResultVisible`), or the handler's second
  filter would change an answer already given; and no live task that has already
  made its result (`LiveEmpty`).
* **Membership.** `IInv` is the type invariant, `RecordsInv` (every record is
  well-formed: rights only with a role, `can_manage_chat` with every right, no
  plain bot in a channel, no ban in a group, and nothing in the record of a
  member who has left that would come back with them) and the two notification
  invariants. Every action is a `Commit` of a well-formed record
  (`StepCommits`), and a `Commit` keeps the invariant (`CommitKeeps`), so that
  the seven operations are proved by one argument. It gives type correctness,
  `MembersHaveNoRights`, `ChatTypeIsRespected` (no ban in a basic group, no plain
  bot in a channel), `BotsAreUpToDate` (both kinds of notification),
  `RightsImplyManage` and, as an action property, `BansHold`: a ban ends by an unban or by making the banned an administrator
  (`BansAreKept`). That no removal ends one needs the invariant: whoever is removed
  from a basic group may come back, banned or not, and there nobody is banned.
* **RateLimiter.** The code looks only at trimmed lists; the limits speak of all
  messages ever sent. `ListsCover` connects them: a list holds every message that
  can still be in a window that ends now or later. With it a message that is let
  through finds fewer than its limit in the window that ends now
  (`BoundedAfterSend`), older windows do not change, and a tick only opens a
  window whose messages are among those of the one before (`BoundedAfterTick`).
  `LimitsAlwaysHold` holds for all limits and all lengths of a second and a minute.
  Its last part, that the lists stay short, follows since a message is recorded
  only in lists that had room (`ListsAreShort`).
* **SlidingWindows.** `LimiterIsWindows`: `RateLimiter` implements it. With
  `ListsCover` what a check keeps of a list is the window that ends now
  (`RecentIsWindow`), so that a list that lets pass stands for a window with room
  (`PassedHasRoom`). For a refusal the limits are needed too: a full window has
  exactly its limit of messages, so that it has room as soon as the oldest has left
  it and not before (`RoomWhenOldestLeaves`), and the wait of the oldest, rounded up
  to seconds, is the least (`RefusalIsLeastWait`).
* **GroupFeed.** What the two passes of the filter leave is, by cases on why a
  message is for a bot, the set of bots with privacy that it singles out
  (`CandidatesAreSingledOut`), so that each delivery is as listed in the state it
  is made with (`FilterIsAsListed`). The property speaks of the state after the
  step: a change of membership delivers with the membership it leaves
  (`ServiceStep`), and a bot that becomes the last one to have written is the
  author, whose message no bot gets (`GroupStep`). Ids are unique because the next
  one is above all that are in the feed, which has a newest message as long as
  there is one (`NewestIsThere`). It gives `FeedType`, `IdsAreUnique`,
  `DeliveryFollowsTheList` and `PrivacyIsThatOfJoining`.
* **Lifecycle.** `IInv` compares every record of a runtime, alive, dead, in the
  store or in a snapshot, with the live one. Until the numbering goes back
  (`HistoryInv`): none is ahead of the live one or acknowledges what is to come
  (`NextInv`); a record that has an update has every update below it that another
  record, not behind, has (`NoGapInv`); the bot's offset is a number of the live
  numbering and of the runtime it polls (`OffsetInv`); and what a record has below
  the offset or has acknowledged was seen (`SeenInv`). `DeafOnlyAfterRewind` alone
  is not inductive: a dead runtime that a poll waits on can still move the offset,
  which `NoGapInv` shows to be harmless, and a snapshot may become the live
  runtime, which is why the invariant speaks of all of them. It gives
  `LifecycleType`, `DeafnessNeedsRewind`, `AcknowledgedWasSeen` and, with the
  count of unsaved requests, `StoreIsCurrent`.
  *Liveness*, `UpdatesAreSeen`: an update that the bot is to see is seen or
  replaced. As long as the network stays, whatever the bot is doing comes to an
  end (`TheWay`): a poll that waits at a dead runtime is served or expires, then
  the bot is idle, then it polls the live runtime, and that poll is given the
  update, since `DeafOnlyAfterRewind` has it at or above the bot's offset. There
  are two hypotheses. `[]NoStuckPoll` is the ENABLED part, an invariant that TLC
  checks in `Lifecycle`. `Settles`, the live runtime is some day the last one, is
  what the bounds of the model imply: `ReplacementsRunOut` proves that a
  replacement always takes one of finitely many, and to conclude takes an induction
  over their number whose hypothesis is temporal, which the prover cannot do.
  No run lists `Settles`: it is a consequence of the bounds, not of the code.
* **Conversation.** The client compares two numbers taken at different times. The
  invariant says for every moment between them what the number of the bot's
  messages tells: it has grown if the bot sent something for the update and
  nothing was deleted (`AtLeastInv`), and has grown only then if nothing else was
  to be handled when the call began (`AtMostInv`); `UpdateInv` and `NumbersInv`
  tie the call to its update and the ack to the handler. It gives
  `ConversationType`, `AckComesAfterHandler`, `SilenceEndsIt` and
  `ScreensAreAnswers`.
* **EventStream.** The invariant is a conjunction that has to be proved at once. An
  event reaches the tabs only if the list is right, so `ListedWhileConnected` and
  `QueueIsNewest` carry each other; ids are unambiguous because those of a
  registry, those bots hold and those on the way are below the next one
  (`RegistryOk`, `NamesOk`, the snapshot's included); a press has one request,
  in one tab, and no query before it is served (`FlightOk`), so that a new query
  is for a press that nobody has answered; and `SpinOk` is
  `SpinnersAreExplained` without its weakest reason: a button whose press was
  answered spins only while the answer is in its queue or was of no use. Each
  action has a lemma, and what an `emit` does to the queues is proved once
  (`OfferKeeps`). It gives the six properties, `QueriesLiveTheirTime` among them
  as an action property.
* **Dialogs.** `Inv` says which keys can be there: bots have entries and runtimes
  (`EntriesOk`), every dialog is with a bot that has a runtime, so that it is never
  looked for among the talks (`DialogsOk`), and the people of every talk have
  entries, and runtimes only if they were taken over (`TalksOk`). For the type and
  for presses `TInv` adds that the dictionary's order lists its keys once and that
  no message's number exceeds the number of messages ever stored (`KeysOk`,
  `ThreadsOk`), since `max + 1` of a thread that loses messages is bounded by
  nothing else. A press by a person's id is for the first dialog of that person with
  the number (`PressOfPerson`), so that a client's press that misses its own bot has
  found an older dialog (`ClientMeets`). It gives `DialogsType`, `NothingElseIsHidden`, `ListsAreComplete`
  and `QueriesNameTheirMessage`.

Only model-checked: `NoStuckRequest` and `NoStuckPoll`, which are about ENABLED,
and with them what the two liveness theorems assume. Every other property of a
passing run is a theorem: safety without a hypothesis, liveness with those above.
No module declares a RECURSIVE operator, and nothing here needs induction over
data, which the prover could not do.


## 5. Where code and documentation disagree

Each has a run whose counterexample TLC finds:

* **CreatorStays.** `unban_member` without `only_if_banned` puts out any active
  member, the creator too (`network.py:478`), though "Creator demote/ban нельзя"
  (wave-3 specification, line 221) and `banChatMember` refuses. After that no
  member can be removed any more (`user_http.py:166` finds no creator).
* **CallbackGoesToKeyboard.** A channel post has no `from`; a press on it goes to
  the bot that posted last (`user_api.py:172`) even if the keyboard is another
  bot's, though a query from a bot's keyboard is "always to it" (line 229).
* **NoDeafBot.** `call()` takes the network and then awaits the form
  (`bot_api.py:781-787`). Served after a reset, it pushes to the dead network on
  a number the live one gives out as well. A poll that still waits on the dead
  runtime delivers it, and the bot's offset then skips the other update for good:
  the deafness `Network.reset` is written against (`network.py:274-279`).
Seen while modelling, without a run of their own:

* Updates that a subscription hides become visible when the list changes, because
  the cutoff moves to the next id (`network.py:87-91`); the wave-3 specification
  (line 314) wants hidden ones to stay hidden.
* Confirmed updates stay in the queue and are delivered again to a poll with a
  smaller offset (`network.py:766-770`); the first design (line 84) says offsets
  work as in Telegram.
* `promoteChatMember` and PATCH make an administrator of a user who is `kicked`
  (`network.py:507, 546`), though a banned user comes back only after an unban
  (wave-3 specification, line 209). `BansHold` says what does hold, with that as
  its one exception.
* `_wait` ignores the answer of the ack route (`remote.py:208`, `client.py:188`):
  after the timeout one message of a handler that is still running makes a screen,
  though "`send` returns once the bot has acknowledged the update" (README.md:75).
  `ScreenIsAnswer` holds all the same, for a first part of the answer.
* A bot that answers a press by editing its message is reported as one that
  "processed the update and did not reply" (`client.py:175`), though the first
  design (line 121) lists `editMessageText` among the answers. `SilenceIsFinal`
  speaks of messages sent for that reason.
* `callback_answered` may reach a tab before the response of the press has put the
  query into `pending` (`app.js:249`): the button then spins for good, and a
  `message` event that draws the feed anew takes the spinners of unanswered presses
  away; for the first design (line 174) a spinner means an unanswered press.
* After a reset or a restore the ids of queries start again (`cb-1`), while update
  numbers go on: a bot that answers late answers a younger query. That is why
  `IdsNameOneQuery` leaves such queries out.
* A generator of `/user/events` that was never started has no `finally`: its queue
  stays in the list, full, for as long as the server lives.
* A message to oneself makes a talk of one id, for which `chats_for` finds no peer
  (`network.py:669`): the list of chats fails from then on (`ListFails`).
* A message to a bot's id before the bot's first call goes to a person of that id;
  the first call turns the id into a bot's and the message is shown no more.
* `message_deleted` removes the message of that number whatever chat is open
  (`app.js:281`).
* `/admin/{token}/callback` presses the last message of the dialog, also if the
  person wrote it (`admin_api.py:270`).
* The ack route is asked to wait up to 10 seconds, httpx gives up after 5
  (`remote.py:34`): a slow bot ends in `ReadTimeout`, not in `BotSilentError`.
* `UserClient.press_callback` names a person and a message id; with two bots the
  oldest dialog that has such a message wins, though the button was another bot's
  (`user_api.py:212`); `PressMeetsItsButton` has it as its one exception for a
  press that means a bot.
* The press route takes any id for the peer (`user_http.py:271`). With another
  person's id `_press` searches the dialogs of that person (`user_api.py:207`), and
  the bot gets a `callback_query` from the presser, in the presser's private chat,
  about a message that only the other dialog has. `PressMeetsItsButton` says whose
  message it is (`Owner`).
* Putting out somebody who is out already, by DELETE or `banChatMember`, announces
  the leaving once more, as a service message (`network.py:443, 459`).
* Bot API methods may be called by GET, and a GET is never saved (`app.py:53`).
  Neither is a `create_chat` that fails after it has added bots, which have been
  told (`network.py:349`).


## 6. Not modelled

* Files and media: bytes stored and returned; as messages they take the path of
  `sendMessage`, which is modelled.
* Reply keyboards: one per person and chat, overwritten by each message that
  carries one and read by nothing but the client that shows it.
* The journal: two bounded deques that no decision reads. Its events are in
  `EventStream`, where they take room in the queues.
* Sessions: a token per user, looked up, forgotten by a reset; `EventStream` has
  the press that fails for it.
* The rest of the web client draws what it fetched; the in-process server starts
  and stops uvicorn; the wording of errors and the catalogue of methods have no
  state.
* `Lifecycle` keeps no subscription, which getUpdates changes without a save: a
  restart takes a bot's subscription back, and with it the cutoff. `UpdateQueue`
  covers the subscription without restarts.
* Half-made chats: `create_chat` adds its members one by one and leaves what it has
  made when one of them fails (`network.py:349`). `Membership` reaches that chat by
  the members added so far, from the creator alone, and `Lifecycle` has what the
  bots were told and the store was not (`CreateChatFails`).


## 7. The plan

1. *Done:* `UpdateQueue`, `Membership`, `RateLimiter`, `GroupFeed`, `Lifecycle`,
   `Conversation`, `EventStream` and `Dialogs`, each with its proofs;
   `UpdateStream` and `SlidingWindows`, and the proofs that `UpdateQueue` and
   `RateLimiter` implement them; the liveness of `UpdateQueue` and `Lifecycle` from
   fairness.
2. *Left to model:* the subscription in `Lifecycle`; replies and channel feeds in
   `Conversation`; a composition of `Dialogs` and `EventStream`, where a press
   finds its button in a thread that a bot is editing.
3. *Left to prove:* that a client's call always returns, from the fairness of its
   event loop alone (`Conversation` has no liveness property yet).
