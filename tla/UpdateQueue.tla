---------------------------- MODULE UpdateQueue ----------------------------
(***************************************************************************)
(* One bot's BotRuntime (network.py) and the Bot API calls that share it:  *)
(* push_update, getUpdates (bot_api._get_updates with its poll task        *)
(* Network.take_updates), setWebhook / deleteWebhook, webhook delivery and *)
(* wait_acked.                                                             *)
(*                                                                         *)
(* telemulator is a single-threaded asyncio program: what runs between two *)
(* awaits is atomic and is one action here.  A getUpdates request is two   *)
(* coroutines, the HTTP handler and the task it awaits; the handler can be *)
(* cancelled by its client and the task by a newer request, each at any    *)
(* point where the other is suspended.                                     *)
(*                                                                         *)
(* Time is abstract: a deadline may pass in any state in which the         *)
(* coroutine is suspended on wait_for.                                     *)
(***************************************************************************)
EXTENDS Integers

CONSTANTS
    Pollers,            \* concurrent HTTP requests to getUpdates
    Waiters,            \* concurrent callers of wait_acked
    Kinds,              \* kinds of update (message, callback_query, ...)
    ExcludedByDefault,  \* kinds a bot must ask for (network.py:36)
    Subscriptions,      \* the lists a bot may pass as allowed_updates
    Default,            \* allowed_updates = None: no list was ever set
    NotGiven,           \* the request has no allowed_updates parameter
    NoPoll,             \* pending_getupdates = None
    Offsets,            \* the offsets requests carry; 0 stands for none
    MaxUpdates          \* bound: updates pushed in one behaviour

ASSUME KindsAssumption ==
    /\ ExcludedByDefault \subseteq Kinds
    /\ Subscriptions \subseteq SUBSET Kinds
    /\ Default \notin Subscriptions
    /\ NotGiven \notin Subscriptions \cup {Default}

ASSUME PollersAssumption == NoPoll \notin Pollers

ASSUME OffsetsAssumption == Offsets \subseteq Nat

ASSUME MaxUpdatesAssumption == MaxUpdates \in Nat

VARIABLES
    nextId,        \* BotRuntime._next_update_id
    updates,       \* BotRuntime.updates; the order of the list is that of the ids
    acked,         \* BotRuntime.acked
    webhook,       \* BotRuntime.webhook_url is not empty
    subscription,  \* BotRuntime.allowed_updates
    cutoff,        \* BotRuntime.allowed_updates_cutoff
    pending,       \* BotRuntime.pending_getupdates
    preempted,     \* BotRuntime.preempted
    poll,          \* each getUpdates request: its offset, phase and result
    waiter,        \* each wait_acked call: its update id and phase
    hooks,         \* Network._webhook_tasks
    hookFailed     \* BotRuntime.last_error_date is not None

botVars  == <<nextId, updates, acked, webhook, subscription, cutoff>>
pollVars == <<pending, preempted, poll>>
hookVars == <<hooks, hookFailed>>
vars == <<botVars, pollVars, waiter, hookVars>>

-----------------------------------------------------------------------------
Update == [id : Nat \ {0}, kind : Kinds]

AllowedUpdates == Subscriptions \cup {Default}

\* The task of a request that no one has cancelled and that has not finished.
LivePhases == {"created", "waiting", "woken"}

\* `not task.done()`: also a task whose cancellation is not delivered yet.
TaskRunning == LivePhases \cup {"cancelling"}

\* The request has been received and not answered.
InFlight == TaskRunning \cup {"done", "cancelled"}

\* "ok" is a 200, "conflict" a 409, "gone" a journal entry with status 499.
Answered == {"idle", "ok", "conflict", "gone"}

\* A request that got no list of updates.
Unanswered(phase) == [phase |-> phase, offset |-> 0, result |-> {}]

Request == [phase : InFlight \cup Answered, offset : Nat, result : SUBSET Update]

WaitPhases == {"idle", "waiting", "woken", "true", "false"}

Hook == [id : Nat \ {0}, kind : Kinds, phase : {"scheduled", "posting"}]

TypeOK ==
    /\ nextId \in Nat \ {0}
    /\ updates \subseteq Update
    /\ acked \in Nat
    /\ webhook \in BOOLEAN
    /\ subscription \in AllowedUpdates
    /\ cutoff \in Nat
    /\ pending \in Pollers \cup {NoPoll}
    /\ preempted \subseteq Pollers
    /\ poll \in [Pollers -> Request]
    /\ waiter \in [Waiters -> [phase : WaitPhases, id : Nat]]
    /\ hooks \subseteq Hook
    /\ hookFailed \in BOOLEAN

-----------------------------------------------------------------------------
KindAllowed(kind, list) ==
    IF list = Default THEN kind \notin ExcludedByDefault ELSE kind \in list

Visible(u) == u.id < cutoff \/ KindAllowed(u.kind, subscription)

\* What take_updates would return for this offset now.
Pending(offset) == {u \in updates : u.id >= offset /\ Visible(u)}

\* Fault: the subscription changes for the queued updates too.
ApplyWithoutCutoff(list) ==
    /\ UNCHANGED cutoff
    /\ subscription' = IF list = NotGiven THEN subscription ELSE list

\* The parameter is absent, repeats the subscription, or replaces it.
ApplyAllowedUpdates(list) ==
    IF list \in {NotGiven, subscription}
    THEN UNCHANGED <<subscription, cutoff>>
    ELSE /\ subscription' = list
         /\ cutoff' = nextId

\* Fault: _arrived is not set.
WakeNoPoll == poll

\* Event.set(): everyone suspended in Event.wait() will run.
WakePolls ==
    [p \in Pollers |->
        IF poll[p].phase = "waiting" THEN [poll[p] EXCEPT !.phase = "woken"] ELSE poll[p]]

\* Fault: _acked is not set.
WakeNoWaiter == waiter

WakeWaiters ==
    [w \in Waiters |->
        IF waiter[w].phase = "waiting" THEN [waiter[w] EXCEPT !.phase = "woken"]
                                       ELSE waiter[w]]

\* Fault: an offset below the acknowledged one takes the acknowledgement back.
AckAnyOffset(offset) ==
    /\ acked' = offset - 1
    /\ waiter' = WakeWaiters

\* Network.ack
Ack(offset) ==
    IF offset - 1 > acked
    THEN /\ acked' = offset - 1
         /\ waiter' = WakeWaiters
    ELSE UNCHANGED <<acked, waiter>>

-----------------------------------------------------------------------------
Init ==
    /\ nextId = 1
    /\ updates = {}
    /\ acked = 0
    /\ webhook = FALSE
    /\ subscription = Default
    /\ cutoff = 0
    /\ pending = NoPoll
    /\ preempted = {}
    /\ poll = [p \in Pollers |-> Unanswered("idle")]
    /\ waiter = [w \in Waiters |-> [phase |-> "idle", id |-> 0]]
    /\ hooks = {}
    /\ hookFailed = FALSE

\* Fault: the webhook branch does not return.
PushOnBothRoutes(kind) ==
    /\ nextId <= MaxUpdates
    /\ nextId' = nextId + 1
    /\ IF webhook
       THEN hooks' = hooks \cup {[id |-> nextId, kind |-> kind, phase |-> "scheduled"]}
       ELSE UNCHANGED hooks
    /\ updates' = updates \cup {[id |-> nextId, kind |-> kind]}
    /\ poll' = WakePolls
    /\ UNCHANGED <<acked, webhook, subscription, cutoff, pending, preempted, waiter,
                   hookFailed>>

(* push_update: to the webhook if there is one, else to the queue.  The    *)
(* dialog that a private message opens first is no state of the runtime.   *)
PushUpdate(kind) ==
    /\ nextId <= MaxUpdates
    /\ nextId' = nextId + 1
    /\ IF webhook
       THEN /\ hooks' = hooks \cup {[id |-> nextId, kind |-> kind, phase |-> "scheduled"]}
            /\ UNCHANGED <<updates, poll>>
       ELSE /\ updates' = updates \cup {[id |-> nextId, kind |-> kind]}
            /\ poll' = WakePolls
            /\ UNCHANGED hooks
    /\ UNCHANGED <<acked, webhook, subscription, cutoff, pending, preempted, waiter,
                   hookFailed>>

(* _get_updates up to `await task`.  The task has not run yet. *)
GetUpdates(p, offset, list) ==
    /\ poll[p].phase \in Answered
    /\ ~webhook
    /\ ApplyAllowedUpdates(list)
    /\ LET conflict == pending \in Pollers /\ poll[pending].phase \in TaskRunning
       IN  /\ poll' = [q \in Pollers |->
                IF q = p
                THEN [phase |-> "created", offset |-> offset, result |-> {}]
                ELSE IF conflict /\ q = pending
                     THEN [poll[q] EXCEPT !.phase = "cancelling"]
                     ELSE poll[q]]
           /\ preempted' = preempted \cup (IF conflict THEN {pending} ELSE {})
    /\ pending' = p
    /\ UNCHANGED <<nextId, updates, acked, webhook, waiter, hookVars>>

(* _get_updates of a bot that has a webhook: refused before anything changes. *)
GetUpdatesRefused(p) ==
    /\ poll[p].phase \in Answered
    /\ webhook
    /\ poll' = [poll EXCEPT ![p] = Unanswered("conflict")]
    /\ UNCHANGED <<botVars, pending, preempted, waiter, hookVars>>

(* The first step of take_updates: the only place where an offset confirms. *)
TaskStart(p) ==
    /\ poll[p].phase = "created"
    /\ Ack(poll[p].offset)
    /\ LET found == Pending(poll[p].offset)
       IN  \/ poll' = [poll EXCEPT ![p].phase = "done", ![p].result = found]
           \/ /\ found = {}
              /\ poll' = [poll EXCEPT ![p].phase = "waiting"]
    /\ UNCHANGED <<nextId, updates, webhook, subscription, cutoff, pending, preempted,
                   hookVars>>

(* take_updates resumes because _arrived was set. *)
TaskWake(p) ==
    /\ poll[p].phase = "woken"
    /\ LET found == Pending(poll[p].offset)
       IN  IF found # {}
           THEN poll' = [poll EXCEPT ![p].phase = "done", ![p].result = found]
           ELSE poll' = [poll EXCEPT ![p].phase = "waiting"]
    /\ UNCHANGED <<botVars, pending, preempted, waiter, hookVars>>

\* Fault: TimeoutError starts take_updates again.
TaskExpireAgain(p) ==
    /\ poll[p].phase \in {"waiting", "woken"}
    /\ poll' = [poll EXCEPT ![p].phase = "created"]
    /\ UNCHANGED <<botVars, pending, preempted, waiter, hookVars>>

(* The long poll's deadline: an empty list, even if an update has just come. *)
TaskExpire(p) ==
    /\ poll[p].phase \in {"waiting", "woken"}
    /\ poll' = [poll EXCEPT ![p].phase = "done"]
    /\ UNCHANGED <<botVars, pending, preempted, waiter, hookVars>>

(* CancelledError is raised in the task. *)
TaskCancelled(p) ==
    /\ poll[p].phase = "cancelling"
    /\ poll' = [poll EXCEPT ![p].phase = "cancelled"]
    /\ UNCHANGED <<botVars, pending, preempted, waiter, hookVars>>

(* The client or the server drops the request: the handler is cancelled,   *)
(* and with it the task it awaits.  A task that is done keeps its result,  *)
(* but the handler raises all the same.                                    *)
ClientGone(p) ==
    /\ \/ /\ poll[p].phase \in LivePhases
          /\ poll' = [poll EXCEPT ![p].phase = "cancelling"]
       \/ /\ poll[p].phase = "done"
          /\ poll' = [poll EXCEPT ![p].phase = "cancelled", ![p].result = {}]
    /\ UNCHANGED <<botVars, pending, preempted, waiter, hookVars>>

\* Fault: the slot is cleared whoever holds it.
PendingCleared(p) == NoPoll

\* `finally`: a newer request keeps the slot it has taken.
PendingAfter(p) == IF pending = p THEN NoPoll ELSE pending

\* Fault: the mark survives the request.
PreemptedKept(p) == preempted

PreemptedAfter(p) == preempted \ {p}

\* Fault: the CancelledError of a preempted task leaves the handler without an answer.
ResumeUnlessPreempted(p) ==
    /\ poll[p].phase \in {"done", "cancelled"} /\ p \notin preempted
    /\ poll' = [poll EXCEPT ![p].phase = IF @ = "done" THEN "ok" ELSE "gone"]
    /\ pending' = PendingAfter(p)
    /\ UNCHANGED <<botVars, preempted, waiter, hookVars>>

(* The handler resumes after `await task`, its `finally` included. *)
HandlerResume(p) ==
    /\ \/ /\ poll[p].phase = "done"
          /\ poll' = [poll EXCEPT ![p].phase = "ok",
                                  ![p].result = {u \in @ : Visible(u)}]
          /\ UNCHANGED preempted
       \/ /\ poll[p].phase = "cancelled"
          /\ poll' = [poll EXCEPT ![p] =
                        Unanswered(IF p \in preempted THEN "conflict" ELSE "gone")]
          /\ preempted' = PreemptedAfter(p)
    /\ pending' = PendingAfter(p)
    /\ UNCHANGED <<botVars, waiter, hookVars>>

(* setWebhook, and deleteWebhook (the same handler without a url). *)
SetWebhook(url, list) ==
    /\ webhook' = url
    /\ ApplyAllowedUpdates(list)
    /\ UNCHANGED <<nextId, updates, acked, pollVars, waiter, hookVars>>

(* _deliver_webhook up to the POST: the subscription is read only now. *)
HookStart(h) ==
    /\ h.phase = "scheduled"
    /\ hooks' = (hooks \ {h}) \cup (IF Visible(h) THEN {[h EXCEPT !.phase = "posting"]}
                                                 ELSE {})
    /\ UNCHANGED <<botVars, pollVars, waiter, hookFailed>>

(* The POST ends.  Its failure is only recorded: there is no second try. *)
HookEnd(h, delivered) ==
    /\ h.phase = "posting"
    /\ hooks' = hooks \ {h}
    /\ hookFailed' = (hookFailed \/ ~delivered)
    /\ UNCHANGED <<botVars, pollVars, waiter>>

(* wait_acked up to its first suspension. *)
WaitAcked(w, id) ==
    /\ waiter[w].phase \in {"idle", "true", "false"}
    /\ \/ waiter' = [waiter EXCEPT ![w] =
                [phase |-> IF acked >= id THEN "true" ELSE "waiting", id |-> id]]
       \/ /\ acked < id
          /\ waiter' = [waiter EXCEPT ![w] = [phase |-> "false", id |-> id]]
    /\ UNCHANGED <<botVars, pollVars, hookVars>>

(* wait_acked resumes because _acked was set. *)
WaiterWake(w) ==
    /\ waiter[w].phase = "woken"
    /\ waiter' = [waiter EXCEPT ![w].phase =
                        IF acked >= waiter[w].id THEN "true" ELSE "waiting"]
    /\ UNCHANGED <<botVars, pollVars, hookVars>>

\* Fault: the waiter's TimeoutError restarts the loop.
WaiterExpireAgain(w) ==
    /\ waiter[w].phase \in {"waiting", "woken"}
    /\ waiter' = [waiter EXCEPT ![w].phase = IF @ = "waiting" THEN "woken" ELSE "waiting"]
    /\ UNCHANGED <<botVars, pollVars, hookVars>>

(* wait_acked's deadline: False, without looking at acked again. *)
WaiterExpire(w) ==
    /\ waiter[w].phase \in {"waiting", "woken"}
    /\ waiter' = [waiter EXCEPT ![w].phase = "false"]
    /\ UNCHANGED <<botVars, pollVars, hookVars>>

-----------------------------------------------------------------------------
PollStep(p) ==
    \/ TaskStart(p)
    \/ TaskWake(p)
    \/ TaskExpire(p)
    \/ TaskCancelled(p)
    \/ HandlerResume(p)

Next ==
    \/ \E kind \in Kinds : PushUpdate(kind)
    \/ \E p \in Pollers, offset \in Offsets, list \in AllowedUpdates \cup {NotGiven} :
            GetUpdates(p, offset, list)
    \/ \E p \in Pollers : GetUpdatesRefused(p) \/ PollStep(p) \/ ClientGone(p)
    \/ \E url \in BOOLEAN, list \in AllowedUpdates \cup {NotGiven} : SetWebhook(url, list)
    \/ \E h \in hooks : HookStart(h) \/ \E delivered \in BOOLEAN : HookEnd(h, delivered)
    \/ \E w \in Waiters :
            \/ \E id \in 1 .. nextId - 1 : WaitAcked(w, id)
            \/ WaiterWake(w)
            \/ WaiterExpire(w)

Spec == Init /\ [][Next]_vars

(* The event loop runs every ready task and fires every timer: a suspended *)
(* poll or waiter reaches its deadline even if it is woken again and again.*)
FairPoll(p) == WF_vars(PollStep(p)) /\ WF_vars(TaskExpire(p))

FairWaiter(w) == WF_vars(WaiterWake(w)) /\ WF_vars(WaiterExpire(w))

Fairness == (\A p \in Pollers : FairPoll(p)) /\ (\A w \in Waiters : FairWaiter(w))

FairSpec == Spec /\ Fairness

-----------------------------------------------------------------------------
\* At most one request is still reading, the one pending_getupdates names.
SingleLivePoll ==
    \A p \in Pollers : poll[p].phase \in LivePhases => pending = p

\* A request marked for a 409 is being refused, and not yet answered.
PreemptedInFlight ==
    \A p \in preempted : poll[p].phase \in {"cancelling", "cancelled"} /\ pending # p

(* Of all the requests that share the queue at most one is still reading   *)
(* it, and it is the one pending_getupdates names: a newer getUpdates has  *)
(* cancelled every other (bot_api.py:734-749).  A request marked for a 409 *)
(* is being cancelled, was replaced by a newer one, and is unmarked when   *)
(* it is answered: the mark never outlives the request.                    *)
PollsTakeTurns == SingleLivePoll /\ PreemptedInFlight

\* Shown by the subscription in its own right, not because it is below the cutoff.
Subscribed(u) == u.id >= cutoff /\ KindAllowed(u.kind, subscription)

\* A suspended long poll has nothing to return.  Updates below the cutoff are excepted:
\* a new subscription uncovers them without waking anyone.
NoMissedUpdate ==
    \A p \in Pollers : poll[p].phase = "waiting" =>
        \A u \in updates : u.id >= poll[p].offset => ~Subscribed(u)

\* A caller suspended in wait_acked still has to wait, and one that was told True stays right.
WaitersAreRight ==
    \A w \in Waiters :
        /\ waiter[w].phase = "waiting" => acked < waiter[w].id
        /\ waiter[w].phase = "true" => acked >= waiter[w].id

(* No lost wake-up: nobody sleeps through what it waits for, whatever was  *)
(* pushed or acknowledged, and whoever cleared _arrived or the event of    *)
(* the acks since it looked (network.py:735-756, 765-780).                 *)
NoLostWakeUp == NoMissedUpdate /\ WaitersAreRight

(* An answer has no gap: a bot that confirms the last id it was given      *)
(* confirms no update it subscribed to and was not given.  The list is     *)
(* computed in the task and filtered again in the handler; pushes,         *)
(* subscriptions and other requests may come in between.                   *)
NoSkippedUpdate ==
    \A p \in Pollers : \A last \in poll[p].result : \A u \in updates :
        poll[p].offset <= u.id /\ u.id < last.id /\ Subscribed(u) => u \in poll[p].result

(* An id is given out once, and its update goes to the queue or to the     *)
(* webhook, never to both (network.py:676-689).                            *)
OneRoute ==
    /\ \A u \in updates : u.id < nextId
    /\ \A h \in hooks : h.id < nextId
    /\ \A u \in updates, h \in hooks : u.id # h.id
    /\ \A u, v \in updates : u.id = v.id => u = v

\* "Changing the subscription does not swallow what is already queued" (network.py:58).
VisibleStaysVisible ==
    [][\A u \in updates : Visible(u) => u \in updates' /\ Visible(u)']_vars

\* A confirmed update stays confirmed (network.py:735-739).
AckNeverRetreats == [][acked' >= acked]_vars

\* What a bot would be shown, who reads it now, and the last list made for each request.
Shown == {u \in updates : Visible(u)}

Reader ==
    {[who |-> p, from |-> poll[p].offset, begun |-> poll[p].phase # "created"] :
        p \in {q \in Pollers : poll[q].phase \in LivePhases}}

Given ==
    [p \in Pollers |-> IF poll[p].phase \in {"done", "ok"} THEN poll[p].result ELSE {}]

Stream == INSTANCE UpdateStream WITH
    Readers   <- Pollers,
    next      <- nextId,
    queue     <- updates,
    shown     <- Shown,
    confirmed <- acked,
    reader    <- Reader,
    given     <- Given

(* The queue with its two coroutines for each request keeps the promise of *)
(* a stream with one reader: what was shown stays shown, whatever bots     *)
(* subscribe to in between ("Changing the subscription does not swallow    *)
(* what is already queued", network.py:58); an answer is all that is shown *)
(* from its offset on, and the handler's second filter takes nothing from  *)
(* it (bot_api.py:750); a newer request takes over from an older one; what *)
(* is confirmed stays so, though older offsets may run later.              *)
ImplementsStream == Stream!Spec

\* No request is stuck: its handler or its task has a step, a suspended one its deadline.
NoStuckRequest ==
    /\ \A p \in Pollers :
        /\ poll[p].phase \in InFlight => ENABLED <<PollStep(p)>>_vars
        /\ poll[p].phase \in {"waiting", "woken"} => ENABLED <<TaskExpire(p)>>_vars
    /\ \A w \in Waiters :
        waiter[w].phase \in {"waiting", "woken"} => ENABLED <<WaiterExpire(w)>>_vars

EveryPollAnswered ==
    \A p \in Pollers : poll[p].phase \in InFlight ~> poll[p].phase \in Answered

EveryWaiterAnswered ==
    \A w \in Waiters :
        waiter[w].phase \in {"waiting", "woken"} ~> waiter[w].phase \in {"true", "false"}

(* Every getUpdates request is answered, those included that a newer one   *)
(* preempted or whose client is gone, and wait_acked always returns.       *)
EveryRequestAnswered == EveryPollAnswered /\ EveryWaiterAnswered

=============================================================================
