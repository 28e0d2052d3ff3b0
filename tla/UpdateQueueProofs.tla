------------------------- MODULE UpdateQueueProofs -------------------------
(***************************************************************************)
(* UpdateQueue for any number of requests, waiters, kinds and updates.     *)
(***************************************************************************)
EXTENDS UpdateQueue, TLAPS

-----------------------------------------------------------------------------
(* Type correctness. *)

LEMMA UnansweredType ==
    ASSUME NEW phase \in Answered
    PROVE  Unanswered(phase) \in Request
BY DEF Unanswered, Request

LEMMA InitTypeOK == Init => TypeOK
<1> SUFFICES ASSUME Init
             PROVE  TypeOK
  OBVIOUS
<1>1. poll \in [Pollers -> Request]
  BY UnansweredType DEF Init, Answered
<1>2. waiter \in [Waiters -> [phase : WaitPhases, id : Nat]]
  BY DEF Init, WaitPhases
<1>3. nextId \in Nat \ {0} /\ acked \in Nat /\ cutoff \in Nat
  BY DEF Init
<1>4. subscription \in AllowedUpdates
  BY DEF Init, AllowedUpdates
<1>5. QED
  BY <1>1, <1>2, <1>3, <1>4, Zenon DEF Init, TypeOK

LEMMA AckType ==
    ASSUME TypeOK, NEW offset \in Nat, Ack(offset)
    PROVE  /\ acked' \in Nat
           /\ waiter' \in [Waiters -> [phase : WaitPhases, id : Nat]]
<1>1. CASE offset - 1 > acked
  BY <1>1 DEF Ack, WakeWaiters, WaitPhases, TypeOK
<1>2. CASE ~(offset - 1 > acked)
  BY <1>2 DEF Ack, TypeOK
<1>3. QED
  BY <1>1, <1>2

LEMMA ApplyType ==
    ASSUME TypeOK, NEW list \in AllowedUpdates \cup {NotGiven}, ApplyAllowedUpdates(list)
    PROVE  subscription' \in AllowedUpdates /\ cutoff' \in Nat
BY DEF ApplyAllowedUpdates, TypeOK

LEMMA NextTypeOK == TypeOK /\ [Next]_vars => TypeOK'
<1> SUFFICES ASSUME TypeOK, [Next]_vars
             PROVE  TypeOK'
  OBVIOUS
<1> USE DEF botVars, pollVars, hookVars
<1>1. ASSUME NEW kind \in Kinds, PushUpdate(kind)
      PROVE  TypeOK'
  <2>1. nextId' \in Nat \ {0} /\ [id |-> nextId, kind |-> kind] \in Update
    BY <1>1 DEF PushUpdate, TypeOK, Update
  <2>2. WakePolls \in [Pollers -> Request]
    BY DEF WakePolls, TypeOK, Request, InFlight, TaskRunning, LivePhases
  <2>3. [id |-> nextId, kind |-> kind, phase |-> "scheduled"] \in Hook
    BY <1>1 DEF TypeOK, Hook
  <2>4. QED
    BY <1>1, <2>1, <2>2, <2>3 DEF PushUpdate, TypeOK
<1>2. ASSUME NEW p \in Pollers, NEW offset \in Offsets,
             NEW list \in AllowedUpdates \cup {NotGiven}, GetUpdates(p, offset, list)
      PROVE  TypeOK'
  <2>1. subscription' \in AllowedUpdates /\ cutoff' \in Nat
    BY <1>2, ApplyType DEF GetUpdates
  <2>2. [phase |-> "created", offset |-> offset, result |-> {}] \in Request
    BY OffsetsAssumption DEF Request, InFlight, TaskRunning, LivePhases
  <2>3. \A q \in Pollers : poll[q] \in Request /\ [poll[q] EXCEPT !.phase = "cancelling"] \in Request
    BY DEF TypeOK, Request, InFlight, TaskRunning
  <2>4. poll' \in [Pollers -> Request]
    BY <1>2, <2>2, <2>3 DEF GetUpdates
  <2>5. QED
    BY <1>2, <2>1, <2>4 DEF GetUpdates, TypeOK
<1>3. ASSUME NEW p \in Pollers, GetUpdatesRefused(p)
      PROVE  TypeOK'
  BY <1>3 DEF GetUpdatesRefused, TypeOK, Unanswered, Request, Answered
<1>4. ASSUME NEW p \in Pollers, TaskStart(p)
      PROVE  TypeOK'
  <2>1. poll[p].offset \in Nat
    BY DEF TypeOK, Request
  <2>2. acked' \in Nat /\ waiter' \in [Waiters -> [phase : WaitPhases, id : Nat]]
    BY <1>4, <2>1, AckType DEF TaskStart
  <2>3. Pending(poll[p].offset) \in SUBSET Update
    BY DEF Pending, TypeOK
  <2>4. poll' \in [Pollers -> Request]
    BY <1>4, <2>3 DEF TaskStart, TypeOK, Request, InFlight, TaskRunning, LivePhases
  <2>5. QED
    BY <1>4, <2>2, <2>4 DEF TaskStart, TypeOK
<1>5. ASSUME NEW p \in Pollers, TaskWake(p)
      PROVE  TypeOK'
  <2>1. Pending(poll[p].offset) \in SUBSET Update
    BY DEF Pending, TypeOK
  <2>2. poll' \in [Pollers -> Request]
    BY <1>5, <2>1 DEF TaskWake, TypeOK, Request, InFlight, TaskRunning, LivePhases
  <2>3. QED
    BY <1>5, <2>2 DEF TaskWake, TypeOK
<1>6. ASSUME NEW p \in Pollers, TaskExpire(p) \/ TaskCancelled(p) \/ ClientGone(p)
      PROVE  TypeOK'
  BY <1>6 DEF TaskExpire, TaskCancelled, ClientGone, TypeOK, Request, InFlight, TaskRunning,
              LivePhases
<1>7. ASSUME NEW p \in Pollers, HandlerResume(p)
      PROVE  TypeOK'
  <2>1. poll' \in [Pollers -> Request]
    BY <1>7 DEF HandlerResume, TypeOK, Unanswered, Request, InFlight, Answered
  <2>2. preempted' \subseteq Pollers /\ pending' \in Pollers \cup {NoPoll}
    BY <1>7 DEF HandlerResume, TypeOK, PreemptedAfter, PendingAfter
  <2>3. QED
    BY <1>7, <2>1, <2>2 DEF HandlerResume, TypeOK
<1>8. ASSUME NEW url \in BOOLEAN, NEW list \in AllowedUpdates \cup {NotGiven},
             SetWebhook(url, list)
      PROVE  TypeOK'
  BY <1>8, ApplyType DEF SetWebhook, TypeOK
<1>9. ASSUME NEW h \in hooks, HookStart(h)
      PROVE  TypeOK'
  <2>1. [h EXCEPT !.phase = "posting"] \in Hook
    BY DEF TypeOK, Hook
  <2>2. QED
    BY <1>9, <2>1 DEF HookStart, TypeOK
<1>10. ASSUME NEW h \in hooks, NEW delivered \in BOOLEAN, HookEnd(h, delivered)
       PROVE  TypeOK'
  BY <1>10 DEF HookEnd, TypeOK
<1>11. ASSUME NEW w \in Waiters, NEW id \in 1 .. nextId - 1, WaitAcked(w, id)
       PROVE  TypeOK'
  <2>1. id \in Nat
    BY DEF TypeOK
  <2>2. QED
    BY <1>11, <2>1 DEF WaitAcked, TypeOK, WaitPhases
<1>12. ASSUME NEW w \in Waiters, WaiterWake(w) \/ WaiterExpire(w)
       PROVE  TypeOK'
  BY <1>12 DEF WaiterWake, WaiterExpire, TypeOK, WaitPhases
<1>13. CASE UNCHANGED vars
  BY <1>13 DEF vars, TypeOK
<1>14. QED
  BY <1>1, <1>2, <1>3, <1>4, <1>5, <1>6, <1>7, <1>8, <1>9, <1>10, <1>11, <1>12, <1>13
  DEF Next, PollStep

(* Every variable of the runtime has its type in every reachable state.    *)
THEOREM TypeCorrect == Spec => []TypeOK
BY InitTypeOK, NextTypeOK, PTL DEF Spec

-----------------------------------------------------------------------------
(* One live poll at a time, and the marks of the preempted ones.           *)

LEMMA PollStepInv == TypeOK /\ PollsTakeTurns /\ [Next]_vars => PollsTakeTurns'
<1> SUFFICES ASSUME TypeOK, PollsTakeTurns, [Next]_vars
             PROVE  PollsTakeTurns'
  OBVIOUS
<1> USE DEF botVars, pollVars, hookVars, PollsTakeTurns, SingleLivePoll, PreemptedInFlight, LivePhases
<1>1. ASSUME NEW kind \in Kinds, PushUpdate(kind)
      PROVE  PollsTakeTurns'
  <2>1. \A q \in Pollers :
            \/ poll'[q].phase = poll[q].phase
            \/ poll[q].phase = "waiting" /\ poll'[q].phase = "woken"
    BY <1>1 DEF PushUpdate, WakePolls, TypeOK, Request
  <2>2. QED
    BY <1>1, <2>1 DEF PushUpdate, TypeOK
<1>2. ASSUME NEW p \in Pollers, NEW offset \in Offsets,
             NEW list \in AllowedUpdates \cup {NotGiven}, GetUpdates(p, offset, list)
      PROVE  PollsTakeTurns'
  <2> DEFINE conflict == pending \in Pollers /\ poll[pending].phase \in TaskRunning
  <2>1. /\ poll'[p].phase = "created"
        /\ \A q \in Pollers \ {p} :
            poll'[q].phase = IF conflict /\ q = pending THEN "cancelling" ELSE poll[q].phase
    BY <1>2 DEF GetUpdates, TypeOK, Request
  <2>2. poll[p].phase \notin TaskRunning \cup {"cancelled"}
    BY <1>2 DEF GetUpdates, Answered, TaskRunning
  <2>3. SingleLivePoll'
    <3>1. ASSUME NEW q \in Pollers, q # p
          PROVE  poll'[q].phase \notin LivePhases
      BY <2>1, <3>1 DEF TaskRunning
    <3>2. QED
      BY <1>2, <3>1 DEF GetUpdates
  <2>4. PreemptedInFlight'
    <3>1. ASSUME NEW q \in preempted
          PROVE  poll'[q].phase \in {"cancelling", "cancelled"} /\ q # p
      BY <2>1, <2>2, <3>1 DEF TypeOK, TaskRunning
    <3>2. ASSUME conflict
          PROVE  poll'[pending].phase = "cancelling" /\ pending # p
      BY <2>1, <2>2, <3>2
    <3>3. QED
      BY <1>2, <3>1, <3>2 DEF GetUpdates
  <2>5. QED
    BY <2>3, <2>4
<1>3. ASSUME NEW p \in Pollers, GetUpdatesRefused(p)
      PROVE  PollsTakeTurns'
  BY <1>3 DEF GetUpdatesRefused, TypeOK, Unanswered, Answered
<1>4. ASSUME NEW p \in Pollers,
             TaskStart(p) \/ TaskWake(p) \/ TaskExpire(p) \/ TaskCancelled(p) \/ ClientGone(p)
      PROVE  PollsTakeTurns'
  <2>1. /\ pending' = pending
        /\ preempted' = preempted
        /\ \A q \in Pollers \ {p} : poll'[q].phase = poll[q].phase
    BY <1>4 DEF TaskStart, TaskWake, TaskExpire, TaskCancelled, ClientGone, TypeOK, Request
  <2>2. /\ poll'[p].phase \in LivePhases => poll[p].phase \in LivePhases
        /\ poll[p].phase = "cancelling" => poll'[p].phase = "cancelled"
        /\ poll[p].phase # "cancelled"
    BY <1>4 DEF TaskStart, TaskWake, TaskExpire, TaskCancelled, ClientGone, TypeOK, Request
  <2>3. QED
    BY <2>1, <2>2 DEF TypeOK
<1>5. ASSUME NEW p \in Pollers, HandlerResume(p)
      PROVE  PollsTakeTurns'
  <2>1. /\ poll[p].phase \in {"done", "cancelled"}
        /\ poll'[p].phase \in Answered
        /\ \A q \in Pollers \ {p} : poll'[q].phase = poll[q].phase
    BY <1>5 DEF HandlerResume, TypeOK, Request, Unanswered, Answered
  <2>2. preempted' = preempted \ {p}
    BY <1>5 DEF HandlerResume, PreemptedAfter
  <2>3. pending' = IF pending = p THEN NoPoll ELSE pending
    BY <1>5 DEF HandlerResume, PendingAfter
  <2>4. QED
    BY <2>1, <2>2, <2>3, PollersAssumption DEF TypeOK, Answered
<1>6. ASSUME NEW url \in BOOLEAN, NEW list \in AllowedUpdates \cup {NotGiven},
             SetWebhook(url, list)
      PROVE  PollsTakeTurns'
  BY <1>6 DEF SetWebhook
<1>7. ASSUME NEW h \in hooks, HookStart(h) \/ \E delivered \in BOOLEAN : HookEnd(h, delivered)
      PROVE  PollsTakeTurns'
  BY <1>7 DEF HookStart, HookEnd
<1>8. ASSUME NEW w \in Waiters,
             \/ \E id \in 1 .. nextId - 1 : WaitAcked(w, id)
             \/ WaiterWake(w) \/ WaiterExpire(w)
      PROVE  PollsTakeTurns'
  BY <1>8 DEF WaitAcked, WaiterWake, WaiterExpire
<1>9. CASE UNCHANGED vars
  BY <1>9 DEF vars
<1>10. QED
  BY <1>1, <1>2, <1>3, <1>4, <1>5, <1>6, <1>7, <1>8, <1>9 DEF Next, PollStep

(* A newer getUpdates has cancelled every older one: however requests,     *)
(* cancellations and disconnections interleave, at most one task reads the *)
(* queue, pending_getupdates names it, and the set of preempted tasks      *)
(* holds only requests that are being refused.                             *)
THEOREM OneLivePoll == Spec => []PollsTakeTurns
<1>1. Init => PollsTakeTurns
  BY DEF Init, Unanswered, PollsTakeTurns, SingleLivePoll, PreemptedInFlight, LivePhases
<1>2. QED
  BY <1>1, PollStepInv, TypeCorrect, PTL DEF Spec

-----------------------------------------------------------------------------
(* Ids are given out once.                                                 *)

LEMMA OneRouteStep == TypeOK /\ OneRoute /\ [Next]_vars => OneRoute'
<1> SUFFICES ASSUME TypeOK, OneRoute, [Next]_vars
             PROVE  OneRoute'
  OBVIOUS
<1> USE DEF botVars, pollVars, hookVars
<1>1. ASSUME NEW kind \in Kinds, PushUpdate(kind)
      PROVE  OneRoute'
  <2>1. /\ nextId' = nextId + 1
        /\ \A u \in updates : u.id \in Nat /\ u.id < nextId
        /\ \A h \in hooks : h.id \in Nat /\ h.id < nextId
    BY <1>1 DEF PushUpdate, OneRoute, TypeOK, Update, Hook
  <2>2. CASE webhook
    BY <1>1, <2>1, <2>2 DEF PushUpdate, OneRoute, TypeOK
  <2>3. CASE ~webhook
    BY <1>1, <2>1, <2>3 DEF PushUpdate, OneRoute, TypeOK
  <2>4. QED
    BY <2>2, <2>3
<1>2. ASSUME NEW p \in Pollers,
             \/ GetUpdatesRefused(p) \/ ClientGone(p) \/ PollStep(p)
             \/ \E offset \in Offsets, list \in AllowedUpdates \cup {NotGiven} :
                    GetUpdates(p, offset, list)
      PROVE  UNCHANGED <<nextId, updates, hooks>>
  BY <1>2 DEF GetUpdates, GetUpdatesRefused, ClientGone, PollStep, TaskStart, TaskWake,
              TaskExpire, TaskCancelled, HandlerResume
<1>3. ASSUME NEW url \in BOOLEAN, NEW list \in AllowedUpdates \cup {NotGiven},
             SetWebhook(url, list)
      PROVE  UNCHANGED <<nextId, updates, hooks>>
  BY <1>3 DEF SetWebhook
<1>4. ASSUME NEW w \in Waiters,
             \/ \E id \in 1 .. nextId - 1 : WaitAcked(w, id)
             \/ WaiterWake(w) \/ WaiterExpire(w)
      PROVE  UNCHANGED <<nextId, updates, hooks>>
  BY <1>4 DEF WaitAcked, WaiterWake, WaiterExpire
<1>5. ASSUME UNCHANGED <<nextId, updates, hooks>>
      PROVE  OneRoute'
  BY <1>5 DEF OneRoute
<1>6. ASSUME NEW h \in hooks, HookStart(h)
      PROVE  OneRoute'
  <2>1. \A g \in hooks' : g.id \in {k.id : k \in hooks}
    BY <1>6 DEF HookStart, TypeOK, Hook
  <2>2. UNCHANGED <<nextId, updates>>
    BY <1>6 DEF HookStart
  <2>3. QED
    BY <2>1, <2>2 DEF OneRoute
<1>7. ASSUME NEW h \in hooks, NEW delivered \in BOOLEAN, HookEnd(h, delivered)
      PROVE  OneRoute'
  BY <1>7 DEF HookEnd, OneRoute
<1>8. CASE UNCHANGED vars
  BY <1>5, <1>8 DEF vars
<1>9. QED
  BY <1>1, <1>2, <1>3, <1>4, <1>5, <1>6, <1>7, <1>8 DEF Next

(* An update id is given out once, to the queue or to the webhook.         *)
THEOREM UpdatesHaveOneRoute == Spec => []OneRoute
<1>1. Init => OneRoute
  BY DEF Init, OneRoute
<1>2. QED
  BY <1>1, OneRouteStep, TypeCorrect, PTL DEF Spec

-----------------------------------------------------------------------------
(* What a suspended poll and an answer leave out.  A result is made of     *)
(* queued updates, so that no later update is below the last of them.      *)

ResultQueued == \A p \in Pollers : poll[p].result \subseteq updates

DeliveryInv == ResultQueued /\ NoMissedUpdate /\ NoSkippedUpdate

LEMMA NewSubscription ==
    ASSUME TypeOK, OneRoute, NEW list \in AllowedUpdates \cup {NotGiven},
           ApplyAllowedUpdates(list), updates' = updates,
           NEW u \in updates
    PROVE  /\ Subscribed(u)' => Subscribed(u)
           /\ Visible(u) => Visible(u)'
<1>1. CASE list \in {NotGiven, subscription}
  BY <1>1 DEF ApplyAllowedUpdates, Visible, Subscribed
<1>2. CASE list \notin {NotGiven, subscription}
  <2>1. cutoff' = nextId /\ u.id < nextId /\ nextId \in Nat /\ u.id \in Nat
    BY <1>2 DEF ApplyAllowedUpdates, OneRoute, TypeOK, Update
  <2>2. QED
    BY <2>1 DEF Visible, Subscribed
<1>3. QED
  BY <1>1, <1>2

(* Changing the subscription swallows nothing that is already queued       *)
(* (network.py:58).                                                        *)
THEOREM SubscriptionKeepsVisible == Spec => VisibleStaysVisible
<1>1. TypeOK /\ OneRoute /\ [Next]_vars =>
        [\A u \in updates : Visible(u) => u \in updates' /\ Visible(u)']_vars
  <2> SUFFICES ASSUME TypeOK, OneRoute, Next, NEW u \in updates, Visible(u)
               PROVE  u \in updates' /\ Visible(u)'
    OBVIOUS
  <2> USE DEF botVars, pollVars, hookVars
  <2>1. ASSUME NEW kind \in Kinds, PushUpdate(kind)
        PROVE  u \in updates' /\ Visible(u)'
    BY <2>1 DEF PushUpdate, Visible
  <2>2. ASSUME NEW p \in Pollers, NEW offset \in Offsets,
               NEW list \in AllowedUpdates \cup {NotGiven}, GetUpdates(p, offset, list)
        PROVE  u \in updates' /\ Visible(u)'
    BY <2>2, NewSubscription DEF GetUpdates
  <2>3. ASSUME NEW url \in BOOLEAN, NEW list \in AllowedUpdates \cup {NotGiven},
               SetWebhook(url, list)
        PROVE  u \in updates' /\ Visible(u)'
    BY <2>3, NewSubscription DEF SetWebhook
  <2>4. ASSUME UNCHANGED <<updates, subscription, cutoff>>
        PROVE  u \in updates' /\ Visible(u)'
    BY <2>4 DEF Visible
  <2>5. ASSUME NEW p \in Pollers, GetUpdatesRefused(p) \/ ClientGone(p) \/ PollStep(p)
        PROVE  UNCHANGED <<updates, subscription, cutoff>>
    BY <2>5 DEF GetUpdatesRefused, ClientGone, PollStep, TaskStart, TaskWake, TaskExpire,
                TaskCancelled, HandlerResume
  <2>6. ASSUME NEW h \in hooks, HookStart(h) \/ \E delivered \in BOOLEAN : HookEnd(h, delivered)
        PROVE  UNCHANGED <<updates, subscription, cutoff>>
    BY <2>6 DEF HookStart, HookEnd
  <2>7. ASSUME NEW w \in Waiters,
               \/ \E id \in 1 .. nextId - 1 : WaitAcked(w, id)
               \/ WaiterWake(w) \/ WaiterExpire(w)
        PROVE  UNCHANGED <<updates, subscription, cutoff>>
    BY <2>7 DEF WaitAcked, WaiterWake, WaiterExpire
  <2>8. QED
    BY <2>1, <2>2, <2>3, <2>4, <2>5, <2>6, <2>7 DEF Next
<1>2. QED
  BY <1>1, TypeCorrect, UpdatesHaveOneRoute, PTL DEF Spec, VisibleStaysVisible

\* A step that leaves the queue and the subscription alone changes what is due to no one.
LEMMA DeliveryKept ==
    ASSUME TypeOK, DeliveryInv, UNCHANGED <<updates, subscription, cutoff>>,
           \A q \in Pollers :
                \/ poll'[q] = poll[q]
                \/ /\ poll'[q].phase # "waiting"
                   /\ \/ poll'[q].result = {}
                      \/ /\ poll'[q].result = poll[q].result
                         /\ poll'[q].offset = poll[q].offset
    PROVE  DeliveryInv'
<1> USE DEF DeliveryInv
<1>1. ResultQueued'
  BY DEF ResultQueued
<1>2. NoMissedUpdate'
  BY DEF NoMissedUpdate, Subscribed
<1>3. NoSkippedUpdate'
  BY DEF NoSkippedUpdate, Subscribed
<1>4. QED
  BY <1>1, <1>2, <1>3

\* A task that looks at the queue takes all there is, or suspends with nothing to take.
LEMMA DeliveryLook ==
    ASSUME TypeOK, OneRoute, DeliveryInv, UNCHANGED <<updates, subscription, cutoff>>,
           NEW p \in Pollers,
           \A q \in Pollers \ {p} : poll'[q] = poll[q],
           poll'[p].offset = poll[p].offset,
           \/ /\ poll'[p].phase = "done"
              /\ poll'[p].result = Pending(poll[p].offset)
           \/ /\ Pending(poll[p].offset) = {}
              /\ poll'[p].result = poll[p].result
    PROVE  DeliveryInv'
<1> USE DEF DeliveryInv
<1>1. \A u \in updates :
        u.id >= poll[p].offset /\ Subscribed(u) => u \in Pending(poll[p].offset)
  BY DEF Pending, Visible, Subscribed
<1>2. ResultQueued'
  BY DEF ResultQueued, Pending
<1>3. NoMissedUpdate'
  BY <1>1 DEF NoMissedUpdate, Subscribed
<1>4. NoSkippedUpdate'
  <2> SUFFICES ASSUME NEW q \in Pollers, NEW last \in poll'[q].result, NEW u \in updates,
                      poll'[q].offset <= u.id, u.id < last.id, Subscribed(u)
               PROVE  u \in poll'[q].result
    BY DEF NoSkippedUpdate, Subscribed
  <2>1. CASE q # p
    BY <2>1 DEF NoSkippedUpdate
  <2>2. CASE q = p
    <3>1. u.id \in Nat /\ poll[p].offset \in Nat
      BY DEF TypeOK, Update, Request
    <3>2. CASE poll'[p].result = Pending(poll[p].offset)
      BY <1>1, <2>2, <3>1, <3>2
    <3>3. CASE poll'[p].result = poll[p].result
      BY <2>2, <3>3 DEF NoSkippedUpdate
    <3>4. QED
      BY <3>2, <3>3
  <2>3. QED
    BY <2>1, <2>2
<1>5. QED
  BY <1>2, <1>3, <1>4

\* A subscription may change under the polls: it takes from what is due, it adds nothing.
LEMMA DeliveryResubscribed ==
    ASSUME TypeOK, OneRoute, DeliveryInv, updates' = updates,
           NEW list \in AllowedUpdates \cup {NotGiven}, ApplyAllowedUpdates(list),
           \A q \in Pollers :
                \/ poll'[q].phase = "created" /\ poll'[q].result = {}
                \/ /\ poll'[q].phase \in {poll[q].phase, "cancelling"}
                   /\ poll'[q].offset = poll[q].offset
                   /\ poll'[q].result = poll[q].result
    PROVE  DeliveryInv'
<1> USE DEF DeliveryInv
<1>1. \A u \in updates : Subscribed(u)' => Subscribed(u)
  BY NewSubscription
<1>2. ResultQueued'
  BY DEF ResultQueued
<1>3. NoMissedUpdate'
  <2> SUFFICES ASSUME NEW q \in Pollers, poll'[q].phase = "waiting",
                      NEW u \in updates, u.id >= poll'[q].offset, Subscribed(u)'
               PROVE  FALSE
    BY DEF NoMissedUpdate
  <2>1. poll[q].phase = "waiting" /\ poll'[q].offset = poll[q].offset
    OBVIOUS
  <2>2. QED
    BY <1>1, <2>1 DEF NoMissedUpdate
<1>4. NoSkippedUpdate'
  <2> SUFFICES ASSUME NEW q \in Pollers, NEW last \in poll'[q].result, NEW u \in updates,
                      poll'[q].offset <= u.id, u.id < last.id, Subscribed(u)'
               PROVE  u \in poll'[q].result
    BY DEF NoSkippedUpdate
  <2>1. poll'[q].offset = poll[q].offset /\ poll'[q].result = poll[q].result
    OBVIOUS
  <2>2. QED
    BY <1>1, <2>1 DEF NoSkippedUpdate
<1>5. QED
  BY <1>2, <1>3, <1>4

LEMMA DeliveryStep == TypeOK /\ OneRoute /\ DeliveryInv /\ [Next]_vars => DeliveryInv'
<1> SUFFICES ASSUME TypeOK, OneRoute, DeliveryInv, [Next]_vars
             PROVE  DeliveryInv'
  OBVIOUS
<1> USE DEF botVars, pollVars, hookVars
<1>1. ASSUME NEW kind \in Kinds, PushUpdate(kind), ~webhook
      PROVE  DeliveryInv'
  <2> DEFINE new == [id |-> nextId, kind |-> kind]
  <2>1. updates' = updates \cup {new} /\ UNCHANGED <<subscription, cutoff>>
    BY <1>1 DEF PushUpdate
  <2>2. \A q \in Pollers :
            /\ poll'[q].phase # "waiting"
            /\ poll'[q].offset = poll[q].offset
            /\ poll'[q].result = poll[q].result
    BY <1>1 DEF PushUpdate, WakePolls, TypeOK, Request
  <2>3. ResultQueued'
    BY <2>1, <2>2 DEF DeliveryInv, ResultQueued
  <2>4. NoMissedUpdate'
    BY <2>2 DEF NoMissedUpdate
  <2>5. NoSkippedUpdate'
    <3> SUFFICES ASSUME NEW q \in Pollers, NEW last \in poll[q].result, NEW u \in updates',
                        poll[q].offset <= u.id, u.id < last.id, Subscribed(u)
                 PROVE  u \in poll[q].result
      BY <2>1, <2>2 DEF NoSkippedUpdate, Subscribed
    <3>1. last.id < nextId /\ last.id \in Nat /\ nextId \in Nat
      BY DEF DeliveryInv, ResultQueued, OneRoute, TypeOK, Update
    <3>2. u # new
      BY <3>1
    <3>3. QED
      BY <2>1, <3>2 DEF DeliveryInv, NoSkippedUpdate
  <2>6. QED
    BY <2>3, <2>4, <2>5 DEF DeliveryInv
<1>2. ASSUME NEW kind \in Kinds, PushUpdate(kind), webhook
      PROVE  DeliveryInv'
  BY <1>2, DeliveryKept DEF PushUpdate
<1>3. ASSUME NEW p \in Pollers, NEW offset \in Offsets,
             NEW list \in AllowedUpdates \cup {NotGiven}, GetUpdates(p, offset, list)
      PROVE  DeliveryInv'
  <2>1. \A q \in Pollers :
            \/ poll'[q].phase = "created" /\ poll'[q].result = {}
            \/ /\ poll'[q].phase \in {poll[q].phase, "cancelling"}
               /\ poll'[q].offset = poll[q].offset
               /\ poll'[q].result = poll[q].result
    BY <1>3 DEF GetUpdates, TypeOK, Request
  <2>2. updates' = updates /\ ApplyAllowedUpdates(list)
    BY <1>3 DEF GetUpdates
  <2>3. QED
    BY <2>1, <2>2, DeliveryResubscribed
<1>4. ASSUME NEW url \in BOOLEAN, NEW list \in AllowedUpdates \cup {NotGiven},
             SetWebhook(url, list)
      PROVE  DeliveryInv'
  BY <1>4, DeliveryResubscribed DEF SetWebhook
<1>5. ASSUME NEW p \in Pollers, TaskStart(p) \/ TaskWake(p)
      PROVE  DeliveryInv'
  <2>1. /\ UNCHANGED <<updates, subscription, cutoff>>
        /\ \A q \in Pollers \ {p} : poll'[q] = poll[q]
        /\ poll'[p].offset = poll[p].offset
        /\ \/ /\ poll'[p].phase = "done"
              /\ poll'[p].result = Pending(poll[p].offset)
           \/ /\ Pending(poll[p].offset) = {}
              /\ poll'[p].result = poll[p].result
    BY <1>5 DEF TaskStart, TaskWake, TypeOK, Request
  <2>2. QED
    BY <2>1, DeliveryLook
<1>6. ASSUME NEW p \in Pollers,
             GetUpdatesRefused(p) \/ TaskExpire(p) \/ TaskCancelled(p) \/ ClientGone(p)
      PROVE  DeliveryInv'
  <2>1. /\ UNCHANGED <<updates, subscription, cutoff>>
        /\ \A q \in Pollers \ {p} : poll'[q] = poll[q]
    BY <1>6 DEF GetUpdatesRefused, TaskExpire, TaskCancelled, ClientGone, TypeOK
  <2>2. /\ poll'[p].phase # "waiting"
        /\ \/ poll'[p].result = {}
           \/ /\ poll'[p].result = poll[p].result
              /\ poll'[p].offset = poll[p].offset
    BY <1>6 DEF GetUpdatesRefused, TaskExpire, TaskCancelled, ClientGone, TypeOK, Request,
                Unanswered
  <2>3. QED
    BY <2>1, <2>2, DeliveryKept
<1>7. ASSUME NEW p \in Pollers, HandlerResume(p)
      PROVE  DeliveryInv'
  <2>1. CASE poll[p].phase = "cancelled"
    <3>1. /\ UNCHANGED <<updates, subscription, cutoff>>
          /\ \A q \in Pollers \ {p} : poll'[q] = poll[q]
          /\ poll'[p].phase # "waiting" /\ poll'[p].result = {}
      BY <1>7, <2>1 DEF HandlerResume, TypeOK, Request, Unanswered
    <3>2. QED
      BY <3>1, DeliveryKept
  <2>2. CASE poll[p].phase = "done"
    <3>1. /\ UNCHANGED <<updates, subscription, cutoff>>
          /\ \A q \in Pollers \ {p} : poll'[q] = poll[q]
          /\ poll'[p].phase = "ok"
          /\ poll'[p].offset = poll[p].offset
          /\ poll'[p].result = {u \in poll[p].result : Visible(u)}
      BY <1>7, <2>2 DEF HandlerResume, TypeOK, Request
    <3>2. ResultQueued'
      BY <3>1 DEF DeliveryInv, ResultQueued
    <3>3. NoMissedUpdate'
      BY <3>1 DEF DeliveryInv, NoMissedUpdate, Subscribed
    <3>4. NoSkippedUpdate'
      <4> SUFFICES ASSUME NEW q \in Pollers, NEW last \in poll'[q].result, NEW u \in updates,
                          poll'[q].offset <= u.id, u.id < last.id, Subscribed(u)
                   PROVE  u \in poll'[q].result
        BY <3>1 DEF NoSkippedUpdate, Subscribed
      <4>1. u \in poll[q].result
        BY <3>1 DEF DeliveryInv, NoSkippedUpdate
      <4>2. QED
        BY <3>1, <4>1 DEF Visible, Subscribed
    <3>5. QED
      BY <3>2, <3>3, <3>4 DEF DeliveryInv
  <2>3. QED
    BY <1>7, <2>1, <2>2 DEF HandlerResume
<1>8. ASSUME UNCHANGED <<updates, subscription, cutoff, poll>>
      PROVE  DeliveryInv'
  BY <1>8, DeliveryKept
<1>9. ASSUME NEW h \in hooks, HookStart(h) \/ \E delivered \in BOOLEAN : HookEnd(h, delivered)
      PROVE  UNCHANGED <<updates, subscription, cutoff, poll>>
  BY <1>9 DEF HookStart, HookEnd
<1>10. ASSUME NEW w \in Waiters,
              \/ \E id \in 1 .. nextId - 1 : WaitAcked(w, id)
              \/ WaiterWake(w) \/ WaiterExpire(w)
       PROVE  UNCHANGED <<updates, subscription, cutoff, poll>>
  BY <1>10 DEF WaitAcked, WaiterWake, WaiterExpire
<1>11. CASE UNCHANGED vars
  BY <1>8, <1>11 DEF vars
<1>12. QED
  BY <1>1, <1>2, <1>3, <1>4, <1>5, <1>6, <1>7, <1>8, <1>9, <1>10, <1>11 DEF Next, PollStep

LEMMA DeliveryInvariant == Spec => []DeliveryInv
<1>1. Init => DeliveryInv
  BY DEF Init, Unanswered, DeliveryInv, ResultQueued, NoMissedUpdate, NoSkippedUpdate
<1>2. QED
  BY <1>1, DeliveryStep, TypeCorrect, UpdatesHaveOneRoute, PTL DEF Spec

LEMMA PollsMissNothing == Spec => []NoMissedUpdate
<1>1. DeliveryInv => NoMissedUpdate
  BY DEF DeliveryInv
<1>2. QED
  BY <1>1, DeliveryInvariant, PTL

(* A bot that confirms the last update of an answer loses none it          *)
(* subscribed to.                                                          *)
THEOREM AnswersHaveNoGap == Spec => []NoSkippedUpdate
<1>1. DeliveryInv => NoSkippedUpdate
  BY DEF DeliveryInv
<1>2. QED
  BY <1>1, DeliveryInvariant, PTL

-----------------------------------------------------------------------------
(* Acknowledgements and those who wait for them.                           *)

LEMMA AckWakes ==
    ASSUME TypeOK, WaitersAreRight, NEW offset \in Nat, Ack(offset)
    PROVE  acked' >= acked /\ WaitersAreRight'
<1>1. CASE offset - 1 > acked
  <2>1. acked' = offset - 1 /\ acked \in Nat
    BY <1>1 DEF Ack, TypeOK
  <2>2. \A w \in Waiters :
            /\ waiter'[w].id = waiter[w].id
            /\ waiter'[w].phase # "waiting"
            /\ waiter'[w].phase = "true" => waiter[w].phase = "true"
    BY <1>1 DEF Ack, WakeWaiters, TypeOK
  <2>3. \A w \in Waiters : waiter[w].id \in Nat
    BY DEF TypeOK
  <2>4. QED
    BY <1>1, <2>1, <2>2, <2>3 DEF WaitersAreRight
<1>2. CASE ~(offset - 1 > acked)
  BY <1>2 DEF Ack, TypeOK, WaitersAreRight
<1>3. QED
  BY <1>1, <1>2

LEMMA WaitersStep ==
    TypeOK /\ WaitersAreRight /\ [Next]_vars => WaitersAreRight' /\ acked' >= acked
<1> SUFFICES ASSUME TypeOK, WaitersAreRight, [Next]_vars
             PROVE  WaitersAreRight' /\ acked' >= acked
  OBVIOUS
<1> USE DEF botVars, pollVars, hookVars
<1>1. ASSUME UNCHANGED <<acked, waiter>>
      PROVE  WaitersAreRight' /\ acked' >= acked
  BY <1>1 DEF WaitersAreRight, TypeOK
<1>2. ASSUME NEW p \in Pollers, TaskStart(p)
      PROVE  WaitersAreRight' /\ acked' >= acked
  <2>1. poll[p].offset \in Nat
    BY DEF TypeOK, Request
  <2>2. QED
    BY <1>2, <2>1, AckWakes DEF TaskStart
<1>3. ASSUME NEW p \in Pollers,
             \/ TaskWake(p) \/ TaskExpire(p) \/ TaskCancelled(p) \/ HandlerResume(p)
             \/ ClientGone(p) \/ GetUpdatesRefused(p)
             \/ \E offset \in Offsets, list \in AllowedUpdates \cup {NotGiven} :
                    GetUpdates(p, offset, list)
      PROVE  UNCHANGED <<acked, waiter>>
  BY <1>3 DEF TaskWake, TaskExpire, TaskCancelled, HandlerResume, ClientGone,
              GetUpdatesRefused, GetUpdates
<1>4. ASSUME \/ \E kind \in Kinds : PushUpdate(kind)
             \/ \E url \in BOOLEAN, list \in AllowedUpdates \cup {NotGiven} :
                    SetWebhook(url, list)
             \/ \E h \in hooks : HookStart(h) \/ \E delivered \in BOOLEAN : HookEnd(h, delivered)
      PROVE  UNCHANGED <<acked, waiter>>
  BY <1>4 DEF PushUpdate, SetWebhook, HookStart, HookEnd
<1>5. ASSUME NEW w \in Waiters,
             \/ \E id \in 1 .. nextId - 1 : WaitAcked(w, id)
             \/ WaiterWake(w) \/ WaiterExpire(w)
      PROVE  WaitersAreRight' /\ acked' >= acked
  <2>1. acked' = acked /\ acked \in Nat
    BY <1>5 DEF WaitAcked, WaiterWake, WaiterExpire, TypeOK
  <2>2. \A v \in Waiters \ {w} : waiter'[v] = waiter[v]
    BY <1>5 DEF WaitAcked, WaiterWake, WaiterExpire, TypeOK
  <2>3. waiter'[w].phase = "waiting" => acked < waiter'[w].id
    BY <1>5 DEF WaitAcked, WaiterWake, WaiterExpire, TypeOK
  <2>4. waiter'[w].phase = "true" => acked >= waiter'[w].id
    BY <1>5 DEF WaitAcked, WaiterWake, WaiterExpire, TypeOK
  <2>5. QED
    BY <2>1, <2>2, <2>3, <2>4 DEF WaitersAreRight
<1>6. CASE UNCHANGED vars
  BY <1>1, <1>6 DEF vars
<1>7. QED
  BY <1>1, <1>2, <1>3, <1>4, <1>5, <1>6 DEF Next, PollStep

LEMMA WaitersNotForgotten == Spec => []WaitersAreRight
<1>1. Init => WaitersAreRight
  BY DEF Init, WaitersAreRight
<1>2. TypeOK /\ WaitersAreRight /\ [Next]_vars => WaitersAreRight'
  BY WaitersStep
<1>3. QED
  BY <1>1, <1>2, TypeCorrect, PTL DEF Spec

(* A suspended long poll has nothing to return, no one waits for what has  *)
(* already been acknowledged, and wait_acked says True only when it is so. *)
THEOREM EventsLoseNobody == Spec => []NoLostWakeUp
<1>1. NoMissedUpdate /\ WaitersAreRight => NoLostWakeUp
  BY DEF NoLostWakeUp
<1>2. QED
  BY <1>1, PollsMissNothing, WaitersNotForgotten, PTL

(* No request takes an acknowledgement back.                               *)
THEOREM AcknowledgedForGood == Spec => AckNeverRetreats
<1>1. TypeOK /\ WaitersAreRight /\ [Next]_vars => [acked' >= acked]_vars
  BY WaitersStep
<1>2. QED
  BY <1>1, TypeCorrect, WaitersNotForgotten, PTL DEF Spec, AckNeverRetreats

-----------------------------------------------------------------------------
(***************************************************************************)
(* UpdateQueue implements UpdateStream, for any number of requests, kinds, *)
(* subscriptions and updates.                                              *)
(*                                                                         *)
(* Two facts make the mapping work.  A live request has no list yet, so    *)
(* that leaving is leaving with nothing; and what a task has found stays   *)
(* visible, so that the handler's second filter is a stuttering step.      *)
(***************************************************************************)
ResultVisible == \A p \in Pollers : poll[p].result \subseteq Shown

LiveEmpty == \A p \in Pollers : poll[p].phase \in LivePhases => poll[p].result = {}

RInv == TypeOK /\ PollsTakeTurns /\ OneRoute /\ ResultVisible /\ LiveEmpty

\* No step takes anything from what is shown.
LEMMA ShownGrows ==
    ASSUME TypeOK, OneRoute, [Next]_vars
    PROVE  Shown \subseteq Shown' /\ updates \subseteq updates'
<1> USE DEF botVars, pollVars, hookVars, Shown
<1>1. ASSUME NEW kind \in Kinds, PushUpdate(kind)
      PROVE  Shown \subseteq Shown' /\ updates \subseteq updates'
  BY <1>1 DEF PushUpdate, Visible
<1>2. ASSUME NEW list \in AllowedUpdates \cup {NotGiven}, ApplyAllowedUpdates(list),
             updates' = updates
      PROVE  Shown \subseteq Shown' /\ updates \subseteq updates'
  BY <1>2, NewSubscription
<1>3. ASSUME UNCHANGED <<updates, subscription, cutoff>>
      PROVE  Shown \subseteq Shown' /\ updates \subseteq updates'
  BY <1>3 DEF Visible
<1>4. CASE \E p \in Pollers, offset \in Offsets, list \in AllowedUpdates \cup {NotGiven} :
              GetUpdates(p, offset, list)
  BY <1>2, <1>4 DEF GetUpdates
<1>5. CASE \E url \in BOOLEAN, list \in AllowedUpdates \cup {NotGiven} : SetWebhook(url, list)
  BY <1>2, <1>5 DEF SetWebhook
<1>6. ASSUME NEW p \in Pollers, GetUpdatesRefused(p) \/ ClientGone(p) \/ PollStep(p)
      PROVE  UNCHANGED <<updates, subscription, cutoff>>
  BY <1>6 DEF GetUpdatesRefused, ClientGone, PollStep, TaskStart, TaskWake, TaskExpire,
              TaskCancelled, HandlerResume
<1>7. ASSUME NEW h \in hooks, HookStart(h) \/ \E delivered \in BOOLEAN : HookEnd(h, delivered)
      PROVE  UNCHANGED <<updates, subscription, cutoff>>
  BY <1>7 DEF HookStart, HookEnd
<1>8. ASSUME NEW w \in Waiters,
             \/ \E id \in 1 .. nextId - 1 : WaitAcked(w, id)
             \/ WaiterWake(w) \/ WaiterExpire(w)
      PROVE  UNCHANGED <<updates, subscription, cutoff>>
  BY <1>8 DEF WaitAcked, WaiterWake, WaiterExpire
<1>9. CASE UNCHANGED vars
  BY <1>3, <1>9 DEF vars
<1>10. QED
  BY <1>1, <1>3, <1>4, <1>5, <1>6, <1>7, <1>8, <1>9 DEF Next

\* How the lists of the requests change, action by action.
LEMMA Results ==
    ASSUME TypeOK, LiveEmpty, [Next]_vars, NEW q \in Pollers
    PROVE  \/ poll'[q].result \subseteq poll[q].result
              /\ (poll'[q].phase \in LivePhases => poll'[q].result = {})
           \/ poll'[q].result = Pending(poll[q].offset) /\ poll'[q].phase = "done"
              /\ UNCHANGED <<updates, subscription, cutoff>>
<1> USE DEF botVars, pollVars, hookVars, LivePhases, LiveEmpty
<1>0. /\ poll \in [Pollers -> Request]
      /\ poll[q] \in Request
  BY DEF TypeOK
<1>1. ASSUME NEW kind \in Kinds, PushUpdate(kind)
      PROVE  /\ poll'[q].result = poll[q].result
             /\ poll'[q].phase = poll[q].phase \/ poll[q].phase = "waiting"
  BY <1>0, <1>1 DEF PushUpdate, WakePolls, Request
<1>2. ASSUME NEW p \in Pollers, NEW offset \in Offsets,
             NEW list \in AllowedUpdates \cup {NotGiven}, GetUpdates(p, offset, list)
      PROVE  \/ poll'[q].result = {}
             \/ poll'[q].result = poll[q].result /\ poll'[q].phase \in {poll[q].phase, "cancelling"}
  BY <1>0, <1>2 DEF GetUpdates, Request
<1>3. ASSUME NEW p \in Pollers, GetUpdatesRefused(p)
      PROVE  poll'[q] = poll[q] \/ poll'[q].result = {}
  BY <1>0, <1>3 DEF GetUpdatesRefused, Unanswered, Request
<1>4. ASSUME NEW p \in Pollers, TaskStart(p) \/ TaskWake(p)
      PROVE  \/ poll'[q].result = poll[q].result
                /\ (poll'[q].phase \in LivePhases => poll[q].phase \in LivePhases)
             \/ poll'[q].result = Pending(poll[q].offset) /\ poll'[q].phase = "done"
                /\ UNCHANGED <<updates, subscription, cutoff>>
  BY <1>0, <1>4 DEF TaskStart, TaskWake, Request
<1>5. ASSUME NEW p \in Pollers, TaskExpire(p) \/ TaskCancelled(p) \/ ClientGone(p)
      PROVE  /\ poll'[q].result \in {poll[q].result, {}}
             /\ poll'[q].phase \in LivePhases => poll[q].phase \in LivePhases
  BY <1>0, <1>5 DEF TaskExpire, TaskCancelled, ClientGone, Request
<1>6. ASSUME NEW p \in Pollers, HandlerResume(p)
      PROVE  /\ poll'[q].result \subseteq poll[q].result
             /\ poll'[q] = poll[q] \/ poll'[q].phase \in {"ok", "conflict", "gone"}
  BY <1>0, <1>6 DEF HandlerResume, Unanswered, Request
<1>7. ASSUME NEW url \in BOOLEAN, NEW list \in AllowedUpdates \cup {NotGiven},
             SetWebhook(url, list)
      PROVE  poll' = poll
  BY <1>7 DEF SetWebhook
<1>8. ASSUME NEW h \in hooks, HookStart(h) \/ \E delivered \in BOOLEAN : HookEnd(h, delivered)
      PROVE  poll' = poll
  BY <1>8 DEF HookStart, HookEnd
<1>9. ASSUME NEW w \in Waiters,
             \/ \E id \in 1 .. nextId - 1 : WaitAcked(w, id)
             \/ WaiterWake(w) \/ WaiterExpire(w)
      PROVE  poll' = poll
  BY <1>9 DEF WaitAcked, WaiterWake, WaiterExpire
<1>10. CASE UNCHANGED vars
  BY <1>10 DEF vars
<1>11. QED
  BY <1>1, <1>2, <1>3, <1>4, <1>5, <1>6, <1>7, <1>8, <1>9, <1>10 DEF Next, PollStep

LEMMA RInvariant == Spec => []RInv
<1>1. Init => ResultVisible /\ LiveEmpty
  BY DEF Init, Unanswered, ResultVisible, LiveEmpty
<1>2. TypeOK /\ OneRoute /\ ResultVisible /\ LiveEmpty /\ [Next]_vars
        => ResultVisible' /\ LiveEmpty'
  <2> SUFFICES ASSUME TypeOK, OneRoute, ResultVisible, LiveEmpty, [Next]_vars,
                      NEW q \in Pollers
               PROVE  /\ poll'[q].result \subseteq Shown'
                      /\ poll'[q].phase \in LivePhases => poll'[q].result = {}
    BY DEF ResultVisible, LiveEmpty
  <2>1. Shown \subseteq Shown'
    BY ShownGrows
  <2>2. CASE /\ poll'[q].result \subseteq poll[q].result
             /\ poll'[q].phase \in LivePhases => poll'[q].result = {}
    BY <2>1, <2>2 DEF ResultVisible
  <2>3. CASE /\ poll'[q].result = Pending(poll[q].offset) /\ poll'[q].phase = "done"
             /\ UNCHANGED <<updates, subscription, cutoff>>
    BY <2>1, <2>3 DEF Pending, Shown, LivePhases
  <2>4. QED
    BY <2>2, <2>3, Results
<1>3. QED
  BY <1>1, <1>2, TypeCorrect, OneLivePoll, UpdatesHaveOneRoute, PTL DEF Spec, RInv

-----------------------------------------------------------------------------
(* The mapped reader and the mapped answers.                               *)

LEMMA ReaderAlone ==
    ASSUME NEW p \in Pollers, PollsTakeTurns, poll[p].phase \in LivePhases
    PROVE  Reader = {[who |-> p, from |-> poll[p].offset, begun |-> poll[p].phase # "created"]}
<1>1. {q \in Pollers : poll[q].phase \in LivePhases} = {p}
  BY DEF PollsTakeTurns, SingleLivePoll
<1>2. QED
  BY <1>1 DEF Reader

LEMMA NextReaderAlone ==
    ASSUME NEW p \in Pollers, PollsTakeTurns', poll'[p].phase \in LivePhases
    PROVE  Reader' = {[who |-> p, from |-> poll'[p].offset, begun |-> poll'[p].phase # "created"]}
<1>1. {q \in Pollers : poll'[q].phase \in LivePhases} = {p}
  BY DEF PollsTakeTurns, SingleLivePoll
<1>2. QED
  BY <1>1 DEF Reader

LEMMA NextReaderNone ==
    ASSUME \A q \in Pollers : poll'[q].phase \notin LivePhases
    PROVE  Reader' = {}
BY DEF Reader

\* The reader is as it was if no request that is live, or becomes it, moves but from
\* one suspension to the other.
LEMMA ReaderKept ==
    ASSUME \A q \in Pollers :
                \/ poll'[q] = poll[q]
                \/ /\ poll[q].phase \notin LivePhases
                   /\ poll'[q].phase \notin LivePhases
                \/ /\ poll[q].phase \in {"waiting", "woken"}
                   /\ poll'[q].phase \in {"waiting", "woken"}
                   /\ poll'[q].offset = poll[q].offset
    PROVE  Reader' = Reader
<1> DEFINE of(q) == [who |-> q, from |-> poll[q].offset, begun |-> poll[q].phase # "created"]
           ofNext(q) == [who |-> q, from |-> poll'[q].offset, begun |-> poll'[q].phase # "created"]
           live == {q \in Pollers : poll[q].phase \in LivePhases}
           liveNext == {q \in Pollers : poll'[q].phase \in LivePhases}
<1>1. live = liveNext
  BY DEF LivePhases
<1>2. ASSUME NEW q \in live
      PROVE  of(q) = ofNext(q)
  BY <1>2 DEF LivePhases
<1>3. Reader = {of(q) : q \in live} /\ Reader' = {ofNext(q) : q \in liveNext}
  BY DEF Reader
<1> HIDE DEF of, ofNext, live, liveNext
<1>4. QED
  BY <1>1, <1>2, <1>3

LEMMA GivenKept ==
    ASSUME \A q \in Pollers :
                \/ poll'[q] = poll[q]
                \/ /\ poll[q].phase \notin {"done", "ok"} \/ poll[q].result = {}
                   /\ poll'[q].phase \notin {"done", "ok"} \/ poll'[q].result = {}
                \/ /\ poll[q].phase \in {"done", "ok"}
                   /\ poll'[q].phase \in {"done", "ok"}
                   /\ poll'[q].result = poll[q].result
    PROVE  Given' = Given
BY DEF Given

LEMMA GivenChanged ==
    ASSUME NEW p \in Pollers, \A q \in Pollers \ {p} : Given'[q] = Given[q]
    PROVE  Given' = [Given EXCEPT ![p] = Given'[p]]
BY DEF Given

\* A change of the subscription shows more of the queue.
LEMMA MoreShown ==
    ASSUME Shown \subseteq Shown', updates' = updates
    PROVE  Stream!More
<1> DEFINE more == Shown' \ Shown
<1>1. Shown' \subseteq updates
  BY DEF Shown
<1>2. more \in SUBSET (updates \ Shown) /\ Shown' = Shown \cup more
  BY <1>1
<1>3. QED
  BY <1>2 DEF Stream!More

-----------------------------------------------------------------------------
(* Each action is an action of the stream, or nothing.                     *)

LEMMA PushPublishes ==
    ASSUME RInv, NEW kind \in Kinds, PushUpdate(kind)
    PROVE  Stream!Publish
<1> DEFINE update == [id |-> nextId, kind |-> kind]
<1>1. /\ nextId' = nextId + 1 /\ acked' = acked
      /\ UNCHANGED <<subscription, cutoff>>
  BY DEF PushUpdate
<1>2. Given' = Given
  <2>1. \A q \in Pollers :
            \/ poll'[q] = poll[q]
            \/ /\ poll[q].phase \notin {"done", "ok"}
               /\ poll'[q].phase \notin {"done", "ok"}
    BY DEF PushUpdate, WakePolls, RInv, TypeOK, Request
  <2>2. QED
    BY <2>1, GivenKept
<1>3. Reader' = Reader
  <2>1. \A q \in Pollers :
            \/ poll'[q] = poll[q]
            \/ /\ poll[q].phase \in {"waiting", "woken"}
               /\ poll'[q].phase \in {"waiting", "woken"}
               /\ poll'[q].offset = poll[q].offset
    BY DEF PushUpdate, WakePolls, RInv, TypeOK, Request
  <2>2. QED
    BY <2>1, ReaderKept
<1>4. CASE webhook
  <2>1. updates' = updates
    BY <1>4 DEF PushUpdate
  <2>2. Shown' = Shown
    BY <1>1, <2>1 DEF Shown, Visible
  <2>3. QED
    BY <1>1, <1>2, <1>3, <2>1, <2>2 DEF Stream!Publish
<1>5. CASE ~webhook
  <2>1. updates' = updates \cup {update}
    BY <1>5 DEF PushUpdate
  <2>2. \A u : Visible(u)' = Visible(u)
    BY <1>1 DEF Visible
  <2>3. Shown' \in {Shown, Shown \cup {update}}
    BY <2>1, <2>2 DEF Shown
  <2> HIDE DEF update
  <2>4. QED
    BY <1>1, <1>2, <1>3, <2>1, <2>3 DEF Stream!Publish, update
<1>6. QED
  BY <1>4, <1>5

LEMMA GetUpdatesAsks ==
    ASSUME RInv, RInv', [Next]_vars, NEW p \in Pollers, NEW offset \in Offsets,
           NEW list \in AllowedUpdates \cup {NotGiven}, GetUpdates(p, offset, list)
    PROVE  Stream!Ask(p)
<1>1. UNCHANGED <<nextId, updates, acked>>
  BY DEF GetUpdates
<1>2. poll'[p] = [phase |-> "created", offset |-> offset, result |-> {}]
  BY DEF GetUpdates, RInv, TypeOK
<1>3. Reader' = {[who |-> p, from |-> offset, begun |-> FALSE]}
  <2>1. PollsTakeTurns' /\ poll'[p].phase \in LivePhases
    BY <1>2 DEF RInv, LivePhases
  <2>2. Reader' = {[who |-> p, from |-> poll'[p].offset, begun |-> poll'[p].phase # "created"]}
    BY <2>1, NextReaderAlone
  <2>3. poll'[p].offset = offset /\ (poll'[p].phase # "created") = FALSE
    BY <1>2
  <2>4. QED
    BY <2>2, <2>3
<1>4. Given' = [Given EXCEPT ![p] = {}]
  <2>1. ASSUME NEW q \in Pollers \ {p}
        PROVE  Given'[q] = Given[q]
    <3>1. \/ poll'[q] = poll[q]
          \/ poll[q].phase \in TaskRunning /\ poll'[q].phase = "cancelling"
      BY DEF GetUpdates, RInv, TypeOK, Request
    <3>2. QED
      BY <3>1 DEF Given, TaskRunning, LivePhases
  <2>2. Given'[p] = {}
    BY <1>2 DEF Given
  <2>3. QED
    BY <2>1, <2>2, GivenChanged
<1>5. Stream!More
  BY <1>1, ShownGrows, MoreShown DEF RInv
<1>6. QED
  BY <1>1, <1>3, <1>4, <1>5 DEF Stream!Ask

LEMMA TaskLooks ==
    ASSUME RInv, RInv', NEW p \in Pollers, TaskStart(p) \/ TaskWake(p)
    PROVE  \E r \in Reader : Stream!Look(r)
<1> DEFINE r == [who |-> p, from |-> poll[p].offset, begun |-> poll[p].phase # "created"]
<1>1. /\ UNCHANGED <<nextId, updates, subscription, cutoff>>
      /\ \A q \in Pollers \ {p} : poll'[q] = poll[q]
      /\ poll[p].phase \in {"created", "woken"}
  BY DEF TaskStart, TaskWake, RInv, TypeOK, botVars
<1>2. Reader = {r}
  <2>1. PollsTakeTurns /\ poll[p].phase \in LivePhases
    BY <1>1 DEF RInv, LivePhases
  <2>2. QED
    BY <2>1, ReaderAlone
<1>3. Shown' = Shown
  BY <1>1 DEF Shown, Visible
<1>4. Pending(poll[p].offset) = {u \in Shown : u.id >= poll[p].offset}
  BY DEF Pending, Shown
<1>5. acked' = IF ~r.begun /\ r.from > acked + 1 THEN r.from - 1 ELSE acked
  <2>1. poll[p].offset \in Nat /\ acked \in Nat
    BY DEF RInv, TypeOK, Request
  <2>2. CASE TaskStart(p)
    <3>1. poll[p].phase = "created" /\ Ack(poll[p].offset)
      BY <2>2 DEF TaskStart
    <3>2. acked' = IF poll[p].offset - 1 > acked THEN poll[p].offset - 1 ELSE acked
      BY <3>1 DEF Ack
    <3>3. r.from = poll[p].offset /\ ~r.begun
      BY <3>1
    <3> HIDE DEF r
    <3>4. QED
      BY <2>1, <3>2, <3>3
  <2>3. CASE TaskWake(p)
    <3>1. poll[p].phase = "woken" /\ acked' = acked
      BY <2>3 DEF TaskWake, botVars
    <3>2. QED
      BY <3>1
  <2>4. QED
    BY <2>2, <2>3
<1>6. \A q \in Pollers \ {p} : poll[q].phase \notin LivePhases
  BY <1>1 DEF RInv, PollsTakeTurns, SingleLivePoll, LivePhases
<1>7. CASE poll'[p].phase = "done" /\ poll'[p].result = Pending(poll[p].offset)
  <2>1. Reader' = {}
    <3>1. \A q \in Pollers : poll'[q].phase \notin LivePhases
      BY <1>1, <1>6, <1>7 DEF LivePhases
    <3>2. QED
      BY <3>1, NextReaderNone
  <2>2. Given' = [Given EXCEPT ![p] = Pending(poll[p].offset)]
    BY <1>1, <1>7, GivenChanged DEF Given
  <2>3. Stream!Look(r)
    BY <1>1, <1>3, <1>4, <1>5, <2>1, <2>2 DEF Stream!Look, Stream!Due
  <2>4. QED
    BY <1>2, <2>3
<1>8. CASE /\ Pending(poll[p].offset) = {} /\ poll'[p].phase = "waiting"
           /\ poll'[p].offset = poll[p].offset
  <2>1. Reader' = {[who |-> p, from |-> poll[p].offset, begun |-> TRUE]}
    <3>1. PollsTakeTurns' /\ poll'[p].phase \in LivePhases
      BY <1>8 DEF RInv, LivePhases
    <3>2. Reader' = {[who |-> p, from |-> poll'[p].offset, begun |-> poll'[p].phase # "created"]}
      BY <3>1, NextReaderAlone
    <3>3. QED
      BY <1>8, <3>2
  <2>2. Given' = Given
    BY <1>1, <1>8, GivenKept
  <2>3. Stream!Look(r)
    BY <1>1, <1>3, <1>4, <1>5, <1>8, <2>1, <2>2 DEF Stream!Look, Stream!Due
  <2>4. QED
    BY <1>2, <2>3
<1>9. QED
  BY <1>7, <1>8 DEF TaskStart, TaskWake, RInv, TypeOK, Request

LEMMA LeavingWithNothing ==
    ASSUME RInv, NEW p \in Pollers, poll[p].phase \in LivePhases,
           \A q \in Pollers \ {p} : poll'[q] = poll[q],
           poll'[p].phase \in {"done", "cancelling"}, poll'[p].result = poll[p].result,
           UNCHANGED <<nextId, updates, subscription, cutoff, acked>>
    PROVE  Stream!Leave
<1>1. poll[p].result = {}
  BY DEF RInv, LiveEmpty
<1>2. Shown' = Shown
  BY DEF Shown, Visible
<1>3. Given' = Given
  BY <1>1, GivenKept DEF LivePhases
<1>4. \A q \in Pollers : poll'[q].phase \notin LivePhases
  BY DEF RInv, PollsTakeTurns, SingleLivePoll, LivePhases
<1>5. Reader' = {}
  BY <1>4, NextReaderNone
<1>6. QED
  BY <1>2, <1>3, <1>5 DEF Stream!Leave

\* A request that is not live loses the list it had.
LEMMA Losing ==
    ASSUME RInv, NEW p \in Pollers, poll[p].phase \notin LivePhases,
           \A q \in Pollers \ {p} : poll'[q] = poll[q],
           poll'[p].phase \notin LivePhases \cup {"done", "ok"},
           UNCHANGED <<nextId, updates, subscription, cutoff, acked>>
    PROVE  Stream!Lose(p)
<1>1. Shown' = Shown
  BY DEF Shown, Visible
<1>2. Reader' = Reader
  BY ReaderKept
<1>3. Given' = [Given EXCEPT ![p] = {}]
  BY GivenChanged DEF Given
<1>4. \A r \in Reader : r.who # p
  BY DEF Reader
<1>5. QED
  BY <1>1, <1>2, <1>3, <1>4 DEF Stream!Lose

LEMMA RefusedLoses ==
    ASSUME RInv, NEW p \in Pollers, GetUpdatesRefused(p)
    PROVE  Stream!Lose(p)
<1>1. /\ poll[p].phase \notin LivePhases
      /\ poll'[p].phase \notin LivePhases \cup {"done", "ok"}
      /\ \A q \in Pollers \ {p} : poll'[q] = poll[q]
  BY DEF GetUpdatesRefused, Answered, LivePhases, Unanswered, RInv, TypeOK
<1>2. UNCHANGED <<nextId, updates, subscription, cutoff, acked>>
  BY DEF GetUpdatesRefused, botVars
<1>3. QED
  BY <1>1, <1>2, Losing

LEMMA ExpiredLeaves ==
    ASSUME RInv, NEW p \in Pollers, TaskExpire(p)
    PROVE  Stream!Leave
<1>1. /\ poll[p].phase \in LivePhases
      /\ poll'[p].phase = "done" /\ poll'[p].result = poll[p].result
      /\ \A q \in Pollers \ {p} : poll'[q] = poll[q]
  BY DEF TaskExpire, LivePhases, RInv, TypeOK, Request
<1>2. UNCHANGED <<nextId, updates, subscription, cutoff, acked>>
  BY DEF TaskExpire, botVars
<1>3. QED
  BY <1>1, <1>2, LeavingWithNothing

LEMMA GoneLeavesOrLoses ==
    ASSUME RInv, NEW p \in Pollers, ClientGone(p)
    PROVE  Stream!Leave \/ Stream!Lose(p)
<1>1. UNCHANGED <<nextId, updates, subscription, cutoff, acked>>
  BY DEF ClientGone, botVars
<1>2. CASE poll[p].phase \in LivePhases
  <2>1. /\ poll'[p].phase = "cancelling" /\ poll'[p].result = poll[p].result
        /\ \A q \in Pollers \ {p} : poll'[q] = poll[q]
    BY <1>2 DEF ClientGone, LivePhases, RInv, TypeOK, Request
  <2>2. QED
    BY <1>1, <1>2, <2>1, LeavingWithNothing
<1>3. CASE poll[p].phase = "done"
  <2>1. /\ poll[p].phase \notin LivePhases
        /\ poll'[p].phase \notin LivePhases \cup {"done", "ok"}
        /\ \A q \in Pollers \ {p} : poll'[q] = poll[q]
    BY <1>3 DEF ClientGone, LivePhases, RInv, TypeOK, Request
  <2>2. QED
    BY <1>1, <2>1, Losing
<1>4. QED
  BY <1>2, <1>3 DEF ClientGone

\* The handler's filter finds nothing to take from a list.
LEMMA HandlerStutters ==
    ASSUME RInv, NEW p \in Pollers, HandlerResume(p) \/ TaskCancelled(p)
    PROVE  UNCHANGED <<nextId, updates, Shown, acked, Reader, Given>>
<1>1. UNCHANGED <<nextId, updates, subscription, cutoff, acked>>
  BY DEF HandlerResume, TaskCancelled, botVars
<1>2. Shown' = Shown /\ \A u : Visible(u)' = Visible(u)
  BY <1>1 DEF Shown, Visible
<1>3. \A u \in poll[p].result : Visible(u)
  BY DEF RInv, ResultVisible, Shown
<1>4. \/ /\ poll[p].phase = "done" /\ poll'[p].phase = "ok"
         /\ poll'[p].result = poll[p].result
      \/ /\ poll[p].phase \in {"cancelled", "cancelling"}
         /\ poll'[p].phase \in {"conflict", "gone", "cancelled"}
  <2>1. CASE TaskCancelled(p)
    BY <2>1 DEF TaskCancelled, RInv, TypeOK, Request
  <2>2. CASE HandlerResume(p) /\ poll[p].phase = "done"
    <3>1. /\ poll'[p].phase = "ok"
          /\ poll'[p].result = {u \in poll[p].result : Visible(u)}
      BY <2>2 DEF HandlerResume, RInv, TypeOK, Request
    <3>2. QED
      BY <1>3, <2>2, <3>1
  <2>3. CASE HandlerResume(p) /\ poll[p].phase = "cancelled"
    BY <2>3 DEF HandlerResume, Unanswered, RInv, TypeOK, Request
  <2>4. QED
    BY <2>1, <2>2, <2>3 DEF HandlerResume
<1>5. \A q \in Pollers \ {p} : poll'[q] = poll[q]
  BY DEF HandlerResume, TaskCancelled, RInv, TypeOK
<1>6. Reader' = Reader
  BY <1>4, <1>5, ReaderKept DEF LivePhases
<1>7. Given' = Given
  BY <1>4, <1>5, GivenKept
<1>8. QED
  BY <1>1, <1>2, <1>6, <1>7

LEMMA WebhookReveals ==
    ASSUME RInv, [Next]_vars, NEW url \in BOOLEAN, NEW list \in AllowedUpdates \cup {NotGiven},
           SetWebhook(url, list)
    PROVE  Stream!Reveal
<1>1. UNCHANGED <<nextId, updates, acked, poll>>
  BY DEF SetWebhook, pollVars
<1>2. Stream!More
  BY <1>1, ShownGrows, MoreShown DEF RInv
<1>3. Reader' = Reader /\ Given' = Given
  BY <1>1 DEF Reader, Given
<1>4. QED
  BY <1>1, <1>2, <1>3 DEF Stream!Reveal

LEMMA StepImplements == RInv /\ RInv' /\ [Next]_vars => [Stream!Next]_(Stream!vars)
<1> SUFFICES ASSUME RInv, RInv', [Next]_vars
             PROVE  Stream!Next \/ UNCHANGED <<nextId, updates, Shown, acked, Reader, Given>>
  BY DEF Stream!vars
<1>1. ASSUME NEW kind \in Kinds, PushUpdate(kind)
      PROVE  Stream!Next
  BY <1>1, PushPublishes DEF Stream!Next
<1>2. ASSUME NEW p \in Pollers, NEW offset \in Offsets,
             NEW list \in AllowedUpdates \cup {NotGiven}, GetUpdates(p, offset, list)
      PROVE  Stream!Next
  BY <1>2, GetUpdatesAsks DEF Stream!Next
<1>3. ASSUME NEW p \in Pollers, GetUpdatesRefused(p)
      PROVE  Stream!Next
  BY <1>3, RefusedLoses DEF Stream!Next
<1>4. ASSUME NEW p \in Pollers, TaskStart(p) \/ TaskWake(p)
      PROVE  Stream!Next
  BY <1>4, TaskLooks DEF Stream!Next
<1>5. ASSUME NEW p \in Pollers, TaskExpire(p)
      PROVE  Stream!Next
  BY <1>5, ExpiredLeaves DEF Stream!Next
<1>6. ASSUME NEW p \in Pollers, ClientGone(p)
      PROVE  Stream!Next
  BY <1>6, GoneLeavesOrLoses DEF Stream!Next
<1>7. ASSUME NEW p \in Pollers, HandlerResume(p) \/ TaskCancelled(p)
      PROVE  UNCHANGED <<nextId, updates, Shown, acked, Reader, Given>>
  BY <1>7, HandlerStutters
<1>8. ASSUME NEW url \in BOOLEAN, NEW list \in AllowedUpdates \cup {NotGiven},
             SetWebhook(url, list)
      PROVE  Stream!Next
  BY <1>8, WebhookReveals DEF Stream!Next
<1>9. ASSUME UNCHANGED <<nextId, updates, subscription, cutoff, acked, poll>>
      PROVE  UNCHANGED <<nextId, updates, Shown, acked, Reader, Given>>
  BY <1>9 DEF Shown, Visible, Reader, Given
<1>10. ASSUME NEW h \in hooks, HookStart(h) \/ \E delivered \in BOOLEAN : HookEnd(h, delivered)
       PROVE  UNCHANGED <<nextId, updates, subscription, cutoff, acked, poll>>
  BY <1>10 DEF HookStart, HookEnd, botVars, pollVars
<1>11. ASSUME NEW w \in Waiters,
              \/ \E id \in 1 .. nextId - 1 : WaitAcked(w, id)
              \/ WaiterWake(w) \/ WaiterExpire(w)
       PROVE  UNCHANGED <<nextId, updates, subscription, cutoff, acked, poll>>
  BY <1>11 DEF WaitAcked, WaiterWake, WaiterExpire, botVars, pollVars
<1>12. CASE UNCHANGED vars
  BY <1>9, <1>12 DEF vars, botVars, pollVars
<1>13. QED
  BY <1>1, <1>2, <1>3, <1>4, <1>5, <1>6, <1>7, <1>8, <1>9, <1>10, <1>11, <1>12
  DEF Next, PollStep

(* The runtime of a bot, with its two coroutines for every request,        *)
(* implements the stream with one reader.                                  *)
THEOREM QueueIsStream == Spec => ImplementsStream
<1>1. Init => Stream!Init
  <2> SUFFICES ASSUME Init
               PROVE  Stream!Init
    OBVIOUS
  <2>1. \A p \in Pollers : poll[p].phase = "idle"
    BY DEF Init, Unanswered
  <2>2. Reader = {} /\ Shown = {} /\ Given = [p \in Pollers |-> {}]
    BY <2>1 DEF Init, Reader, LivePhases, Shown, Given
  <2>3. QED
    BY <2>2 DEF Init, Stream!Init
<1>2. QED
  BY <1>1, RInvariant, StepImplements, PTL DEF Spec, ImplementsStream, Stream!Spec

-----------------------------------------------------------------------------
(***************************************************************************)
(* Every request is answered, for any number of requests and waiters.      *)
(*                                                                         *)
(* A request goes through its phases in one direction, but for the loop of *)
(* take_updates, which may be woken without end and is left through its    *)
(* deadline.  That a step of its own is always possible is ENABLED, which  *)
(* the prover does not know: it is the hypothesis []NoStuckRequest.        *)
(***************************************************************************)

\* Where the phase of a request may go in one step of anyone.
MayBecome ==
    [created    |-> {"done", "waiting", "cancelling"},
     waiting    |-> {"woken", "done", "cancelling"},
     woken      |-> {"waiting", "done", "cancelling"},
     cancelling |-> {"cancelled"},
     done       |-> {"ok", "cancelled"},
     cancelled  |-> {"conflict", "gone"}]

\* A newer request cancels what runs, and only that.
LEMMA PhasesMoveOn ==
    ASSUME NEW p \in Pollers, TypeOK, poll[p].phase \in InFlight, [Next]_vars
    PROVE  poll'[p].phase \in {poll[p].phase} \cup MayBecome[poll[p].phase]
<1> DEFINE Goal == poll'[p].phase \in {poll[p].phase} \cup MayBecome[poll[p].phase]
<1> USE DEF botVars, pollVars, hookVars, InFlight, TaskRunning, LivePhases, Answered
<1>0. poll \in [Pollers -> Request]
  BY DEF TypeOK
<1>1. ASSUME poll' = WakePolls
      PROVE  Goal
  BY <1>0, <1>1 DEF WakePolls, MayBecome, Request
<1>2. ASSUME NEW kind \in Kinds, PushUpdate(kind)
      PROVE  Goal
  BY <1>1, <1>2 DEF PushUpdate
<1>3. ASSUME NEW q \in Pollers, NEW offset \in Offsets, NEW list, GetUpdates(q, offset, list)
      PROVE  Goal
  BY <1>0, <1>3 DEF GetUpdates, MayBecome, Request
<1>4. ASSUME NEW q \in Pollers, GetUpdatesRefused(q)
      PROVE  Goal
  BY <1>0, <1>4 DEF GetUpdatesRefused
<1>5. ASSUME NEW q \in Pollers, PollStep(q) \/ ClientGone(q)
      PROVE  Goal
  <2>1. CASE TaskStart(q)
    BY <1>0, <2>1 DEF TaskStart, MayBecome, Request
  <2>2. CASE TaskWake(q)
    BY <1>0, <2>2 DEF TaskWake, MayBecome, Request
  <2>3. CASE TaskExpire(q)
    BY <1>0, <2>3 DEF TaskExpire, MayBecome, Request
  <2>4. CASE TaskCancelled(q)
    BY <1>0, <2>4 DEF TaskCancelled, MayBecome, Request
  <2>5. CASE HandlerResume(q)
    BY <1>0, <2>5 DEF HandlerResume, Unanswered, MayBecome, Request
  <2>6. CASE ClientGone(q)
    BY <1>0, <2>6 DEF ClientGone, MayBecome, Request
  <2>7. QED
    BY <1>5, <2>1, <2>2, <2>3, <2>4, <2>5, <2>6 DEF PollStep
<1>6. CASE UNCHANGED poll
  BY <1>6
<1>7. CASE \E url \in BOOLEAN, list \in AllowedUpdates \cup {NotGiven} : SetWebhook(url, list)
  BY <1>6, <1>7 DEF SetWebhook
<1>8. CASE \E h \in hooks : HookStart(h) \/ \E delivered \in BOOLEAN : HookEnd(h, delivered)
  BY <1>6, <1>8 DEF HookStart, HookEnd
<1>9. CASE \E w \in Waiters :
               (\E id \in 1 .. nextId - 1 : WaitAcked(w, id)) \/ WaiterWake(w) \/ WaiterExpire(w)
  BY <1>6, <1>9 DEF WaitAcked, WaiterWake, WaiterExpire
<1>10. CASE UNCHANGED vars
  BY <1>6, <1>10 DEF vars
<1>11. QED
  BY <1>2, <1>3, <1>4, <1>5, <1>7, <1>8, <1>9, <1>10 DEF Next

\* A step of the request itself leaves its phase.
LEMMA OwnStepLeaves ==
    ASSUME NEW p \in Pollers, TypeOK
    PROVE  /\ PollStep(p) => poll'[p].phase # poll[p].phase
           /\ TaskExpire(p) => poll'[p].phase = "done"
<1> USE DEF TypeOK, Request, InFlight, TaskRunning, LivePhases, Answered
<1>1. TaskStart(p) => poll'[p].phase # poll[p].phase
  BY DEF TaskStart
<1>2. TaskWake(p) => poll'[p].phase # poll[p].phase
  BY DEF TaskWake
<1>3. TaskExpire(p) => poll'[p].phase = "done" /\ poll[p].phase # "done"
  BY DEF TaskExpire
<1>4. TaskCancelled(p) => poll'[p].phase # poll[p].phase
  BY DEF TaskCancelled
<1>5. HandlerResume(p) => poll'[p].phase # poll[p].phase
  BY DEF HandlerResume, Unanswered
<1>6. QED
  BY <1>1, <1>2, <1>3, <1>4, <1>5 DEF PollStep

At(p, phases) == poll[p].phase \in phases

Leaves(p, phase) ==
    FairSpec /\ []NoStuckRequest => (At(p, {phase}) ~> At(p, MayBecome[phase]))

\* A phase that only leads on is left.
LEMMA PhaseIsLeft ==
    ASSUME NEW p \in Pollers, NEW phase \in {"created", "cancelling", "done", "cancelled"}
    PROVE  Leaves(p, phase)
<1>1. TypeOK /\ At(p, {phase}) /\ [Next]_vars => At(p, {phase})' \/ At(p, MayBecome[phase])'
  BY PhasesMoveOn DEF At, InFlight, TaskRunning, LivePhases
<1>2. TypeOK /\ At(p, {phase}) /\ [Next]_vars /\ <<PollStep(p)>>_vars
        => At(p, MayBecome[phase])'
  BY <1>1, OwnStepLeaves DEF At
<1>3. NoStuckRequest /\ At(p, {phase}) => ENABLED <<PollStep(p)>>_vars
  BY DEF NoStuckRequest, At, InFlight, TaskRunning, LivePhases
<1>4. FairSpec => FairPoll(p)
  BY DEF FairSpec, Fairness
<1>5. QED
  BY <1>1, <1>2, <1>3, <1>4, TypeCorrect, PTL DEF FairSpec, Spec, FairPoll, Leaves

\* However often it is woken, a suspended task gets to its deadline.
LEMMA LoopIsLeft ==
    ASSUME NEW p \in Pollers
    PROVE  FairSpec /\ []NoStuckRequest =>
             (At(p, {"waiting", "woken"}) ~> At(p, {"done", "cancelling"}))
<1>1. TypeOK /\ At(p, {"waiting", "woken"}) /\ [Next]_vars
        => At(p, {"waiting", "woken"})' \/ At(p, {"done", "cancelling"})'
  BY PhasesMoveOn DEF At, InFlight, TaskRunning, LivePhases, MayBecome
<1>2. TypeOK /\ At(p, {"waiting", "woken"}) /\ <<TaskExpire(p)>>_vars
        => At(p, {"done", "cancelling"})'
  BY OwnStepLeaves DEF At
<1>3. NoStuckRequest /\ At(p, {"waiting", "woken"}) => ENABLED <<TaskExpire(p)>>_vars
  BY DEF NoStuckRequest, At
<1>4. FairSpec => FairPoll(p)
  BY DEF FairSpec, Fairness
<1>5. QED
  BY <1>1, <1>2, <1>3, <1>4, TypeCorrect, PTL DEF FairSpec, Spec, FairPoll

LEMMA PollIsAnswered ==
    ASSUME NEW p \in Pollers
    PROVE  FairSpec /\ []NoStuckRequest => (At(p, InFlight) ~> At(p, Answered))
<1>1. FairSpec /\ []NoStuckRequest =>
        (At(p, {"created"}) ~> At(p, {"waiting", "woken"}) \/ At(p, {"done"})
                                                        \/ At(p, {"cancelling"}))
  <2>1. At(p, MayBecome["created"]) =>
          At(p, {"waiting", "woken"}) \/ At(p, {"done"}) \/ At(p, {"cancelling"})
    BY DEF At, MayBecome
  <2>2. Leaves(p, "created")
    BY PhaseIsLeft
  <2>3. QED
    BY <2>1, <2>2, PTL DEF Leaves
<1>2. FairSpec /\ []NoStuckRequest => (At(p, {"cancelling"}) ~> At(p, {"cancelled"}))
  <2>1. At(p, MayBecome["cancelling"]) => At(p, {"cancelled"})
    BY DEF At, MayBecome
  <2>2. Leaves(p, "cancelling")
    BY PhaseIsLeft
  <2>3. QED
    BY <2>1, <2>2, PTL DEF Leaves
<1>3. FairSpec /\ []NoStuckRequest =>
        (At(p, {"done"}) ~> At(p, Answered) \/ At(p, {"cancelled"}))
  <2>1. At(p, MayBecome["done"]) => At(p, Answered) \/ At(p, {"cancelled"})
    BY DEF At, MayBecome, Answered
  <2>2. Leaves(p, "done")
    BY PhaseIsLeft
  <2>3. QED
    BY <2>1, <2>2, PTL DEF Leaves
<1>4. FairSpec /\ []NoStuckRequest => (At(p, {"cancelled"}) ~> At(p, Answered))
  <2>1. At(p, MayBecome["cancelled"]) => At(p, Answered)
    BY DEF At, MayBecome, Answered
  <2>2. Leaves(p, "cancelled")
    BY PhaseIsLeft
  <2>3. QED
    BY <2>1, <2>2, PTL DEF Leaves
<1>5. At(p, {"done", "cancelling"}) => At(p, {"done"}) \/ At(p, {"cancelling"})
  BY DEF At
<1>6. At(p, InFlight) =>
        At(p, {"created"}) \/ At(p, {"waiting", "woken"}) \/ At(p, {"done"})
          \/ At(p, {"cancelling"}) \/ At(p, {"cancelled"})
  BY DEF At, InFlight, TaskRunning, LivePhases
<1>7. QED
  BY <1>1, <1>2, <1>3, <1>4, <1>5, <1>6, LoopIsLeft, PTL

LEMMA WaiterIsAnswered ==
    ASSUME NEW w \in Waiters
    PROVE  FairSpec /\ []NoStuckRequest =>
             (waiter[w].phase \in {"waiting", "woken"} ~> waiter[w].phase \in {"true", "false"})
<1> DEFINE Waiting == waiter[w].phase \in {"waiting", "woken"}
           Told    == waiter[w].phase \in {"true", "false"}
<1>1. ASSUME TypeOK, Waiting, [Next]_vars
      PROVE  Waiting' \/ Told'
  <2>0. waiter \in [Waiters -> [phase : WaitPhases, id : Nat]]
    BY <1>1 DEF TypeOK
  <2>1. CASE waiter' = WakeWaiters \/ waiter' = waiter
    BY <1>1, <2>0, <2>1 DEF WakeWaiters
  <2>2. CASE \E v \in Waiters :
                 (\E id \in 1 .. nextId - 1 : WaitAcked(v, id)) \/ WaiterWake(v) \/ WaiterExpire(v)
    BY <1>1, <2>0, <2>2 DEF WaitAcked, WaiterWake, WaiterExpire
  <2>3. ASSUME NEW q \in Pollers, PollStep(q)
        PROVE  waiter' = WakeWaiters \/ waiter' = waiter
    BY <2>3 DEF PollStep, TaskStart, TaskWake, TaskExpire, TaskCancelled, HandlerResume, Ack
  <2>4. QED
    BY <1>1, <2>1, <2>2, <2>3 DEF Next, PushUpdate, GetUpdates, GetUpdatesRefused, ClientGone,
       SetWebhook, HookStart, HookEnd, vars
<1>2. TypeOK /\ Waiting /\ <<WaiterExpire(w)>>_vars => Told'
  BY DEF TypeOK, WaiterExpire
<1>3. NoStuckRequest /\ Waiting => ENABLED <<WaiterExpire(w)>>_vars
  BY DEF NoStuckRequest
<1>4. FairSpec => FairWaiter(w)
  BY DEF FairSpec, Fairness
<1>5. QED
  BY <1>1, <1>2, <1>3, <1>4, TypeCorrect, PTL DEF FairSpec, Spec, FairWaiter

(* Every getUpdates request and every wait_acked call ends, for any number *)
(* of them, as long as none is ever stuck.                                 *)
THEOREM RequestsAreAnswered == FairSpec /\ []NoStuckRequest => EveryRequestAnswered
<1> SUFFICES ASSUME FairSpec, []NoStuckRequest
             PROVE  EveryRequestAnswered
  OBVIOUS
<1>1. ASSUME NEW p \in Pollers
      PROVE  poll[p].phase \in InFlight ~> poll[p].phase \in Answered
  BY PollIsAnswered, PTL DEF At
<1>2. ASSUME NEW w \in Waiters
      PROVE  waiter[w].phase \in {"waiting", "woken"} ~> waiter[w].phase \in {"true", "false"}
  BY WaiterIsAnswered, PTL
<1>3. QED
  BY <1>1, <1>2 DEF EveryRequestAnswered, EveryPollAnswered, EveryWaiterAnswered

=============================================================================
