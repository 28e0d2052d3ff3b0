---------------------------- MODULE Conversation ----------------------------
(***************************************************************************)
(* A person's client and a bot in a private dialog: what send() and        *)
(* press_callback() conclude from the ack of an update and from the number *)
(* of messages in the feed (remote.RemoteUserClient, client.UserClient).   *)
(*                                                                         *)
(* The remote client counts, posts, waits and reads in four requests; the  *)
(* bot, another process, runs between any two of them.  UserClient counts  *)
(* and posts in one step, so its behaviours are among these.               *)
(*                                                                         *)
(* The bot keeps to the contract of the harness (network.py:45-48): it     *)
(* handles an update before it polls again, and it speaks only in its      *)
(* handlers.  What it says to an update is up to it.                       *)
(***************************************************************************)
EXTENDS Integers, FiniteSets

CONSTANTS
    MaxUpdates,   \* bound: messages and presses of the person
    MaxMessages   \* bound: the highest message id

ASSUME ConversationBounds == MaxUpdates \in Nat /\ MaxMessages \in Nat

VARIABLES
    thread,    \* Network.bot_chats of the person and the bot
    nextId,    \* BotRuntime._next_update_id
    acked,     \* BotRuntime.acked
    polling,   \* the bot waits in getUpdates
    taken,     \* the last update that getUpdates returned
    handled,   \* the last update whose handler returned
    said,      \* history: what the bot did in the dialog for each update
    client     \* the person's call: its phase and local variables

botVars == <<acked, polling, taken, handled>>
vars == <<thread, nextId, botVars, said, client>>

-----------------------------------------------------------------------------
Message == [id : 1 .. MaxMessages, bot : BOOLEAN, button : BOOLEAN]

Updates == 1 .. MaxUpdates

\* `missed` and `deleted` are history: a handler was still to run when the
\* call began; the bot took a message away since.  `acked` is what the wait
\* returned, `said` what the bot had done by the end of the call.
Call == [phase   : {"idle", "counted", "waiting", "reading", "screen", "silent",
                    "refused", "broken"},
         before  : Nat,
         target  : 0 .. MaxMessages,
         update  : Updates \cup {0},
         missed  : BOOLEAN,
         deleted : BOOLEAN,
         acked   : BOOLEAN,
         said    : SUBSET {"sent", "edited"}]

TypeOK ==
    /\ thread \subseteq Message
    /\ \A m, n \in thread : m.id = n.id => m = n
    /\ nextId \in 1 .. MaxUpdates + 1
    /\ acked \in 0 .. MaxUpdates /\ taken \in 0 .. MaxUpdates
    /\ handled \in 0 .. MaxUpdates
    /\ polling \in BOOLEAN
    /\ said \in [Updates -> SUBSET {"sent", "edited"}]
    /\ client \in Call

-----------------------------------------------------------------------------
\* Fault: the number of messages, plus one.
CountedId == Cardinality(thread) + 1

\* max(..., default=0) + 1
NextId ==
    IF thread = {} THEN 1
    ELSE 1 + (CHOOSE i \in {m.id : m \in thread} : \A m \in thread : m.id <= i)

\* Fault: the person's own messages are counted.
AllMessages == thread

\* messages(): the bot's.
BotMessages == {m \in thread : m.bot}

Post(bot, button) ==
    /\ NextId <= MaxMessages
    /\ thread' = thread \cup {[id |-> NextId, bot |-> bot, button |-> button]}

Push ==
    /\ nextId <= MaxUpdates
    /\ nextId' = nextId + 1

\* Calls that are over, and those whose caller did not wait.
AtRest == {"idle", "screen", "silent", "refused", "broken"}

-----------------------------------------------------------------------------
Init ==
    /\ thread = {}
    /\ nextId = 1
    /\ acked = 0 /\ taken = 0 /\ handled = 0
    /\ polling = FALSE
    /\ said = [u \in Updates |-> {}]
    /\ client = [phase |-> "idle", before |-> 0, target |-> 0, update |-> 0,
                 missed |-> FALSE, deleted |-> FALSE, acked |-> FALSE, said |-> {}]

(* before = len(messages()); a press picks the newest message that has the *)
(* button.                                                                 *)
Count ==
    /\ client.phase \in AtRest
    /\ nextId <= MaxUpdates /\ NextId <= MaxMessages
    /\ \E target \in {0} \cup {m.id : m \in {n \in BotMessages : n.button}} :
        /\ \A m \in BotMessages : target # 0 /\ m.button => m.id <= target
        /\ client' = [phase |-> "counted", before |-> Cardinality(BotMessages),
                      target |-> target, update |-> 0,
                      missed |-> handled # nextId - 1,
                      deleted |-> FALSE, acked |-> FALSE, said |-> {}]
    /\ UNCHANGED <<thread, nextId, botVars, said>>

(* POST .../messages (photos, documents): the message and its update.      *)
(* Without expect_reply the client sleeps and is done.                     *)
Send(wait) ==
    /\ client.phase = "counted" /\ client.target = 0
    /\ Post(FALSE, FALSE)
    /\ Push
    /\ client' = [client EXCEPT !.phase = IF wait THEN "waiting" ELSE "idle",
                                !.update = nextId]
    /\ UNCHANGED <<botVars, said>>

HasButton(id) == \E m \in thread : m.id = id /\ m.button

(* POST .../press: a callback query, if the button is still there. *)
Press ==
    /\ client.phase = "counted" /\ client.target # 0
    /\ HasButton(client.target)
    /\ Push
    /\ client' = [client EXCEPT !.phase = "waiting", !.update = nextId]
    /\ UNCHANGED <<thread, botVars, said>>

(* 400: the message or its button went away since the client looked. *)
PressRefused ==
    /\ client.phase = "counted" /\ client.target # 0
    /\ ~HasButton(client.target)
    /\ client' = [client EXCEPT !.phase = "refused"]
    /\ UNCHANGED <<thread, nextId, botVars, said>>

\* Fault: the messages are counted when the ack is there.
WaitAckedThenCount ==
    /\ client.phase = "waiting"
    /\ acked >= client.update
    /\ client' = [client EXCEPT !.phase = "reading", !.acked = TRUE,
                                !.before = Cardinality(BotMessages)]
    /\ UNCHANGED <<thread, nextId, botVars, said>>

(* GET .../acks: True once the bot acknowledged the update. *)
WaitAcked ==
    /\ client.phase = "waiting"
    /\ acked >= client.update
    /\ client' = [client EXCEPT !.phase = "reading", !.acked = TRUE]
    /\ UNCHANGED <<thread, nextId, botVars, said>>

(* False after the timeout, even if the ack came at the same moment; _wait  *)
(* does not look at it.                                                    *)
WaitTimesOut ==
    /\ client.phase = "waiting"
    /\ client' = [client EXCEPT !.phase = "reading"]
    /\ UNCHANGED <<thread, nextId, botVars, said>>

(* The HTTP client's own timeout (5 s unless it is set) ends the wait      *)
(* before the server's (10 s) does.                                        *)
WaitBreaks ==
    /\ client.phase = "waiting"
    /\ client' = [client EXCEPT !.phase = "broken"]
    /\ UNCHANGED <<thread, nextId, botVars, said>>

(* A screen when there are more messages than before, else BotSilentError. *)
Read ==
    /\ client.phase = "reading"
    /\ client' = [client EXCEPT
                    !.phase = IF Cardinality(BotMessages) > client.before
                              THEN "screen" ELSE "silent",
                    !.said = said[client.update]]
    /\ UNCHANGED <<thread, nextId, botVars, said>>

-----------------------------------------------------------------------------
(* getUpdates: its offset acknowledges all the bot has handled. *)
BotPoll ==
    /\ ~polling /\ handled = taken
    /\ polling' = TRUE
    /\ acked' = taken
    /\ UNCHANGED <<thread, nextId, taken, handled, said, client>>

\* Fault: what is handed out counts as acknowledged.
BotTakeAcks ==
    /\ polling /\ taken < nextId - 1
    /\ polling' = FALSE
    /\ taken' = nextId - 1
    /\ acked' = nextId - 1
    /\ UNCHANGED <<thread, nextId, handled, said, client>>

(* getUpdates returns every update from the offset on. *)
BotTake ==
    /\ polling /\ taken < nextId - 1
    /\ polling' = FALSE
    /\ taken' = nextId - 1
    /\ UNCHANGED <<thread, nextId, acked, handled, said, client>>

(* Nothing for the bot: it polls again, with the same offset. *)
BotPollExpires ==
    /\ polling
    /\ polling' = FALSE
    /\ UNCHANGED <<thread, nextId, acked, taken, handled, said, client>>

\* The update in the bot's hands.
Current == handled + 1

BotSends(button) ==
    /\ handled < taken
    /\ Post(TRUE, button)
    /\ said' = [said EXCEPT ![Current] = @ \cup {"sent"}]
    /\ UNCHANGED <<nextId, botVars, client>>

(* An edit or a deletion takes any message of the dialog, the person's too. *)
BotEdits(m, button) ==
    /\ handled < taken
    /\ thread' = (thread \ {m}) \cup {[m EXCEPT !.button = button]}
    /\ said' = [said EXCEPT ![Current] = IF m.bot THEN @ \cup {"edited"} ELSE @]
    /\ UNCHANGED <<nextId, botVars, client>>

BotDeletes(m) ==
    /\ handled < taken
    /\ thread' = thread \ {m}
    /\ client' = [client EXCEPT !.deleted = @ \/ m.bot]
    /\ UNCHANGED <<nextId, botVars, said>>

BotReturns ==
    /\ handled < taken
    /\ handled' = handled + 1
    /\ UNCHANGED <<thread, nextId, acked, polling, taken, said, client>>

Next ==
    \/ Count \/ (\E wait \in BOOLEAN : Send(wait)) \/ Press \/ PressRefused
    \/ WaitAcked \/ WaitTimesOut \/ WaitBreaks \/ Read
    \/ BotPoll \/ BotTake \/ BotPollExpires \/ BotReturns
    \/ \E button \in BOOLEAN : BotSends(button)
    \/ \E m \in thread, button \in BOOLEAN : BotEdits(m, button)
    \/ \E m \in thread : BotDeletes(m)

Spec == Init /\ [][Next]_vars

-----------------------------------------------------------------------------
\* "The offset ack arrives after the handler returns: by then every message is sent"
\* (client.py:181-187).
AckedMeansHandled == acked <= handled

\* What the bot had sent when the client looked was not reported as silence.
ReplyIsSeen ==
    client.phase = "silent" /\ ~client.deleted => "sent" \notin client.said

(* A bot that sent a message to an update before the client looked is      *)
(* never reported silent on it, and after a silence the bot acknowledged   *)
(* none will come any more, if it took no message away meanwhile: counting *)
(* before posting, and a bot that acknowledges after its handler, leave no *)
(* gap (remote.py:97-106, 207-213; client.py:181).                         *)
SilenceIsFinal ==
    /\ ReplyIsSeen
    /\ client.phase = "silent" /\ client.acked /\ ~client.deleted =>
            "sent" \notin said[client.update]

(* A screen is the answer to this update, and not to an earlier one or to  *)
(* nothing, if no earlier update was still to be handled (remote.py:211).  *)
ScreenIsAnswer == client.phase = "screen" /\ ~client.missed => "sent" \in client.said

=============================================================================
