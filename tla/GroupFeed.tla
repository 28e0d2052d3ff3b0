------------------------------ MODULE GroupFeed ------------------------------
(***************************************************************************)
(* The feed of one group or channel and which bots get what of it:         *)
(* send_text and _press (user_api.py), sendMessage, editMessageText and    *)
(* deleteMessage (bot_api.py, network.py), the privacy filter              *)
(* (privacy.py), and what joining and leaving do to both.                  *)
(*                                                                         *)
(* Who may join, leave and be promoted is the subject of Membership; here  *)
(* a bot's status just changes, with the service message the change makes. *)
(* A supergroup is a group in this code, and all people are one author.    *)
(*                                                                         *)
(* Of a text the filter sees whether it starts with a command and whom the *)
(* command addresses.                                                      *)
(***************************************************************************)
EXTENDS Integers, FiniteSets

CONSTANTS
    Bots,
    Names,         \* usernames
    Plain, Bare,   \* a text without a command, and one with a bare "/cmd"
    Person,        \* a message that a person wrote
    NoOne,         \* no `from`, no reply, no bot
    MaxId          \* bound: message ids

ASSUME NamesAssumption == {Plain, Bare} \cap Names = {} /\ Plain # Bare

ASSUME AuthorsAssumption == {Person, NoOne} \cap Bots = {} /\ Person # NoOne

ASSUME MaxIdAssumption == MaxId \in Nat

VARIABLES
    chatType,       \* ChatRecord.type
    username,       \* the bots' names; nothing keeps two bots from sharing one
    status,         \* the bots' Member.status
    privacyMode,    \* BotRuntime.privacy_mode
    privacyAtJoin,  \* ChatRecord.privacy_at_join, True when there is no entry
    lastBot,        \* ChatRecord.last_bot_id
    feed,           \* ChatRecord.messages
    pushed          \* the update the last step pushed, and the bots it went to

chatVars == <<chatType, username, status, privacyMode, privacyAtJoin>>
vars == <<chatVars, lastBot, feed, pushed>>

-----------------------------------------------------------------------------
\* "none": no record; "out": left or kicked.
Statuses == {"none", "out", "member", "administrator"}

\* "/cmd@name" is the name it addresses.
Texts == {Plain, Bare} \cup Names

\* author is who wrote the message, which a channel does not tell (From);
\* replyTo is the `from` of the message quoted in reply_to_message.  Its text
\* is only looked at while it is being delivered.
Message == [id : Nat \ {0}, author : Bots \cup {Person}, service : BOOLEAN,
            replyTo : Bots \cup {Person, NoOne}, keyboard : BOOLEAN]

Keys == {"none", "message", "channel_post", "edited_channel_post", "callback_query"}

\* `by` is the bot that caused the update, if one did.
Pushed == [key : Keys, message : Message \cup {NoOne}, text : Texts,
           by : Bots \cup {NoOne}, to : SUBSET Bots]

TypeOK ==
    /\ chatType \in {"group", "channel"}
    /\ username \in [Bots -> Names]
    /\ status \in [Bots -> Statuses]
    /\ privacyMode \in [Bots -> BOOLEAN]
    /\ privacyAtJoin \in [Bots -> BOOLEAN]
    /\ lastBot \in Bots \cup {NoOne}
    /\ feed \subseteq Message
    /\ pushed \in Pushed

-----------------------------------------------------------------------------
Nothing == [key |-> "none", message |-> NoOne, text |-> Plain, by |-> NoOne, to |-> {}]

\* Fault: the length of the feed instead of its largest id.
CountedId == Cardinality(feed) + 1

\* Fault: an empty feed starts at 0.
IdFromZero == IF feed = {} THEN 0
              ELSE (CHOOSE n \in {m.id : m \in feed} : \A m \in feed : m.id <= n) + 1

NextId == IF feed = {} THEN 1
          ELSE (CHOOSE n \in {m.id : m \in feed} : \A m \in feed : m.id <= n) + 1

\* Message.from; a channel's post has only a sender_chat.
From(msg) == IF chatType = "channel" THEN NoOne ELSE msg.author

InChat(b, st) == st[b] \in {"member", "administrator"}

SeesAll(b, st, atJoin) == InChat(b, st) /\ (st[b] = "administrator" \/ ~atJoin[b])

\* Why a bot with privacy is considered at all (the loop's `sees`).
Sees(b, msg, text) ==
    \/ msg.replyTo = b
    \/ text = username[b]
    \/ text = Bare /\ lastBot = b

\* Fault: a command on another bot competes with the reply.
AllCandidates(seers, msg, text) == seers

\* Which of them stay: the reply's bot, else the addressed one, else the last.
Candidates(seers, msg, text) ==
    IF msg.replyTo \in Bots THEN seers \cap {msg.replyTo}
    ELSE IF text \in Names THEN {b \in seers : username[b] = text}
    ELSE IF text = Bare THEN seers \cap {lastBot}
    ELSE {}

(* deliver_group_message_to_bots: the sets of bots it may deliver msg to.  *)
(* Of several candidates it takes the first in the order of registration.  *)
GroupReceivers(msg, text, st, atJoin) ==
    LET active == {b \in Bots : InChat(b, st)}
        step2  == {b \in Bots : SeesAll(b, st, atJoin)}
        step3  == Candidates({b \in active \ step2 : Sees(b, msg, text)}, msg, text)
    IN  IF From(msg) \in Bots THEN {{}}
        ELSE IF msg.service THEN {active}
        ELSE IF step3 = {} THEN {step2}
        ELSE {step2 \cup {b} : b \in step3}

DeliverGroup(msg, text, by, st, atJoin) ==
    \E receivers \in GroupReceivers(msg, text, st, atJoin) :
        pushed' = [key |-> "message", message |-> msg, text |-> text, by |-> by,
                   to |-> receivers]

\* Fault: skip_token is not passed on.
EchoChannel(key, msg, by) ==
    pushed' = [key |-> key, message |-> msg, text |-> Plain, by |-> by,
               to |-> {b \in Bots : InChat(b, status)}]

(* deliver_channel_post_to_bots *)
DeliverChannel(key, msg, by) ==
    pushed' = [key |-> key, message |-> msg, text |-> Plain, by |-> by,
               to |-> {b \in Bots : InChat(b, status) /\ b # by}]

-----------------------------------------------------------------------------
Init ==
    /\ chatType \in {"group", "channel"}
    /\ username \in [Bots -> Names]
    /\ status = [b \in Bots |-> "none"]
    /\ privacyMode = [b \in Bots |-> TRUE]
    /\ privacyAtJoin = [b \in Bots |-> TRUE]
    /\ lastBot = NoOne
    /\ feed = {}
    /\ pushed = Nothing

\* Fault: the service message is delivered before the membership changes.
AppendServiceBefore(actor, st, atJoin) ==
    IF chatType = "channel" THEN UNCHANGED feed /\ pushed' = Nothing
    ELSE LET msg == [id |-> NextId, author |-> actor, service |-> TRUE,
                     replyTo |-> NoOne, keyboard |-> FALSE]
         IN  /\ NextId <= MaxId
             /\ feed' = feed \cup {msg}
             /\ DeliverGroup(msg, Plain, IF actor \in Bots THEN actor ELSE NoOne,
                             status, privacyAtJoin)

\* _append_service, with the membership after the change.
AppendService(actor, st, atJoin) ==
    IF chatType = "channel" THEN UNCHANGED feed /\ pushed' = Nothing
    ELSE LET msg == [id |-> NextId, author |-> actor, service |-> TRUE,
                     replyTo |-> NoOne, keyboard |-> FALSE]
         IN  /\ NextId <= MaxId
             /\ feed' = feed \cup {msg}
             /\ DeliverGroup(msg, Plain, IF actor \in Bots THEN actor ELSE NoOne, st, atJoin)

\* Who changes the membership of others: people, and bots by the Bot API or by
\* the Admin API, which acts as whoever the request names.
Actors == {Person} \cup {b \in Bots : status[b] = "administrator"}

(* add_member of a bot; in a channel it is an administrator. *)
Join(b, st, actor) ==
    /\ actor \in Actors
    /\ ~InChat(b, status)
    /\ chatType = "channel" => st = "administrator"
    /\ status' = [status EXCEPT ![b] = st]
    /\ privacyAtJoin' = [privacyAtJoin EXCEPT ![b] = privacyMode[b]]
    /\ AppendService(actor, status', privacyAtJoin')
    /\ UNCHANGED <<chatType, username, privacyMode, lastBot>>

(* leave_chat by the bot, its removal by a person or its ban by a bot,     *)
(* which are announced as well if the bot is out already.                  *)
Leave(b, actor) ==
    /\ \/ actor = b /\ InChat(b, status)
       \/ actor \in Actors /\ status[b] # "none"
    /\ status' = [status EXCEPT ![b] = "out"]
    /\ AppendService(actor, status', privacyAtJoin)
    /\ UNCHANGED <<chatType, username, privacyMode, privacyAtJoin, lastBot>>

(* add_member, remove_member, ban_member and unban_member of a person; any *)
(* member may add people to a group.                                       *)
PersonComesOrGoes(actor) ==
    /\ actor \in Bots => InChat(actor, status)
    /\ AppendService(actor, status, privacyAtJoin)
    /\ UNCHANGED <<chatVars, lastBot>>

(* promote_member, patch_member.  They also bring back a bot that is out,  *)
(* with the privacy it had when it was last added.                         *)
Promote(b) ==
    /\ status[b] # "none"
    /\ LET st == IF status[b] # "administrator" THEN "administrator"
                 ELSE IF chatType = "channel" THEN "out" ELSE "member"
       IN  status' = [status EXCEPT ![b] = st]
    /\ pushed' = Nothing
    /\ UNCHANGED <<chatType, username, privacyMode, privacyAtJoin, lastBot, feed>>

\* Fault: the chats the bot is in follow at once.
SetPrivacyEverywhere(b, on) ==
    /\ privacyMode' = [privacyMode EXCEPT ![b] = on]
    /\ privacyAtJoin' = [privacyAtJoin EXCEPT ![b] = on]
    /\ pushed' = Nothing
    /\ UNCHANGED <<chatType, username, status, lastBot, feed>>

(* POST /admin/bots/privacy *)
SetPrivacy(b, on) ==
    /\ privacyMode' = [privacyMode EXCEPT ![b] = on]
    /\ pushed' = Nothing
    /\ UNCHANGED <<chatType, username, status, privacyAtJoin, lastBot, feed>>

(* send_text of a member, or of a channel's creator.  An id that is not in *)
(* the feed quotes nothing.                                                *)
PersonSends(text, replyToId) ==
    /\ NextId <= MaxId
    /\ LET origin == {m \in feed : m.id = replyToId}
           msg == [id |-> NextId, author |-> Person, service |-> FALSE,
                   replyTo |-> IF origin = {} THEN NoOne ELSE From(CHOOSE m \in origin : TRUE),
                   keyboard |-> FALSE]
       IN  /\ feed' = feed \cup {msg}
           /\ IF chatType = "channel" THEN DeliverChannel("channel_post", msg, NoOne)
              ELSE DeliverGroup(msg, text, NoOne, status, privacyAtJoin)
    /\ UNCHANGED <<chatVars, lastBot>>

(* _outbound_to_chat and append_bot_message.  In a channel the bot is an   *)
(* administrator; one without can_post_messages changes nothing.           *)
BotSends(b, text, keyboard) ==
    /\ InChat(b, status)
    /\ NextId <= MaxId
    /\ LET msg == [id |-> NextId, author |-> b, service |-> FALSE,
                   replyTo |-> NoOne, keyboard |-> keyboard]
       IN  /\ feed' = feed \cup {msg}
           /\ IF chatType = "channel" THEN DeliverChannel("channel_post", msg, b)
              ELSE DeliverGroup(msg, text, b, status, privacyAtJoin)
    /\ lastBot' = b
    /\ UNCHANGED chatVars

(* editMessageText: of any message of the feed, by any bot, with a new     *)
(* keyboard or the one it has.  In a group the message as it is now goes   *)
(* through the filter again.                                               *)
BotEdits(b, m, text, keyboard) ==
    /\ LET msg == [m EXCEPT !.keyboard = keyboard]
       IN  /\ feed' = (feed \ {m}) \cup {msg}
           /\ IF chatType = "channel" THEN DeliverChannel("edited_channel_post", msg, b)
              ELSE DeliverGroup(msg, text, b, status, privacyAtJoin)
    /\ UNCHANGED <<chatVars, lastBot>>

(* editMessageReplyMarkup: sets the keyboard or takes it away, and tells no *)
(* other bot.                                                              *)
BotEditsMarkup(m, keyboard) ==
    /\ feed' = (feed \ {m}) \cup {[m EXCEPT !.keyboard = keyboard]}
    /\ pushed' = Nothing
    /\ UNCHANGED <<chatVars, lastBot>>

(* deleteMessage: as free as editing. *)
BotDeletes(m) ==
    /\ feed' = feed \ {m}
    /\ pushed' = Nothing
    /\ UNCHANGED <<chatVars, lastBot>>

(* _press in a group or channel: the query goes to the bot the message is  *)
(* from, else to the bot that wrote last.                                  *)
Press(m) ==
    /\ m.keyboard
    /\ LET bot == IF From(m) \in Bots THEN From(m) ELSE lastBot
       IN  /\ bot # NoOne
           /\ pushed' = [key |-> "callback_query", message |-> m, text |-> Plain,
                      by |-> NoOne, to |-> {bot}]
    /\ UNCHANGED <<chatVars, lastBot, feed>>

-----------------------------------------------------------------------------
Next ==
    \/ \E b \in Bots :
            \/ \E st \in {"member", "administrator"}, actor \in Actors : Join(b, st, actor)
            \/ \E actor \in {b} \cup Actors : Leave(b, actor)
            \/ Promote(b)
            \/ \E on \in BOOLEAN : SetPrivacy(b, on)
    \/ \E actor \in Bots \cup {Person} : PersonComesOrGoes(actor)
    \/ \E text \in Texts, replyToId \in 0 .. MaxId : PersonSends(text, replyToId)
    \/ \E b \in Bots, text \in Texts, keyboard \in BOOLEAN :
            \/ BotSends(b, text, keyboard)
            \/ \E m \in feed : BotEdits(b, m, text, keyboard)
    \/ \E m \in feed :
            \/ \E keyboard \in BOOLEAN : BotEditsMarkup(m, keyboard)
            \/ BotDeletes(m)
            \/ Press(m)

Spec == Init /\ [][Next]_vars

-----------------------------------------------------------------------------
\* Bots with privacy that a message singles out: by a reply, else by a command.
SingledOut(msg, text) ==
    IF msg.replyTo \in Bots THEN {msg.replyTo}
    ELSE {b \in Bots : text = username[b] \/ (text = Bare /\ lastBot = b)}

\* A message of a group, by the list of the specification.
GroupDeliveryAsSpecified ==
    pushed.key = "message" =>
        LET msg == pushed.message
            all == {b \in Bots : SeesAll(b, status, privacyAtJoin)}
            one == {b \in SingledOut(msg, pushed.text) : InChat(b, status)} \ all
        IN  IF msg.author \in Bots THEN pushed.to = {}
            ELSE IF msg.service THEN pushed.to = {b \in Bots : InChat(b, status)}
            ELSE /\ pushed.to \subseteq all \cup one
                 /\ all \subseteq pushed.to
                 /\ Cardinality(pushed.to \cap one) = IF one = {} THEN 0 ELSE 1

\* A channel has no privacy, and a bot is never sent its own post or edit.
ChannelDeliveryAsSpecified ==
    pushed.key \in {"channel_post", "edited_channel_post"} =>
        pushed.to = {b \in Bots : InChat(b, status)} \ {pushed.by}

(* Who gets a message of a group, in the words of the wave-3 specification *)
(* (section 6): nobody gets another bot's message; a service message goes  *)
(* to every bot in the chat as the change has left it, the one that came   *)
(* and not the one that went; administrators and bots without privacy get  *)
(* all that people write; and exactly one of the bots with privacy gets    *)
(* what singles it out, a reply before a command.  The code gets there in  *)
(* two filtering passes over the bots (privacy.py:67-109).  In a channel   *)
(* everyone but the author gets a post (line 237).                         *)
DeliveryAsSpecified == GroupDeliveryAsSpecified /\ ChannelDeliveryAsSpecified

(* "Changing the setting does not rewrite privacy_at_join of existing      *)
(* chats": a bot has to leave and come back (wave-3 specification, line    *)
(* 161).  What it then gets is the setting of that moment.                 *)
PrivacyChangesByRejoining ==
    [][\A b \in Bots : privacyAtJoin'[b] # privacyAtJoin[b] =>
            ~InChat(b, status) /\ InChat(b, status') /\ privacyAtJoin'[b] = privacyMode[b]]_vars

(* Deletions leave no two messages with one id: replies, edits, deletions  *)
(* and presses find the message they name.                                 *)
IdsNameOneMessage == \A m, n \in feed : m.id = n.id => m = n

(* "callback_query from this bot's keyboard always goes to it" (wave-3     *)
(* specification, line 229), in a channel as in a group.                   *)
CallbackGoesToKeyboard ==
    pushed.key = "callback_query" /\ pushed.message.author \in Bots =>
        pushed.to = {pushed.message.author}

=============================================================================
