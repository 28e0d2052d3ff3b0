------------------------------ MODULE Dialogs ------------------------------
(***************************************************************************)
(* The private conversations of a Network (network.py): the dialogs of     *)
(* people with bots (bot_chats), the talks of people with people           *)
(* (private_user_chats), who has an entry in users and who has a runtime,  *)
(* and the operations of the User, Bot and Admin API that choose one of    *)
(* these threads: by the pair of a viewer and a peer, or by a bare id.     *)
(*                                                                         *)
(* An id is a bot's once a token that begins with it is used.  Until then  *)
(* it is a person's like any other.  Every operation runs between two      *)
(* awaits and is one step.                                                 *)
(***************************************************************************)
EXTENDS Integers, Sequences, SequencesExt

CONSTANTS
    People,      \* ids that no bot will use
    BotIds,      \* ids that are the prefix of some bot's token
    NoQuery,     \* the step was no press
    MaxMessages  \* bound: messages stored in one behaviour

ASSUME IdsAssumption == People \cap BotIds = {}

ASSUME MaxMessagesAssumption == MaxMessages \in Nat

VARIABLES
    users,     \* Network.users: absent, or the is_bot of the entry
    runtimes,  \* the ids of Network.bots
    opened,    \* the keys of Network.bot_chats, in the order of the dict
    dialog,    \* Network.bot_chats
    talk,      \* Network.private_user_chats
    query,     \* history: the callback query of this step, and where it was meant to go
    stored,    \* history: how many messages were stored
    takenOver  \* history: the ids that became a bot's after they were a person's

vars == <<users, runtimes, opened, dialog, talk, query, stored, takenOver>>

-----------------------------------------------------------------------------
Ids == People \cup BotIds

Pairs == People \X BotIds

\* frozenset({a, b}): one element if somebody writes to himself.
Peers == {{a, b} : a, b \in Ids}

\* A button stands for an inline keyboard with the data that is pressed.
Message == [id : 1 .. MaxMessages, from : Ids, button : BOOLEAN]

\* Who pressed, the bot or the person whose dialog was meant, and the bot the
\* query was pushed to.
Query == [user : People, meant : Ids, got : BotIds, id : 1 .. MaxMessages,
          by : {"viewer", "client", "admin"}]

TypeOK ==
    /\ users \in [Ids -> {"none", "person", "bot"}]
    /\ runtimes \subseteq BotIds
    /\ opened \in Seq(Pairs)
    /\ DOMAIN dialog = ToSet(opened) /\ IsInjective(opened)
    /\ \A pair \in DOMAIN dialog : dialog[pair] \in Seq(Message)
    /\ DOMAIN talk \subseteq Peers
    /\ \A peers \in DOMAIN talk : talk[peers] \in Seq(Message)
    /\ query \in Query \cup {NoQuery}
    /\ stored \in 0 .. MaxMessages
    /\ takenOver \subseteq BotIds

-----------------------------------------------------------------------------
IsBotId(p) == p \in runtimes \/ users[p] = "bot"

\* Fault: the entry of users decides, and the Admin API can overwrite it.
FlaggedBot(p) == users[p] = "bot"

\* `_token_for_bot(network, p) is not None`
HasToken(p) == p \in runtimes

ThreadOf(chats, key) == IF key \in DOMAIN chats THEN chats[key] ELSE <<>>

\* thread_for, for a peer that is no group
ThreadFor(viewer, peer) ==
    IF IsBotId(peer) THEN ThreadOf(dialog, <<viewer, peer>>)
                     ELSE ThreadOf(talk, {viewer, peer})

\* chats_for: the peers of the list.  It fails for who has written to himself.
ListFails(viewer) == {viewer} \in DOMAIN talk

ChatsFor(viewer) ==
    {pair[2] : pair \in {k \in DOMAIN dialog : k[1] = viewer}}
        \cup UNION {peers \ {viewer} : peers \in {k \in DOMAIN talk : viewer \in k}}

\* Fault: the first message has the number 0.
NextIdFromZero(thread) == Max({-1} \cup {thread[i].id : i \in DOMAIN thread}) + 1

\* max(..., default=0) + 1
NextId(thread) == Max({0} \cup {thread[i].id : i \in DOMAIN thread}) + 1

Has(thread, id) == \E i \in DOMAIN thread : thread[i].id = id

HasButton(thread, id) == \E i \in DOMAIN thread : thread[i].id = id /\ thread[i].button

\* chats[key] = thread, as a new key or in place of the old value.
Put(chats, key, thread) ==
    [k \in DOMAIN chats \cup {key} |-> IF k = key THEN thread ELSE chats[k]]

\* The thread of a key with one more message.
Appended(chats, key, from, button) ==
    LET thread == ThreadOf(chats, key)
    IN  Put(chats, key,
            Append(thread, [id |-> NextId(thread), from |-> from, button |-> button]))

-----------------------------------------------------------------------------
Init ==
    /\ users = [p \in Ids |-> "none"]
    /\ runtimes = {}
    /\ opened = <<>>
    /\ dialog = <<>>
    /\ talk = <<>>
    /\ query = NoQuery
    /\ stored = 0
    /\ takenOver = {}

(* Network.create_bot, which overwrites the entry of a person. *)
CreateBot(b) ==
    /\ users' = [users EXCEPT ![b] = "bot"]
    /\ runtimes' = runtimes \cup {b}
    /\ takenOver' = takenOver \cup
            (IF b \notin runtimes /\ users[b] = "person" THEN {b} ELSE {})

\* ensure_bot: the first use of a token creates its bot.
EnsureBot(b) ==
    IF b \in runtimes THEN UNCHANGED <<users, runtimes, takenOver>> ELSE CreateBot(b)

\* ensure_private_chat, ensure_outbound_chat
OpenDialog(u, b) ==
    /\ opened' = IF <<u, b>> \in DOMAIN dialog THEN opened ELSE Append(opened, <<u, b>>)
    /\ dialog' = Put(dialog, <<u, b>>, ThreadOf(dialog, <<u, b>>))

(* POST /admin/bots, and any Bot API call with the bot's token. *)
AdminCreateBot(b) ==
    /\ CreateBot(b)
    /\ UNCHANGED <<opened, dialog, talk, stored>>

(* POST /admin/users with an id, which overwrites the entry of a bot. *)
AdminCreateUser(p) ==
    /\ users' = [users EXCEPT ![p] = "person"]
    /\ UNCHANGED <<runtimes, opened, dialog, talk, stored, takenOver>>

(* POST /admin/dialogs for a known user. *)
AdminDialog(u, b) ==
    /\ users[u] # "none"
    /\ EnsureBot(b)
    /\ OpenDialog(u, b)
    /\ UNCHANGED <<talk, stored>>

(* POST /admin/outbound-chats: nobody asks whether there is such a user. *)
AdminOutboundChat(u, b) ==
    /\ EnsureBot(b)
    /\ OpenDialog(u, b)
    /\ UNCHANGED <<talk, stored>>

(* POST /admin/{token}/updates without an update of its own: the bot gets a *)
(* message that no thread holds.                                           *)
AdminMessage(u, b) ==
    /\ IF b \in runtimes
       THEN /\ users' = [users EXCEPT ![u] = IF @ = "none" THEN "person" ELSE @]
            /\ UNCHANGED <<runtimes, takenOver>>
       ELSE /\ users' = [users EXCEPT ![b] = "bot", ![u] = IF @ = "none" THEN "person" ELSE @]
            /\ runtimes' = runtimes \cup {b}
            /\ takenOver' = takenOver \cup (IF users[b] = "person" THEN {b} ELSE {})
    /\ OpenDialog(u, b)
    /\ UNCHANGED <<talk, stored>>

\* Fault: a peer nobody has heard of is not created.
WriterOnly(u, p) == [users EXCEPT ![u] = IF @ = "none" THEN "person" ELSE @]

\* _ensure_user for the writer, create_user for an unknown peer.
WriterAndPeer(u, p) ==
    [k \in Ids |-> IF k \in {u, p} /\ users[k] = "none" THEN "person" ELSE users[k]]

(* send_text to a peer without a bot's runtime: open_private_users and     *)
(* append_message.                                                         *)
SendToPerson(u, p) ==
    /\ ~HasToken(p)
    /\ stored < MaxMessages
    /\ users' = WriterAndPeer(u, p)
    /\ talk' = Appended(talk, {u, p}, u, FALSE)
    /\ stored' = stored + 1
    /\ UNCHANGED <<runtimes, opened, dialog, takenOver>>

(* send_text, send_photo and send_document to a bot: _append_inbound, and  *)
(* the update, which opens the dialog a second time.                       *)
SendToBot(u, b) ==
    /\ HasToken(b)
    /\ stored < MaxMessages
    /\ users' = [users EXCEPT ![u] = IF @ = "none" THEN "person" ELSE @]
    /\ opened' = IF <<u, b>> \in DOMAIN dialog THEN opened ELSE Append(opened, <<u, b>>)
    /\ dialog' = Appended(dialog, <<u, b>>, u, FALSE)
    /\ stored' = stored + 1
    /\ UNCHANGED <<runtimes, talk, takenOver>>

(* _outbound_message to a person: 403 or 400 without a dialog. *)
BotSend(b, u, button) ==
    /\ b \in runtimes
    /\ <<u, b>> \in DOMAIN dialog
    /\ stored < MaxMessages
    /\ dialog' = Appended(dialog, <<u, b>>, b, button)
    /\ stored' = stored + 1
    /\ UNCHANGED <<users, runtimes, opened, talk, takenOver>>

(* edit_bot_message: whatever message has the id, the person's own too. *)
BotEdit(b, u, i, button) ==
    /\ b \in runtimes
    /\ dialog' = [dialog EXCEPT ![<<u, b>>][i].button = button]
    /\ UNCHANGED <<users, runtimes, opened, talk, stored, takenOver>>

(* delete_bot_message *)
BotDelete(b, u, i) ==
    /\ b \in runtimes
    /\ dialog' = [dialog EXCEPT ![<<u, b>>] = RemoveAt(@, i)]
    /\ UNCHANGED <<users, runtimes, opened, talk, stored, takenOver>>

Ask(u, meant, got, id, by) ==
    query' = [user |-> u, meant |-> meant, got |-> got, id |-> id, by |-> by]

\* Fault: the dialogs are tried from the newest.
NewestFirst(pairs) == Reverse(pairs)

\* The dialogs of a person's id are tried in the order of the dict.
OldestFirst(pairs) == pairs

(* _press.  A bot's id names the presser's dialog with this bot.  Any other *)
(* id, the presser's own or not, stands for the dialogs of that person:    *)
(* the first of them with a message of this number is taken.  A press that *)
(* fails may leave a new entry of the presser, as AdminCreateUser does.    *)
Press(u, chat, meant, id, by) ==
    /\ \/ /\ IsBotId(chat)
          /\ HasButton(ThreadFor(u, chat), id)
          /\ HasToken(chat)
          /\ Ask(u, meant, chat, id, by)
       \/ LET pairs   == OldestFirst(opened)
              Fits(i) == pairs[i][1] = chat /\ Has(dialog[pairs[i]], id)
          IN  /\ ~IsBotId(chat)
              /\ \E first \in DOMAIN pairs :
                    /\ Fits(first) /\ \A i \in 1 .. first - 1 : ~Fits(i)
                    /\ HasButton(dialog[pairs[first]], id)
                    /\ HasToken(pairs[first][2])
                    /\ Ask(u, meant, pairs[first][2], id, by)
    /\ users' = [users EXCEPT ![u] = IF @ = "none" THEN "person" ELSE @]
    /\ UNCHANGED <<runtimes, opened, dialog, talk, stored, takenOver>>

(* POST /user/chats/{peer}/messages/{id}/press, of the web client and of   *)
(* RemoteUserClient: only the session is asked about, the peer is any id.  *)
(* What is pressed may have been edited or deleted since it was shown.     *)
PressAsViewer(u, peer, id) ==
    /\ users[u] # "none"
    /\ Press(u, peer, peer, id, "viewer")

(* UserClient.press_callback: the last message of its own bot that has the *)
(* button, and then _press with the person's id for a chat.                *)
PressAsClient(u, b) ==
    LET own         == ThreadOf(dialog, <<u, b>>)
        IsButton(i) == own[i].from = b /\ own[i].button
    IN  \E last \in DOMAIN own :
            /\ IsButton(last) /\ \A i \in last + 1 .. Len(own) : ~IsButton(i)
            /\ Press(u, u, b, own[last].id, "client")

(* POST /admin/{token}/callback: the last message, whoever wrote it. *)
AdminCallback(u, b) ==
    /\ b \in runtimes
    /\ ThreadOf(dialog, <<u, b>>) # <<>>
    /\ Ask(u, b, b, Last(dialog[<<u, b>>]).id, "admin")
    /\ UNCHANGED <<users, runtimes, opened, dialog, talk, stored, takenOver>>

-----------------------------------------------------------------------------
\* Every operation but a press.
Other ==
    \/ \E b \in BotIds : AdminCreateBot(b)
    \/ \E p \in Ids : AdminCreateUser(p)
    \/ \E u \in People, p \in Ids : SendToPerson(u, p)
    \/ \E u \in People, b \in BotIds :
        \/ AdminDialog(u, b) \/ AdminOutboundChat(u, b) \/ AdminMessage(u, b)
        \/ SendToBot(u, b)
        \/ \E button \in BOOLEAN :
            \/ BotSend(b, u, button)
            \/ \E i \in DOMAIN ThreadOf(dialog, <<u, b>>) : BotEdit(b, u, i, button)
        \/ \E i \in DOMAIN ThreadOf(dialog, <<u, b>>) : BotDelete(b, u, i)

Next ==
    \/ Other /\ query' = NoQuery
    \/ \E u \in People, p \in Ids, id \in 1 .. MaxMessages : PressAsViewer(u, p, id)
    \/ \E u \in People, b \in BotIds : PressAsClient(u, b) \/ AdminCallback(u, b)

Spec == Init /\ [][Next]_vars

-----------------------------------------------------------------------------
(* What is stored between a viewer and a peer is what the viewer is shown, *)
(* though the writer's and the reader's route choose the thread by         *)
(* different questions (user_api.py:122, network.py:643): a conversation   *)
(* is hidden only if the peer's id became a bot's while it was a person's. *)
HiddenOnlyByTakeover ==
    /\ \A pair \in DOMAIN dialog : ThreadFor(pair[1], pair[2]) = dialog[pair]
    /\ \A a, b \in Ids :
        ThreadOf(talk, {a, b}) # <<>> /\ ThreadFor(a, b) # talk[{a, b}] => b \in takenOver

(* Whoever has not written to himself gets a list of chats, on which is    *)
(* every peer with something to show and nobody whose card cannot be made  *)
(* (network.py:652).                                                       *)
ChatListIsComplete ==
    \A viewer \in People : ~ListFails(viewer) =>
        /\ \A peer \in Ids : ThreadFor(viewer, peer) # <<>> => peer \in ChatsFor(viewer)
        /\ \A peer \in ChatsFor(viewer) : users[peer] # "none"

Position(pair) == CHOOSE i \in DOMAIN opened : opened[i] = pair

\* Whose dialog a press is about: only who names another person's id
\* presses what need not be in a conversation of his own.
Owner(q) == IF q.meant \in People THEN q.meant ELSE q.user

(* A query names a message that is there, with a button, in the dialog     *)
(* between the owner and the bot that gets it.  A bot that was meant is    *)
(* the one that gets it: unless the client, which names its person only,   *)
(* meets an older dialog of the person with a message of the same number   *)
(* (user_api.py:205).                                                      *)
PressMeetsItsButton ==
    [][LET q      == query'
           thread == dialog[<<Owner(q), q.got>>]
       IN  q # NoQuery =>
            /\ Has(thread, q.id)
            /\ q.by \in {"viewer", "client"} => HasButton(thread, q.id)
            /\ q.meant \in BotIds /\ q.got # q.meant =>
                /\ q.by = "client"
                /\ Position(<<q.user, q.got>>) < Position(<<q.user, q.meant>>)]_vars

=============================================================================
