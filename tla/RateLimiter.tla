----------------------------- MODULE RateLimiter -----------------------------
(***************************************************************************)
(* The sending limits (limits.py) and the requests that meet them          *)
(* (bot_api._outbound_message): messages per second in a chat, messages    *)
(* per second of a bot, and messages per minute in a group, each a sliding *)
(* window over the times of the bot's latest messages.                     *)
(*                                                                         *)
(* The check, the delivery and the record of a message are one synchronous *)
(* handler, hence one action.  Without a profile (limiter = None) nothing  *)
(* is checked or recorded, and a message is no step here.                  *)
(*                                                                         *)
(* The clock counts ticks, of which a second has several: time.monotonic() *)
(* is a float, and retry_after is rounded up to seconds.  A stamp stands   *)
(* for the message it was made for; the code keeps only its time.          *)
(***************************************************************************)
EXTENDS Integers, FiniteSets

CONSTANTS
    Bots, Chats,
    Groups,         \* the chats in network.chats
    Second,         \* ticks in _WINDOW_SEC
    GroupWindow,    \* ticks in _GROUP_WINDOW_SEC
    PerChat,        \* PER_CHAT_PER_SEC
    Global,         \* GLOBAL_PER_SEC
    PerGroup,       \* GROUP_PER_MIN
    NoRefusal,
    MaxTime,        \* bound: the last tick
    MaxSends        \* bound: messages under one profile

ASSUME GroupsAssumption == Groups \subseteq Chats

ASSUME LimitsAssumption ==
    /\ Second \in Nat \ {0} /\ GroupWindow \in Nat \ {0}
    /\ PerChat \in Nat \ {0} /\ Global \in Nat \ {0} /\ PerGroup \in Nat \ {0}
    /\ MaxTime \in Nat /\ MaxSends \in Nat

VARIABLES
    now,           \* RateLimiter._clock
    limited,       \* app.state.limiter is not None
    chatStamps,    \* RateLimiter._per_chat
    botStamps,     \* RateLimiter._global
    groupStamps,   \* RateLimiter._group
    sent,          \* history: the messages sent under this profile
    refusal        \* history: the last 429, until a message is sent

stampVars == <<chatStamps, botStamps, groupStamps>>
vars == <<now, limited, stampVars, sent, refusal>>

-----------------------------------------------------------------------------
Message == [bot : Bots, chat : Chats, at : Nat, n : Nat]

Buckets == {"chat", "bot", "group"}

Refusal == [bot : Bots, chat : Chats, at : Nat, retryAfter : Int]

TypeOK ==
    /\ now \in Nat
    /\ limited \in BOOLEAN
    /\ chatStamps \in [Bots -> [Chats -> SUBSET Message]]
    /\ botStamps \in [Bots -> SUBSET Message]
    /\ groupStamps \in [Bots -> [Chats -> SUBSET Message]]
    /\ \A b \in Bots, c \in Chats \ Groups : groupStamps[b][c] = {}
    /\ sent \subseteq Message
    /\ refusal \in Refusal \cup {NoRefusal}

-----------------------------------------------------------------------------
\* Fault: the list is not trimmed.
RecentAll(stamps, window) == stamps

Recent(stamps, window) == {s \in stamps : s.at > now - window}

Oldest(stamps) == CHOOSE s \in stamps : \A t \in stamps : s.at <= t.at

\* Fault: the wait is rounded down, but not to nothing.
SecondsDown(ticks) == IF ticks < Second THEN 1 ELSE ticks \div Second

\* Fault: a part of a second counts as two.
SecondsMore(ticks) == (ticks \div Second) + 1

\* math.ceil
SecondsUp(ticks) == (ticks + Second - 1) \div Second

\* Fault: a full bucket lets one more message pass.
RetryAfterOneMore(stamps, limit, window) ==
    LET kept == Recent(stamps, window)
        wait == window - (now - Oldest(kept).at)
    IN  IF Cardinality(kept) <= limit \/ wait <= 0 THEN 0 ELSE SecondsUp(wait)

\* _retry_after; 0 for None.
RetryAfter(stamps, limit, window) ==
    LET kept == Recent(stamps, window)
        wait == window - (now - Oldest(kept).at)
    IN  IF Cardinality(kept) < limit \/ wait <= 0 THEN 0 ELSE SecondsUp(wait)

\* Fault: the limit per minute holds in every chat.
WaitsEverywhere(b, c) ==
    [chat  |-> RetryAfter(chatStamps[b][c], PerChat, GroupWindow),
     bot   |-> RetryAfter(botStamps[b], Global, Second),
     group |-> RetryAfter(groupStamps[b][c], PerGroup, GroupWindow)]

\* What each bucket says of a message of b to c.
Waits(b, c) ==
    [chat  |-> RetryAfter(chatStamps[b][c], PerChat, Second),
     bot   |-> RetryAfter(botStamps[b], Global, Second),
     group |-> IF c \in Groups THEN RetryAfter(groupStamps[b][c], PerGroup, GroupWindow)
                               ELSE 0]

(* The lists check() trims: up to the first full bucket. *)
Trim(b, c, checked) ==
    /\ chatStamps' = [chatStamps EXCEPT ![b][c] = Recent(@, Second)]
    /\ botStamps' = IF "bot" \in checked
                    THEN [botStamps EXCEPT ![b] = Recent(@, Second)] ELSE botStamps
    /\ groupStamps' = IF "group" \in checked /\ c \in Groups
                      THEN [groupStamps EXCEPT ![b][c] = Recent(@, GroupWindow)]
                      ELSE groupStamps

\* Fault: the group's list is left out.
RecordNoGroup(b, c, m) ==
    /\ chatStamps' = [chatStamps EXCEPT ![b][c] = Recent(@, Second) \cup {m}]
    /\ botStamps' = [botStamps EXCEPT ![b] = Recent(@, Second) \cup {m}]
    /\ UNCHANGED groupStamps

\* Fault: every chat gets a list per minute.
RecordEverywhere(b, c, m) ==
    /\ chatStamps' = [chatStamps EXCEPT ![b][c] = Recent(@, Second) \cup {m}]
    /\ botStamps' = [botStamps EXCEPT ![b] = Recent(@, Second) \cup {m}]
    /\ groupStamps' = [groupStamps EXCEPT ![b][c] = Recent(@, GroupWindow) \cup {m}]

(* check() that refuses nothing, then record(). *)
Record(b, c, m) ==
    /\ chatStamps' = [chatStamps EXCEPT ![b][c] = Recent(@, Second) \cup {m}]
    /\ botStamps' = [botStamps EXCEPT ![b] = Recent(@, Second) \cup {m}]
    /\ groupStamps' = IF c \in Groups
                      THEN [groupStamps EXCEPT ![b][c] = Recent(@, GroupWindow) \cup {m}]
                      ELSE groupStamps

-----------------------------------------------------------------------------
NoStamps == [b \in Bots |-> [c \in Chats |-> {}]]

Init ==
    /\ now = 0
    /\ limited \in BOOLEAN
    /\ chatStamps = NoStamps
    /\ botStamps = [b \in Bots |-> {}]
    /\ groupStamps = NoStamps
    /\ sent = {}
    /\ refusal = NoRefusal

Tick ==
    /\ now < MaxTime
    /\ now' = now + 1
    /\ UNCHANGED <<limited, stampVars, sent, refusal>>

(* POST /admin/limits: a new RateLimiter, or none. *)
SetLimits(profile) ==
    /\ limited' = profile
    /\ chatStamps' = NoStamps
    /\ botStamps' = [b \in Bots |-> {}]
    /\ groupStamps' = NoStamps
    /\ sent' = {}
    /\ refusal' = NoRefusal
    /\ UNCHANGED now

(* A message that no bucket refuses and that goes out. *)
Send(b, c) ==
    /\ limited
    /\ Cardinality(sent) < MaxSends
    /\ \A k \in Buckets : Waits(b, c)[k] = 0
    /\ LET m == [bot |-> b, chat |-> c, at |-> now, n |-> Cardinality(sent)]
       IN  /\ Record(b, c, m)
           /\ sent' = sent \cup {m}
    /\ refusal' = NoRefusal
    /\ UNCHANGED <<now, limited>>

\* Fault: what fails after the check counts.
SendFailsCounted(b, c) ==
    /\ limited
    /\ \A k \in Buckets : Waits(b, c)[k] = 0
    /\ Record(b, c, [bot |-> b, chat |-> c, at |-> now, n |-> Cardinality(sent)])
    /\ UNCHANGED <<now, limited, sent, refusal>>

(* A message that passes the check and is refused for another reason (not  *)
(* in the chat, no right to post, no such dialog): it counts nowhere.      *)
SendFails(b, c) ==
    /\ limited
    /\ \A k \in Buckets : Waits(b, c)[k] = 0
    /\ Trim(b, c, Buckets)
    /\ UNCHANGED <<now, limited, sent, refusal>>

(* 429 by the first full bucket, in the order in which check() asks them. *)
TooManyRequests(b, c) ==
    /\ limited
    /\ \E k \in Buckets :
            LET before == [chat |-> {}, bot |-> {"chat"}, group |-> {"chat", "bot"}][k]
            IN  /\ Waits(b, c)[k] > 0
                /\ \A j \in before : Waits(b, c)[j] = 0
                /\ Trim(b, c, before \cup {k})
                /\ refusal' = [bot |-> b, chat |-> c, at |-> now, retryAfter |-> Waits(b, c)[k]]
    /\ UNCHANGED <<now, limited, sent>>

Next ==
    \/ Tick
    \/ \E profile \in BOOLEAN : SetLimits(profile)
    \/ \E b \in Bots, c \in Chats : Send(b, c) \/ SendFails(b, c) \/ TooManyRequests(b, c)

Spec == Init /\ [][Next]_vars

-----------------------------------------------------------------------------
InChat(b, c) == {m \in sent : m.bot = b /\ m.chat = c}
OfBot(b) == {m \in sent : m.bot = b}

\* The messages of ms in the window that ends at t.
Window(ms, t, width) == {m \in ms : t - width < m.at /\ m.at <= t}

\* Messages of a bot in a chat, of a bot, and of a bot in a group.
ChatLimit ==
    \A b \in Bots, c \in Chats, t \in 0 .. now :
        Cardinality(Window(InChat(b, c), t, Second)) <= PerChat

BotLimit ==
    \A b \in Bots, t \in 0 .. now : Cardinality(Window(OfBot(b), t, Second)) <= Global

GroupLimit ==
    \A b \in Bots, c \in Groups, t \in 0 .. now :
        Cardinality(Window(InChat(b, c), t, GroupWindow)) <= PerGroup

\* Of the stamps, which only a check trims, none are kept beyond the limits.
ListsStayShort ==
    \A b \in Bots :
        /\ Cardinality(botStamps[b]) <= Global
        /\ \A c \in Chats : /\ Cardinality(chatStamps[b][c]) <= PerChat
                            /\ Cardinality(groupStamps[b][c]) <= PerGroup

(* The limits hold for every window of a second or a minute, wherever it   *)
(* starts, and not only for the one a check looked at: whatever was        *)
(* trimmed, refused or failed in between; and no list of stamps is longer  *)
(* than the limit it is kept for (limits.py:33-52, 66-72).                 *)
LimitsHold == ChatLimit /\ BotLimit /\ GroupLimit /\ ListsStayShort

-----------------------------------------------------------------------------
\* The windows over all messages, of which the limiter keeps what a check can see.
Windows == INSTANCE SlidingWindows

(* Lists that are trimmed, checked and recorded by turns decide as the     *)
(* whole log would: a message passes when each of its windows has room and *)
(* no other, only a full one refuses, and retry_after is the least number  *)
(* of seconds after which that one has room, neither rounded down, so that *)
(* the bot would be refused again, nor up twice (limits.py:33-74).         *)
ImplementsWindows == Windows!Spec

=============================================================================
