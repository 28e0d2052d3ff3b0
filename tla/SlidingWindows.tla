--------------------------- MODULE SlidingWindows ---------------------------
(***************************************************************************)
(* What the sending limits promise a bot, as a log of all its messages and *)
(* the windows over it, without lists and without trimming: a message goes *)
(* out when each of its windows has room, and is refused when one has not, *)
(* with the least number of whole seconds after which that one has.        *)
(* RateLimiter implements this.                                            *)
(***************************************************************************)
EXTENDS Integers, FiniteSets

CONSTANTS
    Bots, Chats, Groups,
    Second, GroupWindow,        \* the lengths of the windows, in ticks
    PerChat, Global, PerGroup,  \* what may be in them
    NoRefusal

VARIABLES
    now,      \* the clock
    limited,  \* there are limits at all
    sent,     \* the log
    refusal   \* the last refusal, until a message is sent

vars == <<now, limited, sent, refusal>>

-----------------------------------------------------------------------------
InChat(b, c) == {m \in sent : m.bot = b /\ m.chat = c}
OfBot(b) == {m \in sent : m.bot = b}

\* The limits on messages of b to c: on what, how many, in how many ticks.
Limits(b, c) ==
    {[on |-> InChat(b, c), limit |-> PerChat, width |-> Second],
     [on |-> OfBot(b), limit |-> Global, width |-> Second]}
    \cup (IF c \in Groups
          THEN {[on |-> InChat(b, c), limit |-> PerGroup, width |-> GroupWindow]}
          ELSE {})

\* The window of a limit that ends at t has room, if nothing is sent till then.
HasRoom(l, t) == Cardinality({m \in l.on : t - l.width < m.at /\ m.at <= t}) < l.limit

\* So many seconds from now a limit has room, and not a second earlier.
IsWait(l, seconds) ==
    /\ HasRoom(l, now + seconds * Second)
    /\ \A fewer \in 0 .. seconds - 1 : ~HasRoom(l, now + fewer * Second)

-----------------------------------------------------------------------------
NewLog(profile) ==
    /\ limited' = profile
    /\ sent' = {}
    /\ refusal' = NoRefusal
    /\ UNCHANGED now

Init ==
    /\ now = 0
    /\ limited \in BOOLEAN
    /\ sent = {}
    /\ refusal = NoRefusal

Tick ==
    /\ now' = now + 1
    /\ UNCHANGED <<limited, sent, refusal>>

Accept(b, c) ==
    /\ limited
    /\ \A l \in Limits(b, c) : HasRoom(l, now)
    /\ sent' = sent \cup {[bot |-> b, chat |-> c, at |-> now, n |-> Cardinality(sent)]}
    /\ refusal' = NoRefusal
    /\ UNCHANGED <<now, limited>>

\* Some limit is full: nobody waits longer than its window.
Refuse(b, c) ==
    /\ limited
    /\ \E l \in Limits(b, c) : \E seconds \in 1 .. l.width :
        /\ IsWait(l, seconds)
        /\ refusal' = [bot |-> b, chat |-> c, at |-> now, retryAfter |-> seconds]
    /\ UNCHANGED <<now, limited, sent>>

Next ==
    \/ Tick
    \/ \E profile \in BOOLEAN : NewLog(profile)
    \/ \E b \in Bots, c \in Chats : Accept(b, c) \/ Refuse(b, c)

Spec == Init /\ [][Next]_vars

=============================================================================
