-------------------------- MODULE RateLimiterProofs --------------------------
(***************************************************************************)
(* RateLimiter for any bots, chats, limits and windows.                    *)
(*                                                                         *)
(* The lists hold only what the last checks left in them.  The invariant   *)
(* says how much that is: everything still inside the window (Covers), so  *)
(* that a check that finds room has found it in the whole history.         *)
(***************************************************************************)
EXTENDS RateLimiter, FiniteSetTheorems, WellFoundedInduction, TLAPS

-----------------------------------------------------------------------------
(* The pure part: what a bucket that does not refuse says of its list. *)

LEMMA EarliestIsThere ==
    ASSUME NEW stamps \in SUBSET Message, stamps # {}
    PROVE  \E s \in stamps : \A u \in stamps : s.at <= u.at
<1> DEFINE times == {s.at : s \in stamps}
           Less == OpToRel(<, Nat)
<1>1. times \subseteq Nat /\ times # {}
  BY DEF Message
<1>2. IsWellFoundedOn(Less, Nat)
  BY NatLessThanWellFounded
<1>0. \A u, t \in Nat : u < t => <<u, t>> \in Less
  BY DEF OpToRel
<1> HIDE DEF Less
<1>3. PICK t \in times : \A u \in times : t <= u
  <2>1. PICK t \in times : \A u \in times : ~(<<u, t>> \in Less)
    BY <1>1, <1>2, WFMin
  <2>2. ASSUME NEW u \in times
        PROVE  t <= u
    <3>1. u \in Nat /\ t \in Nat
      BY <1>1
    <3>2. ~(u < t)
      BY <1>0, <2>1, <3>1
    <3>3. QED
      BY <3>1, <3>2
  <2>3. QED
    BY <2>2
<1>4. PICK s \in stamps : s.at = t
  BY <1>3
<1>5. \A u \in stamps : s.at <= u.at
  BY <1>3, <1>4
<1>6. QED
  BY <1>5

LEMMA OldestIsThere ==
    ASSUME NEW stamps \in SUBSET Message, stamps # {}
    PROVE  Oldest(stamps) \in stamps
BY EarliestIsThere DEF Oldest

LEMMA SecondsAreEnough ==
    ASSUME NEW ticks \in Nat \ {0}
    PROVE  SecondsUp(ticks) \in Nat \ {0}
<1> DEFINE x == ticks + Second - 1
           q == x \div Second
<1>1. x \in Nat /\ x >= Second /\ Second \in Nat \ {0}
  BY LimitsAssumption
<1>2. q \in Int /\ x % Second \in 0 .. Second - 1 /\ x = Second * q + (x % Second)
  BY <1>1
<1>3. q > 0
  BY <1>1, <1>2
<1>4. QED
  BY <1>2, <1>3 DEF SecondsUp

\* RetryAfter is a number of seconds, and 0 only if the window has room.
LEMMA RetryAfterBounds ==
    ASSUME now \in Nat, NEW stamps \in SUBSET Message, IsFiniteSet(stamps),
           NEW limit \in Nat \ {0}, NEW width \in Nat \ {0}
    PROVE  /\ RetryAfter(stamps, limit, width) \in Nat
           /\ RetryAfter(stamps, limit, width) = 0 =>
                Cardinality(Recent(stamps, width)) < limit
<1> DEFINE kept == Recent(stamps, width)
           wait == width - (now - Oldest(kept).at)
<1>1. kept \subseteq stamps
  BY DEF Recent
<1>2. IsFiniteSet(kept) /\ Cardinality(kept) \in Nat
  BY <1>1, FS_Subset, FS_CardinalityType
<1>3. CASE Cardinality(kept) < limit
  BY <1>3 DEF RetryAfter
<1>4. CASE ~(Cardinality(kept) < limit)
  <2>1. kept # {}
    BY <1>2, <1>4, FS_EmptySet
  <2>2. Oldest(kept) \in kept
    BY <1>1, <2>1, OldestIsThere
  <2>3. Oldest(kept).at \in Nat /\ Oldest(kept).at > now - width
    BY <1>1, <2>2 DEF Recent, Message
  <2>4. wait \in Nat \ {0}
    BY <2>3
  <2>5. RetryAfter(stamps, limit, width) = SecondsUp(wait)
    BY <1>4, <2>4 DEF RetryAfter
  <2> HIDE DEF wait
  <2>6. QED
    BY <2>4, <2>5, SecondsAreEnough
<1>5. QED
  BY <1>3, <1>4

-----------------------------------------------------------------------------
(* A list knows all of the bucket's messages that a window ending now or   *)
(* later can contain.                                                      *)
Covers(stamps, ms, width) ==
    /\ stamps \subseteq ms
    /\ \A m \in ms : m.at > now - width => m \in stamps

Bounded(ms, limit, width) ==
    \A t \in 0 .. now : Cardinality(Window(ms, t, width)) <= limit

\* The messages of the past.
History(ms) == ms \subseteq Message /\ IsFiniteSet(ms) /\ \A m \in ms : m.at <= now

LEMMA CoversTrimmed ==
    ASSUME NEW stamps, NEW ms, NEW width, Covers(stamps, ms, width)
    PROVE  Covers(Recent(stamps, width), ms, width)
BY DEF Covers, Recent

LEMMA WindowFinite ==
    ASSUME NEW ms, IsFiniteSet(ms), NEW t, NEW width
    PROVE  /\ IsFiniteSet(Window(ms, t, width))
           /\ Cardinality(Window(ms, t, width)) \in Nat
BY FS_Subset, FS_CardinalityType DEF Window

LEMMA BoundedAfterSend ==
    ASSUME now \in Nat, NEW ms, History(ms), NEW stamps,
           NEW limit \in Nat \ {0}, NEW width \in Nat \ {0},
           Covers(stamps, ms, width), Bounded(ms, limit, width),
           RetryAfter(stamps, limit, width) = 0,
           NEW m \in Message, m.at = now
    PROVE  Bounded(ms \cup {m}, limit, width)
<1> SUFFICES ASSUME NEW t \in 0 .. now
             PROVE  Cardinality(Window(ms \cup {m}, t, width)) <= limit
  BY DEF Bounded
<1>1. CASE t # now
  <2>1. Window(ms \cup {m}, t, width) = Window(ms, t, width)
    BY <1>1 DEF Window
  <2>2. QED
    BY <2>1 DEF Bounded
<1>2. CASE t = now
  <2> DEFINE W == Window(ms, now, width)
             R == Recent(stamps, width)
  <2>1. stamps \in SUBSET Message /\ IsFiniteSet(stamps)
    BY FS_Subset DEF Covers, History
  <2>2. Cardinality(R) < limit
    BY <2>1, RetryAfterBounds
  <2>3. IsFiniteSet(R)
    BY <2>1, FS_Subset DEF Recent
  <2>4. W \subseteq R
    BY DEF Window, Recent, Covers, History, Message
  <2>5. IsFiniteSet(W) /\ Cardinality(W) <= Cardinality(R)
    BY <2>3, <2>4, FS_Subset
  <2>6. Cardinality(W) \in Nat /\ Cardinality(R) \in Nat
    BY <2>3, <2>5, FS_CardinalityType
  <2>7. Window(ms \cup {m}, t, width) = W \cup {m}
    BY <1>2 DEF Window
  <2>8. Cardinality(W \cup {m}) <= Cardinality(W) + 1
    BY <2>5, <2>6, FS_AddElement
  <2>9. Cardinality(W \cup {m}) \in Nat
    BY <2>5, FS_AddElement, FS_CardinalityType
  <2> HIDE DEF W, R
  <2>10. Cardinality(W \cup {m}) <= limit
    BY <2>2, <2>5, <2>6, <2>8, <2>9
  <2>11. QED
    BY <2>7, <2>10
<1>3. QED
  BY <1>1, <1>2

LEMMA BoundedAfterTick ==
    ASSUME now \in Nat, now' = now + 1, NEW ms, NEW sms, sms = ms, History(ms),
           NEW limit \in Nat \ {0}, NEW width \in Nat \ {0}, Bounded(ms, limit, width)
    PROVE  \A t \in 0 .. now' : Cardinality(Window(sms, t, width)) <= limit
<1> SUFFICES ASSUME NEW t \in 0 .. now'
             PROVE  Cardinality(Window(ms, t, width)) <= limit
  OBVIOUS
<1>1. CASE t # now'
  <2>1. t \in 0 .. now
    BY <1>1
  <2>2. QED
    BY <2>1 DEF Bounded
<1>2. CASE t = now'
  <2>1. Window(ms, t, width) \subseteq Window(ms, now, width)
    BY <1>2 DEF Window, History, Message
  <2>2. Cardinality(Window(ms, now, width)) <= limit
    BY DEF Bounded
  <2>3. /\ Cardinality(Window(ms, t, width)) <= Cardinality(Window(ms, now, width))
        /\ Cardinality(Window(ms, t, width)) \in Nat
        /\ Cardinality(Window(ms, now, width)) \in Nat
    BY <2>1, WindowFinite, FS_Subset DEF History
  <2>4. QED
    BY <2>2, <2>3
<1>3. QED
  BY <1>1, <1>2

-----------------------------------------------------------------------------
(* The inductive invariant. *)

HistoryInv == sent \subseteq Message /\ IsFiniteSet(sent) /\ \A m \in sent : m.at <= now

ListsCover ==
    \A b \in Bots :
        /\ Covers(botStamps[b], OfBot(b), Second)
        /\ \A c \in Chats : Covers(chatStamps[b][c], InChat(b, c), Second)
        /\ \A c \in Groups : Covers(groupStamps[b][c], InChat(b, c), GroupWindow)

IInv == TypeOK /\ HistoryInv /\ ListsCover /\ ChatLimit /\ BotLimit /\ GroupLimit

LEMMA PastMessages ==
    ASSUME HistoryInv, NEW b \in Bots, NEW c
    PROVE  History(OfBot(b)) /\ History(InChat(b, c))
<1>1. OfBot(b) \subseteq sent /\ InChat(b, c) \subseteq sent
  BY DEF OfBot, InChat
<1>2. IsFiniteSet(OfBot(b)) /\ IsFiniteSet(InChat(b, c))
  BY <1>1, FS_Subset DEF HistoryInv
<1>3. QED
  BY <1>1, <1>2 DEF History, HistoryInv

LEMMA NothingSent ==
    ASSUME NEW ms, ms = {}, NEW t, NEW width, NEW limit \in Nat
    PROVE  Cardinality(Window(ms, t, width)) <= limit
<1>1. Window(ms, t, width) = {}
  BY DEF Window
<1>2. QED
  BY <1>1, FS_EmptySet

\* A limiter that has just been made.
NewLimiter ==
    /\ now \in Nat /\ limited \in BOOLEAN
    /\ chatStamps = NoStamps /\ groupStamps = NoStamps
    /\ botStamps = [b \in Bots |-> {}]
    /\ sent = {} /\ refusal = NoRefusal

LEMMA NewLimiterIInv == NewLimiter => IInv
<1> SUFFICES ASSUME NewLimiter
             PROVE  IInv
  OBVIOUS
<1> USE DEF NewLimiter
<1>1. TypeOK
  BY DEF TypeOK, NoStamps
<1>2. HistoryInv
  BY FS_EmptySet DEF HistoryInv
<1>3. \A b \in Bots : OfBot(b) = {} /\ \A c \in Chats : InChat(b, c) = {}
  BY DEF OfBot, InChat
<1>4. ListsCover
  BY <1>3, GroupsAssumption DEF ListsCover, Covers, NoStamps
<1>5. ChatLimit /\ BotLimit /\ GroupLimit
  BY <1>3, NothingSent, GroupsAssumption, LimitsAssumption DEF ChatLimit, BotLimit, GroupLimit
<1>6. QED
  BY <1>1, <1>2, <1>4, <1>5 DEF IInv

-----------------------------------------------------------------------------
(* One lemma per action. *)

LEMMA TickIInv == IInv /\ Tick => IInv'
<1> SUFFICES ASSUME IInv, Tick
             PROVE  IInv'
  OBVIOUS
<1>0. now \in Nat /\ now' = now + 1 /\ now' \in Nat
  BY DEF IInv, TypeOK, Tick
<1>1. /\ limited' = limited /\ chatStamps' = chatStamps /\ botStamps' = botStamps
      /\ groupStamps' = groupStamps /\ sent' = sent /\ refusal' = refusal
  BY DEF Tick, stampVars
<1>2. TypeOK'
  BY <1>0, <1>1 DEF IInv, TypeOK
<1>3. HistoryInv'
  BY <1>0, <1>1 DEF IInv, HistoryInv, Message
<1>4. \A b \in Bots : OfBot(b)' = OfBot(b) /\ \A c \in Chats : InChat(b, c)' = InChat(b, c)
  BY <1>1 DEF OfBot, InChat
<1>5. ASSUME NEW ms, NEW stamps, NEW width \in Nat, ms \subseteq sent,
             Covers(stamps, ms, width)
      PROVE  stamps \subseteq ms /\ \A m \in ms : m.at > now' - width => m \in stamps
  BY <1>0, <1>5 DEF Covers, Message, IInv, HistoryInv
<1>6. \A b \in Bots : OfBot(b) \subseteq sent /\ \A c \in Chats : InChat(b, c) \subseteq sent
  BY DEF OfBot, InChat
<1>7. ListsCover'
  <2> SUFFICES ASSUME NEW b \in Bots
               PROVE  /\ Covers(botStamps[b], OfBot(b), Second)'
                      /\ \A c \in Chats : Covers(chatStamps[b][c], InChat(b, c), Second)'
                      /\ \A c \in Groups :
                            Covers(groupStamps[b][c], InChat(b, c), GroupWindow)'
    BY DEF ListsCover
  <2>1. Covers(botStamps[b], OfBot(b), Second)'
    BY <1>1, <1>4, <1>5, <1>6, LimitsAssumption DEF IInv, ListsCover, Covers
  <2>2. ASSUME NEW c \in Chats
        PROVE  Covers(chatStamps[b][c], InChat(b, c), Second)'
    <3>1. Covers(chatStamps[b][c], InChat(b, c), Second)
      BY DEF IInv, ListsCover
    <3>2. QED
      BY <1>1, <1>4, <1>5, <1>6, <3>1, LimitsAssumption DEF Covers
  <2>3. ASSUME NEW c \in Groups
        PROVE  Covers(groupStamps[b][c], InChat(b, c), GroupWindow)'
    <3>1. Covers(groupStamps[b][c], InChat(b, c), GroupWindow)
      BY DEF IInv, ListsCover
    <3>2. QED
      BY <1>1, <1>4, <1>5, <1>6, <3>1, LimitsAssumption, GroupsAssumption DEF Covers
  <2>4. QED
    BY <2>1, <2>2, <2>3
<1>8. ChatLimit'
  <2> SUFFICES ASSUME NEW b \in Bots, NEW c \in Chats
               PROVE  \A t \in 0 .. now' : Cardinality(Window(InChat(b, c)', t, Second)) <= PerChat
    BY DEF ChatLimit, Window
  <2>1. History(InChat(b, c)) /\ Bounded(InChat(b, c), PerChat, Second)
    BY PastMessages DEF IInv, ChatLimit, Bounded
  <2>2. QED
    BY <1>0, <1>4, <2>1, BoundedAfterTick, LimitsAssumption
<1>9. BotLimit'
  <2> SUFFICES ASSUME NEW b \in Bots
               PROVE  \A t \in 0 .. now' : Cardinality(Window(OfBot(b)', t, Second)) <= Global
    BY DEF BotLimit, Window
  <2>1. History(OfBot(b)) /\ Bounded(OfBot(b), Global, Second)
    BY PastMessages DEF IInv, BotLimit, Bounded
  <2>2. QED
    BY <1>0, <1>4, <2>1, BoundedAfterTick, LimitsAssumption
<1>10. GroupLimit'
  <2> SUFFICES ASSUME NEW b \in Bots, NEW c \in Groups
               PROVE  \A t \in 0 .. now' :
                        Cardinality(Window(InChat(b, c)', t, GroupWindow)) <= PerGroup
    BY DEF GroupLimit, Window
  <2>1. History(InChat(b, c)) /\ Bounded(InChat(b, c), PerGroup, GroupWindow)
    BY PastMessages DEF IInv, GroupLimit, Bounded
  <2>2. QED
    BY <1>0, <1>4, <2>1, BoundedAfterTick, LimitsAssumption, GroupsAssumption
<1>11. QED
  BY <1>2, <1>3, <1>7, <1>8, <1>9, <1>10 DEF IInv

LEMMA TrimIInv ==
    ASSUME IInv, NEW b \in Bots, NEW c \in Chats, NEW checked, Trim(b, c, checked),
           UNCHANGED <<now, limited, sent>>, refusal' \in Refusal \cup {NoRefusal}
    PROVE  IInv'
<1>1. /\ chatStamps' \in [Bots -> [Chats -> SUBSET Message]]
      /\ botStamps' \in [Bots -> SUBSET Message]
      /\ groupStamps' \in [Bots -> [Chats -> SUBSET Message]]
  BY DEF Trim, Recent, IInv, TypeOK
<1>2. TypeOK'
  <2>1. \A d \in Bots, e \in Chats \ Groups : groupStamps'[d][e] = groupStamps[d][e]
    BY DEF Trim, IInv, TypeOK
  <2>2. QED
    BY <1>1, <2>1 DEF IInv, TypeOK
<1>3. HistoryInv' /\ ChatLimit' /\ BotLimit' /\ GroupLimit'
  BY DEF IInv, HistoryInv, ChatLimit, BotLimit, GroupLimit, InChat, OfBot, Window
<1>4. \A d \in Bots :
        /\ botStamps'[d] \in {botStamps[d], Recent(botStamps[d], Second)}
        /\ \A e \in Chats :
             /\ chatStamps'[d][e] \in {chatStamps[d][e], Recent(chatStamps[d][e], Second)}
             /\ groupStamps'[d][e] \in {groupStamps[d][e], Recent(groupStamps[d][e], GroupWindow)}
  BY DEF Trim, IInv, TypeOK
<1>5. ListsCover'
  BY <1>4, CoversTrimmed, GroupsAssumption DEF IInv, ListsCover, Covers, OfBot, InChat
<1>6. QED
  BY <1>2, <1>3, <1>5 DEF IInv

LEMMA SendIInv ==
    ASSUME IInv, NEW b \in Bots, NEW c \in Chats, Send(b, c)
    PROVE  IInv'
<1> DEFINE m == [bot |-> b, chat |-> c, at |-> now, n |-> Cardinality(sent)]
<1>0. now \in Nat /\ now' = now /\ limited' = limited /\ sent' = sent \cup {m}
      /\ refusal' = NoRefusal
  BY DEF Send, IInv, TypeOK
<1>1. m \in Message /\ m.at = now /\ m.bot = b /\ m.chat = c
  BY <1>0, FS_CardinalityType DEF Message, IInv, HistoryInv
<1>2. Record(b, c, m)
  BY DEF Send
<1>3. /\ RetryAfter(chatStamps[b][c], PerChat, Second) = 0
      /\ RetryAfter(botStamps[b], Global, Second) = 0
      /\ c \in Groups => RetryAfter(groupStamps[b][c], PerGroup, GroupWindow) = 0
  BY DEF Send, Waits, Buckets
<1> HIDE DEF m
<1>4. /\ \A d \in Bots : OfBot(d)' = IF d = b THEN OfBot(d) \cup {m} ELSE OfBot(d)
      /\ \A d \in Bots, e \in Chats :
            InChat(d, e)' = IF d = b /\ e = c THEN InChat(d, e) \cup {m} ELSE InChat(d, e)
  BY <1>0, <1>1 DEF OfBot, InChat
<1>5. TypeOK'
  <2>1. /\ chatStamps' \in [Bots -> [Chats -> SUBSET Message]]
        /\ botStamps' \in [Bots -> SUBSET Message]
        /\ groupStamps' \in [Bots -> [Chats -> SUBSET Message]]
    BY <1>1, <1>2 DEF Record, Recent, IInv, TypeOK
  <2>2. \A d \in Bots, e \in Chats \ Groups : groupStamps'[d][e] = groupStamps[d][e]
    BY <1>2 DEF Record, IInv, TypeOK
  <2>3. QED
    BY <1>0, <1>1, <2>1, <2>2 DEF IInv, TypeOK
<1>6. HistoryInv'
  BY <1>0, <1>1, FS_AddElement DEF IInv, HistoryInv
<1>7. ListsCover'
  <2> SUFFICES ASSUME NEW d \in Bots
               PROVE  /\ Covers(botStamps[d], OfBot(d), Second)'
                      /\ \A e \in Chats : Covers(chatStamps[d][e], InChat(d, e), Second)'
                      /\ \A e \in Groups :
                            Covers(groupStamps[d][e], InChat(d, e), GroupWindow)'
    BY DEF ListsCover
  <2>1. Covers(botStamps[d], OfBot(d), Second)'
    <3>1. Covers(botStamps[d], OfBot(d), Second)
      BY DEF IInv, ListsCover
    <3>2. botStamps'[d] = IF d = b THEN Recent(botStamps[d], Second) \cup {m} ELSE botStamps[d]
      BY <1>2 DEF Record, IInv, TypeOK
    <3>3. QED
      BY <1>0, <1>4, <3>1, <3>2 DEF Covers, Recent
  <2>2. ASSUME NEW e \in Chats
        PROVE  Covers(chatStamps[d][e], InChat(d, e), Second)'
    <3>1. Covers(chatStamps[d][e], InChat(d, e), Second)
      BY DEF IInv, ListsCover
    <3>2. chatStamps'[d][e] = IF d = b /\ e = c
                              THEN Recent(chatStamps[d][e], Second) \cup {m}
                              ELSE chatStamps[d][e]
      BY <1>2 DEF Record, IInv, TypeOK
    <3>3. QED
      BY <1>0, <1>4, <3>1, <3>2 DEF Covers, Recent
  <2>3. ASSUME NEW e \in Groups
        PROVE  Covers(groupStamps[d][e], InChat(d, e), GroupWindow)'
    <3>1. Covers(groupStamps[d][e], InChat(d, e), GroupWindow) /\ e \in Chats
      BY GroupsAssumption DEF IInv, ListsCover
    <3>2. groupStamps'[d][e] = IF d = b /\ e = c
                               THEN Recent(groupStamps[d][e], GroupWindow) \cup {m}
                               ELSE groupStamps[d][e]
      BY <1>2, <3>1 DEF Record, IInv, TypeOK
    <3>3. QED
      BY <1>0, <1>4, <3>1, <3>2 DEF Covers, Recent
  <2>4. QED
    BY <2>1, <2>2, <2>3
<1>8. ChatLimit'
  <2> SUFFICES ASSUME NEW d \in Bots, NEW e \in Chats
               PROVE  \A t \in 0 .. now : Cardinality(Window(InChat(d, e)', t, Second)) <= PerChat
    BY <1>0 DEF ChatLimit, Window
  <2>1. History(InChat(d, e)) /\ Bounded(InChat(d, e), PerChat, Second)
    BY PastMessages DEF IInv, ChatLimit, Bounded
  <2>2. Covers(chatStamps[d][e], InChat(d, e), Second)
    BY DEF IInv, ListsCover
  <2>3. CASE d = b /\ e = c
    <3>1. Bounded(InChat(d, e) \cup {m}, PerChat, Second)
      BY <1>0, <1>1, <1>3, <2>1, <2>2, <2>3, BoundedAfterSend, LimitsAssumption
    <3>2. QED
      BY <1>4, <2>3, <3>1 DEF Bounded
  <2>4. CASE ~(d = b /\ e = c)
    BY <1>4, <2>1, <2>4 DEF Bounded
  <2>5. QED
    BY <2>3, <2>4
<1>9. BotLimit'
  <2> SUFFICES ASSUME NEW d \in Bots
               PROVE  \A t \in 0 .. now : Cardinality(Window(OfBot(d)', t, Second)) <= Global
    BY <1>0 DEF BotLimit, Window
  <2>1. History(OfBot(d)) /\ Bounded(OfBot(d), Global, Second)
    BY PastMessages DEF IInv, BotLimit, Bounded
  <2>2. Covers(botStamps[d], OfBot(d), Second)
    BY DEF IInv, ListsCover
  <2>3. CASE d = b
    <3>1. Bounded(OfBot(d) \cup {m}, Global, Second)
      BY <1>0, <1>1, <1>3, <2>1, <2>2, <2>3, BoundedAfterSend, LimitsAssumption
    <3>2. QED
      BY <1>4, <2>3, <3>1 DEF Bounded
  <2>4. CASE d # b
    BY <1>4, <2>1, <2>4 DEF Bounded
  <2>5. QED
    BY <2>3, <2>4
<1>10. GroupLimit'
  <2> SUFFICES ASSUME NEW d \in Bots, NEW e \in Groups
               PROVE  \A t \in 0 .. now :
                        Cardinality(Window(InChat(d, e)', t, GroupWindow)) <= PerGroup
    BY <1>0 DEF GroupLimit, Window
  <2>1. e \in Chats /\ History(InChat(d, e)) /\ Bounded(InChat(d, e), PerGroup, GroupWindow)
    BY PastMessages, GroupsAssumption DEF IInv, GroupLimit, Bounded
  <2>2. Covers(groupStamps[d][e], InChat(d, e), GroupWindow)
    BY DEF IInv, ListsCover
  <2>3. CASE d = b /\ e = c
    <3>1. Bounded(InChat(d, e) \cup {m}, PerGroup, GroupWindow)
      BY <1>0, <1>1, <1>3, <2>1, <2>2, <2>3, BoundedAfterSend, LimitsAssumption
    <3>2. QED
      BY <1>4, <2>1, <2>3, <3>1 DEF Bounded
  <2>4. CASE ~(d = b /\ e = c)
    BY <1>4, <2>1, <2>4 DEF Bounded
  <2>5. QED
    BY <2>3, <2>4
<1>11. QED
  BY <1>5, <1>6, <1>7, <1>8, <1>9, <1>10 DEF IInv

LEMMA WaitsAreSeconds ==
    ASSUME IInv, NEW b \in Bots, NEW c \in Chats, NEW k \in Buckets
    PROVE  Waits(b, c)[k] \in Int
<1>1. ASSUME NEW stamps \in SUBSET Message, NEW ms, Covers(stamps, ms, Second) \/
                                                  Covers(stamps, ms, GroupWindow),
             History(ms), NEW limit \in Nat \ {0}, NEW width \in Nat \ {0}
      PROVE  RetryAfter(stamps, limit, width) \in Nat
  <2>1. now \in Nat /\ IsFiniteSet(stamps)
    BY <1>1, FS_Subset DEF Covers, History, IInv, TypeOK
  <2>2. QED
    BY <2>1, RetryAfterBounds
<1>2. History(OfBot(b)) /\ History(InChat(b, c))
  BY PastMessages DEF IInv
<1>3. /\ botStamps[b] \in SUBSET Message
      /\ chatStamps[b][c] \in SUBSET Message
      /\ groupStamps[b][c] \in SUBSET Message
  BY DEF IInv, TypeOK
<1>4. RetryAfter(botStamps[b], Global, Second) \in Nat
  BY <1>1, <1>2, <1>3, LimitsAssumption DEF IInv, ListsCover
<1>5. RetryAfter(chatStamps[b][c], PerChat, Second) \in Nat
  BY <1>1, <1>2, <1>3, LimitsAssumption DEF IInv, ListsCover
<1>6. c \in Groups => RetryAfter(groupStamps[b][c], PerGroup, GroupWindow) \in Nat
  BY <1>1, <1>2, <1>3, LimitsAssumption DEF IInv, ListsCover
<1>7. QED
  BY <1>4, <1>5, <1>6 DEF Waits, Buckets

LEMMA TooManyRequestsIInv ==
    ASSUME IInv, NEW b \in Bots, NEW c \in Chats, TooManyRequests(b, c)
    PROVE  IInv'
<1>1. PICK k \in Buckets, before \in SUBSET Buckets :
        /\ Trim(b, c, before \cup {k})
        /\ refusal' = [bot |-> b, chat |-> c, at |-> now, retryAfter |-> Waits(b, c)[k]]
  <2>1. \A k \in Buckets :
            [chat |-> {}, bot |-> {"chat"}, group |-> {"chat", "bot"}][k] \in SUBSET Buckets
    BY DEF Buckets
  <2>2. QED
    BY <2>1 DEF TooManyRequests
<1>2. refusal' \in Refusal
  BY <1>1, WaitsAreSeconds DEF Refusal, IInv, TypeOK
<1>3. UNCHANGED <<now, limited, sent>>
  BY DEF TooManyRequests
<1>4. QED
  BY <1>1, <1>2, <1>3, TrimIInv

-----------------------------------------------------------------------------
(* IInv is an inductive invariant of the specification. *)
THEOREM Invariance == Spec => []IInv
<1>1. Init => IInv
  BY NewLimiterIInv DEF Init, NewLimiter
<1>2. IInv /\ [Next]_vars => IInv'
  <2> SUFFICES ASSUME IInv, [Next]_vars
               PROVE  IInv'
    OBVIOUS
  <2>1. ASSUME Tick
        PROVE  IInv'
    BY <2>1, TickIInv
  <2>2. ASSUME NEW profile \in BOOLEAN, SetLimits(profile)
        PROVE  IInv'
    <3>1. NewLimiter'
      BY <2>2 DEF SetLimits, NewLimiter, NoStamps, IInv, TypeOK
    <3>2. QED
      BY <3>1, NewLimiterIInv, PTL
  <2>3. ASSUME NEW b \in Bots, NEW c \in Chats, Send(b, c)
        PROVE  IInv'
    BY <2>3, SendIInv
  <2>4. ASSUME NEW b \in Bots, NEW c \in Chats, SendFails(b, c)
        PROVE  IInv'
    BY <2>4, TrimIInv DEF SendFails, IInv, TypeOK
  <2>5. ASSUME NEW b \in Bots, NEW c \in Chats, TooManyRequests(b, c)
        PROVE  IInv'
    BY <2>5, TooManyRequestsIInv
  <2>6. CASE UNCHANGED vars
    <3>1. TypeOK' /\ HistoryInv'
      BY <2>6 DEF vars, stampVars, IInv, TypeOK, HistoryInv
    <3>2. ListsCover'
      BY <2>6 DEF vars, stampVars, IInv, ListsCover, Covers, InChat, OfBot
    <3>3. ChatLimit' /\ BotLimit' /\ GroupLimit'
      BY <2>6 DEF vars, IInv, ChatLimit, BotLimit, GroupLimit, InChat, OfBot, Window
    <3>4. QED
      BY <3>1, <3>2, <3>3 DEF IInv
  <2>7. QED
    BY <2>1, <2>2, <2>3, <2>4, <2>5, <2>6 DEF Next
<1>3. QED
  BY <1>1, <1>2, PTL DEF Spec

(* Type correctness. *)
THEOREM LimiterType == Spec => []TypeOK
<1>1. IInv => TypeOK
  BY DEF IInv
<1>2. QED
  BY <1>1, Invariance, PTL

-----------------------------------------------------------------------------
(* The lists: a message is recorded in a list that had room. *)

LEMMA ShortAfterTrim ==
    ASSUME NEW stamps \in SUBSET Message, IsFiniteSet(stamps), NEW width,
           NEW limit \in Nat, Cardinality(stamps) <= limit
    PROVE  Cardinality(Recent(stamps, width)) <= limit
<1>1. Recent(stamps, width) \subseteq stamps
  BY DEF Recent
<1>2. Cardinality(Recent(stamps, width)) <= Cardinality(stamps)
  BY <1>1, FS_Subset
<1>3. IsFiniteSet(Recent(stamps, width))
  BY <1>1, FS_Subset
<1>4. QED
  BY <1>2, <1>3, FS_CardinalityType

LEMMA ShortAfterRecord ==
    ASSUME now \in Nat, NEW stamps \in SUBSET Message, IsFiniteSet(stamps),
           NEW limit \in Nat \ {0}, NEW width \in Nat \ {0},
           RetryAfter(stamps, limit, width) = 0, NEW m
    PROVE  Cardinality(Recent(stamps, width) \cup {m}) <= limit
<1> DEFINE kept == Recent(stamps, width)
<1>1. Cardinality(kept) < limit
  BY RetryAfterBounds
<1>2. IsFiniteSet(kept)
  BY FS_Subset DEF Recent
<1> HIDE DEF kept
<1>3. Cardinality(kept) \in Nat /\ Cardinality(kept \cup {m}) \in Nat
      /\ Cardinality(kept \cup {m}) <= Cardinality(kept) + 1
  BY <1>2, FS_AddElement, FS_CardinalityType
<1>4. Cardinality(kept \cup {m}) <= limit
  BY <1>1, <1>3
<1>5. QED
  BY <1>4 DEF kept

LEMMA ListsAreFinite ==
    ASSUME IInv, NEW b \in Bots
    PROVE  /\ botStamps[b] \in SUBSET Message /\ IsFiniteSet(botStamps[b])
           /\ \A c \in Chats :
                /\ chatStamps[b][c] \in SUBSET Message /\ IsFiniteSet(chatStamps[b][c])
                /\ groupStamps[b][c] \in SUBSET Message /\ IsFiniteSet(groupStamps[b][c])
<1>1. botStamps[b] \subseteq OfBot(b)
  BY DEF IInv, ListsCover, Covers
<1>2. \A c \in Chats : chatStamps[b][c] \subseteq InChat(b, c)
  BY DEF IInv, ListsCover, Covers
<1>3. \A c \in Groups : groupStamps[b][c] \subseteq InChat(b, c)
  BY DEF IInv, ListsCover, Covers
<1>4. \A c \in Chats \ Groups : groupStamps[b][c] = {}
  BY DEF IInv, TypeOK
<1>5. IsFiniteSet(OfBot(b)) /\ \A c \in Chats : IsFiniteSet(InChat(b, c))
  BY PastMessages DEF IInv, History
<1>6. IsFiniteSet(botStamps[b])
  BY <1>1, <1>5, FS_Subset
<1>7. ASSUME NEW c \in Chats
      PROVE  IsFiniteSet(chatStamps[b][c]) /\ IsFiniteSet(groupStamps[b][c])
  <2>1. IsFiniteSet(chatStamps[b][c])
    BY <1>2, <1>5, FS_Subset
  <2>2. CASE c \in Groups
    BY <1>3, <1>5, <2>1, <2>2, FS_Subset
  <2>3. CASE c \notin Groups
    BY <1>4, <2>1, <2>3, FS_EmptySet
  <2>4. QED
    BY <2>2, <2>3
<1>8. /\ botStamps[b] \in SUBSET Message
      /\ \A c \in Chats : chatStamps[b][c] \in SUBSET Message
                       /\ groupStamps[b][c] \in SUBSET Message
  BY DEF IInv, TypeOK
<1>9. QED
  BY <1>6, <1>7, <1>8

LEMMA ShortNext == IInv /\ ListsStayShort /\ [Next]_vars => ListsStayShort'
<1> SUFFICES ASSUME IInv, ListsStayShort, [Next]_vars
             PROVE  ListsStayShort'
  OBVIOUS
<1>1. ASSUME NEW b \in Bots, NEW c \in Chats, NEW checked, Trim(b, c, checked)
      PROVE  ListsStayShort'
  <2>1. \A d \in Bots :
          /\ botStamps'[d] \in {botStamps[d], Recent(botStamps[d], Second)}
          /\ \A e \in Chats :
               /\ chatStamps'[d][e] \in {chatStamps[d][e], Recent(chatStamps[d][e], Second)}
               /\ groupStamps'[d][e] \in
                    {groupStamps[d][e], Recent(groupStamps[d][e], GroupWindow)}
    BY <1>1 DEF Trim, IInv, TypeOK
  <2>2. QED
    BY <2>1, ListsAreFinite, ShortAfterTrim, LimitsAssumption DEF ListsStayShort
<1>2. ASSUME NEW b \in Bots, NEW c \in Chats, Send(b, c)
      PROVE  ListsStayShort'
  <2>1. PICK m : Record(b, c, m)
    BY <1>2 DEF Send
  <2>2. /\ RetryAfter(chatStamps[b][c], PerChat, Second) = 0
        /\ RetryAfter(botStamps[b], Global, Second) = 0
        /\ c \in Groups => RetryAfter(groupStamps[b][c], PerGroup, GroupWindow) = 0
    BY <1>2 DEF Send, Waits, Buckets
  <2>3. now \in Nat
    BY DEF IInv, TypeOK
  <2>4. /\ Cardinality(Recent(chatStamps[b][c], Second) \cup {m}) <= PerChat
        /\ Cardinality(Recent(botStamps[b], Second) \cup {m}) <= Global
        /\ c \in Groups =>
            Cardinality(Recent(groupStamps[b][c], GroupWindow) \cup {m}) <= PerGroup
    BY <2>2, <2>3, ListsAreFinite, ShortAfterRecord, LimitsAssumption
  <2>5. \A d \in Bots :
          /\ botStamps'[d] = IF d = b THEN Recent(botStamps[d], Second) \cup {m}
                                      ELSE botStamps[d]
          /\ \A e \in Chats :
               /\ chatStamps'[d][e] = IF d = b /\ e = c
                                      THEN Recent(chatStamps[d][e], Second) \cup {m}
                                      ELSE chatStamps[d][e]
               /\ groupStamps'[d][e] = IF d = b /\ e = c /\ c \in Groups
                                       THEN Recent(groupStamps[d][e], GroupWindow) \cup {m}
                                       ELSE groupStamps[d][e]
    BY <2>1 DEF Record, IInv, TypeOK
  <2>6. QED
    BY <2>4, <2>5 DEF ListsStayShort
<1>3. ASSUME NEW profile \in BOOLEAN, SetLimits(profile)
      PROVE  ListsStayShort'
  BY <1>3, FS_EmptySet, LimitsAssumption DEF SetLimits, NoStamps, ListsStayShort
<1>4. CASE Tick \/ UNCHANGED vars
  BY <1>4 DEF Tick, vars, stampVars, ListsStayShort
<1>5. QED
  BY <1>1, <1>2, <1>3, <1>4 DEF Next, SendFails, TooManyRequests

LEMMA ListsAreShort == Spec => []ListsStayShort
<1>1. Init => ListsStayShort
  BY FS_EmptySet, LimitsAssumption DEF Init, NoStamps, ListsStayShort
<1>2. QED
  BY <1>1, ShortNext, Invariance, PTL DEF Spec

(* In no window of a second does a chat get more than its limit from one   *)
(* bot, nor does the bot send more than its limit; in no window of a       *)
(* minute does a group get more than its limit from one bot; and though    *)
(* only checks trim the lists, none is ever longer than its limit.         *)
THEOREM LimitsAlwaysHold == Spec => []LimitsHold
<1>1. IInv /\ ListsStayShort => LimitsHold
  BY DEF IInv, LimitsHold
<1>2. QED
  BY <1>1, Invariance, ListsAreShort, PTL

-----------------------------------------------------------------------------
(* The limiter decides as the windows over the whole log would.            *)

LEMMA SecondsRoundUp ==
    ASSUME NEW ticks \in Nat \ {0}
    PROVE  /\ SecondsUp(ticks) * Second >= ticks
           /\ (SecondsUp(ticks) - 1) * Second < ticks
<1> DEFINE x == ticks + Second - 1
           q == x \div Second
           r == x % Second
<1>1. x \in Nat /\ Second \in Nat \ {0}
  BY LimitsAssumption
<1>2. q \in Int /\ r \in 0 .. Second - 1 /\ x = Second * q + r
  BY <1>1
<1> HIDE DEF q, r
<1>3. q * Second = Second * q /\ (q - 1) * Second = Second * q - Second
  BY <1>1, <1>2
<1>4. Second * q \in Int
  BY <1>1, <1>2
<1>5. Second * q >= ticks /\ Second * q - Second < ticks
  BY <1>1, <1>2, <1>4
<1>6. SecondsUp(ticks) = q
  BY DEF SecondsUp, q
<1>7. QED
  BY <1>3, <1>5, <1>6

\* A check sees all of the window that ends now, and nothing else.
LEMMA RecentIsWindow ==
    ASSUME now \in Nat, NEW ms, History(ms), NEW width \in Nat \ {0},
           NEW stamps, Covers(stamps, ms, width)
    PROVE  Recent(stamps, width) = Window(ms, now, width)
<1>1. \A m \in ms : m.at \in Nat /\ m.at <= now
  BY DEF History, Message
<1>2. QED
  BY <1>1 DEF Recent, Window, Covers

\* SlidingWindows counts with its own instance of FiniteSets.
LEMMA SameCardinality == \A S : Windows!Cardinality(S) = Cardinality(S)
BY DEF Cardinality, Windows!Cardinality

\* A limit as SlidingWindows has it.
On(ms, limit, width) == [on |-> ms, limit |-> limit, width |-> width]

LEMMA RoomInWindow ==
    ASSUME NEW ms, NEW limit, NEW width, NEW t
    PROVE  Windows!HasRoom(On(ms, limit, width), t) <=>
                Cardinality(Window(ms, t, width)) < limit
BY SameCardinality DEF Windows!HasRoom, On, Window

LEMMA LimitsOn ==
    ASSUME NEW b, NEW c
    PROVE  Windows!Limits(b, c) =
             {On(InChat(b, c), PerChat, Second), On(OfBot(b), Global, Second)}
             \cup (IF c \in Groups THEN {On(InChat(b, c), PerGroup, GroupWindow)} ELSE {})
BY DEF Windows!Limits, Windows!InChat, Windows!OfBot, On, InChat, OfBot

\* A list that does not refuse stands for a window with room.
LEMMA PassedHasRoom ==
    ASSUME now \in Nat, NEW ms, History(ms), NEW limit \in Nat \ {0},
           NEW width \in Nat \ {0}, NEW stamps, Covers(stamps, ms, width),
           RetryAfter(stamps, limit, width) = 0
    PROVE  Windows!HasRoom(On(ms, limit, width), now)
<1>1. stamps \in SUBSET Message /\ IsFiniteSet(stamps)
  BY FS_Subset DEF Covers, History
<1>2. Cardinality(Recent(stamps, width)) < limit
  BY <1>1, RetryAfterBounds
<1>3. QED
  BY <1>2, RecentIsWindow, RoomInWindow

\* When the oldest of a full window has left it, and not before, there is room.
LEMMA RoomWhenOldestLeaves ==
    ASSUME now \in Nat, NEW ms, History(ms), NEW limit \in Nat, NEW width \in Nat \ {0},
           Cardinality(Window(ms, now, width)) = limit,
           NEW o \in Window(ms, now, width), \A m \in Window(ms, now, width) : o.at <= m.at,
           NEW t \in Nat, now <= t
    PROVE  Windows!HasRoom(On(ms, limit, width), t) <=> o.at <= t - width
<1> DEFINE W == Window(ms, now, width)
           V == Window(ms, t, width)
<1>1. \A m \in ms : m.at \in Nat /\ m.at <= now
  BY DEF History, Message
<1>2. o \in ms /\ o.at \in Nat /\ now - width < o.at /\ o.at <= now
  BY <1>1 DEF Window
<1>3. IsFiniteSet(W) /\ IsFiniteSet(V) /\ Cardinality(V) \in Nat
  BY WindowFinite DEF History
<1>4. V \subseteq W
  BY <1>1 DEF Window
<1>5. CASE o.at <= t - width
  <2>1. o \notin V
    BY <1>2, <1>5 DEF Window
  <2>2. Cardinality(V) <= limit /\ Cardinality(V) # limit
    BY <1>3, <1>4, <2>1, FS_Subset
  <2>3. Cardinality(V) < limit
    BY <1>3, <2>2
  <2>4. QED
    BY <1>5, <2>3, RoomInWindow
<1>6. CASE ~(o.at <= t - width)
  <2>1. W \subseteq V
    BY <1>1, <1>2, <1>6 DEF Window
  <2>2. V = W
    BY <1>4, <2>1
  <2>3. ~(Cardinality(V) < limit)
    BY <2>2
  <2>4. QED
    BY <1>6, <2>3, RoomInWindow
<1>7. QED
  BY <1>5, <1>6

\* A list that refuses stands for a full window, and its wait is the least.
LEMMA RefusalIsLeastWait ==
    ASSUME now \in Nat, NEW ms, History(ms), NEW limit \in Nat \ {0},
           NEW width \in Nat \ {0}, NEW stamps, Covers(stamps, ms, width),
           Bounded(ms, limit, width), RetryAfter(stamps, limit, width) > 0
    PROVE  /\ RetryAfter(stamps, limit, width) \in 1 .. width
           /\ Windows!IsWait(On(ms, limit, width), RetryAfter(stamps, limit, width))
<1> DEFINE W == Window(ms, now, width)
           s == RetryAfter(stamps, limit, width)
<1>1. Recent(stamps, width) = W
  BY RecentIsWindow
<1>2. IsFiniteSet(W) /\ Cardinality(W) \in Nat /\ Cardinality(W) <= limit
  BY WindowFinite DEF History, Bounded
<1>3. W \in SUBSET Message
  BY DEF Window, History
<1>4. Cardinality(W) = limit
  <2> HIDE DEF W
  <2>1. ~(Cardinality(W) < limit)
    BY <1>1 DEF RetryAfter
  <2>2. QED
    BY <1>2, <2>1
<1>5. W # {}
  BY <1>4, FS_EmptySet
<1> DEFINE o == Oldest(W)
           x == width - (now - o.at)
<1>6. o \in W /\ \A m \in W : o.at <= m.at
  <2> HIDE DEF W
  <2>1. PICK first \in W : \A m \in W : first.at <= m.at
    BY <1>3, <1>5, EarliestIsThere
  <2>2. QED
    BY <2>1 DEF Oldest
<1>7. o.at \in Nat /\ o.at <= now /\ now - width < o.at
  BY <1>3, <1>6 DEF Window, Message
<1>8. x \in 1 .. width
  BY <1>7
<1>9. s = SecondsUp(x)
  BY <1>1, <1>4, <1>8 DEF RetryAfter
<1> HIDE DEF s, W, o
<1>10. s \in Nat \ {0} /\ s * Second >= x /\ (s - 1) * Second < x
  BY <1>8, <1>9, SecondsAreEnough, SecondsRoundUp
<1>11. s <= x
  <2>1. s - 1 \in Nat /\ Second \in Nat \ {0}
    BY <1>10, LimitsAssumption
  <2>2. s - 1 <= (s - 1) * Second
    BY <2>1
  <2>3. (s - 1) * Second \in Nat
    BY <2>1
  <2> HIDE DEF x
  <2>4. QED
    BY <1>8, <1>10, <2>1, <2>2, <2>3
<1>12. Windows!HasRoom(On(ms, limit, width), now + s * Second)
  <2>1. s * Second \in Nat
    BY <1>10, LimitsAssumption
  <2>2. now + s * Second \in Nat /\ o.at <= now + s * Second - width
    BY <1>7, <1>10, <2>1
  <2>3. QED
    BY <1>4, <1>6, <2>1, <2>2, RoomWhenOldestLeaves DEF W
<1>13. ASSUME NEW fewer \in 0 .. s - 1
       PROVE  ~Windows!HasRoom(On(ms, limit, width), now + fewer * Second)
  <2>1. fewer \in Nat /\ s - 1 - fewer \in Nat /\ Second \in Nat \ {0}
    BY <1>10, LimitsAssumption
  <2>2. (s - 1 - fewer) * Second \in Nat /\ fewer * Second \in Nat
    BY <2>1
  <2>3. (s - 1) * Second = fewer * Second + (s - 1 - fewer) * Second
    BY <1>10, <2>1
  <2>4. now + fewer * Second \in Nat /\ ~(o.at <= now + fewer * Second - width)
    BY <1>7, <1>10, <2>2, <2>3
  <2>5. QED
    BY <1>4, <1>6, <2>2, <2>4, RoomWhenOldestLeaves DEF W
<1>14. s \in 1 .. width
  BY <1>8, <1>10, <1>11
<1>15. QED
  BY <1>12, <1>13, <1>14 DEF Windows!IsWait, s

LEMMA SendIsAccept ==
    ASSUME IInv, NEW b \in Bots, NEW c \in Chats, Send(b, c)
    PROVE  Windows!Accept(b, c)
<1>1. now \in Nat /\ History(OfBot(b)) /\ History(InChat(b, c))
  BY PastMessages DEF IInv, TypeOK
<1>2. /\ RetryAfter(chatStamps[b][c], PerChat, Second) = 0
      /\ RetryAfter(botStamps[b], Global, Second) = 0
      /\ c \in Groups => RetryAfter(groupStamps[b][c], PerGroup, GroupWindow) = 0
  BY DEF Send, Waits, Buckets
<1>3. Windows!HasRoom(On(InChat(b, c), PerChat, Second), now)
  BY <1>1, <1>2, PassedHasRoom, LimitsAssumption DEF IInv, ListsCover
<1>4. Windows!HasRoom(On(OfBot(b), Global, Second), now)
  BY <1>1, <1>2, PassedHasRoom, LimitsAssumption DEF IInv, ListsCover
<1>5. c \in Groups => Windows!HasRoom(On(InChat(b, c), PerGroup, GroupWindow), now)
  BY <1>1, <1>2, PassedHasRoom, LimitsAssumption DEF IInv, ListsCover
<1>6. \A l \in Windows!Limits(b, c) : Windows!HasRoom(l, now)
  BY <1>3, <1>4, <1>5, LimitsOn
<1>7. QED
  BY <1>6, SameCardinality DEF Send, Windows!Accept

LEMMA TooManyIsRefuse ==
    ASSUME IInv, NEW b \in Bots, NEW c \in Chats, TooManyRequests(b, c)
    PROVE  Windows!Refuse(b, c)
<1>1. PICK k \in Buckets :
        /\ Waits(b, c)[k] > 0
        /\ refusal' = [bot |-> b, chat |-> c, at |-> now, retryAfter |-> Waits(b, c)[k]]
  BY DEF TooManyRequests
<1>2. now \in Nat /\ History(OfBot(b)) /\ History(InChat(b, c))
  BY PastMessages DEF IInv, TypeOK
<1>3. ASSUME NEW l \in Windows!Limits(b, c), Waits(b, c)[k] \in 1 .. l.width,
             Windows!IsWait(l, Waits(b, c)[k])
      PROVE  Windows!Refuse(b, c)
  BY <1>1, <1>3 DEF TooManyRequests, Windows!Refuse
<1>4. CASE k = "chat"
  <2> DEFINE l == On(InChat(b, c), PerChat, Second)
  <2>1. Bounded(InChat(b, c), PerChat, Second)
    BY DEF IInv, ChatLimit, Bounded
  <2>2. Waits(b, c)[k] \in 1 .. Second /\ Windows!IsWait(l, Waits(b, c)[k])
    BY <1>1, <1>2, <1>4, <2>1, RefusalIsLeastWait, LimitsAssumption
       DEF Waits, IInv, ListsCover
  <2>3. l \in Windows!Limits(b, c) /\ l.width = Second
    BY LimitsOn DEF On
  <2>4. QED
    BY <1>3, <2>2, <2>3
<1>5. CASE k = "bot"
  <2> DEFINE l == On(OfBot(b), Global, Second)
  <2>1. Bounded(OfBot(b), Global, Second)
    BY DEF IInv, BotLimit, Bounded
  <2>2. Waits(b, c)[k] \in 1 .. Second /\ Windows!IsWait(l, Waits(b, c)[k])
    BY <1>1, <1>2, <1>5, <2>1, RefusalIsLeastWait, LimitsAssumption
       DEF Waits, IInv, ListsCover
  <2>3. l \in Windows!Limits(b, c) /\ l.width = Second
    BY LimitsOn DEF On
  <2>4. QED
    BY <1>3, <2>2, <2>3
<1>6. CASE k = "group"
  <2> DEFINE l == On(InChat(b, c), PerGroup, GroupWindow)
  <2>0. c \in Groups
    BY <1>1, <1>6 DEF Waits
  <2>1. Bounded(InChat(b, c), PerGroup, GroupWindow)
    BY <2>0 DEF IInv, GroupLimit, Bounded
  <2>2. Waits(b, c)[k] \in 1 .. GroupWindow /\ Windows!IsWait(l, Waits(b, c)[k])
    BY <1>1, <1>2, <1>6, <2>0, <2>1, RefusalIsLeastWait, LimitsAssumption
       DEF Waits, IInv, ListsCover
  <2>3. l \in Windows!Limits(b, c) /\ l.width = GroupWindow
    BY <2>0, LimitsOn DEF On
  <2>4. QED
    BY <1>3, <2>2, <2>3
<1>7. QED
  BY <1>4, <1>5, <1>6 DEF Buckets

(* The limiter implements the windows: who is let through and who is not,  *)
(* and for how long, is what the log of all messages would say, though the *)
(* lists only hold what the last checks left in them (limits.py:33-74).    *)
THEOREM LimiterIsWindows == Spec => ImplementsWindows
<1>1. Init => Windows!Init
  BY DEF Init, Windows!Init
<1>2. IInv /\ [Next]_vars => [Windows!Next]_(Windows!vars)
  <2> SUFFICES ASSUME IInv, [Next]_vars
               PROVE  Windows!Next \/ UNCHANGED Windows!vars
    OBVIOUS
  <2>1. CASE Tick
    BY <2>1 DEF Tick, Windows!Next, Windows!Tick
  <2>2. ASSUME NEW profile \in BOOLEAN, SetLimits(profile)
        PROVE  Windows!Next
    BY <2>2 DEF SetLimits, Windows!Next, Windows!NewLog
  <2>3. ASSUME NEW b \in Bots, NEW c \in Chats, Send(b, c)
        PROVE  Windows!Next
    BY <2>3, SendIsAccept DEF Windows!Next
  <2>4. ASSUME NEW b \in Bots, NEW c \in Chats, TooManyRequests(b, c)
        PROVE  Windows!Next
    BY <2>4, TooManyIsRefuse DEF Windows!Next
  <2>5. ASSUME NEW b \in Bots, NEW c \in Chats, SendFails(b, c)
        PROVE  UNCHANGED Windows!vars
    BY <2>5 DEF SendFails, Windows!vars
  <2>6. CASE UNCHANGED vars
    BY <2>6 DEF vars, Windows!vars
  <2>7. QED
    BY <2>1, <2>2, <2>3, <2>4, <2>5, <2>6 DEF Next
<1>3. QED
  BY <1>1, <1>2, Invariance, PTL DEF Spec, ImplementsWindows, Windows!Spec

=============================================================================
