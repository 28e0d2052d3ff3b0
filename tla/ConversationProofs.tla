------------------------- MODULE ConversationProofs -------------------------
(***************************************************************************)
(* Conversation for any number of updates and messages.                    *)
(*                                                                         *)
(* The client compares two numbers of messages, taken at different times.  *)
(* The invariant says, for every moment between them, what the number of   *)
(* the bot's messages tells of what the bot did for the update.            *)
(***************************************************************************)
EXTENDS Conversation, FiniteSetTheorems, WellFoundedInduction, TLAPS

-----------------------------------------------------------------------------
\* The dialog's part of TypeOK, and that it is finite.
ThreadInv ==
    /\ thread \subseteq Message
    /\ \A m, n \in thread : m.id = n.id => m = n
    /\ IsFiniteSet(thread)

\* The bot acknowledges what it handled, and handles what it took.
NumbersInv == acked <= handled /\ handled <= taken /\ taken < nextId

\* The bot has done nothing yet for what it did not take.
SaidInv == \A u \in Updates : said[u] # {} => u <= taken

Shown == Cardinality(BotMessages)

\* Between the two looks of the client.
Posted == client.phase \in {"waiting", "reading"}

\* Only this call pushes: its update is the last one.
UpdateInv == Posted => client.update = nextId - 1 /\ client.update \in Updates

\* The number does not shrink, and grows with a message for the update.
AtLeastInv ==
    ~client.deleted =>
        /\ client.phase = "counted" \/ Posted => Shown >= client.before
        /\ Posted /\ "sent" \in said[client.update] => Shown > client.before

\* If nothing was to be handled, only a message for the update makes it grow.
AtMostInv ==
    ~client.missed =>
        /\ client.phase = "counted" => handled = nextId - 1 /\ Shown <= client.before
        /\ Posted => /\ handled >= client.update - 1
                     /\ Shown > client.before => "sent" \in said[client.update]

IInv ==
    /\ TypeOK /\ NumbersInv /\ SaidInv /\ ThreadInv
    /\ UpdateInv /\ AtLeastInv /\ AtMostInv
    /\ ReplyIsSeen /\ ScreenIsAnswer

-----------------------------------------------------------------------------
(* What posting, editing and deleting do to the dialog and to the number   *)
(* of the bot's messages in it.                                            *)

LEMMA ShownIsNumber ==
    ASSUME ThreadInv
    PROVE  IsFiniteSet(BotMessages) /\ Shown \in Nat
<1>1. IsFiniteSet(BotMessages)
  BY FS_Subset DEF ThreadInv, BotMessages
<1>2. QED
  BY <1>1, FS_CardinalityType DEF Shown

LEMMA NextIdIsNew ==
    ASSUME ThreadInv
    PROVE  /\ NextId \in Nat \ {0}
           /\ \A m \in thread : m.id < NextId
<1>1. CASE thread = {}
  BY <1>1 DEF NextId
<1>2. CASE thread # {}
  <2> DEFINE ids == {m.id : m \in thread}
             room == {MaxMessages - i : i \in ids}
             Less == OpToRel(<, Nat)
  <2>1. ids \subseteq 1 .. MaxMessages /\ ids # {}
    BY <1>2 DEF ThreadInv, Message
  <2>2. room \subseteq Nat /\ room # {}
    BY <2>1, ConversationBounds
  <2>3. IsWellFoundedOn(Less, Nat)
    BY NatLessThanWellFounded
  <2>4. \A u, t \in Nat : u < t => <<u, t>> \in Less
    BY DEF OpToRel
  <2> HIDE DEF Less
  <2>5. PICK t \in room : \A u \in room : ~(<<u, t>> \in Less)
    BY <2>2, <2>3, WFMin
  <2>6. ASSUME NEW u \in room
        PROVE  t <= u
    <3>1. u \in Nat /\ t \in Nat
      BY <2>2
    <3>2. ~(u < t)
      BY <2>4, <2>5, <3>1
    <3>3. QED
      BY <3>1, <3>2
  <2>7. PICK i \in ids : t = MaxMessages - i
    OBVIOUS
  <2>8. ASSUME NEW m \in thread
        PROVE  m.id <= i
    <3>1. MaxMessages - m.id \in room
      OBVIOUS
    <3>2. t <= MaxMessages - m.id
      BY <2>6, <3>1
    <3>3. m.id \in 1 .. MaxMessages /\ i \in 1 .. MaxMessages
      BY <2>1
    <3> HIDE DEF ids, room
    <3>4. QED
      BY <2>7, <3>2, <3>3, ConversationBounds
  <2> DEFINE largest == CHOOSE j \in ids : \A m \in thread : m.id <= j
  <2>9. largest \in ids /\ \A m \in thread : m.id <= largest
    BY <2>8
  <2>10. NextId = 1 + largest
    BY <1>2 DEF NextId
  <2> HIDE DEF largest
  <2>11. \A m \in thread : m.id \in ids
    OBVIOUS
  <2>12. largest \in Nat /\ largest >= 1
    BY <2>1, <2>9
  <2> HIDE DEF ids, room
  <2>13. \A m \in thread : m.id \in Nat
    BY DEF ThreadInv, Message
  <2>14. QED
    BY <2>9, <2>10, <2>12, <2>13
<1>3. QED
  BY <1>1, <1>2

LEMMA Posting ==
    ASSUME ThreadInv, NEW bot \in BOOLEAN, NEW button \in BOOLEAN,
           Post(bot, button)
    PROVE  ThreadInv' /\ Shown' = IF bot THEN Shown + 1 ELSE Shown
<1> DEFINE m == [id |-> NextId, bot |-> bot, button |-> button]
<1>1. NextId \in Nat \ {0} /\ \A n \in thread : n.id < NextId
  BY NextIdIsNew
<1>2. m \in Message /\ thread' = thread \cup {m}
  BY <1>1 DEF Post, Message
<1>3. \A n \in thread : n.id \in Nat /\ n.id # m.id
  BY <1>1 DEF ThreadInv, Message
<1>4. ThreadInv'
  <2>1. IsFiniteSet(thread')
    BY <1>2, FS_AddElement DEF ThreadInv
  <2>2. QED
    BY <1>2, <1>3, <2>1 DEF ThreadInv
<1>5. CASE bot
  <2>1. BotMessages' = BotMessages \cup {m} /\ m \notin BotMessages
    BY <1>2, <1>3, <1>5 DEF BotMessages
  <2>2. QED
    BY <1>4, <1>5, <2>1, ShownIsNumber, FS_AddElement DEF Shown
<1>6. CASE ~bot
  <2>1. BotMessages' = BotMessages
    BY <1>2, <1>6 DEF BotMessages
  <2>2. QED
    BY <1>4, <1>6, <2>1 DEF Shown
<1>7. QED
  BY <1>5, <1>6

LEMMA Deleting ==
    ASSUME ThreadInv, NEW m \in thread, thread' = thread \ {m}
    PROVE  ThreadInv' /\ Shown' = IF m.bot THEN Shown - 1 ELSE Shown
<1>1. ThreadInv'
  BY FS_RemoveElement DEF ThreadInv
<1>2. CASE m.bot
  <2>1. BotMessages' = BotMessages \ {m} /\ m \in BotMessages
    BY <1>2 DEF BotMessages
  <2>2. QED
    BY <1>1, <1>2, <2>1, ShownIsNumber, FS_RemoveElement DEF Shown
<1>3. CASE ~m.bot
  <2>1. BotMessages' = BotMessages
    BY <1>3 DEF BotMessages
  <2>2. QED
    BY <1>1, <1>3, <2>1 DEF Shown
<1>4. QED
  BY <1>2, <1>3

LEMMA Editing ==
    ASSUME ThreadInv, NEW m \in thread, NEW button \in BOOLEAN,
           thread' = (thread \ {m}) \cup {[m EXCEPT !.button = button]}
    PROVE  ThreadInv' /\ Shown' = Shown
<1> DEFINE n == [m EXCEPT !.button = button]
<1>1. m \in Message /\ n \in Message /\ n.id = m.id /\ n.bot = m.bot
  BY DEF ThreadInv, Message
<1>2. \A o \in thread \ {m} : o.id # n.id /\ o # n
  BY <1>1 DEF ThreadInv
<1>3. ThreadInv'
  <2>1. IsFiniteSet(thread')
    BY FS_RemoveElement, FS_AddElement DEF ThreadInv
  <2>2. QED
    BY <1>1, <1>2, <2>1 DEF ThreadInv
<1>4. CASE m.bot
  <2>1. BotMessages' = (BotMessages \ {m}) \cup {n} /\ m \in BotMessages
    BY <1>1, <1>4 DEF BotMessages
  <2>2. n \notin BotMessages \ {m}
    BY <1>2 DEF BotMessages
  <2>3. /\ IsFiniteSet(BotMessages \ {m})
        /\ Cardinality(BotMessages \ {m}) = Cardinality(BotMessages) - 1
    BY <2>1, ShownIsNumber, FS_RemoveElement
  <2>4. Cardinality(BotMessages') = Cardinality(BotMessages \ {m}) + 1
    BY <2>1, <2>2, <2>3, FS_AddElement
  <2>5. QED
    BY <1>3, <2>3, <2>4, ShownIsNumber DEF Shown
<1>5. CASE ~m.bot
  <2>1. BotMessages' = BotMessages
    BY <1>1, <1>5 DEF BotMessages
  <2>2. QED
    BY <1>3, <2>1 DEF Shown
<1>6. QED
  BY <1>4, <1>5

-----------------------------------------------------------------------------
(* The invariant, action by action.  One lemma for the steps of the bot    *)
(* that leave the dialog and the client alone, one per step that does not. *)

LEMMA InitIInv == Init => IInv
<1> SUFFICES ASSUME Init
             PROVE  IInv
  OBVIOUS
<1>1. ThreadInv
  BY FS_EmptySet DEF Init, ThreadInv
<1>2. TypeOK
  <2>1. said \in [Updates -> SUBSET {"sent", "edited"}]
    BY DEF Init
  <2>2. client \in Call
    BY ConversationBounds DEF Init, Call
  <2>3. nextId \in 1 .. MaxUpdates + 1 /\ 0 \in 0 .. MaxUpdates
    BY ConversationBounds DEF Init
  <2>4. QED
    BY <1>1, <2>1, <2>2, <2>3 DEF Init, TypeOK, ThreadInv
<1>3. NumbersInv /\ SaidInv
  BY DEF Init, NumbersInv, SaidInv, Updates
<1>4. UpdateInv /\ AtLeastInv /\ AtMostInv /\ ReplyIsSeen /\ ScreenIsAnswer
  BY DEF Init, UpdateInv, AtLeastInv, AtMostInv, Posted, ReplyIsSeen, ScreenIsAnswer
<1>5. QED
  BY <1>1, <1>2, <1>3, <1>4 DEF IInv

LEMMA Types ==
    ASSUME IInv
    PROVE  /\ nextId \in Nat /\ nextId <= MaxUpdates + 1
           /\ acked \in Nat /\ taken \in Nat /\ handled \in Nat
           /\ client.before \in Nat /\ Shown \in Nat /\ MaxUpdates \in Nat
           /\ client \in Call
           /\ client.update \in Updates \cup {0}
BY ShownIsNumber, ConversationBounds DEF IInv, TypeOK, Call, Updates

(* Steps that change neither the dialog nor the client: polls, answers to  *)
(* polls, the return of a handler.                                         *)
LEMMA QuietStep ==
    ASSUME IInv, BotPoll \/ BotTake \/ BotPollExpires \/ BotReturns
    PROVE  IInv'
<1> USE Types
<1>1. UNCHANGED <<thread, nextId, said, client>>
  BY DEF BotPoll, BotTake, BotPollExpires, BotReturns
<1>2. NumbersInv' /\ handled' >= handled /\ taken' >= taken /\ taken' \in Nat /\ handled' \in Nat
      /\ acked' \in Nat
  BY DEF BotPoll, BotTake, BotPollExpires, BotReturns, IInv, NumbersInv
<1>3. handled = nextId - 1 => handled' = nextId - 1
  BY <1>1, <1>2 DEF NumbersInv
<1>4. ThreadInv' /\ UpdateInv' /\ ReplyIsSeen' /\ ScreenIsAnswer' /\ Shown' = Shown /\ AtLeastInv'
  BY <1>1 DEF IInv, ThreadInv, UpdateInv, Posted, ReplyIsSeen, ScreenIsAnswer, Shown,
              BotMessages, AtLeastInv
<1>5. SaidInv'
  BY <1>1, <1>2 DEF IInv, SaidInv, Updates
<1>6. AtMostInv'
  BY <1>1, <1>2, <1>3, <1>4 DEF IInv, AtMostInv, Posted, Updates
<1>7. TypeOK'
  <2>1. polling' \in BOOLEAN
    BY DEF BotPoll, BotTake, BotPollExpires, BotReturns, IInv, TypeOK
  <2>2. acked' <= MaxUpdates /\ taken' <= MaxUpdates /\ handled' <= MaxUpdates
    BY <1>1, <1>2 DEF NumbersInv
  <2>3. QED
    BY <1>1, <1>2, <2>1, <2>2 DEF IInv, TypeOK
<1>8. QED
  BY <1>2, <1>4, <1>5, <1>6, <1>7 DEF IInv

(* The handlers' steps.  What is said is said for an update that was taken;*)
(* when nothing else was to be handled, for the client's.                  *)
LEMMA CurrentUpdate ==
    ASSUME IInv, handled < taken
    PROVE  /\ Current \in Updates /\ Current <= taken
           /\ client.phase = "counted" => client.missed
           /\ Posted /\ ~client.missed => Current = client.update
BY Types DEF IInv, NumbersInv, Current, Updates, AtMostInv, UpdateInv

LEMMA HandlerSends ==
    ASSUME IInv, NEW button \in BOOLEAN, BotSends(button)
    PROVE  IInv'
<1> USE Types
<1>1. ThreadInv' /\ Shown' = Shown + 1
  BY Posting DEF BotSends, IInv
<1>2. /\ Current \in Updates /\ Current <= taken
      /\ client.phase = "counted" => client.missed
      /\ Posted /\ ~client.missed => Current = client.update
  BY CurrentUpdate DEF BotSends
<1>3. /\ UNCHANGED <<nextId, acked, polling, taken, handled, client>>
      /\ said' = [said EXCEPT ![Current] = @ \cup {"sent"}]
  BY DEF BotSends, botVars
<1>4. said' \in [Updates -> SUBSET {"sent", "edited"}]
  BY <1>2, <1>3 DEF IInv, TypeOK
<1>5. /\ \A u \in Updates : said[u] \subseteq said'[u]
      /\ "sent" \in said'[Current]
      /\ \A u \in Updates : said'[u] # said[u] => u = Current
  BY <1>2, <1>3 DEF IInv, TypeOK
<1>6. TypeOK'
  BY <1>1, <1>3, <1>4 DEF IInv, TypeOK, ThreadInv
<1>7. NumbersInv' /\ UpdateInv' /\ ReplyIsSeen' /\ ScreenIsAnswer'
  BY <1>3 DEF IInv, NumbersInv, UpdateInv, Posted, ReplyIsSeen, ScreenIsAnswer
<1>8. SaidInv'
  BY <1>2, <1>3, <1>5 DEF IInv, SaidInv
<1>9. AtLeastInv'
  BY <1>1, <1>3 DEF IInv, AtLeastInv, Posted
<1>10. AtMostInv'
  BY <1>2, <1>3, <1>5 DEF IInv, AtMostInv, Posted
<1>11. QED
  BY <1>1, <1>6, <1>7, <1>8, <1>9, <1>10 DEF IInv

LEMMA HandlerEdits ==
    ASSUME IInv, NEW m \in thread, NEW button \in BOOLEAN, BotEdits(m, button)
    PROVE  IInv'
<1> USE Types
<1>1. ThreadInv' /\ Shown' = Shown
  BY Editing DEF BotEdits, IInv
<1>2. Current \in Updates /\ Current <= taken
  BY CurrentUpdate DEF BotEdits
<1>3. /\ UNCHANGED <<nextId, acked, polling, taken, handled, client>>
      /\ said' = [said EXCEPT ![Current] = IF m.bot THEN @ \cup {"edited"} ELSE @]
  BY DEF BotEdits, botVars
<1>4. said' \in [Updates -> SUBSET {"sent", "edited"}]
  BY <1>2, <1>3 DEF IInv, TypeOK
<1>5. /\ \A u \in Updates : "sent" \in said'[u] <=> "sent" \in said[u]
      /\ \A u \in Updates : said'[u] # said[u] => u = Current
  BY <1>2, <1>3 DEF IInv, TypeOK
<1>6. TypeOK'
  BY <1>1, <1>3, <1>4 DEF IInv, TypeOK, ThreadInv
<1>7. NumbersInv' /\ UpdateInv' /\ ReplyIsSeen' /\ ScreenIsAnswer'
  BY <1>3 DEF IInv, NumbersInv, UpdateInv, Posted, ReplyIsSeen, ScreenIsAnswer
<1>8. SaidInv'
  BY <1>2, <1>3, <1>5 DEF IInv, SaidInv
<1>9. AtLeastInv' /\ AtMostInv'
  BY <1>1, <1>3, <1>5 DEF IInv, AtLeastInv, AtMostInv, Posted, UpdateInv
<1>10. QED
  BY <1>1, <1>6, <1>7, <1>8, <1>9 DEF IInv

LEMMA HandlerDeletes ==
    ASSUME IInv, NEW m \in thread, BotDeletes(m)
    PROVE  IInv'
<1> USE Types
<1>1. ThreadInv' /\ Shown' = IF m.bot THEN Shown - 1 ELSE Shown
  BY Deleting DEF BotDeletes, IInv
<1>2. /\ client.phase = "counted" => client.missed
  BY CurrentUpdate DEF BotDeletes
<1>3. /\ UNCHANGED <<nextId, acked, polling, taken, handled, said>>
      /\ client' = [client EXCEPT !.deleted = @ \/ m.bot]
  BY DEF BotDeletes, botVars
<1>4. m.bot \in BOOLEAN
  BY DEF IInv, TypeOK, Message
<1>5. client' \in Call
  BY <1>3, <1>4 DEF Call
<1>6. /\ client'.phase = client.phase /\ client'.before = client.before
      /\ client'.update = client.update /\ client'.missed = client.missed
      /\ client'.said = client.said
      /\ client'.deleted = (client.deleted \/ m.bot)
  BY <1>3 DEF Call
<1>7. TypeOK'
  BY <1>1, <1>3, <1>5 DEF IInv, TypeOK, ThreadInv
<1>8. NumbersInv' /\ SaidInv' /\ UpdateInv' /\ ReplyIsSeen' /\ ScreenIsAnswer'
  BY <1>3, <1>6 DEF IInv, NumbersInv, SaidInv, UpdateInv, Posted, ReplyIsSeen, ScreenIsAnswer
<1>9. AtLeastInv'
  BY <1>1, <1>3, <1>6 DEF IInv, AtLeastInv, Posted
<1>10. AtMostInv'
  BY <1>1, <1>2, <1>3, <1>6 DEF IInv, AtMostInv, Posted
<1>11. QED
  BY <1>1, <1>7, <1>8, <1>9, <1>10 DEF IInv

-----------------------------------------------------------------------------
(* The client's steps. *)

LEMMA ClientCounts == IInv /\ Count => IInv'
<1> SUFFICES ASSUME IInv, Count
             PROVE  IInv'
  OBVIOUS
<1> USE Types
<1>1. UNCHANGED <<thread, nextId, acked, polling, taken, handled, said>>
  BY DEF Count, botVars
<1>2. PICK target \in 0 .. MaxMessages :
        client' = [phase |-> "counted", before |-> Shown, target |-> target, update |-> 0,
                   missed |-> handled # nextId - 1,
                   deleted |-> FALSE, acked |-> FALSE, said |-> {}]
  <2>1. {0} \cup {m.id : m \in {n \in BotMessages : n.button}} \subseteq 0 .. MaxMessages
    BY ConversationBounds DEF IInv, TypeOK, BotMessages, Message
  <2>2. QED
    BY <2>1 DEF Count, Shown
<1>3. client' \in Call
  BY <1>2 DEF Call
<1>4. ThreadInv' /\ Shown' = Shown
  BY <1>1 DEF IInv, ThreadInv, Shown, BotMessages
<1>5. TypeOK' /\ NumbersInv' /\ SaidInv'
  BY <1>1, <1>3 DEF IInv, TypeOK, NumbersInv, SaidInv
<1>6. UpdateInv' /\ ReplyIsSeen' /\ ScreenIsAnswer'
  BY <1>2 DEF UpdateInv, Posted, ReplyIsSeen, ScreenIsAnswer
<1>7. /\ client'.phase = "counted" /\ client'.before = Shown
      /\ ~client'.missed => handled' = nextId' - 1
  BY <1>1, <1>2
<1>8. AtLeastInv' /\ AtMostInv'
  <2>1. ~Posted' /\ Shown' = client'.before /\ Shown' \in Nat
    BY <1>4, <1>7 DEF Posted
  <2>2. QED
    BY <1>7, <2>1 DEF AtLeastInv, AtMostInv
<1>9. QED
  BY <1>4, <1>5, <1>6, <1>8 DEF IInv

\* Common to messages and presses: a new update, for which nothing was said.
LEMMA ClientPosts ==
    ASSUME IInv, client.phase = "counted", Push, ThreadInv', Shown' = Shown,
           UNCHANGED <<acked, polling, taken, handled, said>>,
           NEW phase \in {"waiting", "idle"},
           client' = [client EXCEPT !.phase = phase, !.update = nextId]
    PROVE  IInv'
<1> USE Types
<1>1. nextId' = nextId + 1 /\ nextId \in Updates
  BY DEF Push, Updates, IInv, TypeOK
<1>2. /\ client'.phase = phase /\ client'.update = nextId
      /\ client'.before = client.before /\ client'.missed = client.missed
      /\ client'.deleted = client.deleted
  BY DEF Call
<1>3. client' \in Call
  BY <1>1 DEF Call
<1>4. nextId' \in 1 .. MaxUpdates + 1
  BY <1>1 DEF Updates
<1>5. TypeOK'
  BY <1>3, <1>4 DEF IInv, TypeOK, ThreadInv
<1>6. NumbersInv' /\ SaidInv' /\ UpdateInv'
  BY <1>1, <1>2 DEF IInv, NumbersInv, SaidInv, UpdateInv, Posted
<1>7. ReplyIsSeen' /\ ScreenIsAnswer'
  BY <1>2 DEF ReplyIsSeen, ScreenIsAnswer
<1>8. said[nextId] = {}
  BY <1>1 DEF IInv, SaidInv, NumbersInv
<1>9. AtLeastInv' /\ AtMostInv'
  BY <1>1, <1>2, <1>8 DEF IInv, AtLeastInv, AtMostInv, Posted
<1>10. QED
  BY <1>5, <1>6, <1>7, <1>9 DEF IInv

LEMMA ClientSends ==
    ASSUME IInv, NEW wait \in BOOLEAN, Send(wait)
    PROVE  IInv'
<1>1. ThreadInv' /\ Shown' = Shown
  BY Posting DEF Send, IInv
<1>2. QED
  BY <1>1, ClientPosts DEF Send, botVars

LEMMA ClientPresses == IInv /\ Press => IInv'
<1> SUFFICES ASSUME IInv, Press
             PROVE  IInv'
  OBVIOUS
<1>1. ThreadInv' /\ Shown' = Shown
  BY DEF Press, IInv, ThreadInv, Shown, BotMessages
<1>2. QED
  BY <1>1, ClientPosts DEF Press, botVars

\* Steps that only move the call on: it is refused, breaks, or stops waiting.
LEMMA ClientMoves ==
    ASSUME IInv, PressRefused \/ WaitAcked \/ WaitTimesOut \/ WaitBreaks
    PROVE  IInv'
<1> USE Types
<1>1. UNCHANGED <<thread, nextId, acked, polling, taken, handled, said>>
  BY DEF PressRefused, WaitAcked, WaitTimesOut, WaitBreaks, botVars
<1>2. /\ client' \in Call
      /\ \/ client'.phase \in {"refused", "broken"}
         \/ client'.phase = "reading" /\ client.phase = "waiting"
      /\ client'.update = client.update /\ client'.before = client.before
      /\ client'.missed = client.missed /\ client'.deleted = client.deleted
  BY DEF PressRefused, WaitAcked, WaitTimesOut, WaitBreaks, Call
<1>3. ThreadInv' /\ Shown' = Shown
  BY <1>1 DEF IInv, ThreadInv, Shown, BotMessages
<1>4. TypeOK' /\ NumbersInv' /\ SaidInv'
  BY <1>1, <1>2 DEF IInv, TypeOK, NumbersInv, SaidInv
<1>5. UpdateInv' /\ ReplyIsSeen' /\ ScreenIsAnswer'
  BY <1>1, <1>2 DEF IInv, UpdateInv, Posted, ReplyIsSeen, ScreenIsAnswer
<1>6. AtLeastInv' /\ AtMostInv'
  BY <1>1, <1>2, <1>3 DEF IInv, AtLeastInv, AtMostInv, Posted
<1>7. QED
  BY <1>3, <1>4, <1>5, <1>6 DEF IInv

LEMMA ClientReads == IInv /\ Read => IInv'
<1> SUFFICES ASSUME IInv, Read
             PROVE  IInv'
  OBVIOUS
<1> USE Types
<1>1. UNCHANGED <<thread, nextId, acked, polling, taken, handled, said>> /\ Posted
  BY DEF Read, botVars, Posted
<1>2. client.update \in Updates /\ said[client.update] \in SUBSET {"sent", "edited"}
  BY <1>1 DEF IInv, UpdateInv, TypeOK
<1>3. /\ client' \in Call
      /\ client'.phase = IF Shown > client.before THEN "screen" ELSE "silent"
      /\ client'.said = said[client.update]
      /\ client'.missed = client.missed /\ client'.deleted = client.deleted
  BY <1>2 DEF Read, Call, Shown
<1>4. ThreadInv'
  BY <1>1 DEF IInv, ThreadInv
<1>5. TypeOK' /\ NumbersInv' /\ SaidInv'
  BY <1>1, <1>3 DEF IInv, TypeOK, NumbersInv, SaidInv
<1>6. UpdateInv' /\ AtLeastInv' /\ AtMostInv'
  BY <1>3 DEF UpdateInv, AtLeastInv, AtMostInv, Posted
<1>7. ReplyIsSeen'
  BY <1>1, <1>3 DEF IInv, AtLeastInv, ReplyIsSeen
<1>8. ScreenIsAnswer'
  BY <1>1, <1>3 DEF IInv, AtMostInv, ScreenIsAnswer
<1>9. QED
  BY <1>4, <1>5, <1>6, <1>7, <1>8 DEF IInv

-----------------------------------------------------------------------------
(* IInv is an inductive invariant of the specification. *)
LEMMA Invariant == Spec => []IInv
<1>1. IInv /\ [Next]_vars => IInv'
  <2> SUFFICES ASSUME IInv, [Next]_vars
               PROVE  IInv'
    OBVIOUS
  <2>1. CASE BotPoll \/ BotTake \/ BotPollExpires \/ BotReturns
    BY <2>1, QuietStep
  <2>2. ASSUME NEW button \in BOOLEAN, BotSends(button)
        PROVE  IInv'
    BY <2>2, HandlerSends
  <2>3. ASSUME NEW m \in thread, NEW button \in BOOLEAN, BotEdits(m, button)
        PROVE  IInv'
    BY <2>3, HandlerEdits
  <2>4. ASSUME NEW m \in thread, BotDeletes(m)
        PROVE  IInv'
    BY <2>4, HandlerDeletes
  <2>5. CASE Count
    BY <2>5, ClientCounts
  <2>6. ASSUME NEW wait \in BOOLEAN, Send(wait)
        PROVE  IInv'
    BY <2>6, ClientSends
  <2>7. CASE Press
    BY <2>7, ClientPresses
  <2>8. CASE PressRefused \/ WaitAcked \/ WaitTimesOut \/ WaitBreaks
    BY <2>8, ClientMoves
  <2>9. CASE Read
    BY <2>9, ClientReads
  <2>10. CASE UNCHANGED vars
    <3>1. ThreadInv' /\ TypeOK' /\ Shown' = Shown
      BY <2>10 DEF vars, botVars, IInv, TypeOK, ThreadInv, Shown, BotMessages
    <3>2. QED
      BY <2>10, <3>1 DEF vars, botVars, IInv, NumbersInv, SaidInv, UpdateInv, AtLeastInv,
                         AtMostInv, Posted, ReplyIsSeen, ScreenIsAnswer
  <2>11. QED
    BY <2>1, <2>2, <2>3, <2>4, <2>5, <2>6, <2>7, <2>8, <2>9, <2>10 DEF Next
<1>2. QED
  BY <1>1, InitIInv, PTL DEF Spec

(* Type correctness: in particular, no two messages of the dialog have one *)
(* id (network.py:620-625).                                                *)
THEOREM ConversationType == Spec => []TypeOK
<1>1. IInv => TypeOK
  BY DEF IInv
<1>2. QED
  BY <1>1, Invariant, PTL

(* The ack of an update comes after its handler, for a bot that keeps to   *)
(* the contract of the harness.                                            *)
THEOREM AckComesAfterHandler == Spec => []AckedMeansHandled
<1>1. IInv => AckedMeansHandled
  BY DEF IInv, NumbersInv, AckedMeansHandled
<1>2. QED
  BY <1>1, Invariant, PTL

\* An acknowledged call is about a handler that has returned.
AckedInv ==
    client.acked =>
        /\ client.phase \in {"reading", "screen", "silent"}
        /\ client.update \in Updates /\ client.update <= handled
        /\ client.phase \in {"screen", "silent"} => client.said = said[client.update]

LEMMA AckedStep == IInv /\ AckedInv /\ [Next]_vars => AckedInv'
<1> SUFFICES ASSUME IInv, AckedInv, [Next]_vars
             PROVE  AckedInv'
  OBVIOUS
<1> USE Types
<1>1. ASSUME BotPoll \/ BotTake \/ BotPollExpires \/ BotReturns
      PROVE  AckedInv'
  <2>1. UNCHANGED <<said, client>> /\ handled' >= handled
    BY <1>1 DEF BotPoll, BotTake, BotPollExpires, BotReturns
  <2>2. handled' \in Nat
    BY <1>1 DEF BotPoll, BotTake, BotPollExpires, BotReturns
  <2>3. QED
    BY <2>1, <2>2 DEF AckedInv, Updates
<1>2. ASSUME \/ \E button \in BOOLEAN : BotSends(button)
             \/ \E m \in thread, button \in BOOLEAN : BotEdits(m, button)
      PROVE  AckedInv'
  <2>1. UNCHANGED <<handled, client>>
    BY <1>2 DEF BotSends, BotEdits, botVars
  <2>2. \A u \in Updates : u # Current => said'[u] = said[u]
    BY <1>2 DEF BotSends, BotEdits, IInv, TypeOK
  <2>3. \A u \in Updates : u <= handled => u # Current
    BY DEF Current, Updates
  <2>4. QED
    BY <2>1, <2>2, <2>3 DEF AckedInv
<1>3. ASSUME NEW m \in thread, BotDeletes(m)
      PROVE  AckedInv'
  <2>1. /\ UNCHANGED <<handled, said>>
        /\ client'.phase = client.phase /\ client'.update = client.update
        /\ client'.said = client.said /\ client'.acked = client.acked
    BY <1>3 DEF BotDeletes, botVars, Call
  <2>2. QED
    BY <2>1 DEF AckedInv
<1>4. ASSUME Count
      PROVE  AckedInv'
  BY <1>4 DEF Count, AckedInv
<1>5. ASSUME (\E wait \in BOOLEAN : Send(wait)) \/ Press \/ PressRefused \/ WaitTimesOut \/ WaitBreaks
      PROVE  AckedInv'
  <2>1. client'.acked = client.acked /\ ~client.acked
    BY <1>5 DEF Send, Press, PressRefused, WaitTimesOut, WaitBreaks, Call, AckedInv
  <2>2. QED
    BY <2>1 DEF AckedInv
<1>6. ASSUME WaitAcked
      PROVE  AckedInv'
  <2>1. client.update \in Updates /\ client.update <= handled
    BY <1>6 DEF WaitAcked, IInv, UpdateInv, Posted, NumbersInv, Updates
  <2>2. /\ client'.phase = "reading" /\ client'.update = client.update
        /\ handled' = handled
    BY <1>6 DEF WaitAcked, botVars, Call
  <2>3. QED
    BY <2>1, <2>2 DEF AckedInv
<1>7. ASSUME Read
      PROVE  AckedInv'
  <2>1. /\ client'.phase \in {"screen", "silent"} /\ client'.update = client.update
        /\ client'.acked = client.acked /\ client'.said = said[client.update]
        /\ UNCHANGED <<handled, said>>
    BY <1>7 DEF Read, botVars, Call
  <2>2. QED
    BY <2>1 DEF AckedInv
<1>8. CASE UNCHANGED vars
  BY <1>8 DEF vars, botVars, AckedInv
<1>9. QED
  BY <1>1, <1>2, <1>3, <1>4, <1>5, <1>6, <1>7, <1>8 DEF Next

(* No answer that was there when the client looked is reported as silence, *)
(* and none comes after a silence that the bot acknowledged, for any       *)
(* number of updates and messages and whatever the bot does.               *)
THEOREM SilenceEndsIt == Spec => []SilenceIsFinal
<1>1. Init => AckedInv
  BY DEF Init, AckedInv
<1>2. IInv /\ AckedInv => SilenceIsFinal
  BY DEF IInv, AckedInv, SilenceIsFinal, ReplyIsSeen
<1>3. QED
  BY <1>1, <1>2, AckedStep, Invariant, PTL DEF Spec

(* A call that began with nothing left to handle returns a screen only if  *)
(* the bot wrote for its update.                                           *)
THEOREM ScreensAreAnswers == Spec => []ScreenIsAnswer
<1>1. IInv => ScreenIsAnswer
  BY DEF IInv
<1>2. QED
  BY <1>1, Invariant, PTL

=============================================================================
