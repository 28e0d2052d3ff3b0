--------------------------- MODULE GroupFeedProofs ---------------------------
(***************************************************************************)
(* GroupFeed for any number of bots, names and messages.                   *)
(*                                                                         *)
(* What the two passes of the filter leave (Candidates) is, by cases on    *)
(* why a message is for a bot, just the set of bots with privacy that it   *)
(* singles out; a step delivers once, so that the rest is to see that it   *)
(* delivers with the membership it leaves behind.                          *)
(***************************************************************************)
EXTENDS GroupFeed, FiniteSetTheorems, WellFoundedInduction, TLAPS

-----------------------------------------------------------------------------
(* The feed: the ids in it, and the next one. *)

IdsInBounds == \A m \in feed : m.id <= MaxId

FeedInv == feed \subseteq Message /\ IdsInBounds /\ IdsNameOneMessage

\* A feed that is not empty has a newest message.
LEMMA NewestIsThere ==
    ASSUME FeedInv, feed # {}
    PROVE  \E n \in {m.id : m \in feed} : \A m \in feed : m.id <= n
<1> DEFINE rest == {MaxId - m.id : m \in feed}
           Less == OpToRel(<, Nat)
<1>1. \A m \in feed : m.id \in Nat /\ m.id <= MaxId
  BY DEF FeedInv, IdsInBounds, Message
<1>2. rest \subseteq Nat /\ rest # {}
  BY <1>1, MaxIdAssumption
<1>3. IsWellFoundedOn(Less, Nat)
  BY NatLessThanWellFounded
<1>4. \A u, t \in Nat : u < t => <<u, t>> \in Less
  BY DEF OpToRel
<1> HIDE DEF Less
<1>5. PICK t \in rest : \A u \in rest : ~(<<u, t>> \in Less)
  BY <1>2, <1>3, WFMin
<1>6. \A u \in rest : ~(u < t)
  BY <1>2, <1>4, <1>5
<1>7. PICK n \in feed : t = MaxId - n.id
  OBVIOUS
<1>8. ASSUME NEW m \in feed
      PROVE  m.id <= n.id
  <2>1. ~(MaxId - m.id < MaxId - n.id)
    BY <1>6, <1>7
  <2>2. QED
    BY <1>1, <2>1, MaxIdAssumption
<1>9. QED
  BY <1>8

LEMMA NextIdIsNew ==
    ASSUME FeedInv
    PROVE  NextId \in Nat \ {0} /\ \A m \in feed : m.id < NextId
<1>1. CASE feed = {}
  BY <1>1 DEF NextId
<1>2. CASE feed # {}
  <2> DEFINE n == CHOOSE k \in {m.id : m \in feed} : \A m \in feed : m.id <= k
  <2>1. n \in {m.id : m \in feed} /\ \A m \in feed : m.id <= n
    BY <1>2, NewestIsThere
  <2>2. n \in Nat \ {0} /\ \A m \in feed : m.id \in Nat
    BY <2>1 DEF FeedInv, Message
  <2>3. NextId = n + 1
    BY <1>2 DEF NextId
  <2> HIDE DEF n
  <2>4. QED
    BY <2>1, <2>2, <2>3
<1>3. QED
  BY <1>1, <1>2

LEMMA FeedGrows ==
    ASSUME FeedInv, NEW msg \in Message, msg.id = NextId, NextId <= MaxId,
           feed' = feed \cup {msg}
    PROVE  FeedInv'
<1>1. \A m \in feed : m.id < NextId /\ m.id # NextId
  BY NextIdIsNew DEF FeedInv, Message
<1>2. QED
  BY <1>1 DEF FeedInv, IdsInBounds, IdsNameOneMessage

LEMMA MessageChanges ==
    ASSUME FeedInv, NEW m \in feed, NEW keyboard \in BOOLEAN,
           feed' = (feed \ {m}) \cup {[m EXCEPT !.keyboard = keyboard]}
    PROVE  FeedInv' /\ [m EXCEPT !.keyboard = keyboard] \in Message
<1> DEFINE msg == [m EXCEPT !.keyboard = keyboard]
<1>1. m \in Message
  BY DEF FeedInv
<1>2. msg \in Message /\ msg.id = m.id
  BY <1>1 DEF Message
<1> HIDE DEF msg
<1>3. feed' = (feed \ {m}) \cup {msg}
  BY DEF msg
<1>4. QED
  BY <1>2, <1>3 DEF FeedInv, IdsInBounds, IdsNameOneMessage, msg

-----------------------------------------------------------------------------
(* The filter. *)

\* GroupDeliveryAsSpecified of one delivery, in the state it is made in.
AsListed(msg, text, st, atJoin, to) ==
    LET all == {b \in Bots : SeesAll(b, st, atJoin)}
        one == {b \in SingledOut(msg, text) : InChat(b, st)} \ all
    IN  IF msg.author \in Bots THEN to = {}
        ELSE IF msg.service THEN to = {b \in Bots : InChat(b, st)}
        ELSE /\ to \subseteq all \cup one
             /\ all \subseteq to
             /\ Cardinality(to \cap one) = IF one = {} THEN 0 ELSE 1

\* What the second pass leaves is what the message singles out.
LEMMA CandidatesAreSingledOut ==
    ASSUME TypeOK, NEW msg \in Message, NEW text \in Texts, NEW unseeing \in SUBSET Bots
    PROVE  Candidates({b \in unseeing : Sees(b, msg, text)}, msg, text)
             = SingledOut(msg, text) \cap unseeing
<1>1. \A b \in Bots : username[b] \in Names
  BY DEF TypeOK
<1>2. CASE msg.replyTo \in Bots
  BY <1>2 DEF Candidates, Sees, SingledOut
<1>3. CASE msg.replyTo \notin Bots /\ text \in Names
  BY <1>3, NamesAssumption DEF Candidates, Sees, SingledOut
<1>4. CASE msg.replyTo \notin Bots /\ text = Bare
  BY <1>1, <1>4, NamesAssumption DEF Candidates, Sees, SingledOut
<1>5. CASE msg.replyTo \notin Bots /\ text = Plain
  BY <1>1, <1>5, NamesAssumption DEF Candidates, Sees, SingledOut
<1>6. QED
  BY <1>2, <1>3, <1>4, <1>5 DEF Texts

LEMMA FilterIsAsListed ==
    ASSUME TypeOK, chatType # "channel", NEW msg \in Message, NEW text \in Texts,
           NEW st \in [Bots -> Statuses], NEW atJoin \in [Bots -> BOOLEAN],
           NEW to \in GroupReceivers(msg, text, st, atJoin)
    PROVE  to \in SUBSET Bots /\ AsListed(msg, text, st, atJoin, to)
<1> DEFINE active == {b \in Bots : InChat(b, st)}
           all    == {b \in Bots : SeesAll(b, st, atJoin)}
           one    == {b \in SingledOut(msg, text) : InChat(b, st)} \ all
           step3  == Candidates({b \in active \ all : Sees(b, msg, text)}, msg, text)
<1>1. From(msg) = msg.author
  BY DEF From
<1>2. SingledOut(msg, text) \subseteq Bots
  BY DEF SingledOut
<1>3. step3 = one
  <2>1. active \ all \in SUBSET Bots
    OBVIOUS
  <2>2. step3 = SingledOut(msg, text) \cap (active \ all)
    <3> HIDE DEF active, all
    <3>1. QED
      BY <2>1, CandidatesAreSingledOut
  <2>3. one = SingledOut(msg, text) \cap (active \ all)
    BY <1>2
  <2>4. QED
    BY <2>2, <2>3
<1>4. to \in IF msg.author \in Bots THEN {{}}
             ELSE IF msg.service THEN {active}
             ELSE IF step3 = {} THEN {all}
             ELSE {all \cup {b} : b \in step3}
  BY <1>1 DEF GroupReceivers
<1> HIDE DEF step3
<1>5. CASE msg.author \in Bots \/ msg.service
  BY <1>4, <1>5 DEF AsListed
<1>6. CASE msg.author \notin Bots /\ ~msg.service
  <2>1. AsListed(msg, text, st, atJoin, to) <=>
            /\ to \subseteq all \cup one
            /\ all \subseteq to
            /\ Cardinality(to \cap one) = IF one = {} THEN 0 ELSE 1
    BY <1>6 DEF AsListed
  <2>2. one \subseteq Bots /\ all \subseteq Bots /\ one \cap all = {}
    BY <1>2
  <2> HIDE DEF one, all
  <2>3. CASE one = {}
    BY <1>3, <1>4, <1>6, <2>1, <2>2, <2>3, FS_EmptySet
  <2>4. CASE one # {}
    <3>1. PICK b \in one : to = all \cup {b}
      BY <1>3, <1>4, <1>6, <2>4
    <3>2. to \cap one = {b}
      BY <2>2, <3>1
    <3>3. Cardinality(to \cap one) = 1
      BY <3>2, FS_Singleton
    <3>4. QED
      BY <2>1, <2>2, <2>4, <3>1, <3>3
  <2>5. QED
    BY <2>3, <2>4
<1>7. QED
  BY <1>5, <1>6

-----------------------------------------------------------------------------
(* What a step pushes. *)

\* A step's delivery is as specified if it is made with the state it leaves.
LEMMA GroupStep ==
    ASSUME TypeOK, chatType # "channel", username' = username,
           NEW msg \in Message, NEW text \in Texts, NEW by \in Bots \cup {NoOne},
           status' \in [Bots -> Statuses], privacyAtJoin' \in [Bots -> BOOLEAN],
           lastBot' = lastBot \/ msg.author \in Bots,
           DeliverGroup(msg, text, by, status', privacyAtJoin')
    PROVE  pushed' \in Pushed /\ DeliveryAsSpecified'
<1>1. PICK to \in GroupReceivers(msg, text, status', privacyAtJoin') :
          pushed' = [key |-> "message", message |-> msg, text |-> text, by |-> by, to |-> to]
  BY DEF DeliverGroup
<1>2. to \in SUBSET Bots /\ AsListed(msg, text, status', privacyAtJoin', to)
  BY FilterIsAsListed
<1>3. pushed' \in Pushed
  BY <1>1, <1>2 DEF Pushed, Keys
<1>4. ChannelDeliveryAsSpecified'
  BY <1>1 DEF ChannelDeliveryAsSpecified
<1>5. pushed'.message = msg /\ pushed'.text = text /\ pushed'.to = to
  BY <1>1
<1>6. ASSUME msg.author \in Bots
      PROVE  GroupDeliveryAsSpecified'
  <2>1. to = {}
    BY <1>2, <1>6 DEF AsListed
  <2>2. QED
    BY <1>5, <1>6, <2>1 DEF GroupDeliveryAsSpecified
<1>7. ASSUME lastBot' = lastBot
      PROVE  GroupDeliveryAsSpecified'
  <2>1. SingledOut(pushed.message, pushed.text)' = SingledOut(msg, text)
    BY <1>5, <1>7 DEF SingledOut
  <2>2. /\ {b \in Bots : SeesAll(b, status, privacyAtJoin)}'
             = {b \in Bots : SeesAll(b, status', privacyAtJoin')}
        /\ {b \in Bots : InChat(b, status)}' = {b \in Bots : InChat(b, status')}
    BY DEF SeesAll, InChat
  <2>3. ({b \in SingledOut(pushed.message, pushed.text) : InChat(b, status)}
             \ {b \in Bots : SeesAll(b, status, privacyAtJoin)})'
          = {b \in SingledOut(msg, text) : InChat(b, status')}
              \ {b \in Bots : SeesAll(b, status', privacyAtJoin')}
    BY <2>1, <2>2 DEF InChat
  <2>4. QED
    BY <1>2, <1>5, <2>2, <2>3 DEF GroupDeliveryAsSpecified, AsListed
<1>8. QED
  BY <1>3, <1>4, <1>6, <1>7 DEF DeliveryAsSpecified

LEMMA ChannelStep ==
    ASSUME status' = status, NEW msg \in Message, NEW by \in Bots \cup {NoOne},
           NEW key \in {"channel_post", "edited_channel_post"},
           DeliverChannel(key, msg, by)
    PROVE  pushed' \in Pushed /\ DeliveryAsSpecified'
BY DEF DeliverChannel, Pushed, Keys, Texts, DeliveryAsSpecified, GroupDeliveryAsSpecified,
       ChannelDeliveryAsSpecified, InChat

LEMMA NothingStep ==
    ASSUME pushed' = Nothing
    PROVE  pushed' \in Pushed /\ DeliveryAsSpecified'
BY DEF Nothing, Pushed, Keys, Texts, DeliveryAsSpecified, GroupDeliveryAsSpecified,
       ChannelDeliveryAsSpecified

-----------------------------------------------------------------------------
IInv == TypeOK /\ FeedInv /\ DeliveryAsSpecified

LEMMA ServiceStep ==
    ASSUME TypeOK, FeedInv, username' = username, lastBot' = lastBot,
           status' \in [Bots -> Statuses], privacyAtJoin' \in [Bots -> BOOLEAN],
           NEW actor \in Bots \cup {Person},
           AppendService(actor, status', privacyAtJoin')
    PROVE  FeedInv' /\ pushed' \in Pushed /\ DeliveryAsSpecified'
<1>1. CASE chatType = "channel"
  BY <1>1, NothingStep DEF AppendService, FeedInv, IdsInBounds, IdsNameOneMessage
<1>2. CASE chatType # "channel"
  <2> DEFINE msg == [id |-> NextId, author |-> actor, service |-> TRUE,
                     replyTo |-> NoOne, keyboard |-> FALSE]
             by  == IF actor \in Bots THEN actor ELSE NoOne
  <2>1. /\ NextId <= MaxId /\ feed' = feed \cup {msg}
        /\ DeliverGroup(msg, Plain, by, status', privacyAtJoin')
    BY <1>2 DEF AppendService
  <2>2. msg \in Message /\ msg.id = NextId
    BY NextIdIsNew DEF Message
  <2>3. by \in Bots \cup {NoOne} /\ Plain \in Texts
    BY DEF Texts
  <2> HIDE DEF msg, by
  <2>4. QED
    BY <1>2, <2>1, <2>2, <2>3, FeedGrows, GroupStep
<1>3. QED
  BY <1>1, <1>2

LEMMA InitIInv == Init => IInv
BY DEF Init, IInv, TypeOK, FeedInv, IdsInBounds, IdsNameOneMessage, Statuses, Nothing, Pushed,
       Keys, Texts, DeliveryAsSpecified, GroupDeliveryAsSpecified, ChannelDeliveryAsSpecified

LEMMA JoinStep ==
    ASSUME IInv, NEW b \in Bots, NEW st \in {"member", "administrator"},
           NEW actor \in Actors, Join(b, st, actor)
    PROVE  IInv'
<1>0. actor \in Bots \cup {Person}
  BY DEF Actors
<1>1. status' \in [Bots -> Statuses] /\ privacyAtJoin' \in [Bots -> BOOLEAN]
  BY DEF Join, IInv, TypeOK, Statuses
<1>2. FeedInv' /\ pushed' \in Pushed /\ DeliveryAsSpecified'
  BY <1>0, <1>1, ServiceStep DEF Join, IInv
<1>3. QED
  BY <1>1, <1>2 DEF Join, IInv, TypeOK, FeedInv

LEMMA LeaveStep ==
    ASSUME IInv, NEW b \in Bots, NEW actor \in Bots \cup {Person}, Leave(b, actor)
    PROVE  IInv'
<1>1. status' \in [Bots -> Statuses] /\ privacyAtJoin' = privacyAtJoin
  BY DEF Leave, IInv, TypeOK, Statuses
<1>2. privacyAtJoin' \in [Bots -> BOOLEAN]
  BY <1>1 DEF IInv, TypeOK
<1>3. AppendService(actor, status', privacyAtJoin')
  BY <1>1 DEF Leave
<1>4. FeedInv' /\ pushed' \in Pushed /\ DeliveryAsSpecified'
  BY <1>1, <1>2, <1>3, ServiceStep DEF Leave, IInv
<1>5. QED
  BY <1>1, <1>2, <1>4 DEF Leave, IInv, TypeOK, FeedInv

LEMMA PersonComesOrGoesStep ==
    ASSUME IInv, NEW actor \in Bots \cup {Person}, PersonComesOrGoes(actor)
    PROVE  IInv'
<1>1. UNCHANGED <<chatType, username, status, privacyMode, privacyAtJoin, lastBot>>
  BY DEF PersonComesOrGoes, chatVars
<1>2. status' \in [Bots -> Statuses] /\ privacyAtJoin' \in [Bots -> BOOLEAN]
  BY <1>1 DEF IInv, TypeOK
<1>3. AppendService(actor, status', privacyAtJoin')
  BY <1>1 DEF PersonComesOrGoes
<1>4. FeedInv' /\ pushed' \in Pushed /\ DeliveryAsSpecified'
  BY <1>1, <1>2, <1>3, ServiceStep DEF IInv
<1>5. QED
  BY <1>1, <1>4 DEF IInv, TypeOK, FeedInv

LEMMA PromoteStep ==
    ASSUME IInv, NEW b \in Bots, Promote(b)
    PROVE  IInv'
<1>1. status' \in [Bots -> Statuses]
  BY DEF Promote, IInv, TypeOK, Statuses
<1>2. pushed' \in Pushed /\ DeliveryAsSpecified'
  BY NothingStep DEF Promote
<1>3. QED
  BY <1>1, <1>2 DEF Promote, IInv, TypeOK, FeedInv, IdsInBounds, IdsNameOneMessage

LEMMA SetPrivacyStep ==
    ASSUME IInv, NEW b \in Bots, NEW on \in BOOLEAN, SetPrivacy(b, on)
    PROVE  IInv'
<1>1. pushed' \in Pushed /\ DeliveryAsSpecified'
  BY NothingStep DEF SetPrivacy
<1>2. QED
  BY <1>1 DEF SetPrivacy, IInv, TypeOK, FeedInv, IdsInBounds, IdsNameOneMessage

\* A message of a person or a bot, in either kind of chat.
LEMMA SendStep ==
    ASSUME IInv, NEW msg \in Message, msg.id = NextId, NextId <= MaxId,
           feed' = feed \cup {msg}, UNCHANGED chatVars,
           NEW text \in Texts, NEW by \in Bots \cup {NoOne},
           lastBot' \in Bots \cup {NoOne}, lastBot' = lastBot \/ msg.author \in Bots,
           IF chatType = "channel" THEN DeliverChannel("channel_post", msg, by)
           ELSE DeliverGroup(msg, text, by, status, privacyAtJoin)
    PROVE  IInv'
<1>1. FeedInv'
  BY FeedGrows DEF IInv
<1>2. pushed' \in Pushed /\ DeliveryAsSpecified'
  <2>1. CASE chatType = "channel"
    BY <2>1, ChannelStep DEF chatVars
  <2>2. CASE chatType # "channel"
    <3>1. /\ status' = status /\ privacyAtJoin' = privacyAtJoin /\ username' = username
          /\ status' \in [Bots -> Statuses] /\ privacyAtJoin' \in [Bots -> BOOLEAN]
      BY DEF chatVars, IInv, TypeOK
    <3>2. DeliverGroup(msg, text, by, status', privacyAtJoin')
      BY <2>2, <3>1
    <3>3. QED
      BY <2>2, <3>1, <3>2, GroupStep DEF IInv
  <2>3. QED
    BY <2>1, <2>2
<1>3. QED
  BY <1>1, <1>2 DEF IInv, TypeOK, FeedInv, chatVars

LEMMA PersonSendsStep ==
    ASSUME IInv, NEW text \in Texts, NEW replyToId \in 0 .. MaxId,
           PersonSends(text, replyToId)
    PROVE  IInv'
<1> DEFINE origin  == {m \in feed : m.id = replyToId}
           quoted  == IF origin = {} THEN NoOne ELSE From(CHOOSE m \in origin : TRUE)
           msg     == [id |-> NextId, author |-> Person, service |-> FALSE,
                       replyTo |-> quoted, keyboard |-> FALSE]
<1>1. quoted \in Bots \cup {Person, NoOne}
  <2>1. CASE origin # {}
    <3>1. (CHOOSE m \in origin : TRUE) \in Message
      BY <2>1 DEF IInv, FeedInv
    <3>2. QED
      BY <2>1, <3>1 DEF From, Message
  <2>2. QED
    BY <2>1
<1> HIDE DEF quoted
<1>2. msg \in Message /\ msg.id = NextId
  BY <1>1, NextIdIsNew DEF Message, IInv
<1>3. /\ NextId <= MaxId /\ feed' = feed \cup {msg} /\ UNCHANGED <<chatVars, lastBot>>
      /\ IF chatType = "channel" THEN DeliverChannel("channel_post", msg, NoOne)
         ELSE DeliverGroup(msg, text, NoOne, status, privacyAtJoin)
  BY DEF PersonSends, quoted
<1> HIDE DEF msg
<1>4. QED
  BY <1>2, <1>3, SendStep DEF IInv, TypeOK

LEMMA BotSendsStep ==
    ASSUME IInv, NEW b \in Bots, NEW text \in Texts, NEW keyboard \in BOOLEAN,
           BotSends(b, text, keyboard)
    PROVE  IInv'
<1> DEFINE msg == [id |-> NextId, author |-> b, service |-> FALSE,
                   replyTo |-> NoOne, keyboard |-> keyboard]
<1>1. msg \in Message /\ msg.id = NextId /\ msg.author \in Bots
  BY NextIdIsNew DEF Message, IInv
<1>2. /\ NextId <= MaxId /\ feed' = feed \cup {msg} /\ UNCHANGED chatVars /\ lastBot' = b
      /\ IF chatType = "channel" THEN DeliverChannel("channel_post", msg, b)
         ELSE DeliverGroup(msg, text, b, status, privacyAtJoin)
  BY DEF BotSends
<1> HIDE DEF msg
<1>3. QED
  BY <1>1, <1>2, SendStep

LEMMA BotEditsStep ==
    ASSUME IInv, NEW b \in Bots, NEW m \in feed, NEW text \in Texts,
           NEW keyboard \in BOOLEAN, BotEdits(b, m, text, keyboard)
    PROVE  IInv'
<1> DEFINE msg == [m EXCEPT !.keyboard = keyboard]
<1>1. /\ feed' = (feed \ {m}) \cup {msg} /\ UNCHANGED <<chatVars, lastBot>>
      /\ IF chatType = "channel" THEN DeliverChannel("edited_channel_post", msg, b)
         ELSE DeliverGroup(msg, text, b, status, privacyAtJoin)
  BY DEF BotEdits
<1>2. FeedInv' /\ msg \in Message
  BY <1>1, MessageChanges DEF IInv
<1> HIDE DEF msg
<1>3. pushed' \in Pushed /\ DeliveryAsSpecified'
  <2>1. CASE chatType = "channel"
    BY <1>1, <1>2, <2>1, ChannelStep DEF chatVars
  <2>2. CASE chatType # "channel"
    <3>1. /\ status' = status /\ privacyAtJoin' = privacyAtJoin /\ username' = username
          /\ status' \in [Bots -> Statuses] /\ privacyAtJoin' \in [Bots -> BOOLEAN]
      BY <1>1 DEF chatVars, IInv, TypeOK
    <3>2. DeliverGroup(msg, text, b, status', privacyAtJoin')
      BY <1>1, <2>2, <3>1
    <3>3. QED
      BY <1>1, <1>2, <2>2, <3>1, <3>2, GroupStep DEF IInv
  <2>3. QED
    BY <2>1, <2>2
<1>4. QED
  BY <1>1, <1>2, <1>3 DEF IInv, TypeOK, FeedInv, chatVars

LEMMA BotEditsMarkupStep ==
    ASSUME IInv, NEW m \in feed, NEW keyboard \in BOOLEAN, BotEditsMarkup(m, keyboard)
    PROVE  IInv'
<1>1. FeedInv'
  BY MessageChanges DEF BotEditsMarkup, IInv
<1>2. pushed' \in Pushed /\ DeliveryAsSpecified'
  BY NothingStep DEF BotEditsMarkup
<1>3. QED
  BY <1>1, <1>2 DEF BotEditsMarkup, IInv, TypeOK, FeedInv, chatVars

LEMMA BotDeletesStep ==
    ASSUME IInv, NEW m \in feed, BotDeletes(m)
    PROVE  IInv'
<1>1. FeedInv'
  BY DEF BotDeletes, IInv, FeedInv, IdsInBounds, IdsNameOneMessage
<1>2. pushed' \in Pushed /\ DeliveryAsSpecified'
  BY NothingStep DEF BotDeletes
<1>3. QED
  BY <1>1, <1>2 DEF BotDeletes, IInv, TypeOK, FeedInv, chatVars

LEMMA PressStep ==
    ASSUME IInv, NEW m \in feed, Press(m)
    PROVE  IInv'
<1>1. pushed' \in Pushed /\ pushed'.key = "callback_query"
  BY DEF Press, Pushed, Keys, Texts, IInv, TypeOK
<1>2. DeliveryAsSpecified'
  BY <1>1 DEF DeliveryAsSpecified, GroupDeliveryAsSpecified, ChannelDeliveryAsSpecified
<1>3. QED
  BY <1>1, <1>2 DEF Press, IInv, TypeOK, FeedInv, IdsInBounds, IdsNameOneMessage, chatVars

LEMMA StutterStep ==
    ASSUME IInv, UNCHANGED vars
    PROVE  IInv'
BY DEF vars, chatVars, IInv, TypeOK, FeedInv, IdsInBounds, IdsNameOneMessage,
       DeliveryAsSpecified, GroupDeliveryAsSpecified, ChannelDeliveryAsSpecified, SingledOut,
       SeesAll, InChat

LEMMA NextIInv == IInv /\ [Next]_vars => IInv'
<1> SUFFICES ASSUME IInv, [Next]_vars
             PROVE  IInv'
  OBVIOUS
<1>1. CASE \E b \in Bots, st \in {"member", "administrator"}, actor \in Actors :
               Join(b, st, actor)
  BY <1>1, JoinStep
<1>2. CASE \E b \in Bots : \E actor \in {b} \cup Actors : Leave(b, actor)
  BY <1>2, LeaveStep DEF Actors
<1>3. CASE \E b \in Bots : Promote(b)
  BY <1>3, PromoteStep
<1>4. CASE \E b \in Bots, on \in BOOLEAN : SetPrivacy(b, on)
  BY <1>4, SetPrivacyStep
<1>5. CASE \E text \in Texts, replyToId \in 0 .. MaxId : PersonSends(text, replyToId)
  BY <1>5, PersonSendsStep
<1>6. CASE \E b \in Bots, text \in Texts, keyboard \in BOOLEAN : BotSends(b, text, keyboard)
  BY <1>6, BotSendsStep
<1>7. CASE \E b \in Bots, text \in Texts, keyboard \in BOOLEAN :
               \E m \in feed : BotEdits(b, m, text, keyboard)
  BY <1>7, BotEditsStep
<1>8. CASE \E m \in feed, keyboard \in BOOLEAN : BotEditsMarkup(m, keyboard)
  BY <1>8, BotEditsMarkupStep
<1>9. CASE \E m \in feed : BotDeletes(m)
  BY <1>9, BotDeletesStep
<1>10. CASE \E m \in feed : Press(m)
  BY <1>10, PressStep
<1>11. CASE UNCHANGED vars
  BY <1>11, StutterStep
<1>12. CASE \E actor \in Bots \cup {Person} : PersonComesOrGoes(actor)
  BY <1>12, PersonComesOrGoesStep
<1>13. QED
  BY <1>1, <1>2, <1>3, <1>4, <1>5, <1>6, <1>7, <1>8, <1>9, <1>10, <1>11, <1>12 DEF Next

-----------------------------------------------------------------------------
THEOREM FeedInvariance == Spec => []IInv
BY InitIInv, NextIInv, PTL DEF Spec

(* Type correctness. *)
THEOREM FeedType == Spec => []TypeOK
BY FeedInvariance, PTL DEF IInv

(* However much is sent, edited and deleted, no two messages of a feed     *)
(* share an id: the next id is above all that are there (chats.py).        *)
THEOREM IdsAreUnique == Spec => []IdsNameOneMessage
<1>1. IInv => IdsNameOneMessage
  BY DEF IInv, FeedInv
<1>2. QED
  BY <1>1, FeedInvariance, PTL

(* For any bots, names, memberships and privacy, a message goes to just    *)
(* the bots that the specification lists (privacy.py).                     *)
THEOREM DeliveryFollowsTheList == Spec => []DeliveryAsSpecified
<1>1. IInv => DeliveryAsSpecified
  BY DEF IInv
<1>2. QED
  BY <1>1, FeedInvariance, PTL

(* The privacy a bot has in a chat changes only when it joins it, to the   *)
(* setting of that moment.                                                 *)
THEOREM PrivacyIsThatOfJoining == Spec => PrivacyChangesByRejoining
<1>1. IInv /\ [Next]_vars =>
        [\A b \in Bots : privacyAtJoin'[b] # privacyAtJoin[b] =>
            ~InChat(b, status) /\ InChat(b, status') /\ privacyAtJoin'[b] = privacyMode[b]]_vars
  <2> SUFFICES ASSUME IInv, Next, NEW b \in Bots, privacyAtJoin'[b] # privacyAtJoin[b]
               PROVE  ~InChat(b, status) /\ InChat(b, status')
                        /\ privacyAtJoin'[b] = privacyMode[b]
    OBVIOUS
  <2>1. PICK a \in Bots, st \in {"member", "administrator"}, actor \in Actors :
            Join(a, st, actor)
    BY DEF Next, Leave, PersonComesOrGoes, Promote, SetPrivacy, PersonSends, BotSends, BotEdits, BotEditsMarkup,
           BotDeletes, Press, chatVars
  <2>2. a = b
    BY <2>1 DEF Join, IInv, TypeOK
  <2>3. QED
    BY <2>1, <2>2 DEF Join, IInv, TypeOK, InChat
<1>2. QED
  BY <1>1, FeedInvariance, PTL DEF Spec, PrivacyChangesByRejoining

=============================================================================
