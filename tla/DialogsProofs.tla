--------------------------- MODULE DialogsProofs ---------------------------
(***************************************************************************)
(* Dialogs for any people, bots and number of messages.                    *)
(*                                                                         *)
(* Neither property is inductive: each reads users, runtimes and the keys  *)
(* of the two dictionaries together.  Inv says what relates them: who has  *)
(* a runtime has an entry in users, who is a bot in users has a runtime,   *)
(* a dialog is with somebody who has a runtime, and whoever has a talk has *)
(* an entry in users and, if he has a runtime, got it over a person.       *)
(***************************************************************************)
EXTENDS Dialogs, SequenceTheorems, WellFoundedInduction, TLAPS

-----------------------------------------------------------------------------
EntriesOk ==
    /\ users \in [Ids -> {"none", "person", "bot"}]
    /\ runtimes \subseteq BotIds
    /\ \A p \in Ids : users[p] = "bot" => p \in runtimes
    /\ \A p \in runtimes : users[p] # "none"

DialogsOk ==
    /\ DOMAIN dialog \subseteq Pairs
    /\ \A pair \in DOMAIN dialog : pair[2] \in runtimes

TalksOk ==
    /\ DOMAIN talk \subseteq Peers
    /\ \A peers \in DOMAIN talk : \A p \in peers :
        /\ users[p] # "none"
        /\ p \in runtimes => p \in takenOver

Inv == EntriesOk /\ DialogsOk /\ TalksOk

-----------------------------------------------------------------------------
(* The operations the actions are built from. *)

LEMMA PutDomain ==
    ASSUME NEW chats, NEW key, NEW thread
    PROVE  DOMAIN Put(chats, key, thread) = DOMAIN chats \cup {key}
BY DEF Put

LEMMA AppendedDomain ==
    ASSUME NEW chats, NEW key, NEW from, NEW button
    PROVE  DOMAIN Appended(chats, key, from, button) = DOMAIN chats \cup {key}
BY PutDomain DEF Appended

\* A new bot: whoever had a talk under its id had an entry, as a person.
LEMMA CreateBotKeeps ==
    ASSUME Inv, NEW b \in BotIds, CreateBot(b), talk' = talk
    PROVE  EntriesOk' /\ TalksOk' /\ runtimes' = runtimes \cup {b}
<1>1. EntriesOk'
  BY DEF Inv, EntriesOk, CreateBot, Ids
<1>2. TalksOk'
  <2>1. ASSUME NEW peers \in DOMAIN talk, NEW p \in peers
        PROVE  users'[p] # "none" /\ (p \in runtimes' => p \in takenOver')
    <3>1. p \in Ids
      BY DEF Inv, TalksOk, Peers
    <3>2. users[p] # "none" /\ (p \in runtimes => p \in takenOver)
      BY DEF Inv, TalksOk
    <3>3. p \notin runtimes => users[p] = "person"
      BY <3>1, <3>2 DEF Inv, EntriesOk
    <3>4. QED
      BY <3>1, <3>2, <3>3 DEF Inv, EntriesOk, CreateBot
  <2>2. QED
    BY <2>1 DEF Inv, TalksOk
<1>3. QED
  BY <1>1, <1>2 DEF CreateBot

LEMMA EnsureBotKeeps ==
    ASSUME Inv, NEW b \in BotIds, EnsureBot(b), talk' = talk
    PROVE  EntriesOk' /\ TalksOk' /\ runtimes' = runtimes \cup {b}
<1>1. CASE b \in runtimes
  BY <1>1 DEF EnsureBot, Inv, EntriesOk, TalksOk
<1>2. CASE b \notin runtimes
  BY <1>2, CreateBotKeeps DEF EnsureBot
<1>3. QED
  BY <1>1, <1>2

\* A dialog opened with a bot that has its runtime.
LEMMA OpenDialogKeeps ==
    ASSUME Inv, NEW u \in People, NEW b \in BotIds, OpenDialog(u, b),
           runtimes' = runtimes \cup {b}
    PROVE  DialogsOk'
<1>1. DOMAIN dialog' = DOMAIN dialog \cup {<<u, b>>}
  BY PutDomain DEF OpenDialog
<1>2. QED
  BY <1>1 DEF Inv, DialogsOk, Pairs

\* Entries that only appear keep what is said of the entries there are.
LEMMA MorePeople ==
    ASSUME Inv, NEW who \in SUBSET Ids,
           users' = [k \in Ids |-> IF k \in who /\ users[k] = "none"
                                   THEN "person" ELSE users[k]],
           runtimes' = runtimes
    PROVE  EntriesOk'
BY DEF Inv, EntriesOk, Ids

-----------------------------------------------------------------------------
LEMMA InvInit == Init => Inv
BY DEF Init, Inv, EntriesOk, DialogsOk, TalksOk

LEMMA InvNext == Inv /\ [Next]_vars => Inv'
<1> SUFFICES ASSUME Inv, [Next]_vars
             PROVE  Inv'
  OBVIOUS
<1> USE DEF Inv
<1>1. ASSUME NEW b \in BotIds, AdminCreateBot(b)
      PROVE  Inv'
  <2>1. CreateBot(b) /\ talk' = talk /\ dialog' = dialog
    BY <1>1 DEF AdminCreateBot
  <2>2. EntriesOk' /\ TalksOk' /\ runtimes' = runtimes \cup {b}
    BY <2>1, CreateBotKeeps
  <2>3. DialogsOk'
    BY <2>1, <2>2 DEF DialogsOk
  <2>4. QED
    BY <2>2, <2>3
<1>2. ASSUME NEW p \in Ids, AdminCreateUser(p)
      PROVE  Inv'
  BY <1>2 DEF AdminCreateUser, EntriesOk, DialogsOk, TalksOk
<1>3. ASSUME NEW u \in People, NEW p \in Ids, SendToPerson(u, p)
      PROVE  Inv'
  <2>1. u \in Ids /\ u \notin runtimes /\ p \notin runtimes
    BY <1>3, IdsAssumption DEF SendToPerson, HasToken, EntriesOk, Ids
  <2>2. DOMAIN talk' = DOMAIN talk \cup {{u, p}}
    BY <1>3, AppendedDomain DEF SendToPerson
  <2>3. users' = [k \in Ids |-> IF k \in {u, p} /\ users[k] = "none"
                                THEN "person" ELSE users[k]]
        /\ UNCHANGED <<runtimes, dialog, takenOver>>
    BY <1>3 DEF SendToPerson, WriterAndPeer
  <2>4. EntriesOk'
    BY <2>1, <2>3, MorePeople
  <2>5. DialogsOk'
    BY <2>3 DEF DialogsOk
  <2>6. TalksOk'
    <3>1. DOMAIN talk' \subseteq Peers
      BY <2>1, <2>2 DEF TalksOk, Peers
    <3>2. ASSUME NEW peers \in DOMAIN talk', NEW q \in peers
          PROVE  users'[q] # "none" /\ (q \in runtimes' => q \in takenOver')
      <4>1. q \in Ids
        BY <3>1, <3>2 DEF Peers
      <4>2. CASE peers = {u, p}
        BY <2>1, <2>3, <3>2, <4>1, <4>2
      <4>3. CASE peers \in DOMAIN talk
        BY <2>3, <3>2, <4>1, <4>3 DEF TalksOk
      <4>4. QED
        BY <2>2, <3>2, <4>2, <4>3
    <3>3. QED
      BY <3>1, <3>2 DEF TalksOk
  <2>7. QED
    BY <2>4, <2>5, <2>6
<1>4. ASSUME NEW u \in People, NEW b \in BotIds, AdminDialog(u, b)
      PROVE  Inv'
  BY <1>4, EnsureBotKeeps, OpenDialogKeeps DEF AdminDialog, Ids
<1>5. ASSUME NEW u \in People, NEW b \in BotIds, AdminOutboundChat(u, b)
      PROVE  Inv'
  BY <1>5, EnsureBotKeeps, OpenDialogKeeps DEF AdminOutboundChat, Ids
<1>6. ASSUME NEW u \in People, NEW b \in BotIds, AdminMessage(u, b)
      PROVE  Inv'
  <2>1. u \in Ids /\ u # b /\ u \notin runtimes
    BY IdsAssumption DEF EntriesOk, Ids
  <2>2. runtimes' = runtimes \cup {b} /\ talk' = talk /\ OpenDialog(u, b)
    BY <1>6 DEF AdminMessage
  <2>3. DialogsOk'
    BY <2>1, <2>2, OpenDialogKeeps
  <2>4. EntriesOk' /\ TalksOk'
    <3>1. CASE b \in runtimes
      <4>1. users' = [users EXCEPT ![u] = IF @ = "none" THEN "person" ELSE @]
            /\ runtimes' = runtimes /\ takenOver' = takenOver
        BY <1>6, <3>1 DEF AdminMessage
      <4>2. EntriesOk'
        BY <2>1, <4>1 DEF EntriesOk
      <4>3. TalksOk'
        BY <2>1, <2>2, <4>1 DEF TalksOk, EntriesOk, Peers
      <4>4. QED
        BY <4>2, <4>3
    <3>2. CASE b \notin runtimes
      <4>1. /\ users' = [users EXCEPT ![b] = "bot",
                                      ![u] = IF @ = "none" THEN "person" ELSE @]
            /\ takenOver' = takenOver \cup (IF users[b] = "person" THEN {b} ELSE {})
        BY <1>6, <3>2 DEF AdminMessage
      <4>2. EntriesOk'
        BY <2>1, <2>2, <4>1 DEF EntriesOk, Ids
      <4>3. ASSUME NEW peers \in DOMAIN talk, NEW p \in peers
            PROVE  users'[p] # "none" /\ (p \in runtimes' => p \in takenOver')
        <5>1. p \in Ids
          BY <4>3 DEF TalksOk, Peers
        <5>2. users[p] # "none" /\ (p \in runtimes => p \in takenOver)
          BY <4>3 DEF TalksOk
        <5>3. p \notin runtimes => users[p] = "person"
          BY <5>1, <5>2 DEF EntriesOk
        <5>4. QED
          BY <2>1, <2>2, <4>1, <5>1, <5>2, <5>3 DEF EntriesOk
      <4>4. TalksOk'
        BY <2>2, <4>3 DEF TalksOk
      <4>5. QED
        BY <4>2, <4>4
    <3>3. QED
      BY <3>1, <3>2
  <2>5. QED
    BY <2>3, <2>4
<1>7. ASSUME NEW u \in People, NEW b \in BotIds, SendToBot(u, b)
      PROVE  Inv'
  <2>1. u \in Ids /\ b \in runtimes
    BY <1>7 DEF SendToBot, HasToken, Ids
  <2>2. users' = [users EXCEPT ![u] = IF @ = "none" THEN "person" ELSE @]
        /\ UNCHANGED <<runtimes, talk, takenOver>>
    BY <1>7 DEF SendToBot
  <2>3. DOMAIN dialog' = DOMAIN dialog \cup {<<u, b>>}
    BY <1>7, AppendedDomain DEF SendToBot
  <2>4. EntriesOk'
    BY <2>1, <2>2 DEF EntriesOk
  <2>5. DialogsOk'
    BY <2>1, <2>2, <2>3 DEF DialogsOk, Pairs
  <2>6. TalksOk'
    BY <2>1, <2>2 DEF TalksOk, EntriesOk, Peers
  <2>7. QED
    BY <2>4, <2>5, <2>6
<1>8. ASSUME NEW u \in People, NEW b \in BotIds, NEW button \in BOOLEAN,
             BotSend(b, u, button)
      PROVE  Inv'
  <2>1. <<u, b>> \in DOMAIN dialog /\ dialog' = Appended(dialog, <<u, b>>, b, button)
    BY <1>8 DEF BotSend
  <2>2. DOMAIN Appended(dialog, <<u, b>>, b, button) = DOMAIN dialog \cup {<<u, b>>}
    BY AppendedDomain
  <2>3. DOMAIN dialog' = DOMAIN dialog
    BY <2>1, <2>2
  <2>4. QED
    BY <1>8, <2>3 DEF BotSend, EntriesOk, DialogsOk, TalksOk
<1>9. ASSUME NEW u \in People, NEW b \in BotIds, NEW i, NEW button \in BOOLEAN,
             BotEdit(b, u, i, button)
      PROVE  Inv'
  BY <1>9 DEF BotEdit, EntriesOk, DialogsOk, TalksOk
<1>10. ASSUME NEW u \in People, NEW b \in BotIds, NEW i, BotDelete(b, u, i)
       PROVE  Inv'
  BY <1>10 DEF BotDelete, EntriesOk, DialogsOk, TalksOk
<1>11. ASSUME UNCHANGED <<users, runtimes, dialog, talk, takenOver>>
       PROVE  Inv'
  BY <1>11 DEF EntriesOk, DialogsOk, TalksOk
<1>12. ASSUME NEW u \in People, NEW chat, NEW meant, NEW id, NEW by,
              Press(u, chat, meant, id, by)
       PROVE  Inv'
  <2>1. users' = [users EXCEPT ![u] = IF @ = "none" THEN "person" ELSE @]
        /\ UNCHANGED <<runtimes, dialog, talk, takenOver>>
    BY <1>12 DEF Press
  <2>2. u \in Ids
    BY DEF Ids
  <2>3. EntriesOk' /\ DialogsOk'
    BY <2>1, <2>2 DEF EntriesOk, DialogsOk
  <2>4. TalksOk'
    BY <2>1, <2>2 DEF TalksOk, EntriesOk, Peers
  <2>5. QED
    BY <2>3, <2>4
<1>13. ASSUME NEW u \in People, NEW b \in BotIds, AdminCallback(u, b)
       PROVE  Inv'
  BY <1>11, <1>13 DEF AdminCallback
<1>14. CASE UNCHANGED vars
  BY <1>11, <1>14 DEF vars
<1>15. CASE Other
  BY <1>1, <1>2, <1>3, <1>4, <1>5, <1>6, <1>7, <1>8, <1>9, <1>10, <1>15 DEF Other
<1>16. ASSUME NEW u \in People, NEW p \in Ids, NEW id, PressAsViewer(u, p, id)
       PROVE  Inv'
  BY <1>12, <1>16 DEF PressAsViewer
<1>17. ASSUME NEW u \in People, NEW b \in BotIds, PressAsClient(u, b)
       PROVE  Inv'
  BY <1>12, <1>17 DEF PressAsClient
<1>18. QED
  BY <1>13, <1>14, <1>15, <1>16, <1>17 DEF Next

-----------------------------------------------------------------------------
LEMMA DialogsAreShown ==
    ASSUME Inv
    PROVE  HiddenOnlyByTakeover
<1>1. ASSUME NEW pair \in DOMAIN dialog
      PROVE  ThreadFor(pair[1], pair[2]) = dialog[pair]
  <2>1. pair = <<pair[1], pair[2]>> /\ pair[2] \in runtimes
    BY DEF Inv, DialogsOk, Pairs
  <2>2. QED
    BY <2>1 DEF ThreadFor, IsBotId, ThreadOf
<1>2. ASSUME NEW a \in Ids, NEW b \in Ids,
             ThreadOf(talk, {a, b}) # <<>>, ThreadFor(a, b) # talk[{a, b}]
      PROVE  b \in takenOver
  <2>1. {a, b} \in DOMAIN talk
    BY <1>2 DEF ThreadOf
  <2>2. IsBotId(b)
    BY <1>2, <2>1 DEF ThreadFor, ThreadOf
  <2>3. b \in runtimes
    BY <2>2 DEF IsBotId, Inv, EntriesOk
  <2>4. QED
    BY <2>1, <2>3 DEF Inv, TalksOk
<1>3. QED
  BY <1>1, <1>2 DEF HiddenOnlyByTakeover

LEMMA PeersAreListed ==
    ASSUME Inv
    PROVE  ChatListIsComplete
<1> SUFFICES ASSUME NEW viewer \in People, ~ListFails(viewer), NEW peer \in Ids
             PROVE  /\ ThreadFor(viewer, peer) # <<>> => peer \in ChatsFor(viewer)
                    /\ peer \in ChatsFor(viewer) => users[peer] # "none"
  <2>1. ASSUME NEW viewer \in People
        PROVE  ChatsFor(viewer) \subseteq Ids
    BY DEF ChatsFor, Inv, DialogsOk, TalksOk, Pairs, Peers, Ids
  <2>2. QED
    BY <2>1 DEF ChatListIsComplete
<1>1. ASSUME ThreadFor(viewer, peer) # <<>>, IsBotId(peer)
      PROVE  peer \in ChatsFor(viewer)
  <2>1. <<viewer, peer>> \in DOMAIN dialog
    BY <1>1 DEF ThreadFor, ThreadOf
  <2>2. QED
    BY <2>1 DEF ChatsFor
<1>2. ASSUME ThreadFor(viewer, peer) # <<>>, ~IsBotId(peer)
      PROVE  peer \in ChatsFor(viewer)
  <2>1. {viewer, peer} \in DOMAIN talk
    BY <1>2 DEF ThreadFor, ThreadOf
  <2>2. peer # viewer
    <3>1. {viewer, viewer} = {viewer}
      OBVIOUS
    <3>2. QED
      BY <2>1, <3>1 DEF ListFails
  <2>3. {viewer, peer} \in {k \in DOMAIN talk : viewer \in k}
    BY <2>1
  <2>4. peer \in {viewer, peer} \ {viewer}
    BY <2>2
  <2>5. QED
    BY <2>3, <2>4 DEF ChatsFor
<1>3. ASSUME peer \in ChatsFor(viewer)
      PROVE  users[peer] # "none"
  <2>1. CASE peer \in {pair[2] : pair \in {k \in DOMAIN dialog : k[1] = viewer}}
    BY <2>1 DEF Inv, DialogsOk, EntriesOk
  <2>2. CASE peer \in UNION {peers \ {viewer} : peers \in {k \in DOMAIN talk : viewer \in k}}
    BY <2>2 DEF Inv, TalksOk
  <2>3. QED
    BY <1>3, <2>1, <2>2 DEF ChatsFor
<1>4. QED
  BY <1>1, <1>2, <1>3

(* What is stored is shown: only a person's id that a bot took over hides a *)
(* conversation (append_message and thread_for, network.py:574-650).        *)
THEOREM NothingElseIsHidden == Spec => []HiddenOnlyByTakeover
<1>1. Spec => []Inv
  BY InvInit, InvNext, PTL DEF Spec
<1>2. Inv => HiddenOnlyByTakeover
  BY DialogsAreShown
<1>3. QED
  BY <1>1, <1>2, PTL

(* Whoever gets a list of chats finds on it every peer with something to   *)
(* show, and nobody without an entry in users (chats_for, network.py:652). *)
THEOREM ListsAreComplete == Spec => []ChatListIsComplete
<1>1. Spec => []Inv
  BY InvInit, InvNext, PTL DEF Spec
<1>2. Inv => ChatListIsComplete
  BY PeersAreListed
<1>3. QED
  BY <1>1, <1>2, PTL

-----------------------------------------------------------------------------
(* The contents of the threads: messages with numbers up to `stored`.      *)

Kept(n) == {m \in Message : m.id <= n}

KeysOk ==
    /\ opened \in Seq(Pairs) /\ IsInjective(opened)
    /\ DOMAIN dialog = ToSet(opened)

ThreadsOk ==
    /\ stored \in 0 .. MaxMessages
    /\ \A pair \in DOMAIN dialog : dialog[pair] \in Seq(Kept(stored))
    /\ \A peers \in DOMAIN talk : talk[peers] \in Seq(Kept(stored))

HistoryOk == takenOver \subseteq BotIds

QueryOk == query \in Query \cup {NoQuery}

TInv == Inv /\ KeysOk /\ ThreadsOk /\ HistoryOk

LEMMA KeptGrows ==
    ASSUME NEW n \in Nat, NEW thread \in Seq(Kept(n))
    PROVE  thread \in Seq(Kept(n + 1))
<1>1. Kept(n) \subseteq Kept(n + 1)
  BY DEF Kept, Message
<1>2. QED
  BY <1>1, SeqMonotonic

\* A thread that is no key has no messages.
LEMMA ThreadOfKept ==
    ASSUME NEW chats, NEW key, NEW n \in Nat,
           \A k \in DOMAIN chats : chats[k] \in Seq(Kept(n))
    PROVE  ThreadOf(chats, key) \in Seq(Kept(n))
BY EmptySeq DEF ThreadOf

\* The highest number of a thread is there, and NextId is the one after it.
LEMMA NextIdBounds ==
    ASSUME NEW n \in Nat, NEW thread \in Seq(Kept(n))
    PROVE  NextId(thread) \in 1 .. n + 1
<1> DEFINE ids == {0} \cup {thread[i].id : i \in DOMAIN thread}
           below == {n - x : x \in ids}
           Less == OpToRel(<, Nat)
<1>1. ids \subseteq 0 .. n
  <2>1. \A i \in DOMAIN thread : thread[i] \in Kept(n)
    BY ElementOfSeq
  <2>2. QED
    BY <2>1 DEF Kept, Message
<1>2. below \subseteq Nat /\ below # {}
  BY <1>1
<1>3. \A u, t \in Nat : u < t => <<u, t>> \in Less
  BY DEF OpToRel
<1>4. IsWellFoundedOn(Less, Nat)
  BY NatLessThanWellFounded
<1> HIDE DEF Less
<1>5. PICK t \in below : \A u \in below : ~(<<u, t>> \in Less)
  BY <1>2, <1>4, WFMin
<1>6. PICK x \in ids : t = n - x
  BY DEF below
<1>7. \A y \in ids : x >= y
  <2>1. ASSUME NEW y \in ids
        PROVE  x >= y
    <3>1. n - y \in below /\ n - y \in Nat /\ t \in Nat
      BY <1>2
    <3>2. ~(n - y < t)
      BY <1>3, <1>5, <3>1
    <3>3. QED
      BY <1>1, <1>6, <3>2
  <2>2. QED
    BY <2>1
<1>8. Max(ids) \in ids
  BY <1>7 DEF Max
<1>9. NextId(thread) = Max(ids) + 1
  BY DEF NextId
<1> HIDE DEF ids
<1>10. Max(ids) \in 0 .. n
  BY <1>1, <1>8
<1> DEFINE highest == Max(ids)
<1> HIDE DEF highest
<1>11. highest \in 0 .. n /\ NextId(thread) = highest + 1
  BY <1>9, <1>10 DEF highest
<1>12. QED
  BY <1>11

LEMMA AppendedKept ==
    ASSUME NEW chats, NEW key, NEW from \in Ids, NEW button \in BOOLEAN,
           NEW n \in Nat, n < MaxMessages,
           \A k \in DOMAIN chats : chats[k] \in Seq(Kept(n))
    PROVE  \A k \in DOMAIN Appended(chats, key, from, button) :
                Appended(chats, key, from, button)[k] \in Seq(Kept(n + 1))
<1> DEFINE thread == ThreadOf(chats, key)
           m == [id |-> NextId(thread), from |-> from, button |-> button]
<1>1. thread \in Seq(Kept(n))
  BY ThreadOfKept
<1>2. m \in Kept(n + 1)
  <2>1. NextId(thread) \in 1 .. n + 1
    BY <1>1, NextIdBounds
  <2>2. QED
    BY <2>1, MaxMessagesAssumption DEF Kept, Message
<1>3. Append(thread, m) \in Seq(Kept(n + 1))
  <2>1. thread \in Seq(Kept(n + 1))
    BY <1>1, KeptGrows
  <2>2. QED
    BY <1>2, <2>1, AppendProperties
<1>4. Appended(chats, key, from, button) = Put(chats, key, Append(thread, m))
  BY DEF Appended
<1> HIDE DEF thread, m
<1>5. QED
  BY <1>3, <1>4, KeptGrows DEF Put

LEMMA RemoveAtKept ==
    ASSUME NEW S, NEW thread \in Seq(S), NEW i \in DOMAIN thread
    PROVE  RemoveAt(thread, i) \in Seq(S)
<1>1. i \in 1 .. Len(thread) /\ Len(thread) \in Nat
  BY LenProperties
<1>2. \A k \in DOMAIN thread : thread[k] \in S
  BY ElementOfSeq
<1>3. SubSeq(thread, 1, i - 1) \in Seq(S)
  BY <1>1, <1>2, SubSeqProperties
<1>4. SubSeq(thread, i + 1, Len(thread)) \in Seq(S)
  BY <1>1, <1>2, SubSeqProperties
<1>5. QED
  BY <1>3, <1>4, ConcatProperties DEF RemoveAt

\* A new key comes last in the order of the dictionary.
LEMMA KeysGrow ==
    ASSUME KeysOk, NEW pair \in Pairs,
           opened' = IF pair \in DOMAIN dialog THEN opened ELSE Append(opened, pair),
           DOMAIN dialog' = DOMAIN dialog \cup {pair}
    PROVE  KeysOk'
<1>1. CASE pair \in DOMAIN dialog
  BY <1>1 DEF KeysOk
<1>2. CASE pair \notin DOMAIN dialog
  <2>1. /\ opened' = Append(opened, pair)
        /\ opened' \in Seq(Pairs)
        /\ Len(opened) \in Nat /\ DOMAIN opened = 1 .. Len(opened)
        /\ Len(opened') = Len(opened) + 1
        /\ DOMAIN opened' = 1 .. Len(opened) + 1
        /\ \A i \in 1 .. Len(opened) : opened'[i] = opened[i]
        /\ opened'[Len(opened) + 1] = pair
    BY <1>2, AppendProperties, LenProperties DEF KeysOk
  <2>2. ToSet(opened') = ToSet(opened) \cup {pair}
    BY <2>1 DEF ToSet
  <2>3. \A i \in DOMAIN opened : opened[i] # pair
    BY <1>2 DEF KeysOk, ToSet
  <2>4. IsInjective(opened')
    BY <2>1, <2>3 DEF KeysOk, IsInjective
  <2>5. QED
    BY <2>1, <2>2, <2>4 DEF KeysOk
<1>3. QED
  BY <1>1, <1>2

LEMMA OpenDialogThreads ==
    ASSUME TInv, NEW u \in People, NEW b \in BotIds, OpenDialog(u, b),
           UNCHANGED <<talk, stored>>
    PROVE  KeysOk' /\ ThreadsOk'
<1>1. DOMAIN dialog' = DOMAIN dialog \cup {<<u, b>>}
  BY PutDomain DEF OpenDialog
<1>2. KeysOk'
  BY <1>1, KeysGrow DEF OpenDialog, TInv, Pairs
<1>3. ThreadOf(dialog, <<u, b>>) \in Seq(Kept(stored))
  BY ThreadOfKept, MaxMessagesAssumption DEF TInv, ThreadsOk
<1>4. \A pair \in DOMAIN dialog' : dialog'[pair] \in Seq(Kept(stored))
  BY <1>3 DEF OpenDialog, Put, TInv, ThreadsOk
<1>5. QED
  BY <1>2, <1>4 DEF TInv, ThreadsOk

-----------------------------------------------------------------------------
LEMMA TInvInit == Init => TInv
<1> SUFFICES ASSUME Init
             PROVE  TInv
  OBVIOUS
<1>1. Inv
  BY InvInit
<1>2. KeysOk
  BY EmptySeq DEF Init, KeysOk, IsInjective, ToSet
<1>3. ThreadsOk
  BY MaxMessagesAssumption DEF Init, ThreadsOk
<1>4. QED
  BY <1>1, <1>2, <1>3 DEF Init, TInv, HistoryOk

LEMMA TInvNext == TInv /\ [Next]_vars => TInv'
<1> SUFFICES ASSUME TInv, [Next]_vars
             PROVE  KeysOk' /\ ThreadsOk' /\ HistoryOk'
  BY InvNext DEF TInv
<1>0. stored \in Nat /\ People \subseteq Ids /\ BotIds \subseteq Ids
  BY MaxMessagesAssumption DEF TInv, ThreadsOk, Ids
<1>1. ASSUME UNCHANGED <<opened, dialog, talk, stored>>
      PROVE  KeysOk' /\ ThreadsOk'
  BY <1>1 DEF TInv, KeysOk, ThreadsOk
<1>2. ASSUME UNCHANGED takenOver
      PROVE  HistoryOk'
  BY <1>2 DEF TInv, HistoryOk
<1>3. ASSUME NEW b \in BotIds, EnsureBot(b) \/ CreateBot(b)
      PROVE  HistoryOk'
  BY <1>3 DEF EnsureBot, CreateBot, TInv, HistoryOk
<1>4. ASSUME NEW b \in BotIds, AdminCreateBot(b)
      PROVE  KeysOk' /\ ThreadsOk' /\ HistoryOk'
  BY <1>1, <1>3, <1>4 DEF AdminCreateBot
<1>5. ASSUME NEW p \in Ids, AdminCreateUser(p)
      PROVE  KeysOk' /\ ThreadsOk' /\ HistoryOk'
  BY <1>1, <1>2, <1>5 DEF AdminCreateUser
<1>6. ASSUME NEW u \in People, NEW p \in Ids, SendToPerson(u, p)
      PROVE  KeysOk' /\ ThreadsOk' /\ HistoryOk'
  <2>1. /\ stored < MaxMessages /\ stored' = stored + 1
        /\ talk' = Appended(talk, {u, p}, u, FALSE)
        /\ UNCHANGED <<opened, dialog, takenOver>>
    BY <1>6 DEF SendToPerson
  <2>2. \A peers \in DOMAIN talk' : talk'[peers] \in Seq(Kept(stored'))
    BY <1>0, <2>1, AppendedKept DEF TInv, ThreadsOk
  <2>3. \A pair \in DOMAIN dialog' : dialog'[pair] \in Seq(Kept(stored'))
    BY <1>0, <2>1, KeptGrows DEF TInv, ThreadsOk
  <2>4. stored' \in 0 .. MaxMessages
    BY <1>0, <2>1, MaxMessagesAssumption
  <2>5. QED
    BY <1>2, <2>1, <2>2, <2>3, <2>4 DEF TInv, KeysOk, ThreadsOk
<1>7. ASSUME NEW u \in People, NEW b \in BotIds,
             AdminDialog(u, b) \/ AdminOutboundChat(u, b)
      PROVE  KeysOk' /\ ThreadsOk' /\ HistoryOk'
  BY <1>0, <1>3, <1>7, OpenDialogThreads DEF AdminDialog, AdminOutboundChat
<1>8. ASSUME NEW u \in People, NEW b \in BotIds, AdminMessage(u, b)
      PROVE  KeysOk' /\ ThreadsOk' /\ HistoryOk'
  <2>1. OpenDialog(u, b) /\ UNCHANGED <<talk, stored>>
    BY <1>8 DEF AdminMessage
  <2>2. takenOver' \subseteq BotIds
    BY <1>8 DEF AdminMessage, TInv, HistoryOk
  <2>3. QED
    BY <1>0, <2>1, <2>2, OpenDialogThreads DEF TInv, HistoryOk
<1>9. ASSUME NEW u \in People, NEW b \in BotIds, SendToBot(u, b)
      PROVE  KeysOk' /\ ThreadsOk' /\ HistoryOk'
  <2>1. /\ stored < MaxMessages /\ stored' = stored + 1
        /\ opened' = IF <<u, b>> \in DOMAIN dialog
                     THEN opened ELSE Append(opened, <<u, b>>)
        /\ dialog' = Appended(dialog, <<u, b>>, u, FALSE)
        /\ UNCHANGED <<talk, takenOver>>
    BY <1>9 DEF SendToBot
  <2>2. DOMAIN dialog' = DOMAIN dialog \cup {<<u, b>>}
    BY <2>1, AppendedDomain
  <2>3. KeysOk'
    <3>1. <<u, b>> \in Pairs
      BY <1>0 DEF Pairs
    <3>2. KeysOk
      BY DEF TInv
    <3>3. QED
      BY <2>1, <2>2, <3>1, <3>2, KeysGrow
  <2>4. \A pair \in DOMAIN dialog' : dialog'[pair] \in Seq(Kept(stored'))
    BY <1>0, <2>1, AppendedKept DEF TInv, ThreadsOk
  <2>5. \A peers \in DOMAIN talk' : talk'[peers] \in Seq(Kept(stored'))
    BY <1>0, <2>1, KeptGrows DEF TInv, ThreadsOk
  <2>6. stored' \in 0 .. MaxMessages
    BY <1>0, <2>1, MaxMessagesAssumption
  <2>7. QED
    BY <1>2, <2>1, <2>3, <2>4, <2>5, <2>6 DEF ThreadsOk
<1>10. ASSUME NEW u \in People, NEW b \in BotIds, NEW button \in BOOLEAN,
              BotSend(b, u, button)
       PROVE  KeysOk' /\ ThreadsOk' /\ HistoryOk'
  <2>1. /\ stored < MaxMessages /\ stored' = stored + 1
        /\ <<u, b>> \in DOMAIN dialog
        /\ dialog' = Appended(dialog, <<u, b>>, b, button)
        /\ UNCHANGED <<opened, talk, takenOver>>
    BY <1>10 DEF BotSend
  <2>2. DOMAIN dialog' = DOMAIN dialog \cup {<<u, b>>}
    BY <2>1, AppendedDomain
  <2>3. KeysOk'
    BY <2>1, <2>2 DEF TInv, KeysOk
  <2>4. \A pair \in DOMAIN dialog' : dialog'[pair] \in Seq(Kept(stored'))
    BY <1>0, <2>1, AppendedKept DEF TInv, ThreadsOk
  <2>5. \A peers \in DOMAIN talk' : talk'[peers] \in Seq(Kept(stored'))
    BY <1>0, <2>1, KeptGrows DEF TInv, ThreadsOk
  <2>6. stored' \in 0 .. MaxMessages
    BY <1>0, <2>1, MaxMessagesAssumption
  <2>7. QED
    BY <1>2, <2>1, <2>3, <2>4, <2>5, <2>6 DEF ThreadsOk
<1>11. ASSUME NEW u \in People, NEW b \in BotIds, NEW button \in BOOLEAN,
              NEW i \in DOMAIN ThreadOf(dialog, <<u, b>>), BotEdit(b, u, i, button)
       PROVE  KeysOk' /\ ThreadsOk' /\ HistoryOk'
  <2> DEFINE thread == dialog[<<u, b>>]
             edited == [thread EXCEPT ![i] = [@ EXCEPT !.button = button]]
  <2>1. <<u, b>> \in DOMAIN dialog /\ i \in DOMAIN thread
    BY DEF ThreadOf
  <2>2. dialog' = [dialog EXCEPT ![<<u, b>>] = edited]
        /\ UNCHANGED <<opened, talk, stored, takenOver>>
    BY <1>11 DEF BotEdit
  <2>3. thread \in Seq(Kept(stored))
    BY <2>1 DEF TInv, ThreadsOk
  <2>4. [thread[i] EXCEPT !.button = button] \in Kept(stored)
    <3>1. thread[i] \in Kept(stored)
      BY <2>1, <2>3, ElementOfSeq
    <3>2. QED
      BY <3>1 DEF Kept, Message
  <2>5. edited \in Seq(Kept(stored))
    BY <2>1, <2>3, <2>4, ExceptSeq
  <2> HIDE DEF thread, edited
  <2>6. KeysOk' /\ ThreadsOk'
    BY <2>1, <2>2, <2>5 DEF TInv, KeysOk, ThreadsOk
  <2>7. QED
    BY <1>2, <2>2, <2>6
<1>12. ASSUME NEW u \in People, NEW b \in BotIds,
              NEW i \in DOMAIN ThreadOf(dialog, <<u, b>>), BotDelete(b, u, i)
       PROVE  KeysOk' /\ ThreadsOk' /\ HistoryOk'
  <2> DEFINE rest == RemoveAt(dialog[<<u, b>>], i)
  <2>1. <<u, b>> \in DOMAIN dialog /\ i \in DOMAIN dialog[<<u, b>>]
    BY DEF ThreadOf
  <2>2. dialog' = [dialog EXCEPT ![<<u, b>>] = rest]
        /\ UNCHANGED <<opened, talk, stored, takenOver>>
    BY <1>12 DEF BotDelete
  <2>3. rest \in Seq(Kept(stored))
    BY <2>1, RemoveAtKept DEF TInv, ThreadsOk
  <2> HIDE DEF rest
  <2>4. KeysOk' /\ ThreadsOk'
    BY <2>1, <2>2, <2>3 DEF TInv, KeysOk, ThreadsOk
  <2>5. QED
    BY <1>2, <2>2, <2>4
<1>13. ASSUME NEW u \in People, NEW chat, NEW meant, NEW id, NEW by,
              Press(u, chat, meant, id, by)
       PROVE  KeysOk' /\ ThreadsOk' /\ HistoryOk'
  BY <1>1, <1>2, <1>13 DEF Press
<1>14. ASSUME NEW u \in People, NEW b \in BotIds, AdminCallback(u, b)
       PROVE  KeysOk' /\ ThreadsOk' /\ HistoryOk'
  BY <1>1, <1>2, <1>14 DEF AdminCallback
<1>15. CASE UNCHANGED vars
  BY <1>1, <1>2, <1>15 DEF vars
<1>16. CASE Other
  BY <1>4, <1>5, <1>6, <1>7, <1>8, <1>9, <1>10, <1>11, <1>12, <1>16 DEF Other
<1>17. ASSUME NEW u \in People, NEW p \in Ids, NEW id, PressAsViewer(u, p, id)
       PROVE  KeysOk' /\ ThreadsOk' /\ HistoryOk'
  BY <1>13, <1>17 DEF PressAsViewer
<1>18. ASSUME NEW u \in People, NEW b \in BotIds, PressAsClient(u, b)
       PROVE  KeysOk' /\ ThreadsOk' /\ HistoryOk'
  BY <1>13, <1>18 DEF PressAsClient
<1>19. QED
  BY <1>14, <1>15, <1>16, <1>17, <1>18 DEF Next

\* What a press asks for is a query of some message's number.
LEMMA PressQuery ==
    ASSUME TInv, NEW u \in People, NEW chat \in Ids, NEW meant \in Ids,
           NEW id \in 1 .. MaxMessages, NEW by \in {"viewer", "client"},
           Press(u, chat, meant, id, by)
    PROVE  query' \in Query
<1>1. \A i \in DOMAIN opened : opened[i][2] \in BotIds
  BY ElementOfSeq DEF TInv, KeysOk, Pairs
<1>2. HasToken(chat) => chat \in BotIds
  BY DEF TInv, Inv, EntriesOk, HasToken
<1>3. QED
  BY <1>1, <1>2 DEF Press, OldestFirst, Ask, Query

LEMMA QueryNext == TInv /\ QueryOk /\ [Next]_vars => QueryOk'
<1> SUFFICES ASSUME TInv, QueryOk, [Next]_vars
             PROVE  QueryOk'
  OBVIOUS
<1>0. stored \in Nat /\ People \subseteq Ids /\ BotIds \subseteq Ids
  BY MaxMessagesAssumption DEF TInv, ThreadsOk, Ids
<1>1. ASSUME NEW u \in People, NEW p \in Ids, NEW id \in 1 .. MaxMessages,
             PressAsViewer(u, p, id)
      PROVE  query' \in Query
  BY <1>1, PressQuery DEF PressAsViewer
<1>2. ASSUME NEW u \in People, NEW b \in BotIds, PressAsClient(u, b)
      PROVE  query' \in Query
  <2> DEFINE own == ThreadOf(dialog, <<u, b>>)
  <2>1. PICK last \in DOMAIN own : Press(u, u, b, own[last].id, "client")
    BY <1>2 DEF PressAsClient
  <2>2. own \in Seq(Kept(stored))
    BY <1>0, ThreadOfKept DEF TInv, ThreadsOk
  <2>3. own[last] \in Kept(stored)
    BY <2>2, ElementOfSeq
  <2>4. own[last].id \in 1 .. MaxMessages
    BY <2>3 DEF Kept, Message
  <2> HIDE DEF own
  <2>5. QED
    BY <1>0, <2>1, <2>4, PressQuery
<1>3. ASSUME NEW u \in People, NEW b \in BotIds, AdminCallback(u, b)
      PROVE  query' \in Query
  <2>1. /\ ThreadOf(dialog, <<u, b>>) # <<>>
        /\ Ask(u, b, b, Last(dialog[<<u, b>>]).id, "admin")
    BY <1>3 DEF AdminCallback
  <2>2. dialog[<<u, b>>] \in Seq(Kept(stored)) /\ dialog[<<u, b>>] # <<>>
    BY <2>1 DEF ThreadOf, TInv, ThreadsOk
  <2>3. Last(dialog[<<u, b>>]) \in Kept(stored)
    BY <2>2, ElementOfSeq, LenProperties, EmptySeq DEF Last
  <2>4. Last(dialog[<<u, b>>]).id \in 1 .. MaxMessages
    BY <2>3 DEF Kept, Message
  <2>5. QED
    BY <1>0, <2>1, <2>4 DEF Ask, Query
<1>4. QED
  BY <1>1, <1>2, <1>3 DEF Next, vars, QueryOk

LEMMA TInvImpliesType == TInv /\ QueryOk => TypeOK
<1> SUFFICES ASSUME TInv, QueryOk
             PROVE  TypeOK
  OBVIOUS
<1>1. ASSUME NEW thread \in Seq(Kept(stored))
      PROVE  thread \in Seq(Message)
  <2>1. Kept(stored) \subseteq Message
    BY DEF Kept
  <2>2. QED
    BY <2>1, SeqMonotonic
<1>2. QED
  BY <1>1 DEF TInv, Inv, EntriesOk, KeysOk, ThreadsOk, TalksOk, HistoryOk, QueryOk, TypeOK

(* Type correctness: users, the two dictionaries with the order of the one, *)
(* the numbers of the messages, the last query (Network, network.py).      *)
THEOREM DialogsType == Spec => []TypeOK
<1>1. Spec => []TInv
  BY TInvInit, TInvNext, PTL DEF Spec
<1>2. Init => QueryOk
  BY DEF Init, QueryOk
<1>3. Spec => []QueryOk
  BY <1>1, <1>2, QueryNext, PTL DEF Spec
<1>4. QED
  BY <1>1, <1>3, TInvImpliesType, PTL

-----------------------------------------------------------------------------
(* Presses. *)

\* What an id of a bot with a runtime is shown is the dialog.
LEMMA ButtonIsInDialog ==
    ASSUME NEW u, NEW b \in runtimes, NEW id, HasButton(ThreadFor(u, b), id)
    PROVE  Has(dialog[<<u, b>>], id) /\ HasButton(dialog[<<u, b>>], id)
<1>1. ThreadFor(u, b) = ThreadOf(dialog, <<u, b>>)
  BY DEF ThreadFor, IsBotId
<1>2. <<u, b>> \in DOMAIN dialog
  BY <1>1 DEF ThreadOf, HasButton
<1>3. QED
  BY <1>1, <1>2 DEF ThreadOf, HasButton, Has

LEMMA PositionIs ==
    ASSUME KeysOk, NEW i \in DOMAIN opened
    PROVE  Position(opened[i]) = i
BY DEF Position, KeysOk, IsInjective

Meets(q) ==
    /\ Has(dialog[<<Owner(q), q.got>>], q.id)
    /\ q.by \in {"viewer", "client"} => HasButton(dialog[<<Owner(q), q.got>>], q.id)
    /\ q.meant \in BotIds /\ q.got # q.meant =>
        /\ q.by = "client"
        /\ Position(<<q.user, q.got>>) < Position(<<q.user, q.meant>>)

\* A person's id stands for the first of his dialogs with the number.
LEMMA PressOfPerson ==
    ASSUME TInv, NEW u \in People, NEW p \in People, NEW meant, NEW id, NEW by,
           Press(u, p, meant, id, by)
    PROVE  \E first \in DOMAIN opened :
                /\ opened[first] = <<p, opened[first][2]>>
                /\ Has(dialog[opened[first]], id) /\ HasButton(dialog[opened[first]], id)
                /\ \A i \in 1 .. first - 1 :
                        ~(opened[i][1] = p /\ Has(dialog[opened[i]], id))
                /\ query' = [user |-> u, meant |-> meant, got |-> opened[first][2],
                             id |-> id, by |-> by]
<1>1. ~HasToken(p)
  BY IdsAssumption DEF TInv, Inv, EntriesOk, HasToken
<1>2. PICK first \in DOMAIN opened :
        /\ opened[first][1] = p /\ Has(dialog[opened[first]], id)
        /\ \A i \in 1 .. first - 1 : ~(opened[i][1] = p /\ Has(dialog[opened[i]], id))
        /\ HasButton(dialog[opened[first]], id)
        /\ Ask(u, meant, opened[first][2], id, by)
  BY <1>1 DEF Press, OldestFirst
<1>3. opened[first] = <<p, opened[first][2]>>
  BY <1>2, ElementOfSeq DEF TInv, KeysOk, Pairs
<1>4. QED
  BY <1>2, <1>3 DEF Ask

LEMMA ViewerMeets ==
    ASSUME TInv, NEW u \in People, NEW p \in Ids, NEW id, PressAsViewer(u, p, id)
    PROVE  Meets(query')
<1>1. Press(u, p, p, id, "viewer")
  BY DEF PressAsViewer
<1>2. CASE p \in People
  <2>1. PICK first \in DOMAIN opened :
            /\ opened[first] = <<p, opened[first][2]>>
            /\ Has(dialog[opened[first]], id) /\ HasButton(dialog[opened[first]], id)
            /\ query' = [user |-> u, meant |-> p, got |-> opened[first][2],
                         id |-> id, by |-> "viewer"]
    BY <1>1, <1>2, PressOfPerson
  <2>2. p \notin BotIds
    BY <1>2, IdsAssumption
  <2>3. QED
    BY <1>2, <2>1, <2>2 DEF Meets, Owner
<1>3. CASE p \in BotIds
  <2>1. p \notin People
    BY <1>3, IdsAssumption
  <2>2. \A i \in DOMAIN opened : opened[i][1] # p
    BY <2>1, ElementOfSeq DEF TInv, KeysOk, Pairs
  <2>3. /\ p \in runtimes /\ HasButton(ThreadFor(u, p), id)
        /\ query' = [user |-> u, meant |-> p, got |-> p, id |-> id, by |-> "viewer"]
    BY <1>1, <2>2 DEF Press, OldestFirst, HasToken, Ask
  <2>4. QED
    BY <2>1, <2>3, ButtonIsInDialog DEF Meets, Owner
<1>4. QED
  BY <1>2, <1>3 DEF Ids

LEMMA ClientMeets ==
    ASSUME TInv, NEW u \in People, NEW b \in BotIds, PressAsClient(u, b)
    PROVE  Meets(query')
<1> DEFINE own == ThreadOf(dialog, <<u, b>>)
<1>0. PICK last \in DOMAIN own : Press(u, u, b, own[last].id, "client")
  BY DEF PressAsClient
<1>1. PICK first \in DOMAIN opened :
        /\ opened[first] = <<u, opened[first][2]>>
        /\ Has(dialog[opened[first]], own[last].id)
        /\ HasButton(dialog[opened[first]], own[last].id)
        /\ \A i \in 1 .. first - 1 :
                ~(opened[i][1] = u /\ Has(dialog[opened[i]], own[last].id))
        /\ query' = [user |-> u, meant |-> b, got |-> opened[first][2],
                     id |-> own[last].id, by |-> "client"]
  BY <1>0, PressOfPerson
<1>2. opened \in Seq(Pairs) /\ DOMAIN opened = 1 .. Len(opened) /\ Len(opened) \in Nat
  BY LenProperties DEF TInv, KeysOk
<1>3. Position(opened[first]) = first
  BY <1>1, PositionIs DEF TInv
<1>4. <<u, b>> \in DOMAIN dialog /\ Has(dialog[<<u, b>>], own[last].id)
  BY <1>0 DEF ThreadOf, Has
<1>5. PICK k \in DOMAIN opened : opened[k] = <<u, b>>
  BY <1>4 DEF TInv, KeysOk, ToSet
<1>6. Position(<<u, b>>) = k
  BY <1>5, PositionIs DEF TInv
<1>7. ~(k \in 1 .. first - 1)
  BY <1>1, <1>4, <1>5
<1>8. first <= k
  BY <1>2, <1>7
<1>9. opened[first][2] # b => first # k
  BY <1>5
<1>10. opened[first][2] # b =>
            Position(<<u, opened[first][2]>>) < Position(<<u, b>>)
  BY <1>1, <1>2, <1>3, <1>6, <1>8, <1>9
<1>11. b \notin People
  BY IdsAssumption
<1> HIDE DEF own
<1>12. QED
  BY <1>1, <1>10, <1>11 DEF Meets, Owner

LEMMA AdminMeets ==
    ASSUME TInv, NEW u \in People, NEW b \in BotIds, AdminCallback(u, b)
    PROVE  Meets(query')
<1>1. /\ ThreadOf(dialog, <<u, b>>) # <<>>
      /\ query' = [user |-> u, meant |-> b, got |-> b,
                   id |-> Last(dialog[<<u, b>>]).id, by |-> "admin"]
  BY DEF AdminCallback, Ask
<1>2. dialog[<<u, b>>] \in Seq(Kept(stored)) /\ dialog[<<u, b>>] # <<>>
  BY <1>1 DEF ThreadOf, TInv, ThreadsOk
<1>3. Len(dialog[<<u, b>>]) \in DOMAIN dialog[<<u, b>>]
  BY <1>2, LenProperties, EmptySeq
<1>4. Has(dialog[<<u, b>>], Last(dialog[<<u, b>>]).id)
  BY <1>3 DEF Has, Last
<1>5. b \notin People
  BY IdsAssumption
<1>6. QED
  BY <1>1, <1>4, <1>5 DEF Meets, Owner

LEMMA QueriesMeet ==
    TInv /\ Next => (query' # NoQuery => Meets(query'))
BY ViewerMeets, ClientMeets, AdminMeets DEF Next

(* A query names a message that is there, with its button, in the dialog   *)
(* between the bot that gets it and the person who pressed, or whom the    *)
(* presser named; another bot than the one that was meant gets it only by  *)
(* way of UserClient, and only from an older dialog (_press, user_api.py). *)
THEOREM QueriesNameTheirMessage == Spec => PressMeetsItsButton
<1>1. Spec => []TInv
  BY TInvInit, TInvNext, PTL DEF Spec
<1>2. TInv /\ [Next]_vars => [query' # NoQuery => Meets(query')]_vars
  BY QueriesMeet
<1>3. Spec => [][query' # NoQuery => Meets(query')]_vars
  BY <1>1, <1>2, PTL DEF Spec
<1>4. QED
  BY <1>3 DEF PressMeetsItsButton, Meets

=============================================================================
