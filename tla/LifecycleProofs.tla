-------------------------- MODULE LifecycleProofs --------------------------
(***************************************************************************)
(* Lifecycle for any number of updates, runtimes, saves and restarts.      *)
(***************************************************************************)
EXTENDS Lifecycle, WellFoundedInduction, TLAPS

-----------------------------------------------------------------------------
(* The invariant.  Records of a runtime are compared wherever they are:    *)
(* alive, dead, in the store or in a snapshot.                             *)

Records == {runtimes[g] : g \in Generations} \cup {disk, snapshot}

\* Ids are below the number that comes next.
NumberedInv == \A r \in Records : \A u \in r.updates : u.id < r.next

\* Until the numbering goes back no record is ahead of the live one or has
\* acknowledged what is still to come, ...
NextInv == \A r \in Records : r.next <= Live.next /\ r.acked < r.next

\* ... and if one has an update, it has all that another one, which is not
\* behind that update, has below it.
NoGapInv ==
    \A r, s \in Records : \A u \in r.updates, v \in s.updates :
        v.id <= u.id /\ u.id < s.next => v \in r.updates

\* The bot's offset is a number of the live numbering, and of the numbering
\* of the runtime it polls.
OffsetInv ==
    /\ offset <= Live.next
    /\ poll.phase = "calling" => offset <= runtimes[bots[poll.at]].next

\* What is below the offset is seen, and so is what is acknowledged.
SeenInv ==
    \A r \in Records : \A u \in r.updates :
        /\ offset <= r.next /\ u.id < offset => u \in seen
        /\ u.id <= r.acked => u \in seen

\* A poll is at a network or a runtime, and a network has a runtime.
PlacesInv ==
    /\ \A n \in Generations : bots[n] <= generation
    /\ poll.phase # "none" => poll.at \in Generations

HistoryInv == ~rewound => NextInv /\ NoGapInv /\ OffsetInv /\ SeenInv

IInv == TypeOK /\ PlacesInv /\ NumberedInv /\ DiskIsCurrent /\ HistoryInv

-----------------------------------------------------------------------------
(* The data. *)

LEMMA DumpAndLoad ==
    ASSUME NEW r \in Runtime
    PROVE  Dump(r) = r /\ Load(r) = r
BY DEF Dump, Load, Runtime

LEMMA NetworkType ==
    ASSUME TypeOK
    PROVE  network \in Generations
BY LifecycleBounds DEF TypeOK, Generations

LEMMA FreshType == Fresh \in Runtime
BY DEF Fresh, Runtime

LEMMA RecordTypes ==
    ASSUME TypeOK
    PROVE  /\ Live \in Runtime /\ Live \in Records
           /\ disk \in Runtime /\ disk \in Records
           /\ snapshot \in Runtime /\ snapshot \in Records
           /\ \A g \in Generations : runtimes[g] \in Runtime /\ runtimes[g] \in Records
           /\ \A r \in Records : r \in Runtime
BY DEF TypeOK, Live, Records

Last(updates) ==
    CHOOSE i \in {u.id : u \in updates} : \A u \in updates : u.id <= i

LEMMA LastIsThere ==
    ASSUME NEW updates \in SUBSET Update, updates # {},
           NEW bound \in Nat, \A u \in updates : u.id < bound
    PROVE  \E w \in updates : Last(updates) = w.id
<1> DEFINE room == {bound - u.id : u \in updates}
           Less == OpToRel(<, Nat)
<1>1. \A u \in updates : u.id \in Nat /\ bound - u.id \in Nat
  BY DEF Update
<1>2. room \subseteq Nat /\ room # {}
  BY <1>1
<1>3. IsWellFoundedOn(Less, Nat)
  BY NatLessThanWellFounded
<1>4. \A i, j \in Nat : i < j => <<i, j>> \in Less
  BY DEF OpToRel
<1> HIDE DEF Less
<1>5. PICK t \in room : \A i \in room : ~(<<i, t>> \in Less)
  BY <1>2, <1>3, WFMin
<1>6. PICK w \in updates : t = bound - w.id
  OBVIOUS
<1>7. ASSUME NEW u \in updates
      PROVE  u.id <= w.id
  <2>1. bound - u.id \in room
    OBVIOUS
  <2>2. ~(bound - u.id < t)
    BY <1>1, <1>2, <1>4, <1>5, <2>1
  <2>3. QED
    BY <1>1, <1>6, <2>2
<1>8. Last(updates) \in {u.id : u \in updates}
  BY <1>7 DEF Last
<1>9. QED
  BY <1>8

(* What an answer does to the bot: its new offset is above an update that  *)
(* it got.                                                                 *)
LEMMA AnswerMeans ==
    ASSUME TypeOK, NumberedInv, NEW g \in Generations, Pending(g) # {}, Answer(Pending(g))
    PROVE  /\ poll' = NoPoll /\ botRestarts' = botRestarts
           /\ seen' = seen \cup Pending(g) /\ seen' \subseteq Update
           /\ offset' \in Nat
           /\ \E w \in runtimes[g].updates : w.id >= offset /\ offset' = w.id + 1
<1>1. runtimes[g] \in Runtime /\ runtimes[g] \in Records
  BY RecordTypes
<1>2. Pending(g) \in SUBSET Update /\ Pending(g) \subseteq runtimes[g].updates
  BY <1>1 DEF Pending, Runtime
<1>3. runtimes[g].next \in Nat /\ \A u \in Pending(g) : u.id < runtimes[g].next
  BY <1>1, <1>2 DEF NumberedInv, Runtime
<1>4. PICK w \in Pending(g) : Last(Pending(g)) = w.id
  BY <1>2, <1>3, LastIsThere
<1>5. w.id \in Nat /\ w.id >= offset /\ w \in runtimes[g].updates
  BY <1>2, <1>4 DEF Pending, Update
<1>6. offset' = 1 + w.id
  BY <1>4 DEF Answer, Last
<1>7. offset' \in Nat /\ offset' = w.id + 1
  BY <1>5, <1>6
<1>8. poll' = NoPoll /\ botRestarts' = botRestarts /\ seen' = seen \cup Pending(g)
  BY DEF Answer
<1>9. seen' \subseteq Update
  BY <1>2, <1>8 DEF TypeOK
<1>10. QED
  BY <1>5, <1>7, <1>8, <1>9

-----------------------------------------------------------------------------
(* The records after a step that pushes nothing: empty ones, and those     *)
(* there were, one of them perhaps with a newer ack.                       *)

SameContents(r, s) == r.next = s.next /\ r.updates = s.updates

Copied(r) ==
    \/ r.updates = {} /\ r.next <= Live.next /\ r.acked < r.next
    \/ \E s \in Records :
            /\ SameContents(r, s)
            /\ r.acked = s.acked \/ (r.acked = offset - 1 /\ offset <= s.next)

LEMMA NumbersKept ==
    ASSUME NumberedInv,
           \A r \in Records' : r.updates = {} \/ \E s \in Records : SameContents(r, s)
    PROVE  NumberedInv'
BY DEF NumberedInv, SameContents

LEMMA CopiesKept ==
    ASSUME TypeOK, NextInv, NoGapInv, \A r \in Records' : Copied(r),
           Live.next = Live'.next
    PROVE  NextInv' /\ NoGapInv'
<1>1. NextInv'
  <2> SUFFICES ASSUME NEW r \in Records'
               PROVE  r.next <= Live.next /\ r.acked < r.next
    BY DEF NextInv
  <2>1. \A s \in Records : s.next \in Nat
    BY RecordTypes DEF Runtime
  <2>2. offset \in Nat
    BY DEF TypeOK
  <2>3. QED
    BY <2>1, <2>2 DEF NextInv, Copied, SameContents
<1>2. ASSUME NEW r \in Records', NEW s \in Records',
             NEW u \in r.updates, NEW v \in s.updates, v.id <= u.id, u.id < s.next
      PROVE  v \in r.updates
  <2>1. PICK q \in Records : SameContents(r, q)
    BY <1>2 DEF Copied
  <2>2. PICK t \in Records : SameContents(s, t)
    BY <1>2 DEF Copied
  <2>3. QED
    BY <1>2, <2>1, <2>2 DEF NoGapInv, SameContents
<1>3. NoGapInv'
  BY <1>2 DEF NoGapInv
<1>4. QED
  BY <1>1, <1>3

LEMMA SeenKept ==
    ASSUME TypeOK, SeenInv, \A r \in Records' : Copied(r), seen \subseteq seen',
           offset' \in {offset, 0}
    PROVE  SeenInv'
<1> SUFFICES ASSUME NEW r \in Records', NEW u \in r.updates
             PROVE  /\ offset' <= r.next /\ u.id < offset' => u \in seen'
                    /\ u.id <= r.acked => u \in seen'
  BY DEF SeenInv
<1>1. PICK s \in Records :
        /\ SameContents(r, s)
        /\ r.acked = s.acked \/ (r.acked = offset - 1 /\ offset <= s.next)
  BY DEF Copied
<1>2. u \in s.updates /\ u.id \in Nat \ {0} /\ offset \in Nat
  BY <1>1, RecordTypes DEF SameContents, Runtime, Update, TypeOK
<1>3. /\ offset <= s.next /\ u.id < offset => u \in seen
      /\ u.id <= s.acked => u \in seen
  BY <1>2 DEF SeenInv
<1>4. QED
  BY <1>1, <1>2, <1>3 DEF SameContents

LEMMA SeenAfterAnswer ==
    ASSUME TypeOK, NumberedInv, SeenInv, NoGapInv, \A r \in Records' : Copied(r),
           NEW g \in Generations, seen' = seen \cup Pending(g),
           NEW w \in runtimes[g].updates, w.id >= offset, offset' = w.id + 1
    PROVE  SeenInv'
<1> SUFFICES ASSUME NEW r \in Records', NEW u \in r.updates
             PROVE  /\ offset' <= r.next /\ u.id < offset' => u \in seen'
                    /\ u.id <= r.acked => u \in seen'
  BY DEF SeenInv
<1>1. PICK s \in Records :
        /\ SameContents(r, s)
        /\ r.acked = s.acked \/ (r.acked = offset - 1 /\ offset <= s.next)
  BY DEF Copied
<1>2. /\ u \in s.updates /\ u.id \in Nat \ {0} /\ offset \in Nat
      /\ s.next \in Nat
  BY <1>1, RecordTypes DEF SameContents, Runtime, Update, TypeOK
<1>3. w.id \in Nat /\ runtimes[g] \in Records
  BY RecordTypes DEF Runtime, Update
<1>4. /\ offset <= s.next /\ u.id < offset => u \in seen
      /\ u.id <= s.acked => u \in seen
  BY <1>2 DEF SeenInv
<1>5. ASSUME offset' <= s.next, u.id < offset'
      PROVE  u \in seen'
  <2>1. u.id <= w.id /\ w.id < s.next
    BY <1>2, <1>3, <1>5
  <2>2. u \in runtimes[g].updates
    BY <1>2, <1>3, <2>1 DEF NoGapInv
  <2>3. CASE u.id >= offset
    BY <2>2, <2>3 DEF Pending
  <2>4. CASE u.id < offset
    BY <1>2, <1>3, <1>4, <1>5, <2>4
  <2>5. QED
    BY <1>2, <2>3, <2>4
<1>6. u.id <= r.acked => u \in seen'
  BY <1>1, <1>2, <1>4
<1>7. QED
  BY <1>1, <1>5, <1>6 DEF SameContents

-----------------------------------------------------------------------------
(* A push into the live runtime. *)

LEMMA PushMeans ==
    ASSUME TypeOK, NEW g \in Generations, Push(g)
    PROVE  LET u == [id |-> runtimes[g].next, body |-> pushed + 1]
               r == [next |-> runtimes[g].next + 1,
                     updates |-> runtimes[g].updates \cup {u}, acked |-> runtimes[g].acked]
           IN  /\ u \in Update /\ r \in Runtime
               /\ runtimes' = [runtimes EXCEPT ![g] = r]
               /\ pushed' \in 0 .. MaxUpdates
               /\ UNCHANGED <<bots, generation, network>>
<1> DEFINE u == [id |-> runtimes[g].next, body |-> pushed + 1]
           r == [next |-> runtimes[g].next + 1,
                 updates |-> runtimes[g].updates \cup {u}, acked |-> runtimes[g].acked]
<1>1. runtimes[g] \in Runtime
  BY DEF TypeOK
<1>2. runtimes[g].next \in Nat \ {0} /\ runtimes[g].acked \in Nat
      /\ runtimes[g].updates \subseteq Update
  BY <1>1 DEF Runtime
<1>3. pushed \in Nat /\ pushed < MaxUpdates /\ pushed' = pushed + 1
  BY LifecycleBounds DEF Push, TypeOK
<1>4. u \in Update /\ r \in Runtime
  BY <1>2, <1>3 DEF Update, Runtime
<1>5. pushed' \in 0 .. MaxUpdates
  BY <1>3, LifecycleBounds
<1>6. runtimes' = [runtimes EXCEPT ![g] = r]
  BY DEF Push, TypeOK
<1>7. QED
  BY <1>4, <1>5, <1>6 DEF Push

LEMMA PushKeepsNumbers ==
    ASSUME TypeOK, NumberedInv, NEW g \in Generations, Push(g), UNCHANGED <<disk, snapshot>>
    PROVE  NumberedInv'
<1> DEFINE u == [id |-> runtimes[g].next, body |-> pushed + 1]
           r == [next |-> runtimes[g].next + 1,
                 updates |-> runtimes[g].updates \cup {u}, acked |-> runtimes[g].acked]
<1>1. runtimes' = [runtimes EXCEPT ![g] = r]
  BY PushMeans
<1>2. \A s \in Records' : s = r \/ s \in Records
  BY <1>1 DEF Records, TypeOK
<1>3. runtimes[g] \in Records /\ runtimes[g] \in Runtime
  BY RecordTypes
<1>4. \A v \in runtimes[g].updates : v.id < runtimes[g].next /\ v.id \in Nat
  BY <1>3 DEF NumberedInv, Runtime, Update
<1>5. runtimes[g].next \in Nat
  BY <1>3 DEF Runtime
<1>6. \A v \in r.updates : v.id < r.next
  BY <1>4, <1>5
<1>7. QED
  BY <1>2, <1>6 DEF NumberedInv

(* A push into the live runtime takes a number above all there are. *)
LEMMA LivePushKeeps ==
    ASSUME TypeOK, NumberedInv, NextInv, NoGapInv, SeenInv,
           offset <= Live.next, UNCHANGED <<offset, seen, disk, snapshot>>,
           Push(generation)
    PROVE  NextInv' /\ NoGapInv' /\ SeenInv' /\ Live'.next = Live.next + 1
<1> DEFINE u == [id |-> Live.next, body |-> pushed + 1]
           r == [next |-> Live.next + 1, updates |-> Live.updates \cup {u},
                 acked |-> Live.acked]
<1>1. generation \in Generations
  BY DEF TypeOK
<1>2. runtimes' = [runtimes EXCEPT ![generation] = r] /\ generation' = generation
  BY <1>1, PushMeans DEF Live
<1>3. Live' = r
  BY <1>1, <1>2 DEF Live, TypeOK
<1>4. \A s \in Records' : s = r \/ s \in Records
  BY <1>1, <1>2 DEF Records, TypeOK
<1>5. /\ Live \in Records /\ Live.next \in Nat
      /\ Live.acked < Live.next /\ Live.acked \in Nat
  BY RecordTypes DEF Runtime, NextInv
<1>6. \A s \in Records : s.next \in Nat /\ s.next <= Live.next
  BY RecordTypes DEF Runtime, NextInv
<1>7. \A s \in Records : \A v \in s.updates : v.id < s.next /\ v.id \in Nat
  BY RecordTypes DEF NumberedInv, Runtime, Update
<1>8. NextInv'
  <2> SUFFICES ASSUME NEW s \in Records'
               PROVE  s.next <= Live'.next /\ s.acked < s.next
    BY DEF NextInv
  <2>1. CASE s = r
    BY <1>3, <1>5, <2>1
  <2>2. CASE s \in Records
    BY <1>3, <1>5, <1>6, <2>2 DEF NextInv
  <2>3. QED
    BY <1>4, <2>1, <2>2
<1>9. NoGapInv'
  <2> SUFFICES ASSUME NEW s \in Records', NEW t \in Records',
                      NEW w \in s.updates, NEW v \in t.updates,
                      v.id <= w.id, w.id < t.next
               PROVE  v \in s.updates
    BY DEF NoGapInv
  <2>1. CASE s \in Records /\ t \in Records
    BY <2>1 DEF NoGapInv
  <2>2. CASE s \in Records /\ t = r
    <3>1. w.id < Live.next /\ w.id \in Nat
      BY <1>5, <1>6, <1>7, <2>2
    <3>2. v # u
      BY <1>5, <3>1
    <3>3. v \in Live.updates
      BY <2>2, <3>2
    <3>4. QED
      BY <1>5, <2>2, <3>1, <3>3 DEF NoGapInv
  <2>3. CASE s = r /\ t \in Records
    <3>1. w.id < Live.next
      BY <1>5, <1>6, <1>7, <2>3 DEF Update
    <3>2. w # u
      BY <1>5, <3>1
    <3>3. w \in Live.updates
      BY <2>3, <3>2
    <3>4. QED
      BY <1>5, <2>3, <3>3 DEF NoGapInv
  <2>4. CASE s = r /\ t = r
    BY <2>4
  <2>5. QED
    BY <1>4, <2>1, <2>2, <2>3, <2>4
<1>10. SeenInv'
  <2> SUFFICES ASSUME NEW s \in Records', NEW v \in s.updates
               PROVE  /\ offset <= s.next /\ v.id < offset => v \in seen
                      /\ v.id <= s.acked => v \in seen
    BY DEF SeenInv
  <2>1. CASE s \in Records
    BY <2>1 DEF SeenInv
  <2>2. CASE s = r /\ v = u
    BY <1>5, <2>2 DEF TypeOK
  <2>3. CASE s = r /\ v \in Live.updates
    BY <1>5, <2>3 DEF SeenInv
  <2>4. QED
    BY <1>4, <2>1, <2>2, <2>3
<1>11. QED
  BY <1>3, <1>8, <1>9, <1>10

-----------------------------------------------------------------------------
(* The invariant, action by action. *)

LEMMA InitIInv == Init => IInv
<1> SUFFICES ASSUME Init
             PROVE  IInv
  OBVIOUS
<1>1. 1 \in Generations
  BY LifecycleBounds DEF Generations
<1>2. TypeOK
  <2>1. runtimes \in [Generations -> Runtime] /\ disk \in Runtime /\ snapshot \in Runtime
    BY FreshType DEF Init
  <2>2. bots \in [Generations -> Generations] /\ generation = 1 /\ network = 1
        /\ bots[network] = generation
    BY <1>1 DEF Init
  <2>3. poll \in Poll /\ call = 0
    BY DEF Init, NoPoll, NoCall, Poll
  <2>4. /\ offset \in Nat
        /\ saves \in 0 .. MaxSaves /\ pushed \in 0 .. MaxUpdates
        /\ botRestarts \in 0 .. MaxBotRestarts
    BY LifecycleBounds DEF Init
  <2>5. seen \subseteq Update /\ unsaved \in BOOLEAN /\ rewound \in BOOLEAN
    BY Zenon DEF Init
  <2>6. generation \in Generations /\ network \in 1 .. generation /\ call \in 0 .. network
    BY <1>1, <2>2, <2>3
  <2>7. QED
    BY <2>1, <2>2, <2>3, <2>4, <2>5, <2>6 DEF TypeOK
<1>3. \A r \in Records : r = Fresh
  BY DEF Init, Records
<1>4. Live = Fresh
  BY <1>1 DEF Init, Live
<1>5. NumberedInv /\ NextInv /\ NoGapInv /\ SeenInv
  BY <1>3, <1>4 DEF NumberedInv, NextInv, NoGapInv, SeenInv, Fresh
<1>6. PlacesInv /\ OffsetInv
  BY <1>1, <1>4 DEF Init, PlacesInv, OffsetInv, NoPoll, Fresh, Generations
<1>7. DiskIsCurrent
  BY <1>4 DEF Init, DiskIsCurrent
<1>8. QED
  BY <1>2, <1>5, <1>6, <1>7 DEF IInv, HistoryInv

\* Steps that leave the records as they are, or copy them.
LEMMA HistoryKept ==
    ASSUME IInv, rewound' \in BOOLEAN, ~rewound' => ~rewound,
           ~rewound' => /\ \A r \in Records' : Copied(r)
                        /\ Live'.next = Live.next
                        /\ seen \subseteq seen' /\ offset' \in {offset, 0}
                        /\ poll'.phase = "calling" => offset' <= runtimes'[bots'[poll'.at]].next
    PROVE  HistoryInv'
<1> SUFFICES ASSUME ~rewound'
             PROVE  NextInv' /\ NoGapInv' /\ OffsetInv' /\ SeenInv'
  BY DEF HistoryInv
<1>1. TypeOK /\ NextInv /\ NoGapInv /\ OffsetInv /\ SeenInv
  BY DEF IInv, HistoryInv
<1>2. NextInv' /\ NoGapInv'
  BY <1>1, CopiesKept
<1>3. SeenInv'
  BY <1>1, SeenKept
<1>4. offset' <= Live'.next
  BY <1>1, RecordTypes DEF OffsetInv, TypeOK, Runtime
<1>5. QED
  BY <1>2, <1>3, <1>4 DEF OffsetInv

LEMMA SameRecords ==
    ASSUME UNCHANGED <<runtimes, disk, snapshot>>
    PROVE  Records' = Records
BY DEF Records

LEMMA RecordsAreCopies ==
    ASSUME NEW r \in Records
    PROVE  Copied(r) /\ SameContents(r, r)
BY DEF Copied, SameContents

(* BotPost, PollCall, PollExpires and BotRestart: no record changes. *)
LEMMA WaitingStep ==
    ASSUME IInv, BotPost \/ PollCall \/ PollExpires \/ BotRestart
    PROVE  IInv'
<1>1. /\ UNCHANGED <<netVars, storeVars, pushed, rewound, seen>>
      /\ offset' \in {offset, 0}
  BY DEF BotPost, PollCall, PollExpires, BotRestart, botVars
<1>2. Records' = Records /\ Live' = Live
  BY <1>1, SameRecords DEF netVars, storeVars, Live
<1>3. TypeOK'
  <2>1. call' \in 0 .. network'
    BY <1>1 DEF BotPost, PollCall, PollExpires, BotRestart, IInv, TypeOK, netVars, Generations
  <2>2. poll' \in Poll
    <3>1. network \in Generations
      BY NetworkType DEF IInv
    <3>2. poll' \in {poll, NoPoll, [phase |-> "calling", at |-> network]}
      BY DEF BotPost, PollCall, PollExpires, BotRestart, botVars
    <3>3. QED
      BY <3>1, <3>2 DEF IInv, TypeOK, Poll, NoPoll
  <2>3. botRestarts' \in 0 .. MaxBotRestarts
    BY LifecycleBounds DEF BotPost, PollCall, PollExpires, BotRestart, IInv, TypeOK, botVars
  <2>4. QED
    BY <1>1, <2>1, <2>2, <2>3 DEF IInv, TypeOK, netVars, storeVars
<1>4. /\ poll'.phase # "none" => poll'.at \in Generations
      /\ poll'.phase = "calling" =>
            \/ poll' = poll /\ offset' = offset
            \/ poll'.at = network /\ offset' = offset
  <2>1. CASE BotPost
    BY <2>1 DEF BotPost, botVars, IInv, PlacesInv
  <2>2. CASE PollCall
    BY <2>2, NetworkType DEF PollCall, IInv
  <2>3. CASE PollExpires \/ BotRestart
    BY <2>3 DEF PollExpires, BotRestart, NoPoll
  <2>4. QED
    BY <2>1, <2>2, <2>3
<1>5. PlacesInv' /\ NumberedInv' /\ DiskIsCurrent'
  BY <1>1, <1>2, <1>4 DEF IInv, PlacesInv, NumberedInv, DiskIsCurrent, netVars, storeVars
<1>6. HistoryInv'
  <2>1. \A r \in Records' : Copied(r)
    BY <1>2, RecordsAreCopies
  <2>2. ~rewound /\ poll'.phase = "calling" => offset' <= runtimes'[bots'[poll'.at]].next
    BY <1>1, <1>4 DEF IInv, TypeOK, HistoryInv, OffsetInv, netVars, Live
  <2>3. rewound' \in BOOLEAN /\ rewound' = rewound
    BY <1>1 DEF IInv, TypeOK
  <2>4. QED
    BY <1>1, <1>2, <2>1, <2>2, <2>3, HistoryKept
<1>7. QED
  BY <1>3, <1>5, <1>6 DEF IInv

(* Save and Snapshot: a record is a copy of the live one. *)
LEMMA CopyingStep ==
    ASSUME IInv, Save \/ Snapshot
    PROVE  IInv'
<1>1. UNCHANGED <<netVars, call, botVars, pushed, rewound>> /\ Live' = Live
  BY DEF Save, Snapshot, netVars, Live
<1>2. Dump(Live) = Live /\ Live \in Runtime /\ Live \in Records
  BY RecordTypes, DumpAndLoad DEF IInv
<1>3. /\ \/ disk' = Live
         \/ disk' = disk /\ saves' = saves /\ unsaved' = unsaved
      /\ snapshot' \in {Live, snapshot}
      /\ saves' \in 0 .. MaxSaves /\ unsaved' \in BOOLEAN
  <2>1. saves \in 0 .. MaxSaves /\ unsaved \in BOOLEAN /\ MaxSaves \in Nat
    BY LifecycleBounds DEF IInv, TypeOK
  <2>2. CASE Save
    <3>1. saves' \in 0 .. MaxSaves
      BY <2>1, <2>2 DEF Save
    <3>2. disk' = Live /\ snapshot' = snapshot /\ unsaved' \in BOOLEAN
      BY <1>2, <2>2, Zenon DEF Save
    <3>3. QED
      BY <3>1, <3>2
  <2>3. CASE Snapshot
    BY <1>2, <2>1, <2>3 DEF Snapshot
  <2>4. QED
    BY <2>2, <2>3
<1>4. Records' \subseteq Records
  BY <1>1, <1>2, <1>3 DEF Records, netVars
<1>5. TypeOK'
  BY <1>1, <1>2, <1>3 DEF IInv, TypeOK, netVars, botVars
<1>6. DiskIsCurrent'
  BY <1>1, <1>3 DEF IInv, DiskIsCurrent
<1>7. PlacesInv' /\ NumberedInv'
  BY <1>1, <1>4 DEF IInv, PlacesInv, NumberedInv, netVars, botVars
<1>8. HistoryInv'
  <2>1. \A r \in Records' : Copied(r)
    BY <1>4, RecordsAreCopies
  <2>2. ~rewound /\ poll'.phase = "calling" => offset' <= runtimes'[bots'[poll'.at]].next
    BY <1>1 DEF IInv, HistoryInv, OffsetInv, netVars, botVars
  <2>3. rewound' \in BOOLEAN /\ rewound' = rewound /\ offset' = offset /\ seen' = seen
    BY <1>1 DEF IInv, TypeOK, botVars
  <2>4. QED
    BY <1>1, <2>1, <2>2, <2>3, HistoryKept
<1>9. QED
  BY <1>5, <1>6, <1>7, <1>8 DEF IInv

LEMMA ToBeSavedMeans ==
    ASSUME TypeOK, ToBeSaved
    PROVE  saves' \in 0 .. MaxSaves /\ saves' # 0
BY LifecycleBounds DEF TypeOK, ToBeSaved

(* What any push keeps, whether its runtime is alive or dead. *)
LEMMA PushBasics ==
    ASSUME IInv, NEW g \in Generations, Push(g),
           UNCHANGED <<botVars, disk, snapshot>>, call' \in 0 .. network,
           saves' \in 0 .. MaxSaves, unsaved' \in BOOLEAN, rewound' \in BOOLEAN,
           saves' = 0 => unsaved'
    PROVE  TypeOK' /\ PlacesInv' /\ NumberedInv' /\ DiskIsCurrent'
<1> DEFINE u == [id |-> runtimes[g].next, body |-> pushed + 1]
           r == [next |-> runtimes[g].next + 1,
                 updates |-> runtimes[g].updates \cup {u}, acked |-> runtimes[g].acked]
<1>1. /\ r \in Runtime /\ runtimes' = [runtimes EXCEPT ![g] = r]
      /\ pushed' \in 0 .. MaxUpdates
      /\ UNCHANGED <<bots, generation, network>>
  BY PushMeans DEF IInv
<1> HIDE DEF u, r
<1>2. runtimes' \in [Generations -> Runtime]
  BY <1>1 DEF IInv, TypeOK
<1>3. TypeOK'
  BY <1>1, <1>2 DEF IInv, TypeOK, botVars
<1>4. NumberedInv'
  BY PushKeepsNumbers DEF IInv
<1>5. PlacesInv' /\ DiskIsCurrent'
  BY <1>1 DEF IInv, PlacesInv, DiskIsCurrent, botVars
<1>6. QED
  BY <1>3, <1>4, <1>5

(* UserPost, PushUnsaved, and BotPostServed in the live network. *)
LEMMA LivePushStep ==
    ASSUME IInv, Push(generation), UNCHANGED <<botVars, disk, snapshot, rewound>>,
           call' \in 0 .. network, saves' \in 0 .. MaxSaves, unsaved' \in BOOLEAN,
           saves' = 0 => unsaved'
    PROVE  IInv'
<1>1. generation \in Generations /\ rewound' \in BOOLEAN
  BY DEF IInv, TypeOK
<1>2. TypeOK' /\ PlacesInv' /\ NumberedInv' /\ DiskIsCurrent'
  BY <1>1, PushBasics
<1>3. ASSUME ~rewound
      PROVE  NextInv' /\ NoGapInv' /\ OffsetInv' /\ SeenInv'
  <2>1. NextInv /\ NoGapInv /\ OffsetInv /\ SeenInv /\ TypeOK /\ NumberedInv
    BY <1>3 DEF IInv, HistoryInv
  <2>2. NextInv' /\ NoGapInv' /\ SeenInv' /\ Live'.next = Live.next + 1
    BY <2>1, LivePushKeeps DEF botVars, OffsetInv
  <2>3. \A g \in Generations : runtimes'[g].next >= runtimes[g].next
    <3>1. /\ runtimes' = [runtimes EXCEPT ![generation] =
                [next |-> runtimes[generation].next + 1,
                 updates |-> runtimes[generation].updates
                    \cup {[id |-> runtimes[generation].next, body |-> pushed + 1]},
                 acked |-> runtimes[generation].acked]]
      BY <1>1, <2>1, PushMeans
    <3>2. \A g \in Generations : runtimes[g].next \in Nat
      BY <2>1, RecordTypes DEF Runtime
    <3>3. QED
      BY <1>1, <2>1, <3>1, <3>2 DEF TypeOK
  <2>4. /\ offset' = offset /\ poll' = poll /\ bots' = bots /\ offset \in Nat
        /\ Live.next \in Nat
    BY <2>1, RecordTypes DEF botVars, Push, TypeOK, Runtime
  <2>5. ASSUME poll.phase = "calling"
        PROVE  offset <= runtimes'[bots[poll.at]].next
    <3>1. bots[poll.at] \in Generations
      BY <2>5, <2>1 DEF IInv, PlacesInv, TypeOK
    <3>2. runtimes[bots[poll.at]].next \in Nat /\ runtimes'[bots[poll.at]].next \in Nat
      BY <1>2, <2>1, <3>1 DEF TypeOK, Runtime
    <3>3. QED
      BY <2>1, <2>3, <2>4, <2>5, <3>1, <3>2 DEF OffsetInv
  <2>6. OffsetInv'
    BY <2>1, <2>2, <2>4, <2>5 DEF OffsetInv
  <2>7. QED
    BY <2>2, <2>6
<1>4. HistoryInv'
  BY <1>3 DEF HistoryInv
<1>5. QED
  BY <1>2, <1>4 DEF IInv

LEMMA UserPostStep == IInv /\ UserPost => IInv'
<1> SUFFICES ASSUME IInv, UserPost
             PROVE  IInv'
  OBVIOUS
<1>1. saves' \in 0 .. MaxSaves /\ saves' # 0
  BY ToBeSavedMeans DEF UserPost, IInv
<1>2. unsaved' \in BOOLEAN /\ call' \in 0 .. network
  BY DEF UserPost, IInv, TypeOK
<1>3. QED
  BY <1>1, <1>2, LivePushStep DEF UserPost

LEMMA PushUnsavedStep == IInv /\ PushUnsaved => IInv'
<1> SUFFICES ASSUME IInv, PushUnsaved
             PROVE  IInv'
  OBVIOUS
<1>1. unsaved' = TRUE
  BY DEF PushUnsaved
<1>2. call' \in 0 .. network /\ saves' \in 0 .. MaxSaves
  BY DEF PushUnsaved, IInv, TypeOK
<1>3. QED
  BY <1>1, <1>2, LivePushStep DEF PushUnsaved

LEMMA BotPostServedStep == IInv /\ BotPostServed => IInv'
<1> SUFFICES ASSUME IInv, BotPostServed
             PROVE  IInv'
  OBVIOUS
<1>1. saves' \in 0 .. MaxSaves /\ saves' # 0
  BY ToBeSavedMeans DEF BotPostServed, IInv
<1>2. unsaved' \in BOOLEAN /\ call' = 0 /\ call' \in 0 .. network
  BY NetworkType DEF BotPostServed, IInv, TypeOK, NoCall, Generations
<1>3. CASE call = network
  <2>1. bots[call] = generation
    BY <1>3 DEF IInv, TypeOK
  <2>2. rewound' = rewound
    BY <1>3 DEF BotPostServed, IInv, TypeOK
  <2>3. QED
    BY <1>1, <1>2, <2>1, <2>2, LivePushStep DEF BotPostServed
<1>4. CASE call # network
  <2>1. rewound' = TRUE
    BY <1>4 DEF BotPostServed
  <2>2. bots[call] \in Generations
    <3>1. call \in Generations
      <4>1. call \in 0 .. network /\ call # 0 /\ network \in Generations
        BY NetworkType DEF BotPostServed, NoCall, IInv, TypeOK
      <4>2. QED
        BY <4>1, LifecycleBounds DEF Generations
    <3>2. QED
      BY <3>1 DEF IInv, TypeOK
  <2>3. TypeOK' /\ PlacesInv' /\ NumberedInv' /\ DiskIsCurrent'
    BY <1>1, <1>2, <2>1, <2>2, PushBasics DEF BotPostServed
  <2>4. QED
    BY <2>1, <2>3 DEF IInv, HistoryInv
<1>5. QED
  BY <1>3, <1>4

(* Reset, Restore, CreateBot and Restart. *)
LEMMA InstallMeans ==
    ASSUME TypeOK, PlacesInv, NEW r \in Runtime, NEW n \in {network, generation + 1},
           Install(r, n)
    PROVE  /\ runtimes' \in [Generations -> Runtime] /\ bots' \in [Generations -> Generations]
           /\ generation' = generation + 1 /\ generation' \in Generations
           /\ network' \in 1 .. generation' /\ network' >= network
           /\ bots'[network'] = generation' /\ Live' = r
           /\ runtimes' = [runtimes EXCEPT ![generation'] = r]
           /\ \A m \in Generations : bots'[m] <= generation'
           /\ \A m \in Generations :
                    \/ runtimes'[bots'[m]] = runtimes[bots[m]]
                    \/ runtimes'[bots'[m]] = r
<1>1. /\ generation \in Generations /\ generation < MaxGenerations /\ MaxGenerations \in Nat
      /\ network \in 1 .. generation /\ network' = n /\ generation' = generation + 1
  BY LifecycleBounds DEF Install, TypeOK
<1>2. generation' \in Generations /\ network' \in 1 .. generation' /\ network' >= network
      /\ n \in Generations
  BY <1>1 DEF Generations
<1>3. /\ runtimes' = [runtimes EXCEPT ![generation'] = r]
      /\ bots' = [bots EXCEPT ![n] = generation']
  BY <1>1 DEF Install
<1>4. runtimes' \in [Generations -> Runtime] /\ bots' \in [Generations -> Generations]
  BY <1>2, <1>3 DEF TypeOK
<1>5. bots'[n] = generation' /\ \A m \in Generations \ {n} : bots'[m] = bots[m]
  BY <1>2, <1>3 DEF TypeOK
<1>6. Live' = r
  BY <1>2, <1>3 DEF Live, TypeOK
<1>7. \A m \in Generations : bots[m] \in Generations /\ bots[m] <= generation
  BY DEF TypeOK, PlacesInv
<1>8. \A m \in Generations : bots[m] # generation' /\ bots[m] <= generation'
  BY <1>1, <1>7 DEF Generations
<1>9. \A m \in Generations : bots'[m] <= generation'
  BY <1>1, <1>5, <1>8 DEF Generations
<1>10. \A m \in Generations :
            \/ runtimes'[bots'[m]] = runtimes[bots[m]]
            \/ runtimes'[bots'[m]] = r
  BY <1>2, <1>3, <1>5, <1>7, <1>8 DEF TypeOK
<1>11. QED
  BY <1>1, <1>2, <1>3, <1>4, <1>5, <1>6, <1>9, <1>10

\* r is what the new runtime starts from, if the numbering does not go back.
LEMMA InstallKeeps ==
    ASSUME IInv, NEW r \in Runtime, NEW n \in {network, generation + 1}, Install(r, n),
           r.updates = {} \/ r \in Records,
           ~rewound' => ~rewound /\ r.next = Live.next /\ Copied(r),
           rewound' \in BOOLEAN, UNCHANGED <<offset, seen, botRestarts, disk, snapshot, pushed>>,
           poll' \in {poll, NoPoll}, call' \in {call, NoCall},
           saves' \in 0 .. MaxSaves, unsaved' \in BOOLEAN,
           saves' # 0 \/ r = disk
    PROVE  IInv'
<1>1. /\ runtimes' \in [Generations -> Runtime] /\ bots' \in [Generations -> Generations]
      /\ generation' = generation + 1 /\ generation' \in Generations
      /\ network' \in 1 .. generation' /\ network' >= network
      /\ bots'[network'] = generation' /\ Live' = r
      /\ runtimes' = [runtimes EXCEPT ![generation'] = r]
      /\ \A m \in Generations : bots'[m] <= generation'
      /\ \A m \in Generations :
                \/ runtimes'[bots'[m]] = runtimes[bots[m]]
                \/ runtimes'[bots'[m]] = r
  BY InstallMeans DEF IInv
<1>2. \A s \in Records' : s = r \/ s \in Records
  BY <1>1 DEF Records, IInv, TypeOK
<1>3. TypeOK'
  <2>1. call' \in 0 .. network'
    BY <1>1, NetworkType DEF IInv, TypeOK, NoCall, Generations
  <2>2. poll' \in Poll
    BY DEF IInv, TypeOK, NoPoll, Poll
  <2>3. QED
    BY <1>1, <2>1, <2>2 DEF IInv, TypeOK
<1>4. PlacesInv'
  BY <1>1 DEF IInv, PlacesInv, NoPoll
<1>5. NumberedInv'
  <2>1. \A s \in Records' : s.updates = {} \/ \E t \in Records : SameContents(s, t)
    BY <1>2 DEF SameContents
  <2>2. QED
    BY <2>1, NumbersKept DEF IInv
<1>6. DiskIsCurrent'
  BY <1>1 DEF DiskIsCurrent
<1>7. HistoryInv'
  <2>1. ASSUME ~rewound'
        PROVE  /\ \A s \in Records' : Copied(s)
               /\ Live'.next = Live.next
               /\ poll'.phase = "calling" => offset' <= runtimes'[bots'[poll'.at]].next
    <3>1. \A s \in Records' : Copied(s)
      BY <1>2, <2>1, RecordsAreCopies
    <3>2. OffsetInv
      BY <2>1 DEF IInv, HistoryInv
    <3>3. ASSUME poll'.phase = "calling"
          PROVE  offset' <= runtimes'[bots'[poll'.at]].next
      <4>1. poll' = poll /\ poll.at \in Generations
        BY <3>3 DEF NoPoll, IInv, PlacesInv
      <4>2. QED
        BY <1>1, <2>1, <3>2, <3>3, <4>1 DEF OffsetInv
    <3>4. QED
      BY <1>1, <2>1, <3>1, <3>3
  <2>2. QED
    BY <2>1, HistoryKept
<1>8. QED
  BY <1>3, <1>4, <1>5, <1>6, <1>7 DEF IInv

LEMMA ResetStep == IInv /\ Reset => IInv'
<1> SUFFICES ASSUME IInv, Reset
             PROVE  IInv'
  OBVIOUS
<1> DEFINE r == AfterReset(Live)
<1>1. Live.next \in Nat \ {0}
  BY RecordTypes DEF IInv, Runtime
<1>2. r \in Runtime /\ r.next = Live.next /\ r.updates = {} /\ r.acked = 0
  BY <1>1 DEF AfterReset, Fresh, Runtime
<1>3. Copied(r)
  BY <1>1, <1>2 DEF Copied
<1>4. saves' \in 0 .. MaxSaves /\ saves' # 0
  BY ToBeSavedMeans DEF Reset, IInv
<1>5. rewound' = rewound /\ rewound \in BOOLEAN /\ unsaved' \in BOOLEAN
  BY DEF Reset, IInv, TypeOK
<1> HIDE DEF r
<1>6. Install(r, generation + 1)
  BY DEF Reset, r
<1>7. QED
  BY <1>2, <1>3, <1>4, <1>5, <1>6, InstallKeeps DEF Reset, botVars

LEMMA RestoreStep == IInv /\ Restore => IInv'
<1> SUFFICES ASSUME IInv, Restore
             PROVE  IInv'
  OBVIOUS
<1>1. /\ snapshot \in Runtime /\ snapshot \in Records /\ Load(snapshot) = snapshot
      /\ snapshot.next \in Nat /\ Live.next \in Nat
  BY RecordTypes, DumpAndLoad DEF IInv, Runtime
<1>2. saves' \in 0 .. MaxSaves /\ saves' # 0
  BY ToBeSavedMeans DEF Restore, IInv
<1>3. rewound' \in BOOLEAN /\ unsaved' \in BOOLEAN
  BY DEF Restore, IInv, TypeOK
<1>4. ASSUME ~rewound'
      PROVE  ~rewound /\ snapshot.next = Live.next /\ Copied(snapshot)
  <2>1. ~rewound /\ ~(snapshot.next < Live.next)
    BY <1>4 DEF Restore
  <2>2. snapshot.next <= Live.next
    BY <1>1, <2>1 DEF IInv, HistoryInv, NextInv
  <2>3. QED
    BY <1>1, <2>1, <2>2, RecordsAreCopies
<1>5. QED
  BY <1>1, <1>2, <1>3, <1>4, InstallKeeps DEF Restore, botVars

LEMMA CreateBotStep == IInv /\ CreateBot => IInv'
<1> SUFFICES ASSUME IInv, CreateBot
             PROVE  IInv'
  OBVIOUS
<1>1. /\ Fresh \in Runtime /\ Fresh.next = 1 /\ Fresh.updates = {} /\ Fresh.acked = 0
      /\ Live.next \in Nat \ {0}
  BY FreshType, RecordTypes DEF Fresh, IInv, Runtime
<1>2. saves' \in 0 .. MaxSaves /\ saves' # 0
  BY ToBeSavedMeans DEF CreateBot, IInv
<1>3. rewound' \in BOOLEAN /\ unsaved' \in BOOLEAN
  BY DEF CreateBot, IInv, TypeOK
<1>4. ASSUME ~rewound'
      PROVE  ~rewound /\ Fresh.next = Live.next /\ Copied(Fresh)
  <2>1. ~rewound /\ ~(Fresh.next < Live.next)
    BY <1>4 DEF CreateBot
  <2>2. Fresh.next = Live.next
    BY <1>1, <2>1
  <2>3. Copied(Fresh)
    BY <1>1, <2>2 DEF Copied
  <2>4. QED
    BY <2>1, <2>2, <2>3
<1>5. QED
  BY <1>1, <1>2, <1>3, <1>4, InstallKeeps DEF CreateBot, botVars

LEMMA RestartStep == IInv /\ Restart => IInv'
<1> SUFFICES ASSUME IInv, Restart
             PROVE  IInv'
  OBVIOUS
<1>1. /\ disk \in Runtime /\ disk \in Records /\ Load(disk) = disk
      /\ disk.next \in Nat /\ Live.next \in Nat
  BY RecordTypes, DumpAndLoad DEF IInv, Runtime
<1>2. saves' \in 0 .. MaxSaves /\ rewound' \in BOOLEAN /\ unsaved' \in BOOLEAN
  <2>1. saves' \in 0 .. MaxSaves
    BY LifecycleBounds DEF Restart
  <2>2. rewound' \in BOOLEAN /\ unsaved' \in BOOLEAN
    BY Zenon DEF Restart
  <2>3. QED
    BY <2>1, <2>2
<1>3. ASSUME ~rewound'
      PROVE  ~rewound /\ disk.next = Live.next /\ Copied(disk)
  <2>1. ~rewound /\ ~(disk.next < Live.next)
    BY <1>3 DEF Restart
  <2>2. disk.next <= Live.next
    BY <1>1, <2>1 DEF IInv, HistoryInv, NextInv
  <2>3. QED
    BY <1>1, <2>1, <2>2, RecordsAreCopies
<1>4. QED
  BY <1>1, <1>2, <1>3, InstallKeeps DEF Restart

(* PollServed and PollWakes: an ack, and perhaps an answer. *)
LEMMA AnswerStep ==
    ASSUME IInv, NEW g \in Generations, Pending(g) # {}, Answer(Pending(g)),
           UNCHANGED <<bots, generation, network, call, storeVars, pushed, rewound>>,
           runtimes' \in [Generations -> Runtime],
           \A h \in Generations : SameContents(runtimes'[h], runtimes[h]),
           ~rewound => \A r \in Records' : Copied(r)
    PROVE  HistoryInv'
<1> SUFFICES ASSUME ~rewound'
             PROVE  NextInv' /\ NoGapInv' /\ OffsetInv' /\ SeenInv'
  BY DEF HistoryInv
<1>1. /\ TypeOK /\ NumberedInv /\ NextInv /\ NoGapInv /\ SeenInv
      /\ \A r \in Records' : Copied(r)
  BY DEF IInv, HistoryInv
<1>2. Live'.next = Live.next
  BY <1>1 DEF Live, SameContents, TypeOK
<1>3. NextInv' /\ NoGapInv'
  BY <1>1, <1>2, CopiesKept
<1>4. poll' = NoPoll /\ seen' = seen \cup Pending(g)
  BY <1>1, AnswerMeans
<1>5. PICK w \in runtimes[g].updates : w.id >= offset /\ offset' = w.id + 1
  BY <1>1, AnswerMeans
<1>6. SeenInv'
  BY <1>1, <1>4, <1>5, SeenAfterAnswer
<1>7. offset' <= Live'.next
  <2>1. /\ runtimes[g] \in Records /\ runtimes[g].next \in Nat /\ w.id \in Nat
        /\ Live.next \in Nat
    BY <1>1, RecordTypes DEF Runtime, Update
  <2>2. w.id < runtimes[g].next /\ runtimes[g].next <= Live.next
    BY <1>1, <2>1 DEF NumberedInv, NextInv
  <2>3. QED
    BY <1>2, <1>5, <2>1, <2>2
<1>8. OffsetInv'
  BY <1>4, <1>7 DEF OffsetInv, NoPoll
<1>9. QED
  BY <1>3, <1>6, <1>8

LEMMA PollWakesStep == IInv /\ PollWakes => IInv'
<1> SUFFICES ASSUME IInv, PollWakes
             PROVE  IInv'
  OBVIOUS
<1> DEFINE g == poll.at
<1>1. /\ g \in Generations /\ Pending(g) # {} /\ Answer(Pending(g))
      /\ UNCHANGED <<netVars, call, storeVars, pushed, rewound>>
  BY DEF PollWakes, IInv, PlacesInv
<1>2. /\ poll' = NoPoll /\ botRestarts' = botRestarts /\ seen' \subseteq Update
      /\ offset' \in Nat
  BY <1>1, AnswerMeans DEF IInv
<1>3. Records' = Records /\ Live' = Live
  BY <1>1, SameRecords DEF netVars, storeVars, Live
<1>4. TypeOK'
  BY <1>1, <1>2 DEF IInv, TypeOK, netVars, storeVars, NoPoll, Poll
<1>5. PlacesInv' /\ NumberedInv' /\ DiskIsCurrent'
  BY <1>1, <1>2, <1>3 DEF IInv, PlacesInv, NumberedInv, DiskIsCurrent, netVars, storeVars, NoPoll
<1>6. HistoryInv'
  <2>1. \A r \in Records' : Copied(r)
    BY <1>3, RecordsAreCopies
  <2>2. \A h \in Generations : SameContents(runtimes'[h], runtimes[h])
    BY <1>1 DEF netVars, SameContents
  <2>3. runtimes' \in [Generations -> Runtime]
    BY <1>4 DEF TypeOK
  <2>4. QED
    BY <1>1, <2>1, <2>2, <2>3, AnswerStep DEF netVars
<1>7. QED
  BY <1>4, <1>5, <1>6 DEF IInv

LEMMA PollServedStep == IInv /\ PollServed => IInv'
<1> SUFFICES ASSUME IInv, PollServed
             PROVE  IInv'
  OBVIOUS
<1> DEFINE g == bots[poll.at]
           ack == Acked(runtimes[g], offset)
           q == [next |-> runtimes[g].next, updates |-> runtimes[g].updates, acked |-> ack]
<1>1. /\ TypeOK /\ poll.phase = "calling" /\ poll.at \in Generations
      /\ UNCHANGED <<bots, generation, network, call, storeVars, pushed, rewound>>
  BY DEF PollServed, IInv, PlacesInv
<1>2. g \in Generations /\ runtimes[g] \in Runtime /\ runtimes[g] \in Records
      /\ offset \in Nat
  BY <1>1, RecordTypes DEF TypeOK
<1>3. ack \in Nat /\ (ack = runtimes[g].acked \/ ack = offset - 1)
  BY <1>2 DEF Acked, Runtime
<1>4. runtimes' = [runtimes EXCEPT ![g] = q] /\ q \in Runtime
  <2>1. runtimes' = [runtimes EXCEPT ![g] = [runtimes[g] EXCEPT !.acked = ack]]
    BY <1>1 DEF PollServed, TypeOK
  <2>2. q = [runtimes[g] EXCEPT !.acked = ack] /\ q \in Runtime
    BY <1>2, <1>3 DEF Runtime
  <2>3. QED
    BY <2>1, <2>2
<1>5. \/ Pending(g) # {} /\ Answer(Pending(g))
      \/ /\ poll' = [phase |-> "waiting", at |-> g]
         /\ UNCHANGED <<offset, seen, botRestarts>>
  BY DEF PollServed
<1>6. SameContents(q, runtimes[g]) /\ q.acked = ack
  BY DEF SameContents
<1> HIDE DEF q, ack
<1>7. runtimes' \in [Generations -> Runtime]
  BY <1>1, <1>2, <1>4 DEF TypeOK
<1>8. \A h \in Generations : SameContents(runtimes'[h], runtimes[h])
  BY <1>1, <1>2, <1>4, <1>6 DEF TypeOK, SameContents
<1>9. SameContents(Live', Live)
  BY <1>1, <1>8 DEF Live, TypeOK
<1>10. \A r \in Records' : r = q \/ r \in Records
  BY <1>1, <1>2, <1>4 DEF Records, TypeOK, storeVars
<1>11. ~rewound => \A r \in Records' : Copied(r)
  <2>1. ASSUME ~rewound
        PROVE  Copied(q)
    <3>1. offset <= runtimes[g].next
      BY <1>1, <2>1 DEF IInv, HistoryInv, OffsetInv
    <3>2. QED
      BY <1>2, <1>3, <1>6, <3>1 DEF Copied
  <2>2. QED
    BY <1>10, <2>1, RecordsAreCopies
<1>12. /\ poll' \in Poll
       /\ poll'.phase # "none" => poll'.at \in Generations
       /\ poll'.phase # "calling"
       /\ botRestarts' = botRestarts /\ seen' \subseteq Update /\ offset' \in Nat
  <2>1. CASE Pending(g) # {} /\ Answer(Pending(g))
    <3>1. /\ poll' = NoPoll /\ botRestarts' = botRestarts
          /\ seen' \subseteq Update /\ offset' \in Nat
      BY <1>2, <2>1, AnswerMeans DEF IInv
    <3>2. QED
      BY <3>1 DEF NoPoll, Poll
  <2>2. CASE /\ poll' = [phase |-> "waiting", at |-> g]
             /\ UNCHANGED <<offset, seen, botRestarts>>
    BY <1>1, <1>2, <2>2 DEF TypeOK, Poll
  <2>3. QED
    BY <1>5, <2>1, <2>2
<1>13. TypeOK'
  BY <1>1, <1>7, <1>12 DEF TypeOK, storeVars
<1>14. PlacesInv'
  BY <1>1, <1>12 DEF IInv, PlacesInv
<1>15. NumberedInv'
  <2>1. \A r \in Records' : \E s \in Records : SameContents(r, s)
    BY <1>2, <1>6, <1>10, RecordsAreCopies
  <2>2. QED
    BY <2>1, NumbersKept DEF IInv
<1>16. DiskIsCurrent'
  BY <1>1, <1>9 DEF IInv, DiskIsCurrent, Durable, SameContents, storeVars
<1>17. HistoryInv'
  <2>1. CASE Pending(g) # {} /\ Answer(Pending(g))
    BY <1>1, <1>2, <1>7, <1>8, <1>11, <2>1, AnswerStep
  <2>2. CASE UNCHANGED <<offset, seen, botRestarts>>
    <3>1. rewound' \in BOOLEAN /\ rewound' = rewound /\ Live'.next = Live.next
      BY <1>1, <1>9 DEF TypeOK, SameContents
    <3>2. QED
      BY <1>11, <1>12, <2>2, <3>1, HistoryKept
  <2>3. QED
    BY <1>5, <2>1, <2>2
<1>18. QED
  BY <1>13, <1>14, <1>15, <1>16, <1>17 DEF IInv

LEMMA StutterStep == IInv /\ UNCHANGED vars => IInv'
<1> SUFFICES ASSUME IInv, UNCHANGED vars
             PROVE  IInv'
  OBVIOUS
<1>1. UNCHANGED <<runtimes, bots, generation, network, call, poll, offset, seen,
                  saves, disk, snapshot, pushed, unsaved, rewound, botRestarts>>
  BY DEF vars, netVars, botVars, storeVars
<1>2. Records' = Records /\ Live' = Live
  BY <1>1, SameRecords DEF Live
<1>3. TypeOK' /\ PlacesInv' /\ NumberedInv' /\ DiskIsCurrent'
  BY <1>1, <1>2 DEF IInv, TypeOK, PlacesInv, NumberedInv, DiskIsCurrent
<1>4. HistoryInv'
  BY <1>1, <1>2 DEF IInv, HistoryInv, NextInv, NoGapInv, OffsetInv, SeenInv
<1>5. QED
  BY <1>3, <1>4 DEF IInv

LEMMA Invariant == Spec => []IInv
<1>1. IInv /\ [Next]_vars => IInv'
  BY WaitingStep, CopyingStep, UserPostStep, PushUnsavedStep, BotPostServedStep,
     ResetStep, RestoreStep, CreateBotStep, RestartStep, PollServedStep, PollWakesStep,
     StutterStep DEF Next, BotGet, CreateChatFails
<1>2. QED
  BY <1>1, InitIInv, PTL DEF Spec

-----------------------------------------------------------------------------
(* What follows from it. *)

(* Every variable has its type; among others, the live network always has  *)
(* a runtime for the bot (Network.bots after reset, load and add_bot).     *)
THEOREM LifecycleType == Spec => []TypeOK
<1>1. IInv => TypeOK
  BY DEF IInv
<1>2. QED
  BY <1>1, Invariant, PTL

(* Unless the numbering goes back or a call is served in a dead network,   *)
(* no queued update is below the bot's offset without the bot having got   *)
(* it: a reset loses no update to come (Network.reset, BotRuntime).        *)
THEOREM DeafnessNeedsRewind == Spec => []DeafOnlyAfterRewind
<1>1. IInv => DeafOnlyAfterRewind
  <2> SUFFICES ASSUME IInv, ~rewound, NEW u \in Live.updates, u.id < offset
               PROVE  u \in seen
    BY DEF DeafOnlyAfterRewind, NoDeafBot
  <2>1. Live \in Records
    BY RecordTypes DEF IInv
  <2>2. QED
    BY <2>1 DEF IInv, HistoryInv, OffsetInv, SeenInv
<1>2. QED
  BY <1>1, Invariant, PTL

(* What a runtime counts as acknowledged the bot got, whichever of the two *)
(* was restarted since (get_updates, wait_acked).                          *)
THEOREM AcknowledgedWasSeen == Spec => []AckedMeansSeen
<1>1. IInv => AckedMeansSeen
  <2> SUFFICES ASSUME IInv, ~rewound, NEW u \in Live.updates, u.id <= Live.acked
               PROVE  u \in seen
    BY DEF AckedMeansSeen
  <2>1. Live \in Records
    BY RecordTypes DEF IInv
  <2>2. QED
    BY <2>1 DEF IInv, HistoryInv, SeenInv
<1>2. QED
  BY <1>1, Invariant, PTL

(* When every request is answered and saved and no GET changed the network *)
(* since, the store holds the live queue and its numbering (_persist).     *)
THEOREM StoreIsCurrent == Spec => []DiskIsCurrent
<1>1. IInv => DiskIsCurrent
  BY DEF IInv
<1>2. QED
  BY <1>1, Invariant, PTL

-----------------------------------------------------------------------------
(***************************************************************************)
(* A queued update is seen.                                                *)
(*                                                                         *)
(* As long as neither the network nor the bot is replaced, the bot gets    *)
(* out of a poll of a dead network and into one of the live network, from  *)
(* the call that is served elsewhere through a wait that ends.  That its   *)
(* next step is possible is ENABLED, which the prover does not know: it is *)
(* the hypothesis []NoStuckPoll.  That replacements, which are counted and *)
(* bounded, come to an end would be an induction over their number that    *)
(* has a temporal formula for its induction hypothesis: it is Settles.     *)
(***************************************************************************)

Queued(b) == \E u \in Live.updates : u.body = b
GotIt(b) == \E u \in seen : u.body = b

Sought(b, g, k) ==
    /\ Queued(b) /\ ~GotIt(b) /\ ~rewound
    /\ generation = g /\ botRestarts = k

\* Where the bot is.
Idle      == poll.phase = "none"
Elsewhere == poll.phase = "calling" /\ bots[poll.at] # generation
AtHome    == poll.phase = "calling" /\ bots[poll.at] = generation
Waiting   == poll.phase = "waiting"

LEMMA BotIsSomewhere == TypeOK => Idle \/ Elsewhere \/ AtHome \/ Waiting
BY DEF TypeOK, Poll, Idle, Elsewhere, AtHome, Waiting

\* Between replacements only the bot's own requests move it.
LEMMA OnlyPollsMoveIt ==
    ASSUME TypeOK, [Next]_vars, generation' = generation, botRestarts' = botRestarts
    PROVE  /\ bots' = bots /\ network' = network
           /\ PollCall \/ PollServed \/ PollWakes \/ PollExpires \/ poll' = poll
<1>1. generation \in Nat /\ botRestarts \in Nat
  BY LifecycleBounds DEF TypeOK, Generations
<1>2. ASSUME NEW r, NEW n, Install(r, n)
      PROVE  FALSE
  BY <1>1, <1>2 DEF Install
<1>3. ~Reset /\ ~Restore /\ ~CreateBot /\ ~Restart
  BY <1>2 DEF Reset, Restore, CreateBot, Restart
<1>4. ~BotRestart
  BY <1>1 DEF BotRestart
<1>5. CASE UserPost \/ BotPostServed \/ BotGet \/ CreateChatFails
  BY <1>5 DEF UserPost, BotPostServed, BotGet, CreateChatFails, PushUnsaved, Push, botVars
<1>6. CASE BotPost \/ Save \/ Snapshot \/ UNCHANGED vars
  BY <1>6 DEF BotPost, Save, Snapshot, vars, netVars, botVars
<1>7. CASE PollCall \/ PollServed \/ PollWakes \/ PollExpires
  BY <1>7 DEF PollCall, PollServed, PollWakes, PollExpires, netVars
<1>8. QED
  BY <1>3, <1>4, <1>5, <1>6, <1>7 DEF Next

\* A poll served at home gets what is sought: it is not below the offset.
LEMMA ServedAtHome ==
    ASSUME IInv, NEW b, NEW g, NEW k, Sought(b, g, k), AtHome, PollServed
    PROVE  GotIt(b)'
<1>1. PICK u \in Live.updates : u.body = b
  BY DEF Sought, Queued
<1>2. Live \in Records /\ Live \in Runtime
  BY RecordTypes DEF IInv
<1>3. u \in Update /\ u.id \in Nat /\ offset \in Nat
  BY <1>1, <1>2 DEF Runtime, Update, IInv, TypeOK
<1>4. u \notin seen
  BY <1>1 DEF Sought, GotIt
<1>5. u.id >= offset
  BY <1>1, <1>2, <1>3, <1>4 DEF Sought, IInv, HistoryInv, OffsetInv, SeenInv
<1>6. u \in Pending(bots[poll.at])
  BY <1>1, <1>5 DEF AtHome, Pending, Live
<1>7. u \in seen'
  BY <1>6 DEF PollServed, Answer
<1>8. QED
  BY <1>1, <1>7 DEF GotIt

\* The way of the bot, unless the update is no longer sought.
LEMMA TheWay ==
    ASSUME IInv, [Next]_vars, NEW b, NEW g, NEW k, Sought(b, g, k), Sought(b, g, k)'
    PROVE  /\ Idle => Idle' \/ AtHome'
           /\ AtHome => AtHome'
           /\ Waiting => Waiting' \/ Idle'
           /\ Elsewhere => Elsewhere' \/ Waiting' \/ Idle'
           /\ PollCall => AtHome'
           /\ PollServed => Waiting' \/ Idle'
           /\ PollExpires => Idle'
<1>1. TypeOK /\ generation' = generation /\ botRestarts' = botRestarts
  BY DEF Sought, IInv
<1>2. /\ bots' = bots /\ network' = network
      /\ PollCall \/ PollServed \/ PollWakes \/ PollExpires \/ poll' = poll
  BY <1>1, OnlyPollsMoveIt
<1>3. PollCall => Idle /\ AtHome'
  BY <1>1, <1>2 DEF PollCall, NoPoll, Idle, AtHome, TypeOK
<1>4. PollServed => ~Idle /\ ~Waiting /\ (Waiting' \/ Idle')
  BY DEF PollServed, Answer, NoPoll, Idle, Waiting
<1>5. PollWakes => Waiting /\ Idle'
  BY DEF PollWakes, Answer, NoPoll, Waiting, Idle
<1>6. PollExpires => Waiting /\ Idle'
  BY DEF PollExpires, NoPoll, Waiting, Idle
<1>7. ~(AtHome /\ PollServed)
  BY ServedAtHome DEF Sought
<1>8. poll' = poll => (Idle' <=> Idle) /\ (AtHome' <=> AtHome) /\ (Waiting' <=> Waiting)
                       /\ (Elsewhere' <=> Elsewhere)
  BY <1>1, <1>2 DEF Idle, AtHome, Waiting, Elsewhere
<1>9. ~(Idle /\ AtHome) /\ ~(Idle /\ Waiting) /\ ~(AtHome /\ Waiting)
      /\ ~(Elsewhere /\ (Idle \/ Waiting \/ AtHome))
  BY DEF Idle, AtHome, Waiting, Elsewhere
<1>10. QED
  BY <1>2, <1>3, <1>4, <1>5, <1>6, <1>7, <1>8, <1>9

\* While nothing is replaced the search for an update ends.
LEMMA SearchEnds ==
    ASSUME NEW b, NEW g, NEW k
    PROVE  FairSpec /\ []NoStuckPoll => (Sought(b, g, k) ~> ~Sought(b, g, k))
<1> DEFINE S == Sought(b, g, k)
<1>1. IInv /\ [Next]_vars /\ S => \/ ~S'
                                 \/ /\ Idle => Idle' \/ AtHome'
                                    /\ AtHome => AtHome'
                                    /\ Waiting => Waiting' \/ Idle'
                                    /\ Elsewhere => Elsewhere' \/ Waiting' \/ Idle'
  BY TheWay
<1>2. IInv /\ [Next]_vars /\ S /\ <<PollCall>>_vars => ~S' \/ AtHome'
  BY TheWay
<1>3. IInv /\ [Next]_vars /\ S /\ AtHome /\ <<PollServed>>_vars => ~S'
  BY ServedAtHome DEF Sought
<1>4. IInv /\ [Next]_vars /\ S /\ <<PollServed>>_vars => ~S' \/ Waiting' \/ Idle'
  BY TheWay
<1>5. IInv /\ [Next]_vars /\ S /\ <<PollExpires>>_vars => ~S' \/ Idle'
  BY TheWay
<1>6. NoStuckPoll => /\ Idle => ENABLED <<PollCall>>_vars
                     /\ AtHome \/ Elsewhere => ENABLED <<PollServed>>_vars
                     /\ Waiting => ENABLED <<PollExpires>>_vars
  BY DEF NoStuckPoll, Idle, AtHome, Elsewhere, Waiting
<1>7. IInv => Idle \/ Elsewhere \/ AtHome \/ Waiting
  BY BotIsSomewhere DEF IInv
<1> HIDE DEF S
<1>8. FairSpec /\ []NoStuckPoll => ((S /\ AtHome) ~> ~S)
  BY <1>1, <1>3, <1>6, Invariant, PTL DEF FairSpec, Spec
<1>9. FairSpec /\ []NoStuckPoll => ((S /\ Idle) ~> ~S \/ (S /\ AtHome))
  BY <1>1, <1>2, <1>6, Invariant, PTL DEF FairSpec, Spec
<1>10. FairSpec /\ []NoStuckPoll => ((S /\ Waiting) ~> ~S \/ (S /\ Idle))
  BY <1>1, <1>5, <1>6, Invariant, PTL DEF FairSpec, Spec
<1>11. FairSpec /\ []NoStuckPoll => ((S /\ Elsewhere) ~> ~S \/ (S /\ Waiting) \/ (S /\ Idle))
  BY <1>1, <1>4, <1>6, Invariant, PTL DEF FairSpec, Spec
<1>12. FairSpec /\ []NoStuckPoll => (S ~> ~S)
  BY <1>7, <1>8, <1>9, <1>10, <1>11, Invariant, PTL DEF FairSpec
<1>13. QED
  BY <1>12 DEF S

LEMMA SeenOnceSettled ==
    ASSUME NEW b, NEW g, NEW k
    PROVE  FairSpec /\ []NoStuckPoll /\ Settled(g, k) =>
             (Queued(b) ~> GotIt(b) \/ ~Queued(b) \/ rewound)
<1>1. (generation = g /\ botRestarts = k) /\ ~Sought(b, g, k) =>
        GotIt(b) \/ ~Queued(b) \/ rewound
  BY DEF Sought
<1>2. QED
  BY <1>1, SearchEnds, PTL DEF Settled

\* What Settles leaves to an induction over the rest of the replacements.
ReplacementsLeft == (MaxGenerations - generation) + (MaxBotRestarts - botRestarts)

LEMMA ReplacementsRunOut ==
    Spec => [][ReplacementsLeft' \in Nat /\
               (UNCHANGED <<generation, botRestarts>> \/ ReplacementsLeft' < ReplacementsLeft)]_vars
<1>1. ASSUME TypeOK, TypeOK', [Next]_vars
      PROVE  /\ ReplacementsLeft' \in Nat
             /\ UNCHANGED <<generation, botRestarts>> \/ ReplacementsLeft' < ReplacementsLeft
  <2>1. /\ generation \in Nat /\ botRestarts \in Nat
        /\ generation' \in 1 .. MaxGenerations /\ botRestarts' \in 0 .. MaxBotRestarts
    BY <1>1, LifecycleBounds DEF TypeOK, Generations
  <2>2. CASE Reset \/ Restore \/ CreateBot \/ Restart
    <3>1. generation' = generation + 1 /\ botRestarts' = botRestarts
      BY <2>2 DEF Reset, Restore, CreateBot, Restart, Install, botVars
    <3>2. QED
      BY <2>1, <3>1, LifecycleBounds DEF ReplacementsLeft
  <2>3. CASE BotRestart
    <3>1. generation' = generation /\ botRestarts' = botRestarts + 1
      BY <2>3 DEF BotRestart, netVars
    <3>2. QED
      BY <2>1, <3>1, LifecycleBounds DEF ReplacementsLeft
  <2>4. CASE UNCHANGED <<generation, botRestarts>>
    BY <2>1, <2>4, LifecycleBounds DEF ReplacementsLeft
  <2>5. CASE \/ UserPost \/ BotPost \/ BotPostServed
             \/ BotGet \/ CreateChatFails \/ Save \/ Snapshot
    BY <2>4, <2>5 DEF UserPost, BotPost, BotPostServed, BotGet, CreateChatFails, PushUnsaved,
                      Save, Snapshot, Push, netVars, botVars
  <2>6. CASE PollCall \/ PollServed \/ PollWakes \/ PollExpires
    BY <2>4, <2>6 DEF PollCall, PollServed, PollWakes, PollExpires, Answer, netVars
  <2>7. CASE UNCHANGED vars
    BY <2>4, <2>7 DEF vars, netVars, botVars
  <2>8. QED
    BY <1>1, <2>2, <2>3, <2>5, <2>6, <2>7 DEF Next
<1>2. QED
  BY <1>1, LifecycleType, PTL DEF Spec

(* A queued update reaches the bot, through polls of dead networks, unless *)
(* the numbering goes back or a reset takes the update away.               *)
THEOREM UpdatesAreSeen == FairSpec /\ []NoStuckPoll /\ Settles => EveryUpdateSeen
<1>1. ASSUME FairSpec, []NoStuckPoll,
             NEW g \in Generations, NEW k \in 0 .. MaxBotRestarts, Settled(g, k),
             NEW b \in 1 .. MaxUpdates
      PROVE  (\E u \in Live.updates : u.body = b) ~>
                \/ \E u \in seen : u.body = b
                \/ ~\E u \in Live.updates : u.body = b
                \/ rewound
  BY <1>1, SeenOnceSettled, PTL DEF Queued, GotIt
<1>2. QED
  BY <1>1 DEF Settles, EveryUpdateSeen

=============================================================================
