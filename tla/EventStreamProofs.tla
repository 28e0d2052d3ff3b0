------------------------- MODULE EventStreamProofs -------------------------
(***************************************************************************)
(* EventStream for any tabs, calls, presses and size of the queue.         *)
(*                                                                         *)
(* Inv adds to the properties what they lean on: the ids of a registry are *)
(* below its counter and its presses were told to a bot (RegistryOk), a    *)
(* request without a response is the only one of its press (FlightOk), and *)
(* a button that still spins after its query was answered is explained     *)
(* without its request (SpinOk), which may return at any time.             *)
(***************************************************************************)
EXTENDS EventStream, SequenceTheorems, TLAPS

-----------------------------------------------------------------------------
PendingMaps == UNION {[S -> Presses] : S \in SUBSET Ids}

Received == [phase : {"received"}, net : Networks, query : Told]

Flight == [press : Presses, id : {0} \cup Ids, ok : BOOLEAN]

TypeInv ==
    /\ net \in Networks
    /\ callbacks \in [Networks -> SUBSET Query]
    /\ nextId \in [Networks -> 1 .. MaxPresses + 1]
    /\ listed \in [Networks -> SUBSET Streams]
    /\ saved \in [callbacks : SUBSET Query, nextId : 1 .. MaxPresses + 1]
    /\ now \in 0 .. MaxTime
    /\ stream \in [Streams -> [phase : Phases, home : Networks]]
    /\ queue \in [Streams -> Seq(Item)]
    /\ \A s \in Streams : Len(queue[s]) <= QueueLimit
    /\ pending \in [Streams -> PendingMaps]
    /\ emitted \in 0 .. MaxEvents
    /\ spin \in [Streams -> SUBSET Presses]
    /\ flight \in [Streams -> SUBSET Flight]
    /\ call \in [Calls -> {[phase |-> "idle"]} \cup Received]
    /\ told \in SUBSET Told
    /\ answered \in SUBSET Presses
    /\ unheard \in [Streams -> SUBSET Presses]

ToldPresses == {q.press : q \in told}

Registry(records, next) ==
    /\ \A r \in records : r.id < next /\ r.press \in ToldPresses
    /\ \A r, t \in records : r.id = t.id \/ r.press = t.press => r = t

RegistryOk ==
    /\ \A g \in Networks : Registry(callbacks[g], nextId[g])
    /\ Registry(saved.callbacks, saved.nextId)

\* The query that a bot holds is the only one of its id.
Names(q, g) ==
    q.id < nextId[g] /\ \A r \in callbacks[g] : r.id = q.id => r.press = q.press

NamesOk ==
    /\ \A q \in told : ~q.stale => Names(q, net)
    /\ \A c \in Calls : call[c].phase = "received" /\ ~call[c].query.stale =>
        Names(call[c].query, call[c].net)

FlightOk ==
    /\ \A s \in Streams : \A f \in flight[s] :
        f.id = 0 /\ f.ok => f.press \notin ToldPresses
    /\ \A s, t \in Streams : \A f \in flight[s], h \in flight[t] :
        f.press = h.press => s = t /\ f = h

\* What the tab has been told of an answer, or is about to be.
Explained(s, p) ==
    \/ p \in unheard[s]
    \/ Listening(s) /\ p \in Answers(queue[s])

SpinOk == \A s \in Streams : \A p \in spin[s] : p \in answered => Explained(s, p)

Inv ==
    /\ TypeInv
    /\ ListedWhileConnected
    /\ QueueIsNewest
    /\ RegistryOk
    /\ NamesOk
    /\ FlightOk
    /\ SpinOk

-----------------------------------------------------------------------------
(* The queue. *)

\* Newest keeps the end of a sequence, up to the limit.
LEMMA NewestIs ==
    ASSUME NEW S, NEW items \in Seq(S)
    PROVE  /\ Newest(items) \in Seq(S)
           /\ Len(Newest(items)) <= QueueLimit
           /\ Len(Newest(items)) <= Len(items)
           /\ \A i \in 1 .. Len(Newest(items)) :
                Newest(items)[i] = items[Len(items) - Len(Newest(items)) + i]
           /\ Len(items) <= QueueLimit => Newest(items) = items
<1>1. Len(items) \in Nat /\ QueueLimit \in Nat \ {0} /\ DOMAIN items = 1 .. Len(items)
  BY QueueLimitAssumption, LenProperties
<1>2. CASE Len(items) <= QueueLimit
  BY <1>1, <1>2 DEF Newest
<1>3. CASE ~(Len(items) <= QueueLimit)
  <2> DEFINE first == Len(items) - QueueLimit + 1
  <2>1. Newest(items) = SubSeq(items, first, Len(items))
    BY <1>3 DEF Newest
  <2>2. first \in 1 .. Len(items) + 1 /\ first \in Int
    BY <1>1, <1>3
  <2>3. \A i \in first .. Len(items) : items[i] \in S
    BY <1>1, <2>2, ElementOfSeq
  <2>4. /\ SubSeq(items, first, Len(items)) \in Seq(S)
        /\ Len(SubSeq(items, first, Len(items))) = Len(items) - first + 1
        /\ \A i \in 1 .. Len(items) - first + 1 :
                SubSeq(items, first, Len(items))[i] = items[first + i - 1]
    BY <1>1, <2>2, <2>3, SubSeqProperties
  <2>5. QED
    BY <1>1, <1>3, <2>1, <2>4
<1>4. QED
  BY <1>2, <1>3

\* The n-th item of a queue is the n-th from the last event backwards.
Consecutive(items, last) ==
    \A i \in DOMAIN items : items[i].n = last - Len(items) + i

LEMMA NewestConsecutive ==
    ASSUME NEW items \in Seq(Item), NEW last \in Nat, Consecutive(items, last)
    PROVE  Consecutive(Newest(items), last)
<1>1. /\ Len(items) \in Nat /\ DOMAIN items = 1 .. Len(items)
      /\ Newest(items) \in Seq(Item)
      /\ Len(Newest(items)) <= Len(items)
      /\ \A i \in 1 .. Len(Newest(items)) :
            Newest(items)[i] = items[Len(items) - Len(Newest(items)) + i]
  BY NewestIs, LenProperties
<1>2. Len(Newest(items)) \in Nat /\ DOMAIN Newest(items) = 1 .. Len(Newest(items))
  BY <1>1, LenProperties
<1>3. ASSUME NEW i \in DOMAIN Newest(items)
      PROVE  Newest(items)[i].n = last - Len(Newest(items)) + i
  <2> DEFINE j == Len(items) - Len(Newest(items)) + i
  <2>1. j \in DOMAIN items /\ Newest(items)[i] = items[j]
    BY <1>1, <1>2
  <2>2. items[j].n = last - Len(items) + j
    BY <2>1 DEF Consecutive
  <2>3. QED
    BY <1>1, <1>2, <2>1, <2>2
<1>4. QED
  BY <1>3 DEF Consecutive

LEMMA AnswersAreTyped ==
    ASSUME NEW items \in Seq(Item)
    PROVE  Answers(items) \subseteq Presses
<1>1. \A i \in DOMAIN items : items[i] \in Item
  BY ElementOfSeq
<1>2. ASSUME NEW i \in DOMAIN items, items[i].event.type = "answered"
      PROVE  items[i].event.press \in Presses
  <2>1. items[i].event \in Event
    BY <1>1 DEF Item
  <2>2. QED
    BY <1>2, <2>1 DEF Event
<1>3. QED
  BY <1>2 DEF Answers

\* A queue followed by events numbered from the last one on.
LEMMA OfferedIs ==
    ASSUME NEW items \in Seq(Item), NEW e \in Nat, NEW events \in Seq(Event),
           e + Len(events) <= MaxEvents
    PROVE  LET fresh == [i \in DOMAIN events |-> [n |-> e + i, event |-> events[i]]]
           IN  /\ items \o fresh \in Seq(Item)
               /\ Consecutive(items, e) =>
                    Consecutive(items \o fresh, e + Len(events))
               /\ Answers(items \o fresh) = Answers(items) \cup Answers(fresh)
<1> DEFINE fresh == [i \in DOMAIN events |-> [n |-> e + i, event |-> events[i]]]
<1>1. Len(events) \in Nat /\ DOMAIN events = 1 .. Len(events)
      /\ Len(items) \in Nat /\ DOMAIN items = 1 .. Len(items)
  BY LenProperties
<1>2. \A i \in DOMAIN events : fresh[i] \in Item
  <2>1. ASSUME NEW i \in DOMAIN events
        PROVE  [n |-> e + i, event |-> events[i]] \in Item
    <3>1. events[i] \in Event /\ e + i \in 1 .. MaxEvents
      BY <1>1, ElementOfSeq, BoundsAssumption
    <3>2. QED
      BY <3>1 DEF Item
  <2>2. QED
    BY <2>1
<1>3. fresh \in Seq(Item) /\ Len(fresh) = Len(events) /\ DOMAIN fresh = 1 .. Len(events)
  <2>1. fresh \in Seq(Item)
    BY <1>1, <1>2, IsASeq
  <2>2. QED
    BY <1>1, <2>1, LenProperties
<1>4. /\ items \o fresh \in Seq(Item)
      /\ Len(items \o fresh) = Len(items) + Len(events)
      /\ \A i \in 1 .. Len(items) + Len(events) : (items \o fresh)[i] =
            IF i <= Len(items) THEN items[i] ELSE fresh[i - Len(items)]
  BY <1>3, ConcatProperties
<1>5. DOMAIN (items \o fresh) = 1 .. Len(items) + Len(events)
  BY <1>4, LenProperties
<1>6. \A i \in 1 .. Len(events) : fresh[i].n = e + i
  BY <1>1
<1> HIDE DEF fresh
<1>7. ASSUME Consecutive(items, e)
      PROVE  Consecutive(items \o fresh, e + Len(events))
  <2>1. ASSUME NEW i \in 1 .. Len(items) + Len(events)
        PROVE  (items \o fresh)[i].n = e + Len(events) - (Len(items) + Len(events)) + i
    <3>1. CASE i <= Len(items)
      BY <1>1, <1>4, <1>7, <3>1 DEF Consecutive
    <3>2. CASE ~(i <= Len(items))
      BY <1>1, <1>4, <1>6, <3>2
    <3>3. QED
      BY <3>1, <3>2
  <2>2. QED
    BY <1>4, <1>5, <2>1 DEF Consecutive
<1>8. Answers(items \o fresh) = Answers(items) \cup Answers(fresh)
  <2> DEFINE all == items \o fresh
  <2>1. ASSUME NEW i \in DOMAIN all, all[i].event.type = "answered"
        PROVE  all[i].event.press \in Answers(items) \cup Answers(fresh)
    <3>1. CASE i <= Len(items)
      BY <1>1, <1>4, <1>5, <2>1, <3>1 DEF Answers
    <3>2. CASE ~(i <= Len(items))
      <4>1. i - Len(items) \in DOMAIN fresh /\ all[i] = fresh[i - Len(items)]
        BY <1>1, <1>3, <1>4, <1>5, <3>2
      <4>2. QED
        BY <2>1, <4>1 DEF Answers
    <3>3. QED
      BY <3>1, <3>2
  <2>2. ASSUME NEW i \in DOMAIN items, items[i].event.type = "answered"
        PROVE  items[i].event.press \in Answers(all)
    <3>1. i \in DOMAIN all /\ all[i] = items[i]
      BY <1>1, <1>4, <1>5
    <3>2. QED
      BY <2>2, <3>1 DEF Answers
  <2>3. ASSUME NEW i \in DOMAIN fresh, fresh[i].event.type = "answered"
        PROVE  fresh[i].event.press \in Answers(all)
    <3>1. i + Len(items) \in DOMAIN all /\ all[i + Len(items)] = fresh[i]
      BY <1>1, <1>3, <1>4, <1>5
    <3>2. QED
      BY <2>3, <3>1 DEF Answers
  <2> HIDE DEF all
  <2>4. Answers(all) \subseteq Answers(items) \cup Answers(fresh)
    BY <2>1 DEF Answers
  <2>5. Answers(items) \subseteq Answers(all) /\ Answers(fresh) \subseteq Answers(all)
    BY <2>2, <2>3 DEF Answers
  <2>6. QED
    BY <2>4, <2>5 DEF all
<1>9. QED
  BY <1>4, <1>7, <1>8 DEF fresh

\* What is answered among events, in any numbering of them.
LEMMA FreshAnswers ==
    ASSUME NEW e, NEW events \in Seq(Event)
    PROVE  LET fresh == [i \in DOMAIN events |-> [n |-> e + i, event |-> events[i]]]
           IN  /\ Answers(fresh) \subseteq Presses
               /\ \A i \in DOMAIN events :
                    events[i].type = "answered" => events[i].press \in Answers(fresh)
<1>1. \A i \in DOMAIN events : events[i] \in Event
  BY ElementOfSeq
<1>2. \A i \in DOMAIN events : events[i].type = "answered" => events[i].press \in Presses
  BY <1>1 DEF Event
<1>3. QED
  BY <1>2 DEF Answers

\* The tabs that have a queue in the list of the live network.
Readers(live) == IF live THEN {s \in Streams : stream[s].phase # "closed"} ELSE {}

LEMMA OfferKeeps ==
    ASSUME TypeInv, QueueIsNewest, NEW live \in BOOLEAN, NEW events \in Seq(Event),
           Offer(live, Readers(live), events), UNCHANGED stream
    PROVE  /\ emitted' \in 0 .. MaxEvents
           /\ queue' \in [Streams -> Seq(Item)]
           /\ \A s \in Streams : Len(queue'[s]) <= QueueLimit
           /\ unheard' \in [Streams -> SUBSET Presses]
           /\ QueueIsNewest'
           /\ \A s \in Streams : \A p \in Presses : Explained(s, p) => Explained(s, p)'
           /\ \A s \in Streams : \A i \in DOMAIN events :
                events[i].type = "answered" => Explained(s, events[i].press)'
<1> DEFINE fresh == [i \in DOMAIN events |-> [n |-> emitted + i, event |-> events[i]]]
           offered(s) == IF s \in Readers(live) THEN queue[s] \o fresh ELSE queue[s]
<1>1. /\ live => emitted + Len(events) <= MaxEvents
      /\ emitted' = IF live THEN emitted + Len(events) ELSE emitted
      /\ queue' = [s \in Streams |-> Newest(offered(s))]
      /\ unheard' = [s \in Streams |-> unheard[s] \cup
            IF Listening(s) /\ live
            THEN Answers(offered(s)) \ Answers(Newest(offered(s)))
            ELSE Answers(fresh)]
  BY DEF Offer
<1>2. emitted \in Nat /\ emitted <= MaxEvents /\ MaxEvents \in Nat /\ Len(events) \in Nat
  BY BoundsAssumption, LenProperties DEF TypeInv
<1>3. /\ Answers(fresh) \subseteq Presses
      /\ \A i \in DOMAIN events :
            events[i].type = "answered" => events[i].press \in Answers(fresh)
  BY FreshAnswers
<1>4. ASSUME NEW s \in Streams, s \in Readers(live)
      PROVE  /\ live
             /\ queue[s] \o fresh \in Seq(Item)
             /\ Consecutive(queue[s], emitted) => Consecutive(queue[s] \o fresh, emitted')
             /\ Answers(queue[s] \o fresh) = Answers(queue[s]) \cup Answers(fresh)
  <2>1. live
    BY <1>4 DEF Readers
  <2>2. queue[s] \in Seq(Item)
    BY DEF TypeInv
  <2>3. QED
    BY <1>1, <1>2, <2>1, <2>2, OfferedIs
<1> HIDE DEF fresh
<1>5. ASSUME NEW s \in Streams
      PROVE  offered(s) \in Seq(Item)
  BY <1>4 DEF TypeInv
<1>6. ASSUME NEW s \in Streams, s \notin Readers(live)
      PROVE  queue'[s] = queue[s] /\ (Listening(s) => ~live)
  <2>1. queue[s] \in Seq(Item) /\ Len(queue[s]) <= QueueLimit
    BY DEF TypeInv
  <2>2. Newest(queue[s]) = queue[s]
    BY <2>1, NewestIs
  <2>3. Listening(s) => ~live
    BY <1>6 DEF Readers, Listening
  <2>4. QED
    BY <1>1, <1>6, <2>2, <2>3
<1>7. emitted' \in 0 .. MaxEvents
  BY <1>1, <1>2
<1>8. ASSUME NEW s \in Streams
      PROVE  /\ queue'[s] \in Seq(Item) /\ Len(queue'[s]) <= QueueLimit
             /\ unheard'[s] \in SUBSET Presses
  <2>1. queue'[s] = Newest(offered(s)) /\ offered(s) \in Seq(Item)
    BY <1>1, <1>5
  <2> HIDE DEF offered
  <2>2. queue'[s] \in Seq(Item) /\ Len(queue'[s]) <= QueueLimit
    BY <2>1, NewestIs
  <2>3. Answers(offered(s)) \subseteq Presses
    BY <2>1, AnswersAreTyped
  <2>4. unheard[s] \subseteq Presses
    BY DEF TypeInv
  <2>5. QED
    BY <1>1, <1>3, <2>2, <2>3, <2>4
<1>9. queue' \in [Streams -> Seq(Item)] /\ unheard' \in [Streams -> SUBSET Presses]
  BY <1>1, <1>8
<1>10. ASSUME NEW s \in Streams, Listening(s)
       PROVE  Consecutive(queue'[s], emitted')
  <2>1. Consecutive(queue[s], emitted)
    BY <1>10 DEF QueueIsNewest, Consecutive
  <2>2. CASE s \in Readers(live)
    <3>1. offered(s) \in Seq(Item) /\ Consecutive(offered(s), emitted')
      BY <1>4, <2>1, <2>2
    <3>2. emitted' \in Nat /\ queue'[s] = Newest(offered(s))
      BY <1>1, <1>7
    <3> HIDE DEF offered
    <3>3. QED
      BY <3>1, <3>2, NewestConsecutive
  <2>3. CASE s \notin Readers(live)
    BY <1>1, <1>6, <1>10, <2>1, <2>3
  <2>4. QED
    BY <2>2, <2>3
<1>11. QueueIsNewest'
  BY <1>10 DEF QueueIsNewest, Consecutive, Listening
<1>12. ASSUME NEW s \in Streams, NEW p, p \in Answers(fresh) \/ Explained(s, p)
       PROVE  Explained(s, p)'
  <2>0. Listening(s)' <=> Listening(s)
    BY DEF Listening
  <2>1. CASE s \in Readers(live)
    <3>1. live /\ Answers(offered(s)) = Answers(queue[s]) \cup Answers(fresh)
      BY <1>4, <2>1
    <3>2. queue'[s] = Newest(offered(s))
      BY <1>1
    <3>3. unheard'[s] = unheard[s] \cup
            IF Listening(s) /\ live
            THEN Answers(offered(s)) \ Answers(Newest(offered(s)))
            ELSE Answers(fresh)
      BY <1>1
    <3> HIDE DEF offered
    <3>4. QED
      BY <1>12, <2>0, <3>1, <3>2, <3>3 DEF Explained
  <2>2. CASE s \notin Readers(live)
    <3>1. queue'[s] = queue[s] /\ unheard'[s] = unheard[s] \cup Answers(fresh)
      BY <1>1, <1>6, <2>2
    <3>2. QED
      BY <1>12, <2>0, <3>1 DEF Explained
  <2>3. QED
    BY <2>1, <2>2
<1> HIDE DEF offered
<1>13. QED
  BY <1>3, <1>7, <1>8, <1>9, <1>11, <1>12

-----------------------------------------------------------------------------
(* What a step leaves alone. *)

LEMMA RegistryUnchanged ==
    ASSUME Inv, UNCHANGED <<net, callbacks, nextId, saved, told, call>>
    PROVE  RegistryOk' /\ NamesOk'
BY DEF Inv, RegistryOk, Registry, ToldPresses, NamesOk, Names

LEMMA FlightUnchanged ==
    ASSUME Inv, UNCHANGED <<flight, told>>
    PROVE  FlightOk'
BY DEF Inv, FlightOk, ToldPresses

\* A tab's requests lose some and win one, which is the only one of its press.
Wins(s, rest, f) ==
    /\ rest \subseteq flight[s]
    /\ flight' = [flight EXCEPT ![s] = rest \cup {f}]
    /\ \A t \in Streams : \A h \in flight[t] :
            h.press = f.press => t = s /\ h \notin rest
    /\ ToldPresses' \subseteq ToldPresses \cup {f.press}
    /\ f.id = 0 /\ f.ok => f.press \notin ToldPresses'

LEMMA FlightChanges ==
    ASSUME Inv, NEW s \in Streams, NEW rest, NEW f, Wins(s, rest, f)
    PROVE  FlightOk'
<1> USE DEF Wins
<1>1. \A t \in Streams : flight'[t] = IF t = s THEN rest \cup {f} ELSE flight[t]
  BY DEF Inv, TypeInv
<1>2. ASSUME NEW t \in Streams, NEW h \in flight'[t]
      PROVE  \/ t = s /\ h = f
             \/ h \in flight[t] /\ h.press # f.press
  BY <1>1, <1>2
<1>3. ASSUME NEW t \in Streams, NEW h \in flight'[t], h.id = 0, h.ok
      PROVE  h.press \notin ToldPresses'
  BY <1>2, <1>3 DEF Inv, FlightOk
<1>4. ASSUME NEW t \in Streams, NEW u \in Streams, NEW h \in flight'[t], NEW k \in flight'[u],
             h.press = k.press
      PROVE  t = u /\ h = k
  <2>1. (t = s /\ h = f) \/ (h \in flight[t] /\ h.press # f.press)
    BY <1>2
  <2>2. (u = s /\ k = f) \/ (k \in flight[u] /\ k.press # f.press)
    BY <1>2
  <2>3. QED
    BY <1>4, <2>1, <2>2 DEF Inv, FlightOk
<1>5. QED
  BY <1>3, <1>4 DEF FlightOk

LEMMA ListedUnchanged ==
    ASSUME Inv, UNCHANGED <<net, listed>>,
           \A s \in Streams : stream'[s].phase = "closed" <=> stream[s].phase = "closed"
    PROVE  ListedWhileConnected'
BY DEF Inv, ListedWhileConnected

LEMMA QueueUnchanged ==
    ASSUME Inv, UNCHANGED <<queue, emitted>>,
           \A s \in Streams : Listening(s)' => Listening(s)
    PROVE  QueueIsNewest'
BY DEF Inv, QueueIsNewest, Listening

\* No answer is new, and what a tab was about to be told it still is.
LEMMA SpinUnchanged ==
    ASSUME Inv, UNCHANGED answered,
           \A s \in Streams : \A p \in spin'[s] : p \in answered =>
                p \in spin[s] /\ (Explained(s, p) => Explained(s, p)')
    PROVE  SpinOk'
BY DEF Inv, SpinOk

LEMMA ExplainedUnchanged ==
    ASSUME Inv, UNCHANGED <<spin, answered, unheard, stream, queue>>
    PROVE  SpinOk'
BY DEF Inv, SpinOk, Explained, Listening

-----------------------------------------------------------------------------
LEMMA InvInit == Init => Inv
<1> SUFFICES ASSUME Init
             PROVE  Inv
  OBVIOUS
<1>1. TypeInv
  <2>1. <<>> \in Seq(Item) /\ Len(<<>>) = 0
    BY EmptySeq
  <2>2. <<>> \in PendingMaps
    BY DEF PendingMaps
  <2>3. QED
    BY <2>1, <2>2, QueueLimitAssumption, BoundsAssumption
       DEF Init, TypeInv, Networks, Phases
<1>2. ListedWhileConnected /\ QueueIsNewest
  BY DEF Init, ListedWhileConnected, QueueIsNewest, Listening
<1>3. RegistryOk /\ NamesOk /\ FlightOk /\ SpinOk
  BY DEF Init, RegistryOk, Registry, NamesOk, FlightOk, SpinOk
<1>4. QED
  BY <1>1, <1>2, <1>3 DEF Inv

LEMMA TickKeeps == Inv /\ Tick => Inv'
<1> SUFFICES ASSUME Inv, Tick
             PROVE  Inv'
  OBVIOUS
<1>1. TypeInv'
  BY BoundsAssumption DEF Inv, TypeInv, Tick, tabVars
<1>2. RegistryOk' /\ NamesOk' /\ FlightOk'
  BY RegistryUnchanged, FlightUnchanged DEF Tick, tabVars
<1>3. ListedWhileConnected' /\ QueueIsNewest'
  BY ListedUnchanged, QueueUnchanged DEF Tick, tabVars, Listening
<1>4. SpinOk'
  BY ExplainedUnchanged DEF Tick, tabVars
<1>5. QED
  BY <1>1, <1>2, <1>3, <1>4 DEF Inv

LEMMA ConnectKeeps ==
    ASSUME Inv, NEW s \in Streams, Connect(s)
    PROVE  Inv'
<1> USE DEF Connect, registryVars, tabVars
<1>0. TypeInv
  BY DEF Inv
<1>1. TypeInv'
  <2>1. <<>> \in Seq(Item) /\ Len(<<>>) = 0
    BY EmptySeq
  <2>2. QED
    BY <1>0, <2>1, QueueLimitAssumption DEF TypeInv, Phases
<1>2. RegistryOk' /\ NamesOk' /\ FlightOk'
  BY RegistryUnchanged, FlightUnchanged
<1>3. ListedWhileConnected'
  <2>1. /\ \A g \in Networks : listed'[g] = IF g = net THEN listed[g] \cup {s} ELSE listed[g]
        /\ \A t \in Streams \ {s} : stream'[t].phase = stream[t].phase
        /\ stream'[s].phase = "opening" /\ net' = net
    BY <1>0 DEF TypeInv
  <2>2. {t \in Streams : stream'[t].phase # "closed"}
            = {t \in Streams : stream[t].phase # "closed"} \cup {s}
    BY <2>1
  <2>3. QED
    BY <2>1, <2>2 DEF Inv, ListedWhileConnected
<1>4. QueueIsNewest'
  BY <1>0 DEF Inv, TypeInv, QueueIsNewest, Listening
<1>5. SpinOk'
  <2>1. ASSUME NEW t \in Streams, NEW p, Explained(t, p)
        PROVE  Explained(t, p)'
    BY <1>0, <2>1 DEF TypeInv, Explained, Listening
  <2>2. QED
    BY <2>1, SpinUnchanged
<1>6. QED
  BY <1>1, <1>2, <1>3, <1>4, <1>5 DEF Inv

LEMMA StreamStartsKeeps ==
    ASSUME Inv, NEW s \in Streams, StreamStarts(s)
    PROVE  Inv'
<1> USE DEF StreamStarts, registryVars, tabVars
<1>0. TypeInv
  BY DEF Inv
<1>1. TypeInv'
  BY <1>0 DEF TypeInv, Phases
<1>2. RegistryOk' /\ NamesOk' /\ FlightOk'
  BY RegistryUnchanged, FlightUnchanged
<1>3. ListedWhileConnected'
  BY <1>0, ListedUnchanged DEF TypeInv
<1>4. QueueIsNewest'
  BY <1>0, QueueUnchanged DEF TypeInv, Listening
<1>5. SpinOk'
  <2>1. ASSUME NEW t \in Streams, NEW p, Explained(t, p)
        PROVE  Explained(t, p)'
    BY <1>0, <2>1 DEF TypeInv, Explained, Listening
  <2>2. QED
    BY <2>1, SpinUnchanged
<1>6. QED
  BY <1>1, <1>2, <1>3, <1>4, <1>5 DEF Inv

LEMMA StreamDropsKeeps ==
    ASSUME Inv, NEW s \in Streams, StreamDrops(s)
    PROVE  Inv'
<1> USE DEF StreamDrops, registryVars, tabVars
<1>0. TypeInv
  BY DEF Inv
<1>1. TypeInv'
  <2>1. Answers(queue[s]) \subseteq Presses
    BY <1>0, AnswersAreTyped DEF TypeInv
  <2>2. unheard' \in [Streams -> SUBSET Presses]
    BY <1>0, <2>1 DEF TypeInv
  <2>3. stream' \in [Streams -> [phase : Phases, home : Networks]]
    BY <1>0 DEF TypeInv, Phases
  <2>4. QED
    BY <1>0, <2>2, <2>3 DEF TypeInv
<1>2. RegistryOk' /\ NamesOk' /\ FlightOk'
  BY RegistryUnchanged, FlightUnchanged
<1>3. ListedWhileConnected'
  BY <1>0, ListedUnchanged DEF TypeInv, Listening
<1>4. QueueIsNewest'
  BY <1>0, QueueUnchanged DEF TypeInv, Listening
<1>5. SpinOk'
  <2>1. ASSUME NEW t \in Streams, NEW p, Explained(t, p)
        PROVE  Explained(t, p)'
    BY <1>0, <2>1 DEF TypeInv, Explained, Listening
  <2>2. QED
    BY <2>1, SpinUnchanged
<1>6. QED
  BY <1>1, <1>2, <1>3, <1>4, <1>5 DEF Inv

LEMMA StreamEndsKeeps ==
    ASSUME Inv, NEW s \in Streams, StreamEnds(s)
    PROVE  Inv'
<1> USE DEF StreamEnds, registryVars, tabVars
<1>0. TypeInv
  BY DEF Inv
<1>1. TypeInv'
  BY <1>0 DEF TypeInv, Phases, Unsubscribe
<1>2. RegistryOk' /\ NamesOk' /\ FlightOk'
  BY RegistryUnchanged, FlightUnchanged
<1>3. ListedWhileConnected'
  BY <1>0 DEF Inv, TypeInv, ListedWhileConnected, Unsubscribe
<1>4. QueueIsNewest'
  BY <1>0, QueueUnchanged DEF TypeInv, Listening
<1>5. SpinOk'
  <2>1. ASSUME NEW t \in Streams, NEW p, Explained(t, p)
        PROVE  Explained(t, p)'
    BY <1>0, <2>1 DEF TypeInv, Explained, Listening
  <2>2. QED
    BY <2>1, SpinUnchanged
<1>6. QED
  BY <1>1, <1>2, <1>3, <1>4, <1>5 DEF Inv

LEMMA ReadKeeps ==
    ASSUME Inv, NEW s \in Streams, Read(s)
    PROVE  Inv'
<1> DEFINE items == queue[s]
           event == Head(items).event
<1>0. TypeInv /\ s \in Streams
  BY DEF Inv
<1>1. /\ items \in Seq(Item) /\ items # <<>> /\ Len(items) \in Nat
      /\ DOMAIN items = 1 .. Len(items) /\ Len(items) >= 1
      /\ Head(items) = items[1]
      /\ Tail(items) \in Seq(Item) /\ Len(Tail(items)) = Len(items) - 1
      /\ DOMAIN Tail(items) = 1 .. Len(items) - 1
      /\ \A i \in 1 .. Len(items) - 1 : Tail(items)[i] = items[i + 1]
  <2>1. items \in Seq(Item) /\ items # <<>>
    BY <1>0 DEF Read, TypeInv
  <2>2. Len(items) \in Nat /\ DOMAIN items = 1 .. Len(items) /\ Len(items) >= 1
    BY <2>1, LenProperties, EmptySeq
  <2>3. QED
    BY <2>1, <2>2, HeadTailProperties, LenProperties
<1>2. event \in Event /\ (event.type = "answered" => event.press \in Presses /\ event.id \in Ids)
  <2>1. items[1] \in Item
    BY <1>1, ElementOfSeq
  <2>2. event \in Event
    BY <1>1, <2>1 DEF Item
  <2>3. QED
    BY <2>2 DEF Event
<1>3. Answers(items) = Answers(Tail(items)) \cup
        (IF event.type = "answered" THEN {event.press} ELSE {})
  <2>1. ASSUME NEW i \in DOMAIN items, items[i].event.type = "answered", i # 1
        PROVE  items[i].event.press \in Answers(Tail(items))
    <3>1. i - 1 \in DOMAIN Tail(items) /\ Tail(items)[i - 1] = items[i]
      BY <1>1, <2>1
    <3>2. QED
      BY <2>1, <3>1 DEF Answers
  <2>2. ASSUME NEW i \in DOMAIN Tail(items), Tail(items)[i].event.type = "answered"
        PROVE  Tail(items)[i].event.press \in Answers(items)
    <3>1. i + 1 \in DOMAIN items /\ Tail(items)[i] = items[i + 1]
      BY <1>1
    <3>2. QED
      BY <2>2, <3>1 DEF Answers
  <2>3. 1 \in DOMAIN items /\ event = items[1].event
    BY <1>1
  <2>4. Answers(Tail(items)) \subseteq Answers(items)
    BY <2>2 DEF Answers
  <2>5. event.type = "answered" => event.press \in Answers(items)
    BY <2>3 DEF Answers
  <2> DEFINE rest == Answers(Tail(items))
  <2> HIDE DEF event, rest
  <2>6. Answers(items) \subseteq rest \cup
            (IF event.type = "answered" THEN {event.press} ELSE {})
    BY <2>1, <2>3 DEF Answers, rest
  <2>7. QED
    BY <2>4, <2>5, <2>6 DEF rest
<1> HIDE DEF event, items
<1>4. /\ queue' = [queue EXCEPT ![s] = Tail(items)]
      /\ stream[s].phase \in {"open", "gone"}
      /\ IF stream[s].phase = "open"
         THEN Handle(s, event) ELSE UNCHANGED <<spin, pending, unheard>>
      /\ UNCHANGED <<registryVars, listed, stream, emitted, flight, call, told, answered>>
  BY DEF Read, event, items
<1>5. TypeInv'
  <2>1. queue' \in [Streams -> Seq(Item)] /\ \A t \in Streams : Len(queue'[t]) <= QueueLimit
    BY <1>0, <1>1, <1>4, QueueLimitAssumption DEF TypeInv, items
  <2>2. /\ spin' \in [Streams -> SUBSET Presses]
        /\ pending' \in [Streams -> PendingMaps]
        /\ unheard' \in [Streams -> SUBSET Presses]
    <3>1. PICK S \in SUBSET Ids : pending[s] \in [S -> Presses]
      BY <1>0 DEF TypeInv, PendingMaps
    <3>2. [i \in DOMAIN pending[s] \ {event.id} |-> pending[s][i]]
                \in [S \ {event.id} -> Presses]
      BY <3>1
    <3>3. [i \in DOMAIN pending[s] \ {event.id} |-> pending[s][i]] \in PendingMaps
      BY <3>2 DEF PendingMaps
    <3>4. <<>> \in PendingMaps
      BY DEF PendingMaps
    <3>5. CASE stream[s].phase # "open"
      BY <1>0, <1>4, <3>5 DEF TypeInv
    <3>6. CASE stream[s].phase = "open" /\ event.type = "answered"
      <4>1. HandleAnswered(s, event) /\ event.press \in Presses
        BY <1>2, <1>4, <3>6 DEF Handle
      <4>2. pending' \in [Streams -> PendingMaps]
        BY <1>0, <3>3, <4>1 DEF TypeInv, HandleAnswered
      <4>3. spin' \in [Streams -> SUBSET Presses]
        BY <1>0, <4>1 DEF TypeInv, HandleAnswered
      <4>4. unheard' \in [Streams -> SUBSET Presses]
        BY <1>0, <4>1 DEF TypeInv, HandleAnswered
      <4>5. QED
        BY <4>2, <4>3, <4>4
    <3>7. CASE stream[s].phase = "open" /\ event.type # "answered"
      BY <1>0, <1>4, <3>4, <3>7 DEF TypeInv, Handle
    <3>8. QED
      BY <3>5, <3>6, <3>7
  <2>3. QED
    BY <1>0, <1>4, <2>1, <2>2 DEF TypeInv, registryVars
<1>6. RegistryOk' /\ NamesOk' /\ FlightOk'
  BY <1>4, RegistryUnchanged, FlightUnchanged DEF registryVars
<1>7. ListedWhileConnected'
  BY <1>4, ListedUnchanged DEF registryVars
<1>8. QueueIsNewest'
  <2>1. ASSUME NEW t \in Streams, Listening(t), NEW i \in DOMAIN queue'[t]
        PROVE  queue'[t][i].n = emitted - Len(queue'[t]) + i
    <3>1. CASE t # s
      BY <1>0, <1>4, <2>1, <3>1 DEF Inv, QueueIsNewest, TypeInv
    <3>2. CASE t = s
      <4>1. queue'[t] = Tail(items)
        BY <1>0, <1>4, <3>2 DEF TypeInv
      <4>2. i \in 1 .. Len(items) - 1 /\ queue'[t][i] = items[i + 1]
        BY <1>1, <2>1, <4>1
      <4>3. i + 1 \in DOMAIN items
        BY <1>1, <4>2
      <4>4. items[i + 1].n = emitted - Len(items) + (i + 1)
        BY <2>1, <3>2, <4>3 DEF Inv, QueueIsNewest, items
      <4>5. emitted \in Nat
        BY <1>0, BoundsAssumption DEF TypeInv
      <4>6. QED
        BY <1>1, <4>1, <4>2, <4>4, <4>5
    <3>3. QED
      BY <3>1, <3>2
  <2>2. QED
    BY <1>4, <2>1 DEF QueueIsNewest, Listening
<1>9. SpinOk'
  <2>1. ASSUME NEW t \in Streams, NEW p \in spin'[t], p \in answered
        PROVE  p \in spin[t] /\ (Explained(t, p) => Explained(t, p)')
    <3>0. Listening(t)' <=> Listening(t)
      BY <1>4 DEF Listening
    <3>1. CASE t # s
      <4>1. spin'[t] = spin[t] /\ unheard'[t] = unheard[t] /\ queue'[t] = queue[t]
        BY <1>0, <1>4, <3>1 DEF TypeInv, Handle, HandleAnswered
      <4>2. QED
        BY <2>1, <3>0, <4>1 DEF Explained
    <3>2. CASE t = s /\ stream[s].phase # "open"
      BY <1>4, <2>1, <3>0, <3>2 DEF Explained, Listening
    <3>3. CASE t = s /\ stream[s].phase = "open"
      <4>1. queue'[t] = Tail(items) /\ queue[t] = items /\ Handle(s, event)
        BY <1>0, <1>4, <3>3 DEF TypeInv, items
      <4>2. CASE event.type = "reset"
        BY <1>0, <2>1, <3>3, <4>1, <4>2 DEF Handle, TypeInv
      <4>3. CASE event.type \in {"message", "journal"}
        <5>1. spin'[t] \subseteq spin[t] /\ unheard' = unheard
          BY <1>0, <3>3, <4>1, <4>3 DEF Handle, TypeInv
        <5>2. Answers(queue'[t]) = Answers(queue[t])
          BY <1>3, <4>1, <4>3
        <5>3. QED
          BY <2>1, <3>0, <5>1, <5>2 DEF Explained
      <4>4. CASE event.type = "answered"
        <5> DEFINE known == event.id \in DOMAIN pending[s]
        <5>1. /\ spin'[t] = IF known THEN spin[t] \ {pending[s][event.id]} ELSE spin[t]
              /\ unheard'[t] = IF known /\ pending[s][event.id] = event.press
                               THEN unheard[t] ELSE unheard[t] \cup {event.press}
          BY <1>0, <3>3, <4>1, <4>4 DEF Handle, HandleAnswered, TypeInv
        <5>2. Answers(queue[t]) = Answers(queue'[t]) \cup {event.press}
          BY <1>3, <4>1, <4>4
        <5>3. QED
          BY <2>1, <3>0, <5>1, <5>2 DEF Explained
      <4>5. event.type \in {"answered", "message", "journal", "reset"}
        BY <1>2 DEF Event
      <4>6. QED
        BY <4>2, <4>3, <4>4, <4>5
    <3>4. QED
      BY <3>1, <3>2, <3>3
  <2>2. QED
    BY <1>4, <2>1, SpinUnchanged
<1>10. QED
  BY <1>5, <1>6, <1>7, <1>8, <1>9 DEF Inv

LEMMA ClickKeeps ==
    ASSUME Inv, NEW s \in Streams, Click(s)
    PROVE  Inv'
<1>0. TypeInv
  BY DEF Inv
<1>1. PICK p \in Presses \ Pressed :
        /\ spin' = [spin EXCEPT ![s] = @ \cup {p}]
        /\ flight' = [flight EXCEPT ![s] =
                        @ \cup {[press |-> p, id |-> 0, ok |-> TRUE]}]
        /\ UNCHANGED <<registryVars, listed, stream, queue, emitted, pending, call,
                       told, answered, unheard>>
  BY DEF Click
<1>2. p \notin answered /\ p \notin ToldPresses
      /\ \A t \in Streams : \A f \in flight[t] : f.press # p
  BY DEF Pressed, ToldPresses
<1>3. TypeInv'
  <2>1. [press |-> p, id |-> 0, ok |-> TRUE] \in Flight
    BY DEF Flight
  <2>2. QED
    BY <1>0, <1>1, <2>1 DEF TypeInv, registryVars
<1>4. RegistryOk' /\ NamesOk'
  BY <1>1, RegistryUnchanged DEF registryVars
<1>5. ListedWhileConnected' /\ QueueIsNewest'
  BY <1>1, ListedUnchanged, QueueUnchanged DEF registryVars, Listening
<1>6. FlightOk'
  <2>1. PICK f : f = [press |-> p, id |-> 0, ok |-> TRUE]
    OBVIOUS
  <2>2. flight' = [flight EXCEPT ![s] = flight[s] \cup {f}] /\ f.press = p
    BY <1>1, <2>1
  <2>3. ToldPresses' = ToldPresses
    BY <1>1 DEF ToldPresses
  <2>4. \A t \in Streams : \A h \in flight[t] :
            h.press = f.press => t = s /\ h \notin flight[s]
    BY <1>2, <2>2
  <2>5. Wins(s, flight[s], f)
    BY <1>2, <2>2, <2>3, <2>4 DEF Wins
  <2>6. QED
    BY <2>5, FlightChanges
<1>7. SpinOk'
  <2>1. ASSUME NEW t \in Streams, NEW q \in spin'[t], q \in answered
        PROVE  q \in spin[t] /\ (Explained(t, q) => Explained(t, q)')
    BY <1>0, <1>1, <1>2, <2>1 DEF TypeInv, Explained, Listening
  <2>2. QED
    BY <1>1, <2>1, SpinUnchanged
<1>8. QED
  BY <1>3, <1>4, <1>5, <1>6, <1>7 DEF Inv

\* A press registered in the live network: query is the record, heard what the
\* bot gets, kept what the sweep leaves, sent the request that has its answer.
Registers(s, f, id, query, heard, sent, kept) ==
    /\ f.id = 0 /\ f.ok
    /\ id = nextId[net] /\ id <= MaxPresses
    /\ query = [id |-> id, press |-> f.press, date |-> now]
    /\ heard = [id |-> id, press |-> f.press, stale |-> FALSE]
    /\ sent = [f EXCEPT !.id = id]
    /\ kept \subseteq callbacks[net] /\ \A r \in kept : r.id # id
    /\ nextId' = [nextId EXCEPT ![net] = id + 1]
    /\ callbacks' = [callbacks EXCEPT ![net] = kept \cup {query}]
    /\ told' = told \cup {heard}
    /\ flight' = [flight EXCEPT ![s] = (@ \ {f}) \cup {sent}]
    /\ UNCHANGED <<net, saved, now, listed, stream, queue, emitted, spin, pending,
                   call, answered, unheard>>

LEMMA Registered ==
    ASSUME Inv, NEW s \in Streams, NEW f \in flight[s], NEW id, NEW query, NEW heard,
           NEW sent, NEW kept, Registers(s, f, id, query, heard, sent, kept)
    PROVE  Inv'
<1> USE DEF Registers
<1>0. TypeInv /\ f \in Flight
  BY DEF Inv, TypeInv
<1>1. /\ id \in 1 .. MaxPresses /\ MaxPresses \in Nat /\ f.press \in Presses
      /\ callbacks[net] \subseteq Query
      /\ query \in Query /\ heard \in Told /\ sent \in Flight
  <2>1. id \in 1 .. MaxPresses /\ MaxPresses \in Nat /\ f.press \in Presses
    BY <1>0, BoundsAssumption DEF TypeInv, Flight
  <2>2. callbacks[net] \subseteq Query
    BY <1>0 DEF TypeInv
  <2>3. QED
    BY <1>0, <2>1, <2>2 DEF Query, Told, Ids, TypeInv, Flight
<1>2. /\ query.id = id /\ query.press = f.press
      /\ heard.id = id /\ heard.press = f.press
      /\ sent.id = id /\ sent.press = f.press
  BY <1>0 DEF Flight
<1>3. f.press \notin ToldPresses
  BY DEF Inv, FlightOk
<1>4. ToldPresses' = ToldPresses \cup {f.press}
  BY <1>2 DEF ToldPresses
<1>5. /\ \A g \in Networks \ {net} :
            callbacks'[g] = callbacks[g] /\ nextId'[g] = nextId[g]
      /\ callbacks'[net] = kept \cup {query} /\ nextId'[net] = id + 1
  BY <1>0 DEF TypeInv
<1>6. TypeInv'
  <2>1. kept \cup {query} \in SUBSET Query /\ id + 1 \in 1 .. MaxPresses + 1
    BY <1>1
  <2>2. QED
    BY <1>0, <1>1, <2>1 DEF TypeInv
<1>7. RegistryOk'
  <2>1. /\ \A r \in callbacks[net] : r.id < id /\ r.press \in ToldPresses
        /\ \A r, t \in callbacks[net] : r.id = t.id \/ r.press = t.press => r = t
    BY <1>0 DEF Inv, RegistryOk, Registry, TypeInv
  <2>2. \A r, t \in kept \cup {query} : r.id = t.id \/ r.press = t.press => r = t
    BY <1>1, <1>2, <1>3, <2>1
  <2>3. \A r \in kept \cup {query} : r.id < id + 1 /\ r.press \in ToldPresses'
    BY <1>1, <1>2, <1>4, <2>1 DEF Query, Ids
  <2>4. Registry(callbacks[net], nextId[net])'
    BY <1>5, <2>2, <2>3 DEF Registry
  <2>5. ASSUME NEW g \in Networks \ {net}
        PROVE  Registry(callbacks[g], nextId[g])'
    <3>1. Registry(callbacks[g], nextId[g])
      BY DEF Inv, RegistryOk
    <3>2. QED
      BY <1>4, <1>5, <3>1 DEF Registry
  <2>6. Registry(saved.callbacks, saved.nextId)'
    <3>1. Registry(saved.callbacks, saved.nextId)
      BY DEF Inv, RegistryOk
    <3>2. QED
      BY <1>4, <3>1 DEF Registry
  <2>7. QED
    BY <2>4, <2>5, <2>6 DEF RegistryOk
<1>8. ASSUME NEW q, NEW g \in Networks, q.id \in Nat, Names(q, g)
      PROVE  Names(q, g)'
  <2>1. CASE g # net
    BY <1>5, <1>8, <2>1 DEF Names
  <2>2. CASE g = net
    <3>1. q.id < id /\ \A r \in kept : r.id = q.id => r.press = q.press
      BY <1>8, <2>2 DEF Names
    <3>2. callbacks'[g] = kept \cup {query} /\ nextId'[g] = id + 1
      BY <1>5, <2>2
    <3>3. QED
      BY <1>1, <1>2, <1>8, <3>1, <3>2 DEF Names
  <2>3. QED
    BY <2>1, <2>2
<1>9. NamesOk'
  <2>1. Names(heard, net)'
    BY <1>1, <1>2, <1>5 DEF Names
  <2>2. ASSUME NEW q \in told', ~q.stale
        PROVE  Names(q, net)'
    <3>1. CASE q = heard
      BY <2>1, <3>1
    <3>2. CASE q \in told
      <4>1. q.id \in Nat /\ net \in Networks
        BY <1>0, <3>2 DEF TypeInv, Told, Ids
      <4>2. Names(q, net)
        BY <2>2, <3>2 DEF Inv, NamesOk
      <4>3. QED
        BY <1>8, <4>1, <4>2 DEF Names
    <3>3. QED
      BY <2>2, <3>1, <3>2
  <2>3. ASSUME NEW c \in Calls, call[c].phase = "received", ~call[c].query.stale
        PROVE  Names(call[c].query, call[c].net)'
    <3>1. call[c] \in Received
      BY <1>0, <2>3 DEF TypeInv
    <3>2. call[c].query.id \in Nat /\ call[c].net \in Networks
      BY <3>1 DEF Received, Told, Ids
    <3>3. Names(call[c].query, call[c].net)
      BY <2>3 DEF Inv, NamesOk
    <3>4. QED
      BY <1>8, <3>2, <3>3 DEF Names
  <2>4. QED
    BY <2>2, <2>3 DEF NamesOk
<1>10. FlightOk'
  <2>1. \A t \in Streams : \A h \in flight[t] :
            h.press = sent.press => t = s /\ h \notin flight[s] \ {f}
    BY <1>2 DEF Inv, FlightOk
  <2>2. ~(sent.id = 0)
    BY <1>1, <1>2
  <2>3. Wins(s, flight[s] \ {f}, sent)
    BY <1>2, <1>4, <2>1, <2>2 DEF Wins
  <2>4. QED
    BY <2>3, FlightChanges
<1>11. ListedWhileConnected' /\ QueueIsNewest' /\ SpinOk'
  BY ListedUnchanged, QueueUnchanged, ExplainedUnchanged DEF Listening
<1>12. QED
  BY <1>6, <1>7, <1>9, <1>10, <1>11 DEF Inv

LEMMA PressKeeps ==
    ASSUME Inv, NEW s \in Streams, NEW f \in flight[s], Press(s, f)
    PROVE  Inv'
<1>0. TypeInv /\ f \in Flight /\ f.id = 0 /\ f.ok
  BY DEF Inv, TypeInv, Press
<1>1. UNCHANGED <<net, saved, now, listed, stream, queue, emitted, spin, pending,
                  call, answered, unheard>>
  BY DEF Press
<1>2. CASE /\ flight' = [flight EXCEPT ![s] = (@ \ {f}) \cup {[f EXCEPT !.ok = FALSE]}]
           /\ UNCHANGED <<callbacks, nextId, told>>
  <2>1. PICK lost : lost = [f EXCEPT !.ok = FALSE]
    OBVIOUS
  <2>2. lost \in Flight /\ lost.press = f.press /\ lost.ok = FALSE
    BY <1>0, <2>1 DEF Flight
  <2>3. TypeInv'
    BY <1>0, <1>1, <1>2, <2>1, <2>2 DEF TypeInv
  <2>4. RegistryOk' /\ NamesOk' /\ ListedWhileConnected' /\ QueueIsNewest' /\ SpinOk'
    BY <1>1, <1>2, RegistryUnchanged, ListedUnchanged, QueueUnchanged,
       ExplainedUnchanged DEF Listening
  <2>5. FlightOk'
    <3>1. ToldPresses' = ToldPresses
      BY <1>2 DEF ToldPresses
    <3>2. \A t \in Streams : \A h \in flight[t] :
            h.press = lost.press => t = s /\ h \notin flight[s] \ {f}
      BY <2>2 DEF Inv, FlightOk
    <3>3. Wins(s, flight[s] \ {f}, lost)
      BY <1>2, <2>1, <2>2, <3>1, <3>2 DEF Wins
    <3>4. QED
      BY <3>3, FlightChanges
  <2>6. QED
    BY <2>3, <2>4, <2>5 DEF Inv
<1>3. CASE /\ nextId[net] <= MaxPresses
           /\ nextId' = [nextId EXCEPT ![net] = nextId[net] + 1]
           /\ callbacks' = [callbacks EXCEPT ![net] =
                {r \in Swept(@) : r.id # nextId[net]} \cup
                {[id |-> nextId[net], press |-> f.press, date |-> now]}]
           /\ told' = told \cup
                {[id |-> nextId[net], press |-> f.press, stale |-> FALSE]}
           /\ flight' = [flight EXCEPT ![s] =
                (@ \ {f}) \cup {[f EXCEPT !.id = nextId[net]]}]
  <2>1. PICK id, query, heard, sent, kept :
            /\ id = nextId[net]
            /\ query = [id |-> id, press |-> f.press, date |-> now]
            /\ heard = [id |-> id, press |-> f.press, stale |-> FALSE]
            /\ sent = [f EXCEPT !.id = id]
            /\ kept = {r \in Swept(callbacks[net]) : r.id # id}
    OBVIOUS
  <2>2. kept \in SUBSET callbacks[net] /\ \A r \in kept : r.id # id
    BY <2>1 DEF Swept
  <2>3. Registers(s, f, id, query, heard, sent, kept)
    BY <1>0, <1>1, <1>3, <2>1, <2>2 DEF Registers
  <2>4. QED
    BY <2>3, Registered
<1>4. QED
  BY <1>2, <1>3 DEF Press, NewId

LEMMA PressReturnsKeeps ==
    ASSUME Inv, NEW s \in Streams, NEW f \in flight[s], PressReturns(s, f)
    PROVE  Inv'
<1>0. TypeInv /\ f \in Flight
  BY DEF Inv, TypeInv
<1>1. /\ flight' = [flight EXCEPT ![s] = @ \ {f}]
      /\ UNCHANGED <<registryVars, listed, stream, queue, emitted, call, told,
                     answered, unheard>>
  BY DEF PressReturns
<1>2. pending' \in [Streams -> PendingMaps] /\ spin' \in [Streams -> SUBSET Presses]
      /\ \A t \in Streams : spin'[t] \subseteq spin[t]
  <2>1. CASE f.ok
    <3> DEFINE grown == [i \in DOMAIN pending[s] \cup {f.id} |->
                            IF i = f.id THEN f.press ELSE pending[s][i]]
    <3>1. f.id \in Ids /\ f.press \in Presses
      BY <1>0, <2>1 DEF PressReturns, Flight
    <3>2. PICK S \in SUBSET Ids : pending[s] \in [S -> Presses]
      BY <1>0 DEF TypeInv, PendingMaps
    <3>3. grown \in [S \cup {f.id} -> Presses]
      BY <3>1, <3>2
    <3>4. grown \in PendingMaps
      BY <3>1, <3>3 DEF PendingMaps
    <3>5. pending' = [pending EXCEPT ![s] = grown] /\ spin' = spin
      BY <2>1 DEF PressReturns
    <3> HIDE DEF grown
    <3>6. QED
      BY <1>0, <3>4, <3>5 DEF TypeInv
  <2>2. CASE ~f.ok
    BY <1>0, <2>2 DEF PressReturns, TypeInv
  <2>3. QED
    BY <2>1, <2>2
<1>3. TypeInv'
  BY <1>0, <1>1, <1>2 DEF TypeInv, registryVars
<1>4. RegistryOk' /\ NamesOk'
  BY <1>1, RegistryUnchanged DEF registryVars
<1>5. ListedWhileConnected' /\ QueueIsNewest'
  BY <1>1, ListedUnchanged, QueueUnchanged DEF registryVars, Listening
<1>6. FlightOk'
  BY <1>0, <1>1 DEF Inv, FlightOk, TypeInv, ToldPresses
<1>7. SpinOk'
  BY <1>1, <1>2, SpinUnchanged DEF Explained, Listening
<1>8. QED
  BY <1>3, <1>4, <1>5, <1>6, <1>7 DEF Inv

\* An event is announced in the live network or in an older one.
LEMMA EmitKeeps ==
    ASSUME Inv, NEW g \in Networks, NEW events \in Seq(Event), Emit(g, events),
           UNCHANGED <<stream>>
    PROVE  /\ emitted' \in 0 .. MaxEvents
           /\ queue' \in [Streams -> Seq(Item)]
           /\ \A s \in Streams : Len(queue'[s]) <= QueueLimit
           /\ unheard' \in [Streams -> SUBSET Presses]
           /\ QueueIsNewest'
           /\ \A s \in Streams : \A p \in Presses : Explained(s, p) => Explained(s, p)'
           /\ \A s \in Streams : \A i \in DOMAIN events :
                events[i].type = "answered" => Explained(s, events[i].press)'
<1>1. PICK live \in BOOLEAN : live = (g = net)
  OBVIOUS
<1>2. listed[g] = Readers(live)
  BY <1>1 DEF Inv, ListedWhileConnected, Readers
<1>3. Offer(live, Readers(live), events)
  BY <1>1, <1>2 DEF Emit
<1>4. TypeInv /\ QueueIsNewest
  BY DEF Inv
<1>5. QED
  BY <1>3, <1>4, OfferKeeps

LEMMA EventsAreTyped ==
    /\ Journal \in Seq(Event)
    /\ <<[type |-> "message"]>> \o Journal \in Seq(Event)
    /\ <<>> \o Journal \in Seq(Event)
    /\ <<[type |-> "reset"]>> \in Seq(Event)
    /\ \A r \in Query : /\ Announce(r) \o Journal \in Seq(Event)
                        /\ 1 \in DOMAIN (Announce(r) \o Journal)
                        /\ (Announce(r) \o Journal)[1].type = "answered"
                        /\ (Announce(r) \o Journal)[1].press = r.press
<1>1. Journal \in Seq(Event) /\ Len(Journal) = 1
  BY DEF Journal, Event
<1>2. <<[type |-> "message"]>> \in Seq(Event) /\ <<[type |-> "reset"]>> \in Seq(Event)
      /\ <<>> \in Seq(Event)
  BY DEF Event
<1>3. ASSUME NEW r \in Query
      PROVE  /\ Announce(r) \o Journal \in Seq(Event)
             /\ 1 \in DOMAIN (Announce(r) \o Journal)
             /\ (Announce(r) \o Journal)[1].type = "answered"
             /\ (Announce(r) \o Journal)[1].press = r.press
  <2>1. PICK e \in Event : e = [type |-> "answered", id |-> r.id, press |-> r.press]
    BY DEF Event, Query
  <2>2. Announce(r) = <<e>>
    BY <2>1 DEF Announce
  <2>3. <<e>> \in Seq(Event) /\ Len(<<e>>) = 1 /\ <<e>>[1] = e
    OBVIOUS
  <2>4. /\ <<e>> \o Journal \in Seq(Event)
        /\ Len(<<e>> \o Journal) = 2 /\ (<<e>> \o Journal)[1] = e
    BY <1>1, <2>3, ConcatProperties
  <2>5. DOMAIN (<<e>> \o Journal) = 1 .. 2
    BY <2>4, LenProperties
  <2>6. QED
    BY <2>1, <2>2, <2>4, <2>5
<1>4. QED
  BY <1>1, <1>2, <1>3, ConcatProperties

LEMMA BotCallKeeps ==
    ASSUME Inv, NEW events, events \in {<<[type |-> "message"]>>, <<>>}, BotCall(events)
    PROVE  Inv'
<1>0. TypeInv /\ net \in Networks
  BY DEF Inv, TypeInv
<1>1. /\ Emit(net, events \o Journal)
      /\ UNCHANGED <<registryVars, listed, stream, tabVars, call, told, answered>>
  BY DEF BotCall
<1>2. events \o Journal \in Seq(Event)
  BY EventsAreTyped
<1>3. /\ emitted' \in 0 .. MaxEvents
      /\ queue' \in [Streams -> Seq(Item)]
      /\ \A s \in Streams : Len(queue'[s]) <= QueueLimit
      /\ unheard' \in [Streams -> SUBSET Presses]
      /\ QueueIsNewest'
      /\ \A s \in Streams : \A p \in Presses : Explained(s, p) => Explained(s, p)'
  BY <1>0, <1>1, <1>2, EmitKeeps
<1>4. TypeInv'
  BY <1>0, <1>1, <1>3 DEF TypeInv, registryVars, tabVars
<1>5. RegistryOk' /\ NamesOk' /\ FlightOk' /\ ListedWhileConnected'
  BY <1>1, RegistryUnchanged, FlightUnchanged, ListedUnchanged DEF registryVars, tabVars
<1>6. SpinOk'
  <2>1. \A s \in Streams : \A p \in spin'[s] : p \in Presses /\ p \in spin[s]
    BY <1>0, <1>1 DEF TypeInv, tabVars
  <2>2. QED
    BY <1>1, <1>3, <2>1, SpinUnchanged
<1>7. QED
  BY <1>3, <1>4, <1>5, <1>6 DEF Inv

LEMMA AnswerReceivedKeeps ==
    ASSUME Inv, NEW c \in Calls, NEW q \in told, AnswerReceived(c, q)
    PROVE  Inv'
<1>0. TypeInv
  BY DEF Inv
<1>1. /\ call' = [call EXCEPT ![c] = [phase |-> "received", net |-> net, query |-> q]]
      /\ UNCHANGED <<net, callbacks, nextId, saved, now, listed, stream, queue, emitted,
                     spin, flight, pending, told, answered, unheard>>
  BY DEF AnswerReceived, registryVars, tabVars
<1>2. TypeInv'
  <2>1. [phase |-> "received", net |-> net, query |-> q] \in Received
    BY <1>0 DEF TypeInv, Received
  <2>2. QED
    BY <1>0, <1>1, <2>1 DEF TypeInv
<1>3. RegistryOk'
  BY <1>1 DEF Inv, RegistryOk, Registry, ToldPresses
<1>4. NamesOk'
  <2>1. \A d \in Calls : call'[d] = IF d = c
            THEN [phase |-> "received", net |-> net, query |-> q] ELSE call[d]
    BY <1>0, <1>1 DEF TypeInv
  <2>2. QED
    BY <1>1, <2>1 DEF Inv, NamesOk, Names
<1>5. FlightOk' /\ ListedWhileConnected' /\ QueueIsNewest' /\ SpinOk'
  BY <1>1, FlightUnchanged, ListedUnchanged, QueueUnchanged, ExplainedUnchanged
     DEF Listening
<1>6. QED
  BY <1>2, <1>3, <1>4, <1>5 DEF Inv

\* Registries that only lose records.
LEMMA RegistryShrinks ==
    ASSUME Inv, callbacks' \in [Networks -> SUBSET Query],
           \A g \in Networks : callbacks'[g] \subseteq callbacks[g],
           UNCHANGED <<net, nextId, saved, told>>,
           \A c \in Calls : call'[c] = call[c] \/ call'[c].phase = "idle"
    PROVE  RegistryOk' /\ NamesOk'
<1>1. RegistryOk'
  BY DEF Inv, RegistryOk, Registry, ToldPresses
<1>2. ASSUME NEW q, NEW g \in Networks, Names(q, g)
      PROVE  Names(q, g)'
  BY <1>2 DEF Names
<1>3. net \in Networks /\ \A c \in Calls : call[c].phase = "received" => call[c].net \in Networks
  BY DEF Inv, TypeInv, Received
<1>4. ASSUME NEW q \in told', ~q.stale
      PROVE  Names(q, net)'
  <2>1. Names(q, net)
    BY <1>4 DEF Inv, NamesOk
  <2>2. QED
    BY <1>2, <1>3, <2>1 DEF Names
<1>5. ASSUME NEW c \in Calls, call'[c].phase = "received", ~call'[c].query.stale
      PROVE  Names(call[c].query, call[c].net)'
  <2>1. call'[c] = call[c]
    BY <1>5
  <2>2. Names(call[c].query, call[c].net) /\ call[c].net \in Networks
    BY <1>3, <1>5, <2>1 DEF Inv, NamesOk
  <2>3. QED
    BY <1>2, <2>1, <2>2 DEF Names
<1>6. QED
  BY <1>1, <1>4, <1>5 DEF NamesOk

LEMMA AnswerHandledKeeps ==
    ASSUME Inv, NEW c \in Calls, AnswerHandled(c)
    PROVE  Inv'
<1>0. TypeInv /\ call[c] \in Received
  BY DEF Inv, TypeInv, AnswerHandled
<1>net. PICK g \in Networks : g = call[c].net
  BY <1>0 DEF Received
<1>1. PICK records, found :
        /\ records = Swept(callbacks[g])
        /\ found = {r \in records : r.id = call[c].query.id}
  OBVIOUS
<1>2. /\ callbacks' = [callbacks EXCEPT ![g] = records \ found]
      /\ answered' = answered \cup {r.press : r \in found}
      /\ \/ found = {} /\ Emit(g, Journal)
         \/ \E r \in found : Emit(g, Announce(r) \o Journal)
      /\ call' = [call EXCEPT ![c] = [phase |-> "idle"]]
      /\ UNCHANGED <<net, nextId, saved, now, listed, stream, spin, flight, pending, told>>
  BY <1>net, <1>1 DEF AnswerHandled, tabVars
<1>3. found \subseteq callbacks[g] /\ records \subseteq callbacks[g]
      /\ callbacks[g] \subseteq Query
  BY <1>0, <1>1 DEF Swept, TypeInv
<1>4. \A r, t \in found : r = t
  BY <1>1, <1>3 DEF Inv, RegistryOk, Registry
<1>5. /\ emitted' \in 0 .. MaxEvents
      /\ queue' \in [Streams -> Seq(Item)]
      /\ \A s \in Streams : Len(queue'[s]) <= QueueLimit
      /\ unheard' \in [Streams -> SUBSET Presses]
      /\ QueueIsNewest'
      /\ \A s \in Streams : \A p \in Presses : Explained(s, p) => Explained(s, p)'
      /\ \A s \in Streams : \A r \in found : Explained(s, r.press)'
  <2>1. CASE found = {} /\ Emit(g, Journal)
    BY <1>2, <2>1, EmitKeeps, EventsAreTyped
  <2>2. ASSUME NEW r \in found, Emit(g, Announce(r) \o Journal)
        PROVE  /\ emitted' \in 0 .. MaxEvents
               /\ queue' \in [Streams -> Seq(Item)]
               /\ \A s \in Streams : Len(queue'[s]) <= QueueLimit
               /\ unheard' \in [Streams -> SUBSET Presses]
               /\ QueueIsNewest'
               /\ \A s \in Streams : \A p \in Presses :
                    Explained(s, p) => Explained(s, p)'
               /\ \A s \in Streams : Explained(s, r.press)'
    <3>1. PICK events \in Seq(Event) :
            /\ events = Announce(r) \o Journal
            /\ 1 \in DOMAIN events
            /\ events[1].type = "answered" /\ events[1].press = r.press
      BY <1>3, EventsAreTyped
    <3>2. Emit(g, events) /\ UNCHANGED stream
      BY <1>2, <2>2, <3>1
    <3>3. QED
      BY <3>1, <3>2, EmitKeeps
  <2>3. QED
    BY <1>2, <1>4, <2>1, <2>2
<1>6. callbacks' \in [Networks -> SUBSET Query]
      /\ \A h \in Networks : callbacks'[h] \subseteq callbacks[h]
  BY <1>0, <1>2, <1>3 DEF TypeInv
<1>7. TypeInv'
  <2>1. answered' \in SUBSET Presses
    BY <1>0, <1>2, <1>3 DEF TypeInv, Query
  <2>2. call' \in [Calls -> {[phase |-> "idle"]} \cup Received]
    BY <1>0, <1>2 DEF TypeInv
  <2>3. QED
    BY <1>0, <1>2, <1>5, <1>6, <2>1, <2>2 DEF TypeInv
<1>8. RegistryOk' /\ NamesOk'
  <2>1. \A d \in Calls : call'[d] = call[d] \/ call'[d].phase = "idle"
    BY <1>0, <1>2 DEF TypeInv
  <2>2. QED
    BY <1>2, <1>6, <2>1, RegistryShrinks
<1>9. FlightOk' /\ ListedWhileConnected'
  BY <1>2, FlightUnchanged, ListedUnchanged
<1>10. SpinOk'
  <2>1. ASSUME NEW s \in Streams, NEW p \in spin'[s], p \in answered'
        PROVE  Explained(s, p)'
    <3>1. p \in spin[s] /\ p \in Presses
      BY <1>0, <1>2 DEF TypeInv
    <3>2. CASE p \in answered
      BY <1>5, <3>1, <3>2 DEF Inv, SpinOk
    <3>3. CASE p \notin answered
      BY <1>2, <1>5, <2>1, <3>3
    <3>4. QED
      BY <3>2, <3>3
  <2>2. QED
    BY <2>1 DEF SpinOk
<1>11. QED
  BY <1>5, <1>7, <1>8, <1>9, <1>10 DEF Inv

\* The bots keep the press of a query that becomes stale.
LEMMA StaleIs ==
    ASSUME NEW q \in Told
    PROVE  /\ Stale(q) \in Told /\ Stale(q).stale
           /\ Stale(q).id = q.id /\ Stale(q).press = q.press
BY DEF Stale, Told

LEMMA AllStale ==
    ASSUME TypeInv, told' = {Stale(q) : q \in told}
    PROVE  told' \in SUBSET Told /\ ToldPresses' = ToldPresses /\ \A q \in told' : q.stale
<1>1. told \subseteq Told
  BY DEF TypeInv
<1>2. ToldPresses' = {Stale(q).press : q \in told}
  BY DEF ToldPresses
<1>3. QED
  BY <1>1, <1>2, StaleIs DEF ToldPresses

LEMMA ResetKeeps == Inv /\ Reset => Inv'
<1> SUFFICES ASSUME Inv, Reset
             PROVE  Inv'
  OBVIOUS
<1>0. TypeInv
  BY DEF Inv
<1>1. /\ net' = net + 1 /\ net + 1 \in Networks /\ net + 1 # net
      /\ listed' = [listed EXCEPT ![net + 1] = listed[net], ![net] = {}]
      /\ Offer(TRUE, listed'[net + 1], <<[type |-> "reset"]>>)
      /\ told' = {Stale(q) : q \in told}
      /\ UNCHANGED <<callbacks, nextId, saved, now, stream, spin, flight, pending, call,
                     answered>>
  <2>1. net + 1 \in Networks /\ net + 1 # net
    BY <1>0, BoundsAssumption DEF Reset, Networks, TypeInv
  <2>2. QED
    BY <2>1 DEF Reset, ListedAfterReset, tabVars
<1>2. /\ listed' \in [Networks -> SUBSET Streams]
      /\ \A g \in Networks : listed'[g] =
            IF g = net + 1 THEN listed[net] ELSE IF g = net THEN {} ELSE listed[g]
  BY <1>0, <1>1 DEF TypeInv
<1>3. ListedWhileConnected'
  BY <1>0, <1>1, <1>2 DEF Inv, TypeInv, ListedWhileConnected
<1>4. listed'[net + 1] = Readers(TRUE)
  BY <1>0, <1>1, <1>2 DEF Inv, TypeInv, ListedWhileConnected, Readers
<1>5. /\ emitted' \in 0 .. MaxEvents
      /\ queue' \in [Streams -> Seq(Item)]
      /\ \A s \in Streams : Len(queue'[s]) <= QueueLimit
      /\ unheard' \in [Streams -> SUBSET Presses]
      /\ QueueIsNewest'
      /\ \A s \in Streams : \A p \in Presses : Explained(s, p) => Explained(s, p)'
  <2>1. PICK events \in Seq(Event) : events = <<[type |-> "reset"]>>
    BY EventsAreTyped
  <2>2. Offer(TRUE, Readers(TRUE), events) /\ UNCHANGED stream
    BY <1>1, <1>4, <2>1
  <2>3. QueueIsNewest
    BY DEF Inv
  <2>4. QED
    BY <1>0, <2>2, <2>3, OfferKeeps
<1>6. told' \in SUBSET Told /\ ToldPresses' = ToldPresses /\ \A q \in told' : q.stale
  BY <1>0, <1>1, AllStale
<1>7. TypeInv'
  BY <1>0, <1>1, <1>2, <1>5, <1>6 DEF TypeInv
<1>8. RegistryOk' /\ FlightOk'
  BY <1>1, <1>6 DEF Inv, RegistryOk, Registry, FlightOk
<1>9. NamesOk'
  BY <1>1, <1>6 DEF Inv, NamesOk, Names
<1>10. SpinOk'
  <2>1. \A s \in Streams : \A p \in spin'[s] : p \in Presses /\ p \in spin[s]
    BY <1>0, <1>1 DEF TypeInv
  <2>2. QED
    BY <1>1, <1>5, <2>1, SpinUnchanged
<1>11. QED
  BY <1>3, <1>5, <1>7, <1>8, <1>9, <1>10 DEF Inv

LEMMA SnapshotKeeps == Inv /\ Snapshot => Inv'
<1> SUFFICES ASSUME Inv, Snapshot
             PROVE  Inv'
  OBVIOUS
<1>0. TypeInv /\ net \in Networks
  BY DEF Inv, TypeInv
<1>1. /\ saved' = [callbacks |-> callbacks[net], nextId |-> nextId[net]]
      /\ UNCHANGED <<net, callbacks, nextId, listed, now, stream, queue, emitted, spin,
                     flight, pending, call, told, answered, unheard>>
  BY DEF Snapshot, tabVars
<1>2. TypeInv'
  BY <1>0, <1>1 DEF TypeInv
<1>3. RegistryOk'
  BY <1>0, <1>1 DEF Inv, RegistryOk, Registry, ToldPresses
<1>4. NamesOk'
  BY <1>1 DEF Inv, NamesOk, Names
<1>5. FlightOk' /\ ListedWhileConnected' /\ QueueIsNewest' /\ SpinOk'
  BY <1>1, FlightUnchanged, ListedUnchanged, QueueUnchanged, ExplainedUnchanged
     DEF Listening
<1>6. QED
  BY <1>2, <1>3, <1>4, <1>5 DEF Inv

LEMMA RestoreKeeps == Inv /\ Restore => Inv'
<1> SUFFICES ASSUME Inv, Restore
             PROVE  Inv'
  OBVIOUS
<1>0. TypeInv /\ net \in Networks
  BY DEF Inv, TypeInv
<1>1. /\ callbacks' = [callbacks EXCEPT ![net] = saved.callbacks]
      /\ nextId' = [nextId EXCEPT ![net] = saved.nextId]
      /\ told' = {Stale(q) : q \in told}
      /\ call' = [c \in Calls |->
            IF call[c].phase = "received" /\ call[c].net = net
            THEN [call[c] EXCEPT !.query = Stale(@)] ELSE call[c]]
      /\ UNCHANGED <<net, saved, now, listed, stream, queue, emitted, spin, flight,
                     pending, answered, unheard>>
  BY DEF Restore, tabVars
<1>2. told' \in SUBSET Told /\ ToldPresses' = ToldPresses /\ \A q \in told' : q.stale
  BY <1>0, <1>1, AllStale
<1>3. \A g \in Networks :
        /\ callbacks'[g] = IF g = net THEN saved.callbacks ELSE callbacks[g]
        /\ nextId'[g] = IF g = net THEN saved.nextId ELSE nextId[g]
  BY <1>0, <1>1 DEF TypeInv
<1>4. ASSUME NEW c \in Calls, call[c].phase = "received", call[c].net = net
      PROVE  call'[c] \in Received /\ call'[c].query.stale
  <2>1. call[c] \in Received /\ call[c].query \in Told
    BY <1>0, <1>4 DEF TypeInv, Received
  <2>2. call'[c] = [call[c] EXCEPT !.query = Stale(call[c].query)]
    BY <1>1, <1>4
  <2>3. Stale(call[c].query) \in Told /\ Stale(call[c].query).stale
    BY <2>1, StaleIs
  <2>4. QED
    BY <2>1, <2>2, <2>3 DEF Received
<1>5. ASSUME NEW c \in Calls, ~(call[c].phase = "received" /\ call[c].net = net)
      PROVE  call'[c] = call[c]
  BY <1>1, <1>5
<1>6. TypeInv'
  <2>1. callbacks' \in [Networks -> SUBSET Query]
        /\ nextId' \in [Networks -> 1 .. MaxPresses + 1]
    BY <1>0, <1>1 DEF TypeInv
  <2>2. ASSUME NEW c \in Calls
        PROVE  call'[c] \in {[phase |-> "idle"]} \cup Received
    <3>1. call[c] \in {[phase |-> "idle"]} \cup Received
      BY <1>0 DEF TypeInv
    <3>2. QED
      BY <1>4, <1>5, <3>1
  <2>3. call' \in [Calls -> {[phase |-> "idle"]} \cup Received]
    BY <1>1, <2>2
  <2>4. QED
    BY <1>0, <1>1, <1>2, <2>1, <2>3 DEF TypeInv
<1>7. RegistryOk'
  BY <1>1, <1>2, <1>3 DEF Inv, RegistryOk, Registry
<1>8. NamesOk'
  <2>1. ASSUME NEW c \in Calls, call'[c].phase = "received", ~call'[c].query.stale
        PROVE  Names(call[c].query, call[c].net)' /\ call'[c] = call[c]
    <3>1. call'[c] = call[c]
      BY <1>4, <1>5, <2>1
    <3>2. call[c].net # net
      BY <1>4, <2>1, <3>1
    <3>3. call[c].net \in Networks /\ Names(call[c].query, call[c].net)
      BY <1>0, <2>1, <3>1 DEF Inv, NamesOk, TypeInv, Received
    <3>4. QED
      BY <1>3, <3>1, <3>2, <3>3 DEF Names
  <2>2. QED
    BY <1>1, <1>2, <2>1 DEF NamesOk
<1>9. FlightOk'
  BY <1>1, <1>2 DEF Inv, FlightOk
<1>10. ListedWhileConnected' /\ QueueIsNewest' /\ SpinOk'
  BY <1>1, ListedUnchanged, QueueUnchanged, ExplainedUnchanged DEF Listening
<1>11. QED
  BY <1>6, <1>7, <1>8, <1>9, <1>10 DEF Inv

LEMMA StutterKeeps == Inv /\ UNCHANGED vars => Inv'
<1> SUFFICES ASSUME Inv, UNCHANGED vars
             PROVE  Inv'
  OBVIOUS
<1> USE DEF vars, registryVars, tabVars
<1>1. TypeInv'
  BY DEF Inv, TypeInv
<1>2. QED
  BY <1>1, RegistryUnchanged, FlightUnchanged, ListedUnchanged, QueueUnchanged,
     ExplainedUnchanged DEF Inv, Listening

LEMMA InvNext == Inv /\ [Next]_vars => Inv'
<1> SUFFICES ASSUME Inv, [Next]_vars
             PROVE  Inv'
  OBVIOUS
<1>1. CASE \E s \in Streams : \/ Connect(s) \/ StreamStarts(s) \/ StreamDrops(s)
                              \/ StreamEnds(s) \/ Read(s) \/ Click(s)
  BY <1>1, ConnectKeeps, StreamStartsKeeps, StreamDropsKeeps, StreamEndsKeeps,
     ReadKeeps, ClickKeeps
<1>2. CASE \E s \in Streams : \E f \in flight[s] : Press(s, f) \/ PressReturns(s, f)
  BY <1>2, PressKeeps, PressReturnsKeeps
<1>3. CASE BotCall(<<[type |-> "message"]>>) \/ BotCall(<<>>)
  BY <1>3, BotCallKeeps
<1>4. CASE \E c \in Calls : AnswerHandled(c) \/ \E q \in told : AnswerReceived(c, q)
  BY <1>4, AnswerHandledKeeps, AnswerReceivedKeeps
<1>5. CASE Tick \/ Reset \/ Snapshot \/ Restore \/ UNCHANGED vars
  BY <1>5, TickKeeps, ResetKeeps, SnapshotKeeps, RestoreKeeps, StutterKeeps
<1>6. QED
  BY <1>1, <1>2, <1>3, <1>4, <1>5 DEF Next

LEMMA Invariance == Spec => []Inv
BY InvInit, InvNext, PTL DEF Spec

-----------------------------------------------------------------------------
LEMMA InvImpliesType == Inv => TypeOK
<1> SUFFICES ASSUME Inv
             PROVE  TypeOK
  OBVIOUS
<1>1. TypeInv
  BY DEF Inv
<1>2. ASSUME NEW s \in Streams
      PROVE  /\ queue[s] \in Seq(Item) /\ Len(queue[s]) <= QueueLimit
             /\ pending[s] \in [DOMAIN pending[s] -> Presses]
             /\ DOMAIN pending[s] \subseteq Ids
  <2>1. PICK S \in SUBSET Ids : pending[s] \in [S -> Presses]
    BY <1>1 DEF TypeInv, PendingMaps
  <2>2. QED
    BY <1>1, <2>1 DEF TypeInv
<1>3. ASSUME NEW c \in Calls
      PROVE  call[c] = [phase |-> "idle"] \/
                /\ call[c].phase = "received" /\ call[c].net \in Networks
                /\ call[c].query \in Told
  BY <1>1 DEF TypeInv, Received
<1>4. QED
  BY <1>1, <1>2, <1>3 DEF TypeInv, TypeOK, Flight

(* Type correctness of the registries, the queues and the tabs; a queue is  *)
(* never longer than SSE_QUEUE_LIMIT (network.py:180).                      *)
THEOREM StreamType == Spec => []TypeOK
BY Invariance, InvImpliesType, PTL

(* The list of the live network has exactly the queues of the generators    *)
(* that have not ended, through any resets (network.py:293).               *)
THEOREM ConnectedAreListed == Spec => []ListedWhileConnected
<1>1. Inv => ListedWhileConnected
  BY DEF Inv
<1>2. QED
  BY <1>1, Invariance, PTL

(* A queue has the newest events, without a gap and in order, for any size. *)
THEOREM QueuesHoldTheNewest == Spec => []QueueIsNewest
<1>1. Inv => QueueIsNewest
  BY DEF Inv
<1>2. QED
  BY <1>1, Invariance, PTL

(* A query id that a bot holds names its query or none (network.py:213).    *)
THEOREM IdsAreUnambiguous == Spec => []IdsNameOneQuery
<1>1. Inv => IdsNameOneQuery
  BY DEF Inv, RegistryOk, Registry, NamesOk, Names, IdsNameOneQuery
<1>2. QED
  BY <1>1, Invariance, PTL

(* A button that spins has a reason that onInline or connectEvents names.   *)
THEOREM SpinnersHaveReasons == Spec => []SpinnersAreExplained
<1>1. Inv => SpinnersAreExplained
  BY DEF Inv, SpinOk, Explained, SpinnersAreExplained
<1>2. QED
  BY <1>1, Invariance, PTL

-----------------------------------------------------------------------------
\* How a record may leave its registry.
Leaves(g, r) ==
    \/ g = net /\ Restoring
    \/ IF now - r.date > TTL THEN r.press \notin answered' \ answered
                             ELSE r.press \in answered'

LEMMA PressSweeps ==
    ASSUME Inv, NEW s \in Streams, NEW f \in flight[s], Press(s, f),
           NEW g \in Networks, NEW r \in callbacks[g] \ callbacks'[g]
    PROVE  Leaves(g, r)
<1>0. TypeInv
  BY DEF Inv
<1>1. /\ answered' = answered
      /\ \/ callbacks' = callbacks
         \/ callbacks' = [callbacks EXCEPT ![net] =
                {t \in Swept(@) : t.id # nextId[net]} \cup
                {[id |-> nextId[net], press |-> f.press, date |-> now]}]
  BY DEF Press, NewId
<1>2. r.id < nextId[g] /\ r \in Query /\ nextId[g] \in Nat
  BY <1>0, BoundsAssumption DEF Inv, RegistryOk, Registry, TypeInv
<1>3. r \notin Swept(callbacks[g])
  <2>1. g = net /\ callbacks'[g] = {t \in Swept(callbacks[g]) : t.id # nextId[g]} \cup
                {[id |-> nextId[g], press |-> f.press, date |-> now]}
    BY <1>0, <1>1 DEF TypeInv
  <2>2. r.id # nextId[g]
    BY <1>2 DEF Query, Ids
  <2>3. QED
    BY <2>1, <2>2
<1>4. now - r.date > TTL
  BY <1>0, <1>2, <1>3, BoundsAssumption DEF Swept, Query, TypeInv
<1>5. QED
  BY <1>1, <1>4 DEF Leaves

LEMMA AnswerSweeps ==
    ASSUME Inv, NEW c \in Calls, AnswerHandled(c),
           NEW g \in Networks, NEW r \in callbacks[g] \ callbacks'[g]
    PROVE  Leaves(g, r)
<1>0. TypeInv /\ call[c] \in Received
  BY DEF Inv, TypeInv, AnswerHandled
<1>net. PICK h \in Networks : h = call[c].net
  BY <1>0 DEF Received
<1>1. PICK records, found :
        /\ records = Swept(callbacks[h])
        /\ found = {t \in records : t.id = call[c].query.id}
  OBVIOUS
<1>2. /\ callbacks' = [callbacks EXCEPT ![h] = records \ found]
      /\ answered' = answered \cup {t.press : t \in found}
  BY <1>net, <1>1 DEF AnswerHandled
<1>3. g = h /\ callbacks'[g] = records \ found /\ found \subseteq records
      /\ records \subseteq callbacks[g]
  BY <1>0, <1>1, <1>2 DEF TypeInv, Swept
<1>4. r \in Query /\ r.date \in Nat /\ now \in Nat /\ TTL \in Nat
  BY <1>0, BoundsAssumption DEF TypeInv, Query
<1>5. CASE now - r.date > TTL
  <2>1. r \notin records
    BY <1>1, <1>3, <1>4, <1>5 DEF Swept
  <2>2. \A t \in found : t.press # r.press
    BY <1>3, <2>1 DEF Inv, RegistryOk, Registry
  <2>3. r.press \notin answered' \ answered
    BY <1>2, <2>2
  <2>4. QED
    BY <1>5, <2>3 DEF Leaves
<1>6. CASE ~(now - r.date > TTL)
  <2>1. r \in records
    BY <1>1, <1>3, <1>4, <1>6 DEF Swept
  <2>2. r \in found
    BY <1>3, <2>1
  <2>3. r.press \in answered'
    BY <1>2, <2>2
  <2>4. QED
    BY <1>6, <2>3 DEF Leaves
<1>7. QED
  BY <1>5, <1>6

LEMMA QueriesLeave ==
    ASSUME Inv, [Next]_vars, NEW g \in Networks, NEW r \in callbacks[g] \ callbacks'[g]
    PROVE  Leaves(g, r)
<1>1. ASSUME UNCHANGED callbacks
      PROVE  FALSE
  BY <1>1
<1>2. CASE \E s \in Streams : \/ Connect(s) \/ StreamStarts(s) \/ StreamDrops(s)
                              \/ StreamEnds(s) \/ Read(s) \/ Click(s)
  BY <1>1, <1>2 DEF Connect, StreamStarts, StreamDrops, StreamEnds, Read, Click,
                    registryVars
<1>3. CASE \E s \in Streams : \E f \in flight[s] : Press(s, f) \/ PressReturns(s, f)
  BY <1>1, <1>3, PressSweeps DEF PressReturns, registryVars
<1>4. CASE \E c \in Calls : AnswerHandled(c) \/ \E q \in told : AnswerReceived(c, q)
  BY <1>1, <1>4, AnswerSweeps DEF AnswerReceived, registryVars
<1>5. CASE Restore
  <2>1. callbacks' = [callbacks EXCEPT ![net] = saved.callbacks]
        /\ nextId' = [nextId EXCEPT ![net] = saved.nextId]
    BY <1>5 DEF Restore
  <2>2. g = net /\ Restoring
    BY <2>1 DEF Inv, TypeInv, Restoring
  <2>3. QED
    BY <2>2 DEF Leaves
<1>6. CASE \/ Tick \/ Reset \/ Snapshot \/ UNCHANGED vars
           \/ BotCall(<<[type |-> "message"]>>) \/ BotCall(<<>>)
  BY <1>1, <1>6 DEF Tick, Reset, Snapshot, BotCall, vars, registryVars
<1>7. QED
  BY <1>2, <1>3, <1>4, <1>5, <1>6 DEF Next

(* A query leaves its registry answered and in time, unanswered and late,   *)
(* or by a restore, and in no other way (network.py:218-240).              *)
THEOREM QueriesExpireOnTime == Spec => QueriesLiveTheirTime
<1>1. Inv /\ [Next]_vars =>
        [\A g \in Networks : \A r \in callbacks[g] \ callbacks'[g] : Leaves(g, r)]_vars
  BY QueriesLeave
<1>2. Spec =>
        [][\A g \in Networks : \A r \in callbacks[g] \ callbacks'[g] : Leaves(g, r)]_vars
  BY <1>1, Invariance, PTL DEF Spec
<1>3. QED
  BY <1>2 DEF QueriesLiveTheirTime, Leaves

=============================================================================
