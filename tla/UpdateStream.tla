---------------------------- MODULE UpdateStream ----------------------------
(***************************************************************************)
(* What getUpdates promises a bot, whatever requests, cancellations and    *)
(* subscriptions do to each other: an append-only stream, of which a part  *)
(* is shown; one reader at a time; an answer that is everything shown from *)
(* its offset on; and a mark of what is confirmed that only moves forward, *)
(* once for each reader.  UpdateQueue implements this.                     *)
(***************************************************************************)
EXTENDS Naturals

CONSTANTS
    Readers,  \* those who may read, one at a time
    Kinds,    \* kinds of update
    Offsets   \* where they may start; 0 is the beginning

VARIABLES
    next,       \* the id of the next update
    queue,      \* the updates kept
    shown,      \* those a reader would be given
    confirmed,  \* no id up to this one is needed any more
    reader,     \* nobody, or who reads, from where, and if it has begun
    given       \* the last answer of each reader

vars == <<next, queue, shown, confirmed, reader, given>>

Init ==
    /\ next = 1
    /\ queue = {}
    /\ shown = {}
    /\ confirmed = 0
    /\ reader = {}
    /\ given = [p \in Readers |-> {}]

\* An update of the next id, that is kept or goes elsewhere, shown or hidden.
Publish ==
    /\ next' = next + 1
    /\ \/ UNCHANGED <<queue, shown>>
       \/ \E kind \in Kinds :
            LET update == [id |-> next, kind |-> kind]
            IN  /\ queue' = queue \cup {update}
                /\ shown' \in {shown, shown \cup {update}}
    /\ UNCHANGED <<confirmed, reader, given>>

\* Updates that were hidden are shown.
More == \E more \in SUBSET (queue \ shown) : shown' = shown \cup more

Reveal ==
    /\ More
    /\ UNCHANGED <<next, queue, confirmed, reader, given>>

\* A new reader takes the place of the one that reads.
Ask(p) ==
    /\ \E offset \in Offsets :
        reader' = {[who |-> p, from |-> offset, begun |-> FALSE]}
    /\ given' = [given EXCEPT ![p] = {}]
    /\ More
    /\ UNCHANGED <<next, queue, confirmed>>

\* All that is shown from the reader's offset on.
Due(r) == {u \in shown : u.id >= r.from}

\* The reader looks, and confirms what is below its offset when it begins.
\* It leaves with what there is, or stays if there is nothing.
Look(r) ==
    /\ confirmed' = IF ~r.begun /\ r.from > confirmed + 1 THEN r.from - 1 ELSE confirmed
    /\ \/ /\ reader' = {}
          /\ given' = [given EXCEPT ![r.who] = Due(r)]
       \/ /\ Due(r) = {}
          /\ reader' = {[r EXCEPT !.begun = TRUE]}
          /\ UNCHANGED given
    /\ UNCHANGED <<next, queue, shown>>

\* The reader leaves with nothing.
Leave ==
    /\ reader' = {}
    /\ UNCHANGED <<next, queue, shown, confirmed, given>>

\* The answer of a reader that is not reading is lost.
Lose(p) ==
    /\ \A r \in reader : r.who # p
    /\ given' = [given EXCEPT ![p] = {}]
    /\ UNCHANGED <<next, queue, shown, confirmed, reader>>

Next ==
    \/ Publish
    \/ Reveal
    \/ \E p \in Readers : Ask(p) \/ Lose(p)
    \/ \E r \in reader : Look(r)
    \/ Leave

Spec == Init /\ [][Next]_vars

=============================================================================
