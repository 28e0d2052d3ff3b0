----------------------------- MODULE MCGroupFeed -----------------------------
(* Two bots, each with a name of its own or both with the same.            *)
EXTENDS GroupFeed, TLC

CONSTANTS b1, b2, name1, name2

TwoBots == {b1, b2}
TwoNames == {name1, name2}

FeedSymmetry == Permutations(TwoBots) \cup Permutations(TwoNames)

=============================================================================
