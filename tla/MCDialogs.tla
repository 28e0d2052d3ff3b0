----------------------------- MODULE MCDialogs -----------------------------
(***************************************************************************)
(* Two people who use the APIs, and two ids of bots, which are a person's  *)
(* until their tokens are used: people write to the bots, to each other,   *)
(* to themselves and to what is not yet a bot, and press by any of these   *)
(* ids.  Three messages are enough for two dialogs to have a message of    *)
(* the same number, with another button or another owner, and a talk       *)
(* beside them.                                                            *)
(***************************************************************************)
EXTENDS Dialogs, TLC

CONSTANTS p1, p2, b1, b2

MCPeople == {p1, p2}
MCBots == {b1, b2}

Symmetry == Permutations(MCPeople) \cup Permutations(MCBots)

=============================================================================
