--------------------------- MODULE MCUpdateQueue ---------------------------
(***************************************************************************)
(* Two requests, one waiter, two kinds of which chat_member is hidden by   *)
(* default.  Two updates are enough for one to be hidden below the other.  *)
(***************************************************************************)
EXTENDS UpdateQueue, TLC

CONSTANTS p1, p2, w1, message, chat_member

MCPollers == {p1, p2}
MCWaiters == {w1}
MCKinds == {message, chat_member}
MCExcluded == {chat_member}
MCSubscriptions == {{message, chat_member}}
MCOffsets == {0, 2}

Symmetry == Permutations(MCPollers)

=============================================================================
