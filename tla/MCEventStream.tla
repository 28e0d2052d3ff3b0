--------------------------- MODULE MCEventStream ---------------------------
(***************************************************************************)
(* One tab, one answerCallbackQuery call, two networks and a queue of two  *)
(* events, so that the answer of a press and its journal entry fill it.    *)
(* Two presses are enough for an id to be given out twice, three events    *)
(* for a queue to overflow.                                                *)
(***************************************************************************)
EXTENDS EventStream

CONSTANTS s1, c1

MCStreams == {s1}
MCCalls == {c1}

=============================================================================
